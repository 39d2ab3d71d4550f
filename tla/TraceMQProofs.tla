---------------------------- MODULE TraceMQProofs ----------------------------
(***************************************************************************)
(* Proofs about TraceMQ, and about WorkerRestart, the same link with       *)
(* workers that die and come back: for every number of workers, every set  *)
(* of images and every length of the stream.                               *)
(***************************************************************************)
EXTENDS WorkerRestart, SequenceTheorems, TLAPS

USE DEF Worker, NoRank

\* The initial state satisfies the inductive invariant.
LEMMA InitInv == Init => LinkInv
<1> SUFFICES ASSUME Init PROVE LinkInv
  OBVIOUS
<1> USE NWorkersAssumption, MaxImagesAssumption DEF Init
<1>1. TypeOK
  BY DEF TypeOK, ServerTypeOK, SocketTypeOK, WorkerTypeOK, ServerPc, WorkerPc
<1>2. Control
  BY DEF Control
<1>3. ASSUME NEW w \in Worker PROVE Link(w) /\ Delivery(w) /\ Announced(w)
  <2>1. Stage(w) = "hello" /\ Num(w) = 0
    BY DEF Stage, Num
  <2>2. Link(w)
    BY <2>1 DEF Link, Quiet
  <2>3. Delivery(w) /\ Announced(w)
    BY <2>1 DEF Delivery, Lacks, Announced
  <2> QED BY <2>2, <2>3
<1> QED BY <1>1, <1>2, <1>3 DEF LinkInv

\* What a step leaves alone: a worker whose stage, number, sockets and local
\* state it does not touch keeps its part of the invariant.
LEMMA Untouched ==
  ASSUME LinkInv, NEW w \in Worker,
         Stage(w)' = Stage(w), Num(w)' = Num(w), Lacks(w)' <=> Lacks(w),
         UNCHANGED <<req[w], rep[w], wpc[w], wseq[w], meta[w], got[w],
                     worker_ids[w], pushed>>
  PROVE  (Link(w) /\ Delivery(w) /\ Announced(w))'
<1>1. Link(w) /\ Delivery(w) /\ Announced(w) /\ Current' = Current
  BY DEF LinkInv, Current
<1>2. Link(w)'
  BY <1>1 DEF Link, Quiet, Told, Asks
<1>3. Delivery(w)' /\ Announced(w)'
  BY <1>1 DEF Delivery, Announced
<1> QED BY <1>2, <1>3

\* The loops of server.c, each with the one that follows it.
Loops == {<<"others", "info">>, <<"info", "ready">>, <<"ready", "idle">>,
          <<"push", "check">>, <<"check", "idle">>, <<"fin", "finack">>,
          <<"finack", "done">>}

\* The stage a turn of the loop takes its worker to.
StageAfter(loop) == CASE loop = "others" -> "greeted"
                      [] loop = "info"   -> "told"
                      [] loop = "ready"  -> "ready"
                      [] loop = "push"   -> "data"
                      [] loop = "check"  -> "ready"
                      [] loop = "fin"    -> "ending"
                      [] loop = "finack" -> "over"

\* The end of a turn moves the worker of that turn to its next stage and number,
\* and no other worker, whether the loop goes on or ends.
LEMMA TurnMoves ==
  ASSUME ServerTypeOK, NEW v \in Worker, v = i,
         NEW here, NEW next, <<here, next>> \in Loops,
         spc = here \/ (spc = "main" /\ here = "others" /\ i = 0),
         EndOfTurn(NWorkers, here, next)
  PROVE  /\ Stage(v)' = StageAfter(here) /\ Num(v) = seq /\ Num(v)' = seq + 1
         /\ \A w \in Worker \ {v} : /\ Stage(w)' = Stage(w) /\ Num(w)' = Num(w)
                                    /\ \A p \in {"push", "fin"} :
                                         (spc = p /\ w >= i)' <=> (spc = p /\ w >= i)
         /\ i' \in Worker /\ seq' \in Nat
         /\ (spc' = here /\ i' > 0) \/ (spc' = next /\ i' = 0)
<1> USE NWorkersAssumption
<1>1. i \in Worker /\ seq \in Nat
  BY DEF ServerTypeOK
<1>2. CASE here = "others" /\ next = "info"
  BY <1>1, <1>2 DEF EndOfTurn, Stage, Num, StageAfter
<1>3. CASE here = "info" /\ next = "ready"
  BY <1>1, <1>3 DEF EndOfTurn, Stage, Num, StageAfter
<1>4. CASE here = "ready" /\ next = "idle"
  BY <1>1, <1>4 DEF EndOfTurn, Stage, Num, StageAfter
<1>5. CASE here = "push" /\ next = "check"
  BY <1>1, <1>5 DEF EndOfTurn, Stage, Num, StageAfter
<1>6. CASE here = "check" /\ next = "idle"
  BY <1>1, <1>6 DEF EndOfTurn, Stage, Num, StageAfter
<1>7. CASE here = "fin" /\ next = "finack"
  BY <1>1, <1>7 DEF EndOfTurn, Stage, Num, StageAfter
<1>8. CASE here = "finack" /\ next = "done"
  BY <1>1, <1>8 DEF EndOfTurn, Stage, Num, StageAfter
<1> QED BY <1>2, <1>3, <1>4, <1>5, <1>6, <1>7, <1>8 DEF Loops

\* A turn of a loop that takes message m from worker v.
LEMMA TakeTurn ==
  ASSUME LinkInv, NEW v \in Worker, v = i,
         NEW here, NEW next, <<here, next>> \in Loops,
         spc = here \/ (spc = "main" /\ here = "others" /\ i = 0), here # "push",
         NEW pc, NEW m, Asks(v, pc, m),
         Take, EndOfTurn(NWorkers, here, next), n_workers' = NWorkers,
         \A w \in Worker \ {v} : worker_ids'[w] = worker_ids[w],
         worker_ids' \in [Worker -> Worker \cup {NoRank}],
         UNCHANGED <<pushed, rep, workerVars>>
  PROVE  /\ TypeOK' /\ Control'
         /\ Quiet(v, pc)' /\ Stage(v)' = StageAfter(here) /\ ~Lacks(v)'
         /\ \A w \in Worker \ {v} : (Link(w) /\ Delivery(w) /\ Announced(w))'
<1> USE NWorkersAssumption
<1>1. TypeOK /\ Control
  BY DEF LinkInv
<1>2. /\ Stage(v)' = StageAfter(here) /\ Num(v) = seq /\ Num(v)' = seq + 1
      /\ \A w \in Worker \ {v} : Stage(w)' = Stage(w) /\ Num(w)' = Num(w)
      /\ i' \in Worker /\ seq' \in Nat
      /\ (spc' = here /\ i' > 0) \/ (spc' = next /\ i' = 0)
  BY <1>1, TurnMoves, Zenon DEF TypeOK
<1>3. req' = [req EXCEPT ![v] = <<>>]
  <2>1. req[i] = <<m>>
    BY DEF Asks
  <2> QED BY <2>1 DEF Take
<1>4. SocketTypeOK'
  <2>1. <<>> \in Seq(Request)
    OBVIOUS
  <2> QED BY <1>1, <1>3, <2>1 DEF TypeOK, SocketTypeOK
<1>5. ServerTypeOK' /\ WorkerTypeOK'
  BY <1>1, <1>2 DEF TypeOK, ServerTypeOK, WorkerTypeOK, ServerPc, Loops, workerVars
<1>6. Control'
  BY <1>1, <1>2 DEF Control, Loops
<1>7. Quiet(v, pc)'
  BY <1>1, <1>2, <1>3 DEF Quiet, Asks, TypeOK, SocketTypeOK, workerVars
<1>8. spc' # "push" /\ spc # "push"
  BY <1>2 DEF Loops
<1>9. ~Lacks(v)'
  BY <1>7, <1>8 DEF Lacks, Quiet
<1>10. ASSUME NEW w \in Worker \ {v} PROVE (Link(w) /\ Delivery(w) /\ Announced(w))'
  <2>1. UNCHANGED <<req[w], rep[w], wpc[w], wseq[w], meta[w], got[w], worker_ids[w], pushed>>
    BY <1>1, <1>3, <1>10 DEF TypeOK, SocketTypeOK, workerVars
  <2>2. Lacks(w)' <=> Lacks(w)
    BY <1>2, <1>8, <1>10, <2>1 DEF Lacks
  <2> QED BY <1>2, <2>1, <2>2, Untouched
<1> QED BY <1>2, <1>4, <1>5, <1>6, <1>7, <1>9, <1>10 DEF TypeOK

\* A turn of a loop that sends message m to worker v.
LEMMA SendTurn ==
  ASSUME LinkInv, NEW v \in Worker, v = i,
         NEW here, NEW next, <<here, next>> \in Loops, here \in {"info", "push", "fin"},
         NEW pc, Quiet(v, pc), NEW m \in Response, Send(m, here, next)
  PROVE  /\ TypeOK' /\ Control'
         /\ Told(v, pc, m)' /\ Stage(v)' = StageAfter(here) /\ Num(v)' = seq + 1
         /\ \A w \in Worker \ {v} : (Link(w) /\ Delivery(w) /\ Announced(w))'
<1> USE NWorkersAssumption
<1>1. TypeOK /\ Control /\ spc = here /\ n_workers = NWorkers
  BY DEF LinkInv, Control, Send
<1>2. EndOfTurn(NWorkers, here, next)
  BY <1>1 DEF Send
<1>3. /\ Stage(v)' = StageAfter(here) /\ Num(v) = seq /\ Num(v)' = seq + 1
      /\ \A w \in Worker \ {v} : /\ Stage(w)' = Stage(w) /\ Num(w)' = Num(w)
                                 /\ (spc = "push" /\ w >= i)' <=> (spc = "push" /\ w >= i)
      /\ i' \in Worker /\ seq' \in Nat
      /\ (spc' = here /\ i' > 0) \/ (spc' = next /\ i' = 0)
  BY <1>1, <1>2, TurnMoves DEF TypeOK
<1>4. /\ rep' = [rep EXCEPT ![v] = <<m>>]
      /\ UNCHANGED <<n_workers, worker_ids, pushed, req, workerVars>>
  BY <1>1 DEF Send, Reply, Quiet, TypeOK, SocketTypeOK
<1>5. SocketTypeOK'
  <2>1. <<m>> \in Seq(Response)
    OBVIOUS
  <2> QED BY <1>1, <1>4, <2>1 DEF TypeOK, SocketTypeOK
<1>6. ServerTypeOK' /\ WorkerTypeOK'
  BY <1>1, <1>3, <1>4 DEF TypeOK, ServerTypeOK, WorkerTypeOK, ServerPc, Loops, workerVars
<1>7. Control'
  BY <1>1, <1>3, <1>4 DEF Control, Loops
<1>8. Told(v, pc, m)'
  BY <1>1, <1>3, <1>4 DEF Quiet, Told, TypeOK, SocketTypeOK, workerVars, ServerTypeOK
<1>9. ASSUME NEW w \in Worker \ {v} PROVE (Link(w) /\ Delivery(w) /\ Announced(w))'
  <2>1. UNCHANGED <<req[w], rep[w], wpc[w], wseq[w], meta[w], got[w], worker_ids[w], pushed>>
    BY <1>1, <1>4, <1>9 DEF TypeOK, SocketTypeOK, workerVars
  <2>2. Lacks(w)' <=> Lacks(w)
    BY <1>3, <1>9, <2>1 DEF Lacks
  <2> QED BY <1>3, <2>1, <2>2, Untouched
<1> QED BY <1>3, <1>5, <1>6, <1>7, <1>8, <1>9 DEF TypeOK

\* The conjuncts of the invariant, for the worker a step is about.
LEMMA Parts ==
  ASSUME TypeOK', Control', NEW v \in Worker,
         (Link(v) /\ Delivery(v) /\ Announced(v))',
         \A w \in Worker \ {v} : (Link(w) /\ Delivery(w) /\ Announced(w))'
  PROVE  LinkInv'
BY DEF LinkInv

LEMMA RecvMainInv == LinkInv /\ RecvMain => LinkInv'
<1> SUFFICES ASSUME LinkInv, RecvMain PROVE LinkInv'
  OBVIOUS
<1>1. TypeOK /\ Control /\ spc = "main" /\ i = 0
  BY DEF LinkInv, Control, RecvMain
<1>2. PICK v \in Worker : v = i
  BY <1>1 DEF TypeOK, ServerTypeOK
<1>3. Stage(v) = "hello" /\ Num(v) = seq /\ Link(v) /\ Delivery(v) /\ Announced(v)
  BY <1>1, <1>2 DEF LinkInv, Stage, Num
<1>4. Asks(v, "info", InfoReq(seq, v, NWorkers))
  BY <1>2, <1>3 DEF Link, Quiet, RecvMain, Asked
<1>5. Msg.comm_size = NWorkers /\ Msg.comm_rank = v
  BY <1>2, <1>4 DEF Msg, Asks, InfoReq
<1>6. /\ Take /\ EndOfTurn(NWorkers, "others", "info") /\ n_workers' = NWorkers
      /\ worker_ids' = [worker_ids EXCEPT ![v] = v]
      /\ UNCHANGED <<pushed, rep, workerVars>>
  BY <1>1, <1>2, <1>5 DEF RecvMain
<1>7. /\ worker_ids' \in [Worker -> Worker \cup {NoRank}] /\ worker_ids'[v] = v
      /\ \A w \in Worker \ {v} : worker_ids'[w] = worker_ids[w]
  BY <1>1, <1>6 DEF TypeOK, ServerTypeOK
<1>8. /\ TypeOK' /\ Control'
      /\ Quiet(v, "info")' /\ Stage(v)' = StageAfter("others") /\ ~Lacks(v)'
      /\ \A w \in Worker \ {v} : (Link(w) /\ Delivery(w) /\ Announced(w))'
  <2>1. <<"others", "info">> \in Loops
    BY DEF Loops
  <2> QED BY <1>1, <1>2, <1>4, <1>6, <1>7, <2>1, TakeTurn
<1>9. Link(v)'
  BY <1>7, <1>8 DEF Link, StageAfter
<1>10. Delivery(v)' /\ Announced(v)'
  BY <1>1, <1>3, <1>6, <1>8 DEF Delivery, Announced, Lacks, workerVars
<1> QED BY <1>8, <1>9, <1>10, Parts

LEMMA RecvOtherInv == LinkInv /\ RecvOther => LinkInv'
<1> SUFFICES ASSUME LinkInv, RecvOther PROVE LinkInv'
  OBVIOUS
<1>1. TypeOK /\ Control /\ spc = "others" /\ n_workers = NWorkers
  BY DEF LinkInv, Control, RecvOther
<1>2. PICK v \in Worker : v = i
  BY <1>1 DEF TypeOK, ServerTypeOK
<1>3. Stage(v) = "hello" /\ Num(v) = seq /\ Link(v) /\ Delivery(v) /\ Announced(v)
  BY <1>1, <1>2 DEF LinkInv, Stage, Num
<1>4. Asks(v, "info", InfoReq(seq, v, NWorkers))
  BY <1>2, <1>3 DEF Link, Quiet, RecvOther, Asked
<1>5. Msg.seq_n = seq /\ Msg.comm_rank = v
  BY <1>2, <1>4 DEF Msg, Asks, InfoReq
<1>6. /\ Take /\ EndOfTurn(NWorkers, "others", "info") /\ n_workers' = NWorkers
      /\ worker_ids' = [worker_ids EXCEPT ![v] = v]
      /\ UNCHANGED <<pushed, rep, workerVars>>
  BY <1>1, <1>2, <1>5 DEF RecvOther
<1>7. /\ worker_ids' \in [Worker -> Worker \cup {NoRank}] /\ worker_ids'[v] = v
      /\ \A w \in Worker \ {v} : worker_ids'[w] = worker_ids[w]
  BY <1>1, <1>6 DEF TypeOK, ServerTypeOK
<1>8. /\ TypeOK' /\ Control'
      /\ Quiet(v, "info")' /\ Stage(v)' = StageAfter("others") /\ ~Lacks(v)'
      /\ \A w \in Worker \ {v} : (Link(w) /\ Delivery(w) /\ Announced(w))'
  <2>1. <<"others", "info">> \in Loops
    BY DEF Loops
  <2> QED BY <1>1, <1>2, <1>4, <1>6, <1>7, <2>1, TakeTurn
<1>9. Link(v)'
  BY <1>7, <1>8 DEF Link, StageAfter
<1>10. Delivery(v)' /\ Announced(v)'
  BY <1>1, <1>3, <1>6, <1>8 DEF Delivery, Announced, Lacks, workerVars
<1> QED BY <1>8, <1>9, <1>10, Parts

\* A loop of expected messages: whatever is there is what it expects.
LEMMA ExpectTurn ==
  ASSUME LinkInv, NEW v \in Worker, v = i,
         NEW type, NEW here, NEW next,
         <<here, next>> \in Loops, here \in {"ready", "check", "finack"},
         NEW pc, NEW m, m.type = type, m.seq_n = seq, Asks(v, pc, m),
         Expect(type, here, next), Delivery(v), rep[v] = <<>>, Announced(v)
  PROVE  /\ TypeOK' /\ Control'
         /\ Quiet(v, pc)' /\ Stage(v)' = StageAfter(here)
         /\ Delivery(v)' /\ Announced(v)'
         /\ \A w \in Worker \ {v} : (Link(w) /\ Delivery(w) /\ Announced(w))'
<1>1. TypeOK /\ Control /\ spc = here /\ n_workers = NWorkers
  BY DEF LinkInv, Control, Expect
<1>2. Msg = m
  BY DEF Msg, Asks
<1>3. /\ Take /\ EndOfTurn(NWorkers, here, next)
      /\ UNCHANGED <<n_workers, worker_ids, pushed, rep, workerVars>>
  BY <1>1, <1>2 DEF Expect
<1>4. worker_ids' \in [Worker -> Worker \cup {NoRank}]
  BY <1>1, <1>3 DEF TypeOK, ServerTypeOK
<1>5. /\ TypeOK' /\ Control'
      /\ Quiet(v, pc)' /\ Stage(v)' = StageAfter(here) /\ ~Lacks(v)'
      /\ \A w \in Worker \ {v} : (Link(w) /\ Delivery(w) /\ Announced(w))'
  BY <1>1, <1>3, <1>4, TakeTurn
<1>6. ~Lacks(v)
  BY <1>1 DEF Lacks
<1>7. Delivery(v)' /\ Announced(v)'
  BY <1>3, <1>5, <1>6 DEF Delivery, Announced, workerVars
<1> QED BY <1>5, <1>7

LEMMA RecvReadyInv == LinkInv /\ RecvReady => LinkInv'
<1> SUFFICES ASSUME LinkInv, RecvReady PROVE LinkInv'
  OBVIOUS
<1>1. TypeOK /\ spc = "ready" /\ <<"ready", "idle">> \in Loops
  BY DEF LinkInv, RecvReady, Expect, Loops
<1>2. PICK v \in Worker : v = i
  BY <1>1 DEF TypeOK, ServerTypeOK
<1>3. Stage(v) = "told" /\ Num(v) = seq /\ Link(v) /\ Delivery(v) /\ Announced(v)
  BY <1>1, <1>2 DEF LinkInv, Stage, Num
<1>4. Asks(v, "DATA", DataReq(seq)) /\ rep[v] = <<>>
  BY <1>2, <1>3 DEF Link, Told, Asks, RecvReady, Expect, Asked
<1>5. DataReq(seq).type = "DATA_REQ" /\ DataReq(seq).seq_n = seq
  BY DEF DataReq
<1>6. Expect("DATA_REQ", "ready", "idle")
  BY DEF RecvReady
<1>7. /\ TypeOK' /\ Control'
      /\ Quiet(v, "DATA")' /\ Stage(v)' = StageAfter("ready")
      /\ Delivery(v)' /\ Announced(v)'
      /\ \A w \in Worker \ {v} : (Link(w) /\ Delivery(w) /\ Announced(w))'
  BY <1>1, <1>2, <1>3, <1>4, <1>5, <1>6, ExpectTurn
<1>8. Link(v)'
  BY <1>7 DEF Link, StageAfter
<1> QED BY <1>7, <1>8, Parts

LEMMA RecvAckInv == LinkInv /\ RecvAck => LinkInv'
<1> SUFFICES ASSUME LinkInv, RecvAck PROVE LinkInv'
  OBVIOUS
<1>1. TypeOK /\ spc = "check" /\ <<"check", "idle">> \in Loops
  BY DEF LinkInv, RecvAck, Expect, Loops
<1>2. PICK v \in Worker : v = i
  BY <1>1 DEF TypeOK, ServerTypeOK
<1>3. Stage(v) = "data" /\ Num(v) = seq /\ Link(v) /\ Delivery(v) /\ Announced(v)
  BY <1>1, <1>2 DEF LinkInv, Stage, Num
<1>4. Asks(v, "DATA", DataReq(seq)) /\ rep[v] = <<>>
  BY <1>2, <1>3 DEF Link, Told, Asks, RecvAck, Expect, Asked
<1>5. DataReq(seq).type = "DATA_REQ" /\ DataReq(seq).seq_n = seq
  BY DEF DataReq
<1>6. Expect("DATA_REQ", "check", "idle")
  BY DEF RecvAck
<1>7. /\ TypeOK' /\ Control'
      /\ Quiet(v, "DATA")' /\ Stage(v)' = StageAfter("check")
      /\ Delivery(v)' /\ Announced(v)'
      /\ \A w \in Worker \ {v} : (Link(w) /\ Delivery(w) /\ Announced(w))'
  BY <1>1, <1>2, <1>3, <1>4, <1>5, <1>6, ExpectTurn
<1>8. Link(v)'
  BY <1>7 DEF Link, StageAfter
<1> QED BY <1>7, <1>8, Parts

LEMMA RecvFinInv == LinkInv /\ RecvFin => LinkInv'
<1> SUFFICES ASSUME LinkInv, RecvFin PROVE LinkInv'
  OBVIOUS
<1>1. TypeOK /\ spc = "finack" /\ <<"finack", "done">> \in Loops
  BY DEF LinkInv, RecvFin, Expect, Loops
<1>2. PICK v \in Worker : v = i
  BY <1>1 DEF TypeOK, ServerTypeOK
<1>3. Stage(v) = "ending" /\ Num(v) = seq /\ Link(v) /\ Delivery(v) /\ Announced(v)
  BY <1>1, <1>2 DEF LinkInv, Stage, Num
<1>4. Asks(v, "FIN", FinRep(seq)) /\ rep[v] = <<>>
  BY <1>2, <1>3 DEF Link, Told, Asks, RecvFin, Expect, Asked
<1>5. FinRep(seq).type = "FIN_REP" /\ FinRep(seq).seq_n = seq
  BY DEF FinRep
<1>6. Expect("FIN_REP", "finack", "done")
  BY DEF RecvFin
<1>7. /\ TypeOK' /\ Control'
      /\ Quiet(v, "FIN")' /\ Stage(v)' = StageAfter("finack")
      /\ Delivery(v)' /\ Announced(v)'
      /\ \A w \in Worker \ {v} : (Link(w) /\ Delivery(w) /\ Announced(w))'
  BY <1>1, <1>2, <1>3, <1>4, <1>5, <1>6, ExpectTurn
<1>8. Link(v)'
  BY <1>7 DEF Link, StageAfter
<1> QED BY <1>7, <1>8, Parts

LEMMA SendInfoInv == LinkInv /\ SendInfo => LinkInv'
<1> SUFFICES ASSUME LinkInv, SendInfo PROVE LinkInv'
  OBVIOUS
<1>1. TypeOK /\ spc = "info" /\ <<"info", "ready">> \in Loops /\ seq \in Nat
  BY DEF LinkInv, SendInfo, Send, Loops, TypeOK, ServerTypeOK
<1>2. PICK v \in Worker : v = i
  BY <1>1 DEF TypeOK, ServerTypeOK
<1>3. Stage(v) = "greeted" /\ Num(v) = seq /\ Link(v) /\ Delivery(v) /\ Announced(v)
  BY <1>1, <1>2 DEF LinkInv, Stage, Num
<1>4. Quiet(v, "info") /\ worker_ids[v] = v
  BY <1>3 DEF Link
<1>5. PICK m \in Response : m = InfoRep(seq, v)
  BY <1>1 DEF InfoRep, Response
<1>6. Send(m, "info", "ready")
  BY <1>2, <1>4, <1>5 DEF SendInfo
<1>7. /\ TypeOK' /\ Control'
      /\ Told(v, "info", m)' /\ Stage(v)' = StageAfter("info") /\ Num(v)' = seq + 1
      /\ \A w \in Worker \ {v} : (Link(w) /\ Delivery(w) /\ Announced(w))'
  BY <1>1, <1>2, <1>4, <1>6, SendTurn
<1>8. m = InfoRep(Num(v)' - 1, v)
  BY <1>1, <1>5, <1>7
<1>9. Link(v)'
  BY <1>7, <1>8 DEF Link, StageAfter
<1>10. Delivery(v)' /\ Announced(v)'
  <2>1. ~Lacks(v)
    BY <1>1, <1>3 DEF Lacks
  <2>2. ~Lacks(v)' /\ UNCHANGED <<pushed, got, meta, wpc>>
    BY <1>1, <1>6, <1>7 DEF Lacks, StageAfter, Send, EndOfTurn, workerVars
  <2> QED BY <1>3, <2>1, <2>2 DEF Delivery, Announced
<1> QED BY <1>7, <1>9, <1>10, Parts

LEMMA SendImageInv == LinkInv /\ SendImage => LinkInv'
<1> SUFFICES ASSUME LinkInv, SendImage PROVE LinkInv'
  OBVIOUS
<1>1. TypeOK /\ spc = "push" /\ <<"push", "check">> \in Loops /\ seq \in Nat
  BY DEF LinkInv, SendImage, Send, Loops, TypeOK, ServerTypeOK
<1>2. PICK v \in Worker : v = i
  BY <1>1 DEF TypeOK, ServerTypeOK
<1>3. Stage(v) = "ready" /\ Num(v) = seq /\ Link(v) /\ Delivery(v) /\ Announced(v)
  BY <1>1, <1>2 DEF LinkInv, Stage, Num
<1>4. Quiet(v, "DATA")
  BY <1>3 DEF Link
<1>5. Current \in Image /\ pushed = Append(got[v], Current) /\ pushed # <<>>
  <2>1. pushed # <<>> /\ pushed = Append(got[v], Current)
    BY <1>1, <1>2, <1>3 DEF Delivery, Lacks, TypeOK, ServerTypeOK
  <2>2. Len(pushed) \in 1 .. Len(pushed)
    BY <1>1, <2>1 DEF TypeOK, ServerTypeOK
  <2> QED BY <1>1, <2>1, <2>2 DEF Current, TypeOK, ServerTypeOK
<1>6. PICK m \in Response : m = DataRep(seq, Current, v)
  BY <1>1, <1>5 DEF DataRep, Response
<1>7. Send(m, "push", "check") /\ Current' = Current
  BY <1>2, <1>6 DEF SendImage, Current, Send
<1>8. /\ TypeOK' /\ Control'
      /\ Told(v, "DATA", m)' /\ Stage(v)' = StageAfter("push") /\ Num(v)' = seq + 1
      /\ \A w \in Worker \ {v} : (Link(w) /\ Delivery(w) /\ Announced(w))'
  BY <1>1, <1>2, <1>4, <1>7, SendTurn
<1>9. m = DataRep(Num(v)' - 1, Current', v)
  BY <1>1, <1>6, <1>7, <1>8
<1>10. Link(v)'
  BY <1>8, <1>9 DEF Link, StageAfter
<1>11. Lacks(v)' /\ UNCHANGED <<pushed, got, meta, wpc>>
  BY <1>7, <1>8 DEF Lacks, Told, StageAfter, Send, workerVars
<1>12. Delivery(v)' /\ Announced(v)'
  BY <1>3, <1>5, <1>7, <1>11 DEF Delivery, Announced
<1> QED BY <1>8, <1>10, <1>12, Parts

LEMMA SendFinInv == LinkInv /\ SendFin => LinkInv'
<1> SUFFICES ASSUME LinkInv, SendFin PROVE LinkInv'
  OBVIOUS
<1>1. TypeOK /\ spc = "fin" /\ <<"fin", "finack">> \in Loops /\ seq \in Nat
  BY DEF LinkInv, SendFin, Send, Loops, TypeOK, ServerTypeOK
<1>2. PICK v \in Worker : v = i
  BY <1>1 DEF TypeOK, ServerTypeOK
<1>3. Stage(v) = "ready" /\ Num(v) = seq /\ Link(v) /\ Delivery(v) /\ Announced(v)
  BY <1>1, <1>2 DEF LinkInv, Stage, Num
<1>4. Quiet(v, "DATA")
  BY <1>3 DEF Link
<1>5. PICK m \in Response : m = FinRep(seq)
  BY <1>1 DEF FinRep, Response
<1>6. Send(m, "fin", "finack")
  BY <1>2, <1>5 DEF SendFin
<1>7. /\ TypeOK' /\ Control'
      /\ Told(v, "DATA", m)' /\ Stage(v)' = StageAfter("fin") /\ Num(v)' = seq + 1
      /\ \A w \in Worker \ {v} : (Link(w) /\ Delivery(w) /\ Announced(w))'
  BY <1>1, <1>2, <1>4, <1>6, SendTurn
<1>8. m = FinRep(Num(v)' - 1)
  BY <1>1, <1>5, <1>7
<1>9. Link(v)'
  BY <1>7, <1>8 DEF Link, StageAfter
<1>10. Delivery(v)' /\ Announced(v)'
  <2>1. ~Lacks(v)
    BY <1>1, <1>3 DEF Lacks
  <2>2. ~Lacks(v)' /\ UNCHANGED <<pushed, got, meta, wpc>>
    BY <1>1, <1>6, <1>7 DEF Lacks, StageAfter, Send, EndOfTurn, workerVars
  <2> QED BY <1>3, <2>1, <2>2 DEF Delivery, Announced
<1> QED BY <1>7, <1>9, <1>10, Parts

\* The calls: the loops start at index 0, so no worker's stage or number moves.
LEMMA PushImageInv == LinkInv /\ (\E x \in Image : PushImage(x)) => LinkInv'
<1> SUFFICES ASSUME LinkInv, NEW x \in Image, PushImage(x) PROVE LinkInv'
  OBVIOUS
<1> USE NWorkersAssumption
<1>1. TypeOK /\ Control /\ spc = "idle" /\ i = 0 /\ spc' = "push"
  BY DEF LinkInv, Control, PushImage
<1>2. pushed' = Append(pushed, x) /\ pushed' \in Seq(Image) /\ Len(pushed') <= MaxImages
  BY <1>1, MaxImagesAssumption DEF PushImage, TypeOK, ServerTypeOK
<1>3. Current' = x /\ pushed' # <<>>
  BY <1>1, <1>2 DEF Current, TypeOK, ServerTypeOK
<1>4. UNCHANGED <<i, seq, n_workers, worker_ids, req, rep, wpc, wseq, meta, got>>
  BY DEF PushImage, workerVars
<1>5. TypeOK'
  BY <1>1, <1>2, <1>4 DEF TypeOK, ServerTypeOK, SocketTypeOK, WorkerTypeOK, ServerPc
<1>6. Control'
  BY <1>1, <1>4 DEF Control
<1>7. ASSUME NEW w \in Worker PROVE (Link(w) /\ Delivery(w) /\ Announced(w))'
  <2>1. Stage(w) = "ready" /\ Stage(w)' = "ready" /\ Num(w)' = Num(w)
    BY <1>1, <1>4 DEF Stage, Num
  <2>2. Link(w) /\ Delivery(w) /\ Announced(w)
    BY DEF LinkInv
  <2>3. Link(w)'
    BY <1>4, <2>1, <2>2 DEF Link, Quiet
  <2>4. ~Lacks(w) /\ Lacks(w)'
    BY <1>1, <1>4, <2>1 DEF Lacks
  <2>5. Delivery(w)'
    BY <1>2, <1>3, <1>4, <2>2, <2>4 DEF Delivery
  <2> QED BY <1>4, <2>2, <2>3, <2>5 DEF Announced
<1> QED BY <1>5, <1>6, <1>7 DEF LinkInv

LEMMA DoneImageInv == LinkInv /\ (DoneImage \/ Finalize) => LinkInv'
<1> SUFFICES ASSUME LinkInv, DoneImage \/ Finalize PROVE LinkInv'
  OBVIOUS
<1> USE NWorkersAssumption
<1>1. TypeOK /\ Control /\ i = 0
  BY DEF LinkInv, Control, DoneImage, Finalize
<1>2. UNCHANGED <<i, seq, n_workers, worker_ids, pushed, req, rep, wpc, wseq, meta, got>>
  BY DEF DoneImage, Finalize, workerVars
<1>3. (spc = "idle" /\ spc' = "fin") \/ (spc = "done" /\ spc' = "closed")
  BY DEF DoneImage, Finalize
<1>4. TypeOK' /\ Control'
  BY <1>1, <1>2, <1>3 DEF TypeOK, ServerTypeOK, SocketTypeOK, WorkerTypeOK, ServerPc, Control
<1>5. ASSUME NEW w \in Worker PROVE (Link(w) /\ Delivery(w) /\ Announced(w))'
  <2>1. Stage(w)' = Stage(w) /\ Num(w)' = Num(w)
    BY <1>1, <1>2, <1>3 DEF Stage, Num
  <2>2. Lacks(w)' <=> Lacks(w)
    BY <1>2, <1>3, <2>1 DEF Lacks
  <2> QED BY <1>2, <2>1, <2>2, Untouched
<1> QED BY <1>4, <1>5 DEF LinkInv

\* A step of one worker leaves the distributor and the other workers alone.
LEMMA WorkerMoves ==
  ASSUME LinkInv, NEW v \in Worker, UNCHANGED serverVars,
         \A w \in Worker \ {v} : UNCHANGED <<req[w], rep[w], wpc[w], wseq[w], meta[w], got[w]>>
  PROVE  /\ Control'
         /\ Stage(v)' = Stage(v) /\ Num(v)' = Num(v) /\ Current' = Current
         /\ \A w \in Worker \ {v} : (Link(w) /\ Delivery(w) /\ Announced(w))'
<1>1. UNCHANGED <<spc, i, seq, n_workers, worker_ids, pushed>>
  BY DEF serverVars
<1>2. \A w \in Worker : Stage(w)' = Stage(w) /\ Num(w)' = Num(w)
  BY <1>1 DEF Stage, Num
<1>3. Control'
  BY <1>1 DEF Control, LinkInv
<1>4. ASSUME NEW w \in Worker \ {v} PROVE (Link(w) /\ Delivery(w) /\ Announced(w))'
  <2>1. Lacks(w)' <=> Lacks(w)
    BY <1>1, <1>2 DEF Lacks
  <2> QED BY <1>1, <1>2, <2>1, Untouched
<1> QED BY <1>1, <1>2, <1>3, <1>4 DEF Current

LEMMA SendInfoReqInv == ASSUME NEW v \in Worker PROVE LinkInv /\ SendInfoReq(v) => LinkInv'
<1> SUFFICES ASSUME LinkInv, SendInfoReq(v) PROVE LinkInv'
  OBVIOUS
<1> USE NWorkersAssumption
<1>1. TypeOK /\ Link(v) /\ Delivery(v) /\ Announced(v) /\ Num(v) \in Nat
  BY DEF LinkInv, TypeOK, ServerTypeOK, Num
<1>2. Stage(v) = "hello" /\ Quiet(v, "start")
  BY <1>1 DEF SendInfoReq, Link, Quiet, Told, Asks, Stage
<1>3. PICK m \in Request : m = InfoReq(Num(v), v, NWorkers)
  BY <1>1 DEF InfoReq, Request
<1>4. /\ req' = [req EXCEPT ![v] = <<m>>]
      /\ wseq' = [wseq EXCEPT ![v] = Num(v) + 1]
      /\ wpc' = [wpc EXCEPT ![v] = "info"]
      /\ UNCHANGED <<serverVars, rep, meta, got>>
  BY <1>1, <1>2, <1>3 DEF SendInfoReq, Quiet, TypeOK, SocketTypeOK, WorkerTypeOK
<1>5. TypeOK'
  <2>1. <<m>> \in Seq(Request)
    OBVIOUS
  <2>2. SocketTypeOK'
    BY <1>1, <1>4, <2>1 DEF TypeOK, SocketTypeOK
  <2>3. WorkerTypeOK'
    <3>1. wseq' \in [Worker -> Nat]
      BY <1>1, <1>4 DEF TypeOK, WorkerTypeOK
    <3>2. wpc' \in [Worker -> WorkerPc]
      BY <1>1, <1>4 DEF TypeOK, WorkerTypeOK, WorkerPc
    <3> QED BY <1>1, <1>4, <3>1, <3>2 DEF TypeOK, WorkerTypeOK
  <2>4. ServerTypeOK'
    BY <1>1, <1>4 DEF TypeOK, ServerTypeOK, serverVars
  <2> QED BY <2>2, <2>3, <2>4 DEF TypeOK
<1>6. /\ Control'
      /\ Stage(v)' = Stage(v) /\ Num(v)' = Num(v)
      /\ \A w \in Worker \ {v} : (Link(w) /\ Delivery(w) /\ Announced(w))'
  BY <1>1, <1>4, WorkerMoves DEF TypeOK, SocketTypeOK, WorkerTypeOK
<1>7. Asks(v, "info", m)'
  BY <1>1, <1>2, <1>4, <1>6 DEF Asks, Quiet, TypeOK, SocketTypeOK, WorkerTypeOK
<1>8. Link(v)'
  BY <1>2, <1>3, <1>6, <1>7 DEF Link
<1>9. Delivery(v)' /\ Announced(v)'
  BY <1>1, <1>2, <1>4, <1>6
     DEF Delivery, Lacks, Announced, Quiet, TypeOK, WorkerTypeOK, serverVars, Current
<1> QED BY <1>5, <1>6, <1>8, <1>9, Parts

LEMMA RecvInfoRepInv == ASSUME NEW v \in Worker PROVE LinkInv /\ RecvInfoRep(v) => LinkInv'
<1> SUFFICES ASSUME LinkInv, RecvInfoRep(v) PROVE LinkInv'
  OBVIOUS
<1> USE NWorkersAssumption
<1>1. TypeOK /\ Link(v) /\ Delivery(v) /\ Announced(v) /\ Num(v) \in Nat
  BY DEF LinkInv, TypeOK, ServerTypeOK, Num
<1>2. Stage(v) = "told" /\ Told(v, "info", InfoRep(Num(v) - 1, v))
  BY <1>1 DEF RecvInfoRep, Link, Quiet, Told, Asks, Stage
<1>3. PICK m \in Request : m = DataReq(Num(v))
  BY <1>1 DEF DataReq, Request
<1>4. Head(rep[v]).seq_n = wseq[v] /\ Head(rep[v]).part = v /\ Tail(rep[v]) = <<>>
  BY <1>2 DEF Told, InfoRep
<1>5. wseq[v] + 1 = Num(v) /\ wseq[v] + 2 = Num(v) + 1
  BY <1>1, <1>2 DEF Told
<1>6. /\ req' = [req EXCEPT ![v] = <<m>>]
      /\ rep' = [rep EXCEPT ![v] = <<>>]
      /\ wseq' = [wseq EXCEPT ![v] = Num(v) + 1]
      /\ wpc' = [wpc EXCEPT ![v] = "DATA"]
      /\ meta' = [meta EXCEPT ![v] = v]
      /\ UNCHANGED <<serverVars, got>>
  <2>1. Answer(v, DataReq(wseq[v] + 1))
    BY <1>4 DEF RecvInfoRep
  <2>2. req[v] = <<>> /\ Append(req[v], DataReq(wseq[v] + 1)) = <<m>>
    BY <1>2, <1>3, <1>5 DEF Told
  <2>3. req' = [req EXCEPT ![v] = <<m>>] /\ wseq' = [wseq EXCEPT ![v] = Num(v) + 1]
    BY <2>1, <2>2, <1>5 DEF Answer
  <2> QED BY <2>3, <1>4 DEF RecvInfoRep
<1>7. TypeOK'
  <2>1. <<m>> \in Seq(Request) /\ <<>> \in Seq(Response)
    OBVIOUS
  <2>2. SocketTypeOK' /\ WorkerTypeOK'
    BY <1>1, <1>6, <2>1 DEF TypeOK, SocketTypeOK, WorkerTypeOK, WorkerPc
  <2>3. ServerTypeOK'
    BY <1>1, <1>6 DEF TypeOK, ServerTypeOK, serverVars
  <2> QED BY <2>2, <2>3 DEF TypeOK
<1>8. /\ Control'
      /\ Stage(v)' = Stage(v) /\ Num(v)' = Num(v)
      /\ \A w \in Worker \ {v} : (Link(w) /\ Delivery(w) /\ Announced(w))'
  BY <1>1, <1>6, WorkerMoves DEF TypeOK, SocketTypeOK, WorkerTypeOK
<1>9. Asks(v, "DATA", m)'
  BY <1>1, <1>6, <1>8 DEF Asks, TypeOK, SocketTypeOK, WorkerTypeOK
<1>10. Link(v)'
  BY <1>2, <1>3, <1>8, <1>9 DEF Link
<1>11. Delivery(v)' /\ Announced(v)'
  BY <1>1, <1>2, <1>6, <1>8
     DEF Delivery, Lacks, Announced, TypeOK, WorkerTypeOK, serverVars, Stage
<1> QED BY <1>7, <1>8, <1>10, <1>11, Parts

\* What ReceiveMsg finds: an image, or the end, with the expected number.
LEMMA Finds ==
  ASSUME NEW v \in Worker, LinkInv, ReceiveMsg(v)
  PROVE  \/ Stage(v) = "data" /\ Told(v, "DATA", DataRep(Num(v) - 1, Current, v))
         \/ Stage(v) = "ending" /\ Told(v, "DATA", FinRep(Num(v) - 1))
<1>1. Link(v)
  BY DEF LinkInv
<1> QED BY <1>1 DEF ReceiveMsg, Link, Quiet, Told, Asks, Stage

LEMMA ReceiveMsgInv == ASSUME NEW v \in Worker PROVE LinkInv /\ ReceiveMsg(v) => LinkInv'
<1> SUFFICES ASSUME LinkInv, ReceiveMsg(v) PROVE LinkInv'
  OBVIOUS
<1> USE NWorkersAssumption
<1>1. TypeOK /\ Link(v) /\ Delivery(v) /\ Announced(v) /\ Num(v) \in Nat
  BY DEF LinkInv, TypeOK, ServerTypeOK, Num
<1>2. \/ Stage(v) = "data" /\ Told(v, "DATA", DataRep(Num(v) - 1, Current, v))
      \/ Stage(v) = "ending" /\ Told(v, "DATA", FinRep(Num(v) - 1))
  BY Finds
<1>3. wseq[v] + 1 = Num(v) /\ wseq[v] + 2 = Num(v) + 1 /\ req[v] = <<>>
  BY <1>1, <1>2 DEF Told
<1>4. CASE Stage(v) = "data" /\ Told(v, "DATA", DataRep(Num(v) - 1, Current, v))
  <2>1. PICK m \in Request : m = DataReq(Num(v))
    BY <1>1 DEF DataReq, Request
  <2>2. /\ Head(rep[v]).seq_n = wseq[v] /\ Head(rep[v]).type = "DATA_REP"
        /\ Head(rep[v]).image = Current /\ Tail(rep[v]) = <<>>
    BY <1>4 DEF Told, DataRep
  <2>3. Delivery(v) /\ Lacks(v) /\ pushed # <<>> /\ pushed = Append(got[v], Current)
    BY <1>1, <1>4 DEF Delivery, Lacks, Told
  <2>4. /\ req' = [req EXCEPT ![v] = <<m>>]
        /\ rep' = [rep EXCEPT ![v] = <<>>]
        /\ wseq' = [wseq EXCEPT ![v] = Num(v) + 1]
        /\ got' = [got EXCEPT ![v] = pushed]
        /\ UNCHANGED <<serverVars, wpc, meta>>
    <3>1. Answer(v, DataReq(wseq[v] + 1)) /\ got' = [got EXCEPT ![v] = Append(@, Current)]
          /\ UNCHANGED <<serverVars, wpc, meta>> /\ rep' = [rep EXCEPT ![v] = <<>>]
      BY <2>2 DEF ReceiveMsg
    <3>2. Append(req[v], DataReq(wseq[v] + 1)) = <<m>>
      BY <2>1, <1>3
    <3> QED BY <3>1, <3>2, <1>3, <2>3 DEF Answer
  <2>5. TypeOK'
    <3>1. <<m>> \in Seq(Request) /\ <<>> \in Seq(Response)
      OBVIOUS
    <3>2. SocketTypeOK'
      BY <1>1, <2>4, <3>1 DEF TypeOK, SocketTypeOK
    <3>3. pushed \in Seq(Image)
      BY <1>1 DEF TypeOK, ServerTypeOK
    <3>4. WorkerTypeOK'
      <4>1. wseq' \in [Worker -> Nat]
        BY <1>1, <2>4 DEF TypeOK, WorkerTypeOK
      <4>2. got' \in [Worker -> Seq(Image)]
        BY <1>1, <2>4, <3>3 DEF TypeOK, WorkerTypeOK
      <4> QED BY <1>1, <2>4, <4>1, <4>2 DEF TypeOK, WorkerTypeOK
    <3>5. ServerTypeOK'
      BY <1>1, <2>4 DEF TypeOK, ServerTypeOK, serverVars
    <3> QED BY <3>2, <3>4, <3>5 DEF TypeOK
  <2>6. /\ Control'
        /\ Stage(v)' = Stage(v) /\ Num(v)' = Num(v)
        /\ \A w \in Worker \ {v} : (Link(w) /\ Delivery(w) /\ Announced(w))'
    BY <1>1, <2>4, WorkerMoves DEF TypeOK, SocketTypeOK, WorkerTypeOK
  <2>7. Asks(v, "DATA", m)'
    BY <1>1, <1>4, <2>4, <2>6 DEF Asks, Told, TypeOK, SocketTypeOK, WorkerTypeOK
  <2>8. Link(v)'
    BY <1>4, <2>1, <2>6, <2>7 DEF Link
  <2>9. ~Lacks(v)' /\ pushed' = pushed
    <3>1. ~(spc = "push" /\ v >= i)
      BY <1>1, <1>4 DEF Stage, TypeOK, ServerTypeOK
    <3> QED BY <3>1, <2>4, <2>7 DEF Lacks, Asks, serverVars
  <2>10. Delivery(v)' /\ Announced(v)'
    BY <1>1, <2>4, <2>9 DEF Delivery, Announced, TypeOK, WorkerTypeOK
  <2> QED BY <2>5, <2>6, <2>8, <2>10, Parts
<1>5. CASE Stage(v) = "ending" /\ Told(v, "DATA", FinRep(Num(v) - 1))
  <2>1. PICK m \in Request : m = FinRep(Num(v))
    BY <1>1 DEF FinRep, Request
  <2>2. /\ Head(rep[v]).seq_n = wseq[v] /\ Head(rep[v]).type = "FIN_REP"
        /\ Tail(rep[v]) = <<>>
    BY <1>5 DEF Told, FinRep
  <2>3. /\ req' = [req EXCEPT ![v] = <<m>>]
        /\ rep' = [rep EXCEPT ![v] = <<>>]
        /\ wseq' = [wseq EXCEPT ![v] = Num(v) + 1]
        /\ wpc' = [wpc EXCEPT ![v] = "FIN"]
        /\ UNCHANGED <<serverVars, meta, got>>
    <3>1. Answer(v, FinRep(wseq[v] + 1)) /\ wpc' = [wpc EXCEPT ![v] = "FIN"]
          /\ UNCHANGED <<serverVars, meta, got>> /\ rep' = [rep EXCEPT ![v] = <<>>]
      BY <2>2 DEF ReceiveMsg
    <3>2. Append(req[v], FinRep(wseq[v] + 1)) = <<m>>
      BY <2>1, <1>3
    <3> QED BY <3>1, <3>2, <1>3 DEF Answer
  <2>4. TypeOK'
    <3>1. <<m>> \in Seq(Request) /\ <<>> \in Seq(Response)
      OBVIOUS
    <3>2. SocketTypeOK' /\ WorkerTypeOK'
      BY <1>1, <2>3, <3>1 DEF TypeOK, SocketTypeOK, WorkerTypeOK, WorkerPc
    <3>3. ServerTypeOK'
      BY <1>1, <2>3 DEF TypeOK, ServerTypeOK, serverVars
    <3> QED BY <3>2, <3>3 DEF TypeOK
  <2>5. /\ Control'
        /\ Stage(v)' = Stage(v) /\ Num(v)' = Num(v)
        /\ \A w \in Worker \ {v} : (Link(w) /\ Delivery(w) /\ Announced(w))'
    BY <1>1, <2>3, WorkerMoves DEF TypeOK, SocketTypeOK, WorkerTypeOK
  <2>6. Asks(v, "FIN", m)'
    BY <1>1, <1>5, <2>3, <2>5 DEF Asks, Told, TypeOK, SocketTypeOK, WorkerTypeOK
  <2>7. Link(v)'
    BY <1>5, <2>1, <2>5, <2>6 DEF Link
  <2>8. ~Lacks(v) /\ ~Lacks(v)' /\ UNCHANGED <<pushed, got, meta>>
    BY <1>5, <2>3, <2>5 DEF Lacks, serverVars, Stage
  <2>9. Delivery(v)' /\ Announced(v)'
    BY <1>1, <1>5, <2>3, <2>8 DEF Delivery, Announced, Told, TypeOK, WorkerTypeOK
  <2> QED BY <2>4, <2>5, <2>7, <2>9, Parts
<1> QED BY <1>2, <1>4, <1>5

\* The invariant is inductive.
LEMMA NextInv == LinkInv /\ [Next]_vars => LinkInv'
<1> SUFFICES ASSUME LinkInv, [Next]_vars PROVE LinkInv'
  OBVIOUS
<1>1. CASE ServerStep
  BY <1>1, RecvMainInv, RecvOtherInv, SendInfoInv, RecvReadyInv, SendImageInv, RecvAckInv,
     SendFinInv, RecvFinInv, DoneImageInv DEF ServerStep
<1>2. CASE Caller
  BY <1>2, DoneImageInv, PushImageInv DEF Caller
<1>3. CASE \E w \in Worker : WorkerStep(w)
  BY <1>3, SendInfoReqInv, RecvInfoRepInv, ReceiveMsgInv DEF WorkerStep
<1>4. CASE UNCHANGED vars
  <2>1. UNCHANGED <<spc, i, seq, n_workers, worker_ids, pushed, req, rep,
                    wpc, wseq, meta, got>>
    BY <1>4 DEF vars
  <2>2. TypeOK' /\ Control'
    BY <2>1 DEF LinkInv, TypeOK, ServerTypeOK, SocketTypeOK, WorkerTypeOK, Control
  <2>3. ASSUME NEW w \in Worker PROVE (Link(w) /\ Delivery(w) /\ Announced(w))'
    BY <2>1, Untouched DEF Stage, Num, Lacks
  <2> QED BY <2>2, <2>3 DEF LinkInv
<1> QED BY <1>1, <1>2, <1>3, <1>4 DEF Next, Finished

-----------------------------------------------------------------------------
\* The inductive invariant holds of every behaviour.
THEOREM LinkInvariant == Safe => []LinkInv
<1>1. Init => LinkInv
  BY InitInv
<1>2. LinkInv /\ [Next]_vars => LinkInv'
  BY NextInv
<1> QED BY <1>1, <1>2, PTL DEF Safe

\* Type correctness.
THEOREM TypeCorrect == Safe => []TypeOK
<1>1. LinkInv => TypeOK
  BY DEF LinkInv
<1> QED BY <1>1, LinkInvariant, PTL

\* The states a socket pair can be in, with the worker behind it.
LEMMA SocketStates ==
  ASSUME LinkInv, NEW w \in Worker
  PROVE  \E pc \in {"start", "info", "DATA", "FIN"} :
           Quiet(w, pc) \/ \E m : Told(w, pc, m) \/ Asks(w, pc, m)
<1>1. Link(w)
  BY DEF LinkInv
<1>2. Stage(w) \in {"hello", "greeted", "told", "ready", "data", "ending", "over"}
  BY DEF Stage
<1> QED BY <1>1, <1>2 DEF Link

LEMMA NoAbort == LinkInv => NoAssertFails
<1> SUFFICES ASSUME LinkInv PROVE NoAssertFails
  OBVIOUS
<1>1. spc # "abort"
  BY DEF LinkInv, Control
<1>2. ASSUME NEW w \in Worker PROVE wpc[w] # "abort"
  BY SocketStates DEF Quiet, Told, Asks
<1> QED BY <1>1, <1>2 DEF NoAssertFails

\* No assert on a message type or a sequence number can fail, in any process,
\* for any number of workers and any stream.
THEOREM AssertsHold == Safe => []NoAssertFails
BY NoAbort, LinkInvariant, PTL

\* Each REQ/REP pair alternates: one message at most is under way.
THEOREM Alternation == Safe => []OneInFlight
<1>1. LinkInv => OneInFlight
  <2> SUFFICES ASSUME LinkInv, NEW w \in Worker PROVE Len(req[w]) + Len(rep[w]) <= 1
    BY DEF OneInFlight
  <2>1. \/ req[w] = <<>> /\ rep[w] = <<>>
        \/ \E m : req[w] = <<>> /\ rep[w] = <<m>>
        \/ \E m : req[w] = <<m>> /\ rep[w] = <<>>
    BY SocketStates DEF Quiet, Told, Asks
  <2>2. CASE req[w] = <<>> /\ rep[w] = <<>>
    BY <2>2
  <2>3. ASSUME NEW m, req[w] = <<>> /\ rep[w] = <<m>>
        PROVE  Len(req[w]) + Len(rep[w]) <= 1
    BY <2>3
  <2>4. ASSUME NEW m, req[w] = <<m>> /\ rep[w] = <<>>
        PROVE  Len(req[w]) + Len(rep[w]) <= 1
    BY <2>4
  <2> QED BY <2>1, <2>2, <2>3, <2>4
<1> QED BY <1>1, LinkInvariant, PTL

\* push_image returns only when every worker holds every image pushed so far, and
\* the end of the stream is announced only then.
THEOREM Barrier == Safe => []PushIsABarrier
<1>1. LinkInv => PushIsABarrier
  <2> SUFFICES ASSUME LinkInv, NEW w \in Worker,
                      spc \in {"idle", "fin", "finack", "done", "closed"}
               PROVE  got[w] = pushed
    BY DEF PushIsABarrier
  <2>1. Delivery(w) /\ ~Lacks(w)
    BY DEF LinkInv, Lacks, Stage
  <2> QED BY <2>1 DEF Delivery
<1> QED BY <1>1, LinkInvariant, PTL

\* The rows of every data message are the rows announced to the worker it goes to.
THEOREM RowsMatch == Safe => []RowsAsAnnounced
<1>1. LinkInv => RowsAsAnnounced
  <2> SUFFICES ASSUME LinkInv, NEW w \in Worker, NEW k \in DOMAIN rep[w],
                      rep[w][k].type = "DATA_REP"
               PROVE  rep[w][k].part = meta[w]
    BY DEF RowsAsAnnounced
  <2>1. Link(w) /\ Announced(w)
    BY DEF LinkInv
  <2>2. rep[w] # <<>>
    OBVIOUS
  <2>3. \/ Told(w, "info", InfoRep(Num(w) - 1, w))
        \/ Told(w, "DATA", DataRep(Num(w) - 1, Current, w))
        \/ Told(w, "DATA", FinRep(Num(w) - 1))
    BY <2>1, <2>2 DEF Link, Quiet, Asks, Stage
  <2>4. Told(w, "DATA", DataRep(Num(w) - 1, Current, w)) /\ k = 1
    BY <2>3 DEF Told, InfoRep, DataRep, FinRep
  <2>5. rep[w][k].part = w
    BY <2>4 DEF Told, DataRep
  <2> QED BY <2>1, <2>4, <2>5 DEF Announced, Told
<1> QED BY <1>1, LinkInvariant, PTL

-----------------------------------------------------------------------------
(***************************************************************************)
(* The link implements LockstepBroadcast: every step of it is a step of    *)
(* the abstract specification or leaves the abstract variables alone.      *)
(***************************************************************************)
LEMMA InitAbs == Init => Abs!Init
BY DEF Init, Abs!Init, Ended, Stopped

\* A step of the distributor's loops is invisible.
LEMMA ServerAbs == LinkInv /\ LinkInv' /\ ServerStep => UNCHANGED <<pushed, got, Ended, Stopped>>
<1> SUFFICES ASSUME LinkInv, LinkInv', ServerStep
             PROVE  UNCHANGED <<pushed, got, Ended, Stopped>>
  OBVIOUS
<1>1. UNCHANGED <<pushed, got, wpc>>
  BY DEF ServerStep, RecvMain, RecvOther, SendInfo, RecvReady, SendImage, RecvAck,
         SendFin, RecvFin, Finalize, Expect, Send, workerVars
<1>2. spc' # "abort"
  BY DEF LinkInv, Control
<1>3. Ended' = Ended
  BY <1>2 DEF ServerStep, RecvMain, RecvOther, SendInfo, RecvReady, SendImage, RecvAck,
         SendFin, RecvFin, Finalize, Expect, Send, EndOfTurn, ServerAbort, Ended
<1> QED BY <1>1, <1>3 DEF Stopped

\* push_image and done_image are called when everybody is up to date.
LEMMA CallerAbs == LinkInv /\ Caller => Abs!Next
<1> SUFFICES ASSUME LinkInv, Caller PROVE Abs!Next
  OBVIOUS
<1>1. spc = "idle"
  BY DEF Caller, DoneImage, PushImage
<1>2. Abs!UpToDate
  <2> SUFFICES ASSUME NEW w \in Worker PROVE got[w] = pushed
    BY DEF Abs!UpToDate
  <2>1. Delivery(w) /\ ~Lacks(w)
    BY <1>1 DEF LinkInv, Lacks, Stage
  <2> QED BY <2>1 DEF Delivery
<1>3. ~Ended
  BY <1>1 DEF Ended
<1>4. CASE DoneImage
  <2>1. Ended' /\ UNCHANGED <<pushed, got, Stopped>>
    BY <1>4 DEF DoneImage, Ended, Stopped, workerVars
  <2>2. Ended' = TRUE
    BY <2>1 DEF Ended
  <2> QED BY <1>2, <1>3, <2>1, <2>2 DEF Abs!Next, Abs!Close
<1>5. ASSUME NEW x \in Image, PushImage(x) PROVE Abs!Push(x)
  <2>1. ~Ended' /\ UNCHANGED <<got, Stopped>>
    BY <1>5 DEF PushImage, Ended, Stopped, workerVars
  <2>2. Ended' = Ended
    BY <1>3, <2>1 DEF Ended
  <2> QED BY <1>2, <1>3, <1>5, <2>1, <2>2 DEF Abs!Push, PushImage
<1> QED BY <1>4, <1>5 DEF Caller, Abs!Next

LEMMA NoAbortNext == LinkInv' => NoAssertFails'
BY NoAbort, PTL

\* A worker delivers an image, or learns of the end, or does neither.
LEMMA WorkerAbs ==
  ASSUME NEW w \in Worker, LinkInv, LinkInv', WorkerStep(w)
  PROVE  Abs!Deliver(w) \/ Abs!Stop(w) \/ UNCHANGED <<pushed, got, Ended, Stopped>>
<1>1. TypeOK /\ Delivery(w) /\ wpc'[w] # "abort"
  BY NoAbortNext DEF LinkInv, NoAssertFails
<1>2. UNCHANGED <<spc, pushed, i>> /\ Ended' = Ended
  BY DEF WorkerStep, SendInfoReq, RecvInfoRep, ReceiveMsg, serverVars, Ended
<1>3. wpc \in [Worker -> WorkerPc] /\ got \in [Worker -> Seq(Image)] /\ pushed \in Seq(Image)
  BY <1>1 DEF TypeOK, ServerTypeOK, WorkerTypeOK
<1>4. CASE SendInfoReq(w) \/ RecvInfoRep(w)
  <2>1. wpc' = [wpc EXCEPT ![w] = wpc'[w]] /\ got' = got
    BY <1>4, <1>3 DEF SendInfoReq, RecvInfoRep, WorkerAbort
  <2>2. wpc[w] # "FIN" /\ wpc'[w] # "FIN"
    BY <1>4, <1>3 DEF SendInfoReq, RecvInfoRep, WorkerAbort
  <2>3. Stopped' = Stopped
    BY <1>3, <2>1, <2>2 DEF Stopped
  <2> QED BY <1>2, <2>1, <2>3
<1>5. CASE ReceiveMsg(w) /\ Head(rep[w]).type = "DATA_REP" /\ Head(rep[w]).seq_n = wseq[w]
  <2>1. got' = [got EXCEPT ![w] = Append(@, Head(rep[w]).image)] /\ UNCHANGED wpc
    BY <1>5 DEF ReceiveMsg
  <2>2. rep[w] = <<DataRep(Num(w) - 1, Current, w)>> /\ Stage(w) = "data"
    <3>1. \/ Stage(w) = "data" /\ Told(w, "DATA", DataRep(Num(w) - 1, Current, w))
          \/ Stage(w) = "ending" /\ Told(w, "DATA", FinRep(Num(w) - 1))
      BY <1>5, Finds
    <3>2. ~Told(w, "DATA", FinRep(Num(w) - 1))
      BY <1>5 DEF Told, FinRep
    <3> QED BY <3>1, <3>2 DEF Told
  <2>3. Head(rep[w]).image = Current /\ Lacks(w)
    BY <2>2 DEF DataRep, Lacks
  <2>4. pushed = Append(got[w], Current)
    BY <1>1, <2>3 DEF Delivery
  <2>5. Current = pushed[Len(got[w]) + 1] /\ got[w] # pushed
    BY <1>3, <2>4
  <2>6. Stopped' = Stopped
    BY <2>1 DEF Stopped
  <2> QED BY <1>2, <2>1, <2>3, <2>5, <2>6 DEF Abs!Deliver
<1>6. CASE ReceiveMsg(w) /\ Head(rep[w]).type = "FIN_REP" /\ Head(rep[w]).seq_n = wseq[w]
  <2>1. wpc' = [wpc EXCEPT ![w] = "FIN"] /\ got' = got /\ wpc[w] = "DATA"
    BY <1>6 DEF ReceiveMsg
  <2>2. Stage(w) = "ending"
    <3>1. \/ Stage(w) = "data" /\ Told(w, "DATA", DataRep(Num(w) - 1, Current, w))
          \/ Stage(w) = "ending" /\ Told(w, "DATA", FinRep(Num(w) - 1))
      BY <1>6, Finds
    <3>2. ~Told(w, "DATA", DataRep(Num(w) - 1, Current, w))
      BY <1>6 DEF Told, DataRep
    <3> QED BY <3>1, <3>2
  <2>3. Ended
    BY <2>2 DEF Stage, Ended
  <2>4. w \notin Stopped /\ Stopped' = Stopped \cup {w}
    BY <1>3, <2>1 DEF Stopped
  <2> QED BY <1>2, <2>1, <2>3, <2>4 DEF Abs!Stop
<1> QED BY <1>1, <1>3, <1>4, <1>5, <1>6 DEF WorkerStep, ReceiveMsg, WorkerAbort

\* The safety part of the refinement, for every number of workers and stream.
THEOREM Refinement == Safe => Abs!Safe
<1>1. Init => Abs!Init
  BY InitAbs
<1>2. LinkInv /\ LinkInv' /\ [Next]_vars => [Abs!Next]_(Abs!vars)
  <2> SUFFICES ASSUME LinkInv, LinkInv', [Next]_vars PROVE Abs!Next \/ UNCHANGED Abs!vars
    OBVIOUS
  <2>1. CASE UNCHANGED vars
    BY <2>1 DEF vars, Abs!vars, Ended, Stopped
  <2>2. CASE ServerStep
    BY <2>2, ServerAbs DEF Abs!vars
  <2>3. CASE Caller
    BY <2>3, CallerAbs
  <2>4. CASE \E w \in Worker : WorkerStep(w)
    BY <2>4, WorkerAbs DEF Abs!vars, Abs!Next
  <2> QED BY <2>1, <2>2, <2>3, <2>4 DEF Next, Finished
<1> QED BY <1>1, <1>2, LinkInvariant, PTL DEF Safe, Abs!Safe

-----------------------------------------------------------------------------
(* WorkerRestart.  Its inductive invariant says nothing of an aborted      *)
(* distributor.                                                            *)

\* What a process says first, under number 0, whichever process of rank w it is.
Hello(w) == InfoReq(0, w, NWorkers)

\* The distributor's turn at w has sent what w must answer.
Waiting(w) == Stage(w) \in {"told", "data", "ending"}

\* The message that is owed an answer, and the answer.
Sent(w) == CASE Stage(w) = "told"   -> InfoRep(Num(w) - 1, w)
              [] Stage(w) = "data"   -> DataRep(Num(w) - 1, Current, w)
              [] Stage(w) = "ending" -> FinRep(Num(w) - 1)
Owed(w) == IF Stage(w) = "ending" THEN FinRep(Num(w)) ELSE DataReq(Num(w))

\* Where the answers are among the messages of rank w.
Answers(w) == {k \in DOMAIN req[w] : req[w][k].type # "DATAINFO_REQ"}

\* All images rank w has got, in whichever process.
Total(w) == ever[w] \o got[w]

FaultTypeOK ==
  /\ program \in {"sirt_stream", "worker"}
  /\ req \in [Worker -> Seq(Request)]
  /\ DOMAIN rep = Worker
  /\ from \in [Worker -> Seq(BOOLEAN)]
  /\ peer \in [Worker -> BOOLEAN]
  /\ wpc \in [Worker -> WorkerPc \cup {"dead"}]
  /\ wseq \in [Worker -> Nat]
  /\ DOMAIN meta = Worker
  /\ got \in [Worker -> Seq(Image)]
  /\ ever \in [Worker -> Seq(Image)]

\* The socket holds greetings, of the living and of the dead, and one answer at
\* most, to the message of this turn; at most one message is of a process that
\* lives.
SocketOK(w) ==
  /\ Len(from[w]) = Len(req[w])
  /\ \A k \in DOMAIN req[w] : \/ req[w][k] = Hello(w)
                              \/ Waiting(w) /\ req[w][k] = Owed(w)
  /\ \A k, l \in Answers(w) : k = l
  /\ \A k \in Answers(w) : from[w][k] <=> peer[w]
  /\ \A k, l \in DOMAIN from[w] : from[w][k] /\ from[w][l] => k = l
  /\ \/ rep[w] = <<>>
     \/ peer[w] /\ Waiting(w) /\ Answers(w) = {} /\ rep[w] = <<Sent(w)>>

\* The process the socket would answer keeps pace with the distributor ...
PeerOK(w) ==
  /\ Stage(w) # "hello"
  /\ Stage(w) = "greeted" => worker_ids[w] = w
  /\ \A k \in DOMAIN from[w] : from[w][k] => k \in Answers(w)
  /\ ~Waiting(w) =>
       /\ wseq[w] = Num(w)
       /\ wpc[w] = CASE Stage(w) = "greeted" -> "info"
                     [] Stage(w) = "ready"   -> "DATA"
                     [] Stage(w) = "over"    -> "FIN"
  /\ Waiting(w) /\ rep[w] # <<>> =>
       /\ wseq[w] = Num(w) - 1
       /\ wpc[w] = IF Stage(w) = "told" THEN "info" ELSE "DATA"
  /\ Waiting(w) /\ rep[w] = <<>> =>
       /\ wseq[w] = Num(w) + 1
       /\ wpc[w] = IF Stage(w) = "ending" THEN "FIN" ELSE "DATA"
       /\ Answers(w) # {}

\* ... and any other has said hello at most.
StrangerOK(w) ==
  /\ wpc[w] \in {"dead", "start", "info"}
  /\ wseq[w] = IF wpc[w] = "info" THEN 1 ELSE 0
  /\ wpc[w] # "info" => \A k \in DOMAIN from[w] : ~from[w][k]

\* An image not yet sent to w, or on its way, is the only one the rank lacks; one
\* that is answered it has.  Of an image sent to nobody, or lost with a process,
\* nothing is said: nobody will answer it.
GotOK(w) ==
  /\ (spc = "push" /\ w >= i) \/ (Stage(w) = "data" /\ rep[w] # <<>>) =>
       pushed # <<>> /\ pushed = Append(Total(w), Current)
  /\ ~(spc = "push" /\ w >= i) /\ (Stage(w) = "data" => Answers(w) # {}) =>
       Total(w) = pushed

RankOK(w) == /\ SocketOK(w)
             /\ IF peer[w] THEN PeerOK(w) ELSE StrangerOK(w)
             /\ GotOK(w)

\* Rank w will not answer in this call of push_image or done_image: there is
\* nobody to send to, or nobody left of those it was sent to.
Stuck(w) == \/ spc \in {"push", "fin"} /\ w >= i /\ ~peer[w]
            \/ Stage(w) \in {"data", "ending"} /\ Answers(w) = {} /\ rep[w] = <<>>

DoomOK == doomed /\ spc \in {"push", "check", "fin", "finack"} => \E w \in Worker : Stuck(w)

\* The distributor goes on: all of this holds.
Going ==
  /\ ServerTypeOK /\ Control /\ FaultTypeOK
  /\ spc \in {"main", "others"} => seq = 0
  /\ \A w \in Worker : RankOK(w)
  /\ DoomOK

RestartInv == spc # "abort" => Going

-----------------------------------------------------------------------------

\* The initial state satisfies the inductive invariant.
LEMMA RestartInitInv == RestartInit => Going
<1> SUFFICES ASSUME RestartInit PROVE Going
  OBVIOUS
<1> USE NWorkersAssumption, MaxImagesAssumption DEF RestartInit, Init
<1>1. ServerTypeOK /\ Control /\ FaultTypeOK /\ seq = 0
  BY DEF ServerTypeOK, ServerPc, Control, FaultTypeOK, WorkerPc
<1>2. ASSUME NEW w \in Worker PROVE RankOK(w)
  <2>1. Stage(w) = "hello" /\ Num(w) = 0
    BY DEF Stage, Num
  <2>2. SocketOK(w) /\ StrangerOK(w)
    BY <2>1 DEF SocketOK, Answers, StrangerOK
  <2>3. Total(w) = <<>> /\ GotOK(w)
    BY <2>1 DEF GotOK, Total
  <2> QED BY <2>2, <2>3 DEF RankOK
<1> QED BY <1>1, <1>2 DEF Going, DoomOK

\* A rank that a step does not touch keeps its part of the invariant, and goes on
\* not answering if it will not.
LEMMA RankUntouched ==
  ASSUME NEW w \in Worker, RankOK(w),
         Stage(w)' = Stage(w), Num(w)' = Num(w),
         \A p \in {"push", "fin"} : (spc = p /\ w >= i)' <=> (spc = p /\ w >= i),
         UNCHANGED <<req[w], rep[w], from[w], peer[w], wpc[w], wseq[w], got[w], ever[w],
                     worker_ids[w], pushed>>
  PROVE  RankOK(w)' /\ (Stuck(w) => Stuck(w)')
<1>1. /\ Current' = Current /\ Answers(w)' = Answers(w) /\ Total(w)' = Total(w)
      /\ Waiting(w)' = Waiting(w)
  BY DEF Current, Answers, Total, Waiting
<1>2. Sent(w)' = Sent(w) /\ Owed(w)' = Owed(w) /\ Hello(w)' = Hello(w)
  BY <1>1 DEF Sent, Owed, Hello
<1>3. SocketOK(w)'
  BY <1>1, <1>2 DEF RankOK, SocketOK
<1>4. peer[w] => PeerOK(w)'
  BY <1>1 DEF RankOK, PeerOK
<1>5. ~peer[w] => StrangerOK(w)'
  BY DEF RankOK, StrangerOK
<1>6. GotOK(w)'
  BY <1>1 DEF RankOK, GotOK
<1>7. RankOK(w)'
  BY <1>3, <1>4, <1>5, <1>6 DEF RankOK
<1>8. Stuck(w) => Stuck(w)'
  BY <1>1 DEF Stuck
<1> QED BY <1>7, <1>8

\* The messages but the first.
LEMMA TailOf ==
  ASSUME NEW S, NEW s \in Seq(S), s # <<>>
  PROVE  /\ Tail(s) \in Seq(S) /\ Len(Tail(s)) = Len(s) - 1 /\ Head(s) = s[1]
         /\ Len(s) \in Nat /\ 1 \in DOMAIN s
         /\ \A k \in DOMAIN Tail(s) : k + 1 \in DOMAIN s /\ k + 1 # 1 /\ Tail(s)[k] = s[k + 1]
OBVIOUS

\* A turn of a loop of the distributor that goes on: the rank of the turn moves to
\* its next stage, and the others are as they were.
LEMMA TurnGoesOn ==
  ASSUME Going, NEW v \in Worker, v = i,
         NEW here, NEW next, <<here, next>> \in Loops,
         spc = here \/ (spc = "main" /\ here = "others" /\ i = 0),
         EndOfTurn(NWorkers, here, next), n_workers' = NWorkers,
         worker_ids' \in [Worker -> Worker \cup {NoRank}],
         UNCHANGED <<pushed, workerVars, program, ever, doomed>>,
         \A w \in Worker \ {v} : UNCHANGED <<worker_ids[w], req[w], rep[w], from[w], peer[w]>>
  PROVE  /\ ServerTypeOK' /\ Control' /\ (spc' \in {"main", "others"} => seq' = 0)
         /\ Stage(v)' = StageAfter(here) /\ Num(v) = seq /\ Num(v)' = seq + 1
         /\ (spc = "push" /\ v >= i) <=> here = "push"
         /\ ~(spc' = "push" /\ v >= i')
         /\ \A w \in Worker \ {v} : RankOK(w)' /\ (Stuck(w) => Stuck(w)')
         /\ spc' = here \/ spc' = next
<1> USE NWorkersAssumption
<1>1. ServerTypeOK /\ Control /\ FaultTypeOK
  BY DEF Going
<1>2. /\ Stage(v)' = StageAfter(here) /\ Num(v) = seq /\ Num(v)' = seq + 1
      /\ \A w \in Worker \ {v} : /\ Stage(w)' = Stage(w) /\ Num(w)' = Num(w)
                                 /\ \A p \in {"push", "fin"} :
                                      (spc = p /\ w >= i)' <=> (spc = p /\ w >= i)
      /\ i' \in Worker /\ seq' \in Nat
      /\ (spc' = here /\ i' > 0) \/ (spc' = next /\ i' = 0)
  BY <1>1, TurnMoves, Zenon
<1>3. ServerTypeOK'
  BY <1>1, <1>2 DEF ServerTypeOK, ServerPc, Loops
<1>4. Control'
  BY <1>1, <1>2 DEF Control, Loops
<1>5. spc' \in {"main", "others"} => seq' = 0
  BY <1>1, <1>2 DEF Going, Loops, EndOfTurn
<1>6. (spc = "push" /\ v >= i) <=> here = "push"
  BY <1>1 DEF ServerTypeOK, Loops
<1>7. ~(spc' = "push" /\ v >= i')
  BY <1>1, <1>2 DEF ServerTypeOK, Loops, EndOfTurn
<1>8. ASSUME NEW w \in Worker \ {v} PROVE RankOK(w)' /\ (Stuck(w) => Stuck(w)')
  <2>1. UNCHANGED <<req[w], rep[w], from[w], peer[w], worker_ids[w], pushed>>
    OBVIOUS
  <2>2. UNCHANGED <<wpc[w], wseq[w], got[w], ever[w]>>
    BY DEF workerVars
  <2>3. RankOK(w)
    BY DEF Going
  <2> QED BY <1>2, <2>1, <2>2, <2>3, RankUntouched
<1> QED BY <1>2, <1>3, <1>4, <1>5, <1>6, <1>7, <1>8

\* The conjuncts of the invariant, for the rank a step is about.
LEMMA GoingParts ==
  ASSUME ServerTypeOK', Control', FaultTypeOK', (spc' \in {"main", "others"} => seq' = 0),
         NEW v \in Worker, RankOK(v)', \A w \in Worker \ {v} : RankOK(w)', DoomOK'
  PROVE  Going'
BY DEF Going

\* What the distributor takes from socket v.
Takes(v) == /\ req[v] # <<>> /\ req' = [req EXCEPT ![v] = Tail(@)]
            /\ from' = [from EXCEPT ![v] = Tail(@)]
            /\ peer' = [peer EXCEPT ![v] = Head(from[v])]
            /\ UNCHANGED <<rep, ever, program, doomed, workerVars>>

\* What a receive leaves of the types: the socket has lost its first message.
LEMMA TakesTyped ==
  ASSUME FaultTypeOK, NEW v \in Worker, SocketOK(v), Takes(v)
  PROVE  /\ FaultTypeOK'
         /\ req[v] \in Seq(Request) /\ from[v] \in Seq(BOOLEAN) /\ from[v] # <<>>
         /\ req'[v] = Tail(req[v]) /\ from'[v] = Tail(from[v]) /\ peer'[v] = from[v][1]
         /\ UNCHANGED <<rep[v], ever[v], got[v], wpc[v], wseq[v], Total(v)>>
         /\ \A w \in Worker \ {v} : UNCHANGED <<req[w], rep[w], from[w], peer[w]>>
<1>1. req[v] \in Seq(Request) /\ from[v] \in Seq(BOOLEAN) /\ peer[v] \in BOOLEAN
  BY DEF FaultTypeOK
<1>2. from[v] # <<>>
  BY <1>1 DEF SocketOK, Takes
<1>3. Tail(req[v]) \in Seq(Request) /\ Tail(from[v]) \in Seq(BOOLEAN)
      /\ Head(from[v]) = from[v][1] /\ from[v][1] \in BOOLEAN
  <2>1. /\ Tail(req[v]) \in Seq(Request) /\ Tail(from[v]) \in Seq(BOOLEAN)
        /\ Head(from[v]) = from[v][1] /\ 1 \in DOMAIN from[v]
    BY <1>1, <1>2, TailOf DEF Takes
  <2>2. from[v][1] \in BOOLEAN
    BY <1>1, <2>1, ElementOfSeq
  <2> QED BY <2>1, <2>2
<1>4. FaultTypeOK'
  BY <1>3 DEF FaultTypeOK, Takes, workerVars
<1>5. /\ req'[v] = Tail(req[v]) /\ from'[v] = Tail(from[v]) /\ peer'[v] = from[v][1]
      /\ \A w \in Worker \ {v} : UNCHANGED <<req[w], rep[w], from[w], peer[w]>>
  BY <1>3 DEF FaultTypeOK, Takes
<1>6. UNCHANGED <<rep[v], ever[v], got[v], wpc[v], wseq[v], Total(v)>>
  BY DEF Takes, Total, workerVars
<1> QED BY <1>1, <1>2, <1>4, <1>5, <1>6

\* The first message of rank v in the handshake is a greeting; the process that
\* sent it, if it lives, becomes the socket's.
LEMMA TakesHello ==
  ASSUME Going, NEW v \in Worker, Stage(v) = "hello", Num(v) = 0, Takes(v),
         Stage(v)' = "greeted", Num(v)' = 1, worker_ids'[v] = v, pushed' = pushed,
         spc # "push", spc' # "push"
  PROVE  RankOK(v)'
<1>1. FaultTypeOK /\ SocketOK(v) /\ StrangerOK(v) /\ GotOK(v) /\ ~Waiting(v) /\ ~Waiting(v)'
  BY DEF Going, RankOK, PeerOK, Waiting
<1>2. /\ FaultTypeOK'
      /\ req[v] \in Seq(Request) /\ from[v] \in Seq(BOOLEAN) /\ from[v] # <<>> /\ req[v] # <<>>
      /\ req'[v] = Tail(req[v]) /\ from'[v] = Tail(from[v]) /\ peer'[v] = from[v][1]
      /\ UNCHANGED <<rep[v], ever[v], got[v], wpc[v], wseq[v], Total(v)>>
  BY <1>1, TakesTyped DEF Takes
<1>3. /\ Len(from'[v]) = Len(req'[v])
      /\ \A k \in DOMAIN req'[v] : k + 1 \in DOMAIN req[v] /\ req'[v][k] = req[v][k + 1]
      /\ \A k \in DOMAIN from'[v] : k + 1 \in DOMAIN from[v] /\ k + 1 # 1
                                    /\ from'[v][k] = from[v][k + 1]
      /\ 1 \in DOMAIN from[v]
  BY <1>1, <1>2, TailOf DEF SocketOK
<1>4. \A k \in DOMAIN req'[v] : req'[v][k] = Hello(v)'
  BY <1>1, <1>3 DEF SocketOK, Hello
<1>5. Answers(v)' = {}
  BY <1>4 DEF Answers, Hello, InfoReq
<1>6. rep'[v] = <<>>
  BY <1>1, <1>2 DEF SocketOK
<1>7. \A k, l \in DOMAIN from'[v] : from'[v][k] /\ from'[v][l] => k = l
  <2> SUFFICES ASSUME NEW k \in DOMAIN from'[v], NEW l \in DOMAIN from'[v],
                      from'[v][k], from'[v][l]
               PROVE  k = l
    OBVIOUS
  <2>1. k + 1 = l + 1
    BY <1>1, <1>3 DEF SocketOK
  <2>2. k \in Int /\ l \in Int
    BY <1>2
  <2> QED BY <2>1, <2>2
<1>8. SocketOK(v)'
  BY <1>3, <1>4, <1>5, <1>6, <1>7 DEF SocketOK
<1>9. from[v][1] => wpc[v] = "info" /\ wseq[v] = 1
                    /\ \A k \in DOMAIN from'[v] : ~from'[v][k]
  BY <1>1, <1>3 DEF StrangerOK, SocketOK
<1>10. from[v][1] => PeerOK(v)'
  BY <1>1, <1>2, <1>9 DEF PeerOK
<1>11. ~from[v][1] => StrangerOK(v)'
  BY <1>1, <1>2, <1>3 DEF StrangerOK
<1>12. GotOK(v)'
  BY <1>1, <1>2 DEF GotOK
<1> QED BY <1>2, <1>8, <1>10, <1>11, <1>12 DEF RankOK

\* The answer that is expected of rank v is the only one.
LEMMA TakesAnswer ==
  ASSUME Going, NEW v \in Worker, NEW stage, Waiting(v), Takes(v),
         Stage(v)' = stage, stage = IF Stage(v) = "ending" THEN "over" ELSE "ready",
         Num(v)' = Num(v) + 1, Num(v) \in Nat, req[v][1] # Hello(v), pushed' = pushed,
         spc # "push", spc' # "push"
  PROVE  RankOK(v)' /\ ~Stuck(v)
<1>1. FaultTypeOK /\ SocketOK(v) /\ GotOK(v) /\ ~Waiting(v)'
  BY DEF Going, RankOK, Waiting
<1>2. /\ FaultTypeOK'
      /\ req[v] \in Seq(Request) /\ from[v] \in Seq(BOOLEAN) /\ from[v] # <<>> /\ req[v] # <<>>
      /\ req'[v] = Tail(req[v]) /\ from'[v] = Tail(from[v]) /\ peer'[v] = from[v][1]
      /\ UNCHANGED <<rep[v], ever[v], got[v], wpc[v], wseq[v], Total(v)>>
  BY <1>1, TakesTyped DEF Takes
<1>3. /\ Len(from'[v]) = Len(req'[v])
      /\ \A k \in DOMAIN req'[v] : k + 1 \in DOMAIN req[v] /\ k + 1 # 1 /\ req'[v][k] = req[v][k + 1]
      /\ \A k \in DOMAIN from'[v] : k + 1 \in DOMAIN from[v] /\ k + 1 # 1
                                    /\ from'[v][k] = from[v][k + 1]
      /\ 1 \in DOMAIN from[v] /\ 1 \in DOMAIN req[v]
  <2>1. Len(from[v]) = Len(req[v])
    BY <1>1 DEF SocketOK
  <2> QED BY <1>2, <2>1, TailOf
<1>4. 1 \in Answers(v) /\ \A k \in Answers(v) : k = 1
  <2>1. req[v][1] = Owed(v)
    BY <1>1, <1>3 DEF SocketOK
  <2>2. Owed(v).type # "DATAINFO_REQ"
    BY DEF Owed, FinRep, DataReq
  <2>3. 1 \in Answers(v)
    BY <1>3, <2>1, <2>2 DEF Answers
  <2> QED BY <1>1, <2>3 DEF SocketOK
<1>5. rep[v] = <<>> /\ ~Stuck(v)
  <2>1. rep[v] = <<>>
    BY <1>1, <1>4 DEF SocketOK
  <2>2. spc # "fin" \/ ~(v >= i)
    BY NWorkersAssumption DEF Going, ServerTypeOK, Stage, Waiting
  <2> QED BY <1>4, <2>1, <2>2 DEF Stuck
<1>6. \A k \in DOMAIN req'[v] : req'[v][k] = Hello(v)'
  <2> SUFFICES ASSUME NEW k \in DOMAIN req'[v] PROVE req'[v][k] = Hello(v)
    BY DEF Hello
  <2>1. k + 1 \in DOMAIN req[v] /\ k + 1 \notin Answers(v) /\ req'[v][k] = req[v][k + 1]
    BY <1>3, <1>4
  <2>2. req[v][k + 1].type = "DATAINFO_REQ"
    BY <2>1 DEF Answers
  <2>3. Owed(v).type # "DATAINFO_REQ"
    BY DEF Owed, FinRep, DataReq
  <2>4. req[v][k + 1] = Hello(v)
    BY <1>1, <2>1, <2>2, <2>3 DEF SocketOK
  <2> QED BY <2>1, <2>4
<1>7. Answers(v)' = {}
  BY <1>6 DEF Answers, Hello, InfoReq
<1>8. \A k, l \in DOMAIN from'[v] : from'[v][k] /\ from'[v][l] => k = l
  <2> SUFFICES ASSUME NEW k \in DOMAIN from'[v], NEW l \in DOMAIN from'[v],
                      from'[v][k], from'[v][l]
               PROVE  k = l
    OBVIOUS
  <2>1. k + 1 = l + 1
    BY <1>1, <1>3 DEF SocketOK
  <2>2. k \in Int /\ l \in Int
    BY <1>2
  <2> QED BY <2>1, <2>2
<1>9. SocketOK(v)'
  BY <1>2, <1>3, <1>5, <1>6, <1>7, <1>8 DEF SocketOK
<1>10. peer'[v] <=> peer[v]
  BY <1>1, <1>2, <1>4 DEF SocketOK
<1>11. peer[v] => PeerOK(v)'
  <2> SUFFICES ASSUME peer[v] PROVE PeerOK(v)'
    OBVIOUS
  <2>1. PeerOK(v)
    BY DEF Going, RankOK
  <2>2. wseq[v] = Num(v) + 1 /\ wpc[v] = IF Stage(v) = "ending" THEN "FIN" ELSE "DATA"
    BY <1>5, <2>1 DEF PeerOK
  <2>3. \A k \in DOMAIN from'[v] : ~from'[v][k]
    BY <1>3, <1>4, <2>1 DEF PeerOK
  <2> QED BY <1>1, <1>2, <2>2, <2>3 DEF PeerOK
<1>12. ~peer[v] => StrangerOK(v)'
  <2> SUFFICES ASSUME ~peer[v] PROVE StrangerOK(v)'
    OBVIOUS
  <2>1. StrangerOK(v)
    BY DEF Going, RankOK
  <2> QED BY <1>2, <1>3, <2>1 DEF StrangerOK
<1>13. GotOK(v)'
  BY <1>1, <1>2, <1>4, <1>5 DEF GotOK
<1> QED BY <1>2, <1>5, <1>9, <1>10, <1>11, <1>12, <1>13 DEF RankOK

\* A turn of the loops of the handshake that take a greeting.
LEMMA GreetingTaken ==
  ASSUME Going, NEW v \in Worker, v = i, Stage(v) = "hello", Takes(v), n_workers' = NWorkers,
         spc = "others" \/ (spc = "main" /\ i = 0), EndOfTurn(NWorkers, "others", "info"),
         worker_ids' = [worker_ids EXCEPT ![v] = v], pushed' = pushed
  PROVE  Going'
<1>1. ServerTypeOK /\ Control /\ FaultTypeOK /\ seq = 0 /\ SocketOK(v)
  BY DEF Going, RankOK
<1>2. /\ worker_ids' \in [Worker -> Worker \cup {NoRank}] /\ worker_ids'[v] = v
      /\ \A w \in Worker \ {v} : worker_ids'[w] = worker_ids[w]
  BY <1>1 DEF ServerTypeOK
<1>3. /\ FaultTypeOK'
      /\ \A w \in Worker \ {v} : UNCHANGED <<req[w], rep[w], from[w], peer[w]>>
  BY <1>1, TakesTyped
<1>4. <<"others", "info">> \in Loops /\ StageAfter("others") = "greeted"
  BY DEF Loops, StageAfter
<1>5. /\ ServerTypeOK' /\ Control' /\ (spc' \in {"main", "others"} => seq' = 0)
      /\ Stage(v)' = "greeted" /\ Num(v) = 0 /\ Num(v)' = 1
      /\ \A w \in Worker \ {v} : RankOK(w)'
      /\ spc' = "others" \/ spc' = "info"
  <2>1. UNCHANGED <<pushed, workerVars, program, ever, doomed>>
    BY DEF Takes
  <2> QED BY <1>1, <1>2, <1>3, <1>4, <2>1, TurnGoesOn
<1>6. RankOK(v)'
  BY <1>2, <1>5, TakesHello
<1>7. DoomOK'
  BY <1>5 DEF DoomOK
<1> QED BY <1>3, <1>5, <1>6, <1>7, GoingParts

\* The first message of the socket that a loop of greetings waits on.
LEMMA GreetingIs ==
  ASSUME Going, NEW v \in Worker, v = i, Stage(v) = "hello", Asked
  PROVE  Msg.comm_size = NWorkers /\ Msg.comm_rank = v
<1>1. req[v] \in Seq(Request) /\ req[v] # <<>>
  BY DEF Going, FaultTypeOK, Asked
<1>2. Msg = Hello(v)
  BY <1>1, TailOf DEF Going, RankOK, SocketOK, Waiting, Msg
<1> QED BY <1>2 DEF Hello, InfoReq

\* Every receive of the distributor takes the first message of the worker it serves.
LEMMA ReceiveTakes ==
  ASSUME Going, Receive, NEW v \in Worker, v = i
  PROVE  Takes(v)
<1>1. /\ Asked /\ Take /\ UNCHANGED <<rep, workerVars>>
  BY DEF Receive, RecvMain, RecvOther, RecvReady, RecvAck, RecvFin, Expect
<1> QED BY <1>1 DEF Receive, Takes, Asked, Take

\* The loops that expect a message end in an abort unless it is the answer.
LEMMA AnswerTaken ==
  ASSUME Going, NEW v \in Worker, v = i, Takes(v), NEW type, NEW here, NEW next,
         type # "DATAINFO_REQ",
         <<here, next>> \in Loops, here \in {"ready", "check", "finack"},
         Expect(type, here, next), spc' # "abort"
  PROVE  Going'
<1>1. ServerTypeOK /\ Control /\ FaultTypeOK /\ RankOK(v) /\ n_workers = NWorkers /\ spc = here
  BY DEF Going, Control, Expect
<1>2. /\ EndOfTurn(NWorkers, here, next) /\ Msg.type = type
      /\ UNCHANGED <<n_workers, worker_ids, pushed>>
  BY <1>1 DEF Expect, ServerAbort
<1>3. /\ FaultTypeOK'
      /\ \A w \in Worker \ {v} : UNCHANGED <<req[w], rep[w], from[w], peer[w]>>
  BY <1>1, TakesTyped DEF RankOK
<1>4. /\ Waiting(v) /\ StageAfter(here) = IF Stage(v) = "ending" THEN "over" ELSE "ready"
      /\ Num(v) = seq
  BY <1>1, NWorkersAssumption DEF Waiting, Stage, StageAfter, ServerTypeOK, Num
<1>5. req[v][1] # Hello(v)
  <2>1. Msg = req[v][1]
    BY <1>1, TailOf DEF Msg, FaultTypeOK, Takes
  <2> QED BY <1>2, <2>1 DEF Hello, InfoReq
<1>6. /\ ServerTypeOK' /\ Control' /\ (spc' \in {"main", "others"} => seq' = 0)
      /\ Stage(v)' = StageAfter(here) /\ Num(v)' = seq + 1
      /\ \A w \in Worker \ {v} : RankOK(w)' /\ (Stuck(w) => Stuck(w)')
      /\ spc' = here \/ spc' = next
  <2>1. UNCHANGED <<pushed, workerVars, program, ever, doomed>>
    BY <1>2 DEF Takes
  <2>2. /\ worker_ids' \in [Worker -> Worker \cup {NoRank}] /\ n_workers' = NWorkers
        /\ \A w \in Worker \ {v} : worker_ids'[w] = worker_ids[w]
    BY <1>1, <1>2 DEF ServerTypeOK
  <2> QED BY <1>1, <1>2, <1>3, <2>1, <2>2, TurnGoesOn
<1>7. RankOK(v)' /\ ~Stuck(v)
  <2>1. spc # "push" /\ spc' # "push" /\ seq \in Nat
    BY <1>1, <1>6 DEF Loops, ServerTypeOK
  <2> QED BY <1>2, <1>4, <1>5, <1>6, <2>1, TakesAnswer
<1>8. DoomOK'
  <2>1. SUFFICES ASSUME doomed', spc' \in {"push", "check", "fin", "finack"}
                 PROVE  \E w \in Worker : Stuck(w)'
    BY DEF DoomOK
  <2>2. doomed /\ spc \in {"check", "finack"}
    BY <1>1, <1>6, <2>1 DEF Takes, Loops
  <2>3. PICK w \in Worker : Stuck(w)
    BY <2>2 DEF Going, DoomOK
  <2> QED BY <1>6, <1>7, <2>3
<1> QED BY <1>3, <1>6, <1>7, <1>8, GoingParts

\* Receive, action by action.
LEMMA ReceiveGoes == Going /\ Receive => RestartInv'
<1> SUFFICES ASSUME Going, Receive, spc' # "abort" PROVE Going'
  BY DEF RestartInv
<1> USE NWorkersAssumption
<1>1. ServerTypeOK /\ Control
  BY DEF Going
<1>2. PICK v \in Worker : v = i
  BY <1>1 DEF ServerTypeOK
<1>3. Takes(v)
  BY <1>2, ReceiveTakes
<1>4. CASE RecvMain
  <2>1. spc = "main" /\ i = 0 /\ Stage(v) = "hello" /\ Asked
    BY <1>1, <1>2, <1>4 DEF RecvMain, Control, Stage
  <2>2. Msg.comm_size = NWorkers /\ Msg.comm_rank = v
    BY <1>2, <2>1, GreetingIs
  <2> QED BY <1>2, <1>3, <1>4, <2>1, <2>2, GreetingTaken DEF RecvMain
<1>5. CASE RecvOther
  <2>1. spc = "others" /\ n_workers = NWorkers /\ Stage(v) = "hello" /\ Asked
    BY <1>1, <1>2, <1>5 DEF RecvOther, Control, Stage
  <2>2. Msg.comm_size = NWorkers /\ Msg.comm_rank = v
    BY <1>2, <2>1, GreetingIs
  <2> QED BY <1>2, <1>3, <1>5, <2>1, <2>2, GreetingTaken DEF RecvOther, ServerAbort
<1>6. CASE RecvReady
  BY <1>2, <1>3, <1>6, AnswerTaken DEF RecvReady, Loops
<1>7. CASE RecvAck
  BY <1>2, <1>3, <1>7, AnswerTaken DEF RecvAck, Loops
<1>8. CASE RecvFin
  BY <1>2, <1>3, <1>8, AnswerTaken DEF RecvFin, Loops
<1> QED BY <1>4, <1>5, <1>6, <1>7, <1>8 DEF Receive

-----------------------------------------------------------------------------
\* A turn of a loop that sends: to a process that lives, or to nobody.
LEMMA SentOrDropped ==
  ASSUME Going, NEW v \in Worker, v = i, NEW here, NEW next,
         <<here, next>> \in Loops, here \in {"info", "push", "fin"}, spc = here,
         EndOfTurn(NWorkers, here, next),
         UNCHANGED <<n_workers, worker_ids, pushed, req, workerVars, faultVars>>,
         \/ peer[v] /\ rep' = [rep EXCEPT ![v] = Append(@, Sent(v)')]
         \/ ~peer[v] /\ rep' = rep
  PROVE  Going'
<1>1. ServerTypeOK /\ Control /\ FaultTypeOK /\ SocketOK(v) /\ GotOK(v) /\ n_workers = NWorkers
  BY DEF Going, RankOK, Control
<1>2. /\ Stage(v) = IF here = "info" THEN "greeted" ELSE "ready"
      /\ StageAfter(here) = CASE here = "info" -> "told" [] here = "push" -> "data"
                              [] here = "fin" -> "ending"
  BY <1>1, NWorkersAssumption DEF Stage, StageAfter, ServerTypeOK
<1>3. ~Waiting(v) /\ rep[v] = <<>>
  BY <1>1, <1>2 DEF Waiting, SocketOK
<1>4. /\ DOMAIN rep' = Worker /\ \A w \in Worker \ {v} : rep'[w] = rep[w]
      /\ (peer[v] => rep'[v] = <<Sent(v)'>>) /\ (~peer[v] => rep'[v] = <<>>)
  <2>1. CASE peer[v] /\ rep' = [rep EXCEPT ![v] = Append(@, Sent(v)')]
    <3>1. \A m : Append(<<>>, m) = <<m>>
      OBVIOUS
    <3> HIDE DEF Sent
    <3> QED BY <1>1, <1>3, <2>1, <3>1 DEF FaultTypeOK
  <2>2. CASE ~peer[v] /\ rep' = rep
    BY <1>1, <1>3, <2>2 DEF FaultTypeOK
  <2> QED BY <2>1, <2>2
<1>5. /\ ServerTypeOK' /\ Control' /\ (spc' \in {"main", "others"} => seq' = 0)
      /\ Stage(v)' = StageAfter(here) /\ Num(v) = seq /\ Num(v)' = seq + 1
      /\ (spc = "push" /\ v >= i) <=> here = "push"
      /\ ~(spc' = "push" /\ v >= i')
      /\ \A w \in Worker \ {v} : RankOK(w)' /\ (Stuck(w) => Stuck(w)')
      /\ spc' = here \/ spc' = next
  <2>1. /\ UNCHANGED <<pushed, workerVars, program, ever, doomed>>
        /\ worker_ids' \in [Worker -> Worker \cup {NoRank}]
        /\ \A w \in Worker \ {v} :
             UNCHANGED <<worker_ids[w], req[w], rep[w], from[w], peer[w]>>
    BY <1>1, <1>4 DEF faultVars, linkFaults, ServerTypeOK
  <2> QED BY <1>1, <2>1, TurnGoesOn
<1>6. FaultTypeOK'
  BY <1>1, <1>4 DEF FaultTypeOK, workerVars, faultVars, linkFaults
<1>7. /\ UNCHANGED <<req[v], from[v], peer[v], wpc[v], wseq[v], ever[v], got[v], pushed>>
      /\ Total(v)' = Total(v) /\ Current' = Current /\ Waiting(v)'
  BY <1>2, <1>5 DEF workerVars, faultVars, linkFaults, Total, Current, Waiting
<1>8. /\ \A k \in DOMAIN req[v] : req[v][k] = Hello(v)
      /\ Answers(v) = {} /\ Answers(v)' = {}
  <2>1. \A k \in DOMAIN req[v] : req[v][k] = Hello(v)
    BY <1>1, <1>3 DEF SocketOK
  <2> QED BY <1>7, <2>1 DEF Answers, Hello, InfoReq
<1>9. SocketOK(v)'
  BY <1>1, <1>4, <1>7, <1>8 DEF SocketOK, Hello
<1>10. peer[v] => PeerOK(v)'
  <2> SUFFICES ASSUME peer[v] PROVE PeerOK(v)'
    OBVIOUS
  <2>1. PeerOK(v) /\ seq \in Nat
    BY <1>1 DEF Going, RankOK, ServerTypeOK
  <2>2. wseq[v] = seq /\ wpc[v] = IF here = "info" THEN "info" ELSE "DATA"
    BY <1>2, <1>3, <1>5, <2>1 DEF PeerOK
  <2>3. \A k \in DOMAIN from[v] : ~from[v][k]
    BY <1>8, <2>1 DEF PeerOK
  <2>4. rep'[v] # <<>>
    BY <1>4
  <2> QED BY <1>2, <1>5, <1>7, <2>1, <2>2, <2>3, <2>4 DEF PeerOK
<1>11. ~peer[v] => StrangerOK(v)'
  BY <1>7 DEF Going, RankOK, StrangerOK
<1>12. GotOK(v)'
  BY <1>1, <1>2, <1>5, <1>7, <1>8 DEF GotOK
<1>13. RankOK(v)'
  BY <1>7, <1>9, <1>10, <1>11, <1>12 DEF RankOK
<1>14. DoomOK'
  <2>1. SUFFICES ASSUME doomed', spc' \in {"push", "check", "fin", "finack"}
                 PROVE  \E w \in Worker : Stuck(w)'
    BY DEF DoomOK
  <2>2. doomed /\ spc \in {"push", "fin"}
    BY <1>5, <2>1 DEF faultVars, linkFaults, Loops
  <2>3. PICK w \in Worker : Stuck(w)
    BY <2>2 DEF Going, DoomOK
  <2>4. CASE w # v
    BY <1>5, <2>3, <2>4
  <2>5. CASE w = v
    <3>1. ~peer[v]
      BY <1>2, <2>3, <2>5 DEF Stuck
    <3>2. Stage(v)' \in {"data", "ending"} /\ rep'[v] = <<>>
      BY <1>2, <1>4, <1>5, <2>2, <3>1
    <3> QED BY <1>8, <3>2 DEF Stuck
  <2> QED BY <2>4, <2>5
<1> QED BY <1>5, <1>6, <1>13, <1>14, GoingParts

\* The distributor that loops over the workers keeps the invariant when a message is what it expects.
LEMMA DeliverGoes == Going /\ Deliver => Going'
<1> SUFFICES ASSUME Going, Deliver PROVE Going'
  OBVIOUS
<1> USE NWorkersAssumption
<1>1. ServerTypeOK /\ Control
  BY DEF Going
<1>2. PICK v \in Worker : v = i
  BY <1>1 DEF ServerTypeOK
<1>3. n_workers = NWorkers /\ peer[v] /\ UNCHANGED <<faultVars, pushed>>
  BY <1>1, <1>2 DEF Deliver, Control, SendInfo, SendImage, SendFin, Send
<1>4. CASE SendInfo
  <2>1. Send(InfoRep(seq, worker_ids[v]), "info", "ready") /\ spc = "info"
    BY <1>2, <1>4 DEF SendInfo, Send
  <2>2. worker_ids[v] = v
    <3>1. Stage(v) = "greeted"
      BY <1>1, <1>2, <2>1 DEF Stage, ServerTypeOK
    <3> QED BY <1>3, <3>1 DEF Going, RankOK, PeerOK
  <2>3. Sent(v)' = InfoRep(seq, v)
    <3>1. <<"info", "ready">> \in Loops /\ EndOfTurn(NWorkers, "info", "ready")
      BY <1>3, <2>1 DEF Loops, Send
    <3>2. Stage(v)' = "told" /\ Num(v)' = seq + 1
      BY <1>1, <1>2, <2>1, <3>1, TurnMoves DEF StageAfter
    <3> QED BY <1>1, <3>2 DEF Sent, ServerTypeOK
  <2>4. <<"info", "ready">> \in Loops
    BY DEF Loops
  <2> QED BY <1>2, <1>3, <2>1, <2>2, <2>3, <2>4, SentOrDropped DEF Send, Reply
<1>5. CASE SendImage
  <2>1. Send(DataRep(seq, Current, v), "push", "check") /\ spc = "push"
    BY <1>2, <1>5 DEF SendImage, Send
  <2>2. Sent(v)' = DataRep(seq, Current, v)
    <3>1. <<"push", "check">> \in Loops /\ EndOfTurn(NWorkers, "push", "check")
      BY <1>3, <2>1 DEF Loops, Send
    <3>2. Stage(v)' = "data" /\ Num(v)' = seq + 1 /\ Current' = Current
      BY <1>1, <1>2, <1>3, <2>1, <3>1, TurnMoves DEF StageAfter, Current
    <3> QED BY <1>1, <3>2 DEF Sent, ServerTypeOK
  <2>3. <<"push", "check">> \in Loops
    BY DEF Loops
  <2> QED BY <1>2, <1>3, <2>1, <2>2, <2>3, SentOrDropped DEF Send, Reply
<1>6. CASE SendFin
  <2>1. Send(FinRep(seq), "fin", "finack") /\ spc = "fin"
    BY <1>2, <1>6 DEF SendFin, Send
  <2>2. Sent(v)' = FinRep(seq)
    <3>1. <<"fin", "finack">> \in Loops /\ EndOfTurn(NWorkers, "fin", "finack")
      BY <1>3, <2>1 DEF Loops, Send
    <3>2. Stage(v)' = "ending" /\ Num(v)' = seq + 1
      BY <1>1, <1>2, <2>1, <3>1, TurnMoves DEF StageAfter
    <3> QED BY <1>1, <3>2 DEF Sent, ServerTypeOK
  <2>3. <<"fin", "finack">> \in Loops
    BY DEF Loops
  <2> QED BY <1>2, <1>3, <2>1, <2>2, <2>3, SentOrDropped DEF Send, Reply
<1> QED BY <1>4, <1>5, <1>6 DEF Deliver

\* It keeps it when it drops the messages of a process that is gone.
LEMMA DropGoes == Going /\ Drop => Going'
<1> SUFFICES ASSUME Going, NEW here, NEW next, <<here, next>> \in Loops,
                    here \in {"info", "push", "fin"}, Discard(here, next)
             PROVE  Going'
  BY DEF Drop, Loops
<1>1. ServerTypeOK /\ Control /\ spc = here
  BY DEF Going, Discard
<1>2. PICK v \in Worker : v = i
  BY <1>1 DEF ServerTypeOK
<1>3. n_workers = NWorkers
  BY <1>1 DEF Control
<1> QED BY <1>1, <1>2, <1>3, SentOrDropped DEF Discard

-----------------------------------------------------------------------------
\* A call of push_image or done_image finds every rank with every image.
LEMMA CallGoes == Going /\ Call => Going'
<1> SUFFICES ASSUME Going, Call PROVE Going'
  OBVIOUS
<1> USE NWorkersAssumption, MaxImagesAssumption
<1>1. ServerTypeOK /\ Control /\ FaultTypeOK /\ spc = "idle" /\ i = 0
  BY DEF Going, Control, Call, Caller, DoneImage, PushImage
<1>2. /\ UNCHANGED <<i, seq, n_workers, worker_ids, req, rep, workerVars>>
      /\ UNCHANGED <<program, from, peer, ever>>
      /\ doomed' = \E w \in Worker : ~peer[w]
      /\ \/ spc' = "fin" /\ pushed' = pushed
         \/ \E x \in Image : spc' = "push" /\ pushed' = Append(pushed, x)
      /\ Len(pushed') <= MaxImages
  <2>1. /\ UNCHANGED <<i, seq, n_workers, worker_ids, req, rep, workerVars>>
        /\ UNCHANGED <<program, from, peer, ever>>
        /\ doomed' = \E w \in Worker : ~peer[w]
        /\ \/ spc' = "fin" /\ pushed' = pushed
           \/ \E x \in Image : /\ spc' = "push" /\ pushed' = Append(pushed, x)
                               /\ Len(pushed) < MaxImages
    BY DEF Call, Caller, DoneImage, PushImage
  <2>2. pushed \in Seq(Image) /\ Len(pushed) <= MaxImages
    BY <1>1 DEF ServerTypeOK
  <2>3. \A x \in Image : pushed' = Append(pushed, x) => Len(pushed') = Len(pushed) + 1
    BY <2>2
  <2>4. Len(pushed') <= MaxImages
    BY <2>1, <2>2, <2>3
  <2> QED BY <2>1, <2>4
<1>3. ServerTypeOK' /\ Control' /\ FaultTypeOK'
  <2>1. pushed' \in Seq(Image)
    <3>1. pushed \in Seq(Image)
      BY <1>1 DEF ServerTypeOK
    <3>2. \A x \in Image : Append(pushed, x) \in Seq(Image)
      BY <3>1
    <3> QED BY <1>2, <3>1, <3>2, Zenon
  <2>2. ServerTypeOK'
    BY <1>1, <1>2, <2>1 DEF ServerTypeOK, ServerPc
  <2>3. Control'
    BY <1>1, <1>2 DEF Control
  <2>4. FaultTypeOK'
    BY <1>1, <1>2 DEF FaultTypeOK, workerVars
  <2> QED BY <2>2, <2>3, <2>4
<1>4. ASSUME NEW w \in Worker PROVE RankOK(w)'
  <2>1. Stage(w) = "ready" /\ Stage(w)' = "ready" /\ Num(w)' = Num(w)
    BY <1>1, <1>2 DEF Stage, Num
  <2>2. /\ UNCHANGED <<req[w], rep[w], from[w], peer[w], wpc[w], wseq[w], got[w], ever[w],
                       worker_ids[w]>>
    BY <1>2 DEF workerVars
  <2>3. /\ Answers(w)' = Answers(w) /\ Total(w)' = Total(w)
        /\ ~Waiting(w) /\ ~Waiting(w)' /\ Hello(w)' = Hello(w)
    BY <2>1, <2>2 DEF Answers, Total, Waiting, Hello
  <2>4. RankOK(w) /\ rep[w] = <<>> /\ Total(w) = pushed
    BY <1>1, <2>1, <2>3 DEF Going, RankOK, SocketOK, GotOK
  <2>5. SocketOK(w)'
    BY <2>2, <2>3, <2>4 DEF RankOK, SocketOK
  <2>6. IF peer[w] THEN PeerOK(w)' ELSE StrangerOK(w)'
    BY <2>1, <2>2, <2>3, <2>4 DEF RankOK, PeerOK, StrangerOK
  <2>7. GotOK(w)'
    <3>1. CASE spc' = "fin" /\ pushed' = pushed
      BY <2>1, <2>3, <2>4, <3>1 DEF GotOK
    <3>2. CASE \E x \in Image : spc' = "push" /\ pushed' = Append(pushed, x)
      <4>1. PICK x \in Image : spc' = "push" /\ pushed' = Append(pushed, x)
        BY <3>2
      <4>2. pushed' # <<>> /\ pushed'[Len(pushed')] = x
        BY <1>1, <4>1 DEF ServerTypeOK
      <4>3. Current' = x
        BY <4>2 DEF Current
      <4>4. spc' = "push" /\ w >= i'
        BY <1>1, <1>2, <4>1
      <4> QED BY <2>3, <2>4, <4>1, <4>2, <4>3, <4>4 DEF GotOK
    <3> QED BY <1>2, <3>1, <3>2
  <2> QED BY <2>2, <2>5, <2>6, <2>7 DEF RankOK
<1>5. DoomOK'
  <2> SUFFICES ASSUME doomed' PROVE \E w \in Worker : Stuck(w)'
    BY DEF DoomOK
  <2>1. PICK w \in Worker : ~peer[w]
    BY <1>2, Zenon
  <2> QED BY <1>1, <1>2, <2>1 DEF Stuck
<1> QED BY <1>2, <1>3, <1>4, <1>5 DEF Going

\* What the worker's step does, in either program: it says hello, ...
SaysHello(w) ==
  /\ wpc[w] = "start"
  /\ req' = [req EXCEPT ![w] = Append(@, InfoReq(wseq[w], w, NWorkers))]
  /\ wseq' = [wseq EXCEPT ![w] = @ + 1]
  /\ wpc' = [wpc EXCEPT ![w] = "info"]
  /\ UNCHANGED <<rep, got>>

\* ... or it answers what it was sent.
Answered(w) ==
  /\ rep[w] # <<>>
  /\ rep' = [rep EXCEPT ![w] = Tail(@)]
  /\ Answer(w, Owed(w))
  /\ wpc' = [wpc EXCEPT ![w] = IF Stage(w) = "ending" THEN "FIN" ELSE "DATA"]
  /\ got' = IF Stage(w) = "data" THEN [got EXCEPT ![w] = Append(@, Current)] ELSE got

\* A socket that a message is added to is not as it was.
LEMMA GrowsTold ==
  ASSUME FaultTypeOK, NEW w \in Worker, NEW m, req' = [req EXCEPT ![w] = Append(@, m)]
  PROVE  req' # req
<1>1. req[w] \in Seq(Request) /\ req'[w] = Append(req[w], m)
  BY DEF FaultTypeOK
<1>2. Len(req'[w]) = Len(req[w]) + 1 /\ Len(req[w]) \in Nat
  BY <1>1
<1> QED BY <1>2

\* What a worker does is a greeting or an answer, and nothing else changes.
LEMMA WorkDoes ==
  ASSUME Going, NEW w \in Worker, Work(w)
  PROVE  /\ SaysHello(w) \/ Answered(w)
         /\ from' = [from EXCEPT ![w] = Append(@, TRUE)]
         /\ DOMAIN meta' = Worker
         /\ UNCHANGED <<serverVars, program, peer, ever, doomed>>
<1>1. RankOK(w) /\ FaultTypeOK
  BY DEF Going
<1> USE NWorkersAssumption
<1>2. CASE SendInfoReq(w) \/ TestHandshake(w)
  <2>1. SaysHello(w) /\ UNCHANGED <<serverVars, meta>> /\ req' # req
    <3>1. SaysHello(w) /\ UNCHANGED <<serverVars, meta>>
      BY <1>2 DEF SendInfoReq, TestHandshake, SaysHello
    <3>2. req' # req
      BY <1>1, <3>1, GrowsTold DEF SaysHello
    <3> QED BY <3>1, <3>2
  <2> QED BY <1>1, <2>1 DEF Work, FaultTypeOK
<1>3. CASE RecvInfoRep(w) \/ ReceiveMsg(w) \/ TestReady(w) \/ TestReceive(w)
  <2>1. rep[w] # <<>> /\ wpc[w] \in {"info", "DATA"}
    BY <1>3 DEF RecvInfoRep, ReceiveMsg, TestReady, TestReceive
  <2>2. /\ Waiting(w) /\ Head(rep[w]) = Sent(w) /\ wseq[w] = Num(w) - 1
        /\ wpc[w] = IF Stage(w) = "told" THEN "info" ELSE "DATA"
    BY <1>1, <2>1 DEF RankOK, SocketOK, PeerOK
  <2>3. Num(w) \in Nat
    BY DEF Going, ServerTypeOK, Num
  <2>4. Answered(w) /\ UNCHANGED serverVars /\ DOMAIN meta' = Worker
    <3>1. CASE Stage(w) = "told"
      <4>1. Sent(w) = InfoRep(wseq[w], w) /\ Owed(w) = DataReq(wseq[w] + 1)
        BY <2>2, <2>3, <3>1 DEF Sent, Owed
      <4>2. wpc[w] = "info" /\ Head(rep[w]).seq_n = wseq[w]
        BY <2>2, <3>1, <4>1 DEF InfoRep
      <4>3. RecvInfoRep(w) \/ TestReady(w)
        BY <1>3, <4>2 DEF ReceiveMsg, TestReceive
      <4> QED BY <1>1, <2>1, <3>1, <4>1, <4>2, <4>3
              DEF RecvInfoRep, TestReady, Answered, FaultTypeOK
    <3>2. CASE Stage(w) = "data"
      <4>1. Sent(w) = DataRep(wseq[w], Current, w) /\ Owed(w) = DataReq(wseq[w] + 1)
        BY <2>2, <2>3, <3>2 DEF Sent, Owed
      <4>2. /\ wpc[w] = "DATA" /\ Head(rep[w]).seq_n = wseq[w]
            /\ Head(rep[w]).type = "DATA_REP" /\ Head(rep[w]).image = Current
        BY <2>2, <3>2, <4>1 DEF DataRep
      <4>3. ReceiveMsg(w) \/ TestReceive(w)
        BY <1>3, <4>2 DEF RecvInfoRep, TestReady
      <4>4. /\ rep' = [rep EXCEPT ![w] = Tail(@)] /\ Answer(w, Owed(w))
            /\ got' = [got EXCEPT ![w] = Append(@, Current)]
            /\ UNCHANGED <<wpc, meta, serverVars>>
        BY <4>1, <4>2, <4>3 DEF ReceiveMsg, TestReceive
      <4>5. wpc' = [wpc EXCEPT ![w] = "DATA"]
        BY <1>1, <4>2, <4>4 DEF FaultTypeOK
      <4> QED BY <1>1, <2>1, <3>2, <4>4, <4>5 DEF Answered, FaultTypeOK
    <3>3. CASE Stage(w) = "ending"
      <4>1. Sent(w) = FinRep(wseq[w]) /\ Owed(w) = FinRep(wseq[w] + 1)
        BY <2>2, <2>3, <3>3 DEF Sent, Owed
      <4>2. /\ wpc[w] = "DATA" /\ Head(rep[w]).seq_n = wseq[w]
            /\ Head(rep[w]).type = "FIN_REP"
        BY <2>2, <3>3, <4>1 DEF FinRep
      <4>3. ReceiveMsg(w) \/ TestReceive(w)
        BY <1>3, <4>2 DEF RecvInfoRep, TestReady
      <4> QED BY <1>1, <2>1, <3>3, <4>1, <4>2, <4>3
              DEF ReceiveMsg, TestReceive, Answer, Answered, FaultTypeOK
    <3> QED BY <2>2, <3>1, <3>2, <3>3 DEF Waiting
  <2>5. req' # req
    BY <1>1, <2>4, GrowsTold DEF Answered, Answer
  <2> QED BY <2>4, <2>5 DEF Work
<1> QED BY <1>2, <1>3 DEF Work, WorkerStep, TestStep

\* The messages and one more.
LEMMA AppendOf ==
  ASSUME NEW S, NEW s \in Seq(S), NEW m \in S
  PROVE  /\ Append(s, m) \in Seq(S) /\ Len(s) \in Nat /\ Len(Append(s, m)) = Len(s) + 1
         /\ Append(s, m)[Len(s) + 1] = m /\ Len(s) + 1 \in DOMAIN Append(s, m)
         /\ \A k \in DOMAIN s : Append(s, m)[k] = s[k] /\ k # Len(s) + 1
         /\ \A k \in DOMAIN Append(s, m) : k \in DOMAIN s \/ k = Len(s) + 1
OBVIOUS

\* A message of a living process, at the end of the socket.
LEMMA AppendTrue ==
  ASSUME NEW s \in Seq(BOOLEAN)
  PROVE  /\ Append(s, TRUE) \in Seq(BOOLEAN) /\ Len(s) \in Nat
         /\ Len(Append(s, TRUE)) = Len(s) + 1
         /\ Append(s, TRUE)[Len(s) + 1] = TRUE /\ Len(s) + 1 \in DOMAIN Append(s, TRUE)
         /\ \A k \in DOMAIN s : Append(s, TRUE)[k] = s[k] /\ k # Len(s) + 1
         /\ \A k \in DOMAIN Append(s, TRUE) : k \in DOMAIN s \/ k = Len(s) + 1
<1>1. \A m \in BOOLEAN :
        /\ Append(s, m) \in Seq(BOOLEAN) /\ Len(s) \in Nat
        /\ Len(Append(s, m)) = Len(s) + 1
        /\ Append(s, m)[Len(s) + 1] = m /\ Len(s) + 1 \in DOMAIN Append(s, m)
        /\ \A k \in DOMAIN s : Append(s, m)[k] = s[k] /\ k # Len(s) + 1
        /\ \A k \in DOMAIN Append(s, m) : k \in DOMAIN s \/ k = Len(s) + 1
  BY AppendOf
<1> QED BY <1>1, Zenon

\* A step that is not the distributor's leaves the invariant to the rank it is of.
LEMMA OneRank ==
  ASSUME Going, NEW w \in Worker, UNCHANGED <<serverVars, program, doomed>>, FaultTypeOK',
         \A u \in Worker \ {w} :
           UNCHANGED <<req[u], rep[u], from[u], peer[u], wpc[u], wseq[u], got[u], ever[u]>>,
         RankOK(w)', Stuck(w) => Stuck(w)'
  PROVE  Going'
<1>1. ServerTypeOK' /\ Control' /\ (spc' \in {"main", "others"} => seq' = 0)
  BY DEF Going, ServerTypeOK, Control, serverVars
<1>2. ASSUME NEW u \in Worker \ {w} PROVE RankOK(u)' /\ (Stuck(u) => Stuck(u)')
  <2>1. /\ Stage(u)' = Stage(u) /\ Num(u)' = Num(u) /\ RankOK(u)
        /\ UNCHANGED <<worker_ids[u], pushed>>
        /\ \A p \in {"push", "fin"} : (spc = p /\ u >= i)' <=> (spc = p /\ u >= i)
    BY DEF serverVars, Stage, Num, Going
  <2> QED BY <2>1, RankUntouched
<1>3. DoomOK'
  <2> SUFFICES ASSUME doomed', spc' \in {"push", "check", "fin", "finack"}
               PROVE  \E u \in Worker : Stuck(u)'
    BY DEF DoomOK
  <2>1. PICK u \in Worker : Stuck(u)
    BY DEF Going, DoomOK, serverVars
  <2> QED BY <1>2, <2>1
<1> QED BY <1>1, <1>2, <1>3, GoingParts

\* What no step but the distributor's can change.
LEMMA SameTurn ==
  ASSUME UNCHANGED serverVars, NEW w
  PROVE  /\ Stage(w)' = Stage(w) /\ Num(w)' = Num(w) /\ Current' = Current
         /\ Waiting(w)' = Waiting(w) /\ Owed(w)' = Owed(w) /\ Sent(w)' = Sent(w)
         /\ Hello(w)' = Hello(w)
         /\ UNCHANGED <<spc, i, seq, pushed, worker_ids>>
BY DEF serverVars, Stage, Num, Current, Waiting, Owed, Sent, Hello

\* A message more on the socket of rank w, of a process that lives.
MoreSaid(w, m, n) ==
  /\ req' \in [Worker -> Seq(Request)] /\ from' \in [Worker -> Seq(BOOLEAN)]
  /\ DOMAIN req[w] = DOMAIN from[w] /\ DOMAIN req'[w] = DOMAIN from'[w]
  /\ Len(req'[w]) = Len(from'[w])
  /\ req'[w][n] = m /\ n \in DOMAIN req'[w] /\ from'[w][n]
  /\ \A k \in DOMAIN req[w] : /\ k \in DOMAIN req'[w] /\ k # n
                              /\ req'[w][k] = req[w][k] /\ from'[w][k] = from[w][k]
  /\ \A k \in DOMAIN req'[w] : k \in DOMAIN req[w] \/ k = n
  /\ \A u \in Worker \ {w} : UNCHANGED <<req[u], from[u]>>

\* What a socket holds, greetings and the answer that is waited for.
LEMMA OnlyThese ==
  ASSUME NEW w \in Worker, SocketOK(w)
  PROVE  \A k \in DOMAIN req[w] : \/ req[w][k] = Hello(w)
                                  \/ Waiting(w) /\ req[w][k] = Owed(w)
BY DEF SocketOK

\* A message more at the end of a socket, and the others where they were.
LEMMA SaysMore ==
  ASSUME FaultTypeOK, NEW w \in Worker, Len(from[w]) = Len(req[w]), NEW m \in Request,
         req' = [req EXCEPT ![w] = Append(@, m)],
         from' = [from EXCEPT ![w] = Append(@, TRUE)]
  PROVE  MoreSaid(w, m, Len(req[w]) + 1)
<1> DEFINE n == Len(req[w]) + 1
<1>1. req[w] \in Seq(Request) /\ from[w] \in Seq(BOOLEAN)
  BY DEF FaultTypeOK
<1>2. req'[w] = Append(req[w], m)
  BY DEF FaultTypeOK
<1>3. from'[w] = Append(from[w], TRUE)
  BY Zenon DEF FaultTypeOK
<1>4. /\ req'[w] \in Seq(Request) /\ Len(req[w]) \in Nat /\ Len(req'[w]) = n
      /\ req'[w][n] = m /\ n \in DOMAIN req'[w]
      /\ \A k \in DOMAIN req[w] : req'[w][k] = req[w][k] /\ k # n
      /\ \A k \in DOMAIN req'[w] : k \in DOMAIN req[w] \/ k = n
  BY <1>1, <1>2, AppendOf
<1>5. /\ from'[w] \in Seq(BOOLEAN) /\ Len(from'[w]) = n /\ from'[w][n]
      /\ \A k \in DOMAIN from[w] : from'[w][k] = from[w][k]
  <2>1. /\ Append(from[w], TRUE) \in Seq(BOOLEAN)
        /\ Len(Append(from[w], TRUE)) = Len(from[w]) + 1
        /\ Append(from[w], TRUE)[Len(from[w]) + 1] = TRUE
        /\ \A k \in DOMAIN from[w] : Append(from[w], TRUE)[k] = from[w][k]
    BY <1>1, AppendTrue, Zenon
  <2> QED BY <1>3, <2>1, Zenon
<1>6. DOMAIN req[w] = DOMAIN from[w] /\ DOMAIN req'[w] = DOMAIN from'[w]
      /\ \A k \in DOMAIN req[w] : k \in DOMAIN req'[w]
  BY <1>1, <1>4, <1>5
<1>7. req' \in [Worker -> Seq(Request)]
  BY <1>2, <1>4 DEF FaultTypeOK
<1>8. from' \in [Worker -> Seq(BOOLEAN)]
  BY <1>3, <1>5 DEF FaultTypeOK
<1>9. \A u \in Worker \ {w} : UNCHANGED <<req[u], from[u]>>
  BY DEF FaultTypeOK
<1> HIDE DEF n
<1>10. MoreSaid(w, m, n)
  BY <1>4, <1>5, <1>6, <1>7, <1>8, <1>9, Zenon DEF MoreSaid
<1> QED BY <1>10 DEF n

\* A greeting keeps the invariant: it follows messages of processes that are gone, or nothing.
LEMMA HelloGoes ==
  ASSUME Going, NEW w \in Worker, SaysHello(w), DOMAIN meta' = Worker,
         from' = [from EXCEPT ![w] = Append(@, TRUE)],
         UNCHANGED <<serverVars, program, peer, ever, doomed>>
  PROVE  Going'
<1> USE NWorkersAssumption
<1>1. FaultTypeOK /\ SocketOK(w) /\ GotOK(w) /\ ~peer[w] /\ StrangerOK(w) /\ wseq[w] = 0
  <2>1. FaultTypeOK /\ SocketOK(w) /\ GotOK(w) /\ wpc[w] = "start"
    BY DEF Going, RankOK, SaysHello
  <2>2. Stage(w) \in {"hello", "greeted", "told", "ready", "data", "ending", "over"}
    BY DEF Stage
  <2>3. ~PeerOK(w)
    BY <2>1, <2>2 DEF PeerOK, Waiting
  <2> QED BY <2>1, <2>3 DEF Going, RankOK, StrangerOK
<1>2. req' = [req EXCEPT ![w] = Append(@, Hello(w))] /\ Hello(w) \in Request
  BY <1>1 DEF SaysHello, Hello, InfoReq, Request
<1>3. PICK n : MoreSaid(w, Hello(w), n)
  <2>1. Len(from[w]) = Len(req[w])
    BY <1>1 DEF SocketOK
  <2> QED BY <1>1, <1>2, <2>1, SaysMore
<1>4. /\ req' \in [Worker -> Seq(Request)] /\ from' \in [Worker -> Seq(BOOLEAN)]
      /\ DOMAIN req[w] = DOMAIN from[w] /\ DOMAIN req'[w] = DOMAIN from'[w]
      /\ Len(req'[w]) = Len(from'[w])
      /\ req'[w][n] = Hello(w) /\ n \in DOMAIN req'[w]
      /\ \A k \in DOMAIN req[w] : /\ k \in DOMAIN req'[w] /\ k # n
                                  /\ req'[w][k] = req[w][k] /\ from'[w][k] = from[w][k]
      /\ \A k \in DOMAIN req'[w] : k \in DOMAIN req[w] \/ k = n
      /\ \A u \in Worker \ {w} : UNCHANGED <<req[u], from[u]>>
  BY <1>3, Zenon DEF MoreSaid
<1>5. /\ wpc'[w] = "info" /\ wseq'[w] = 1 /\ ~peer'[w]
      /\ UNCHANGED <<rep[w], got[w], ever[w]>>
  BY <1>1 DEF FaultTypeOK, SaysHello
<1>6. \A u \in Worker \ {w} :
        UNCHANGED <<req[u], rep[u], from[u], peer[u], wpc[u], wseq[u], got[u], ever[u]>>
  BY <1>1, <1>4 DEF FaultTypeOK, SaysHello
<1>7. FaultTypeOK'
  <2>1. wpc' \in [Worker -> WorkerPc \cup {"dead"}]
    BY <1>1 DEF FaultTypeOK, SaysHello, WorkerPc
  <2>2. wseq' \in [Worker -> Nat]
    <3>1. wseq \in [Worker -> Nat] /\ wseq' = [wseq EXCEPT ![w] = @ + 1]
      BY <1>1 DEF FaultTypeOK, SaysHello
    <3> QED BY <3>1
  <2>3. /\ program' = program /\ rep' = rep /\ peer' = peer /\ got' = got /\ ever' = ever
    BY DEF SaysHello
  <2> QED BY <1>1, <1>4, <2>1, <2>2, <2>3 DEF FaultTypeOK
<1>8. /\ Stage(w)' = Stage(w) /\ Current' = Current
      /\ Waiting(w)' = Waiting(w) /\ Owed(w)' = Owed(w) /\ Sent(w)' = Sent(w)
      /\ Hello(w)' = Hello(w) /\ UNCHANGED <<spc, i, pushed>> /\ Total(w)' = Total(w)
  BY <1>5, SameTurn DEF Total
<1>9. Answers(w)' = Answers(w)
  <2>1. req'[w][n].type = "DATAINFO_REQ"
    BY <1>4 DEF Hello, InfoReq
  <2>2. ASSUME NEW k
        PROVE  (k \in DOMAIN req'[w] /\ req'[w][k].type # "DATAINFO_REQ") <=>
               (k \in DOMAIN req[w] /\ req[w][k].type # "DATAINFO_REQ")
    BY <1>4, <2>1, Zenon
  <2> QED BY <2>2 DEF Answers
<1>10. SocketOK(w)'
  <2>1. \A k \in Answers(w) : from'[w][k] <=> peer'[w]
    BY <1>1, <1>4 DEF Answers, SocketOK
  <2>2. \A k \in DOMAIN from[w] : ~from'[w][k]
    BY <1>1, <1>4 DEF StrangerOK, SaysHello
  <2>3. \A k, l \in DOMAIN from'[w] : from'[w][k] /\ from'[w][l] => k = l
    BY <1>4, <2>2
  <2>4. rep'[w] = <<>>
    BY <1>1, <1>5 DEF SocketOK
  <2>5. \A k \in DOMAIN req'[w] : \/ req'[w][k] = Hello(w)
                                  \/ Waiting(w) /\ req'[w][k] = Owed(w)
    <3>1. \A k \in DOMAIN req[w] : \/ req[w][k] = Hello(w)
                                   \/ Waiting(w) /\ req[w][k] = Owed(w)
      BY <1>1, OnlyThese
    <3> QED BY <1>4, <3>1, Zenon
  <2>6. \A k, l \in Answers(w) : k = l
    BY <1>1 DEF SocketOK
  <2>7. Len(from'[w]) = Len(req'[w])
    BY <1>4
  <2> QED BY <1>8, <1>9, <2>1, <2>3, <2>4, <2>5, <2>6, <2>7, ZenonT(40) DEF SocketOK
<1>11. StrangerOK(w)'
  BY <1>5 DEF StrangerOK
<1>12. GotOK(w)'
  BY <1>1, <1>5, <1>8, <1>9 DEF GotOK
<1>13. RankOK(w)' /\ (Stuck(w) => Stuck(w)')
  BY <1>5, <1>8, <1>9, <1>10, <1>11, <1>12 DEF RankOK, Stuck
<1> QED BY <1>6, <1>7, <1>13, OneRank

\* To append to the second of two sequences is to append to both.
LEMMA AppendToSecond ==
  ASSUME NEW S, NEW s \in Seq(S), NEW t \in Seq(S), NEW x \in S
  PROVE  s \o Append(t, x) = Append(s \o t, x)
<1>1. Len(s) \in Nat /\ Len(t) \in Nat
  OBVIOUS
<1>2. /\ s \o Append(t, x) \in Seq(S) /\ Append(s \o t, x) \in Seq(S)
      /\ Len(s \o Append(t, x)) = Len(Append(s \o t, x))
  OBVIOUS
<1>3. ASSUME NEW k \in 1 .. Len(Append(s \o t, x))
      PROVE  (s \o Append(t, x))[k] = Append(s \o t, x)[k]
  BY <1>1, <1>3
<1> QED BY <1>2, <1>3, SeqEqual

\* An answer keeps the invariant: it is the one the distributor waits for, or one too many.
LEMMA AnsweredGoes ==
  ASSUME Going, NEW w \in Worker, Answered(w), DOMAIN meta' = Worker,
         from' = [from EXCEPT ![w] = Append(@, TRUE)],
         UNCHANGED <<serverVars, program, peer, ever, doomed>>
  PROVE  Going'
<1> USE NWorkersAssumption
<1>1. FaultTypeOK /\ ServerTypeOK /\ SocketOK(w) /\ GotOK(w) /\ Num(w) \in Nat
  BY DEF Going, RankOK, ServerTypeOK, Num
<1>2. peer[w] /\ PeerOK(w) /\ Waiting(w) /\ Answers(w) = {} /\ rep[w] = <<Sent(w)>>
  BY <1>1 DEF Going, RankOK, SocketOK, Answered
<1>3. wseq[w] = Num(w) - 1
  BY <1>2 DEF PeerOK
<1>4. req' = [req EXCEPT ![w] = Append(@, Owed(w))] /\ Owed(w) \in Request
      /\ Owed(w).type # "DATAINFO_REQ"
  BY <1>1 DEF Answered, Answer, Owed, DataReq, FinRep, Request
<1>5. PICK n : MoreSaid(w, Owed(w), n)
  <2>1. Len(from[w]) = Len(req[w])
    BY <1>1 DEF SocketOK
  <2> QED BY <1>1, <1>4, <2>1, SaysMore
<1>6. /\ req' \in [Worker -> Seq(Request)] /\ from' \in [Worker -> Seq(BOOLEAN)]
      /\ DOMAIN req[w] = DOMAIN from[w] /\ DOMAIN req'[w] = DOMAIN from'[w]
      /\ Len(req'[w]) = Len(from'[w])
      /\ req'[w][n] = Owed(w) /\ n \in DOMAIN req'[w] /\ from'[w][n]
      /\ \A k \in DOMAIN req[w] : /\ k \in DOMAIN req'[w] /\ k # n
                                  /\ req'[w][k] = req[w][k] /\ from'[w][k] = from[w][k]
      /\ \A k \in DOMAIN req'[w] : k \in DOMAIN req[w] \/ k = n
      /\ \A u \in Worker \ {w} : UNCHANGED <<req[u], from[u]>>
  BY <1>5, Zenon DEF MoreSaid
<1>7. /\ wpc'[w] = IF Stage(w) = "ending" THEN "FIN" ELSE "DATA"
      /\ wseq'[w] = Num(w) + 1 /\ peer'[w] /\ rep'[w] = <<>> /\ UNCHANGED ever[w]
      /\ got'[w] = IF Stage(w) = "data" THEN Append(got[w], Current) ELSE got[w]
  BY <1>1, <1>2, <1>3 DEF FaultTypeOK, Answered, Answer
<1>8. \A u \in Worker \ {w} :
        UNCHANGED <<req[u], rep[u], from[u], peer[u], wpc[u], wseq[u], got[u], ever[u]>>
  BY <1>1, <1>6 DEF FaultTypeOK, Answered, Answer
<1>9. /\ Stage(w)' = Stage(w) /\ Num(w)' = Num(w) /\ Current' = Current
      /\ Waiting(w)' = Waiting(w) /\ Owed(w)' = Owed(w) /\ Sent(w)' = Sent(w)
      /\ Hello(w)' = Hello(w) /\ UNCHANGED <<spc, i, pushed>>
  BY SameTurn
<1>10. ~(spc = "push" /\ w >= i) /\ ~(spc = "fin" /\ w >= i)
  BY <1>1, <1>2 DEF Waiting, Stage, ServerTypeOK
<1>11. /\ Stage(w) = "data" => pushed # <<>> /\ pushed = Append(Total(w), Current)
       /\ Stage(w) # "data" => Total(w) = pushed
  BY <1>1, <1>2, <1>10 DEF GotOK
<1>12. Stage(w) = "data" => Current \in Image
  BY <1>1, <1>11 DEF Current, ServerTypeOK
<1>13. Total(w)' = pushed
  <2>1. CASE Stage(w) = "data"
    <3>1. ever[w] \in Seq(Image) /\ got[w] \in Seq(Image)
      BY <1>1 DEF FaultTypeOK
    <3>2. ever[w] \o Append(got[w], Current) = Append(ever[w] \o got[w], Current)
      <4>1. Current \in Image
        BY <1>12, <2>1
      <4>2. \A s, t \in Seq(Image) : \A x \in Image : s \o Append(t, x) = Append(s \o t, x)
        BY AppendToSecond
      <4> QED BY <3>1, <4>1, <4>2
    <3> QED BY <1>7, <1>11, <2>1, <3>2 DEF Total
  <2>2. CASE Stage(w) # "data"
    BY <1>7, <1>11, <2>2 DEF Total
  <2> QED BY <2>1, <2>2
<1>14. FaultTypeOK'
  <2>1. got' \in [Worker -> Seq(Image)]
    <3>1. got \in [Worker -> Seq(Image)]
      BY <1>1 DEF FaultTypeOK
    <3>2. Stage(w) = "data" => Append(got[w], Current) \in Seq(Image)
      BY <1>12, <3>1
    <3> QED BY <3>1, <3>2 DEF Answered
  <2>2. wseq' \in [Worker -> Nat]
    <3>1. wseq \in [Worker -> Nat] /\ wseq' = [wseq EXCEPT ![w] = @ + 2]
      BY <1>1 DEF FaultTypeOK, Answered, Answer
    <3> QED BY <3>1
  <2> QED BY <1>1, <1>6, <2>1, <2>2 DEF FaultTypeOK, Answered, WorkerPc
<1>15. Answers(w)' = {n}
  BY <1>2, <1>4, <1>6 DEF Answers
<1>16. \A k \in DOMAIN from'[w] : from'[w][k] => k = n
  BY <1>2, <1>6 DEF PeerOK
<1>17. SocketOK(w)'
  <2>1. \A k \in DOMAIN req'[w] : \/ req'[w][k] = Hello(w)
                                  \/ Waiting(w) /\ req'[w][k] = Owed(w)
    <3>1. \A k \in DOMAIN req[w] : \/ req[w][k] = Hello(w)
                                   \/ Waiting(w) /\ req[w][k] = Owed(w)
      BY <1>1, OnlyThese
    <3> QED BY <1>2, <1>6, <3>1, Zenon
  <2>2. from'[w][n] <=> peer'[w]
    BY <1>6, <1>7
  <2> QED BY <1>6, <1>7, <1>9, <1>15, <1>16, <2>1, <2>2 DEF SocketOK
<1>18. PeerOK(w)'
  BY <1>2, <1>7, <1>9, <1>15, <1>16 DEF PeerOK, Waiting
<1>19. GotOK(w)'
  BY <1>7, <1>9, <1>10, <1>13 DEF GotOK
<1>20. RankOK(w)' /\ ~Stuck(w)
  BY <1>2, <1>7, <1>10, <1>17, <1>18, <1>19 DEF RankOK, Stuck
<1> QED BY <1>8, <1>14, <1>20, OneRank

\* Every step of a worker keeps the invariant.
LEMMA WorkGoes == ASSUME Going, NEW w \in Worker, Work(w) PROVE Going'
BY WorkDoes, HelloGoes, AnsweredGoes

-----------------------------------------------------------------------------
\* A process dies: the messages it has sent are then of nobody, and what it has got
\* counts among what the rank has got.
LEMMA CrashGoes == ASSUME Going, NEW w \in Worker, Crash(w) PROVE Going'
<1> USE NWorkersAssumption
<1>1. FaultTypeOK /\ ServerTypeOK /\ SocketOK(w) /\ GotOK(w)
  BY DEF Going, RankOK
<1>2. /\ wpc'[w] = "dead" /\ ever'[w] = ever[w] \o got[w] /\ got'[w] = <<>> /\ wseq'[w] = 0
      /\ rep'[w] = <<>> /\ ~peer'[w]
      /\ UNCHANGED <<serverVars, program, doomed>>
  BY <1>1 DEF FaultTypeOK, Crash
<1>3. /\ req' \in [Worker -> Seq(Request)] /\ from' \in [Worker -> Seq(BOOLEAN)]
      /\ req'[w] = req[w] \/ req'[w] = <<>>
      /\ DOMAIN from'[w] = DOMAIN req'[w] /\ Len(from'[w]) = Len(req'[w])
      /\ \A k \in DOMAIN from'[w] : ~from'[w][k]
      /\ \A u \in Worker \ {w} : UNCHANGED <<req[u], from[u]>>
  <2>1. CASE req' = req /\ from' = [from EXCEPT ![w] = [n \in DOMAIN @ |-> FALSE]]
    <3>1. DOMAIN from[w] = 1 .. Len(req[w]) /\ Len(req[w]) \in Nat /\ DOMAIN req[w] = 1 .. Len(req[w])
      BY <1>1 DEF FaultTypeOK, SocketOK
    <3>2. from'[w] = [n \in 1 .. Len(req[w]) |-> FALSE]
      BY <1>1, <2>1, <3>1 DEF FaultTypeOK
    <3>3. from'[w] \in Seq(BOOLEAN)
      BY <3>1, <3>2
    <3>4. Len(from'[w]) = Len(req[w])
      BY <3>1, <3>2, <3>3
    <3>5. from' \in [Worker -> Seq(BOOLEAN)]
      BY <1>1, <2>1, <3>2, <3>3 DEF FaultTypeOK
    <3> QED BY <1>1, <2>1, <3>1, <3>2, <3>4, <3>5 DEF FaultTypeOK
  <2>2. CASE req' = [req EXCEPT ![w] = <<>>] /\ from' = [from EXCEPT ![w] = <<>>]
    <3>1. req \in [Worker -> Seq(Request)] /\ from \in [Worker -> Seq(BOOLEAN)]
      BY <1>1 DEF FaultTypeOK
    <3>2. req'[w] = <<>> /\ from'[w] = <<>>
      BY <2>2, <3>1
    <3>3. /\ req' \in [Worker -> Seq(Request)] /\ from' \in [Worker -> Seq(BOOLEAN)]
          /\ \A u \in Worker \ {w} : UNCHANGED <<req[u], from[u]>>
      BY <2>2, <3>1
    <3> QED BY <3>2, <3>3
  <2> QED BY <2>1, <2>2 DEF Crash
<1>4. FaultTypeOK'
  <2>1. ever[w] \o got[w] \in Seq(Image)
    BY <1>1 DEF FaultTypeOK
  <2>2. ever' \in [Worker -> Seq(Image)] /\ got' \in [Worker -> Seq(Image)]
    <3>1. <<>> \in Seq(Image)
      OBVIOUS
    <3> QED BY <1>1, <2>1, <3>1 DEF FaultTypeOK, Crash
  <2>3. peer' \in [Worker -> BOOLEAN]
    BY <1>1 DEF FaultTypeOK, Crash
  <2>4. /\ program' \in {"sirt_stream", "worker"} /\ DOMAIN rep' = Worker /\ DOMAIN meta' = Worker
        /\ wpc' \in [Worker -> WorkerPc \cup {"dead"}] /\ wseq' \in [Worker -> Nat]
    BY <1>1 DEF FaultTypeOK, Crash
  <2> QED BY <1>3, <2>2, <2>3, <2>4 DEF FaultTypeOK
<1>5. \A u \in Worker \ {w} :
        UNCHANGED <<req[u], rep[u], from[u], peer[u], wpc[u], wseq[u], got[u], ever[u]>>
  BY <1>1, <1>3 DEF FaultTypeOK, Crash
<1>6. /\ Stage(w)' = Stage(w) /\ Current' = Current
      /\ Waiting(w)' = Waiting(w) /\ Owed(w)' = Owed(w)
      /\ Hello(w)' = Hello(w) /\ UNCHANGED <<spc, i, pushed>>
  BY <1>2, SameTurn
<1>7. Total(w)' = Total(w)
  <2>1. ever[w] \in Seq(Image) /\ got[w] \in Seq(Image)
    BY <1>1 DEF FaultTypeOK
  <2>2. ever[w] \o got[w] \in Seq(Image)
    BY <2>1
  <2>3. (ever[w] \o got[w]) \o <<>> = ever[w] \o got[w]
    BY <2>2, ConcatEmptySeq
  <2> QED BY <1>2, <2>3 DEF Total
<1>8. Answers(w)' \subseteq Answers(w)
  BY <1>3 DEF Answers
<1>9. SocketOK(w)'
  <2>1. \A k \in DOMAIN req'[w] : \/ req'[w][k] = Hello(w)
                                  \/ Waiting(w) /\ req'[w][k] = Owed(w)
    <3>1. \A k \in DOMAIN req[w] : req[w][k] = Hello(w) \/ (Waiting(w) /\ req[w][k] = Owed(w))
      BY <1>1 DEF SocketOK
    <3>2. CASE req'[w] = req[w]
      BY <3>1, <3>2
    <3>3. CASE req'[w] = <<>>
      BY <3>3
    <3> QED BY <1>3, <3>2, <3>3
  <2>2. \A k \in Answers(w)' : from'[w][k] <=> peer'[w]
    BY <1>2, <1>3 DEF Answers
  <2>3. \A k, l \in Answers(w)' : k = l
    BY <1>1, <1>8 DEF SocketOK
  <2> QED BY <1>2, <1>3, <1>6, <2>1, <2>2, <2>3 DEF SocketOK
<1>10. StrangerOK(w)'
  BY <1>2, <1>3 DEF StrangerOK
<1>11. GotOK(w)'
  <2>1. (spc = "push" /\ w >= i) \/ (Stage(w) = "data" /\ rep[w] # <<>>) =>
          pushed # <<>> /\ pushed = Append(Total(w), Current)
    BY <1>1 DEF GotOK
  <2>2. ~(spc = "push" /\ w >= i) /\ (Stage(w) = "data" => Answers(w) # {}) =>
          Total(w) = pushed
    BY <1>1 DEF GotOK
  <2> QED BY <1>2, <1>6, <1>7, <1>8, <2>1, <2>2 DEF GotOK
<1>12. RankOK(w)' /\ (Stuck(w) => Stuck(w)')
  BY <1>2, <1>6, <1>8, <1>9, <1>10, <1>11 DEF RankOK, Stuck
<1> QED BY <1>2, <1>4, <1>5, <1>12, OneRank

\* A process that takes the place of a dead one starts with nothing said and nothing got.
LEMMA RestartGoes == ASSUME Going, NEW w \in Worker, Restart(w) PROVE Going'
<1>1. FaultTypeOK /\ ServerTypeOK /\ RankOK(w) /\ wpc[w] = "dead"
  BY DEF Going, Restart
<1>2. ~peer[w]
  <2>1. Stage(w) \in {"hello", "greeted", "told", "ready", "data", "ending", "over"}
    BY DEF Stage
  <2>2. ~PeerOK(w)
    BY <1>1, <2>1 DEF PeerOK, Waiting
  <2> QED BY <1>1, <2>2 DEF RankOK
<1>3. wpc'[w] = "start" /\ UNCHANGED <<serverVars, req, rep, wseq, meta, got, faultVars>>
  BY <1>1 DEF FaultTypeOK, Restart
<1>4. FaultTypeOK'
  BY <1>1, <1>3 DEF FaultTypeOK, Restart, WorkerPc, faultVars, linkFaults
<1>5. \A u \in Worker \ {w} :
        UNCHANGED <<req[u], rep[u], from[u], peer[u], wpc[u], wseq[u], got[u], ever[u]>>
  BY <1>1 DEF FaultTypeOK, Restart, faultVars, linkFaults
<1>6. UNCHANGED <<req[w], rep[w], from[w], peer[w], wseq[w], got[w], ever[w]>>
  BY <1>3 DEF faultVars, linkFaults
<1>7. /\ Stage(w)' = Stage(w) /\ Num(w)' = Num(w) /\ Current' = Current
      /\ Waiting(w)' = Waiting(w) /\ Owed(w)' = Owed(w) /\ Sent(w)' = Sent(w)
      /\ Hello(w)' = Hello(w) /\ UNCHANGED <<spc, i, pushed>>
  BY <1>3, SameTurn
<1>8. Answers(w)' = Answers(w) /\ Total(w)' = Total(w)
  BY <1>6 DEF Answers, Total
<1>9. SocketOK(w)'
  BY <1>1, <1>6, <1>7, <1>8 DEF RankOK, SocketOK
<1>10. StrangerOK(w)'
  BY <1>1, <1>2, <1>3, <1>6 DEF RankOK, StrangerOK
<1>11. GotOK(w)'
  BY <1>1, <1>6, <1>7, <1>8 DEF RankOK, GotOK
<1>12. RankOK(w)' /\ (Stuck(w) => Stuck(w)')
  BY <1>2, <1>6, <1>7, <1>8, <1>9, <1>10, <1>11 DEF RankOK, Stuck
<1> QED BY <1>3, <1>4, <1>5, <1>12, OneRank DEF faultVars, linkFaults

\* The first two of a sequence change places.
Swap(k) == CASE k = 1 -> 2 [] k = 2 -> 1 [] OTHER -> k

\* A sequence without its first two elements.
LEMMA TailTail ==
  ASSUME NEW S, NEW s \in Seq(S), Len(s) > 1
  PROVE  /\ Tail(Tail(s)) \in Seq(S) /\ Len(Tail(Tail(s))) = Len(s) - 2
         /\ \A k \in 1 .. Len(s) - 2 : Tail(Tail(s))[k] = s[k + 2]
<1> DEFINE q == Tail(s)
<1>1. q \in Seq(S) /\ Len(q) = Len(s) - 1 /\ \A k \in 1 .. Len(s) - 1 : q[k] = s[k + 1]
  OBVIOUS
<1>2. Len(s) \in Nat
  OBVIOUS
<1> HIDE DEF q
<1>3. Tail(q) \in Seq(S) /\ Len(Tail(q)) = Len(s) - 2
      /\ \A k \in 1 .. Len(s) - 2 : Tail(q)[k] = q[k + 1]
  BY <1>1, <1>2
<1>4. ASSUME NEW k \in 1 .. Len(s) - 2 PROVE Tail(q)[k] = s[k + 2]
  <2>1. k + 1 \in 1 .. Len(s) - 1 /\ (k + 1) + 1 = k + 2
    BY <1>2
  <2> QED BY <1>1, <1>3, <2>1
<1> QED BY <1>3, <1>4 DEF q

Exchange(s) == <<s[2], s[1]>> \o Tail(Tail(s))

\* The exchange of the first two messages is its own inverse.
LEMMA Swapped ==
  ASSUME NEW S, NEW s \in Seq(S), Len(s) > 1
  PROVE  /\ Exchange(s) \in Seq(S) /\ Len(Exchange(s)) = Len(s) /\ DOMAIN Exchange(s) = DOMAIN s
         /\ \A k \in DOMAIN s : /\ Swap(k) \in DOMAIN s /\ Swap(Swap(k)) = k
                                /\ Exchange(s)[k] = s[Swap(k)]
<1> DEFINE u == <<s[2], s[1]>>
           r == Tail(Tail(s))
           t == u \o r
<1>1. u \in Seq(S) /\ Len(u) = 2
  <2>1. s[2] \in S /\ s[1] \in S
    OBVIOUS
  <2> QED BY <2>1
<1>2. u[1] = s[2] /\ u[2] = s[1]
  OBVIOUS
<1>3. r \in Seq(S) /\ Len(r) = Len(s) - 2
  BY TailTail
<1>4. \A k \in 1 .. Len(s) - 2 : r[k] = s[k + 2]
  BY TailTail
<1> HIDE DEF u, r
<1>5. t \in Seq(S) /\ Len(t) = Len(u) + Len(r)
  BY <1>1, <1>3, ConcatProperties, Zenon
<1>6. \A k \in 1 .. Len(u) + Len(r) : t[k] = IF k <= Len(u) THEN u[k] ELSE r[k - Len(u)]
  BY <1>1, <1>3, ConcatProperties, Zenon
<1> HIDE DEF t
<1>7. Len(s) \in Nat /\ Len(u) + Len(r) = Len(s) /\ DOMAIN s = 1 .. Len(s) /\ DOMAIN t = 1 .. Len(s)
  BY <1>1, <1>3, <1>5
<1>8. ASSUME NEW k \in 1 .. Len(s)
      PROVE  Swap(k) \in 1 .. Len(s) /\ Swap(Swap(k)) = k /\ t[k] = s[Swap(k)]
  <2>1. t[k] = IF k <= 2 THEN u[k] ELSE r[k - 2]
    BY <1>1, <1>6, <1>7
  <2>2. CASE k > 2
    <3>1. t[k] = r[k - 2] /\ k - 2 \in 1 .. Len(s) - 2 /\ (k - 2) + 2 = k
      BY <1>7, <2>1, <2>2
    <3>2. Swap(k) = k
      BY <2>2 DEF Swap
    <3> QED BY <1>4, <3>1, <3>2
  <2>3. CASE k = 1 \/ k = 2
    BY <1>2, <1>7, <2>1, <2>3 DEF Swap
  <2>4. k > 2 \/ k = 1 \/ k = 2
    OBVIOUS
  <2> QED BY <2>2, <2>3, <2>4
<1>9. t \in Seq(S) /\ Len(t) = Len(s) /\ DOMAIN t = DOMAIN s
  BY <1>1, <1>3, <1>5, <1>7
<1>10. \A k \in DOMAIN s : Swap(k) \in DOMAIN s /\ Swap(Swap(k)) = k /\ t[k] = s[Swap(k)]
  BY <1>7, <1>8
<1>11. t = Exchange(s)
  BY DEF u, r, t, Exchange
<1> QED BY <1>9, <1>10, <1>11

\* Which of two connections of a socket is served first makes no difference.
LEMMA OvertakeGoes == ASSUME Going, NEW w \in Worker, Overtake(w) PROVE Going'
<1>1. FaultTypeOK /\ ServerTypeOK /\ RankOK(w)
  BY DEF Going
<1>2. req[w] \in Seq(Request) /\ from[w] \in Seq(BOOLEAN)
      /\ Len(from[w]) = Len(req[w]) /\ Len(req[w]) > 1 /\ DOMAIN from[w] = DOMAIN req[w]
  <2>1. req[w] \in Seq(Request) /\ from[w] \in Seq(BOOLEAN)
    BY <1>1 DEF FaultTypeOK
  <2>2. Len(from[w]) = Len(req[w]) /\ Len(req[w]) > 1
    BY <1>1 DEF RankOK, SocketOK, Overtake
  <2> QED BY <2>1, <2>2
<1>3. /\ req'[w] \in Seq(Request) /\ Len(req'[w]) = Len(req[w]) /\ DOMAIN req'[w] = DOMAIN req[w]
      /\ \A k \in DOMAIN req[w] : /\ Swap(k) \in DOMAIN req[w] /\ Swap(Swap(k)) = k
                                  /\ req'[w][k] = req[w][Swap(k)]
  <2>1. req'[w] = Exchange(req[w])
    BY <1>1 DEF FaultTypeOK, Overtake, Exchange
  <2> QED BY <1>2, <2>1, Swapped
<1>4. /\ from'[w] \in Seq(BOOLEAN) /\ Len(from'[w]) = Len(from[w]) /\ DOMAIN from'[w] = DOMAIN from[w]
      /\ \A k \in DOMAIN from[w] : from'[w][k] = from[w][Swap(k)]
  <2>1. from'[w] = Exchange(from[w])
    BY <1>1 DEF FaultTypeOK, Overtake, Exchange
  <2>2. Len(from[w]) > 1
    BY <1>2
  <2> QED BY <1>2, <2>1, <2>2, Swapped
<1>5. /\ \A u \in Worker \ {w} : UNCHANGED <<req[u], from[u]>>
      /\ req' \in [Worker -> Seq(Request)] /\ from' \in [Worker -> Seq(BOOLEAN)]
  BY <1>1, <1>3, <1>4 DEF FaultTypeOK, Overtake
<1>6. UNCHANGED <<serverVars, rep, workerVars, program, peer, ever, doomed>>
  BY DEF Overtake
<1>7. FaultTypeOK'
  BY <1>1, <1>5, <1>6 DEF FaultTypeOK, workerVars
<1>8. \A u \in Worker \ {w} :
        UNCHANGED <<req[u], rep[u], from[u], peer[u], wpc[u], wseq[u], got[u], ever[u]>>
  BY <1>5, <1>6 DEF workerVars
<1>9. /\ Stage(w)' = Stage(w) /\ Num(w)' = Num(w) /\ Current' = Current
      /\ Waiting(w)' = Waiting(w) /\ Owed(w)' = Owed(w) /\ Sent(w)' = Sent(w)
      /\ Hello(w)' = Hello(w) /\ Total(w)' = Total(w) /\ UNCHANGED <<spc, i, pushed, worker_ids>>
      /\ UNCHANGED <<rep[w], peer[w], wpc[w], wseq[w], got[w], ever[w]>>
  BY <1>6, SameTurn DEF workerVars, Total
<1>10. \A k \in DOMAIN req[w] : k \in Answers(w)' <=> Swap(k) \in Answers(w)
  BY <1>3 DEF Answers
<1>11. Answers(w) = {} <=> Answers(w)' = {}
  BY <1>3, <1>10 DEF Answers
<1>12. SocketOK(w)'
  <2>1. SocketOK(w) /\ Answers(w) \subseteq DOMAIN req[w] /\ Answers(w)' \subseteq DOMAIN req[w]
    BY <1>1, <1>3 DEF RankOK, Answers
  <2>2. \A k \in DOMAIN req'[w] : \/ req'[w][k] = Hello(w)
                                  \/ Waiting(w) /\ req'[w][k] = Owed(w)
    BY <1>3, <2>1 DEF SocketOK
  <2>3. \A k, l \in Answers(w)' : k = l
    BY <1>3, <1>10, <2>1 DEF SocketOK
  <2>4. \A k \in Answers(w)' : from'[w][k] <=> peer[w]
    BY <1>2, <1>4, <1>10, <2>1 DEF SocketOK
  <2>5. \A k, l \in DOMAIN from'[w] : from'[w][k] /\ from'[w][l] => k = l
    BY <1>2, <1>3, <1>4, <2>1 DEF SocketOK
  <2> QED BY <1>2, <1>3, <1>4, <1>9, <1>11, <2>1, <2>2, <2>3, <2>4, <2>5 DEF SocketOK
<1>13. peer[w] => PeerOK(w)'
  <2> SUFFICES ASSUME peer[w] PROVE PeerOK(w)'
    OBVIOUS
  <2>1. PeerOK(w)
    BY <1>1 DEF RankOK
  <2>2. \A k \in DOMAIN from'[w] : from'[w][k] => k \in Answers(w)'
    BY <1>2, <1>3, <1>4, <1>10, <2>1 DEF PeerOK
  <2> QED BY <1>9, <1>11, <2>1, <2>2 DEF PeerOK
<1>14. ~peer[w] => StrangerOK(w)'
  <2> SUFFICES ASSUME ~peer[w] PROVE StrangerOK(w)'
    OBVIOUS
  <2>1. StrangerOK(w)
    BY <1>1 DEF RankOK
  <2> QED BY <1>2, <1>3, <1>4, <1>9, <2>1 DEF StrangerOK
<1>15. GotOK(w)'
  BY <1>1, <1>9, <1>11 DEF RankOK, GotOK
<1>16. RankOK(w)' /\ (Stuck(w) => Stuck(w)')
  BY <1>9, <1>11, <1>12, <1>13, <1>14, <1>15 DEF RankOK, Stuck
<1> QED BY <1>6, <1>7, <1>8, <1>16, OneRank

\* The distributor closes its sockets after the last worker.
LEMMA CloseGoes == Going /\ Close => Going'
<1> SUFFICES ASSUME Going, Close PROVE Going'
  OBVIOUS
<1>1. /\ ServerTypeOK /\ Control /\ FaultTypeOK /\ spc = "done" /\ spc' = "closed" /\ i = 0
      /\ UNCHANGED <<i, seq, n_workers, worker_ids, pushed, req, rep, workerVars, faultVars>>
  BY DEF Going, Control, Close, Finalize
<1>2. ServerTypeOK' /\ Control' /\ FaultTypeOK'
  BY <1>1 DEF ServerTypeOK, ServerPc, Control, FaultTypeOK, workerVars, faultVars, linkFaults
<1>3. ASSUME NEW w \in Worker PROVE RankOK(w)'
  <2>1. Stage(w)' = Stage(w) /\ Num(w)' = Num(w) /\ RankOK(w)
    BY <1>1 DEF Stage, Num, Going
  <2>2. UNCHANGED <<req[w], rep[w], from[w], peer[w], wpc[w], wseq[w], got[w], ever[w],
                    worker_ids[w], pushed>>
    BY <1>1 DEF workerVars, faultVars, linkFaults
  <2>3. \A p \in {"push", "fin"} : (spc = p /\ w >= i)' <=> (spc = p /\ w >= i)
    BY <1>1
  <2> QED BY <2>1, <2>2, <2>3, RankUntouched
<1>4. DoomOK'
  BY <1>1 DEF DoomOK
<1> QED BY <1>1, <1>2, <1>3, <1>4 DEF Going

\* A step that changes nothing keeps the invariant.
LEMMA StutterGoes == Going /\ UNCHANGED <<vars, faultVars>> => Going'
<1> SUFFICES ASSUME Going, UNCHANGED <<vars, faultVars>> PROVE Going'
  OBVIOUS
<1>1. /\ ServerTypeOK' /\ Control' /\ FaultTypeOK' /\ (spc' \in {"main", "others"} => seq' = 0)
  BY DEF Going, ServerTypeOK, Control, FaultTypeOK, vars, faultVars, linkFaults
<1>2. ASSUME NEW w \in Worker PROVE RankOK(w)' /\ (Stuck(w) => Stuck(w)')
  <2>1. Stage(w)' = Stage(w) /\ Num(w)' = Num(w) /\ RankOK(w)
    BY DEF Stage, Num, Going, vars
  <2>2. UNCHANGED <<req[w], rep[w], from[w], peer[w], wpc[w], wseq[w], got[w], ever[w],
                    worker_ids[w], pushed>>
    BY DEF vars, faultVars, linkFaults
  <2>3. \A p \in {"push", "fin"} : (spc = p /\ w >= i)' <=> (spc = p /\ w >= i)
    BY DEF vars
  <2> QED BY <2>1, <2>2, <2>3, RankUntouched
<1>3. DoomOK'
  BY <1>2 DEF Going, DoomOK, vars, faultVars, linkFaults
<1> QED BY <1>1, <1>2, <1>3 DEF Going

\* A failed assert is the end of the distributor.
LEMMA AbortIsFinal == spc = "abort" /\ [RestartNext]_<<vars, faultVars>> => spc' = "abort"
<1> SUFFICES ASSUME spc = "abort", RestartNext PROVE spc' = "abort"
  BY DEF vars
<1>1. ~Receive
  BY DEF Receive, RecvMain, RecvOther, RecvReady, RecvAck, RecvFin, Expect
<1>2. ~Deliver /\ ~Drop
  BY DEF Deliver, SendInfo, SendImage, SendFin, Send, Drop, Discard
<1>3. ~Call /\ ~Close
  BY DEF Call, Caller, DoneImage, PushImage, Close, Finalize
<1>4. ASSUME NEW w \in Worker, Work(w) \/ Crash(w) \/ Restart(w) \/ Overtake(w)
      PROVE  UNCHANGED serverVars
  BY <1>4 DEF Work, WorkerStep, TestStep, SendInfoReq, RecvInfoRep, ReceiveMsg,
              TestHandshake, TestReady, TestReceive, Crash, Restart, Overtake
<1> QED BY <1>1, <1>2, <1>3, <1>4 DEF RestartNext, serverVars

\* Every step keeps the invariant as long as the distributor has not aborted.
LEMMA RestartNextInv == RestartInv /\ [RestartNext]_<<vars, faultVars>> => RestartInv'
<1> SUFFICES ASSUME RestartInv, [RestartNext]_<<vars, faultVars>>, spc' # "abort" PROVE Going'
  BY DEF RestartInv
<1>1. Going
  BY AbortIsFinal DEF RestartInv
<1>2. CASE Receive
  BY <1>1, <1>2, ReceiveGoes DEF RestartInv
<1>3. CASE Deliver
  BY <1>1, <1>3, DeliverGoes
<1>4. CASE Drop
  BY <1>1, <1>4, DropGoes
<1>5. CASE Call
  BY <1>1, <1>5, CallGoes
<1>6. CASE Close
  BY <1>1, <1>6, CloseGoes
<1>7. ASSUME NEW w \in Worker, Work(w) \/ Crash(w) \/ Restart(w) \/ Overtake(w) PROVE Going'
  BY <1>1, <1>7, WorkGoes, CrashGoes, RestartGoes, OvertakeGoes
<1>8. CASE UNCHANGED <<vars, faultVars>>
  BY <1>1, <1>8, StutterGoes
<1> QED BY <1>2, <1>3, <1>4, <1>5, <1>6, <1>7, <1>8 DEF RestartNext

\* As long as the distributor has not aborted, every socket holds greetings and at
\* most the one answer that is due, the process it would answer keeps pace, and no
\* rank lacks an image but the one under way.
THEOREM RestartInvariant == RestartSpec => []RestartInv
<1>1. RestartInit => RestartInv
  BY RestartInitInv DEF RestartInv
<1> QED BY <1>1, RestartNextInv, PTL DEF RestartSpec

-----------------------------------------------------------------------------
\* When push_image has returned every rank has got every image, whichever of its
\* processes got it: server.c never takes the greeting of a new process for the
\* acknowledgement of an image (the types are asserted).
THEOREM Delivered == RestartSpec => []DeliveredDespiteCrash
<1>1. RestartInv => DeliveredDespiteCrash
  <2> SUFFICES ASSUME Going, spc = "idle", NEW w \in Worker PROVE Total(w) = pushed
    BY DEF RestartInv, DeliveredDespiteCrash, Total
  <2>1. Stage(w) = "ready"
    BY DEF Stage
  <2> QED BY <2>1 DEF Going, RankOK, GotOK
<1> QED BY <1>1, RestartInvariant, PTL

\* The last turn of an acknowledgement loop of a call that began without some worker
\* never succeeds: that worker's answer, which nobody will give, is still due.
LEMMA NoWayOn ==
  Going /\ [RestartNext]_<<vars, faultVars>> =>
    (spc \in {"check", "finack"} /\ spc' \in {"idle", "done"} => ~doomed)
<1> SUFFICES ASSUME Going, RestartNext, spc \in {"check", "finack"}, spc' \in {"idle", "done"},
                    doomed
             PROVE  FALSE
  BY DEF vars
<1> USE NWorkersAssumption
<1>1. RecvAck \/ RecvFin
  <2>1. ~Deliver /\ ~Drop
    BY DEF Deliver, SendInfo, SendImage, SendFin, Send, Drop, Discard
  <2>2. ~Call /\ ~Close
    BY DEF Call, Caller, DoneImage, PushImage, Close, Finalize
  <2>3. ASSUME NEW w \in Worker, Work(w) \/ Crash(w) \/ Restart(w) \/ Overtake(w)
        PROVE  UNCHANGED serverVars
    BY <2>3 DEF Work, WorkerStep, TestStep, SendInfoReq, RecvInfoRep, ReceiveMsg,
                TestHandshake, TestReady, TestReceive, Crash, Restart, Overtake
  <2>4. Receive
    BY <2>1, <2>2, <2>3 DEF RestartNext, serverVars
  <2> QED BY <2>4 DEF Receive, RecvMain, RecvOther, RecvReady, Expect
<1>2. ServerTypeOK /\ Control /\ n_workers = NWorkers
  BY DEF Going, Control
<1>3. /\ Asked /\ EndOfTurn(n_workers, spc, spc') /\ i + 1 >= NWorkers
      /\ Msg.type # "DATAINFO_REQ"
  BY <1>1, <1>2 DEF RecvAck, RecvFin, Expect, ServerAbort, EndOfTurn
<1>4. PICK w \in Worker : Stuck(w)
  BY DEF Going, DoomOK
<1>5. w = i /\ Answers(w) = {}
  BY <1>2, <1>3, <1>4 DEF Stuck, Stage, ServerTypeOK
<1>6. req[w] \in Seq(Request) /\ req[w] # <<>>
  BY <1>3, <1>5 DEF Going, FaultTypeOK, Asked
<1>7. 1 \in DOMAIN req[w] /\ Msg = req[w][1]
  BY <1>5, <1>6, TailOf DEF Msg
<1>8. 1 \in Answers(w)
  BY <1>3, <1>7 DEF Answers
<1> QED BY <1>5, <1>8

\* A push_image or done_image that began without some worker never returns: a blocked
\* or aborted distributor, and never one that goes on as if all had answered.
THEOREM NeverGoesOn == RestartSpec => FailStop
<1>1. RestartInv /\ [RestartNext]_<<vars, faultVars>> =>
        [(spc \in {"check", "finack"} /\ spc' \in {"idle", "done"}) => ~doomed]_<<vars, faultVars>>
  BY NoWayOn DEF RestartInv
<1> QED BY <1>1, RestartInvariant, PTL DEF RestartSpec, FailStop
=============================================================================
