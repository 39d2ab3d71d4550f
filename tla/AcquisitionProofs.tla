------------------------- MODULE AcquisitionProofs -------------------------
(***************************************************************************)
(* Proofs about Acquisition, for any number of distributors and workers    *)
(* and any file: what a --synch_count that counts messages, and not        *)
(* subscribers, achieves; that a round publishes every frame once; and     *)
(* that a distributor, whenever its subscription arrives, keeps the flats  *)
(* of the round and pushes every projection it has received.               *)
(***************************************************************************)
EXTENDS Acquisition, SequenceLemmas

\* The synchronisation messages there are: number i of distributor s.
Message == UNION {{s} \X (1 .. NWorkers[s]) : s \in Subs}

\* Those answered so far.
Answered == {m \in Message : m[2] <= synched[m[1]]}

\* --synch_count is the number of messages, as in the run acquisition.
CountsMessages == /\ IsFiniteSet(Message)
                  /\ SynchCount = Cardinality(Message)

-----------------------------------------------------------------------------
(* The inductive invariant.                                                *)

DaqTypeOK ==
  /\ dpc \in {"synch", "publish", "finish", "ended", "quit"}
  /\ counter \in Nat
  /\ spc \in [Subs -> {"start", "ask", "asking", "answered", "loop", "done"}]
  /\ synched \in [Subs -> Nat]
  /\ subscribed \in [Subs -> {"no", "pending", "active"}]

\* A distributor is where the number of its answers says, the last of which it may
\* not have received; it subscribed before it asked.
SubOK(s) ==
  /\ spc[s] = "start" => subscribed[s] = "no" /\ synched[s] = 0
  /\ spc[s] # "start" => subscribed[s] # "no"
  /\ spc[s] \in {"start", "ask", "asking"} => synched[s] < NWorkers[s]
  /\ spc[s] = "answered" => synched[s] <= NWorkers[s]
  /\ spc[s] \in {"loop", "done"} => synched[s] = NWorkers[s]

\* The acquisition counts what was answered, and publishes when it has counted
\* them all.
CountOK ==
  /\ counter = Cardinality(Answered)
  /\ dpc = "synch" => sent = <<>>
  /\ dpc # "synch" => counter = SynchCount

JoinInv == DaqTypeOK /\ CountOK /\ \A s \in Subs : SubOK(s)

-----------------------------------------------------------------------------
\* The answered messages are finitely many messages, and when they are as many
\* as there are then every distributor was sent all its answers.
LEMMA AllAnswered ==
  ASSUME CountsMessages, JoinInv
  PROVE  /\ IsFiniteSet(Answered) /\ Cardinality(Answered) <= SynchCount
         /\ Cardinality(Answered) = SynchCount =>
              \A s \in Subs : /\ subscribed[s] # "no" /\ synched[s] = NWorkers[s]
                             /\ spc[s] \in {"answered", "loop", "done"}
<1>1. Answered \in SUBSET Message
  BY DEF Answered
<1>2. /\ IsFiniteSet(Answered) /\ Cardinality(Answered) <= SynchCount
      /\ Cardinality(Answered) = SynchCount => Answered = Message
  BY <1>1, FS_Subset DEF CountsMessages
<1>3. ASSUME Answered = Message, NEW s \in Subs
      PROVE  /\ subscribed[s] # "no" /\ synched[s] = NWorkers[s]
             /\ spc[s] \in {"answered", "loop", "done"}
  <2>1. /\ NWorkers[s] \in Nat \ {0} /\ synched[s] \in Nat /\ SubOK(s)
        /\ spc[s] \in {"start", "ask", "asking", "answered", "loop", "done"}
    BY NWorkersAssumption DEF JoinInv, DaqTypeOK
  <2>2. <<s, NWorkers[s]>> \in {s} \X (1 .. NWorkers[s])
    BY <2>1
  <2>3. <<s, NWorkers[s]>> \in Message
    BY <2>2 DEF Message
  <2>4. NWorkers[s] <= synched[s]
    BY <1>3, <2>3 DEF Answered
  <2>5. ~(synched[s] < NWorkers[s])
    BY <2>1, <2>4
  <2> QED
    BY <2>1, <2>5 DEF SubOK
<1> QED
  BY <1>2, <1>3

\* Nobody has been answered, so that nothing is counted.
LEMMA InitOK ==
  ASSUME CountsMessages, Init
  PROVE  JoinInv
<1>1. DaqTypeOK
  BY DEF Init, DaqTypeOK
<1>2. \A s \in Subs : SubOK(s)
  BY NWorkersAssumption DEF Init, SubOK
<1>3. Answered = {}
  <2> SUFFICES ASSUME NEW m \in Message, m[2] <= synched[m[1]]
               PROVE  FALSE
    BY DEF Answered
  <2>1. PICK s \in Subs : m \in {s} \X (1 .. NWorkers[s])
    BY DEF Message
  <2>2. m[1] = s /\ m[2] \in 1 .. NWorkers[s]
    BY <2>1
  <2>3. synched[m[1]] = 0
    BY <2>2 DEF Init
  <2> QED
    BY <2>2, <2>3, NWorkersAssumption
<1>4. Cardinality(Answered) = 0
  BY <1>3, FS_EmptySet
<1>5. CountOK
  BY <1>4 DEF CountOK, Init
<1> QED
  BY <1>1, <1>2, <1>5 DEF JoinInv

\* An answer is counted once: message synched[s] + 1 of s, which was not answered
\* before.
LEMMA AnswerOK ==
  ASSUME CountsMessages, JoinInv, NEW s \in Subs, Answer(s)
  PROVE  JoinInv'
<1> DEFINE m == <<s, synched[s] + 1>>
<1>1. /\ dpc = "synch" /\ spc[s] = "asking" /\ counter' = counter + 1
      /\ dpc' = IF Synched(counter') THEN "publish" ELSE "synch"
      /\ synched' = [synched EXCEPT ![s] = @ + 1]
      /\ spc' = [spc EXCEPT ![s] = "answered"]
      /\ sent' = sent /\ subscribed' = subscribed
  BY DEF Answer, Goto
<1>2. /\ counter \in Nat /\ synched \in [Subs -> Nat] /\ NWorkers[s] \in Nat
      /\ spc \in [Subs -> {"start", "ask", "asking", "answered", "loop", "done"}]
      /\ synched[s] < NWorkers[s] /\ subscribed[s] # "no"
      /\ counter = Cardinality(Answered) /\ sent = <<>>
  BY <1>1, NWorkersAssumption DEF JoinInv, DaqTypeOK, CountOK, SubOK
<1>3. synched'[s] = synched[s] + 1 /\ \A u \in Subs \ {s} : synched'[u] = synched[u]
  BY <1>1, <1>2
<1>4. DaqTypeOK'
  BY <1>1, <1>2 DEF JoinInv, DaqTypeOK
<1>5. ASSUME NEW u \in Subs
      PROVE  SubOK(u)'
  <2>1. CASE u = s
    BY <1>1, <1>2, <1>3, <2>1 DEF SubOK
  <2>2. CASE u # s
    BY <1>1, <1>2, <1>3, <2>2 DEF SubOK, JoinInv
  <2> QED
    BY <2>1, <2>2
<1>6. m \in Message /\ m \notin Answered
  <2>1. m \in {s} \X (1 .. NWorkers[s])
    BY <1>2
  <2> QED
    BY <1>2, <2>1 DEF Message, Answered
<1>7. Answered' = Answered \cup {m}
  <2>1. ASSUME NEW x \in Message
        PROVE  x[2] <= synched'[x[1]] <=> x[2] <= synched[x[1]] \/ x = m
    <3>1. PICK u \in Subs : x \in {u} \X (1 .. NWorkers[u])
      BY <2>1 DEF Message
    <3>2. x = <<u, x[2]>> /\ x[1] = u /\ x[2] \in Int /\ synched[u] \in Nat
      BY <1>2, <3>1, NWorkersAssumption
    <3>3. CASE u = s
      BY <1>3, <3>2, <3>3
    <3>4. CASE u # s
      BY <1>3, <3>2, <3>4
    <3> QED
      BY <3>3, <3>4
  <2>2. Answered' = {x \in Message : x[2] <= synched'[x[1]]}
    BY DEF Answered, Message
  <2> QED
    BY <1>6, <2>1, <2>2 DEF Answered
<1>8. Cardinality(Answered') = counter + 1
  BY <1>2, <1>6, <1>7, AllAnswered, FS_AddElement
<1>9. Cardinality(Answered') <= SynchCount
  <2>1. Answered' \in SUBSET Message
    BY <1>6, <1>7 DEF Answered
  <2> QED
    BY <2>1, FS_Subset DEF CountsMessages
<1>10. CountOK'
  BY <1>1, <1>2, <1>8, <1>9, SynchCountAssumption DEF CountOK, Synched
<1> QED
  BY <1>4, <1>5, <1>10 DEF JoinInv

\* Every step preserves the invariant.
LEMMA NextOK ==
  ASSUME CountsMessages, JoinInv, [Next]_vars
  PROVE  JoinInv'
<1>1. CASE \E s \in Subs : Answer(s)
  BY <1>1, AnswerOK
<1>2. ASSUME UNCHANGED <<counter, synched>>, DaqTypeOK',
             dpc' = "synch" => dpc = "synch" /\ sent' = sent,
             dpc' # "synch" => dpc # "synch",
             \A s \in Subs : SubOK(s)'
      PROVE  JoinInv'
  <2>1. Answered' = Answered
    BY <1>2 DEF Answered, Message
  <2> QED
    BY <1>2, <2>1 DEF JoinInv, CountOK
<1>3. ASSUME UNCHANGED <<counter, synched, spc, subscribed>>, DaqTypeOK',
             dpc' = "synch" => dpc = "synch" /\ sent' = sent,
             dpc' # "synch" => dpc # "synch"
      PROVE  JoinInv'
  <2>1. \A s \in Subs : SubOK(s)'
    BY <1>3 DEF JoinInv, SubOK
  <2> QED
    BY <1>2, <1>3, <2>1
<1>4. CASE PublishFrame
  BY <1>3, <1>4 DEF PublishFrame, NextFrame, JoinInv, DaqTypeOK
<1>5. CASE EndData
  BY <1>3, <1>5 DEF EndData, JoinInv, DaqTypeOK
<1>6. CASE Signal \/ Quit \/ Stopped \/ UNCHANGED vars
  BY <1>3, <1>6 DEF Signal, Quit, Stopped, vars, JoinInv, DaqTypeOK
<1>7. ASSUME NEW s \in Subs, Subscribe(s)
      PROVE  JoinInv'
  <2>1. DaqTypeOK'
    BY <1>7 DEF Subscribe, Goto, daqVars, JoinInv, DaqTypeOK
  <2>2. \A u \in Subs : SubOK(u)'
    BY <1>7 DEF Subscribe, Goto, daqVars, JoinInv, DaqTypeOK, SubOK
  <2> QED
    BY <1>2, <1>7, <2>1, <2>2 DEF Subscribe, daqVars
<1>8. ASSUME NEW s \in Subs, Ask(s) \/ ReceiveReply(s) \/ SubscriptionArrives(s)
      PROVE  JoinInv'
  <2>0. NWorkers[s] \in Nat /\ synched[s] \in Nat
    BY NWorkersAssumption DEF JoinInv, DaqTypeOK
  <2>1. DaqTypeOK'
    BY <1>8 DEF Ask, ReceiveReply, SubscriptionArrives, Goto, daqVars, JoinInv, DaqTypeOK
  <2>2. \A u \in Subs : SubOK(u)'
    BY <1>8, <2>0 DEF Ask, ReceiveReply, SubscriptionArrives, Goto, daqVars, JoinInv,
                      DaqTypeOK, SubOK
  <2> QED
    BY <1>2, <1>8, <2>1, <2>2 DEF Ask, ReceiveReply, SubscriptionArrives, daqVars
<1>9. ASSUME NEW s \in Subs, ReceiveProjection(s) \/ ReceiveWhite(s) \/ ReceiveDark(s)
      PROVE  JoinInv'
  BY <1>3, <1>9 DEF ReceiveProjection, ReceiveWhite, ReceiveDark, daqVars, JoinInv, DaqTypeOK
<1>10. ASSUME NEW s \in Subs, ReceiveEnd(s)
       PROVE  JoinInv'
  <2>1. DaqTypeOK'
    BY <1>10 DEF ReceiveEnd, Goto, daqVars, JoinInv, DaqTypeOK
  <2>2. \A u \in Subs : SubOK(u)'
    BY <1>10 DEF ReceiveEnd, Loops, Goto, daqVars, JoinInv, DaqTypeOK, SubOK
  <2> QED
    BY <1>2, <1>10, <2>1, <2>2 DEF ReceiveEnd, daqVars
<1> QED
  BY <1>1, <1>4, <1>5, <1>6, <1>7, <1>8, <1>9, <1>10 DEF Next, DaqStep, SubStep

\* When --synch_count is the number of synchronisation messages, the count of the
\* acquisition is at any time the number of messages answered.
THEOREM JoinInvariant == CountsMessages => (Spec => []JoinInv)
<1>1. CountsMessages /\ Init => JoinInv
  BY InitOK
<1>2. CountsMessages /\ JoinInv /\ [Next]_vars => JoinInv'
  BY NextOK
<1>3. CountsMessages => [](CountsMessages)
  <2>1. CountsMessages => CountsMessages'
    BY DEF CountsMessages, Message
  <2> QED
    BY <2>1, PTL
<1> QED
  BY <1>1, <1>2, <1>3, PTL DEF Spec, Safe

\* Then nothing is published before every distributor has subscribed and every one
\* of its messages is answered, in whichever order they were (synchronize_subs at
\* both ends): the first to come do not use up the answers of the last.
THEOREM JoinedFirst == CountsMessages => (Spec => []JoinedBeforeData)
<1>1. ASSUME CountsMessages, JoinInv
      PROVE  JoinedBeforeData
  <2>1. SUFFICES ASSUME sent # <<>>
                 PROVE  \A s \in Subs : /\ subscribed[s] # "no" /\ synched[s] = NWorkers[s]
                                        /\ spc[s] \in {"answered", "loop", "done"}
    BY DEF JoinedBeforeData
  <2>2. Cardinality(Answered) = SynchCount
    BY <1>1, <2>1 DEF JoinInv, CountOK
  <2> QED
    BY <1>1, <2>2, AllAnswered
<1>2. CountsMessages => [](CountsMessages)
  <2>1. CountsMessages => CountsMessages'
    BY DEF CountsMessages, Message
  <2> QED
    BY <2>1, PTL
<1> QED
  BY <1>1, <1>2, JoinInvariant, PTL

-----------------------------------------------------------------------------
(***************************************************************************)
(* What is published: in every round every frame of the file once, and     *)
(* frame 0, the reset of the flats, first.                                 *)
(***************************************************************************)
\* The number of turns of a loop that starts below m and goes on in steps of n.
LEMMA Turns ==
  ASSUME NEW n \in Nat \ {0}, NEW m \in Nat, NEW k \in 1 .. n
  PROVE  /\ (m - k + n) \div n \in Nat
         /\ \A j \in Nat \ {0} : j <= (m - k + n) \div n <=> k - 1 + (j - 1) * n < m
<1> DEFINE q == (m - k + n) \div n
           r == (m - k + n) % n
<1>1. m - k + n \in Nat
  OBVIOUS
<1>2. q \in Nat /\ r \in 0 .. n - 1 /\ m - k + n = q * n + r
  BY <1>1, Remainder
<1> HIDE DEF q, r
<1>3. ASSUME NEW j \in Nat \ {0}
      PROVE  j <= q <=> k - 1 + (j - 1) * n < m
  <2>1. (j - 1) * n = j * n - n
    OBVIOUS
  <2>2. j * n \in Nat /\ q * n \in Nat
    BY <1>2
  <2>3. k - 1 + (j - 1) * n < m <=> j * n <= q * n + r
    BY <1>2, <2>1, <2>2
  <2>4. CASE j <= q
    <3>1. PICK d \in Nat : q = j + d
      BY <1>2, <2>4, q - j \in Nat
    <3>2. q * n = j * n + d * n /\ d * n \in Nat
      BY <3>1
    <3> QED
      BY <1>2, <2>2, <2>3, <2>4, <3>2
  <2>5. CASE ~(j <= q)
    <3>1. PICK d \in Nat \ {0} : j = q + d
      BY <1>2, <2>5, j - q \in Nat \ {0}
    <3>2. j * n = q * n + d * n /\ d * n >= n
      BY <1>2, <3>1
    <3>3. ~(j * n <= q * n + r)
      BY <1>2, <2>2, <3>2
    <3> QED
      BY <2>3, <2>5, <3>3
  <2> QED
    BY <2>4, <2>5
<1> QED
  BY <1>2, <1>3 DEF q

\* ordered_subset publishes every frame once, and frame 0 first.
LEMMA OrderedSubset ==
  ASSUME NEW m \in Nat \ {0}
  PROVE  /\ ordered_subset(m) \in Seq(Nat) /\ Len(ordered_subset(m)) = m
         /\ Range(ordered_subset(m)) = 0 .. m - 1
         /\ Distinct(ordered_subset(m))
         /\ ordered_subset(m)[1] = 0
<1> DEFINE n == (m + NElem - 1) \div NElem
           piece(k) == [j \in 1 .. (m - k + n) \div n |-> k - 1 + (j - 1) * n]
           ss == [k \in 1 .. n |-> piece(k)]
<1>1. n \in Nat \ {0}
  <2>1. NElem \in Nat \ {0} /\ m + NElem - 1 \in Nat
    BY NElemAssumption
  <2>2. n \in Nat /\ (m + NElem - 1) % NElem \in 0 .. NElem - 1
        /\ m + NElem - 1 = n * NElem + ((m + NElem - 1) % NElem)
    BY <2>1, Remainder
  <2>3. n # 0
    <3>1. ASSUME n = 0
          PROVE  FALSE
      <4>1. n * NElem = 0
        BY <2>1, <3>1
      <4> HIDE DEF n
      <4> QED
        BY <2>1, <2>2, <4>1
    <3> QED
      BY <3>1
  <2> QED
    BY <2>2, <2>3
<1>2. ordered_subset(m) = FlattenSeq(ss)
  BY DEF ordered_subset
<1> HIDE DEF n
<1>3. ASSUME NEW k \in 1 .. n
      PROVE  /\ piece(k) \in Seq(Nat) /\ Len(piece(k)) = (m - k + n) \div n
             /\ \A j \in 1 .. Len(piece(k)) : piece(k)[j] = k - 1 + (j - 1) * n
             /\ \A j \in Nat \ {0} : j <= Len(piece(k)) <=> k - 1 + (j - 1) * n < m
  <2>1. PICK t : t = (m - k + n) \div n
    OBVIOUS
  <2>2. t \in Nat /\ \A j \in Nat \ {0} : j <= t <=> k - 1 + (j - 1) * n < m
    BY <1>1, <2>1, Turns
  <2>3. PICK p : p = [j \in 1 .. t |-> k - 1 + (j - 1) * n]
    OBVIOUS
  <2>4. \A j \in 1 .. t : k - 1 + (j - 1) * n \in Nat
    BY <1>1, <2>2
  <2>5. p \in Seq(Nat) /\ Len(p) = t /\ \A j \in 1 .. t : p[j] = k - 1 + (j - 1) * n
    BY <2>2, <2>3, <2>4
  <2>6. p = piece(k)
    BY <2>1, <2>3
  <2> HIDE DEF piece
  <2> QED
    BY <2>1, <2>2, <2>5, <2>6
<1> HIDE DEF piece
<1>4. ss \in Seq(Seq(Nat)) /\ Len(ss) = n /\ \A k \in 1 .. n : ss[k] = piece(k)
  BY <1>1, <1>3
<1> HIDE DEF ss
<1>5. Strided(ss, n, m)
  BY <1>3, <1>4 DEF Strided
<1>6. /\ FlattenSeq(ss) \in Seq(Nat) /\ Distinct(FlattenSeq(ss))
      /\ Range(FlattenSeq(ss)) = 0 .. m - 1 /\ Len(FlattenSeq(ss)) = m
  BY <1>1, <1>5, StridedFlat
<1>7. FlattenSeq(ss)[1] = 0
  <2>1. 1 \in 1 .. n /\ 1 \in Nat \ {0} /\ 1 - 1 + (1 - 1) * n = 0 /\ 0 < m
    BY <1>1
  <2>2. 1 <= Len(ss[1]) /\ ss[1] \in Seq(Nat)
    BY <1>3, <1>4, <2>1
  <2>3. ss[1][1] = 0 /\ ss[1] # <<>> /\ ss # <<>>
    BY <1>1, <1>3, <1>4, <2>1, <2>2
  <2> QED
    BY <1>4, <2>3, FlattenFirst
<1> QED
  BY <1>2, <1>6, <1>7

Types == {"WhiteReset", "White", "DarkReset", "Dark", "Projection"}
Whites == {"White", "WhiteReset"}
Frames == [type : Types, seq : Nat, round : Nat]

\* The places of the frames of a round in q, and the frames at them.
Places(q, round) == {k \in DOMAIN q : q[k].round = round}
Seqs(q, round) == {q[k].seq : k \in Places(q, round)}

\* The file has flats, the first of which is then frame 0.
HasFlats == dataset.flat # 0

\* The frames published so far are those of the file, the rounds one after the
\* other, each of them from frame 0 on.
SentOK ==
  /\ sent \in Seq(Frames)
  /\ \A k \in 1 .. Len(sent) : /\ sent[k].type = "WhiteReset" <=> sent[k].seq = 0 /\ HasFlats
                               /\ sent[k].type \in Whites => HasFlats
                               /\ sent[k].round <= it
                               /\ sent[k].round < it \/ pos # 1
  /\ \A j, k \in 1 .. Len(sent) :
       j < k => /\ sent[j].round <= sent[k].round
                /\ sent[k].seq = 0 => sent[j].round < sent[k].round
  /\ \A k \in 1 .. Len(sent) :
       k # 1 /\ sent[k].seq # 0 => sent[k - 1].round = sent[k].round
  /\ pos # 1 => sent # <<>> /\ sent[Len(sent)].round = it

\* Of the round under way it has the frames at the places before pos.
RoundOK ==
  /\ dataset \in Datasets /\ it \in Nat \ {0} /\ pos \in 1 .. NFrames
  /\ Cardinality(Places(sent, it)) = pos - 1
  /\ Seqs(sent, it) = {Indices[dataset][i] : i \in 1 .. pos - 1}
  /\ RoundIsComplete

PublishInv == SentOK /\ RoundOK

\* The frames of a file.
LEMMA FileOK ==
  ASSUME dataset \in Datasets
  PROVE  /\ NFrames \in Nat \ {0}
         /\ Indices[dataset] \in Seq(Nat) /\ Len(Indices[dataset]) = NFrames
         /\ Range(Indices[dataset]) = 0 .. NFrames - 1
         /\ Distinct(Indices[dataset])
         /\ Indices[dataset][1] = 0
<1>1. dataset \in [flat : Nat, dark : Nat, proj : Nat] /\ Size(dataset) > 0
  BY DatasetsAssumption DEF Size
<1>2. Size(dataset) \in Nat \ {0}
  BY <1>1 DEF Size
<1>3. Indices[dataset] = ordered_subset(Size(dataset))
  BY DEF Indices
<1> QED
  BY <1>2, <1>3, OrderedSubset DEF NFrames

\* Frame 0 is the first of the flats, if there are any.
LEMMA TypeOfOK ==
  ASSUME dataset \in Datasets, NEW n \in Nat
  PROVE  /\ TypeOf(n) \in Types
         /\ TypeOf(n) = "WhiteReset" <=> n = 0 /\ HasFlats
         /\ TypeOf(n) \in Whites => HasFlats
<1>1. dataset.flat \in Nat /\ dataset.dark \in Nat
  BY DatasetsAssumption
<1>2. CASE n < dataset.flat
  <2>1. /\ ~(n >= dataset.flat) /\ ~(n >= dataset.flat + dataset.dark) /\ HasFlats
    BY <1>1, <1>2 DEF HasFlats
  <2>2. TypeOf(n) = IF n = 0 THEN "WhiteReset" ELSE "White"
    BY <1>2, <2>1 DEF TypeOf
  <2> QED
    BY <2>1, <2>2 DEF Types, Whites
<1>3. CASE n >= dataset.flat /\ n < dataset.flat + dataset.dark
  <2>1. ~(n < dataset.flat) /\ ~(n >= dataset.flat + dataset.dark) /\ ~(n = 0 /\ HasFlats)
    BY <1>1, <1>3 DEF HasFlats
  <2>2. TypeOf(n) = IF n = dataset.flat THEN "DarkReset" ELSE "Dark"
    BY <1>3, <2>1 DEF TypeOf
  <2> QED
    BY <2>1, <2>2 DEF Types, Whites
<1>4. CASE n >= dataset.flat + dataset.dark
  <2>1. /\ ~(n < dataset.flat) /\ ~(n < dataset.flat + dataset.dark)
        /\ ~(n = 0 /\ HasFlats)
    BY <1>1, <1>4 DEF HasFlats
  <2>2. TypeOf(n) = "Projection"
    BY <1>4, <2>1 DEF TypeOf
  <2> QED
    BY <2>1, <2>2 DEF Types, Whites
<1> QED
  BY <1>1, <1>2, <1>3, <1>4

\* The places of a round are finitely many.
LEMMA PlacesFinite ==
  ASSUME NEW q \in Seq(Frames), NEW round
  PROVE  IsFiniteSet(Places(q, round)) /\ Places(q, round) \in SUBSET (1 .. Len(q))
<1>1. Len(q) \in Nat /\ DOMAIN q = 1 .. Len(q)
  OBVIOUS
<1>2. Places(q, round) \in SUBSET (1 .. Len(q))
  BY <1>1 DEF Places
<1>3. IsFiniteSet(1 .. Len(q))
  BY <1>1, FS_Interval
<1> QED
  BY <1>2, <1>3, FS_Subset

\* A frame more is a place more in its round and nothing in the others.
LEMMA PlacesAppend ==
  ASSUME NEW q \in Seq(Frames), NEW m \in Frames, NEW round
  PROVE  /\ m.round # round => /\ Places(Append(q, m), round) = Places(q, round)
                               /\ Seqs(Append(q, m), round) = Seqs(q, round)
         /\ m.round = round =>
              /\ Cardinality(Places(Append(q, m), round)) = Cardinality(Places(q, round)) + 1
              /\ Seqs(Append(q, m), round) = Seqs(q, round) \cup {m.seq}
<1> DEFINE n == Len(q)
<1>1. PICK p : p = Append(q, m)
  OBVIOUS
<1>2. /\ p \in Seq(Frames) /\ n \in Nat /\ DOMAIN q = 1 .. n /\ DOMAIN p = 1 .. n + 1
      /\ p[n + 1] = m /\ \A k \in 1 .. n : p[k] = q[k]
  BY <1>1
<1>3. 1 .. n + 1 = (1 .. n) \cup {n + 1} /\ n + 1 \notin 1 .. n
  BY <1>2
<1> HIDE DEF n
<1>4. CASE m.round # round
  <2>1. Places(p, round) = Places(q, round)
    BY <1>2, <1>3, <1>4 DEF Places
  <2>2. \A k \in Places(q, round) : p[k] = q[k]
    BY <1>2 DEF Places
  <2> QED
    BY <1>1, <1>4, <2>1, <2>2 DEF Seqs
<1>5. CASE m.round = round
  <2>1. Places(p, round) = Places(q, round) \cup {n + 1} /\ n + 1 \notin Places(q, round)
    BY <1>2, <1>3, <1>5 DEF Places
  <2>2. \A k \in Places(q, round) : p[k] = q[k]
    BY <1>2 DEF Places
  <2>3. Seqs(p, round) = Seqs(q, round) \cup {m.seq}
    BY <1>2, <2>1, <2>2 DEF Seqs
  <2>4. IsFiniteSet(Places(q, round))
    BY PlacesFinite
  <2>5. Cardinality(Places(p, round)) = Cardinality(Places(q, round)) + 1
    BY <2>1, <2>4, FS_AddElement
  <2> QED
    BY <1>1, <1>5, <2>3, <2>5
<1> QED
  BY <1>4, <1>5

\* Nothing has been published.
LEMMA PublishInit ==
  ASSUME Init
  PROVE  PublishInv
<1>1. dataset \in Datasets /\ it = 1 /\ pos = 1 /\ sent = <<>>
  BY DEF Init
<1>2. SentOK
  BY <1>1 DEF SentOK
<1>3. Places(sent, it) = {} /\ Seqs(sent, it) = {}
  BY <1>1 DEF Places, Seqs
<1>4. Cardinality(Places(sent, it)) = pos - 1
  <2>1. Cardinality(Places(sent, it)) = 0
    BY <1>3, FS_EmptySet
  <2> QED
    BY <1>1, <2>1
<1>5. NFrames \in Nat \ {0}
  BY <1>1, FileOK
<1>6. {Indices[dataset][i] : i \in 1 .. pos - 1} = {}
  BY <1>1
<1> HIDE DEF Indices
<1> QED
  BY <1>1, <1>2, <1>3, <1>4, <1>5, <1>6 DEF PublishInv, RoundOK, RoundIsComplete

\* One frame more, of the round that is under way.
LEMMA PublishedSent ==
  ASSUME PublishInv, PublishFrame
  PROVE  SentOK'
<1> DEFINE x == Indices[dataset][pos]
           m == Frame(x, it)
           n == Len(sent)
<1>1. /\ sent' = Append(sent, m) /\ NextFrame /\ HasFlats' = HasFlats
  BY DEF PublishFrame, HasFlats
<1>2. /\ dataset \in Datasets /\ it \in Nat \ {0} /\ pos \in 1 .. NFrames
      /\ NFrames \in Nat \ {0} /\ SentOK
  BY FileOK DEF PublishInv, RoundOK
<1>3. x \in Nat /\ (x = 0 <=> pos = 1)
  <2>1. pos \in 1 .. Len(Indices[dataset]) /\ 1 \in 1 .. Len(Indices[dataset])
    BY <1>2, FileOK
  <2>2. Indices[dataset][pos] = Indices[dataset][1] => pos = 1
    BY <1>2, <2>1, FileOK DEF Distinct
  <2> QED
    BY <1>2, <2>1, <2>2, FileOK
<1> HIDE DEF x
<1>4. /\ m.seq = x /\ m.round = it /\ m \in Frames
      /\ m.type = "WhiteReset" <=> x = 0 /\ HasFlats
      /\ m.type \in Whites => HasFlats
  BY <1>2, <1>3, TypeOfOK DEF Frame, Frames
<1> HIDE DEF m
<1>5. /\ sent \in Seq(Frames) /\ n \in Nat
      /\ sent' \in Seq(Frames) /\ Len(sent') = n + 1 /\ sent'[n + 1] = m
      /\ \A k \in 1 .. n : sent'[k] = sent[k] /\ sent[k] \in Frames
  BY <1>1, <1>2, <1>4 DEF SentOK
<1>6. \/ it' = it /\ pos' # 1
      \/ it' = it + 1 /\ pos' = 1
  BY <1>1, <1>2 DEF NextFrame
<1>7. /\ \A k \in 1 .. n : /\ sent[k].round <= it /\ sent[k].round \in Nat
                           /\ pos = 1 => sent[k].round < it
      /\ pos # 1 => n # 0 /\ sent[n].round = it
  <2>1. \A k \in 1 .. n : sent[k].round \in Nat
    BY <1>5 DEF Frames
  <2>2. pos # 1 => n # 0 /\ sent[n].round = it
    BY <1>2, <1>5 DEF SentOK
  <2> QED
    BY <1>2, <2>1, <2>2 DEF SentOK
<1>8. ASSUME NEW k \in 1 .. n + 1
      PROVE  /\ sent'[k].type = "WhiteReset" <=> sent'[k].seq = 0 /\ HasFlats
             /\ sent'[k].type \in Whites => HasFlats
             /\ sent'[k].round <= it'
             /\ sent'[k].round < it' \/ pos' # 1
  <2>1. CASE k \in 1 .. n
    <3>1. sent'[k] = sent[k]
      BY <1>5, <2>1
    <3>2. /\ sent[k].type = "WhiteReset" <=> sent[k].seq = 0 /\ HasFlats
          /\ sent[k].type \in Whites => HasFlats
      BY <1>2, <2>1 DEF SentOK
    <3> QED
      BY <1>2, <1>6, <1>7, <2>1, <3>1, <3>2
  <2>2. CASE k = n + 1
    BY <1>2, <1>3, <1>4, <1>5, <1>6, <2>2
  <2> QED
    BY <1>5, <2>1, <2>2
<1>9. ASSUME NEW j \in 1 .. n + 1, NEW k \in 1 .. n + 1, j < k
      PROVE  /\ sent'[j].round <= sent'[k].round
             /\ sent'[k].seq = 0 => sent'[j].round < sent'[k].round
  <2>1. j \in 1 .. n
    BY <1>5, <1>9
  <2>2. CASE k \in 1 .. n
    BY <1>2, <1>5, <1>9, <2>1, <2>2 DEF SentOK
  <2>3. CASE k = n + 1
    BY <1>2, <1>3, <1>4, <1>5, <1>7, <2>1, <2>3
  <2> QED
    BY <1>5, <2>2, <2>3
<1>10. ASSUME NEW k \in 1 .. n + 1, k # 1, sent'[k].seq # 0
       PROVE  sent'[k - 1].round = sent'[k].round
  <2>1. k - 1 \in 1 .. n
    BY <1>5, <1>10
  <2>2. CASE k \in 1 .. n
    <3>1. sent'[k] = sent[k] /\ sent'[k - 1] = sent[k - 1]
      BY <1>5, <2>1, <2>2
    <3> QED
      BY <1>2, <1>10, <2>2, <3>1 DEF SentOK
  <2>3. CASE k = n + 1
    <3>1. k - 1 = n /\ sent'[k - 1] = sent[n] /\ pos # 1
      BY <1>3, <1>4, <1>5, <1>10, <2>1, <2>3
    <3> QED
      BY <1>4, <1>5, <1>7, <2>3, <3>1
  <2> QED
    BY <1>5, <2>2, <2>3
<1>11. pos' # 1 => sent' # <<>> /\ sent'[Len(sent')].round = it'
  <2>1. sent' # <<>>
    BY <1>5
  <2> QED
    BY <1>4, <1>5, <1>6, <2>1
<1> QED
  BY <1>1, <1>5, <1>8, <1>9, <1>10, <1>11 DEF SentOK

\* The round that is under way has a frame more, or is complete.
LEMMA PublishedRound ==
  ASSUME PublishInv, PublishFrame
  PROVE  RoundOK'
<1> DEFINE x == Indices[dataset][pos]
           Upto(i) == {Indices[dataset][j] : j \in 1 .. i}
           Whole(q, r) == Cardinality(Places(q, r)) = NFrames /\ Seqs(q, r) = 0 .. NFrames - 1
<1>1. PICK m : m = Frame(x, it)
  OBVIOUS
<1>2. sent' = Append(sent, m) /\ NextFrame /\ dataset' = dataset
  BY <1>1 DEF PublishFrame
<1>3. /\ dataset \in Datasets /\ it \in Nat \ {0} /\ pos \in 1 .. NFrames
      /\ NFrames \in Nat \ {0} /\ sent \in Seq(Frames)
      /\ Cardinality(Places(sent, it)) = pos - 1
      /\ Seqs(sent, it) = Upto(pos - 1)
  BY FileOK DEF PublishInv, RoundOK, SentOK
<1>4. \A r \in 1 .. it - 1 : Whole(sent, r)
  BY DEF PublishInv, RoundOK, RoundIsComplete, Places, Seqs
<1>5. x \in Nat
  <2>1. Indices[dataset] \in Seq(Nat) /\ pos \in 1 .. Len(Indices[dataset])
    BY <1>3, FileOK
  <2> QED
    BY <2>1
<1> HIDE DEF x
<1>6. m.seq = x /\ m.round = it /\ m \in Frames
  BY <1>1, <1>3, <1>5, TypeOfOK DEF Frame, Frames
<1>7. NFrames' = NFrames /\ Indices' = Indices
  BY <1>2 DEF NFrames, Size, Indices, ordered_subset
<1>8. \A r \in 1 .. it - 1 : Whole(sent', r)
  <2> SUFFICES ASSUME NEW r \in 1 .. it - 1
               PROVE  Whole(sent', r)
    OBVIOUS
  <2>1. m.round # r
    BY <1>3, <1>6
  <2> QED
    BY <1>2, <1>3, <1>4, <1>6, <2>1, PlacesAppend
<1>9. /\ Cardinality(Places(sent', it)) = pos
      /\ Seqs(sent', it) = Upto(pos - 1) \cup {x}
  <2> HIDE DEF Upto
  <2>1. Cardinality(Places(sent', it)) = Cardinality(Places(sent, it)) + 1
    BY <1>2, <1>3, <1>6, PlacesAppend
  <2>2. Seqs(sent', it) = Seqs(sent, it) \cup {x}
    BY <1>2, <1>3, <1>6, PlacesAppend
  <2> QED
    BY <1>3, <2>1, <2>2
<1>10. Upto(pos - 1) \cup {x} = Upto(pos)
  <2>1. 1 .. pos = (1 .. pos - 1) \cup {pos}
    BY <1>3
  <2> QED
    BY <2>1 DEF x
<1>11. CASE pos < NFrames
  <2>1. pos' = pos + 1 /\ it' = it
    BY <1>2, <1>11 DEF NextFrame
  <2>2. /\ Cardinality(Places(sent, it)') = pos' - 1
        /\ Seqs(sent, it)' = {Indices[dataset][j] : j \in 1 .. pos' - 1}
    <3>1. pos' - 1 = pos
      BY <1>3, <2>1
    <3>2. Places(sent, it)' = Places(sent', it) /\ Seqs(sent, it)' = Seqs(sent', it)
      BY <2>1 DEF Places, Seqs
    <3> QED
      BY <1>9, <1>10, <3>1, <3>2
  <2>3. RoundIsComplete'
    BY <1>7, <1>8, <2>1 DEF RoundIsComplete, Places, Seqs
  <2> QED
    BY <1>2, <1>3, <1>7, <1>11, <2>1, <2>2, <2>3 DEF RoundOK
<1>12. CASE ~(pos < NFrames)
  <2>1. pos' = 1 /\ it' = it + 1 /\ pos = NFrames
    BY <1>2, <1>3, <1>12 DEF NextFrame
  <2>2. Whole(sent', it)
    <3>1. Indices[dataset] \in Seq(Nat) /\ Len(Indices[dataset]) = NFrames
          /\ Range(Indices[dataset]) = 0 .. NFrames - 1
      BY <1>3, FileOK
    <3>2. DOMAIN Indices[dataset] = 1 .. NFrames
      BY <3>1
    <3>3. Upto(NFrames) = 0 .. NFrames - 1
      BY <3>1, <3>2 DEF Range
    <3> QED
      BY <1>9, <1>10, <2>1, <3>3
  <2>3. \A r \in 1 .. it' - 1 : Whole(sent', r)
    <3>1. \A r \in 1 .. it' - 1 : r \in 1 .. it - 1 \/ r = it
      BY <1>3, <2>1
    <3> HIDE DEF Whole
    <3> QED
      BY <1>8, <2>2, <3>1
  <2>4. Places(sent', it + 1) = {} /\ Seqs(sent', it + 1) = {}
    <3>1. SentOK' /\ DOMAIN sent' = 1 .. Len(sent')
      BY PublishedSent DEF SentOK
    <3>2. \A k \in 1 .. Len(sent') : sent'[k].round # it + 1
      <4> SUFFICES ASSUME NEW k \in 1 .. Len(sent')
                   PROVE  sent'[k].round # it + 1
        OBVIOUS
      <4>1. sent'[k].round < it'
        BY <2>1, <3>1 DEF SentOK
      <4>2. sent'[k].round \in Nat
        <5>1. sent' \in Seq(Frames)
          BY <3>1 DEF SentOK
        <5>2. sent'[k] \in Frames
          BY <5>1
        <5> QED
          BY <5>2 DEF Frames
      <4> QED
        BY <1>3, <2>1, <4>1, <4>2
    <3> QED
      BY <3>1, <3>2 DEF Places, Seqs
  <2>5. /\ Cardinality(Places(sent, it)') = pos' - 1
        /\ Seqs(sent, it)' = {Indices[dataset][j] : j \in 1 .. pos' - 1}
    <3>1. Places(sent, it)' = {} /\ Seqs(sent, it)' = {}
      BY <2>1, <2>4 DEF Places, Seqs
    <3>2. 1 .. pos' - 1 = {}
      BY <2>1
    <3> QED
      BY <2>1, <3>1, <3>2, FS_EmptySet
  <2>6. RoundIsComplete'
    BY <1>7, <2>3 DEF RoundIsComplete, Places, Seqs
  <2> QED
    BY <1>2, <1>3, <1>7, <2>1, <2>5, <2>6 DEF RoundOK
<1> QED
  BY <1>11, <1>12

-----------------------------------------------------------------------------
(***************************************************************************)
(* What a distributor makes of it.  A subscription that has arrived misses *)
(* nothing more: what the distributor has taken and what is in its inbox   *)
(* are together what was published since.                                  *)
(***************************************************************************)
\* What a distributor can receive.
Messages == Frames \cup {EndOfStream}

\* The flats in q of its last round, and the projections.
FlatsOf(q) == Select(q, {f \in Frames : f.round = Last(q).round /\ f.type \in Whites})
ProjectionsOf(q) == Select(q, {f \in Frames : f.type = "Projection"})
FramesOf(p) == [k \in DOMAIN p |-> p[k].frame]

\* The inbox q has what was published after place n, and end_data if that was.
InboxIs(q, n) ==
  LET rest == SubSeq(sent, n + 1, Len(sent))
  IN  \/ q = rest
      \/ dpc = "ended" /\ q = Append(rest, EndOfStream)

\* Distributor s has received what was published from its subscription up to
\* place n, and made of it what it should.
HeardOK(s, n) ==
  LET heard == SubSeq(sent, from[s] + 1, n)
  IN  /\ from[s] \in Nat /\ from[s] <= n /\ n <= Len(sent)
      /\ InboxIs(inbox[s], n)
      /\ white[s] = FlatsOf(heard)
      /\ FramesOf(pushed[s]) = ProjectionsOf(heard)

NothingHeard(s) == /\ inbox[s] = <<>> /\ white[s] = <<>> /\ pushed[s] = <<>>
                   /\ from[s] \in Nat

HearingOK(s) == IF subscribed[s] = "active" THEN \E n \in Nat : HeardOK(s, n)
                                            ELSE NothingHeard(s)

HearType ==
  /\ from \in [Subs -> Nat]
  /\ inbox \in [Subs -> Seq(Messages)]
  /\ white \in [Subs -> Seq(Frames)]
  /\ pushed \in [Subs -> Seq([frame : Frames, normalized : BOOLEAN])]
  /\ subscribed \in [Subs -> {"no", "pending", "active"}]

\* A distributor that has not started has not subscribed.
StartOK == /\ spc \in [Subs -> {"start", "ask", "asking", "answered", "loop", "done"}]
           /\ \A s \in Subs : spc[s] = "start" => subscribed[s] = "no"

HearInv == PublishInv /\ HearType /\ StartOK /\ \A s \in Subs : HearingOK(s)

\* The next frame is of the round of those received since the last reset, unless
\* it is a reset itself.
LEMMA NextFlats ==
  ASSUME SentOK, NEW a \in Nat, NEW n \in Nat, a <= n, n + 1 <= Len(sent)
  PROVE  LET q == SubSeq(sent, a + 1, n)
             m == sent[n + 1]
         IN  FlatsOf(Append(q, m)) =
               IF m.type \in Whites THEN Collected(FlatsOf(q), m, m.type = "WhiteReset")
                                    ELSE FlatsOf(q)
<1>1. PICK q : q = SubSeq(sent, a + 1, n)
  OBVIOUS
<1>2. PICK m : m = sent[n + 1]
  OBVIOUS
<1>3. PICK S : S = {f \in Frames : f.round = m.round /\ f.type \in Whites}
  OBVIOUS
<1>4. sent \in Seq(Frames) /\ n <= Len(sent) /\ n + 1 \in 1 .. Len(sent) /\ Len(sent) \in Nat
  BY DEF SentOK
<1>5. /\ q \in Seq(Frames) /\ Len(q) = n - a /\ m \in Frames
      /\ \A i \in 1 .. n - a : q[i] = sent[a + i]
  BY <1>1, <1>2, <1>4, Part
<1>6. FlatsOf(Append(q, m)) = Select(Append(q, m), S)
  <2>1. Last(Append(q, m)) = m
    BY <1>5 DEF Last
  <2> QED
    BY <1>3, <2>1 DEF FlatsOf
<1>7. FlatsOf(Append(q, m)) = IF m.type \in Whites THEN Append(Select(q, S), m) ELSE Select(q, S)
  <2>1. m \in S <=> m.type \in Whites
    BY <1>3, <1>5
  <2> QED
    BY <1>5, <1>6, <2>1, SelectAppend
<1>8. /\ m.type = "WhiteReset" <=> m.seq = 0 /\ HasFlats
      /\ m.type \in Whites => HasFlats
  BY <1>2, <1>4 DEF SentOK
<1>9. CASE m.seq = 0 /\ HasFlats
  <2>1. \A i \in 1 .. Len(q) : q[i] \notin S
    <3> SUFFICES ASSUME NEW i \in 1 .. Len(q)
                 PROVE  q[i].round # m.round
      BY <1>3
    <3>1. a + i \in 1 .. Len(sent) /\ a + i < n + 1 /\ q[i] = sent[a + i]
      BY <1>4, <1>5
    <3>2. sent[a + i].round < m.round
      BY <1>2, <1>4, <1>9, <3>1 DEF SentOK
    <3>3. sent[a + i].round \in Nat /\ m.round \in Nat
      <4>1. sent[a + i] \in Frames
        BY <1>4, <3>1
      <4> QED
        BY <1>5, <4>1 DEF Frames
    <3> QED
      BY <3>1, <3>2, <3>3
  <2>2. Select(q, S) = <<>>
    BY <1>5, <2>1, SelectNone
  <2>3. m.type = "WhiteReset" /\ m.type \in Whites
    BY <1>8, <1>9 DEF Whites
  <2>4. Append(<<>>, m) = <<m>>
    OBVIOUS
  <2> QED
    BY <1>1, <1>2, <1>7, <2>2, <2>3, <2>4 DEF Collected
<1>10. CASE m.seq # 0
  <2>1. Select(q, S) = FlatsOf(q)
    <3>1. CASE n = a
      <4>1. q = <<>>
        BY <1>5, <3>1, EmptySeq
      <4> QED
        BY <4>1, SelectEmpty DEF FlatsOf
    <3>2. CASE n # a
      <4>1. n - a \in 1 .. n - a /\ a + (n - a) = n /\ n + 1 # 1 /\ (n + 1) - 1 = n
        BY <3>2
      <4>2. Last(q) = sent[n]
        BY <1>5, <4>1 DEF Last
      <4>3. sent[n].round = m.round
        BY <1>2, <1>4, <1>10, <4>1 DEF SentOK
      <4> QED
        BY <1>3, <4>2, <4>3 DEF FlatsOf
    <3> QED
      BY <3>1, <3>2
  <2>2. m.type # "WhiteReset"
    BY <1>8, <1>10
  <2> QED
    BY <1>1, <1>2, <1>7, <2>1, <2>2 DEF Collected
<1>11. CASE ~HasFlats
  <2>1. \A i \in 1 .. Len(q) : q[i].type \notin Whites
    <3> TAKE i \in 1 .. Len(q)
    <3>1. a + i \in 1 .. Len(sent) /\ q[i] = sent[a + i]
      BY <1>4, <1>5
    <3> QED
      BY <1>11, <3>1 DEF SentOK
  <2>2. PICK T : T = {f \in Frames : f.round = Last(q).round /\ f.type \in Whites}
    OBVIOUS
  <2>3. \A i \in 1 .. Len(q) : q[i] \notin S /\ q[i] \notin T
    BY <1>3, <2>1, <2>2
  <2>4. Select(q, S) = <<>> /\ Select(q, T) = <<>>
    BY <1>5, <2>3, SelectNone
  <2>5. FlatsOf(q) = <<>>
    BY <2>2, <2>4 DEF FlatsOf
  <2>6. m.type \notin Whites
    BY <1>8, <1>11
  <2> QED
    BY <1>1, <1>2, <1>7, <2>4, <2>5, <2>6
<1> QED
  BY <1>9, <1>10, <1>11

\* What a distributor takes from its inbox is the next frame published, or
\* end_data when it has received them all.
LEMMA Receiving ==
  ASSUME HearInv, NEW s \in Subs, inbox[s] # <<>>
  PROVE  /\ subscribed[s] = "active"
         /\ \E n \in Nat : /\ HeardOK(s, n)
                           /\ \/ /\ n + 1 <= Len(sent)
                                 /\ Received(s) = sent[n + 1]
                                 /\ InboxIs(Tail(inbox[s]), n + 1)
                              \/ /\ n = Len(sent) /\ Received(s) = EndOfStream
                                 /\ InboxIs(Tail(inbox[s]), n)
<1>1. subscribed[s] = "active"
  BY DEF HearInv, HearingOK, NothingHeard
<1>2. PICK n \in Nat : HeardOK(s, n)
  BY <1>1 DEF HearInv, HearingOK
<1>3. sent \in Seq(Frames) /\ n <= Len(sent) /\ Len(sent) \in Nat
  BY <1>2 DEF HearInv, PublishInv, SentOK, HeardOK
<1> DEFINE rest(k) == SubSeq(sent, k + 1, Len(sent))
<1>4. inbox[s] = rest(n) \/ (dpc = "ended" /\ inbox[s] = Append(rest(n), EndOfStream))
  BY <1>2 DEF HeardOK, InboxIs
<1>5. CASE n = Len(sent)
  <2>1. rest(n) = <<>>
    BY <1>5, PartEmpty
  <2>5. Append(<<>>, EndOfStream) = <<EndOfStream>>
    OBVIOUS
  <2>2. dpc = "ended" /\ inbox[s] = <<EndOfStream>>
    BY <1>4, <2>1, <2>5
  <2>3. Received(s) = EndOfStream /\ Tail(inbox[s]) = <<>>
    BY <2>2 DEF Received
  <2>4. InboxIs(Tail(inbox[s]), n)
    BY <2>1, <2>3 DEF InboxIs
  <2> QED
    BY <1>1, <1>2, <1>5, <2>3, <2>4
<1>6. CASE n # Len(sent)
  <2>1. n < Len(sent) /\ n + 1 <= Len(sent) /\ n + 1 \in Nat
    BY <1>3, <1>6
  <2>2. /\ rest(n) \in Seq(Frames) /\ rest(n) # <<>>
        /\ Head(rest(n)) = sent[n + 1] /\ Tail(rest(n)) = rest(n + 1)
    BY <1>3, <2>1, RestTail
  <2>3. Received(s) = sent[n + 1] /\ InboxIs(Tail(inbox[s]), n + 1)
    <3>1. CASE inbox[s] = rest(n)
      BY <2>2, <3>1 DEF Received, InboxIs
    <3>2. CASE dpc = "ended" /\ inbox[s] = Append(rest(n), EndOfStream)
      <4>1. PICK r : r = rest(n)
        OBVIOUS
      <4>2. r \in Seq(Messages) /\ r # <<>> /\ EndOfStream \in Messages
        BY <2>2, <4>1, SeqMonotonic DEF Messages
      <4>3. Head(Append(r, EndOfStream)) = Head(r) /\ Tail(Append(r, EndOfStream)) = Append(Tail(r), EndOfStream)
        BY <4>2, TailOfAppend
      <4> QED
        BY <2>2, <3>2, <4>1, <4>3 DEF Received, InboxIs
    <3> QED
      BY <1>4, <3>1, <3>2
  <2> QED
    BY <1>1, <1>2, <2>1, <2>3
<1> QED
  BY <1>5, <1>6

\* end_data is no frame.
LEMMA EndIsNoFrame ==
  ASSUME NEW m \in Frames
  PROVE  m # EndOfStream /\ m.type \in Types /\ EndOfStream.type \notin Types
<1>1. m.type \in Types /\ EndOfStream.type = "end_data"
  BY DEF Frames, EndOfStream
<1>2. EndOfStream.type \notin Types
  BY <1>1 DEF Types
<1> QED
  BY <1>1, <1>2

\* Distributor s takes m, the frame after place n, and treats it as it should.
LEMMA HeardMore ==
  ASSUME HearInv, NEW s \in Subs, NEW n \in Nat, HeardOK(s, n), n + 1 <= Len(sent),
         InboxIs(Tail(inbox[s]), n + 1),
         UNCHANGED <<sent, dpc>>, from'[s] = from[s], inbox'[s] = Tail(inbox[s]),
         white'[s] = IF sent[n + 1].type \in Whites
                       THEN Collected(white[s], sent[n + 1], sent[n + 1].type = "WhiteReset")
                       ELSE white[s],
         FramesOf(pushed'[s]) = IF sent[n + 1].type = "Projection"
                                  THEN Append(FramesOf(pushed[s]), sent[n + 1])
                                  ELSE FramesOf(pushed[s])
  PROVE  HeardOK(s, n + 1)'
<1> DEFINE a == from[s]
<1>a. PICK q : q = SubSeq(sent, a + 1, n)
  OBVIOUS
<1>b. PICK m : m = sent[n + 1]
  OBVIOUS
<1>1. /\ a \in Nat /\ a <= n /\ n + 1 <= Len(sent) /\ n <= Len(sent) /\ sent \in Seq(Frames) /\ SentOK
      /\ white[s] = FlatsOf(q) /\ FramesOf(pushed[s]) = ProjectionsOf(q)
  BY <1>a DEF HeardOK, HearInv, PublishInv, SentOK
<1>2. SubSeq(sent, a + 1, n + 1) = Append(q, m)
  BY <1>1, <1>a, <1>b, PartMore
<1>3. q \in Seq(Frames) /\ m \in Frames
  <2>1. q \in Seq(Frames)
    BY <1>1, <1>a, Part
  <2>2. n + 1 \in 1 .. Len(sent)
    BY <1>1
  <2> QED
    BY <1>1, <1>b, <2>1, <2>2
<1>4. white'[s] = FlatsOf(Append(q, m))
  BY <1>1, <1>a, <1>b, NextFlats
<1>5. FramesOf(pushed'[s]) = ProjectionsOf(Append(q, m))
  <2>3. PICK S : S = {f \in Frames : f.type = "Projection"}
    OBVIOUS
  <2>1. m \in S <=> m.type = "Projection"
    BY <1>3, <2>3
  <2>4. Select(Append(q, m), S) = IF m \in S THEN Append(Select(q, S), m) ELSE Select(q, S)
    BY <1>3, SelectAppend
  <2>2. FramesOf(pushed'[s]) = IF m.type = "Projection" THEN Append(ProjectionsOf(q), m)
                                                        ELSE ProjectionsOf(q)
    BY <1>1, <1>b
  <2> QED
    BY <2>1, <2>2, <2>3, <2>4 DEF ProjectionsOf
<1>6. a <= n + 1 /\ n + 1 \in Nat
  BY <1>1
<1>7. InboxIs(inbox[s], n + 1)'
  BY DEF InboxIs
<1> QED
  BY <1>1, <1>2, <1>4, <1>5, <1>6, <1>7 DEF HeardOK

Pushes == [frame : Frames, normalized : BOOLEAN]

\* The frames of what has been pushed, and of one push more.
LEMMA FramesOfAppend ==
  ASSUME NEW p \in Seq(Pushes), NEW r \in Pushes
  PROVE  FramesOf(Append(p, r)) = Append(FramesOf(p), r.frame)
<1> DEFINE n == Len(p)
<1>1. PICK t : t = Append(p, r)
  OBVIOUS
<1>2. PICK g : g = FramesOf(p)
  OBVIOUS
<1>3. PICK h : h = FramesOf(t)
  OBVIOUS
<1>4. /\ t \in Seq(Pushes) /\ n \in Nat /\ Len(t) = n + 1 /\ DOMAIN t = 1 .. n + 1
      /\ DOMAIN p = 1 .. n
      /\ t[n + 1] = r /\ \A k \in 1 .. n : t[k] = p[k]
  BY <1>1
<1>5. \A k \in 1 .. n + 1 : t[k] \in Pushes
  BY <1>4
<1>6. \A k \in 1 .. n : p[k] \in Pushes
  BY <1>4
<1> HIDE DEF n
<1>7. h = [k \in 1 .. n + 1 |-> t[k].frame] /\ g = [k \in 1 .. n |-> p[k].frame]
  BY <1>2, <1>3, <1>4 DEF FramesOf
<1>8. \A k \in 1 .. n + 1 : t[k].frame \in Frames
  BY <1>5 DEF Pushes
<1>9. \A k \in 1 .. n : p[k].frame \in Frames
  BY <1>6 DEF Pushes
<1>10. h \in Seq(Frames) /\ Len(h) = n + 1
  BY <1>4, <1>7, <1>8
<1>11. g \in Seq(Frames) /\ Len(g) = n
  BY <1>4, <1>7, <1>9
<1>12. r.frame \in Frames
  BY DEF Pushes
<1>13. \A k \in 1 .. n + 1 : h[k] = t[k].frame
  BY <1>7
<1>14. \A k \in 1 .. n : g[k] = p[k].frame
  BY <1>7
<1>15. \A k \in 1 .. n : h[k] = g[k]
  <2> TAKE k \in 1 .. n
  <2>1. k \in 1 .. n + 1
    BY <1>4
  <2> QED
    BY <1>4, <1>13, <1>14, <2>1
<1>16. h[n + 1] = r.frame
  BY <1>4, <1>13
<1>17. h = Append(g, r.frame)
  <2>1. Append(g, r.frame) \in Seq(Frames) /\ Len(Append(g, r.frame)) = n + 1
    BY <1>4, <1>11, <1>12
  <2>2. ASSUME NEW k \in 1 .. n + 1
        PROVE  h[k] = Append(g, r.frame)[k]
    <3>1. k \in 1 .. n \/ k = n + 1
      BY <1>4
    <3>2. \A i \in 1 .. n : Append(g, r.frame)[i] = g[i]
      BY <1>11, <1>12
    <3>3. Append(g, r.frame)[n + 1] = r.frame
      BY <1>11, <1>12
    <3> QED
      BY <1>15, <1>16, <3>1, <3>2, <3>3
  <2> QED
    BY <1>10, <2>1, <2>2, SeqEqual
<1> QED
  BY <1>1, <1>2, <1>3, <1>17

\* A distributor to which nothing happens.
LEMMA HearingSame ==
  ASSUME NEW s \in Subs, HearingOK(s), sent' = sent, dpc = "ended" => dpc' = "ended",
         subscribed'[s] = subscribed[s], from'[s] = from[s], inbox'[s] = inbox[s],
         white'[s] = white[s], pushed'[s] = pushed[s]
  PROVE  HearingOK(s)'
<1>1. CASE subscribed[s] = "active"
  <2>1. PICK n \in Nat : HeardOK(s, n)
    BY <1>1 DEF HearingOK
  <2>2. InboxIs(inbox[s], n)'
    BY <2>1 DEF HeardOK, InboxIs
  <2>3. HeardOK(s, n)'
    BY <2>1, <2>2 DEF HeardOK
  <2> QED
    BY <1>1, <2>3 DEF HearingOK
<1>2. CASE subscribed[s] # "active"
  BY <1>2 DEF HearingOK, NothingHeard
<1> QED
  BY <1>1, <1>2

\* A frame is published: it joins the inboxes of those that are heard.
LEMMA HearingPublish ==
  ASSUME HearInv, PublishFrame, NEW s \in Subs
  PROVE  HearingOK(s)'
<1> DEFINE m == Frame(Indices[dataset][pos], it)
<1>1. /\ sent' = Append(sent, m) /\ dpc = "publish" /\ Publish(m)
      /\ UNCHANGED <<subscribed, from, white, pushed>>
  BY DEF PublishFrame
<1>2. m \in Frames
  <2>1. dataset \in Datasets /\ it \in Nat /\ pos \in 1 .. NFrames
    BY DEF HearInv, PublishInv, RoundOK
  <2>2. Indices[dataset][pos] \in Nat
    <3>1. Indices[dataset] \in Seq(Nat) /\ pos \in 1 .. Len(Indices[dataset])
      BY <2>1, FileOK
    <3>2. PICK ind : ind = Indices[dataset]
      OBVIOUS
    <3>3. ind[pos] \in Nat
      BY <3>1, <3>2
    <3> QED
      BY <3>2, <3>3
  <2>3. PICK x \in Nat : x = Indices[dataset][pos]
    BY <2>2
  <2>4. m = [type |-> TypeOf(x), seq |-> x, round |-> it] /\ TypeOf(x) \in Types
    BY <2>1, <2>3, TypeOfOK DEF Frame
  <2> HIDE DEF m
  <2> QED
    BY <2>1, <2>4 DEF Frames
<1>3. sent \in Seq(Frames)
  BY DEF HearInv, PublishInv, SentOK
<1> HIDE DEF m
<1>4. CASE subscribed[s] = "active"
  <2>1. PICK n \in Nat : HeardOK(s, n)
    BY <1>4 DEF HearInv, HearingOK
  <2>2. from[s] \in Nat /\ from[s] <= n /\ n <= Len(sent) /\ inbox[s] = SubSeq(sent, n + 1, Len(sent))
    BY <1>1, <2>1 DEF HeardOK, InboxIs
  <2>3. inbox'[s] = Append(inbox[s], m)
    BY <1>1, <1>4 DEF Publish
  <2>4. SubSeq(sent', n + 1, Len(sent')) = Append(SubSeq(sent, n + 1, Len(sent)), m)
    BY <1>1, <1>2, <1>3, <2>2, RestMore
  <2>5. InboxIs(inbox[s], n)'
    BY <2>2, <2>3, <2>4 DEF InboxIs
  <2>6. SubSeq(sent', from[s] + 1, n) = SubSeq(sent, from[s] + 1, n)
    BY <1>1, <1>2, <1>3, <2>2, PartFixed
  <2>7. n <= Len(sent')
    BY <1>1, <1>2, <1>3, <2>2
  <2>8. HeardOK(s, n)'
    BY <1>1, <2>1, <2>2, <2>5, <2>6, <2>7 DEF HeardOK
  <2> QED
    BY <1>1, <1>4, <2>8 DEF HearingOK
<1>5. CASE subscribed[s] # "active"
  <2>1. inbox'[s] = inbox[s] /\ NothingHeard(s)
    BY <1>1, <1>5 DEF Publish, HearInv, HearingOK
  <2> QED
    BY <1>1, <1>5, <2>1 DEF HearingOK, NothingHeard
<1> QED
  BY <1>4, <1>5

\* end_data is published.
LEMMA HearingEndData ==
  ASSUME HearInv, EndData, NEW s \in Subs
  PROVE  HearingOK(s)'
<1>1. /\ dpc = "finish" /\ dpc' = "ended" /\ Publish(EndOfStream)
      /\ UNCHANGED <<sent, subscribed, from, white, pushed>>
  BY DEF EndData
<1>2. CASE subscribed[s] = "active"
  <2>1. PICK n \in Nat : HeardOK(s, n)
    BY <1>2 DEF HearInv, HearingOK
  <2>2. inbox[s] = SubSeq(sent, n + 1, Len(sent))
    BY <1>1, <2>1 DEF HeardOK, InboxIs
  <2>3. inbox'[s] = Append(inbox[s], EndOfStream)
    BY <1>1, <1>2 DEF Publish
  <2>4. InboxIs(inbox[s], n)'
    BY <1>1, <2>2, <2>3 DEF InboxIs
  <2>5. HeardOK(s, n)'
    BY <1>1, <2>1, <2>4 DEF HeardOK
  <2> QED
    BY <1>1, <1>2, <2>5 DEF HearingOK
<1>3. CASE subscribed[s] # "active"
  <2>1. inbox'[s] = inbox[s] /\ NothingHeard(s)
    BY <1>1, <1>3 DEF Publish, HearInv, HearingOK
  <2> QED
    BY <1>1, <1>3, <2>1 DEF HearingOK, NothingHeard
<1> QED
  BY <1>2, <1>3

\* A subscription arrives: nothing has been heard yet.
LEMMA HearingArrives ==
  ASSUME HearInv, NEW s \in Subs, SubscriptionArrives(s)
  PROVE  HearingOK(s)'
<1>1. /\ subscribed[s] = "pending" /\ subscribed'[s] = "active" /\ from'[s] = Len(sent)
      /\ UNCHANGED <<sent, dpc, inbox, white, pushed>>
  BY DEF SubscriptionArrives, HearInv, HearType, daqVars
<1>2. inbox[s] = <<>> /\ white[s] = <<>> /\ pushed[s] = <<>>
  BY <1>1 DEF HearInv, HearingOK, NothingHeard
<1>3. PICK n \in Nat : n = Len(sent)
  BY DEF HearInv, PublishInv, SentOK
<1>4. SubSeq(sent, n + 1, n) = <<>>
  BY PartEmpty
<1>5. FlatsOf(<<>>) = <<>> /\ ProjectionsOf(<<>>) = <<>>
  BY SelectEmpty DEF FlatsOf, ProjectionsOf
<1>6. FramesOf(<<>>) = <<>>
  BY DEF FramesOf
<1>7. InboxIs(inbox[s], n)'
  BY <1>1, <1>2, <1>3, <1>4 DEF InboxIs
<1>8. n <= n
  OBVIOUS
<1>9. HeardOK(s, n)'
  BY <1>1, <1>2, <1>3, <1>4, <1>5, <1>6, <1>7, <1>8 DEF HeardOK
<1> QED
  BY <1>1, <1>9 DEF HearingOK

\* A distributor takes a frame, or the end.
LEMMA HearingReceive ==
  ASSUME HearInv, NEW s \in Subs,
         ReceiveProjection(s) \/ ReceiveWhite(s) \/ ReceiveDark(s) \/ ReceiveEnd(s)
  PROVE  HearingOK(s)'
<1>1. /\ inbox[s] # <<>> /\ inbox'[s] = Tail(inbox[s]) /\ from' = from
      /\ UNCHANGED <<sent, dpc, subscribed>>
  BY DEF ReceiveProjection, ReceiveWhite, ReceiveDark, ReceiveEnd, Loops, TakeFrame,
         HearInv, HearType, daqVars
<1>2. subscribed[s] = "active" /\ sent \in Seq(Frames)
  BY <1>1, Receiving DEF HearInv, PublishInv, SentOK
<1>3. PICK n \in Nat : /\ HeardOK(s, n)
                       /\ \/ /\ n + 1 <= Len(sent)
                             /\ Received(s) = sent[n + 1]
                             /\ InboxIs(Tail(inbox[s]), n + 1)
                          \/ /\ n = Len(sent) /\ Received(s) = EndOfStream
                             /\ InboxIs(Tail(inbox[s]), n)
  BY <1>1, Receiving
<1>4. CASE Received(s) = EndOfStream
  <2>1. EndOfStream.type \notin Types
    BY DEF EndOfStream, Types
  <2>2. ReceiveEnd(s)
    BY <1>4, <2>1 DEF ReceiveProjection, ReceiveWhite, ReceiveDark, Types
  <2>3. ~(n + 1 <= Len(sent) /\ Received(s) = sent[n + 1])
    <3> SUFFICES ASSUME n + 1 <= Len(sent), Received(s) = sent[n + 1]
                 PROVE  FALSE
      OBVIOUS
    <3>1. n + 1 \in 1 .. Len(sent)
      BY <1>2
    <3>2. sent[n + 1] \in Frames
      BY <1>2, <3>1
    <3>3. EndOfStream \in Frames
      BY <1>4, <3>2
    <3> QED
      BY <2>1, <3>3 DEF Frames
  <2>4. InboxIs(Tail(inbox[s]), n) /\ UNCHANGED <<white, pushed>>
    BY <1>3, <2>2, <2>3 DEF ReceiveEnd
  <2>5. InboxIs(inbox[s], n)'
    BY <1>1, <2>4 DEF InboxIs
  <2>6. HeardOK(s, n)'
    BY <1>1, <1>3, <2>4, <2>5 DEF HeardOK
  <2> QED
    BY <1>1, <1>2, <2>6 DEF HearingOK
<1>5. CASE Received(s) # EndOfStream
  <2>1. PICK m : m = sent[n + 1]
    OBVIOUS
  <2>2. n + 1 <= Len(sent) /\ Received(s) = m /\ InboxIs(Tail(inbox[s]), n + 1)
    BY <1>3, <1>5, <2>1
  <2>3. m \in Frames
    <3>1. n + 1 \in 1 .. Len(sent)
      BY <1>2, <2>2
    <3> QED
      BY <1>2, <2>1, <3>1
  <2>4. /\ white'[s] = IF m.type \in Whites
                         THEN Collected(white[s], m, m.type = "WhiteReset") ELSE white[s]
        /\ FramesOf(pushed'[s]) = IF m.type = "Projection" THEN Append(FramesOf(pushed[s]), m)
                                                           ELSE FramesOf(pushed[s])
    <3>1. CASE ReceiveProjection(s)
      <4>1. m.type = "Projection" /\ m.type \notin Whites /\ white' = white
        BY <2>2, <3>1 DEF ReceiveProjection, Whites
      <4>2. PICK b \in BOOLEAN : b = (white[s] # <<>> /\ dark[s] # <<>>)
        OBVIOUS
      <4>3. PICK r : r = [frame |-> m, normalized |-> b]
        OBVIOUS
      <4>4. r \in Pushes /\ r.frame = m
        BY <2>3, <4>3 DEF Pushes
      <4>5. pushed[s] \in Seq(Pushes)
        BY DEF HearInv, HearType, Pushes
      <4>6. pushed'[s] = Append(pushed[s], r)
        <5>1. pushed' = [pushed EXCEPT ![s] = Append(@, r)]
          BY <2>2, <3>1, <4>2, <4>3 DEF ReceiveProjection
        <5> QED
          BY <5>1 DEF HearInv, HearType
      <4>7. FramesOf(pushed'[s]) = Append(FramesOf(pushed[s]), m)
        BY <4>4, <4>5, <4>6, FramesOfAppend
      <4> QED
        BY <4>1, <4>7
    <3>2. CASE ReceiveWhite(s)
      <4>1. m.type \in Whites /\ m.type # "Projection" /\ pushed' = pushed
        BY <2>2, <3>2 DEF ReceiveWhite, Whites
      <4>2. white'[s] = Collected(white[s], m, m.type = "WhiteReset")
        BY <2>2, <3>2 DEF ReceiveWhite, HearInv, HearType
      <4> QED
        BY <4>1, <4>2
    <3>3. CASE ReceiveDark(s)
      BY <2>2, <3>3 DEF ReceiveDark, Whites
    <3>4. ~ReceiveEnd(s)
      BY <1>5 DEF ReceiveEnd
    <3> QED
      BY <3>1, <3>2, <3>3, <3>4
  <2>5. HeardOK(s, n + 1)'
    BY <1>1, <1>3, <2>1, <2>2, <2>4, HeardMore
  <2>6. n + 1 \in Nat
    OBVIOUS
  <2> QED
    BY <1>1, <1>2, <2>5, <2>6 DEF HearingOK
<1> QED
  BY <1>4, <1>5

\* Nobody has subscribed at first.
LEMMA HearInit ==
  ASSUME Init
  PROVE  HearInv
<1>1. PublishInv
  BY PublishInit
<1>2. HearType
  <2>1. <<>> \in Seq(Messages) /\ <<>> \in Seq(Frames)
        /\ <<>> \in Seq([frame : Frames, normalized : BOOLEAN])
    OBVIOUS
  <2> QED
    BY <2>1 DEF Init, HearType
<1>3. \A s \in Subs : HearingOK(s)
  BY DEF Init, HearingOK, NothingHeard
<1>4. StartOK
  BY DEF Init, StartOK
<1> QED
  BY <1>1, <1>2, <1>3, <1>4 DEF HearInv

\* Every step keeps what was published in order.
LEMMA PublishNext ==
  ASSUME PublishInv, [Next]_vars
  PROVE  PublishInv'
<1>1. CASE PublishFrame
  BY <1>1, PublishedSent, PublishedRound DEF PublishInv
<1>2. CASE UNCHANGED <<dataset, it, pos, sent>>
  <2>1. SentOK'
    BY <1>2 DEF PublishInv, SentOK, HasFlats
  <2>2. NFrames' = NFrames /\ Indices' = Indices
    BY <1>2 DEF NFrames, Size, Indices
  <2>3. RoundIsComplete'
    <3>1. RoundIsComplete
      BY DEF PublishInv, RoundOK
    <3>2. it' = it /\ sent' = sent /\ NFrames' = NFrames
      BY <1>2, <2>2
    <3> HIDE DEF NFrames
    <3> QED
      BY <3>1, <3>2 DEF RoundIsComplete
  <2>4. Places(sent, it)' = Places(sent, it) /\ Seqs(sent, it)' = Seqs(sent, it)
    BY <1>2 DEF Seqs, Places
  <2>5. /\ (dataset \in Datasets /\ it \in Nat \ {0} /\ pos \in 1 .. NFrames)'
        /\ (Cardinality(Places(sent, it)) = pos - 1)'
        /\ (Seqs(sent, it) = {Indices[dataset][i] : i \in 1 .. pos - 1})'
    BY <1>2, <2>2, <2>4 DEF PublishInv, RoundOK
  <2> QED
    BY <2>1, <2>3, <2>5 DEF PublishInv, RoundOK
<1>3. \/ PublishFrame \/ EndData \/ Signal \/ Quit \/ UNCHANGED vars
      \/ \E s \in Subs : \/ Answer(s) \/ Subscribe(s) \/ Ask(s) \/ ReceiveReply(s)
                         \/ ReceiveProjection(s) \/ ReceiveWhite(s) \/ ReceiveDark(s)
                         \/ ReceiveEnd(s) \/ SubscriptionArrives(s)
  BY DEF Next, DaqStep, SubStep, Stopped
<1>4. ASSUME ~PublishFrame
      PROVE  UNCHANGED <<dataset, it, pos, sent>>
  <2>1. CASE EndData
    BY <2>1 DEF EndData
  <2>2. CASE Signal
    BY <2>2 DEF Signal
  <2>3. CASE Quit
    BY <2>3 DEF Quit
  <2>4. CASE UNCHANGED vars
    BY <2>4 DEF vars
  <2>5. ASSUME NEW s \in Subs, Answer(s)
        PROVE  UNCHANGED <<dataset, it, pos, sent>>
    BY <2>5 DEF Answer
  <2>6. ASSUME NEW s \in Subs,
               Subscribe(s) \/ Ask(s) \/ ReceiveReply(s) \/ SubscriptionArrives(s)
        PROVE  UNCHANGED <<dataset, it, pos, sent>>
    BY <2>6 DEF Subscribe, Ask, ReceiveReply, SubscriptionArrives, daqVars
  <2>7. ASSUME NEW s \in Subs,
               ReceiveProjection(s) \/ ReceiveWhite(s) \/ ReceiveDark(s) \/ ReceiveEnd(s)
        PROVE  UNCHANGED <<dataset, it, pos, sent>>
    BY <2>7 DEF ReceiveProjection, ReceiveWhite, ReceiveDark, ReceiveEnd, daqVars
  <2> QED
    BY <1>3, <1>4, <2>1, <2>2, <2>3, <2>4, <2>5, <2>6, <2>7
<1> QED
  BY <1>1, <1>2, <1>4

\* A distributor subscribes as it starts, and never starts again.
LEMMA StartNext ==
  ASSUME StartOK, HearType, [Next]_vars
  PROVE  StartOK'
<1>0. /\ subscribed \in [Subs -> {"no", "pending", "active"}]
      /\ spc \in [Subs -> {"start", "ask", "asking", "answered", "loop", "done"}]
      /\ \A s \in Subs : spc[s] = "start" => subscribed[s] = "no"
  BY DEF StartOK, HearType
<1>1. CASE UNCHANGED <<spc, subscribed>>
  BY <1>0, <1>1 DEF StartOK
<1>2. ASSUME NEW s \in Subs, NEW label \in {"ask", "asking", "answered", "loop", "done"},
             Goto(s, label),
             \/ subscribed' = subscribed
             \/ subscribed' = [subscribed EXCEPT ![s] = "pending"]
      PROVE  StartOK'
  <2>1. spc' \in [Subs -> {"start", "ask", "asking", "answered", "loop", "done"}]
    BY <1>0, <1>2 DEF Goto
  <2>2. ASSUME NEW t \in Subs, spc'[t] = "start"
        PROVE  subscribed'[t] = "no"
    <3>1. t # s /\ spc[t] = "start"
      BY <1>0, <1>2, <2>2 DEF Goto
    <3> QED
      BY <1>0, <1>2, <3>1
  <2> QED
    BY <2>1, <2>2 DEF StartOK
<1>3. ASSUME NEW s \in Subs, ReceiveReply(s)
      PROVE  StartOK'
  <2>1. PICK label : label = IF synched[s] < NWorkers[s] THEN "ask" ELSE "loop"
    OBVIOUS
  <2>2. Goto(s, label) /\ subscribed' = subscribed
    BY <1>3, <2>1 DEF ReceiveReply
  <2> QED
    BY <1>2, <2>1, <2>2
<1>4. ASSUME NEW s \in Subs, Subscribe(s) \/ Ask(s) \/ Answer(s) \/ ReceiveEnd(s)
      PROVE  StartOK'
  BY <1>2, <1>4 DEF Subscribe, Ask, Answer, ReceiveEnd
<1>5. ASSUME NEW s \in Subs, SubscriptionArrives(s)
      PROVE  StartOK'
  <2>1. /\ subscribed[s] = "pending" /\ spc' = spc
        /\ subscribed' = [subscribed EXCEPT ![s] = "active"]
    BY <1>5 DEF SubscriptionArrives
  <2>2. spc[s] # "start"
    BY <1>0, <2>1
  <2> QED
    BY <1>0, <2>1, <2>2 DEF StartOK
<1>6. ASSUME NEW s \in Subs, ReceiveProjection(s) \/ ReceiveWhite(s) \/ ReceiveDark(s)
      PROVE  StartOK'
  BY <1>1, <1>6 DEF ReceiveProjection, ReceiveWhite, ReceiveDark
<1>7. CASE PublishFrame \/ EndData \/ Signal \/ Quit \/ UNCHANGED vars
  BY <1>1, <1>7 DEF PublishFrame, EndData, Signal, Quit, vars
<1> QED
  BY <1>3, <1>4, <1>5, <1>6, <1>7 DEF Next, DaqStep, SubStep, Stopped

\* What is received is a message; what is kept of it are frames.
LEMMA HearTypeNext ==
  ASSUME HearInv, PublishInv', [Next]_vars
  PROVE  HearType'
<1> USE DEF HearType
<1>1. HearType /\ sent \in Seq(Frames) /\ sent' \in Seq(Frames)
  BY DEF HearInv, PublishInv, SentOK
<1>2. ASSUME NEW m \in Messages, Publish(m)
      PROVE  inbox' \in [Subs -> Seq(Messages)]
  <2>1. \A s \in Subs : inbox[s] \in Seq(Messages) /\ Append(inbox[s], m) \in Seq(Messages)
    BY <1>1
  <2> QED
    BY <1>2, <2>1 DEF Publish
<1>3. CASE PublishFrame
  <2>1. PICK m : m = Frame(Indices[dataset][pos], it)
    OBVIOUS
  <2>2. Publish(m) /\ sent' = Append(sent, m) /\ UNCHANGED <<from, white, pushed, subscribed>>
    BY <1>3, <2>1 DEF PublishFrame
  <2>3. m \in Frames
    <3>1. PICK q : q = Append(sent, m)
      OBVIOUS
    <3>2. q \in Seq(Frames) /\ Len(sent) \in Nat /\ Len(sent) + 1 \in 1 .. Len(q)
          /\ q[Len(sent) + 1] = m
      BY <1>1, <2>2, <3>1
    <3>3. q[Len(sent) + 1] \in Frames
      BY <3>2
    <3> QED
      BY <3>2, <3>3
  <2>4. inbox' \in [Subs -> Seq(Messages)]
    BY <1>2, <2>2, <2>3 DEF Messages
  <2> QED
    BY <1>1, <2>2, <2>4
<1>4. CASE EndData
  <2>1. Publish(EndOfStream) /\ UNCHANGED <<from, white, pushed, subscribed>>
    BY <1>4 DEF EndData
  <2>2. inbox' \in [Subs -> Seq(Messages)]
    BY <1>2, <2>1 DEF Messages
  <2> QED
    BY <1>1, <2>1, <2>2
<1>5. CASE Signal
  BY <1>1, <1>5 DEF Signal
<1>6. CASE Quit
  BY <1>1, <1>6 DEF Quit
<1>7. CASE UNCHANGED vars
  BY <1>1, <1>7 DEF vars
<1>8. ASSUME NEW s \in Subs, Answer(s)
      PROVE  HearType'
  BY <1>1, <1>8 DEF Answer
<1>9. ASSUME NEW s \in Subs, Subscribe(s) \/ Ask(s) \/ ReceiveReply(s)
      PROVE  HearType'
  <2>1. UNCHANGED <<from, inbox, white, pushed>>
    BY <1>9 DEF Subscribe, Ask, ReceiveReply
  <2>2. subscribed' = subscribed \/ subscribed' = [subscribed EXCEPT ![s] = "pending"]
    BY <1>9 DEF Subscribe, Ask, ReceiveReply
  <2>3. subscribed' \in [Subs -> {"no", "pending", "active"}]
    BY <1>1, <2>2
  <2> QED
    BY <1>1, <2>1, <2>3
<1>10. ASSUME NEW s \in Subs, SubscriptionArrives(s)
       PROVE  HearType'
  <2>1. UNCHANGED <<inbox, white, pushed>>
    BY <1>10 DEF SubscriptionArrives
  <2>2. subscribed' = [subscribed EXCEPT ![s] = "active"] /\ from' = [from EXCEPT ![s] = Len(sent)]
    BY <1>10 DEF SubscriptionArrives
  <2>3. subscribed' \in [Subs -> {"no", "pending", "active"}]
    BY <1>1, <2>2
  <2>4. from' \in [Subs -> Nat]
    BY <1>1, <2>2
  <2> QED
    BY <1>1, <2>1, <2>3, <2>4
<1>11. ASSUME NEW s \in Subs,
              ReceiveProjection(s) \/ ReceiveWhite(s) \/ ReceiveDark(s) \/ ReceiveEnd(s)
       PROVE  HearType'
  <2>1. /\ inbox[s] # <<>> /\ inbox' = [inbox EXCEPT ![s] = Tail(@)]
        /\ UNCHANGED <<from, subscribed>>
    BY <1>11 DEF ReceiveProjection, ReceiveWhite, ReceiveDark, ReceiveEnd, Loops, TakeFrame
  <2>2. inbox[s] \in Seq(Messages) /\ Tail(inbox[s]) \in Seq(Messages) /\ Received(s) \in Messages
    BY <1>1, <2>1 DEF Received
  <2>3. inbox' \in [Subs -> Seq(Messages)]
    BY <1>1, <2>1, <2>2
  <2>4. EndOfStream.type \notin Types
    BY DEF EndOfStream, Types
  <2>5. Received(s).type \in Types => Received(s) \in Frames
    BY <2>2, <2>4 DEF Messages
  <2>6. white' \in [Subs -> Seq(Frames)]
    <3>1. CASE ReceiveWhite(s)
      <4>1. Received(s) \in Frames
        BY <2>5, <3>1 DEF ReceiveWhite, Types
      <4>2. PICK m \in Frames : m = Received(s)
        BY <4>1
      <4>3. PICK r : r = Collected(white[s], m, m.type = "WhiteReset")
        OBVIOUS
      <4>4. Append(white[s], m) \in Seq(Frames) /\ <<m>> \in Seq(Frames)
        BY <1>1
      <4>5. r \in Seq(Frames)
        BY <4>3, <4>4 DEF Collected
      <4>6. white' = [white EXCEPT ![s] = r]
        BY <3>1, <4>2, <4>3 DEF ReceiveWhite
      <4> QED
        BY <1>1, <4>5, <4>6
    <3>2. CASE ~ReceiveWhite(s)
      <4>1. white' = white
        BY <1>11, <3>2 DEF ReceiveProjection, ReceiveDark, ReceiveEnd
      <4> QED
        BY <1>1, <4>1
    <3> QED
      BY <3>1, <3>2
  <2>7. pushed' \in [Subs -> Seq([frame : Frames, normalized : BOOLEAN])]
    <3>1. CASE ReceiveProjection(s)
      <4>1. Received(s) \in Frames
        BY <2>5, <3>1 DEF ReceiveProjection, Types
      <4>2. PICK b \in BOOLEAN : b = (white[s] # <<>> /\ dark[s] # <<>>)
        OBVIOUS
      <4>3. PICK r : r = [frame |-> Received(s), normalized |-> b]
        OBVIOUS
      <4>4. r \in [frame : Frames, normalized : BOOLEAN]
        BY <4>1, <4>3
      <4>5. pushed' = [pushed EXCEPT ![s] = Append(@, r)]
        BY <3>1, <4>2, <4>3 DEF ReceiveProjection
      <4>7. pushed[s] \in Seq([frame : Frames, normalized : BOOLEAN])
        BY <1>1
      <4>8. PICK P : P = [frame : Frames, normalized : BOOLEAN]
        OBVIOUS
      <4>6. Append(pushed[s], r) \in Seq([frame : Frames, normalized : BOOLEAN])
        BY <4>4, <4>7, <4>8
      <4> QED
        BY <1>1, <4>5, <4>6
    <3>2. CASE ~ReceiveProjection(s)
      <4>1. pushed' = pushed
        BY <1>11, <3>2 DEF ReceiveWhite, ReceiveDark, ReceiveEnd
      <4> QED
        BY <1>1, <4>1
    <3> QED
      BY <3>1, <3>2
  <2> QED
    BY <1>1, <2>1, <2>3, <2>6, <2>7
<1> QED
  BY <1>3, <1>4, <1>5, <1>6, <1>7, <1>8, <1>9, <1>10, <1>11
     DEF Next, DaqStep, SubStep, Stopped

\* Every distributor goes on hearing what was published.
LEMMA HearingNext ==
  ASSUME HearInv, [Next]_vars
  PROVE  \A s \in Subs : HearingOK(s)'
<1> SUFFICES ASSUME NEW t \in Subs
             PROVE  HearingOK(t)'
  OBVIOUS
<1>1. HearType /\ HearingOK(t) /\ StartOK
  BY DEF HearInv
<1>2. CASE PublishFrame
  BY <1>2, HearingPublish
<1>3. CASE EndData
  BY <1>3, HearingEndData
<1>4. CASE Signal
  BY <1>1, <1>4, HearingSame DEF Signal
<1>5. CASE Quit
  <2>1. dpc # "ended"
    BY <1>5 DEF Quit
  <2> QED
    BY <1>1, <1>5, <2>1, HearingSame DEF Quit
<1>6. CASE UNCHANGED vars
  BY <1>1, <1>6, HearingSame DEF vars
<1>7. ASSUME NEW s \in Subs, Answer(s)
      PROVE  HearingOK(t)'
  <2>1. dpc # "ended" /\ UNCHANGED <<sent, subscribed, from, inbox, white, pushed>>
    BY <1>7 DEF Answer
  <2> QED
    BY <1>1, <2>1, HearingSame
<1>8. ASSUME NEW s \in Subs, Ask(s) \/ ReceiveReply(s)
      PROVE  HearingOK(t)'
  <2>1. UNCHANGED <<sent, dpc, subscribed, from, inbox, white, pushed>>
    BY <1>8 DEF Ask, ReceiveReply, daqVars
  <2> QED
    BY <1>1, <2>1, HearingSame
<1>9. ASSUME NEW s \in Subs, Subscribe(s)
      PROVE  HearingOK(t)'
  <2>1. /\ UNCHANGED <<sent, dpc, from, inbox, white, pushed>>
        /\ subscribed' = [subscribed EXCEPT ![s] = "pending"] /\ spc[s] = "start"
    BY <1>9 DEF Subscribe, daqVars
  <2>2. CASE t # s
    <3>1. subscribed'[t] = subscribed[t]
      BY <1>1, <2>1, <2>2 DEF HearType
    <3> QED
      BY <1>1, <2>1, <3>1, HearingSame
  <2>3. CASE t = s
    <3>1. subscribed[s] = "no" /\ subscribed'[s] = "pending"
      BY <1>1, <2>1 DEF StartOK, HearType
    <3> QED
      BY <1>1, <2>1, <2>3, <3>1 DEF HearingOK, NothingHeard
  <2> QED
    BY <2>2, <2>3
<1>10. ASSUME NEW s \in Subs, SubscriptionArrives(s)
       PROVE  HearingOK(t)'
  <2>1. /\ UNCHANGED <<sent, dpc, inbox, white, pushed>>
        /\ subscribed' = [subscribed EXCEPT ![s] = "active"]
        /\ from' = [from EXCEPT ![s] = Len(sent)]
    BY <1>10 DEF SubscriptionArrives, daqVars
  <2>2. CASE t # s
    <3>1. subscribed'[t] = subscribed[t] /\ from'[t] = from[t]
      BY <1>1, <2>1, <2>2 DEF HearType
    <3> QED
      BY <1>1, <2>1, <3>1, HearingSame
  <2>3. CASE t = s
    BY <1>10, <2>3, HearingArrives
  <2> QED
    BY <2>2, <2>3
<1>11. ASSUME NEW s \in Subs,
              ReceiveProjection(s) \/ ReceiveWhite(s) \/ ReceiveDark(s) \/ ReceiveEnd(s)
       PROVE  HearingOK(t)'
  <2>1. CASE t # s
    <3>1. /\ UNCHANGED <<sent, dpc, subscribed, from>> /\ inbox'[t] = inbox[t]
          /\ white'[t] = white[t] /\ pushed'[t] = pushed[t]
      BY <1>1, <1>11, <2>1 DEF ReceiveProjection, ReceiveWhite, ReceiveDark, ReceiveEnd,
                               TakeFrame, daqVars, HearType
    <3> QED
      BY <1>1, <3>1, HearingSame
  <2>2. CASE t = s
    BY <1>11, <2>2, HearingReceive
  <2> QED
    BY <2>1, <2>2
<1> QED
  BY <1>2, <1>3, <1>4, <1>5, <1>6, <1>7, <1>8, <1>9, <1>10, <1>11
     DEF Next, DaqStep, SubStep, Stopped

\* What the properties take for received is what the invariant says was heard.
LEMMA TakenIsHeard ==
  ASSUME HearInv, NEW s \in Subs, NEW n \in Nat, subscribed[s] = "active", HeardOK(s, n)
  PROVE  Taken(s) = SubSeq(sent, from[s] + 1, n)
<1>1. PICK rest : rest = SubSeq(sent, n + 1, Len(sent))
  OBVIOUS
<1>2. sent \in Seq(Frames) /\ n <= Len(sent) /\ Len(sent) \in Nat
  BY DEF HearInv, PublishInv, SentOK, HeardOK
<1>3. rest \in Seq(Frames) /\ Len(rest) = Len(sent) - n
  BY <1>1, <1>2, Part
<1>4. PICK q : q = inbox[s]
  OBVIOUS
<1>5. q = rest \/ q = Append(rest, EndOfStream)
  BY <1>1, <1>4 DEF HeardOK, InboxIs
<1>6. PICK S : S = Range(q) \ {EndOfStream}
  OBVIOUS
<1>7. rest \in Seq(Messages) /\ EndOfStream \in Messages
  BY <1>3, SeqMonotonic DEF Messages
<1>8. \A i \in 1 .. Len(rest) : rest[i] \in S
  <2> TAKE i \in 1 .. Len(rest)
  <2>1. rest[i] \in Frames
    BY <1>3
  <2>2. rest[i] # EndOfStream
    BY <2>1, EndIsNoFrame
  <2>3. i \in DOMAIN q /\ q[i] = rest[i]
    BY <1>5, <1>7
  <2> QED
    BY <1>6, <2>2, <2>3 DEF Range
<1>9. Select(rest, S) = rest
  BY <1>7, <1>8, SelectAll
<1>10. Select(Append(rest, EndOfStream), S) = rest
  <2>1. EndOfStream \notin S
    BY <1>6
  <2> QED
    BY <1>7, <1>9, <2>1, SelectAppend
<1>11. Waiting(s) = rest
  BY <1>4, <1>5, <1>6, <1>9, <1>10 DEF Waiting
<1>12. Len(sent) - Len(Waiting(s)) = n
  BY <1>2, <1>3, <1>11
<1> QED
  BY <1>12 DEF Taken

\* The projections in q, whatever set they are selected from.
LEMMA ProjectionsSame ==
  ASSUME NEW q \in Seq(Frames)
  PROVE  ProjectionsOf(q) = Projections(q)
<1>1. PICK S : S = {f \in Frames : f.type = "Projection"}
  OBVIOUS
<1>2. PICK T : T = {f \in Range(q) : f.type = "Projection"}
  OBVIOUS
<1>3. \A i \in 1 .. Len(q) : q[i] \in S <=> q[i] \in T
  <2>1. \A i \in 1 .. Len(q) : q[i] \in Frames /\ q[i] \in Range(q)
    BY DEF Range
  <2> QED
    BY <1>1, <1>2, <2>1
<1>4. Select(q, S) = Select(q, T)
  BY <1>3, SelectSame
<1> QED
  BY <1>1, <1>2, <1>4 DEF ProjectionsOf, Projections

\* The flats kept are those of the round, and what was pushed are the projections.
LEMMA HeardWell ==
  ASSUME HearInv, NEW s \in Subs
  PROVE  white[s] = OfThisRound(s, Whites) /\ PushedFrames(s) = Projections(Taken(s))
<1>1. CASE subscribed[s] # "active"
  <2>1. NothingHeard(s) /\ Taken(s) = <<>>
    BY <1>1 DEF HearInv, HearingOK, Taken
  <2>2. OfThisRound(s, Whites) = <<>> /\ Projections(Taken(s)) = <<>>
    BY <2>1, SelectEmpty DEF OfThisRound, Projections
  <2>3. PushedFrames(s) = <<>>
    BY <2>1 DEF NothingHeard, PushedFrames
  <2> QED
    BY <2>1, <2>2, <2>3 DEF NothingHeard
<1>2. CASE subscribed[s] = "active"
  <2>1. PICK n \in Nat : HeardOK(s, n)
    BY <1>2 DEF HearInv, HearingOK
  <2>2. PICK q : q = SubSeq(sent, from[s] + 1, n)
    OBVIOUS
  <2>3. Taken(s) = q
    BY <1>2, <2>1, <2>2, TakenIsHeard
  <2>4. q \in Seq(Frames)
    <3>1. sent \in Seq(Frames) /\ from[s] \in Nat /\ from[s] <= n /\ n <= Len(sent)
      BY <2>1 DEF HearInv, PublishInv, SentOK, HeardOK
    <3> QED
      BY <2>2, <3>1, Part
  <2>5. \A i \in 1 .. Len(q) : q[i] \in Frames /\ q[i] \in Range(q)
    BY <2>4 DEF Range
  <2>6. white[s] = FlatsOf(q) /\ PushedFrames(s) = ProjectionsOf(q)
    BY <2>1, <2>2 DEF HeardOK, FramesOf, PushedFrames
  <2>7. FlatsOf(q) = OfThisRound(s, Whites)
    <3>1. PICK S : S = {f \in Frames : f.round = Last(q).round /\ f.type \in Whites}
      OBVIOUS
    <3>2. PICK T : T = {f \in Range(q) : f.round = Last(q).round /\ f.type \in Whites}
      OBVIOUS
    <3>3. \A i \in 1 .. Len(q) : q[i] \in S <=> q[i] \in T
      BY <2>5, <3>1, <3>2
    <3>4. Select(q, S) = Select(q, T)
      BY <2>4, <3>3, SelectSame
    <3> QED
      BY <2>3, <3>1, <3>2, <3>4 DEF FlatsOf, OfThisRound
  <2>8. ProjectionsOf(q) = Projections(q)
    BY <2>4, ProjectionsSame
  <2> QED
    BY <2>3, <2>6, <2>7, <2>8
<1> QED
  BY <1>1, <1>2

\* Together.
LEMMA HearNext ==
  ASSUME HearInv, [Next]_vars
  PROVE  HearInv'
<1>1. PublishInv'
  BY PublishNext DEF HearInv
<1>2. HearType'
  BY <1>1, HearTypeNext
<1>3. StartOK'
  BY StartNext DEF HearInv
<1>4. (\A s \in Subs : HearingOK(s))'
  BY HearingNext
<1> QED
  BY <1>1, <1>2, <1>3, <1>4 DEF HearInv

\* What every distributor has taken, and what it has made of it, is at any time
\* what was published from the arrival of its subscription up to some place.
THEOREM HearInvariant == Spec => []HearInv
BY HearInit, HearNext, PTL DEF Spec, Safe

\* Every round that is over published every frame of the file exactly once,
\* whatever the number of frames and nelems_per_subset (ordered_subset,
\* simulate_daq_serialized).
THEOREM RoundsComplete == Spec => []RoundIsComplete
<1>1. HearInv => RoundIsComplete
  BY DEF HearInv, PublishInv, RoundOK
<1> QED
  BY <1>1, HearInvariant, PTL

\* The flats a distributor normalises with are those it has received of the round
\* under way, whenever its subscription arrived (the reset of white_imgs in main
\* of ModDistStreamPubDemo.py).
THEOREM FlatsKept == Spec => []FlatsOfThisRound
<1>1. HearInv => FlatsOfThisRound
  <2>1. Whites = {"White", "WhiteReset"}
    BY DEF Whites
  <2> QED
    BY <2>1, HeardWell DEF FlatsOfThisRound
<1> QED
  BY <1>1, HearInvariant, PTL

\* Every projection received has been pushed, once and in order.
THEOREM ProjectionsPushed == Spec => []PushedAsReceived
<1>1. HearInv => PushedAsReceived
  BY HeardWell DEF PushedAsReceived
<1> QED
  BY <1>1, HearInvariant, PTL

-----------------------------------------------------------------------------
(* The end.                                                                *)

\* A distributor that has left its loop has subscribed in time and taken everything.
EndOK == \A s \in Subs :
  spc[s] = "done" => dpc = "ended" /\ inbox[s] = <<>> /\ subscribed[s] = "active"

\* end_data is the last message in an inbox.
LEMMA EndIsLast ==
  ASSUME HearInv, NEW s \in Subs, inbox[s] # <<>>, Received(s) = EndOfStream
  PROVE  dpc = "ended" /\ Tail(inbox[s]) = <<>> /\ subscribed[s] = "active"
<1>1. subscribed[s] = "active"
  BY DEF HearInv, HearingOK, NothingHeard
<1>2. PICK n \in Nat : HeardOK(s, n)
  BY <1>1 DEF HearInv, HearingOK
<1>3. PICK rest : rest = SubSeq(sent, n + 1, Len(sent))
  OBVIOUS
<1>4. sent \in Seq(Frames) /\ n <= Len(sent) /\ Len(sent) \in Nat
  BY <1>2 DEF HearInv, PublishInv, SentOK, HeardOK
<1>5. rest \in Seq(Frames)
  BY <1>3, <1>4, Part
<1>6. PICK q : q = inbox[s]
  OBVIOUS
<1>7. q = rest \/ (dpc = "ended" /\ q = Append(rest, EndOfStream))
  BY <1>2, <1>3, <1>6 DEF HeardOK, InboxIs
<1>8. rest = <<>>
  <2>1. SUFFICES ASSUME rest # <<>>
                 PROVE  FALSE
    OBVIOUS
  <2>2. rest[1] \in Frames
    BY <1>5, <2>1
  <2>3. Head(q) = rest[1]
    <3>1. Head(rest) = rest[1]
      BY <1>5, <2>1
    <3>2. rest \in Seq(Messages) /\ EndOfStream \in Messages
      BY <1>5, SeqMonotonic DEF Messages
    <3>3. Append(rest, EndOfStream)[1] = rest[1] /\ Append(rest, EndOfStream) # <<>>
      BY <2>1, <3>2
    <3>4. Head(Append(rest, EndOfStream)) = rest[1]
      BY <3>2, <3>3
    <3> QED
      BY <1>7, <3>1, <3>4
  <2> QED
    BY <1>6, <2>2, <2>3, EndIsNoFrame DEF Received
<1>9. Append(<<>>, EndOfStream) = <<EndOfStream>> /\ Tail(<<EndOfStream>>) = <<>>
  OBVIOUS
<1> QED
  BY <1>1, <1>6, <1>7, <1>8, <1>9

\* Nothing is published after end_data, and who has left does not come back.
LEMMA EndNext ==
  ASSUME HearInv, EndOK, [Next]_vars
  PROVE  EndOK'
<1>0. /\ spc \in [Subs -> {"start", "ask", "asking", "answered", "loop", "done"}]
      /\ inbox \in [Subs -> Seq(Messages)]
      /\ subscribed \in [Subs -> {"no", "pending", "active"}]
  BY DEF HearInv, StartOK, HearType
<1>1. CASE UNCHANGED <<spc, dpc, inbox, subscribed>>
  BY <1>1 DEF EndOK
<1>2. ASSUME dpc # "ended", spc' = spc
      PROVE  EndOK'
  BY <1>2 DEF EndOK
<1>3. ASSUME NEW t \in Subs, spc[t] # "done",
             NEW label \in {"ask", "asking", "answered", "loop"},
             spc' = spc \/ Goto(t, label),
             dpc' = dpc \/ dpc # "ended",
             \A s \in Subs \ {t} : inbox'[s] = inbox[s] /\ subscribed'[s] = subscribed[s]
      PROVE  EndOK'
  <2>1. ASSUME NEW s \in Subs, spc'[s] = "done"
        PROVE  s # t /\ spc[s] = "done"
    BY <1>0, <1>3, <2>1 DEF Goto
  <2> QED
    BY <1>3, <2>1 DEF EndOK
<1>4. ASSUME NEW t \in Subs, Answer(t)
      PROVE  EndOK'
  <2>1. /\ Goto(t, "answered") /\ spc[t] = "asking" /\ dpc = "synch"
        /\ inbox' = inbox /\ subscribed' = subscribed
    BY <1>4 DEF Answer
  <2> QED
    BY <1>3, <2>1
<1>5. ASSUME NEW t \in Subs, Subscribe(t)
      PROVE  EndOK'
  <2>1. /\ spc[t] = "start" /\ Goto(t, "ask") /\ inbox' = inbox /\ dpc' = dpc
        /\ \A s \in Subs \ {t} : subscribed'[s] = subscribed[s]
    BY <1>0, <1>5 DEF Subscribe, daqVars
  <2> QED
    BY <1>3, <2>1
<1>6. ASSUME NEW t \in Subs, SubscriptionArrives(t)
      PROVE  EndOK'
  <2>1. /\ subscribed[t] = "pending" /\ spc' = spc /\ inbox' = inbox /\ dpc' = dpc
        /\ \A s \in Subs \ {t} : subscribed'[s] = subscribed[s]
    BY <1>0, <1>6 DEF SubscriptionArrives, daqVars
  <2>2. spc[t] # "done"
    BY <2>1 DEF EndOK
  <2> QED
    BY <1>3, <2>1, <2>2
<1>7. ASSUME NEW t \in Subs, Ask(t) \/ ReceiveReply(t)
      PROVE  EndOK'
  <2>1. PICK label : label = IF synched[t] < NWorkers[t] THEN "ask" ELSE "loop"
    OBVIOUS
  <2>2. CASE Ask(t)
    BY <1>3, <2>2 DEF Ask, daqVars
  <2>3. CASE ReceiveReply(t)
    <3>1. /\ Goto(t, label) /\ spc[t] = "answered" /\ dpc' = dpc
          /\ inbox' = inbox /\ subscribed' = subscribed
      BY <2>1, <2>3 DEF ReceiveReply, daqVars
    <3> QED
      BY <1>3, <2>1, <3>1
  <2> QED
    BY <1>7, <2>2, <2>3
<1>8. ASSUME NEW t \in Subs, ReceiveProjection(t) \/ ReceiveWhite(t) \/ ReceiveDark(t)
      PROVE  EndOK'
  <2>1. /\ spc[t] = "loop" /\ spc' = spc /\ subscribed' = subscribed /\ dpc' = dpc
        /\ inbox' = [inbox EXCEPT ![t] = Tail(@)]
    BY <1>8 DEF ReceiveProjection, ReceiveWhite, ReceiveDark, Loops, TakeFrame, daqVars
  <2>2. \A s \in Subs \ {t} : inbox'[s] = inbox[s]
    BY <1>0, <2>1
  <2> QED
    BY <1>3, <2>1, <2>2
<1>9. ASSUME NEW t \in Subs, ReceiveEnd(t)
      PROVE  EndOK'
  <2>1. /\ inbox[t] # <<>> /\ Received(t) = EndOfStream
        /\ subscribed' = subscribed /\ dpc' = dpc
        /\ inbox' = [inbox EXCEPT ![t] = Tail(@)]
        /\ spc' = [spc EXCEPT ![t] = "done"]
    BY <1>9 DEF ReceiveEnd, Loops, TakeFrame, Goto, daqVars
  <2>2. dpc = "ended" /\ inbox'[t] = <<>> /\ subscribed[t] = "active"
    BY <1>0, <2>1, EndIsLast
  <2>3. \A s \in Subs \ {t} : inbox'[s] = inbox[s] /\ spc'[s] = spc[s]
    BY <1>0, <2>1
  <2> QED
    BY <2>1, <2>2, <2>3 DEF EndOK
<1>10. CASE PublishFrame \/ EndData \/ Signal \/ Quit
  <2>1. dpc # "ended" /\ spc' = spc
    BY <1>10 DEF PublishFrame, EndData, Signal, Quit
  <2> QED
    BY <1>2, <2>1
<1>11. CASE UNCHANGED vars
  BY <1>1, <1>11 DEF vars
<1> QED
  BY <1>4, <1>5, <1>6, <1>7, <1>8, <1>9, <1>10, <1>11 DEF Next, DaqStep, SubStep, Stopped

\* At the start nobody has left.
LEMMA EndInit ==
  ASSUME Init
  PROVE  EndOK
BY DEF Init, EndOK

\* A distributor that has left its loop has pushed every projection published since
\* its subscription arrived, in order.
LEMMA LeftWithAll ==
  ASSUME HearInv, EndOK, NEW s \in Subs, spc[s] = "done"
  PROVE  PushedFrames(s) = Projections(SubSeq(sent, from[s] + 1, Len(sent)))
<1>1. subscribed[s] = "active" /\ inbox[s] = <<>>
  BY DEF EndOK
<1>2. Waiting(s) = <<>>
  BY <1>1, SelectEmpty DEF Waiting
<1>3. Len(sent) \in Nat
  BY DEF HearInv, PublishInv, SentOK
<1>4. Len(sent) - Len(Waiting(s)) = Len(sent)
  BY <1>2, <1>3
<1>5. Taken(s) = SubSeq(sent, from[s] + 1, Len(sent))
  BY <1>1, <1>4 DEF Taken
<1> QED
  BY <1>5, HeardWell

\* What a distributor has pushed is the beginning of what was published for it.
LEMMA PushedBegins ==
  ASSUME HearInv, NEW s \in Subs
  PROVE  /\ PushedFrames(s) \in Seq(Frames)
         /\ Projections(SubSeq(sent, from[s] + 1, Len(sent))) \in Seq(Frames)
         /\ Begins(PushedFrames(s), Projections(SubSeq(sent, from[s] + 1, Len(sent))))
<1>0. /\ sent \in Seq(Frames) /\ Len(sent) \in Nat /\ from[s] \in Nat
      /\ \A k \in 1 .. Len(sent) : sent[k] \in Frames
  BY DEF HearInv, PublishInv, SentOK, HearType
<1>1. PICK all : all = SubSeq(sent, from[s] + 1, Len(sent))
  OBVIOUS
<1>2. all \in Seq(Frames)
  <2>1. CASE from[s] <= Len(sent)
    BY <1>0, <1>1, <2>1, Part
  <2>2. CASE from[s] > Len(sent)
    <3>1. all = <<>>
      BY <1>0, <1>1, <2>2, SubSeqEmpty
    <3> QED
      BY <3>1
  <2> QED
    BY <1>0, <2>1, <2>2
<1>3. Projections(all) = ProjectionsOf(all) /\ ProjectionsOf(all) \in Seq(Frames)
  BY <1>2, ProjectionsSame, SelectType DEF ProjectionsOf
<1>4. CASE subscribed[s] # "active"
  <2>1. PushedFrames(s) = <<>>
    BY <1>4 DEF HearInv, HearingOK, NothingHeard, PushedFrames
  <2> QED
    BY <1>1, <1>3, <2>1 DEF Begins
<1>5. CASE subscribed[s] = "active"
  <2>1. PICK n \in Nat : HeardOK(s, n)
    BY <1>5 DEF HearInv, HearingOK
  <2>2. PICK q : q = SubSeq(sent, from[s] + 1, n)
    OBVIOUS
  <2>3. from[s] <= n /\ n <= Len(sent)
    BY <2>1 DEF HeardOK
  <2>4. q \in Seq(Frames)
    BY <1>0, <2>2, <2>3, Part
  <2>5. PushedFrames(s) = ProjectionsOf(q) /\ ProjectionsOf(q) \in Seq(Frames)
    BY <2>1, <2>2, <2>4, SelectType DEF HeardOK, FramesOf, PushedFrames, ProjectionsOf
  <2>6. Begins(ProjectionsOf(q), ProjectionsOf(all))
    <3>1. PICK S : S = {f \in Frames : f.type = "Projection"}
      OBVIOUS
    <3>2. Begins(Select(q, S), Select(all, S))
      BY <1>0, <1>1, <2>2, <2>3, SelectLonger
    <3> QED
      BY <3>1, <3>2 DEF ProjectionsOf
  <2> QED
    BY <1>1, <1>3, <2>5, <2>6
<1> QED
  BY <1>4, <1>5

\* The safety half of EndIsHeard: whoever leaves the loop (the break on end_data in
\* main of ModDistStreamPubDemo.py) has pushed all there was.
THEOREM LeavesWithAll ==
  Spec => [](\A s \in Subs : spc[s] = "done" =>
               PushedFrames(s) = Projections(SubSeq(sent, from[s] + 1, Len(sent))))
<1>1. HearInv /\ EndOK /\ [Next]_vars => EndOK'
  BY EndNext
<1>2. HearInv /\ EndOK => \A s \in Subs : spc[s] = "done" =>
         PushedFrames(s) = Projections(SubSeq(sent, from[s] + 1, Len(sent)))
  BY LeftWithAll
<1> QED
  BY <1>1, <1>2, EndInit, HearInvariant, PTL DEF Spec, Safe
=============================================================================
