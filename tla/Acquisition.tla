----------------------------- MODULE Acquisition -----------------------------
(***************************************************************************)
(* The acquisition process (python/streamer-daq/DAQStream.py, which        *)
(* simulates a detector from a file) and the distributors that subscribe   *)
(* to it (python/streamer-dist/ModDistStreamPubDemo.py): a REQ/REP         *)
(* synchronisation, then frames over ZeroMQ PUB/SUB, then "end_data".      *)
(*                                                                         *)
(* A PUB socket does not wait for anybody.  A subscription takes effect    *)
(* some time after the subscriber made it, and what was published before   *)
(* that is lost on it; with the default high-water mark of 0 at both ends  *)
(* nothing else is lost, and the order is kept.                            *)
(*                                                                         *)
(* What a frame shows is abstracted to its place in the file and the round *)
(* (--d_iteration) it was published in.                                    *)
(***************************************************************************)
EXTENDS Integers, FiniteSets, SequencesExt, Filter

CONSTANTS Subs,         \* the distributors
          NWorkers,     \* NWorkers[s]: get_num_workers() of distributor s
          SynchCount,   \* --synch_count
          Datasets,     \* the numbers of flat, dark and projection frames
          NElem,        \* nelems_per_subset
          Iterations    \* --d_iteration

ASSUME NWorkersAssumption == NWorkers \in [Subs -> Nat \ {0}]
ASSUME SynchCountAssumption == SynchCount \in Nat
\* The files serialize_dataset gets through: it indexes the dark frames by flatId,
\* which is unbound without a flat frame and out of bounds with more flat frames
\* than dark ones.  A file without any frame is left out.
ASSUME DatasetsAssumption ==
  Datasets \subseteq {d \in [flat : Nat, dark : Nat, proj : Nat] :
                       /\ d.dark = 0 \/ d.flat \in 1 .. d.dark
                       /\ d.flat + d.dark + d.proj > 0}
ASSUME NElemAssumption == NElem \in Nat \ {0}
ASSUME IterationsAssumption == Iterations \in Nat \ {0}

VARIABLES
  dataset,     \* the simulation file
  \* The acquisition.
  dpc,         \* where it is
  counter,     \* synchronisation messages answered
  bsignal,     \* the operator has pressed ^C
  it, pos,     \* the round, and the place in indices of the next frame
  sent,        \* history: the frames published so far
  \* The distributors and their sockets.
  spc,         \* where distributor s is
  synched,     \* synchronisation messages of s that were answered
  subscribed,  \* whether the subscription of s has reached the publisher
  from,        \* history: how much was published before that
  inbox,       \* what s has not received yet
  white,       \* white_imgs
  dark,        \* dark_imgs
  pushed       \* history: what went to push_image

daqVars == <<dataset, dpc, counter, bsignal, it, pos, sent>>
vars == <<dataset, dpc, counter, bsignal, it, pos, sent, spc, synched, subscribed,
          from, inbox, white, dark, pushed>>

Size(d) == d.flat + d.dark + d.proj
NFrames == Size(dataset)

\* serialize_dataset: flats, darks, projections, the first of a kind a reset.
TypeOf(n) == CASE n < dataset.flat -> IF n = 0 THEN "WhiteReset" ELSE "White"
               [] n >= dataset.flat /\ n < dataset.flat + dataset.dark ->
                    IF n = dataset.flat THEN "DarkReset" ELSE "Dark"
               [] n >= dataset.flat + dataset.dark -> "Projection"

Frame(n, round) == [type |-> TypeOf(n), seq |-> n, round |-> round]
EndOfStream == [type |-> "end_data"]

\* ordered_subset: every n-th frame from 0, then every n-th from 1, and so on.
ordered_subset(max_ind) ==
  LET n == (max_ind + NElem - 1) \div NElem
  IN  FlattenSeq([k \in 1 .. n |->
        [j \in 1 .. (max_ind - k + n) \div n |-> k - 1 + (j - 1) * n]])

Indices == [d \in Datasets |-> ordered_subset(Size(d))]

Init == /\ dataset \in Datasets
        /\ dpc = IF SynchCount = 0 THEN "publish" ELSE "synch"
        /\ counter = 0 /\ bsignal = FALSE
        /\ it = 1 /\ pos = 1 /\ sent = <<>>
        /\ spc = [s \in Subs |-> "start"]
        /\ synched = [s \in Subs |-> 0]
        /\ subscribed = [s \in Subs |-> "no"]
        /\ from = [s \in Subs |-> 0]
        /\ inbox = [s \in Subs |-> <<>>]
        /\ white = [s \in Subs |-> <<>>]
        /\ dark = [s \in Subs |-> <<>>]
        /\ pushed = [s \in Subs |-> <<>>]

Goto(s, label) == spc' = [spc EXCEPT ![s] = label]

-----------------------------------------------------------------------------
(***************************************************************************)
(* The acquisition.                                                        *)
(***************************************************************************)

\* Faulty variant: the loop ends one message early.
SynchedEarly(n) == n + 1 >= SynchCount

Synched(n) == n >= SynchCount

\* Faulty variant: the message that completes the count is not answered.
AnswerBreaksFirst(s) ==
  /\ dpc = "synch" /\ spc[s] = "asking"
  /\ counter' = counter + 1
  /\ IF Synched(counter')
       THEN dpc' = "publish" /\ UNCHANGED <<synched, spc>>
       ELSE /\ synched' = [synched EXCEPT ![s] = @ + 1]
            /\ Goto(s, "answered")
            /\ UNCHANGED dpc
  /\ UNCHANGED <<dataset, bsignal, it, pos, sent, subscribed, from, inbox,
                 white, dark, pushed>>

\* synchronize_subs of the acquisition takes a message of s and sends the reply.
\* Nobody answers once the loop is over.
Answer(s) ==
  /\ dpc = "synch" /\ spc[s] = "asking"
  /\ counter' = counter + 1
  /\ dpc' = IF Synched(counter') THEN "publish" ELSE "synch"
  /\ synched' = [synched EXCEPT ![s] = @ + 1]
  /\ Goto(s, "answered")
  /\ UNCHANGED <<dataset, bsignal, it, pos, sent, subscribed, from, inbox,
                 white, dark, pushed>>

\* ^C reaches the acquisition; the handler only sets a flag.
Signal ==
  /\ dpc \in {"synch", "publish"} /\ ~bsignal
  /\ bsignal' = TRUE
  /\ UNCHANGED <<dataset, dpc, counter, it, pos, sent, spc, synched, subscribed,
                 from, inbox, white, dark, pushed>>

\* A send on the PUB socket.
Publish(m) ==
  inbox' = [s \in Subs |-> IF subscribed[s] = "active" THEN Append(inbox[s], m)
                                                       ELSE inbox[s]]

\* Faulty variant: the loop over a round stops a frame early.
NextFrameEarly ==
  IF pos + 1 < NFrames
    THEN pos' = pos + 1 /\ UNCHANGED <<it, dpc>>
    ELSE /\ pos' = 1 /\ it' = it + 1
         /\ dpc' = IF it < Iterations THEN "publish" ELSE "finish"

\* The loops "for it" and "for index in indices".
NextFrame ==
  IF pos < NFrames
    THEN pos' = pos + 1 /\ UNCHANGED <<it, dpc>>
    ELSE /\ pos' = 1 /\ it' = it + 1
         /\ dpc' = IF it < Iterations THEN "publish" ELSE "finish"

\* simulate_daq_serialized, one turn: if ^C was pressed, the operator is asked
\* first, and here says "c".
PublishFrame ==
  LET frame == Frame(Indices[dataset][pos], it) IN
  /\ dpc = "publish"
  /\ bsignal' = FALSE
  /\ Publish(frame)
  /\ sent' = Append(sent, frame)
  /\ NextFrame
  /\ UNCHANGED <<dataset, counter, spc, synched, subscribed, from, white, dark, pushed>>

\* The operator says "q": sys.exit at once, without end_data.
Quit ==
  /\ dpc = "publish" /\ bsignal
  /\ dpc' = "quit"
  /\ UNCHANGED <<dataset, counter, bsignal, it, pos, sent, spc, synched, subscribed,
                 from, inbox, white, dark, pushed>>

\* main, after the transfer.
EndData ==
  /\ dpc = "finish"
  /\ dpc' = "ended"
  /\ Publish(EndOfStream)
  /\ UNCHANGED <<dataset, counter, bsignal, it, pos, sent, spc, synched, subscribed,
                 from, white, dark, pushed>>

-----------------------------------------------------------------------------
(***************************************************************************)
(* Distributor s.  Its handshake with the workers (module TraceMQ) comes   *)
(* first and tells it how many there are.                                  *)
(***************************************************************************)

\* connect and setsockopt(SUBSCRIBE) return at once.
Subscribe(s) ==
  /\ spc[s] = "start"
  /\ subscribed' = [subscribed EXCEPT ![s] = "pending"]
  /\ Goto(s, "ask")
  /\ UNCHANGED <<daqVars, synched, from, inbox, white, dark, pushed>>

\* ZeroMQ: the publisher learns of the subscription.
SubscriptionArrives(s) ==
  /\ subscribed[s] = "pending"
  /\ subscribed' = [subscribed EXCEPT ![s] = "active"]
  /\ from' = [from EXCEPT ![s] = Len(sent)]
  /\ UNCHANGED <<daqVars, spc, synched, inbox, white, dark, pushed>>

\* synchronize_subs sends a message, one for every worker, and waits.
Ask(s) ==
  /\ spc[s] = "ask"
  /\ Goto(s, "asking")
  /\ UNCHANGED <<daqVars, synched, subscribed, from, inbox, white, dark, pushed>>

\* The reply arrives, when the acquisition may be far ahead, and synchronize_subs
\* goes on to its next message; after the last one comes the receive loop.
ReceiveReply(s) ==
  /\ spc[s] = "answered"
  /\ Goto(s, IF synched[s] < NWorkers[s] THEN "ask" ELSE "loop")
  /\ UNCHANGED <<daqVars, synched, subscribed, from, inbox, white, dark, pushed>>

Loops(s) == spc[s] = "loop" /\ inbox[s] # <<>>
Received(s) == Head(inbox[s])
TakeFrame(s) == inbox' = [inbox EXCEPT ![s] = Tail(@)]

\* Faulty variant: only a projection that can be normalised is pushed.
ReceiveProjectionPushesNormalized(s) ==
  /\ Loops(s) /\ Received(s).type = "Projection"
  /\ TakeFrame(s)
  /\ pushed' = IF white[s] # <<>> /\ dark[s] # <<>>
                 THEN [pushed EXCEPT ![s] =
                        Append(@, [frame |-> Received(s), normalized |-> TRUE])]
                 ELSE pushed
  /\ UNCHANGED <<daqVars, spc, synched, subscribed, from, white, dark>>

\* A projection is normalised, if there are flats and darks, and pushed to the
\* workers: --normalize and --my_distributor_addr are given, --skip_serialize, for
\* tests of the data rate, is not.
ReceiveProjection(s) ==
  /\ Loops(s) /\ Received(s).type = "Projection"
  /\ TakeFrame(s)
  /\ pushed' = [pushed EXCEPT ![s] =
       Append(@, [frame |-> Received(s),
                  normalized |-> white[s] # <<>> /\ dark[s] # <<>>])]
  /\ UNCHANGED <<daqVars, spc, synched, subscribed, from, white, dark>>

\* Faulty variant: the old flats are kept.
CollectedAll(imgs, m, reset) == Append(imgs, m)

\* White_imgs or dark_imgs after m: a reset empties the list first.
Collected(imgs, m, reset) == IF reset THEN <<m>> ELSE Append(imgs, m)

ReceiveWhite(s) ==
  /\ Loops(s) /\ Received(s).type \in {"White", "WhiteReset"}
  /\ TakeFrame(s)
  /\ white' = [white EXCEPT ![s] =
       Collected(@, Received(s), Received(s).type = "WhiteReset")]
  /\ UNCHANGED <<daqVars, spc, synched, subscribed, from, dark, pushed>>

ReceiveDark(s) ==
  /\ Loops(s) /\ Received(s).type \in {"Dark", "DarkReset"}
  /\ TakeFrame(s)
  /\ dark' = [dark EXCEPT ![s] =
       Collected(@, Received(s), Received(s).type = "DarkReset")]
  /\ UNCHANGED <<daqVars, spc, synched, subscribed, from, white, pushed>>

\* Faulty variant: end_data is taken for a frame of no known type.
ReceiveEndAsFrame(s) ==
  /\ Loops(s) /\ Received(s) = EndOfStream
  /\ TakeFrame(s)
  /\ UNCHANGED <<daqVars, spc, synched, subscribed, from, white, dark, pushed>>

\* end_data leaves the loop; done_image and finalize_tmq follow.
ReceiveEnd(s) ==
  /\ Loops(s) /\ Received(s) = EndOfStream
  /\ TakeFrame(s)
  /\ Goto(s, "done")
  /\ UNCHANGED <<daqVars, synched, subscribed, from, white, dark, pushed>>

-----------------------------------------------------------------------------
DaqStep == (\E s \in Subs : Answer(s)) \/ PublishFrame \/ EndData

SubStep(s) == \/ Subscribe(s) \/ Ask(s) \/ ReceiveReply(s) \/ ReceiveProjection(s)
              \/ ReceiveWhite(s) \/ ReceiveDark(s) \/ ReceiveEnd(s)

\* A quit leaves the distributors waiting, and so does an end_data that was
\* published before a subscription arrived.
Stopped == /\ dpc \in {"ended", "quit"}
           /\ UNCHANGED vars

Next == \/ DaqStep \/ Signal \/ Quit \/ Stopped
        \/ \E s \in Subs : SubStep(s) \/ SubscriptionArrives(s)

Safe == Init /\ [][Next]_vars

(***************************************************************************)
(* The acquisition and the distributors go on unless they wait.  Whether   *)
(* the operator ever answers after a ^C, and how long a subscription takes *)
(* to arrive, is left open.                                                *)
(***************************************************************************)
Spec == /\ Safe
        /\ WF_vars(\E s \in Subs : Answer(s))
        /\ WF_vars(~bsignal /\ PublishFrame)
        /\ WF_vars(EndData)
        /\ \A s \in Subs : WF_vars(SubStep(s))

-----------------------------------------------------------------------------
(***************************************************************************)
(* Properties.                                                             *)
(***************************************************************************)
\* The frames s has received: all that were published since its subscription
\* arrived, but for those in the inbox.
Waiting(s) == Select(inbox[s], Range(inbox[s]) \ {EndOfStream})
Taken(s) == IF subscribed[s] = "active"
              THEN SubSeq(sent, from[s] + 1, Len(sent) - Len(Waiting(s)))
              ELSE <<>>

\* The frames s has received of the round it is in, of the given types.
OfThisRound(s, types) ==
  LET frames == Taken(s)
  IN  Select(frames, {f \in Range(frames) : f.round = Last(frames).round /\ f.type \in types})

\* When --synch_count is the number of synchronisation messages the distributors
\* send, nothing is published before every one of them has subscribed and each of
\* its messages is answered: from then on no distributor waits for anything but a
\* reply that is on its way to it, and the first of them to join do not use up
\* the answers of the last.
JoinedBeforeData ==
  sent # <<>> => \A s \in Subs : /\ subscribed[s] # "no"
                                 /\ synched[s] = NWorkers[s]
                                 /\ spc[s] \in {"answered", "loop", "done"}

\* A round of the acquisition publishes every frame of the file exactly once,
\* whatever its size relative to the size of a subset; a file that is not a
\* multiple of them is where it could go wrong.
RoundIsComplete ==
  \A round \in 1 .. it - 1 :
    LET places == {k \in DOMAIN sent : sent[k].round = round}
    IN  /\ Cardinality(places) = NFrames
        /\ {sent[k].seq : k \in places} = 0 .. NFrames - 1

\* The flats a projection is normalised with are the flats the distributor has
\* received of the round that is under way: none of an earlier round stays, and
\* none is dropped, although the acquisition does not publish in file order and
\* a subscription may arrive at any moment.
FlatsOfThisRound ==
  \A s \in Subs : white[s] = OfThisRound(s, {"White", "WhiteReset"})

\* What a distributor has pushed to its workers is every projection it has
\* received, in the order of publication, whether or not there were flats and darks
\* to normalise it with.
Projections(frames) == Select(frames, {f \in Range(frames) : f.type = "Projection"})
PushedFrames(s) == [k \in DOMAIN pushed[s] |-> pushed[s][k].frame]
PushedAsReceived == \A s \in Subs : PushedFrames(s) = Projections(Taken(s))

\* With the right --synch_count, every distributor gets through synchronisation
\* and reaches its receive loop.
AllGetThrough == <>(\A s \in Subs : spc[s] \in {"loop", "done"})

\* A distributor whose subscription has arrived when the acquisition ends does
\* leave its loop, with every projection published since, in the order of
\* publication, pushed to its workers.
EndIsHeard ==
  \A s \in Subs :
    (dpc = "finish" /\ subscribed[s] = "active") ~>
      /\ spc[s] = "done"
      /\ PushedFrames(s) = Projections(SubSeq(sent, from[s] + 1, Len(sent)))

\* The help text of --synch_count (DAQStream.py:247), "Number of expected
\* subscribers.": with as many, every subscriber gets through (the run sets
\* SynchCount to the number of distributors).
SubscribersGetThrough == AllGetThrough

\* The help text of --normalize (ModDistStreamPubDemo.py:52), "Normalizes
\* incoming projection data with previously received dark and flat field.": a
\* projection is normalised with all the darks received of its round.
DarksOfThisRound ==
  \A s \in Subs :
    Loops(s) /\ Received(s).type = "Projection"
      => dark[s] = OfThisRound(s, {"Dark", "DarkReset"})
=============================================================================
