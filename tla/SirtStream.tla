----------------------------- MODULE SirtStream -----------------------------
(***************************************************************************)
(* The reconstruction job: one MPI rank per worker of the TraceMQ link.    *)
(* Every rank slides a window over the stream (TraceStream), reconstructs  *)
(* it, and now and then all ranks together write one HDF5 file             *)
(* (sirt_stream_main.cc).  Nothing synchronises the ranks but the link,    *)
(* which holds an image back until everybody has the one before it, and    *)
(* the collective calls of the parallel HDF5 library and of MPI; whether   *)
(* these can wait for each other is one of the questions asked here.       *)
(*                                                                         *)
(* The link appears as the abstract LockstepBroadcast, which module        *)
(* TraceMQ implements.                                                     *)
(***************************************************************************)
EXTENDS Integers, Sequences

CONSTANTS NRanks,      \* comm->size()
          MaxImages,   \* bound on the length of the stream
          Lens,        \* values of --window-length
          Steps,       \* values of --window-step
          Freqs        \* values of --pub-freq and --write-freq

ASSUME NRanksAssumption == NRanks \in Nat \ {0}
ASSUME MaxImagesAssumption == MaxImages \in Nat
ASSUME LensAssumption == Lens \subseteq Nat
\* A step of 0 would end the program at its first pass, a frequency of 0 is a
\* division by zero; the options are not validated.
ASSUME StepsAssumption == Steps \subseteq Nat \ {0}
ASSUME FreqsAssumption == Freqs \subseteq Nat \ {0}

Rank == 0 .. NRanks - 1
Image == 1 .. MaxImages      \* the projections, numbered in the order pushed

VARIABLES
  config,     \* the command line, the same at every rank
  \* The link (LockstepBroadcast).
  pushed, got, closed, stopped,
  \* The ranks.
  pc,         \* where a rank is in its main loop
  passes,     \* the loop's index
  received,   \* received_msgs of the read under way
  window,     \* vtheta/vproj/vmeta: the projections in the window, oldest first
  out         \* history: what each finished pass emitted

linkVars == <<pushed, got, closed, stopped>>
vars == <<config, pushed, got, closed, stopped, pc, passes, received, window, out>>

Link == INSTANCE LockstepBroadcast WITH Worker <- Rank

Config == [len : Lens, step : Steps, pub_freq : Freqs, write_freq : Freqs]

Init == /\ config \in Config
        /\ Link!Init
        /\ pc = [w \in Rank |-> "read"]
        /\ passes = [w \in Rank |-> 0]
        /\ received = [w \in Rank |-> <<>>]
        /\ window = [w \in Rank |-> <<>>]
        /\ out = [w \in Rank |-> <<>>]

Goto(w, label) == pc' = [pc EXCEPT ![w] = label]

\* n calls of EraseBegTraceMsg, or as many as there are projections.
Erase(win, n) == SubSeq(win, n + 1, Len(win))

\* The loop that erases as long as there are more than n.
EraseDownTo(win, n) == IF Len(win) > n THEN Erase(win, Len(win) - n) ELSE win

-----------------------------------------------------------------------------
(***************************************************************************)
(* The distributor's side of the link.                                     *)
(***************************************************************************)

PushNext == /\ Link!Push(Len(pushed) + 1)
            /\ UNCHANGED <<config, pc, passes, received, window, out>>

EndOfData == /\ Link!Close
             /\ UNCHANGED <<config, pc, passes, received, window, out>>

-----------------------------------------------------------------------------
(***************************************************************************)
(* Rank w: ReadSlidingWindow, one step per message it waits for.           *)
(***************************************************************************)

\* The window is cut to its length before anything is received.
MeetSize(w) ==
  /\ pc[w] = "read"
  /\ window' = [window EXCEPT ![w] = EraseDownTo(@, config.len)]
  /\ received' = [received EXCEPT ![w] = <<>>]
  /\ Goto(w, "receive")
  /\ UNCHANGED <<config, linkVars, passes, out>>

\* ReceiveMsg returns a projection; the read wants config.step of them.
ReceiveImage(w) ==
  /\ pc[w] = "receive"
  /\ Link!Deliver(w)
  /\ received' = [received EXCEPT ![w] = Append(@, pushed[Len(got[w]) + 1])]
  /\ IF Len(received'[w]) < config.step THEN UNCHANGED pc ELSE Goto(w, "slide")
  /\ UNCHANGED <<config, passes, window, out>>

\* Faulty variant: ReceiveMsg does not wait for the next message.
ReceiveEndOrNothing(w) ==
  /\ pc[w] = "receive"
  /\ got[w] = pushed /\ UNCHANGED linkVars
  /\ Goto(w, "slide")
  /\ UNCHANGED <<config, passes, received, window, out>>

\* Faulty variant: ReceiveMsg forgets that the stream has ended.
ReceiveEndOnce(w) ==
  /\ pc[w] = "receive"
  /\ got[w] = pushed /\ Link!Stop(w)
  /\ Goto(w, "slide")
  /\ UNCHANGED <<config, passes, received, window, out>>

\* ReceiveMsg returns nullptr: it takes the end of the stream, or has had it.
ReceiveEnd(w) ==
  /\ pc[w] = "receive"
  /\ \/ got[w] = pushed /\ Link!Stop(w)
     \/ w \in stopped /\ UNCHANGED linkVars
  /\ Goto(w, "slide")
  /\ UNCHANGED <<config, passes, received, window, out>>

\* Faulty variant: a full window is cut after the new projections were added.
SlidTooLate(win, msgs) ==
  CASE msgs = <<>> /\ win = <<>>             -> <<>>
    [] msgs = <<>> /\ win # <<>>             -> Erase(win, config.step)
    [] msgs # <<>> /\ Len(win) < config.len  -> win \o msgs
    [] msgs # <<>> /\ Len(win) >= config.len -> Erase(win \o msgs, config.step)

\* Faulty variant: a full window is taken for one with space.
SlidOffByOne(win, msgs) ==
  CASE msgs = <<>> /\ win = <<>>            -> <<>>
    [] msgs = <<>> /\ win # <<>>            -> Erase(win, config.step)
    [] msgs # <<>> /\ Len(win) <= config.len -> win \o msgs
    [] msgs # <<>> /\ Len(win) > config.len  -> Erase(win, config.step) \o msgs

\* The window after the read, by the four cases of ReadSlidingWindow (the first
\* two without messages, the others with).
Slid(win, msgs) ==
  CASE msgs = <<>> /\ win = <<>>             -> <<>>
    [] msgs = <<>> /\ win # <<>>             -> Erase(win, config.step)
    [] msgs # <<>> /\ Len(win) < config.len  -> win \o msgs
    [] msgs # <<>> /\ Len(win) >= config.len -> Erase(win, config.step) \o msgs

\* nullptr goes back to main when the window is empty, and ends its loop; main
\* then cleans up.
Slide(w) ==
  /\ pc[w] = "slide"
  /\ window' = [window EXCEPT ![w] = Slid(@, received[w])]
  /\ Goto(w, IF window'[w] = <<>> THEN "finalize" ELSE "reconstruct")
  /\ UNCHANGED <<config, linkVars, passes, received, out>>

-----------------------------------------------------------------------------
(***************************************************************************)
(* Rank w: the rest of a pass of main.                                     *)
(***************************************************************************)
Due(w, freq) == passes[w] % freq = 0

\* The iterations on the window (module DispEngine) and PublishImage; the pass
\* ends here unless a file is due.
Reconstruct(w) ==
  /\ pc[w] = "reconstruct"
  /\ out' = [out EXCEPT ![w] = Append(@, [window |-> window[w],
                                          published |-> Due(w, config.pub_freq),
                                          written |-> Due(w, config.write_freq)])]
  /\ IF Due(w, config.write_freq)
       THEN Goto(w, "write") /\ UNCHANGED passes
       ELSE Goto(w, "read") /\ passes' = [passes EXCEPT ![w] = @ + 1]
  /\ UNCHANGED <<config, linkVars, received, window>>

\* WriteRecon creates and writes the file collectively over MPI_COMM_WORLD: no
\* rank gets through before every rank has come.
WriteRecon ==
  /\ \A w \in Rank : pc[w] = "write"
  /\ pc' = [w \in Rank |-> "read"]
  /\ passes' = [w \in Rank |-> passes[w] + 1]
  /\ UNCHANGED <<config, linkVars, received, window, out>>

\* The clean-up ends with that of the communicator: MPI_Finalize, a collective call.
\* At the end of main the destructor of tstream follows, and there a rank stays:
\* ~TraceMQ (trace_mq.cc:141) closes the socket of the link only, and
\* zmq_ctx_destroy waits until server_pub is closed as well, which nobody does.
Finalize ==
  /\ \A w \in Rank : pc[w] = "finalize"
  /\ pc' = [w \in Rank |-> "destroy"]
  /\ UNCHANGED <<config, linkVars, passes, received, window, out>>

RankStep(w) == \/ MeetSize(w) \/ ReceiveImage(w) \/ ReceiveEnd(w)
               \/ Slide(w) \/ Reconstruct(w)

Finished == (\A w \in Rank : pc[w] = "destroy") /\ UNCHANGED vars

Next == \/ PushNext
        \/ EndOfData
        \/ \E w \in Rank : RankStep(w)
        \/ WriteRecon
        \/ Finalize
        \/ Finished

Safe == Init /\ [][Next]_vars

(***************************************************************************)
(* Every rank goes on unless it waits; a collective call returns once      *)
(* everybody is in it.  The acquisition need not push, nor end.            *)
(***************************************************************************)
Spec == /\ Safe
        /\ \A w \in Rank : WF_vars(RankStep(w))
        /\ WF_vars(WriteRecon)
        /\ WF_vars(Finalize)

-----------------------------------------------------------------------------
(***************************************************************************)
(* Properties.                                                             *)
(***************************************************************************)
\* Whatever their speeds, the ranks emit the same passes: pass p of any two
\* ranks reconstructs the same projections, and both publish it and write it, or
\* neither does.  So the blocks of rows that the ranks publish or write under
\* one pass number belong to one volume.
RanksAgree ==
  \A v, w \in Rank : \A p \in DOMAIN out[v] \cap DOMAIN out[w] : out[v][p] = out[w][p]

\* No projection is received in vain: by the time a rank starts the next read,
\* and when it has left its loop, each projection it ever received was in a window it
\* reconstructed.
Reconstructed(w) == UNION {{out[w][p].window[k] : k \in DOMAIN out[w][p].window}
                             : p \in DOMAIN out[w]}
NoneInVain ==
  \A w \in Rank : pc[w] \in {"read", "finalize", "destroy"} =>
    {got[w][k] : k \in DOMAIN got[w]} \subseteq Reconstructed(w)

\* The window always is the newest part of the stream, whole and in order, up
\* to the projections of the read under way, and a read makes it larger than the
\* configured length by no more than one step.
WindowIsNewest ==
  \A w \in Rank :
    LET unread == IF pc[w] \in {"receive", "slide"} THEN Len(received[w]) ELSE 0
        seen   == SubSeq(got[w], 1, Len(got[w]) - unread)
    IN  /\ Len(window[w]) <= Len(seen)
        /\ window[w] = SubSeq(seen, Len(seen) - Len(window[w]) + 1, Len(seen))
        /\ Len(window[w]) <= (IF config.len = 0 THEN 0 ELSE config.len - 1) + config.step

\* An image that was pushed reaches every rank: the distributor, which waits for
\* every rank, is never held up for good by ranks that wait for each other.
PushReturns == []<>Link!UpToDate

\* A rank that has begun to write a file gets through, even if nothing is pushed
\* any more: all the others come to the same collective call with the images
\* they were already sent, and none of them has left.
FileIsCompleted == \A w \in Rank : pc[w] = "write" ~> pc[w] = "read"

\* Once the distributor has ended the stream, every rank empties its window,
\* leaves its main loop and gets past MPI_Finalize: none is left alone in it while
\* others wait for it to write a file.  (No process ends after that: see Finalize.)
AllFinalize == closed ~> \A w \in Rank : pc[w] = "destroy"

\* The help text of --window-length (sirt_stream_main.cc:53): "Number of
\* projections that will be stored in the window".
WithinWindowLength == \A w \in Rank : pc[w] = "reconstruct" => Len(window[w]) <= config.len
=============================================================================
