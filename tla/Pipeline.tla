------------------------------ MODULE Pipeline ------------------------------
(***************************************************************************)
(* The acquisition, one distributor and its ranks together: the modules    *)
(* Acquisition and SirtStream, joined where ModDistStreamPubDemo.py calls  *)
(* push_image and done_image.  The distributor answers for all its ranks   *)
(* in the synchronisation, so that --synch_count is their number.          *)
(*                                                                         *)
(* What the two modules assume of each other is here: that the stream goes *)
(* on and ends is what the acquisition does, and a distributor receives    *)
(* nothing while push_image waits for a rank.                              *)
(***************************************************************************)
EXTENDS SirtStream

CONSTANTS Distributor, Datasets, NElem, Iterations

\* What Acquisition assumes of its constants, of which Subs, NWorkers and
\* SynchCount are given below.
ASSUME DatasetsAssumption ==
  Datasets \subseteq {d \in [flat : Nat, dark : Nat, proj : Nat] :
                       /\ d.dark = 0 \/ d.flat \in 1 .. d.dark
                       /\ d.flat + d.dark + d.proj > 0}
ASSUME NElemAssumption == NElem \in Nat \ {0}
ASSUME IterationsAssumption == Iterations \in Nat \ {0}

VARIABLES dataset, dpc, counter, bsignal, it, pos, sent,
          spc, synched, subscribed, from, inbox, white, dark,
          frames    \* frames[Distributor][i] is image i of the link

Acq == INSTANCE Acquisition WITH
         Subs <- {Distributor}, NWorkers <- [s \in {Distributor} |-> NRanks],
         SynchCount <- NRanks, pushed <- frames

acqVars == <<dataset, dpc, counter, bsignal, it, pos, sent, spc, synched, subscribed,
             from, inbox, white, dark, frames>>
pipelineVars == <<vars, acqVars>>

PipelineInit == Init /\ Acq!Init

\* The acquisition, its sockets and its operator.
AcquisitionStep ==
  /\ Acq!DaqStep \/ Acq!Signal \/ Acq!Quit \/ Acq!SubscriptionArrives(Distributor)
  /\ UNCHANGED vars

\* The distributor joins.
Join == /\ \/ Acq!Subscribe(Distributor)
           \/ Acq!Ask(Distributor)
           \/ Acq!ReceiveReply(Distributor)
        /\ UNCHANGED vars

\* A flat or a dark frame, after push_image has returned.
ReceiveField ==
  /\ Link!UpToDate
  /\ Acq!ReceiveWhite(Distributor) \/ Acq!ReceiveDark(Distributor)
  /\ UNCHANGED vars

\* A projection goes to push_image.
PushProjection == Acq!ReceiveProjection(Distributor) /\ PushNext

\* Faulty variant: done_image is not called after the loop.
LeaveLoop == Acq!ReceiveEnd(Distributor) /\ UNCHANGED vars

\* end_data ends the loop, and done_image the stream.
Done == Acq!ReceiveEnd(Distributor) /\ EndOfData

DistributorStep == Join \/ ReceiveField \/ PushProjection \/ Done

Ranks == /\ (\E w \in Rank : RankStep(w)) \/ WriteRecon \/ Finalize
         /\ UNCHANGED acqVars

\* After a quit, or when the distributor has heard, or missed, the end, there need
\* not be anything left to do.
Over == /\ dpc = "quit" \/ (dpc = "ended" /\ inbox[Distributor] = <<>>)
        /\ UNCHANGED pipelineVars

PipelineNext == AcquisitionStep \/ DistributorStep \/ Ranks \/ Over

\* The fairness of the two modules.
PipelineSpec ==
  /\ PipelineInit /\ [][PipelineNext]_pipelineVars
  /\ WF_pipelineVars(Acq!Answer(Distributor) /\ UNCHANGED vars)
  /\ WF_pipelineVars(~bsignal /\ Acq!PublishFrame /\ UNCHANGED vars)
  /\ WF_pipelineVars(Acq!EndData /\ UNCHANGED vars)
  /\ WF_pipelineVars(DistributorStep)
  /\ \A w \in Rank : WF_pipelineVars(RankStep(w) /\ UNCHANGED acqVars)
  /\ WF_pipelineVars(WriteRecon /\ UNCHANGED acqVars)
  /\ WF_pipelineVars(Finalize /\ UNCHANGED acqVars)

-----------------------------------------------------------------------------
FramesOf(images) == {frames[Distributor][i].frame : i \in images}

\* The projections the acquisition has published since the subscription arrived.
Published == {sent[i] : i \in {j \in from[Distributor] + 1 .. Len(sent) : sent[j].type = "Projection"}}

\* What a rank has reconstructed when it begins to read again are the first
\* projections published since the subscription arrived, up to some place and
\* without a gap, whatever the operator, the distributor and the other ranks do
\* meanwhile; when it has left its loop, it is all of them.
ReconstructsAsPublished ==
  LET published == Acq!Projections(SubSeq(sent, from[Distributor] + 1, Len(sent)))
  IN  \A w \in Rank : pc[w] \in {"read", "finalize", "destroy"} =>
        \E n \in 0 .. Len(published) :
          /\ FramesOf(Reconstructed(w)) = {published[k] : k \in 1 .. n}
          /\ pc[w] # "read" => n = Len(published)

\* If the subscription has arrived before the last frame is out, the acquisition's
\* end reaches the last rank: every rank gets past MPI_Finalize, after a window with
\* every projection published since.
EndToEnd ==
  (dpc = "finish" /\ subscribed[Distributor] = "active") ~>
    \A w \in Rank : pc[w] = "destroy" /\ FramesOf(Reconstructed(w)) = Published

\* When the operator quits instead, which sends no end_data (DAQStream.py:393),
\* the distributor comes to wait for a frame and every rank for an image, and so
\* they stay: none is lost inside a pass or a collective call, and none leaves.
StrandedByQuit ==
  dpc = "quit" ~>
    [](/\ spc[Distributor] = "loop" /\ inbox[Distributor] = <<>>
       /\ \A w \in Rank : pc[w] = "receive")
=============================================================================
