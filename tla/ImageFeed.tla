------------------------------ MODULE ImageFeed ------------------------------
(***************************************************************************)
(* Images on a PUB socket: from a worker (TraceMQ::PublishMsg) or from the *)
(* acquisition (test_daq, push_image_data) to a viewer (class DAQ of       *)
(* TDataModel.py and TDataModelBind.py).  An image is a TImage table, in   *)
(* which a field that has its default value is not stored                  *)
(* (trace_prot_generated.h); a message the viewer has no room for is       *)
(* dropped, and the viewer tells the number of lost messages from the      *)
(* sequence numbers of those it gets.                                      *)
(*                                                                         *)
(* Floats and pixels are members of small sets of integers; the bytes of   *)
(* an image are its pixels, each repeated as often as it has bytes.        *)
(* FlatBuffers and ZeroMQ are external.                                    *)
(***************************************************************************)
EXTENDS Integers, Sequences, FiniteSets, Functions

CONSTANTS MaxImages,  \* bound on the images published
          Hwm,        \* data_source_hwm of the viewer
          Shapes      \* dims of the images: z, y and x

ASSUME FeedAssumption == /\ MaxImages \in Nat /\ Hwm \in Nat \ {0}
                         /\ Shapes \subseteq [z : Nat, y : Nat, x : Nat]

VARIABLES source,     \* "worker" or "acquisition"
          shape,      \* the shape of its images: they do not change
          published,  \* the images published, as they were before serialisation
          fstage,     \* of the publisher: "publish", "over" after end_data
          subscribed, \* the viewer has connected and subscribed
          pipe,       \* what is on the way to it: [at, table], at = 0 for end_data
          vstage,     \* of the viewer: "receive", "end", "raised"
          viewer,     \* ndata, firstMsgId, lastMsgId, lostMsgs
          shown,      \* the images receive() has returned
          taken       \* their positions in published

feedVars == <<source, shape, published, fstage, subscribed, pipe, vstage, viewer, shown, taken>>

-----------------------------------------------------------------------------
(* TImage.                                                                 *)

IType == [End |-> 0, Projection |-> 1, White |-> 2, Dark |-> 3, WhiteReset |-> 4, DarkReset |-> 5]

Dim3(z, y, x) == [z |-> z, y |-> y, x |-> x]

Defaults == [seq |-> 0, rotation |-> 0, center |-> 0, uniqueId |-> 0, itype |-> IType.End]

\* Faulty variant: the builder leaves out what is 1.
StoredUnlessOne(image, f) == image[f] # (IF f = "seq" THEN 1 ELSE Defaults[f])

\* AddElement stores a scalar that differs from its default; the structs and
\* the vector are stored if they are there.
Stored(image, f) == image[f] # Defaults[f]

\* CreateTImage, and TImageStart ... TImageEnd of serialize: the fields stored.
CreateTImage(image) ==
  LET fields == {f \in DOMAIN Defaults : Stored(image, f)} \cup {"dims", "tdata"}
  IN  Restrict(image, fields)

\* GetField: the stored value, or the default.
GetField(table, f) == IF f \in DOMAIN table THEN table[f] ELSE Defaults[f]

Volume(dims) == dims.z * dims.y * dims.x

Bytes(dims, width) == [b \in 1 .. Volume(dims) * width |-> (b - 1) \div width]

\* PublishMsg: neither number nor type is given; pixels are floats.
WorkerImage == [seq |-> 0, rotation |-> 0, center |-> 0, uniqueId |-> 0,
                itype |-> IType.End, dims |-> shape, tdata |-> Bytes(shape, 4)]

\* Faulty variant: the frames are not numbered.
SeqOfNone == 0

\* seq of test_daq, self.seq of push_image_data: the frames sent so far.
SeqOfFrames == Len(published)

\* serialize: the center defaults to the middle (in halves of a column here);
\* pixels are uint16 from test_daq, uint8 or uint16 from a detector.
AcquisitionImage(width, rotation) ==
  [seq |-> SeqOfFrames, rotation |-> rotation, center |-> shape.x,
   uniqueId |-> Len(published) + 7, itype |-> IType.Projection,
   dims |-> shape, tdata |-> Bytes(shape, width)]

-----------------------------------------------------------------------------
FeedInit ==
  /\ source \in {"worker", "acquisition"}
  /\ shape \in Shapes
  /\ published = <<>> /\ fstage = "publish"
  /\ subscribed = FALSE /\ pipe = <<>>
  /\ vstage = "receive"
  /\ viewer = [ndata |-> 0, firstMsgId |-> 0, lastMsgId |-> 0, lostMsgs |-> 0]
  /\ shown = <<>> /\ taken = <<>>

\* PUB: a message without subscriber, or without room, is dropped.
Transmit(m) ==
  pipe' = IF subscribed /\ Len(pipe) < Hwm THEN Append(pipe, m) ELSE pipe

Publish(image) ==
  /\ fstage = "publish" /\ Len(published) < MaxImages
  /\ published' = Append(published, image)
  /\ Transmit([at |-> Len(published) + 1, table |-> CreateTImage(image)])
  /\ UNCHANGED <<source, shape, fstage, subscribed, vstage, viewer, shown, taken>>

PublishMsg == source = "worker" /\ Publish(WorkerImage)

PublishFrame == source = "acquisition"
                /\ \E width \in {1, 2}, rotation \in {0, 1} :
                     Publish(AcquisitionImage(width, rotation))

\* __exit__ of the detector class, main: the acquisition says end_data, a
\* worker just stops.
PublishEnd ==
  /\ fstage = "publish"
  /\ fstage' = "over"
  /\ IF source = "acquisition" THEN Transmit([at |-> 0, table |-> << >>])
                               ELSE UNCHANGED pipe
  /\ UNCHANGED <<source, shape, published, subscribed, vstage, viewer, shown, taken>>

\* DAQ.connect: the viewer may come at any time.
Connect ==
  /\ ~subscribed
  /\ subscribed' = TRUE
  /\ UNCHANGED <<source, shape, published, fstage, pipe, vstage, viewer, shown, taken>>

\* The counters of DAQ.receive after message number currId; ndata counts this
\* message already.
Counted(v, currId) ==
  LET n    == v.ndata + 1
      diff == currId - v.lastMsgId - 1
  IN  IF n = 1 THEN [ndata |-> n, firstMsgId |-> currId, lastMsgId |-> currId,
                     lostMsgs |-> v.lostMsgs]
      ELSE [v EXCEPT !.ndata = n, !.lastMsgId = currId,
                     !.lostMsgs = @ + (IF diff > 0 THEN diff ELSE 0)]

\* receive: the pixels, as many bytes each as the vector has per element.
Pixels(table, dims) ==
  LET bsize == Len(table.tdata) \div Volume(dims)
  IN  [k \in 1 .. Volume(dims) |-> [b \in 1 .. bsize |-> table.tdata[(k - 1) * bsize + b]]]

\* What receive returns: the fields that the callers use, and the image.
Received(table) ==
  [f \in DOMAIN Defaults \cup {"img"} |->
     IF f = "img" THEN Pixels(table, table.dims) ELSE GetField(table, f)]

\* DAQ.receive.  An image without elements is a division by zero; the callers
\* take the None that stands for the end apart as a pair, which raises as well.
Receive ==
  /\ vstage = "receive" /\ pipe # <<>>
  /\ LET m == Head(pipe) IN
     /\ pipe' = Tail(pipe)
     /\ \/ /\ m.at = 0
           /\ viewer' = [viewer EXCEPT !.ndata = @ + 1]
           /\ vstage' = "end" /\ UNCHANGED <<shown, taken>>
        \/ /\ m.at # 0
           /\ viewer' = Counted(viewer, GetField(m.table, "seq"))
           /\ taken' = Append(taken, m.at)
           /\ IF Volume(m.table.dims) = 0
                THEN vstage' = "raised" /\ UNCHANGED shown
                ELSE /\ shown' = Append(shown, Received(m.table))
                     /\ UNCHANGED vstage
  /\ UNCHANGED <<source, shape, published, fstage, subscribed>>

\* RCVTIMEO: recv raises, when ndata already counts the message that did not
\* come.  The windows do not catch it, which ends them.  (TDataModelBind waits
\* without limit.)
ReceiveTimesOut ==
  /\ subscribed /\ vstage = "receive" /\ pipe = <<>>
  /\ viewer' = [viewer EXCEPT !.ndata = @ + 1]
  /\ vstage' = "raised"
  /\ UNCHANGED <<source, shape, published, fstage, subscribed, pipe, shown, taken>>

FeedNext == PublishMsg \/ PublishFrame \/ PublishEnd \/ Connect \/ Receive
              \/ ReceiveTimesOut

FeedSpec == FeedInit /\ [][FeedNext]_feedVars

-----------------------------------------------------------------------------
\* What the viewer shows is what was published, in the order it was published:
\* every field survives, the ones that are not stored as well, and every pixel
\* is made of the bytes of that pixel, although its width is not transmitted.
ShownAsPublished ==
  \A i \in DOMAIN shown :
    LET image == published[taken[i]] IN
    /\ \A f \in DOMAIN Defaults : shown[i][f] = image[f]
    /\ \A k \in DOMAIN shown[i].img : Range(shown[i].img[k]) = {k - 1}
    /\ i > 1 => taken[i] > taken[i - 1]

\* Of an acquisition, which numbers its frames, the viewer knows how many were
\* dropped between the first one and the last one it got.
LossIsCounted ==
  source = "acquisition" /\ taken # <<>> =>
    viewer.lostMsgs = Cardinality((taken[1] .. taken[Len(taken)]) \ Range(taken))
=============================================================================
