----------------------------- MODULE FeedsProofs -----------------------------
(***************************************************************************)
(* Proofs about WireFormat, ImageFeed and MockAcquisition, for every       *)
(* number of rays, every shape of an image, every number of images, every  *)
(* high-water mark and every file: what one end sends the other reads      *)
(* (trace_streamer.c, trace_mq.cc), the viewer shows what was published    *)
(* and knows what it missed (TDataModel.py), and the mock acquisition      *)
(* hands out every projection once (mock_data_acq.c).                      *)
(***************************************************************************)
EXTENDS WireFormat, ImageFeed, MockAcquisition, SequenceLemmas

(* The messages of TraceMQ in memory.                                      *)

Servers == {"distributor", "TraceMQ server"}
Workers == {"TraceMQ", "worker.c"}

\* The rays in a message: only DATA_REP carries any.
Carried == IF type = "DATA_REP" THEN rays ELSE 0

\* On the wire is what the sender filled; nothing is heard before.
OnTheWire ==
  /\ \/ sender \in Servers /\ receiver \in Workers
     \/ sender \in Workers /\ receiver \in Servers
  /\ type \in Types(sender)
  /\ rays \in Nat
  /\ wire # << >> => wire = Filled(sender, type, Carried)
  /\ heard # << >> => wire # << >>

\* The inductive invariant.
WireInv == OnTheWire /\ ReadAsSent

\* A type has its own code, so that the receiver knows it by the code.
LEMMA TypeByCode ==
  ASSUME OnTheWire
  PROVE  (CHOOSE u \in Types(sender) : Code(u) = Code(type)) = type
<1>1. /\ Code("FIN_REP") = 0 /\ Code("DATAINFO_REQ") = 1 /\ Code("DATAINFO_REP") = 2
      /\ Code("DATA_REQ") = 16 /\ Code("DATA_REP") = 32
  BY DEF Code
<1>2. \A u \in Types(sender) : Code(u) = Code(type) => u = type
  <2>1. CASE sender \in Servers
    <3>1. Types(sender) = {"DATAINFO_REP", "DATA_REP", "FIN_REP"}
      BY <2>1 DEF Types, Servers
    <3> QED
      BY <1>1, <3>1 DEF OnTheWire
  <2>2. CASE sender \in Workers
    <3>1. Types(sender) = {"DATAINFO_REQ", "DATA_REQ", "FIN_REP"}
      BY <2>2 DEF Types, Workers
    <3> QED
      BY <1>1, <3>1 DEF OnTheWire
  <2> QED
    BY <2>1, <2>2 DEF OnTheWire
<1> QED
  BY <1>2 DEF OnTheWire

\* Both ends lay a structure out in the same way, each field at a place of its own.
LEMMA SameLayout ==
  ASSUME OnTheWire
  PROVE  /\ Layout(receiver, type) = Layout(sender, type)
         /\ Len(Layout(sender, type)) \in Nat
         /\ DOMAIN Layout(sender, type) = 1 .. Len(Layout(sender, type))
         /\ type = "DATA_REP" => Len(Layout(sender, type)) = 3
         /\ \A n, m \in DOMAIN Layout(sender, type) :
              Layout(sender, type)[n] = Layout(sender, type)[m] => n = m
<1>1. Layout(receiver, type) = Layout(sender, type)
  BY DEF Layout, DataInfoRep
<1>2. type \in {"DATAINFO_REP", "DATA_REP", "FIN_REP", "DATAINFO_REQ", "DATA_REQ"}
  BY DEF OnTheWire, Types
<1>3. CASE type = "DATAINFO_REP"
  <2>1. Layout(sender, type)
          = <<"tn_sinograms", "beg_sinogram", "n_sinograms", "n_rays_per_proj_row">>
    BY <1>3 DEF Layout, DataInfoRep
  <2> QED
    BY <1>1, <1>3, <2>1
<1>4. CASE type = "DATAINFO_REQ"
  <2>1. Layout(sender, type) = <<"comm_rank", "comm_size">>
    BY <1>4 DEF Layout
  <2> QED
    BY <1>1, <1>4, <2>1
<1>5. CASE type = "DATA_REP"
  <2>1. Layout(sender, type) = <<"projection_id", "theta", "center">>
    BY <1>5 DEF Layout
  <2> QED
    BY <1>1, <1>5, <2>1
<1>6. CASE type \in {"FIN_REP", "DATA_REQ"}
  <2>1. Layout(sender, type) = << >>
    BY <1>6 DEF Layout
  <2> QED
    BY <1>1, <1>6, <2>1
<1> QED
  BY <1>2, <1>3, <1>4, <1>5, <1>6

\* The sizes that the two ends allocate and copy by.
LEMMA Sizes ==
  ASSUME OnTheWire
  PROVE  LET l == Len(Layout(sender, type))
             size == SizeofHeader(sender) + SizeofStruct(sender, type) + Carried
         IN  /\ size \in Nat /\ size >= 6 + l + Carried /\ size >= 6
             /\ rays \in Nat /\ Carried \in Nat
             /\ SizeofStruct(receiver, type) \in Nat
             /\ type # "DATA_REP" \/ rays > 0 => size >= 6 + SizeofStruct(receiver, type)
<1> DEFINE l == Len(Layout(sender, type))
<1>1. rays \in Nat /\ Carried = IF type = "DATA_REP" THEN rays ELSE 0
  BY DEF OnTheWire, Carried
<1>2. l \in Nat /\ Len(Layout(receiver, type)) = l
  BY SameLayout
<1>3. SizeofHeader(sender) \in {6, 8}
  BY DEF SizeofHeader
<1>4. /\ SizeofStruct(sender, type) \in {l, l + 1} /\ SizeofStruct(receiver, type) \in {l, l + 1}
      /\ type # "DATA_REP" => SizeofStruct(sender, type) = l /\ SizeofStruct(receiver, type) = l
  <2> HIDE DEF l
  <2>1. ASSUME NEW end, Len(Layout(end, type)) = l
        PROVE  /\ SizeofStruct(end, type) \in {l, l + 1}
               /\ type # "DATA_REP" => SizeofStruct(end, type) = l
    <3>1. CASE type = "DATA_REP" /\ InCpp(end)
      BY <1>2, <2>1, <3>1 DEF SizeofStruct
    <3>2. CASE ~(type = "DATA_REP" /\ InCpp(end))
      <4>1. SizeofStruct(end, type) = l + 0
        BY <2>1, <3>2, Zenon DEF SizeofStruct
      <4> QED
        BY <1>2, <3>2, <4>1
    <3> QED
      BY <3>1, <3>2
  <2> QED
    BY <1>2, <2>1 DEF l
<1> HIDE DEF l
<1>5. ASSUME NEW a \in {6, 8}, NEW b \in {l, l + 1}, NEW c \in {l, l + 1},
             type # "DATA_REP" => b = l /\ c = l
      PROVE  /\ a + b + Carried \in Nat /\ a + b + Carried >= 6 + l + Carried /\ a + b + Carried >= 6
             /\ Carried \in Nat /\ c \in Nat
             /\ type # "DATA_REP" \/ rays > 0 => a + b + Carried >= 6 + c
  BY <1>1, <1>2, <1>5
<1> QED
  BY <1>1, <1>3, <1>4, <1>5 DEF l

\* A message has a header at least.
LEMMA FilledIsThere == ASSUME OnTheWire PROVE Filled(sender, type, Carried) # << >>
<1> DEFINE size == SizeofHeader(sender) + SizeofStruct(sender, type) + Carried
<1>1. size \in Nat /\ size >= 6
  BY Sizes
<1>2. 0 \in DOMAIN Filled(sender, type, Carried)
  <2> HIDE DEF size
  <2>1. 0 \in 0 .. size - 1
    BY <1>1
  <2> QED
    BY <2>1 DEF Filled, size
<1> QED
  BY <1>2

\* The receiver finds everything in h, and looks nowhere else.
Faithful(h) ==
  /\ h.type = type /\ h.seq_n = "seq_n"
  /\ h.capacity >= Cardinality(DOMAIN wire)
  /\ \A f \in DOMAIN h.fields : h.fields[f] = f
  /\ h.data = IF type = "DATA_REP" THEN [n \in 1 .. rays |-> <<"ray", n - 1>>] ELSE << >>
  /\ (type # "DATA_REP" \/ rays > 0) => h.copied \subseteq DOMAIN wire

\* It does so in a message that was filled by the other end's declarations.
LEMMA ReadWell == ASSUME OnTheWire, wire # << >> PROVE Faithful(Read(receiver))
<1> DEFINE h == Read(receiver)
<1> DEFINE names == Layout(sender, type)
           l == Len(names)
           size == SizeofHeader(sender) + SizeofStruct(sender, type) + Carried
<1>1. wire = Filled(sender, type, Carried)
  BY DEF OnTheWire
<1>2. /\ Layout(receiver, type) = names /\ l \in Nat /\ DOMAIN names = 1 .. l
      /\ type = "DATA_REP" => l = 3
      /\ \A n, m \in 1 .. l : names[n] = names[m] => n = m
  BY SameLayout
<1>3. rays \in Nat /\ Carried \in Nat
  BY DEF OnTheWire, Carried
<1> HIDE DEF names
<1>4. /\ size \in Nat /\ size >= 6 + l + Carried
      /\ type # "DATA_REP" => size >= 6 + SizeofStruct(receiver, type)
      /\ type = "DATA_REP" /\ rays > 0 => size >= 6 + SizeofStruct(receiver, type)
      /\ SizeofStruct(receiver, type) \in Nat
  BY Sizes DEF names
<1> HIDE DEF size, l
<1>5. /\ DOMAIN wire = 0 .. size - 1
      /\ wire[0] = "seq_n" /\ wire[2] = Code(type) /\ wire[4] = size
      /\ \A n \in 1 .. l : wire[5 + n] = names[n]
      /\ \A n \in 1 .. Carried : wire[5 + l + n] = <<"ray", n - 1>>
  <2> DEFINE At(k) == CASE k = 0 -> "seq_n"
                        [] k = 2 -> Code(type)
                        [] k = 4 -> size
                        [] k \in {1, 3, 5} -> 0
                        [] k \in 6 .. 6 + l - 1 -> names[k - 6 + 1]
                        [] k \in 6 + l .. 6 + l + Carried - 1 -> <<"ray", k - (6 + l)>>
                        [] OTHER -> "unwritten"
  <2>1. wire = [k \in 0 .. size - 1 |-> At(k)]
    BY <1>1 DEF Filled, DataAt, names, size, l
  <2>2. At(0) = "seq_n" /\ At(2) = Code(type) /\ At(4) = size
    <3>1. \A k \in {0, 2, 4} : k \notin {1, 3, 5} /\ k \notin 6 .. 6 + l - 1 /\ k \notin 6 + l .. 6 + l + Carried - 1
      BY <1>2, <1>3
    <3> QED
      BY <3>1
  <2>3. ASSUME NEW n \in 1 .. l
        PROVE  5 + n \in 0 .. size - 1 /\ At(5 + n) = names[n]
    <3>1. /\ 5 + n \in 6 .. 6 + l - 1 /\ 5 + n \in 0 .. size - 1 /\ (5 + n) - 6 + 1 = n
          /\ 5 + n \notin {0, 1, 2, 3, 4, 5} /\ 5 + n \notin 6 + l .. 6 + l + Carried - 1
      BY <1>2, <1>3, <1>4
    <3> QED
      BY <3>1
  <2>4. ASSUME NEW n \in 1 .. Carried
        PROVE  5 + l + n \in 0 .. size - 1 /\ At(5 + l + n) = <<"ray", n - 1>>
    <3>1. /\ 5 + l + n \in 6 + l .. 6 + l + Carried - 1 /\ 5 + l + n \in 0 .. size - 1
          /\ (5 + l + n) - (6 + l) = n - 1
          /\ 5 + l + n \notin {0, 1, 2, 3, 4, 5} /\ 5 + l + n \notin 6 .. 6 + l - 1
      BY <1>2, <1>3, <1>4
    <3> QED
      BY <3>1
  <2> HIDE DEF At
  <2>5. 0 \in 0 .. size - 1 /\ 2 \in 0 .. size - 1 /\ 4 \in 0 .. size - 1
    BY <1>2, <1>3, <1>4
  <2> QED
    BY <2>1, <2>2, <2>3, <2>4, <2>5
<1>6. (CHOOSE u \in Types(sender) : Code(u) = wire[2]) = type
  BY <1>5, TypeByCode
<1>7. /\ h.type = type /\ h.seq_n = wire[0] /\ h.capacity = wire[4]
      /\ h.fields = [f \in {names[n] : n \in DOMAIN names} |->
                           wire[6 - 1 + CHOOSE n \in DOMAIN names : names[n] = f]]
      /\ h.copied = 6 .. 6 + SizeofStruct(receiver, type) - 1
      /\ h.data = IF type # "DATA_REP" THEN << >>
                      ELSE [n \in 1 .. rays |-> wire[6 - 1 + l + n]]
  <2> DEFINE ReadAs(t, ns) ==
               [seq_n    |-> wire[0],
                type     |-> t,
                capacity |-> wire[4],
                fields   |-> [f \in {ns[n] : n \in DOMAIN ns} |->
                                wire[6 - 1 + CHOOSE n \in DOMAIN ns : ns[n] = f]],
                copied   |-> 6 .. 6 + SizeofStruct(receiver, t) - 1,
                data     |-> IF t # "DATA_REP" THEN << >>
                             ELSE [n \in 1 .. rays |-> wire[6 - 1 + Len(ns) + n]]]
             u == CHOOSE v \in Types(sender) : Code(v) = wire[2]
  <2>1. Read(receiver) = ReadAs(u, Layout(receiver, u))
    BY Zenon DEF Read, DataAt
  <2>2. ReadAs(u, Layout(receiver, u)) = ReadAs(type, names)
    <3>1. u = type
      BY <1>6
    <3> HIDE DEF ReadAs, u
    <3> QED
      BY <1>2, <3>1
  <2>3. h = ReadAs(type, names)
    BY <2>1, <2>2
  <2> HIDE DEF h
  <2> QED
    BY <2>3 DEF l
<1>8. h.capacity >= Cardinality(DOMAIN wire)
  <2>1. Cardinality(0 .. size - 1) = size
    BY <1>4, FS_Interval
  <2>2. h.capacity = size /\ DOMAIN wire = 0 .. size - 1
    BY <1>5, <1>7
  <2> HIDE DEF h
  <2> QED
    BY <1>4, <2>1, <2>2
<1>9. ASSUME NEW f \in DOMAIN h.fields
      PROVE  h.fields[f] = f
  <2>1. PICK n \in 1 .. l : names[n] = f
    BY <1>2, <1>7
  <2>2. (CHOOSE m \in DOMAIN names : names[m] = f) = n
    BY <1>2, <2>1
  <2>3. h.fields[f] = wire[6 - 1 + n]
    BY <1>7, <2>2
  <2>4. 6 - 1 + n = 5 + n
    BY <1>2
  <2> QED
    BY <1>5, <2>1, <2>3, <2>4
<1>10. h.data = IF type = "DATA_REP" THEN [n \in 1 .. rays |-> <<"ray", n - 1>>] ELSE << >>
  <2>1. CASE type = "DATA_REP"
    <3>1. Carried = rays
      BY <2>1 DEF Carried
    <3>2. \A n \in 1 .. rays : wire[6 - 1 + l + n] = <<"ray", n - 1>>
      <4> TAKE n \in 1 .. rays
      <4>1. 6 - 1 + l + n = 5 + l + n
        BY <1>2
      <4> QED
        BY <1>5, <3>1, <4>1
    <3> QED
      BY <1>7, <2>1, <3>2
  <2> QED
    BY <1>7, <2>1
<1>11. (type # "DATA_REP" \/ rays > 0) => h.copied \subseteq DOMAIN wire
  BY <1>4, <1>5, <1>7
<1> HIDE DEF h
<1> QED
  BY <1>5, <1>7, <1>8, <1>9, <1>10, <1>11 DEF Faithful, h

\* Nothing is on the wire at the start.
LEMMA WireInitOK == WireInit => WireInv
<1> SUFFICES ASSUME WireInit
             PROVE  WireInv
  OBVIOUS
<1>1. rays \in Nat /\ wire = << >> /\ heard = << >>
  <2>1. rays \in 0 .. MaxRays /\ MaxRays \in Nat
    BY MaxRaysAssumption DEF WireInit
  <2>2. wire = << >> /\ heard = << >>
    BY DEF WireInit
  <2> QED
    BY <2>1, <2>2
<1> QED
  <2>1. OnTheWire
    BY <1>1 DEF WireInit, OnTheWire, Servers, Workers
  <2>2. ReadAsSent
    BY <1>1 DEF ReadAsSent
  <2> QED
    BY <2>1, <2>2 DEF WireInv

\* Each of the twelve messages is filled by its sender's declarations.
LEMMA SendMsgOK == WireInv /\ SendMsg => WireInv'
<1> SUFFICES ASSUME WireInv, SendMsg
             PROVE  WireInv'
  OBVIOUS
<1>1. wire = << >> /\ heard = << >> /\ UNCHANGED <<sender, receiver, type, rays, heard>>
  BY DEF SendMsg, WireInv, OnTheWire
<1>2. wire' = Filled(sender, type, Carried)
  BY DEF SendMsg, Carried, DataInfoRepMsg, DataRepMsg, FinRepMsg, DataInfoReqMsg, DataReqMsg,
         FinMsg, TestInfoReqMsg, TestDataReqMsg, TestFinMsg, CppDataInfoRepMsg, CppDataRepMsg,
         CppFinRepMsg
<1>3. Filled(sender, type, Carried)' = Filled(sender, type, Carried)
  BY <1>1 DEF Filled, Carried, Layout, DataInfoRep, SizeofHeader, SizeofStruct, InCpp, Code
<1>4. Types(sender)' = Types(sender)
  BY <1>1 DEF Types
<1>5. wire' # << >>
  BY <1>2, FilledIsThere DEF WireInv
<1> QED
  BY <1>1, <1>2, <1>3, <1>4, <1>5 DEF WireInv, OnTheWire, ReadAsSent

\* What is heard was sent.
LEMMA RecvMsgOK == WireInv /\ RecvMsg => WireInv'
<1> SUFFICES ASSUME WireInv, RecvMsg
             PROVE  WireInv'
  OBVIOUS
<1>1. wire # << >> /\ heard' = Read(receiver) /\ UNCHANGED <<sender, receiver, type, rays, wire>>
  BY DEF RecvMsg
<1>2. /\ Filled(sender, type, Carried)' = Filled(sender, type, Carried)
      /\ Types(sender)' = Types(sender)
  BY <1>1 DEF Types, Filled, Carried, Layout, DataInfoRep, SizeofHeader, SizeofStruct, InCpp, Code
<1>3. OnTheWire'
  BY <1>1, <1>2 DEF WireInv, OnTheWire
<1>4. Faithful(heard')
  BY <1>1, ReadWell DEF WireInv
<1> QED
  BY <1>1, <1>3, <1>4 DEF WireInv, ReadAsSent, Faithful

\* Whatever is sent is read as it was sent, for any number of rays: the type, the
\* number, every field and every ray, and nothing behind the message's end
\* (trace_streamer.c and trace_mq.cc, whose structures differ).
THEOREM Understood == WireSpec => []ReadAsSent
<1>1. WireInv /\ UNCHANGED wireVars => WireInv'
  <2> SUFFICES ASSUME WireInv, UNCHANGED wireVars
               PROVE  WireInv'
    OBVIOUS
  <2>1. UNCHANGED <<sender, receiver, type, rays, wire, heard>>
    BY DEF wireVars
  <2>2. /\ Filled(sender, type, Carried)' = Filled(sender, type, Carried)
        /\ Types(sender)' = Types(sender)
    BY <2>1 DEF Types, Filled, Carried, Layout, DataInfoRep, SizeofHeader, SizeofStruct, InCpp, Code
  <2> QED
    BY <2>1, <2>2 DEF WireInv, OnTheWire, ReadAsSent
<1>2. WireInv => ReadAsSent
  BY DEF WireInv
<1> QED
  BY <1>1, <1>2, WireInitOK, SendMsgOK, RecvMsgOK, PTL DEF WireSpec, WireNext

-----------------------------------------------------------------------------
(* Images to a viewer.                                                     *)

ImageSet == [seq : Int, rotation : Int, center : Int, uniqueId : Int, itype : Int,
             dims : Shapes, tdata : Seq(Int)]
TableSet == {CreateTImage(image) : image \in ImageSet} \cup {<< >>}

\* What the viewer shows of a published image.
ShownOf(image) == Received(CreateTImage(image))
ShownSet == {ShownOf(image) : image \in ImageSet}

FeedTypeOK ==
  /\ source \in {"worker", "acquisition"} /\ shape \in Shapes
  /\ published \in Seq(ImageSet)
  /\ pipe \in Seq([at : Nat, table : TableSet])
  /\ viewer \in [ndata : Nat, firstMsgId : Int, lastMsgId : Int, lostMsgs : Nat]
  /\ shown \in Seq(ShownSet) /\ taken \in Seq(Nat)

\* Images are of one shape; the acquisition numbers them.
PublishedOK ==
  \A i \in 1 .. Len(published) :
    /\ published[i].dims = shape
    /\ \E width \in {1, 2, 4} : published[i].tdata = Bytes(shape, width)
    /\ source = "acquisition" => published[i].seq = i - 1

\* On the way are tables of published images, in order.
PipeOK ==
  /\ \A i \in 1 .. Len(pipe) :
       pipe[i].at # 0 => /\ pipe[i].at <= Len(published)
                         /\ pipe[i].table = CreateTImage(published[pipe[i].at])
  /\ \A i, j \in 1 .. Len(pipe) :
       i < j /\ pipe[i].at # 0 /\ pipe[j].at # 0 => pipe[i].at < pipe[j].at

\* What was taken was published, in order, and before what is on the way.
TakenOK ==
  /\ \A i \in 1 .. Len(taken) : taken[i] >= 1 /\ taken[i] <= Len(published)
  /\ \A i, j \in 1 .. Len(taken) : i < j => taken[i] < taken[j]
  /\ \A i \in 1 .. Len(taken) : \A j \in 1 .. Len(pipe) :
       pipe[j].at # 0 => taken[i] < pipe[j].at

\* Every image that was taken is shown, unless it has no pixels.
ShownOK ==
  /\ Len(shown) <= Len(taken)
  /\ vstage = "receive" => Len(shown) = Len(taken) /\ viewer.ndata = Len(taken)
  /\ \A i \in 1 .. Len(shown) :
       shown[i] = ShownOf(published[taken[i]]) /\ Volume(shape) # 0

\* The viewer knows the number of the last image and how many it missed.
CountOK ==
  /\ taken = << >> => viewer.lostMsgs = 0
  /\ source = "acquisition" /\ taken # << >> => viewer.lastMsgId = taken[Len(taken)] - 1
  /\ LossIsCounted

FeedInv == FeedTypeOK /\ PublishedOK /\ PipeOK /\ TakenOK /\ ShownOK /\ CountOK

-----------------------------------------------------------------------------
(* The table, and the pixels.                                              *)

\* A field that is not stored has its default value (AddElement, GetField).
LEMMA FieldSurvives ==
  ASSUME NEW image \in ImageSet, NEW f \in DOMAIN Defaults
  PROVE  GetField(CreateTImage(image), f) = image[f]
<1> DEFINE fields == {g \in DOMAIN Defaults : Stored(image, g)} \cup {"dims", "tdata"}
<1>1. CreateTImage(image) = [g \in fields |-> image[g]]
  BY DEF CreateTImage, Restrict
<1>2. DOMAIN Defaults = {"seq", "rotation", "center", "uniqueId", "itype"}
  BY DEF Defaults
<1>3. f \in fields <=> Stored(image, f)
  BY <1>2
<1> HIDE DEF fields
<1>4. CASE f \in fields
  BY <1>1, <1>4 DEF GetField
<1>5. CASE f \notin fields
  <2>1. image[f] = Defaults[f]
    BY <1>3, <1>5 DEF Stored
  <2> QED
    BY <1>1, <1>5, <2>1 DEF GetField
<1> QED
  BY <1>4, <1>5

\* The struct and the vector are always stored.
LEMMA DataSurvive ==
  ASSUME NEW image \in ImageSet
  PROVE  CreateTImage(image).dims = image.dims /\ CreateTImage(image).tdata = image.tdata
<1> DEFINE fields == {g \in DOMAIN Defaults : Stored(image, g)} \cup {"dims", "tdata"}
<1>1. CreateTImage(image) = [g \in fields |-> image[g]] /\ "dims" \in fields /\ "tdata" \in fields
  BY DEF CreateTImage, Restrict
<1> HIDE DEF fields
<1> QED
  BY <1>1

\* The extents of an image, multiplied.
LEMMA VolumeIsNat == ASSUME NEW dims \in Shapes PROVE Volume(dims) \in Nat
<1>1. dims.z \in Nat /\ dims.y \in Nat /\ dims.x \in Nat
  BY FeedAssumption
<1>2. \A a, b \in Nat : a * b \in Nat
  OBVIOUS
<1>3. dims.z * dims.y \in Nat
  BY <1>1, <1>2
<1>4. (dims.z * dims.y) * dims.x \in Nat
  BY <1>1, <1>2, <1>3
<1> QED
  BY <1>4 DEF Volume

\* Division.
LEMMA Quotient ==
  ASSUME NEW n \in Nat, NEW v \in Nat \ {0}
  PROVE  n \div v \in Int /\ n % v \in 0 .. v - 1 /\ n = v * (n \div v) + (n % v)
<1>1. n \in Int /\ v \in Int /\ v > 0
  OBVIOUS
<1>2. n \div v \in Int
  BY <1>1
<1>3. n % v \in 0 .. v - 1
  BY <1>1
<1>4. n = v * (n \div v) + (n % v)
  BY <1>1
<1> QED
  BY <1>2, <1>3, <1>4

\* The width of a pixel is what is left when the vector is divided by the image.
LEMMA Divided ==
  ASSUME NEW v \in Nat \ {0}, NEW w \in Nat
  PROVE  (v * w) \div v = w
<1> DEFINE q == (v * w) \div v
           p == (v * w) % v
<1>1. v * w \in Nat
  OBVIOUS
<1>2. v * w = v * q + p /\ p \in 0 .. v - 1 /\ q \in Int
  BY <1>1, Quotient
<1> HIDE DEF q, p
<1>3. v * (w - q) = p
  BY <1>2
<1>4. w - q \in Int /\ (w - q >= 1 => v * (w - q) >= v) /\ (w - q <= -1 => v * (w - q) <= -v)
  BY <1>2
<1>5. w - q = 0
  BY <1>2, <1>3, <1>4
<1> QED
  BY <1>2, <1>5 DEF q

\* A pixel is made of its own bytes.
LEMMA PixelsOfBytes ==
  ASSUME NEW image \in ImageSet, Volume(image.dims) # 0,
         NEW width \in {1, 2, 4}, image.tdata = Bytes(image.dims, width)
  PROVE  \A k \in DOMAIN ShownOf(image).img : Range(ShownOf(image).img[k]) = {k - 1}
<1> DEFINE v == Volume(image.dims)
           table == CreateTImage(image)
<1>1. v \in Nat \ {0} /\ image.dims \in Shapes
  BY VolumeIsNat DEF ImageSet
<1>2. table.dims = image.dims /\ table.tdata = image.tdata
  BY DataSurvive
<1>4. ShownOf(image).img = Pixels(table, image.dims)
  BY <1>2 DEF ShownOf, Received
<1> HIDE DEF v, table
<1>5. /\ v * width \in Nat /\ Len(table.tdata) = v * width
      /\ \A b \in 1 .. v * width : table.tdata[b] = (b - 1) \div width
  <2>1. v * width \in Nat
    BY <1>1
  <2>2. table.tdata = [b \in 1 .. v * width |-> (b - 1) \div width]
    BY <1>2 DEF Bytes, v
  <2> QED
    BY <2>1, <2>2
<1>6. Len(table.tdata) \div v = width
  BY <1>1, <1>5, Divided
<1>7. Pixels(table, image.dims)
        = [k \in 1 .. v |-> [b \in 1 .. width |-> table.tdata[(k - 1) * width + b]]]
  BY <1>6 DEF Pixels, v
<1>8. ASSUME NEW k \in 1 .. v, NEW b \in 1 .. width
      PROVE  table.tdata[(k - 1) * width + b] = k - 1
  <2>1. (k - 1) * width + b \in 1 .. v * width /\ ((k - 1) * width + b - 1) \div width = k - 1
    <3>1. CASE width = 1
      BY <1>1, <3>1
    <3>2. CASE width = 2
      BY <1>1, <3>2
    <3>3. CASE width = 4
      BY <1>1, <3>3
    <3> QED
      BY <3>1, <3>2, <3>3
  <2> DEFINE at == (k - 1) * width + b
  <2>2. at \in 1 .. v * width /\ (at - 1) \div width = k - 1
    BY <2>1
  <2> HIDE DEF at
  <2>3. table.tdata[at] = k - 1
    BY <1>5, <2>2
  <2> QED
    BY <2>3 DEF at
<1>9. ASSUME NEW k \in 1 .. v
      PROVE  Range([b \in 1 .. width |-> table.tdata[(k - 1) * width + b]]) = {k - 1}
  <2>1. \A b \in 1 .. width : table.tdata[(k - 1) * width + b] = k - 1
    BY <1>8
  <2>2. 1 \in 1 .. width
    OBVIOUS
  <2> QED
    BY <2>1, <2>2 DEF Range
<1> QED
  BY <1>4, <1>7, <1>9

-----------------------------------------------------------------------------
(* One lemma per action.                                                   *)

\* Nothing is published.
LEMMA FeedInitOK == FeedInit => FeedInv
<1> SUFFICES ASSUME FeedInit
             PROVE  FeedInv
  OBVIOUS
<1>1. /\ published = << >> /\ pipe = << >> /\ shown = << >> /\ taken = << >>
      /\ viewer = [ndata |-> 0, firstMsgId |-> 0, lastMsgId |-> 0, lostMsgs |-> 0]
      /\ source \in {"worker", "acquisition"} /\ shape \in Shapes
  BY DEF FeedInit
<1>2. /\ << >> \in Seq(ImageSet) /\ << >> \in Seq([at : Nat, table : TableSet])
      /\ << >> \in Seq(ShownSet) /\ << >> \in Seq(Nat)
  OBVIOUS
<1>3. FeedTypeOK
  BY <1>1, <1>2 DEF FeedTypeOK
<1>4. PublishedOK /\ PipeOK /\ TakenOK /\ ShownOK /\ CountOK
  BY <1>1 DEF PublishedOK, PipeOK, TakenOK, ShownOK, CountOK, LossIsCounted
<1> QED
  BY <1>3, <1>4 DEF FeedInv

\* What is on the way, as a sequence.
LEMMA PipeTyped ==
  ASSUME FeedTypeOK
  PROVE  /\ Len(pipe) \in Nat /\ \A i \in 1 .. Len(pipe) : pipe[i].at \in Nat
         /\ pipe # << >> =>
              /\ Len(pipe) >= 1 /\ Head(pipe) = pipe[1]
              /\ Tail(pipe) \in Seq([at : Nat, table : TableSet])
              /\ Len(Tail(pipe)) = Len(pipe) - 1
              /\ \A j \in 1 .. Len(pipe) - 1 : Tail(pipe)[j] = pipe[j + 1]
<1> DEFINE Messages == [at : Nat, table : TableSet]
<1>1. pipe \in Seq(Messages) /\ \A m \in Messages : m.at \in Nat
  BY DEF FeedTypeOK
<1> HIDE DEF Messages
<1>2. Len(pipe) \in Nat /\ \A i \in 1 .. Len(pipe) : pipe[i] \in Messages
  BY <1>1
<1>3. ASSUME pipe # << >>
      PROVE  /\ Len(pipe) >= 1 /\ Head(pipe) = pipe[1] /\ Tail(pipe) \in Seq(Messages)
             /\ Len(Tail(pipe)) = Len(pipe) - 1
             /\ \A j \in 1 .. Len(pipe) - 1 : Tail(pipe)[j] = pipe[j + 1]
  BY <1>1, <1>3
<1> QED
  BY <1>1, <1>2, <1>3 DEF Messages

\* A message joins the end of what is on the way, or is dropped.
LEMMA Joined ==
  ASSUME FeedTypeOK, NEW m \in [at : Nat, table : TableSet], Transmit(m)
  PROVE  /\ pipe' \in Seq([at : Nat, table : TableSet])
         /\ \A i \in 1 .. Len(pipe') :
              \/ i \in 1 .. Len(pipe) /\ pipe'[i] = pipe[i]
              \/ i = Len(pipe) + 1 /\ pipe'[i] = m
<1> DEFINE Messages == [at : Nat, table : TableSet]
<1>1. pipe \in Seq(Messages) /\ m \in Messages
  BY DEF FeedTypeOK
<1> HIDE DEF Messages
<1>2. CASE pipe' = pipe
  BY <1>1, <1>2 DEF Messages
<1>3. CASE pipe' = Append(pipe, m)
  <2>1. /\ pipe' \in Seq(Messages) /\ Len(pipe') = Len(pipe) + 1 /\ Len(pipe) \in Nat
        /\ pipe'[Len(pipe) + 1] = m
        /\ \A i \in 1 .. Len(pipe) : pipe'[i] = pipe[i]
    BY <1>1, <1>3
  <2> QED
    BY <2>1 DEF Messages
<1> QED
  BY <1>2, <1>3 DEF Transmit

\* Images that were published stay.
LEMMA PublishOK ==
  ASSUME FeedInv, NEW image \in ImageSet, Publish(image), image.dims = shape,
         \E width \in {1, 2, 4} : image.tdata = Bytes(shape, width),
         source = "acquisition" => image.seq = Len(published)
  PROVE  FeedInv'
<1> DEFINE l == Len(published)
           m == [at |-> l + 1, table |-> CreateTImage(image)]
<1>1. /\ published' = Append(published, image) /\ Transmit(m)
      /\ UNCHANGED <<source, shape, vstage, viewer, shown, taken>>
  BY DEF Publish
<1>2. FeedTypeOK
  BY DEF FeedInv
<1>3. /\ l \in Nat /\ published' \in Seq(ImageSet) /\ Len(published') = l + 1
      /\ \A i \in 1 .. l : published'[i] = published[i]
      /\ published'[l + 1] = image
  BY <1>1, <1>2 DEF FeedTypeOK
<1>4. m \in [at : Nat, table : TableSet]
  BY <1>3 DEF TableSet
<1>5. /\ pipe' \in Seq([at : Nat, table : TableSet])
      /\ \A i \in 1 .. Len(pipe') :
           \/ i \in 1 .. Len(pipe) /\ pipe'[i] = pipe[i]
           \/ i = Len(pipe) + 1 /\ pipe'[i] = m
  BY <1>1, <1>2, <1>4, Joined
<1>6. /\ m.at = l + 1 /\ m.table = CreateTImage(image)
      /\ Len(pipe) \in Nat /\ \A i \in 1 .. Len(pipe) : pipe[i].at \in Nat
      /\ Len(taken) \in Nat /\ \A i \in 1 .. Len(taken) : taken[i] \in Nat
      /\ Len(shown) \in Nat
  <2>1. Len(pipe) \in Nat /\ \A i \in 1 .. Len(pipe) : pipe[i].at \in Nat
    BY <1>2, PipeTyped
  <2>2. Len(taken) \in Nat /\ \A i \in 1 .. Len(taken) : taken[i] \in Nat
    BY <1>2 DEF FeedTypeOK
  <2>3. Len(shown) \in Nat
    BY <1>2 DEF FeedTypeOK
  <2> QED
    BY <2>1, <2>2, <2>3
<1> HIDE DEF l, m
<1>7. FeedTypeOK'
  BY <1>1, <1>2, <1>3, <1>5 DEF FeedTypeOK
<1>8. PublishedOK'
  <2> SUFFICES ASSUME NEW i \in 1 .. Len(published')
               PROVE  /\ published'[i].dims = shape
                      /\ \E width \in {1, 2, 4} : published'[i].tdata = Bytes(shape, width)
                      /\ source = "acquisition" => published'[i].seq = i - 1
    BY <1>1 DEF PublishedOK
  <2>1. CASE i \in 1 .. l
    BY <1>3, <2>1 DEF FeedInv, PublishedOK, l
  <2>2. CASE i = l + 1
    BY <1>3, <2>2 DEF l
  <2> QED
    BY <1>3, <2>1, <2>2
<1>9. PipeOK'
  <2>1. ASSUME NEW i \in 1 .. Len(pipe'), pipe'[i].at # 0
        PROVE  /\ pipe'[i].at <= Len(published')
               /\ pipe'[i].table = CreateTImage(published'[pipe'[i].at])
    <3>1. CASE i \in 1 .. Len(pipe) /\ pipe'[i] = pipe[i]
      <4>1. pipe[i].at \in 1 .. l /\ pipe[i].table = CreateTImage(published[pipe[i].at])
        BY <1>3, <1>6, <2>1, <3>1 DEF FeedInv, PipeOK, l
      <4>2. published'[pipe[i].at] = published[pipe[i].at] /\ pipe[i].at <= Len(published')
        BY <1>3, <4>1
      <4> QED
        BY <3>1, <4>1, <4>2
    <3>2. CASE pipe'[i] = m
      BY <1>3, <1>6, <3>2
    <3> QED
      BY <1>5, <3>1, <3>2
  <2>2. ASSUME NEW i \in 1 .. Len(pipe'), NEW j \in 1 .. Len(pipe'),
               i < j, pipe'[i].at # 0, pipe'[j].at # 0
        PROVE  pipe'[i].at < pipe'[j].at
    <3>1. i \in 1 .. Len(pipe) /\ pipe'[i] = pipe[i]
      <4>1. j \in 1 .. Len(pipe) \/ j = Len(pipe) + 1
        BY <1>5, Zenon
      <4>2. i # Len(pipe) + 1
        BY <1>6, <2>2, <4>1
      <4> QED BY <1>5, <4>2, Zenon
    <3>2. CASE j \in 1 .. Len(pipe) /\ pipe'[j] = pipe[j]
      BY <2>2, <3>1, <3>2 DEF FeedInv, PipeOK
    <3>3. CASE pipe'[j] = m
      <4>1. pipe[i].at \in Nat /\ pipe[i].at <= l
        BY <1>6, <2>2, <3>1 DEF FeedInv, PipeOK, l
      <4> QED
        BY <1>3, <1>6, <3>1, <3>3, <4>1
    <3> QED
      BY <1>5, <3>2, <3>3
  <2> QED
    BY <2>1, <2>2 DEF PipeOK
<1>10. TakenOK'
  <2>1. \A i \in 1 .. Len(taken) : taken[i] >= 1 /\ taken[i] <= l /\ taken[i] <= l + 1
    BY <1>3, <1>6 DEF FeedInv, TakenOK, l
  <2>2. ASSUME NEW i \in 1 .. Len(taken), NEW j \in 1 .. Len(pipe'), pipe'[j].at # 0
        PROVE  taken[i] < pipe'[j].at
    <3>1. CASE j \in 1 .. Len(pipe) /\ pipe'[j] = pipe[j]
      BY <2>2, <3>1 DEF FeedInv, TakenOK
    <3>2. CASE pipe'[j] = m
      BY <1>3, <1>6, <2>1, <3>2
    <3> QED
      BY <1>5, <3>1, <3>2
  <2>3. \A i, j \in 1 .. Len(taken) : i < j => taken[i] < taken[j]
    BY DEF FeedInv, TakenOK
  <2> QED
    BY <1>1, <1>3, <2>1, <2>2, <2>3 DEF TakenOK
<1>11. ShownOK'
  <2>1. /\ Len(shown) <= Len(taken)
        /\ vstage = "receive" => Len(shown) = Len(taken) /\ viewer.ndata = Len(taken)
    BY DEF FeedInv, ShownOK
  <2>2. ASSUME NEW i \in 1 .. Len(shown)
        PROVE  shown[i] = ShownOf(published'[taken[i]]) /\ Volume(shape) # 0
    <3>1. i \in 1 .. Len(taken)
      BY <1>6, <2>1
    <3>2. taken[i] \in 1 .. l
      BY <1>3, <1>6, <3>1 DEF FeedInv, TakenOK, l
    <3>3. published'[taken[i]] = published[taken[i]]
      BY <1>3, <3>2
    <3> QED
      BY <3>3 DEF FeedInv, ShownOK
  <2> QED
    BY <1>1, <2>1, <2>2 DEF ShownOK
<1>12. CountOK'
  BY <1>1 DEF FeedInv, CountOK, LossIsCounted
<1> QED
  BY <1>7, <1>8, <1>9, <1>10, <1>11, <1>12 DEF FeedInv

\* The pixels of an image, as bytes.
LEMMA BytesTyped ==
  ASSUME NEW dims \in Shapes, NEW width \in {1, 2, 4}
  PROVE  Bytes(dims, width) \in Seq(Int)
<1>1. Volume(dims) \in Nat
  BY VolumeIsNat
<1> DEFINE v == Volume(dims)
<1> HIDE DEF v
<1>2. v * width \in Nat
  BY <1>1 DEF v
<1>3. \A b \in 1 .. v * width : (b - 1) \div width \in Int
  BY <1>2
<1>4. [b \in 1 .. v * width |-> (b - 1) \div width] \in Seq(Int)
  BY <1>2, <1>3
<1> QED
  BY <1>4 DEF Bytes, v

\* A worker's images have neither number nor type.
LEMMA PublishMsgOK == FeedInv /\ PublishMsg => FeedInv'
<1> SUFFICES ASSUME FeedInv, PublishMsg
             PROVE  FeedInv'
  OBVIOUS
<1>1. source = "worker" /\ Publish(WorkerImage) /\ shape \in Shapes
  BY DEF PublishMsg, FeedInv, FeedTypeOK
<1>2. Bytes(shape, 4) \in Seq(Int)
  BY <1>1, BytesTyped
<1>3. WorkerImage \in ImageSet /\ WorkerImage.dims = shape /\ WorkerImage.tdata = Bytes(shape, 4)
  BY <1>1, <1>2 DEF WorkerImage, ImageSet, IType
<1>4. \E width \in {1, 2, 4} : WorkerImage.tdata = Bytes(shape, width)
  BY <1>3
<1> HIDE DEF WorkerImage
<1>5. source # "acquisition"
  BY <1>1
<1> QED
  BY <1>1, <1>3, <1>4, <1>5, PublishOK

\* The acquisition's images are numbered from 0.
LEMMA PublishFrameOK == FeedInv /\ PublishFrame => FeedInv'
<1> SUFFICES ASSUME FeedInv, PublishFrame
             PROVE  FeedInv'
  OBVIOUS
<1>1. PICK width \in {1, 2}, rotation \in {0, 1} : Publish(AcquisitionImage(width, rotation))
  BY DEF PublishFrame
<1> DEFINE image == AcquisitionImage(width, rotation)
<1>2. shape \in Shapes /\ Len(published) \in Nat /\ width \in {1, 2, 4} /\ shape.x \in Nat
  BY FeedAssumption DEF FeedInv, FeedTypeOK
<1>3. Bytes(shape, width) \in Seq(Int)
  BY <1>2, BytesTyped
<1>4. /\ image \in ImageSet /\ image.dims = shape /\ image.tdata = Bytes(shape, width)
      /\ image.seq = Len(published)
  BY <1>2, <1>3 DEF AcquisitionImage, SeqOfFrames, ImageSet, IType
<1> HIDE DEF image
<1>5. \E w \in {1, 2, 4} : image.tdata = Bytes(shape, w)
  BY <1>2, <1>4
<1>6. Publish(image)
  BY <1>1 DEF image
<1> QED
  BY <1>4, <1>5, <1>6, PublishOK

\* The publisher stops.
LEMMA PublishEndOK == FeedInv /\ PublishEnd => FeedInv'
<1> SUFFICES ASSUME FeedInv, PublishEnd
             PROVE  FeedInv'
  OBVIOUS
<1> DEFINE m == [at |-> 0, table |-> << >>]
<1>1. UNCHANGED <<source, shape, published, vstage, viewer, shown, taken>>
  BY DEF PublishEnd
<1>2. FeedTypeOK
  BY DEF FeedInv
<1>3. /\ Len(pipe) \in Nat /\ pipe' \in Seq([at : Nat, table : TableSet])
      /\ \A i \in 1 .. Len(pipe') :
           pipe'[i].at # 0 => i \in 1 .. Len(pipe) /\ pipe'[i] = pipe[i]
  <2>1. m \in [at : Nat, table : TableSet] /\ m.at = 0
    BY DEF TableSet
  <2>2. Len(pipe) \in Nat
    BY <1>2 DEF FeedTypeOK
  <2>3. CASE Transmit(m)
    <3> HIDE DEF m
    <3> QED
      BY <1>2, <2>1, <2>2, <2>3, Joined
  <2>4. CASE UNCHANGED pipe
    BY <1>2, <2>2, <2>4 DEF FeedTypeOK
  <2> QED
    BY <2>3, <2>4 DEF PublishEnd
<1>4. FeedTypeOK'
  BY <1>1, <1>2, <1>3 DEF FeedTypeOK
<1>5. PipeOK' /\ TakenOK'
  BY <1>1, <1>3 DEF FeedInv, PipeOK, TakenOK
<1>6. PublishedOK' /\ ShownOK' /\ CountOK'
  BY <1>1 DEF FeedInv, PublishedOK, ShownOK, CountOK, LossIsCounted
<1> QED
  BY <1>4, <1>5, <1>6 DEF FeedInv

\* A step that changes nothing of this.
LEMMA SameFeed ==
  ASSUME FeedInv, UNCHANGED <<source, shape, published, pipe, vstage, viewer, shown, taken>>
  PROVE  FeedInv'
<1>1. FeedTypeOK'
  BY DEF FeedInv, FeedTypeOK
<1>2. PublishedOK' /\ PipeOK' /\ TakenOK' /\ ShownOK' /\ CountOK'
  BY DEF FeedInv, PublishedOK, PipeOK, TakenOK, ShownOK, CountOK, LossIsCounted
<1> QED
  BY <1>1, <1>2 DEF FeedInv

\* The head of what is on the way is the oldest that is left, and newer than all
\* that was taken.
LEMMA Oldest ==
  ASSUME FeedInv, pipe # << >>, pipe' = Tail(pipe), Head(pipe).at # 0
  PROVE  LET t == Head(pipe).at IN
         /\ t \in 1 .. Len(published) /\ Head(pipe).table = CreateTImage(published[t])
         /\ \A i \in 1 .. Len(taken) : taken[i] < t
         /\ \A j \in 1 .. Len(pipe') : pipe'[j].at # 0 => t < pipe'[j].at
<1>1. /\ Len(pipe) \in Nat /\ Len(pipe) >= 1 /\ Head(pipe) = pipe[1]
      /\ Len(pipe') = Len(pipe) - 1 /\ \A j \in 1 .. Len(pipe') : pipe'[j] = pipe[j + 1]
      /\ \A i \in 1 .. Len(pipe) : pipe[i].at \in Nat
  BY PipeTyped DEF FeedInv
<1>2. 1 \in 1 .. Len(pipe) /\ pipe[1].at # 0 /\ pipe[1].at \in Nat
  BY <1>1
<1>3. /\ pipe[1].at <= Len(published) /\ pipe[1].table = CreateTImage(published[pipe[1].at])
      /\ Len(published) \in Nat
  BY <1>2 DEF FeedInv, PipeOK, FeedTypeOK
<1>4. \A i \in 1 .. Len(taken) : taken[i] < pipe[1].at
  BY <1>2 DEF FeedInv, TakenOK
<1>5. ASSUME NEW j \in 1 .. Len(pipe'), pipe'[j].at # 0
      PROVE  pipe[1].at < pipe'[j].at
  <2>1. j + 1 \in 1 .. Len(pipe) /\ 1 < j + 1 /\ pipe'[j] = pipe[j + 1]
    BY <1>1
  <2> QED
    BY <1>2, <1>5, <2>1 DEF FeedInv, PipeOK
<1>6. \A j \in 1 .. Len(pipe') : pipe'[j].at # 0 => pipe[1].at < pipe'[j].at
  BY <1>5
<1>7. pipe[1].at \in 1 .. Len(published)
  BY <1>2, <1>3
<1>8. Head(pipe) = pipe[1]
  BY <1>1
<1> QED
  BY <1>3, <1>4, <1>6, <1>7, <1>8, Zenon

\* The rest is on the way still.
LEMMA RestOK ==
  ASSUME FeedInv, pipe # << >>, pipe' = Tail(pipe), UNCHANGED published
  PROVE  /\ PipeOK' /\ pipe' \in Seq([at : Nat, table : TableSet])
         /\ \A i \in 1 .. Len(taken) : \A j \in 1 .. Len(pipe') :
              pipe'[j].at # 0 => taken[i] < pipe'[j].at
<1>1. /\ pipe' \in Seq([at : Nat, table : TableSet]) /\ Len(pipe) \in Nat /\ Len(pipe) >= 1
      /\ Len(pipe') = Len(pipe) - 1 /\ \A j \in 1 .. Len(pipe') : pipe'[j] = pipe[j + 1]
  BY PipeTyped DEF FeedInv
<1>2. \A j \in 1 .. Len(pipe') : j + 1 \in 1 .. Len(pipe) /\ pipe'[j] = pipe[j + 1]
  BY <1>1
<1>3. \A i, j \in 1 .. Len(pipe') : i < j => i + 1 < j + 1
  BY <1>1
<1>4. PipeOK'
  <2>1. ASSUME NEW i \in 1 .. Len(pipe'), pipe'[i].at # 0
        PROVE  /\ pipe'[i].at <= Len(published)
               /\ pipe'[i].table = CreateTImage(published[pipe'[i].at])
    BY <1>2, <2>1 DEF FeedInv, PipeOK
  <2>2. ASSUME NEW i \in 1 .. Len(pipe'), NEW j \in 1 .. Len(pipe'),
               i < j, pipe'[i].at # 0, pipe'[j].at # 0
        PROVE  pipe'[i].at < pipe'[j].at
    BY <1>2, <1>3, <2>2 DEF FeedInv, PipeOK
  <2> QED
    BY <2>1, <2>2 DEF PipeOK
<1>5. ASSUME NEW i \in 1 .. Len(taken), NEW j \in 1 .. Len(pipe'), pipe'[j].at # 0
      PROVE  taken[i] < pipe'[j].at
  BY <1>2, <1>5 DEF FeedInv, TakenOK
<1> QED
  BY <1>1, <1>4, <1>5

\* Between the last image and the next one lie those that were dropped.
LEMMA Gap ==
  ASSUME taken \in Seq(Nat), taken # << >>, NEW t \in Nat, taken' = Append(taken, t),
         \A i \in 1 .. Len(taken) : taken[i] < t,
         \A i, j \in 1 .. Len(taken) : i < j => taken[i] < taken[j]
  PROVE  Cardinality((taken'[1] .. taken'[Len(taken')]) \ Range(taken'))
           = Cardinality((taken[1] .. taken[Len(taken)]) \ Range(taken))
             + (t - taken[Len(taken)] - 1)
<1> DEFINE n == Len(taken)
           a == taken[1]
           b == taken[n]
           S == (a .. b) \ Range(taken)
           T == b + 1 .. t - 1
<1>1. /\ n \in Nat /\ n >= 1 /\ DOMAIN taken = 1 .. n /\ a \in Nat /\ b \in Nat /\ b < t /\ a <= b
      /\ \A i \in 1 .. n : taken[i] \in Nat /\ taken[i] <= b
  <2>1. n \in Nat /\ n >= 1 /\ DOMAIN taken = 1 .. n /\ \A i \in 1 .. n : taken[i] \in Nat
    OBVIOUS
  <2>2. \A i \in 1 .. n : taken[i] <= b
    <3> TAKE i \in 1 .. n
    <3>1. CASE i = n
      BY <2>1, <3>1
    <3>2. CASE i < n
      <4>1. taken[i] < taken[n] /\ taken[i] \in Nat /\ taken[n] \in Nat
        BY <2>1, <3>2
      <4> QED
        BY <4>1
    <3>3. i = n \/ i < n
      <4> HIDE DEF n
      <4> QED
        BY <2>1
    <3> QED
      BY <3>1, <3>2, <3>3, Zenon
  <2> QED
    BY <2>1, <2>2
<1>2. /\ Len(taken') = n + 1 /\ DOMAIN taken' = 1 .. n + 1 /\ taken'[n + 1] = t
      /\ \A i \in 1 .. n : taken'[i] = taken[i]
      /\ taken'[1] = a
  BY <1>1
<1>3. Range(taken') = Range(taken) \cup {t}
  <2>1. Range(taken) = {taken[i] : i \in 1 .. n} /\ Range(taken') = {taken'[i] : i \in 1 .. n + 1}
    BY <1>1, <1>2 DEF Range
  <2>2. \A i \in 1 .. n + 1 : i \in 1 .. n \/ i = n + 1
    BY <1>1
  <2>3. \A i \in 1 .. n : i \in 1 .. n + 1
    BY <1>1
  <2>4. n + 1 \in 1 .. n + 1
    BY <1>1
  <2> HIDE DEF n
  <2> QED
    BY <1>2, <2>1, <2>2, <2>3, <2>4
<1>4. \A x \in Range(taken) : x \in Nat /\ x <= b
  BY <1>1 DEF Range
<1> HIDE DEF n, a, b
<1>5. (a .. t) \ (Range(taken) \cup {t}) = S \cup T /\ S \cap T = {}
  BY <1>1, <1>4
<1>6. /\ IsFiniteSet(S) /\ IsFiniteSet(T) /\ Cardinality(T) = t - b - 1
      /\ Cardinality(S) \in Nat
  <2>1. IsFiniteSet(a .. b) /\ IsFiniteSet(T)
    <3>1. a \in Int /\ b \in Int /\ b + 1 \in Int /\ t - 1 \in Int
      BY <1>1
    <3> QED
      BY <3>1, FS_Interval
  <2>2. Cardinality(T) = t - b - 1
    <3>1. Cardinality(T) = IF b + 1 > t - 1 THEN 0 ELSE (t - 1) - (b + 1) + 1
      BY <1>1, FS_Interval
    <3> QED
      BY <1>1, <3>1
  <2>3. IsFiniteSet(S)
    BY <2>1, FS_Subset
  <2> QED
    BY <2>1, <2>2, <2>3, FS_CardinalityType
<1>7. Cardinality(S \cup T) = Cardinality(S) + (t - b - 1)
  <2>1. Cardinality(S \cup T) = Cardinality(S) + Cardinality(T) - Cardinality(S \cap T)
    BY <1>6, FS_Union
  <2>2. Cardinality(S \cap T) = 0
    BY <1>5, FS_EmptySet
  <2> HIDE DEF S, T
  <2> QED
    BY <1>1, <1>6, <2>1, <2>2
<1> QED
  BY <1>2, <1>3, <1>5, <1>7 DEF n, a, b

\* The counters after message number id.
LEMMA CountedTyped ==
  ASSUME FeedTypeOK, NEW id \in Int
  PROVE  /\ Counted(viewer, id) \in [ndata : Nat, firstMsgId : Int, lastMsgId : Int, lostMsgs : Nat]
         /\ Counted(viewer, id).ndata = viewer.ndata + 1
         /\ Counted(viewer, id).lastMsgId = id
         /\ viewer.ndata = 0 => Counted(viewer, id).lostMsgs = viewer.lostMsgs
         /\ viewer.ndata # 0 /\ id - viewer.lastMsgId - 1 >= 0 =>
              Counted(viewer, id).lostMsgs = viewer.lostMsgs + (id - viewer.lastMsgId - 1)
<1> DEFINE diff == id - viewer.lastMsgId - 1
           more == IF diff > 0 THEN diff ELSE 0
<1>1. viewer \in [ndata : Nat, firstMsgId : Int, lastMsgId : Int, lostMsgs : Nat]
  BY DEF FeedTypeOK
<1>2. /\ viewer.ndata \in Nat /\ viewer.firstMsgId \in Int /\ viewer.lastMsgId \in Int
      /\ viewer.lostMsgs \in Nat
  BY <1>1
<1>3. more \in Nat /\ (diff >= 0 => more = diff)
  BY <1>2
<1>4. CASE viewer.ndata = 0
  <2>1. Counted(viewer, id) = [ndata |-> viewer.ndata + 1, firstMsgId |-> id, lastMsgId |-> id,
                               lostMsgs |-> viewer.lostMsgs]
    BY <1>2, <1>4 DEF Counted
  <2> QED
    BY <1>2, <1>4, <2>1
<1>5. CASE viewer.ndata # 0
  <2>1. Counted(viewer, id) = [viewer EXCEPT !.ndata = viewer.ndata + 1, !.lastMsgId = id,
                                             !.lostMsgs = viewer.lostMsgs + more]
    BY <1>2, <1>5 DEF Counted
  <2> DEFINE c == Counted(viewer, id)
             lost == viewer.lostMsgs + more
  <2>2. lost \in Nat /\ (diff >= 0 => lost = viewer.lostMsgs + diff) /\ viewer.ndata + 1 \in Nat
    BY <1>2, <1>3
  <2> HIDE DEF more, lost, c, diff
  <2>3. c = [viewer EXCEPT !.ndata = viewer.ndata + 1, !.lastMsgId = id, !.lostMsgs = lost]
    BY <2>1 DEF c, lost
  <2>4. /\ c \in [ndata : Nat, firstMsgId : Int, lastMsgId : Int, lostMsgs : Nat]
        /\ c.ndata = viewer.ndata + 1 /\ c.lastMsgId = id /\ c.lostMsgs = lost
    BY <1>1, <2>2, <2>3
  <2> QED
    BY <1>5, <2>2, <2>4 DEF c, diff
<1> QED
  BY <1>4, <1>5

\* The viewer counts what it takes, and shows it.
LEMMA TakeOK ==
  ASSUME FeedInv, Receive, Head(pipe).at # 0
  PROVE  FeedInv'
<1> DEFINE m == Head(pipe)
           t == m.at
           image == published[t]
           l == Len(taken)
<1>1. /\ vstage = "receive" /\ pipe # << >> /\ pipe' = Tail(pipe)
      /\ viewer' = Counted(viewer, GetField(m.table, "seq"))
      /\ taken' = Append(taken, t)
      /\ IF Volume(m.table.dims) = 0 THEN vstage' = "raised" /\ UNCHANGED shown
                                     ELSE shown' = Append(shown, Received(m.table)) /\ UNCHANGED vstage
      /\ UNCHANGED <<source, shape, published>>
  BY DEF Receive
<1>2. FeedTypeOK
  BY DEF FeedInv
<1>3. /\ t \in 1 .. Len(published) /\ m.table = CreateTImage(image)
      /\ \A i \in 1 .. l : taken[i] < t
      /\ \A j \in 1 .. Len(pipe') : pipe'[j].at # 0 => t < pipe'[j].at
  BY <1>1, Oldest
<1>4. /\ image \in ImageSet /\ image.dims = shape /\ t \in Nat /\ image.seq \in Int
      /\ source = "acquisition" => image.seq = t - 1
  <2>1. image \in ImageSet /\ t \in Nat
    BY <1>2, <1>3 DEF FeedTypeOK
  <2>2. image.dims = shape /\ (source = "acquisition" => image.seq = t - 1)
    BY <1>3 DEF FeedInv, PublishedOK
  <2> QED
    BY <2>1, <2>2 DEF ImageSet
<1>5. GetField(m.table, "seq") = image.seq /\ m.table.dims = shape
  <2>1. "seq" \in DOMAIN Defaults
    BY DEF Defaults
  <2> QED
    BY <1>3, <1>4, <2>1, FieldSurvives, DataSurvive
<1>6. /\ l \in Nat /\ taken' \in Seq(Nat) /\ Len(taken') = l + 1
      /\ \A i \in 1 .. l : taken'[i] = taken[i]
      /\ taken'[l + 1] = t /\ taken' # << >>
      /\ \A i \in 1 .. l : taken[i] \in Nat
  <2>1. taken \in Seq(Nat)
    BY <1>2 DEF FeedTypeOK
  <2> HIDE DEF t
  <2> QED
    BY <1>1, <1>4, <2>1
<1>7. /\ PipeOK' /\ pipe' \in Seq([at : Nat, table : TableSet])
      /\ \A i \in 1 .. Len(taken) : \A j \in 1 .. Len(pipe') :
           pipe'[j].at # 0 => taken[i] < pipe'[j].at
  BY <1>1, RestOK
<1>8. viewer.ndata = l /\ Len(shown) = l
  BY <1>1 DEF FeedInv, ShownOK
<1>9. /\ viewer' \in [ndata : Nat, firstMsgId : Int, lastMsgId : Int, lostMsgs : Nat]
      /\ viewer'.ndata = l + 1 /\ viewer'.lastMsgId = image.seq
      /\ l = 0 => viewer'.lostMsgs = viewer.lostMsgs
      /\ l # 0 /\ image.seq - viewer.lastMsgId - 1 >= 0 =>
           viewer'.lostMsgs = viewer.lostMsgs + (image.seq - viewer.lastMsgId - 1)
  BY <1>1, <1>2, <1>4, <1>5, <1>8, CountedTyped
<1>10. IF Volume(shape) = 0 THEN vstage' = "raised" /\ shown' = shown
                            ELSE shown' = Append(shown, ShownOf(image)) /\ vstage' = vstage
  BY <1>1, <1>3, <1>5 DEF ShownOf
<1> HIDE DEF m, t, image, l
<1>11. ShownOf(image) \in ShownSet /\ shown \in Seq(ShownSet)
  BY <1>2, <1>4 DEF ShownSet, FeedTypeOK
<1>12. FeedTypeOK'
  <2>1. shown' \in Seq(ShownSet)
    BY <1>10, <1>11
  <2> QED
    BY <1>1, <1>2, <1>6, <1>7, <1>9, <2>1 DEF FeedTypeOK
<1>13. PublishedOK'
  BY <1>1 DEF FeedInv, PublishedOK
<1>14. TakenOK'
  <2>1. ASSUME NEW i \in 1 .. Len(taken')
        PROVE  \/ i \in 1 .. l /\ taken'[i] = taken[i]
               \/ i = l + 1 /\ taken'[i] = t
    <3>1. i \in 1 .. l \/ i = l + 1
      BY <1>6
    <3> QED
      BY <1>6, <3>1, Zenon
  <2>2. ASSUME NEW i \in 1 .. Len(taken')
        PROVE  taken'[i] >= 1 /\ taken'[i] <= Len(published)
    <3>1. t >= 1 /\ t <= Len(published)
      BY <1>3, <1>4
    <3>2. CASE i \in 1 .. l /\ taken'[i] = taken[i]
      BY <3>2 DEF FeedInv, TakenOK, l
    <3> QED
      BY <2>1, <3>1, <3>2
  <2>3. ASSUME NEW i \in 1 .. Len(taken'), NEW j \in 1 .. Len(taken'), i < j
        PROVE  taken'[i] < taken'[j]
    <3>1. i \in 1 .. l /\ taken'[i] = taken[i]
      BY <1>6, <2>1, <2>3
    <3>2. CASE j \in 1 .. l /\ taken'[j] = taken[j]
      BY <2>3, <3>1, <3>2 DEF FeedInv, TakenOK, l
    <3>3. CASE taken'[j] = t
      BY <1>3, <3>1, <3>3
    <3> QED
      BY <2>1, <3>2, <3>3
  <2>4. ASSUME NEW i \in 1 .. Len(taken'), NEW j \in 1 .. Len(pipe'), pipe'[j].at # 0
        PROVE  taken'[i] < pipe'[j].at
    <3>1. CASE i \in 1 .. l /\ taken'[i] = taken[i]
      BY <1>7, <2>4, <3>1 DEF l
    <3>2. CASE taken'[i] = t
      BY <1>3, <2>4, <3>2
    <3> QED
      BY <2>1, <3>1, <3>2
  <2> QED
    BY <1>1, <2>2, <2>3, <2>4 DEF TakenOK
<1>15. ShownOK'
  <2>1. \A i \in 1 .. l : shown[i] = ShownOf(published[taken[i]]) /\ Volume(shape) # 0
    BY <1>8 DEF FeedInv, ShownOK
  <2>2. CASE Volume(shape) = 0
    <3>1. Len(shown') = l /\ l <= l + 1 /\ vstage' # "receive"
      BY <1>6, <1>8, <1>10, <2>2
    <3>2. \A i \in 1 .. l : shown'[i] = ShownOf(published[taken'[i]])
      BY <1>6, <1>10, <2>1, <2>2
    <3> QED
      BY <1>1, <1>6, <2>1, <3>1, <3>2 DEF ShownOK
  <2>3. CASE Volume(shape) # 0
    <3>1. /\ Len(shown') = l + 1 /\ \A i \in 1 .. l : shown'[i] = shown[i]
          /\ shown'[l + 1] = ShownOf(image)
      <4>1. shown' = Append(shown, ShownOf(image)) /\ Len(shown) = l
        BY <1>8, <1>10, <2>3
      <4> QED
        BY <1>11, <4>1
    <3>2. ASSUME NEW i \in 1 .. l + 1
          PROVE  shown'[i] = ShownOf(published[taken'[i]])
      <4>1. CASE i \in 1 .. l
        BY <1>6, <2>1, <3>1, <4>1
      <4>2. CASE i = l + 1
        BY <1>6, <3>1, <4>2 DEF image
      <4> QED
        BY <1>6, <4>1, <4>2
    <3>3. Len(shown') <= Len(taken') /\ Len(shown') = Len(taken') /\ viewer'.ndata = Len(taken')
      BY <1>6, <1>9, <3>1
    <3> QED
      BY <1>1, <2>3, <3>1, <3>2, <3>3 DEF ShownOK
  <2> QED
    BY <2>2, <2>3
<1>16. CountOK'
  <2> SUFFICES ASSUME source = "acquisition"
               PROVE  /\ viewer'.lastMsgId = taken'[Len(taken')] - 1
                      /\ viewer'.lostMsgs
                           = Cardinality((taken'[1] .. taken'[Len(taken')]) \ Range(taken'))
    BY <1>1, <1>6 DEF CountOK, LossIsCounted
  <2>1. image.seq = t - 1
    BY <1>4
  <2>2. viewer'.lastMsgId = taken'[Len(taken')] - 1
    BY <1>6, <1>9, <2>1
  <2>3. CASE l = 0
    <3>1. taken = << >> /\ viewer.lostMsgs = 0
      BY <1>2, <2>3 DEF FeedInv, FeedTypeOK, CountOK, l
    <3>2. taken' = <<t>>
      BY <1>1, <3>1 DEF t, m
    <3>3. taken'[1] = t /\ taken'[Len(taken')] = t /\ Range(taken') = {t}
      BY <3>2 DEF Range
    <3>4. (t .. t) \ {t} = {}
      BY <1>4
    <3>5. Cardinality((taken'[1] .. taken'[Len(taken')]) \ Range(taken')) = 0
      BY <3>3, <3>4, FS_EmptySet
    <3> QED
      BY <1>9, <2>2, <2>3, <3>1, <3>5
  <2>4. CASE l # 0
    <3>1. taken # << >> /\ taken \in Seq(Nat)
      BY <1>2, <2>4 DEF FeedTypeOK, l
    <3>2. /\ viewer.lastMsgId = taken[l] - 1
          /\ viewer.lostMsgs = Cardinality((taken[1] .. taken[l]) \ Range(taken))
      BY <3>1 DEF FeedInv, CountOK, LossIsCounted, l
    <3>3. taken[l] \in Nat /\ taken[l] < t
      BY <1>3, <1>6, <2>4
    <3>4. image.seq - viewer.lastMsgId - 1 = t - taken[l] - 1 /\ image.seq - viewer.lastMsgId - 1 >= 0
      BY <1>4, <2>1, <3>2, <3>3
    <3>5. viewer'.lostMsgs = viewer.lostMsgs + (t - taken[l] - 1)
      BY <1>9, <2>4, <3>4
    <3>6. Cardinality((taken'[1] .. taken'[Len(taken')]) \ Range(taken'))
            = Cardinality((taken[1] .. taken[l]) \ Range(taken)) + (t - taken[l] - 1)
      <4>1. /\ taken' = Append(taken, t) /\ t \in Nat
            /\ \A i \in 1 .. Len(taken) : taken[i] < t
            /\ \A i, j \in 1 .. Len(taken) : i < j => taken[i] < taken[j]
        BY <1>1, <1>3, <1>4 DEF FeedInv, TakenOK, l, t, m
      <4> QED
        BY <3>1, <4>1, Gap DEF l
    <3> QED
      BY <2>2, <3>2, <3>5, <3>6
  <2> QED
    BY <2>3, <2>4
<1> QED
  BY <1>7, <1>12, <1>13, <1>14, <1>15, <1>16 DEF FeedInv

\* end_data ends it.
LEMMA EndOK ==
  ASSUME FeedInv, Receive, Head(pipe).at = 0
  PROVE  FeedInv'
<1>1. /\ pipe # << >> /\ pipe' = Tail(pipe) /\ vstage' = "end"
      /\ viewer' = [viewer EXCEPT !.ndata = viewer.ndata + 1]
      /\ UNCHANGED <<source, shape, published, shown, taken>>
  BY DEF Receive
<1>2. FeedTypeOK
  BY DEF FeedInv
<1>3. /\ PipeOK' /\ pipe' \in Seq([at : Nat, table : TableSet])
      /\ \A i \in 1 .. Len(taken) : \A j \in 1 .. Len(pipe') :
           pipe'[j].at # 0 => taken[i] < pipe'[j].at
  BY <1>1, RestOK
<1>4. /\ viewer' \in [ndata : Nat, firstMsgId : Int, lastMsgId : Int, lostMsgs : Nat]
      /\ viewer'.lostMsgs = viewer.lostMsgs /\ viewer'.lastMsgId = viewer.lastMsgId
  <2>1. /\ viewer \in [ndata : Nat, firstMsgId : Int, lastMsgId : Int, lostMsgs : Nat]
        /\ viewer.ndata + 1 \in Nat
    BY <1>2 DEF FeedTypeOK
  <2> QED
    BY <1>1, <2>1
<1>5. FeedTypeOK'
  BY <1>1, <1>2, <1>3, <1>4 DEF FeedTypeOK
<1>6. PublishedOK'
  BY <1>1 DEF FeedInv, PublishedOK
<1>7. TakenOK'
  BY <1>1, <1>3 DEF FeedInv, TakenOK
<1>8. ShownOK'
  BY <1>1 DEF FeedInv, ShownOK
<1>9. CountOK'
  BY <1>1, <1>4 DEF FeedInv, CountOK, LossIsCounted
<1> QED
  BY <1>3, <1>5, <1>6, <1>7, <1>8, <1>9 DEF FeedInv

\* A timeout ends it as well; it takes nothing, so that nothing counts as lost.
LEMMA TimesOutOK ==
  ASSUME FeedInv, ReceiveTimesOut
  PROVE  FeedInv'
<1>1. /\ vstage' = "raised"
      /\ viewer' = [viewer EXCEPT !.ndata = viewer.ndata + 1]
      /\ UNCHANGED <<source, shape, published, pipe, shown, taken>>
  BY DEF ReceiveTimesOut
<1>2. /\ viewer' \in [ndata : Nat, firstMsgId : Int, lastMsgId : Int, lostMsgs : Nat]
      /\ viewer'.lostMsgs = viewer.lostMsgs /\ viewer'.lastMsgId = viewer.lastMsgId
  <2>1. /\ viewer \in [ndata : Nat, firstMsgId : Int, lastMsgId : Int, lostMsgs : Nat]
        /\ viewer.ndata + 1 \in Nat
    BY DEF FeedInv, FeedTypeOK
  <2> QED
    BY <1>1, <2>1
<1>3. FeedTypeOK'
  BY <1>1, <1>2 DEF FeedInv, FeedTypeOK
<1>4. PublishedOK' /\ PipeOK' /\ TakenOK'
  BY <1>1 DEF FeedInv, PublishedOK, PipeOK, TakenOK
<1>5. ShownOK'
  BY <1>1 DEF FeedInv, ShownOK
<1>6. CountOK'
  BY <1>1, <1>2 DEF FeedInv, CountOK, LossIsCounted
<1> QED
  BY <1>3, <1>4, <1>5, <1>6 DEF FeedInv

-----------------------------------------------------------------------------
\* The inductive invariant of a feed.
THEOREM FeedInvariant == FeedSpec => []FeedInv
<1>1. FeedInv /\ [FeedNext]_feedVars => FeedInv'
  <2> SUFFICES ASSUME FeedInv, [FeedNext]_feedVars
               PROVE  FeedInv'
    OBVIOUS
  <2>1. CASE Receive
    BY <2>1, TakeOK, EndOK
  <2>2. CASE Connect
    <3>1. UNCHANGED <<source, shape, published, pipe, vstage, viewer, shown, taken>>
      BY <2>2 DEF Connect
    <3> QED
      BY <3>1, SameFeed
  <2>3. CASE UNCHANGED feedVars
    <3>1. UNCHANGED <<source, shape, published, pipe, vstage, viewer, shown, taken>>
      BY <2>3 DEF feedVars
    <3> QED
      BY <3>1, SameFeed
  <2> QED
    BY <2>1, <2>2, <2>3, PublishMsgOK, PublishFrameOK, PublishEndOK, TimesOutOK DEF FeedNext
<1> QED
  BY <1>1, FeedInitOK, PTL DEF FeedSpec

\* The viewer shows what was published, every field and every pixel, and in order,
\* whatever was dropped on the way (PublishMsg, test_daq, DAQ.receive).
THEOREM Shown == FeedSpec => []ShownAsPublished
<1>1. FeedInv => ShownAsPublished
  <2> SUFFICES ASSUME FeedInv, NEW i \in DOMAIN shown
               PROVE  LET image == published[taken[i]] IN
                      /\ \A f \in DOMAIN Defaults : shown[i][f] = image[f]
                      /\ \A k \in DOMAIN shown[i].img : Range(shown[i].img[k]) = {k - 1}
                      /\ i > 1 => taken[i] > taken[i - 1]
    BY DEF ShownAsPublished
  <2> DEFINE t == taken[i]
             image == published[t]
  <2>a. shown \in Seq(ShownSet) /\ taken \in Seq(Nat) /\ published \in Seq(ImageSet)
    BY DEF FeedInv, FeedTypeOK
  <2>1. /\ DOMAIN shown = 1 .. Len(shown) /\ Len(shown) \in Nat /\ Len(taken) \in Nat
        /\ \A j \in 1 .. Len(taken) : taken[j] \in Nat
        /\ i \in 1 .. Len(shown) /\ Len(published) \in Nat
    BY <2>a
  <2>2. i \in 1 .. Len(taken)
    BY <2>1 DEF FeedInv, ShownOK
  <2>3. t \in 1 .. Len(published)
    BY <2>1, <2>2 DEF FeedInv, TakenOK
  <2>4. image \in ImageSet /\ image.dims = shape
    <3>1. published[t] \in ImageSet
      BY <2>a, <2>3
    <3>2. published[t].dims = shape
      BY <2>3 DEF FeedInv, PublishedOK
    <3> QED
      BY <3>1, <3>2
  <2>5. shown[i] = ShownOf(image) /\ Volume(image.dims) # 0
    BY <2>1, <2>4 DEF FeedInv, ShownOK
  <2>6. PICK width \in {1, 2, 4} : image.tdata = Bytes(image.dims, width)
    BY <2>3, <2>4 DEF FeedInv, PublishedOK
  <2> HIDE DEF t, image
  <2>7. ASSUME NEW f \in DOMAIN Defaults
        PROVE  shown[i][f] = image[f]
    <3>1. f # "img" /\ f \in DOMAIN Defaults \cup {"img"}
      BY DEF Defaults
    <3>2. shown[i][f] = GetField(CreateTImage(image), f)
      BY <2>5, <3>1 DEF ShownOf, Received
    <3> QED
      BY <2>4, <3>2, FieldSurvives
  <2>8. \A k \in DOMAIN shown[i].img : Range(shown[i].img[k]) = {k - 1}
    BY <2>4, <2>5, <2>6, PixelsOfBytes
  <2>9. ASSUME i > 1
        PROVE  taken[i] > taken[i - 1]
    <3>1. i - 1 \in 1 .. Len(taken) /\ i - 1 < i
      BY <2>1, <2>2, <2>9
    <3>2. taken[i - 1] < taken[i]
      BY <2>2, <3>1 DEF FeedInv, TakenOK
    <3> QED
      BY <2>1, <2>2, <3>1, <3>2
  <2> QED
    BY <2>7, <2>8, <2>9 DEF image, t
<1> QED
  BY <1>1, FeedInvariant, PTL

\* A viewer of an acquisition knows how many images it missed between the first
\* and the last that it got, for any number of them and any high-water mark
\* (DAQ.receive).
THEOREM Losses == FeedSpec => []LossIsCounted
<1>1. FeedInv => LossIsCounted
  BY DEF FeedInv, CountOK
<1> QED
  BY <1>1, FeedInvariant, PTL

-----------------------------------------------------------------------------
(***************************************************************************)
(* The mock acquisition: whatever the order, it is one of the projections  *)
(* of the file, and the data, the angles and the numbers all follow it.    *)
(***************************************************************************)
\* ix has the numbers below n, each of them once.
Permutes(ix, n) == /\ ix \in Seq(Nat) /\ Len(ix) = n
                   /\ Distinct(ix) /\ Range(ix) = 0 .. n - 1

\* Item j of group i, where a group has s items.
LEMMA ItemOfGroup ==
  ASSUME NEW s \in Nat \ {0}, NEW i \in Nat, NEW j \in 0 .. s - 1
  PROVE  /\ i * s + j \in Nat /\ (i * s + j) \div s = i /\ (i * s + j) % s = j
         /\ \A n \in Nat : i < n => i * s + j \in 0 .. n * s - 1
<1>1. PICK x \in Nat : x = i * s + j
  OBVIOUS
<1>2. x \div s \in Nat /\ x % s \in 0 .. s - 1 /\ x = (x \div s) * s + (x % s)
  BY Remainder
<1>3. PICK d, r : d = x \div s /\ r = x % s
  OBVIOUS
<1>4. d \in Nat /\ r \in 0 .. s - 1 /\ r + d * s = j + i * s
  <2>1. d \in Nat /\ r \in 0 .. s - 1 /\ x = d * s + r
    BY <1>2, <1>3
  <2>2. d * s \in Nat /\ i * s \in Nat
    BY <2>1
  <2> QED
    BY <1>1, <2>1, <2>2
<1>5. r = j /\ d = i
  BY <1>4, RemainderUnique
<1>6. ASSUME NEW n \in Nat, i < n
      PROVE  i * s + j \in 0 .. n * s - 1
  <2>1. PICK e \in Nat : n = i + 1 + e
    BY <1>6, n - i - 1 \in Nat
  <2>2. n * s = i * s + s + e * s /\ e * s \in Nat /\ i * s \in Nat
    BY <2>1
  <2> QED
    BY <2>2
<1> QED
  BY <1>1, <1>3, <1>5, <1>6

\* add_indices adds to the table numbers below n that are not in it, and with
\* step 1 all of them.
LEMMA AddIndices ==
  ASSUME NEW n \in Nat, NEW step \in Nat \ {0}, NEW ix \in Seq(Nat)
  PROVE  /\ add_indices(ix, step, n) \in Seq(Nat)
         /\ Distinct(ix) /\ Range(ix) \subseteq 0 .. n - 1 =>
              /\ Distinct(add_indices(ix, step, n))
              /\ Range(add_indices(ix, step, n)) \subseteq 0 .. n - 1
              /\ step = 1 => Range(add_indices(ix, step, n)) = 0 .. n - 1
<1>1. PICK l : l = (n + step - 1) \div step
  OBVIOUS
<1>2. l \in Nat
  <2>1. n + step - 1 \in Nat
    OBVIOUS
  <2> QED
    BY <1>1, <2>1, Remainder
<1>3. PICK q : q = [k \in 1 .. l |-> (k - 1) * step]
  OBVIOUS
<1>4. \A k \in 1 .. l : (k - 1) * step \in Nat
  OBVIOUS
<1>5. q \in Seq(Nat) /\ Len(q) = l /\ DOMAIN q = 1 .. l /\ \A k \in 1 .. l : q[k] = (k - 1) * step
  BY <1>2, <1>3, <1>4
<1>6. Distinct(q)
  <2> SUFFICES ASSUME NEW k \in 1 .. l, NEW h \in 1 .. l, q[k] = q[h]
               PROVE  k = h
    BY <1>5 DEF Distinct
  <2>1. PICK a \in Nat, b \in Nat : a = k - 1 /\ b = h - 1
    OBVIOUS
  <2>2. a * step = b * step
    BY <1>5, <2>1
  <2>3. 0 + a * step = 0 + b * step /\ 0 \in 0 .. step - 1
    BY <2>2
  <2>4. a = b
    BY <2>3, RemainderUnique
  <2> QED
    BY <2>1, <2>4
<1>7. PICK S : S = (0 .. n - 1) \ Range(ix)
  OBVIOUS
<1>8. PICK p : p = Select(q, S)
  OBVIOUS
<1>9. p \in Seq(Nat) /\ Range(p) = Range(q) \cap S /\ Distinct(p)
  BY <1>5, <1>6, <1>8, SelectType, SelectElements
<1>10. add_indices(ix, step, n) = ix \o p
  BY <1>1, <1>3, <1>7, <1>8 DEF add_indices
<1>11. ix \o p \in Seq(Nat) /\ Range(ix \o p) = Range(ix) \cup Range(p)
  BY <1>9, ConcatElements
<1>12. Range(ix) \cap Range(p) = {}
  BY <1>7, <1>9
<1>13. Distinct(ix) => Distinct(ix \o p)
  BY <1>9, <1>12, ConcatDistinct
<1>14. ASSUME step = 1
       PROVE  Range(q) = 0 .. n - 1
  <2>1. l = n
    <3>1. n = n * 1 + 0 /\ 0 \in 0 .. 1 - 1 /\ n + step - 1 = n * 1 + 0
      BY <1>14
    <3> QED
      BY <1>1, <1>14, <3>1, ItemOfGroup
  <2>2. \A k \in 1 .. n : q[k] = k - 1
    BY <1>5, <1>14, <2>1
  <2>3. \A i \in 0 .. n - 1 : i + 1 \in 1 .. n /\ q[i + 1] = i
    BY <2>2
  <2>4. \A i \in 0 .. n - 1 : i \in Range(q)
    BY <1>5, <2>1, <2>3 DEF Range
  <2>5. \A i \in Range(q) : i \in 0 .. n - 1
    BY <1>5, <2>1, <2>2 DEF Range
  <2> QED
    BY <2>4, <2>5
<1> QED
  BY <1>7, <1>9, <1>10, <1>11, <1>13, <1>14

\* What the function in the definition of Halve is.
Halves(f, n) ==
  /\ f[0] = [co |-> n \div 2, ix |-> <<>>]
  /\ \A k \in 1 .. n :
       f[k] = IF f[k - 1].co = 0 THEN f[k - 1]
              ELSE [co |-> f[k - 1].co \div 2, ix |-> add_indices(f[k - 1].ix, f[k - 1].co, n)]

\* Half of a number.
LEMMA Half ==
  ASSUME NEW c \in Nat
  PROVE  c \div 2 \in Nat /\ (c # 0 => c \div 2 <= c - 1) /\ (c \div 2 = 0 <=> c \in {0, 1})
OBVIOUS

\* There is such a function.
LEMMA HalveFunction ==
  ASSUME NEW n \in Nat
  PROVE  \E f : Halves(f, n) /\ Halve(n) = f[n].ix
<1> DEFINE X == [co : Nat, ix : Seq(Nat)]
           x0 == [co |-> n \div 2, ix |-> <<>>]
           Turn(t) == IF t.co = 0 THEN t
                      ELSE [co |-> t.co \div 2, ix |-> add_indices(t.ix, t.co, n)]
           F == [i \in 1 .. n |-> [t \in X |-> Turn(t)]]
           Def(f) == [k \in 0 .. n |->
                        IF k = 0 THEN [co |-> n \div 2, ix |-> <<>>]
                        ELSE IF f[k - 1].co = 0 THEN f[k - 1]
                        ELSE [co |-> f[k - 1].co \div 2,
                              ix |-> add_indices(f[k - 1].ix, f[k - 1].co, n)]]
<1>1. x0 \in X
  BY Half
<1>2. \A t \in X : Turn(t) \in X
  <2> SUFFICES ASSUME NEW t \in X, t.co # 0
               PROVE  [co |-> t.co \div 2, ix |-> add_indices(t.ix, t.co, n)] \in X
    OBVIOUS
  <2>1. t.co \in Nat \ {0} /\ t.ix \in Seq(Nat)
    OBVIOUS
  <2>2. t.co \div 2 \in Nat
    BY <2>1, Half
  <2>3. add_indices(t.ix, t.co, n) \in Seq(Nat)
    BY <2>1, AddIndices
  <2> QED
    BY <2>2, <2>3
<1>3. \A i \in 1 .. n : \A t \in X : F[i][t] = Turn(t)
  OBVIOUS
<1>4. F \in [1 .. n -> [X -> X]]
  <2> HIDE DEF X, Turn
  <2> QED
    BY <1>2
<1> HIDE DEF F, X, x0
<1>5. PICK g \in [0 .. n -> X] : Steps(g, x0, F, n)
  BY <1>1, <1>4, Recursion
<1>6. \A k \in 1 .. n : g[k] = Turn(g[k - 1])
  <2> HIDE DEF Turn
  <2>1. \A k \in 1 .. n : k - 1 \in 0 .. n /\ g[k - 1] \in X
    OBVIOUS
  <2> QED
    BY <1>3, <1>5, <2>1 DEF Steps
<1>7. g = Def(g)
  <2>1. ASSUME NEW k \in 0 .. n
        PROVE  g[k] = Def(g)[k]
    <3>1. CASE k = 0
      BY <1>5, <3>1 DEF Steps, x0
    <3>2. CASE k # 0
      <4>1. k \in 1 .. n
        BY <3>2
      <4>2. g[k] = Turn(g[k - 1])
        BY <1>6, <4>1
      <4>3. Def(g)[k] = Turn(g[k - 1])
        BY <3>2
      <4> QED
        BY <4>2, <4>3
    <3> QED
      BY <3>1, <3>2
  <2>2. g = [k \in 0 .. n |-> g[k]] /\ Def(g) = [k \in 0 .. n |-> Def(g)[k]]
    OBVIOUS
  <2> HIDE DEF Def
  <2> QED
    BY <2>1, <2>2
<1>8. PICK f : f = Def(f) /\ Halve(n) = f[n].ix
  <2>1. Halve(n) = (CHOOSE f : f = Def(f))[n].ix
    BY DEF Halve
  <2>2. (CHOOSE f : f = Def(f)) = Def(CHOOSE f : f = Def(f))
    <3> HIDE DEF Def
    <3> QED
      BY <1>7
  <2> HIDE DEF Def
  <2> QED
    BY <2>1, <2>2
<1>9. \A k \in 0 .. n : f[k] = Def(f)[k]
  BY <1>8
<1>10. f[0] = [co |-> n \div 2, ix |-> <<>>]
  <2>1. 0 \in 0 .. n
    OBVIOUS
  <2>2. Def(f)[0] = [co |-> n \div 2, ix |-> <<>>]
    BY <2>1
  <2> HIDE DEF Def
  <2> QED
    BY <1>9, <2>1, <2>2
<1>11. ASSUME NEW k \in 1 .. n
       PROVE  f[k] = IF f[k - 1].co = 0 THEN f[k - 1]
                     ELSE [co |-> f[k - 1].co \div 2,
                           ix |-> add_indices(f[k - 1].ix, f[k - 1].co, n)]
  <2>1. k \in 0 .. n /\ k # 0
    OBVIOUS
  <2> QED
    BY <1>9, <2>1
<1> QED
  BY <1>8, <1>10, <1>11 DEF Halves

\* Repeated halving reaches every projection once, but for a file of one.
LEMMA HalvePermutes ==
  ASSUME NEW n \in Nat, n # 1
  PROVE  Permutes(Halve(n), n)
<1>1. PICK f : Halves(f, n) /\ Halve(n) = f[n].ix
  BY HalveFunction
<1> DEFINE Good(t, k) ==
             /\ t.co \in Nat /\ (t.co = 0 \/ t.co <= n - k)
             /\ t.ix \in Seq(Nat) /\ Distinct(t.ix) /\ Range(t.ix) \subseteq 0 .. n - 1
             /\ t.co = 0 => Range(t.ix) = 0 .. n - 1
           T == {k \in 0 .. n : Good(f[k], k)}
<1>2. 0 \in T
  <2>1. f[0].co = n \div 2 /\ f[0].ix = <<>>
    BY <1>1 DEF Halves
  <2>2. n \div 2 \in Nat /\ n \div 2 <= n /\ (n \div 2 = 0 => n = 0)
    BY Half
  <2>3. Range(<<>>) = {} /\ Distinct(<<>>) /\ <<>> \in Seq(Nat) /\ (n = 0 => 0 .. n - 1 = {})
    BY DEF Range, Distinct
  <2>5. n \div 2 <= n - 0
    BY <2>2
  <2>6. PICK c, i : c = f[0].co /\ i = f[0].ix
    OBVIOUS
  <2>7. /\ c \in Nat /\ c <= n - 0 /\ i \in Seq(Nat) /\ Distinct(i) /\ Range(i) = {}
        /\ c = 0 => 0 .. n - 1 = {}
    BY <2>1, <2>2, <2>3, <2>5, <2>6
  <2>8. Range(i) \subseteq 0 .. n - 1 /\ (c = 0 => Range(i) = 0 .. n - 1)
    BY <2>7
  <2>4. Good(f[0], 0)
    BY <2>6, <2>7, <2>8
  <2> QED
    BY <2>4
<1>3. ASSUME NEW k \in 0 .. n - 1, k \in T
      PROVE  k + 1 \in T
  <2>1. PICK t : t = f[k]
    OBVIOUS
  <2>2. Good(t, k) /\ k + 1 \in 1 .. n /\ (k + 1) - 1 = k /\ k + 1 \in 0 .. n
    BY <1>3, <2>1
  <2>3. f[k + 1] = IF t.co = 0 THEN t
                   ELSE [co |-> t.co \div 2, ix |-> add_indices(t.ix, t.co, n)]
    <3>1. \A i \in 1 .. n :
            f[i] = IF f[i - 1].co = 0 THEN f[i - 1]
                   ELSE [co |-> f[i - 1].co \div 2, ix |-> add_indices(f[i - 1].ix, f[i - 1].co, n)]
      BY <1>1 DEF Halves
    <3> HIDE DEF Filled
    <3> QED
      BY <2>1, <2>2, <3>1
  <2>4. CASE t.co = 0
    BY <2>2, <2>3, <2>4
  <2>5. CASE t.co # 0
    <3>1. PICK c, i : c = t.co /\ i = t.ix
      OBVIOUS
    <3>2. /\ c \in Nat \ {0} /\ c <= n - k /\ i \in Seq(Nat) /\ Distinct(i)
          /\ Range(i) \subseteq 0 .. n - 1
      BY <2>2, <2>5, <3>1
    <3>3. PICK h, a : h = c \div 2 /\ a = add_indices(i, c, n)
      OBVIOUS
    <3>4. /\ a \in Seq(Nat) /\ Distinct(a) /\ Range(a) \subseteq 0 .. n - 1
          /\ c = 1 => Range(a) = 0 .. n - 1
      BY <3>2, <3>3, AddIndices
    <3>5. h \in Nat /\ h <= c - 1 /\ (h = 0 => c = 1)
      BY <3>2, <3>3, Half
    <3>6. f[k + 1] = [co |-> h, ix |-> a]
      BY <2>3, <2>5, <3>1, <3>3
    <3>7. h <= n - (k + 1)
      BY <3>2, <3>5
    <3>8. Good(f[k + 1], k + 1)
      BY <3>4, <3>5, <3>6, <3>7
    <3> QED
      BY <2>2, <3>8
  <2> QED
    BY <2>4, <2>5
<1>4. n \in T
  <2>1. T \in SUBSET (0 .. n) /\ n \in 0 .. n
    OBVIOUS
  <2> HIDE DEF T
  <2> QED
    BY <1>2, <1>3, <2>1, BoundedInduction
<1>5. /\ Halve(n) \in Seq(Nat) /\ Distinct(Halve(n)) /\ Range(Halve(n)) = 0 .. n - 1
  <2>1. Good(f[n], n)
    BY <1>4
  <2>2. f[n].co = 0
    BY <2>1
  <2> QED
    BY <1>1, <2>1, <2>2
<1>6. Len(Halve(n)) = n
  BY <1>5, PermutationLength
<1> QED
  BY <1>5, <1>6 DEF Permutes

\* The parts of an interleaving: part i has i - 1 and every sets-th after it.
LEMMA InterleavedPermutes ==
  ASSUME NEW n \in Nat, NEW sets \in Nat \ {0}
  PROVE  Permutes(Interleaved(n, sets), n)
<1>1. PICK q, r : q = n \div sets /\ r = n % sets
  OBVIOUS
<1>2. q \in Nat /\ r \in 0 .. sets - 1 /\ n = q * sets + r
  BY <1>1, Remainder
<1> DEFINE part(k) == Subset(n, sets, k - 1)
           ss == [k \in 1 .. sets |-> part(k)]
<1>3. ASSUME NEW k \in 1 .. sets
      PROVE  /\ part(k) \in Seq(Nat)
             /\ \A j \in 1 .. Len(part(k)) : part(k)[j] = k - 1 + (j - 1) * sets
             /\ \A j \in Nat \ {0} : j <= Len(part(k)) <=> k - 1 + (j - 1) * sets < n
  <2>1. PICK l : l = q + (IF k - 1 < r THEN 1 ELSE 0)
    OBVIOUS
  <2>2. l \in Nat /\ (l = q \/ l = q + 1) /\ (l = q + 1 <=> k - 1 < r)
    BY <1>2, <2>1
  <2>3. PICK p : p = [j \in 1 .. l |-> (j - 1) * sets + (k - 1)]
    OBVIOUS
  <2>4. p = part(k)
    BY <1>1, <2>1, <2>3 DEF Subset
  <2>5. \A j \in 1 .. l : /\ (j - 1) * sets + (k - 1) \in Nat
                          /\ (j - 1) * sets + (k - 1) = k - 1 + (j - 1) * sets
    BY <2>2
  <2>6. p \in Seq(Nat) /\ Len(p) = l /\ \A j \in 1 .. l : p[j] = k - 1 + (j - 1) * sets
    BY <2>2, <2>3, <2>5
  <2>7. ASSUME NEW j \in Nat \ {0}
        PROVE  j <= l <=> k - 1 + (j - 1) * sets < n
    <3>1. q * sets \in Nat /\ (j - 1) * sets \in Nat
      BY <1>2
    <3>2. CASE j <= q
      <4>1. PICK d \in Nat : q = (j - 1) + 1 + d
        BY <1>2, <3>2, q - j \in Nat
      <4>2. q * sets = (j - 1) * sets + sets + d * sets /\ d * sets \in Nat
        BY <4>1
      <4> QED
        BY <1>2, <2>2, <3>1, <3>2, <4>2
    <3>3. CASE j = q + 1
      <4>1. (j - 1) * sets = q * sets
        BY <1>2, <3>3
      <4> QED
        BY <1>2, <2>2, <3>1, <3>3, <4>1
    <3>4. CASE j > q + 1
      <4>1. PICK d \in Nat : j - 1 = q + 1 + d
        BY <1>2, <3>4, j - 2 - q \in Nat
      <4>2. (j - 1) * sets = q * sets + sets + d * sets /\ d * sets \in Nat
        BY <1>2, <4>1
      <4> QED
        BY <1>2, <2>2, <3>1, <3>4, <4>2
    <3> QED
      BY <1>2, <3>2, <3>3, <3>4
  <2> HIDE DEF part
  <2> QED
    BY <2>4, <2>6, <2>7
<1> HIDE DEF part
<1>4. ss \in Seq(Seq(Nat)) /\ Len(ss) = sets /\ \A k \in 1 .. sets : ss[k] = part(k)
  BY <1>3
<1>5. Interleaved(n, sets) = FlattenSeq(ss)
  BY DEF Interleaved, part
<1> HIDE DEF ss
<1>6. Strided(ss, sets, n)
  BY <1>3, <1>4 DEF Strided
<1> QED
  BY <1>5, <1>6, StridedFlat DEF Permutes

\* The loop of mock_dacq_interleaved_equally leaves nothing to the memory.
LEMMA EquallyPermutes ==
  ASSUME NEW n \in Nat, n # 1, NEW ix \in Equally(n)
  PROVE  Permutes(ix, n)
<1>1. PICK h : h = Halve(n)
  OBVIOUS
<1>2. h \in Seq(Nat) /\ Len(h) = n /\ Permutes(h, n)
  BY <1>1, HalvePermutes DEF Permutes
<1>3. PICK rest : ix = h \o rest /\ rest \in [1 .. n - Len(h) -> {0, Wild}]
  BY <1>1 DEF Equally
<1>4. n - Len(h) = 0 /\ 1 .. 0 = {}
  BY <1>2
<1>5. rest = <<>>
  <2>1. rest \in [{} -> {0, Wild}]
    BY <1>3, <1>4
  <2>2. <<>> \in [{} -> {0, Wild}]
    OBVIOUS
  <2> QED
    BY <2>1, <2>2
<1>6. h \o <<>> = h
  BY <1>2, ConcatEmptySeq
<1> QED
  BY <1>2, <1>3, <1>5, <1>6

-----------------------------------------------------------------------------
\* A file of n projections with s rows each.
FileOf(n, s) == [n |-> n, sinos |-> s, data |-> [k \in 0 .. n * s - 1 |-> <<k \div s, k % s>>]]

\* What mock_dacq_read returns for projection x of a file with s rows.
Item(x, s) == [id |-> x, theta |-> x, rows |-> [j \in 0 .. s - 1 |-> <<x, j>>]]

\* d is the file in the order of ix, c of its projections read.
Ready(d, c, ix) ==
  /\ Permutes(ix, file.n)
  /\ d = [n |-> file.n, sinos |-> file.sinos, projs |-> d.projs, thetas |-> d.thetas,
          proj_ids |-> d.proj_ids, curr |-> c]
  /\ \A i \in 0 .. file.n - 1 :
       /\ d.proj_ids[i] = ix[i + 1] /\ d.thetas[i] = ix[i + 1]
       /\ \A j \in 0 .. file.sinos - 1 : d.projs[i * file.sinos + j] = <<ix[i + 1], j>>

\* The first items of it have been handed out.
HandingOut(ix) ==
  /\ Ready(dacq, Len(got), ix)
  /\ got \in Seq({Item(x, file.sinos) : x \in Nat}) /\ Len(got) <= file.n
  /\ \A i \in 1 .. Len(got) : got[i] = Item(ix[i], file.sinos)
  /\ mstage = "end" => Len(got) = file.n

MockInv ==
  /\ nsubsets \in Int
  /\ mstage \in {"extract", "setup", "read", "end", "crashed"}
  /\ file # Missing => \E n \in Nat : \E s \in Nat \ {0} : file = FileOf(n, s)
  /\ mstage \in {"extract", "setup"} => got = <<>>
  /\ mstage \in {"read", "end"} /\ file # Missing /\ Ordered => \E ix : HandingOut(ix)

\* The copies of the data, the angles and the numbers follow the same order.
LEMMA ReorganizedReady ==
  ASSUME NEW n \in Nat, NEW s \in Nat \ {0}, file = FileOf(n, s), NEW ix, Permutes(ix, n)
  PROVE  Ready(Reorganized(mock_dacq_file, ix), 0, ix)
<1>1. PICK p : p = [i \in 0 .. n - 1 |-> ix[i + 1]]
  OBVIOUS
<1>2. ASSUME NEW i \in 0 .. n - 1
      PROVE  p[i] = ix[i + 1] /\ p[i] \in 0 .. n - 1
  <2>1. i + 1 \in DOMAIN ix
    BY DEF Permutes
  <2> QED
    BY <1>1, <2>1 DEF Permutes, Range
<1>3. PICK data, ident : /\ data = [k \in 0 .. n * s - 1 |-> <<k \div s, k % s>>]
                         /\ ident = [i \in 0 .. n - 1 |-> i]
  OBVIOUS
<1>4. file.n = n /\ file.sinos = s /\ file.data = data
  BY <1>3 DEF FileOf
<1>5. mock_dacq_file = Dacq(n, s, data, ident, ident)
  BY <1>3, <1>4 DEF mock_dacq_file
<1>6. PICK projs, thetas : /\ projs = mock_gen_interleaved(p, n, s, data)
                           /\ thetas = mock_gen_interleaved(p, n, 1, ident)
  OBVIOUS
<1>7. Reorganized(mock_dacq_file, ix) = Dacq(n, s, projs, thetas, p)
  <2>1. PICK d : d = mock_dacq_file
    OBVIOUS
  <2>2. d.n = n /\ d.sinos = s /\ d.projs = data /\ d.thetas = ident
    BY <1>5, <2>1 DEF Dacq
  <2>3. Reorganized(d, ix) = Dacq(n, s, projs, thetas, p)
    BY <1>1, <1>6, <2>2 DEF Reorganized
  <2> QED
    BY <2>1, <2>3
<1>8. ASSUME NEW i \in 0 .. n - 1, NEW j \in 0 .. s - 1
      PROVE  projs[i * s + j] = <<ix[i + 1], j>>
  <2>1. PICK k : k = i * s + j
    OBVIOUS
  <2>2. k \in 0 .. n * s - 1 /\ k \div s = i /\ k % s = j
    <3>1. i \in Nat /\ i < n
      OBVIOUS
    <3> QED
      BY <2>1, <3>1, ItemOfGroup
  <2>3. PICK x \in 0 .. n - 1 : x = p[i] /\ x = ix[i + 1]
    BY <1>2
  <2>4. x * s + j \in 0 .. n * s - 1 /\ (x * s + j) \div s = x /\ (x * s + j) % s = j
    <3>1. x \in Nat /\ x < n
      OBVIOUS
    <3> QED
      BY <3>1, ItemOfGroup
  <2>5. PICK at : at = x * s + j
    OBVIOUS
  <2>6. at \in DOMAIN data /\ data[at] = <<x, j>>
    BY <1>3, <2>4, <2>5
  <2>7. p[k \div s] * s + (k % s) = at
    BY <2>2, <2>3, <2>5
  <2>8. projs[k] = data[at]
    BY <1>6, <2>2, <2>6, <2>7 DEF mock_gen_interleaved
  <2> QED
    BY <2>1, <2>3, <2>6, <2>8
<1>9. ASSUME NEW i \in 0 .. n - 1
      PROVE  thetas[i] = ix[i + 1]
  <2>1. i \div 1 = i /\ i % 1 = 0 /\ i \in 0 .. n * 1 - 1
    OBVIOUS
  <2>2. PICK x \in 0 .. n - 1 : x = p[i] /\ x = ix[i + 1]
    BY <1>2
  <2>3. p[i \div 1] * 1 + (i % 1) = x
    <3>1. p[i \div 1] = x
      BY <2>1, <2>2
    <3>2. x * 1 + 0 = x
      OBVIOUS
    <3> QED
      BY <2>1, <3>1, <3>2
  <2>4. x \in DOMAIN ident /\ ident[x] = x
    BY <1>3
  <2>5. thetas[i] = ident[x]
    BY <1>6, <2>1, <2>3, <2>4 DEF mock_gen_interleaved
  <2> QED
    BY <2>2, <2>4, <2>5
<1>10. PICK d : d = Reorganized(mock_dacq_file, ix)
  OBVIOUS
<1>11. d = Dacq(n, s, projs, thetas, p) /\ d.projs = projs /\ d.thetas = thetas /\ d.proj_ids = p
  BY <1>7, <1>10 DEF Dacq
<1>12. Ready(d, 0, ix)
  <2>1. d = [n |-> n, sinos |-> s, projs |-> d.projs, thetas |-> d.thetas,
             proj_ids |-> d.proj_ids, curr |-> 0]
    BY <1>11 DEF Dacq
  <2>2. \A i \in 0 .. n - 1 :
          /\ d.proj_ids[i] = ix[i + 1] /\ d.thetas[i] = ix[i + 1]
          /\ \A j \in 0 .. s - 1 : d.projs[i * s + j] = <<ix[i + 1], j>>
    BY <1>2, <1>8, <1>9, <1>11
  <2> QED
    <3>1. Permutes(ix, file.n)
      BY <1>4
    <3>2. d = [n |-> file.n, sinos |-> file.sinos, projs |-> d.projs, thetas |-> d.thetas,
               proj_ids |-> d.proj_ids, curr |-> 0]
      BY <1>4, <2>1
    <3>3. ASSUME NEW i \in 0 .. file.n - 1
          PROVE  /\ d.proj_ids[i] = ix[i + 1] /\ d.thetas[i] = ix[i + 1]
                 /\ \A j \in 0 .. file.sinos - 1 : d.projs[i * file.sinos + j] = <<ix[i + 1], j>>
      <4>1. i \in 0 .. n - 1
        BY <1>4
      <4>2. d.proj_ids[i] = ix[i + 1] /\ d.thetas[i] = ix[i + 1]
        BY <2>2, <4>1
      <4>3. ASSUME NEW j \in 0 .. file.sinos - 1
            PROVE  d.projs[i * file.sinos + j] = <<ix[i + 1], j>>
        <5>1. j \in 0 .. s - 1
          BY <1>4
        <5>2. d.projs[i * s + j] = <<ix[i + 1], j>>
          BY <2>2, <4>1, <5>1
        <5>3. i * file.sinos + j = i * s + j
          BY <1>4
        <5> QED
          BY <5>2, <5>3
      <4> QED
        BY <4>2, <4>3
    <3> QED
      BY <3>1, <3>2, <3>3 DEF Ready
<1> QED
  BY <1>10, <1>12

\* The file as it is, in its own order.
LEMMA FileReady ==
  ASSUME NEW n \in Nat, NEW s \in Nat \ {0}, file = FileOf(n, s)
  PROVE  \E ix : Ready(mock_dacq_file, 0, ix)
<1>1. PICK ix : ix = [i \in 1 .. n |-> i - 1]
  OBVIOUS
<1>2. ix \in Seq(Nat) /\ Len(ix) = n /\ DOMAIN ix = 1 .. n /\ \A i \in 1 .. n : ix[i] = i - 1
  BY <1>1
<1>3. Distinct(ix)
  BY <1>2 DEF Distinct
<1>4. Range(ix) = 0 .. n - 1
  <2>1. \A x \in 0 .. n - 1 : x + 1 \in 1 .. n /\ ix[x + 1] = x
    BY <1>2
  <2>2. \A i \in 1 .. n : ix[i] \in 0 .. n - 1
    BY <1>2
  <2>3. \A x \in 0 .. n - 1 : x \in Range(ix)
    BY <1>2, <2>1 DEF Range
  <2>4. \A x \in Range(ix) : x \in 0 .. n - 1
    BY <1>2, <2>2 DEF Range
  <2> QED
    BY <2>3, <2>4
<1>5. PICK d : d = mock_dacq_file
  OBVIOUS
<1>6. /\ d = [n |-> n, sinos |-> s, projs |-> d.projs, thetas |-> d.thetas,
              proj_ids |-> d.proj_ids, curr |-> 0]
      /\ d.projs = [k \in 0 .. n * s - 1 |-> <<k \div s, k % s>>]
      /\ d.thetas = [i \in 0 .. n - 1 |-> i] /\ d.proj_ids = [i \in 0 .. n - 1 |-> i]
      /\ file.n = n /\ file.sinos = s
  BY <1>5 DEF mock_dacq_file, Dacq, FileOf
<1>7. ASSUME NEW i \in 0 .. file.n - 1
      PROVE  /\ d.proj_ids[i] = ix[i + 1] /\ d.thetas[i] = ix[i + 1]
             /\ \A j \in 0 .. file.sinos - 1 : d.projs[i * file.sinos + j] = <<ix[i + 1], j>>
  <2>1. i \in 0 .. n - 1 /\ i \in Nat /\ i < n
    BY <1>6
  <2>2. ix[i + 1] = i
    BY <1>2, <2>1
  <2>3. d.proj_ids[i] = i /\ d.thetas[i] = i
    BY <1>6, <2>1
  <2>4. ASSUME NEW j \in 0 .. file.sinos - 1
        PROVE  d.projs[i * file.sinos + j] = <<ix[i + 1], j>>
    <3>1. j \in 0 .. s - 1
      BY <1>6
    <3>2. i * s + j \in 0 .. n * s - 1 /\ (i * s + j) \div s = i /\ (i * s + j) % s = j
      BY <2>1, <3>1, ItemOfGroup
    <3>3. PICK k : k = i * s + j
      OBVIOUS
    <3>4. d.projs[k] = <<i, j>>
      BY <1>6, <3>2, <3>3
    <3> QED
      BY <1>6, <2>2, <3>3, <3>4
  <2> QED
    BY <2>2, <2>3, <2>4
<1>8. Permutes(ix, file.n)
  BY <1>2, <1>3, <1>4, <1>6 DEF Permutes
<1>9. d = [n |-> file.n, sinos |-> file.sinos, projs |-> d.projs, thetas |-> d.thetas,
           proj_ids |-> d.proj_ids, curr |-> 0]
  BY <1>6
<1>10. Ready(d, 0, ix)
  BY <1>7, <1>8, <1>9 DEF Ready
<1> QED
  BY <1>5, <1>10

\* Nothing has been handed out.
LEMMA HandingStarts ==
  ASSUME NEW d, NEW ix, Ready(d, 0, ix), NEW n \in Nat, NEW s \in Nat \ {0}, file = FileOf(n, s),
         got = <<>>, mstage = "setup", mstage' = "read", dacq' = d, UNCHANGED <<file, got>>
  PROVE  HandingOut(ix)'
<1>1. Ready(dacq, Len(got), ix)'
  <2>1. Len(got') = 0 /\ dacq' = d /\ file' = file
    OBVIOUS
  <2> QED
    BY <2>1 DEF Ready
<1>2. file.n = n
  BY DEF FileOf
<1>3. /\ (got \in Seq({Item(x, file.sinos) : x \in Nat}) /\ Len(got) <= file.n)'
      /\ (\A i \in 1 .. Len(got) : got[i] = Item(ix[i], file.sinos))'
  BY <1>2
<1> QED
  BY <1>1, <1>3 DEF HandingOut

\* The next projection is handed out.
LEMMA HandsOut ==
  ASSUME NEW n \in Nat, NEW s \in Nat \ {0}, file = FileOf(n, s), NEW ix, HandingOut(ix),
         mstage = "read", MockDacqRead
  PROVE  HandingOut(ix)'
<1>1. PICK c : c = Len(got)
  OBVIOUS
<1>2. file.n = n /\ file.sinos = s
  BY DEF FileOf
<1>3. /\ Permutes(ix, n)
      /\ dacq = [n |-> n, sinos |-> s, projs |-> dacq.projs, thetas |-> dacq.thetas,
                 proj_ids |-> dacq.proj_ids, curr |-> c]
      /\ got \in Seq({Item(x, s) : x \in Nat}) /\ c \in Nat /\ c <= n
      /\ \A i \in 1 .. c : got[i] = Item(ix[i], s)
  BY <1>1, <1>2 DEF HandingOut, Ready
<1>4. dacq.curr = c /\ dacq.n = n /\ dacq.sinos = s
  BY <1>3
<1>5. file' = file
  BY DEF MockDacqRead
<1>6. CASE c = n
  <2>1. mstage' = "end" /\ UNCHANGED <<dacq, got>>
    BY <1>4, <1>6 DEF MockDacqRead
  <2>2. Len(got') = n /\ Len(got') <= n
    BY <1>1, <1>3, <1>6, <2>1
  <2>3. (got \in Seq({Item(x, file.sinos) : x \in Nat}))'
    BY <1>2, <1>3, <1>5, <2>1
  <2>4. (\A i \in 1 .. Len(got) : got[i] = Item(ix[i], file.sinos))'
    BY <1>5, <2>1 DEF HandingOut
  <2>5. Ready(dacq, Len(got), ix)'
    BY <1>5, <2>1 DEF HandingOut, Ready
  <2> QED
    BY <1>2, <1>5, <2>1, <2>2, <2>3, <2>4, <2>5 DEF HandingOut
<1>7. CASE c # n
  <2>1. c \in 0 .. n - 1 /\ c + 1 \in 1 .. n /\ c + 1 \in DOMAIN ix /\ ix[c + 1] \in Nat
    <3>1. c \in 0 .. n - 1 /\ c + 1 \in 1 .. n
      BY <1>3, <1>7
    <3>2. ix \in Seq(Nat) /\ Len(ix) = n
      BY <1>3 DEF Permutes
    <3> QED
      BY <3>1, <3>2
  <2>2. /\ dacq.proj_ids[c] = ix[c + 1] /\ dacq.thetas[c] = ix[c + 1]
        /\ \A j \in 0 .. s - 1 : dacq.projs[c * s + j] = <<ix[c + 1], j>>
    <3>1. c \in 0 .. file.n - 1
      BY <1>2, <2>1
    <3>2. \A i \in 0 .. file.n - 1 :
            /\ dacq.proj_ids[i] = ix[i + 1] /\ dacq.thetas[i] = ix[i + 1]
            /\ \A j \in 0 .. file.sinos - 1 : dacq.projs[i * file.sinos + j] = <<ix[i + 1], j>>
      BY DEF HandingOut, Ready
    <3>3. /\ dacq.proj_ids[c] = ix[c + 1] /\ dacq.thetas[c] = ix[c + 1]
          /\ \A j \in 0 .. file.sinos - 1 : dacq.projs[c * file.sinos + j] = <<ix[c + 1], j>>
      BY <3>1, <3>2
    <3> QED
      BY <1>2, <3>3
  <2>3. PICK r : r = [id |-> dacq.proj_ids[c], theta |-> dacq.thetas[c],
                      rows |-> [j \in 0 .. s - 1 |-> dacq.projs[c * s + j]]]
    OBVIOUS
  <2>4. mstage' = "read" /\ got' = Append(got, r) /\ dacq' = [dacq EXCEPT !.curr = @ + 1]
    BY <1>4, <1>7, <2>3 DEF MockDacqRead
  <2>5. r = Item(ix[c + 1], s)
    BY <2>2, <2>3 DEF Item
  <2>6. dacq' = [n |-> n, sinos |-> s, projs |-> dacq.projs, thetas |-> dacq.thetas,
                 proj_ids |-> dacq.proj_ids, curr |-> c + 1]
    BY <1>3, <2>4
  <2>7. PICK P : P = {Item(x, s) : x \in Nat}
    OBVIOUS
  <2>8. got \in Seq(P) /\ r \in P
    BY <1>3, <2>1, <2>5, <2>7
  <2>9. /\ got' \in Seq(P) /\ Len(got') = c + 1 /\ got'[c + 1] = r
        /\ \A i \in 1 .. c : got'[i] = got[i]
    BY <1>1, <2>4, <2>8
  <2>10. \A i \in 1 .. c + 1 : got'[i] = Item(ix[i], s)
    <3> TAKE i \in 1 .. c + 1
    <3>1. i \in 1 .. c \/ i = c + 1
      BY <1>3
    <3> QED
      BY <1>3, <2>5, <2>9, <3>1
  <2>11. /\ dacq'.projs = dacq.projs /\ dacq'.thetas = dacq.thetas
         /\ dacq'.proj_ids = dacq.proj_ids
    BY <2>6
  <2>12. Ready(dacq, Len(got), ix)'
    <3>1. \A i \in 0 .. file.n - 1 :
            /\ dacq.proj_ids[i] = ix[i + 1] /\ dacq.thetas[i] = ix[i + 1]
            /\ \A j \in 0 .. file.sinos - 1 : dacq.projs[i * file.sinos + j] = <<ix[i + 1], j>>
      BY DEF HandingOut, Ready
    <3>2. ASSUME NEW i \in 0 .. file'.n - 1
          PROVE  /\ dacq'.proj_ids[i] = ix[i + 1] /\ dacq'.thetas[i] = ix[i + 1]
                 /\ \A j \in 0 .. file'.sinos - 1 : dacq'.projs[i * file'.sinos + j] = <<ix[i + 1], j>>
      <4>1. i \in 0 .. file.n - 1
        BY <1>5
      <4>2. /\ dacq.proj_ids[i] = ix[i + 1] /\ dacq.thetas[i] = ix[i + 1]
            /\ \A j \in 0 .. file.sinos - 1 : dacq.projs[i * file.sinos + j] = <<ix[i + 1], j>>
        BY <3>1, <4>1
      <4>3. \A j \in 0 .. file.sinos - 1 : dacq'.projs[i * file'.sinos + j] = <<ix[i + 1], j>>
        BY <1>5, <2>11, <4>2
      <4> QED
        BY <1>5, <2>11, <4>2, <4>3
    <3>3. dacq' = [n |-> file'.n, sinos |-> file'.sinos, projs |-> dacq'.projs,
                   thetas |-> dacq'.thetas, proj_ids |-> dacq'.proj_ids, curr |-> Len(got')]
      BY <1>2, <1>5, <2>6, <2>9, <2>11
    <3>4. Permutes(ix, file'.n)
      BY <1>2, <1>3, <1>5
    <3> QED
      BY <3>2, <3>3, <3>4 DEF Ready
  <2>13. (got \in Seq({Item(x, file.sinos) : x \in Nat}) /\ Len(got) <= file.n)'
    <3>1. got' \in Seq({Item(x, file'.sinos) : x \in Nat})
      <4>1. file'.sinos = s
        BY <1>2, <1>5
      <4> QED
        BY <2>7, <2>9, <4>1
    <3>2. Len(got') <= file'.n
      BY <1>2, <1>5, <2>1, <2>9
    <3> QED
      BY <3>1, <3>2
  <2>14. (\A i \in 1 .. Len(got) : got[i] = Item(ix[i], file.sinos))'
    BY <1>2, <1>5, <2>9, <2>10
  <2> QED
    BY <2>4, <2>12, <2>13, <2>14 DEF HandingOut
<1> QED
  BY <1>6, <1>7

\* A file with n projections is the file of n projections.
LEMMA FileIs ==
  ASSUME MockInv, file # Missing
  PROVE  \E n \in Nat : \E s \in Nat \ {0} : /\ file = FileOf(n, s)
                                             /\ file.n = n /\ file.sinos = s
<1>1. PICK n \in Nat, s \in Nat \ {0} : file = FileOf(n, s)
  BY DEF MockInv
<1>2. file.n = n /\ file.sinos = s
  BY <1>1 DEF FileOf
<1> QED
  BY <1>1, <1>2

\* The first row of every projection is a file of as many projections.
LEMMA ExtractedFile ==
  ASSUME NEW n \in Nat, NEW s \in Nat \ {0}, file = FileOf(n, s)
  PROVE  extract_sinogram = FileOf(n, 1) /\ FileOf(n, 1) # Missing
<1>1. /\ file.n = n /\ file.sinos = s
      /\ file.data = [k \in 0 .. n * s - 1 |-> <<k \div s, k % s>>]
  BY DEF FileOf
<1>2. ASSUME NEW i \in 0 .. n - 1
      PROVE  file.data[i * file.sinos] = <<i \div 1, i % 1>>
  <2>1. i \in Nat /\ i < n /\ 0 \in 0 .. s - 1 /\ i \div 1 = i /\ i % 1 = 0
    OBVIOUS
  <2>2. i * s + 0 \in 0 .. n * s - 1 /\ (i * s + 0) \div s = i /\ (i * s + 0) % s = 0
    BY <2>1, ItemOfGroup
  <2>3. PICK k : k = i * s
    OBVIOUS
  <2>4. k = i * s + 0
    BY <2>1, <2>3
  <2>5. file.data[k] = <<i, 0>>
    BY <1>1, <2>2, <2>4
  <2> QED
    BY <1>1, <2>1, <2>3, <2>5
<1>3. 0 .. n * 1 - 1 = 0 .. n - 1
  OBVIOUS
<1>4. extract_sinogram = FileOf(n, 1)
  <2>1. [i \in 0 .. n - 1 |-> file.data[i * file.sinos]] = [i \in 0 .. n - 1 |-> <<i \div 1, i % 1>>]
    BY <1>2
  <2> QED
    BY <1>1, <1>3, <2>1 DEF extract_sinogram, FileOf
<1>5. FileOf(n, 1).sinos = 1 /\ Missing.sinos = 0
  BY DEF FileOf, Missing
<1> QED
  BY <1>4, <1>5

\* The mock acquisition before it starts.
LEMMA MockStarts ==
  ASSUME MockInit
  PROVE  MockInv
<1>1. nsubsets \in Int /\ mstage \in {"extract", "setup"} /\ got = <<>>
  BY MockAssumption DEF MockInit
<1>2. ASSUME file # Missing
      PROVE  \E n \in Nat : \E s \in Nat \ {0} : file = FileOf(n, s)
  <2>1. PICK n \in 0 .. MaxProjs, s \in 1 .. MaxSinos : file = FileOf(n, s)
    BY <1>2 DEF MockInit, FileOf
  <2>2. n \in Nat /\ s \in Nat \ {0}
    BY MockAssumption
  <2> QED
    BY <2>1, <2>2
<1> QED
  BY <1>1, <1>2 DEF MockInv

\* setup_mock_data reads the file in one of the orders.
LEMMA SetsUp ==
  ASSUME MockInv, SetupMockData, mstage' = "read", Ordered
  PROVE  \E ix : HandingOut(ix)'
<1>1. /\ mstage = "setup" /\ file # Missing /\ got = <<>> /\ nsubsets \in Int
      /\ UNCHANGED <<file, got>>
  BY DEF SetupMockData, MockInv
<1>2. PICK n \in Nat, s \in Nat \ {0} : file = FileOf(n, s) /\ file.n = n /\ file.sinos = s
  BY <1>1, FileIs
<1>3. mock_dacq_file.n = n
  BY <1>2 DEF mock_dacq_file, Dacq
<1>4. \E ix : Ready(dacq', 0, ix)
  <2>1. CASE nsubsets = 0
    <3>1. dacq' = mock_dacq_file
      BY <2>1 DEF SetupMockData
    <3> QED
      BY <1>2, <3>1, FileReady
  <2>2. CASE nsubsets > 0
    <3>1. dacq' = mock_dacq_interleaved(mock_dacq_file, nsubsets)
      BY <1>1, <2>2 DEF SetupMockData
    <3>2. nsubsets \in Nat \ {0}
      BY <1>1, <2>2
    <3>3. Permutes(Interleaved(n, nsubsets), n)
      BY <3>2, InterleavedPermutes
    <3>4. dacq' = Reorganized(mock_dacq_file, Interleaved(n, nsubsets))
      BY <1>3, <3>1 DEF mock_dacq_interleaved
    <3> QED
      BY <1>2, <3>3, <3>4, ReorganizedReady
  <2>3. CASE nsubsets < 0
    <3>1. n # 1
      BY <1>1, <1>2, <2>3 DEF Ordered
    <3>2. dacq' \in mock_dacq_interleaved_equally(mock_dacq_file)
      <4>1. ~(nsubsets > 0) /\ nsubsets # 0
        BY <1>1, <2>3
      <4> QED
        BY <1>1, <4>1 DEF SetupMockData
    <3>3. PICK ix \in Equally(n) : dacq' = Reorganized(mock_dacq_file, ix)
      BY <1>3, <3>2 DEF mock_dacq_interleaved_equally
    <3>4. Permutes(ix, n)
      BY <3>1, EquallyPermutes
    <3> QED
      BY <1>2, <3>3, <3>4, ReorganizedReady
  <2> QED
    BY <1>1, <2>1, <2>2, <2>3
<1>5. PICK d : d = dacq'
  OBVIOUS
<1>6. PICK ix : Ready(d, 0, ix)
  BY <1>4, <1>5
<1>7. HandingOut(ix)'
  BY <1>1, <1>2, <1>5, <1>6, HandingStarts
<1> QED
  BY <1>7

\* Every step keeps it.
LEMMA MockGoesOn ==
  ASSUME MockInv, [MockNext]_mockVars
  PROVE  MockInv'
<1>1. CASE UNCHANGED mockVars
  <2>1. UNCHANGED <<mstage, nsubsets, file, dacq, got>>
    BY <1>1 DEF mockVars
  <2>2. Ordered' = Ordered
    BY <2>1 DEF Ordered
  <2>3. ASSUME NEW ix, HandingOut(ix)
        PROVE  HandingOut(ix)'
    <3>1. Ready(dacq, Len(got), ix)'
      BY <2>1, <2>3 DEF HandingOut, Ready
    <3> QED
      BY <2>1, <2>3, <3>1 DEF HandingOut
  <2> QED
    BY <2>1, <2>2, <2>3 DEF MockInv
<1>2. CASE Extract
  <2>1. mstage = "extract" /\ UNCHANGED <<nsubsets, dacq, got>>
    BY <1>2 DEF Extract
  <2>2. CASE file = Missing
    <3>1. mstage' = "end" /\ file' = Missing
      BY <1>2, <2>2 DEF Extract
    <3>2. file' = Missing'
      BY <3>1 DEF Missing
    <3> QED
      BY <2>1, <3>1, <3>2 DEF MockInv
  <2>3. CASE file # Missing
    <3>1. mstage' = "setup" /\ file' = extract_sinogram
      BY <1>2, <2>3 DEF Extract
    <3>2. PICK n \in Nat, s \in Nat \ {0} : file = FileOf(n, s)
      BY <2>3 DEF MockInv
    <3>3. file' = FileOf(n, 1) /\ 1 \in Nat \ {0}
      BY <3>1, <3>2, ExtractedFile
    <3> QED
      BY <2>1, <3>1, <3>3 DEF MockInv
  <2> QED
    BY <2>2, <2>3
<1>3. CASE SetupMockData
  <2>1. mstage = "setup" /\ UNCHANGED <<nsubsets, file, got>> /\ mstage' \in {"crashed", "read"}
    BY <1>3 DEF SetupMockData
  <2>2. Ordered' = Ordered
    BY <2>1 DEF Ordered
  <2>3. mstage' = "read" /\ Ordered => \E ix : HandingOut(ix)'
    BY <1>3, SetsUp
  <2> QED
    BY <2>1, <2>2, <2>3 DEF MockInv
<1>4. CASE MockDacqRead
  <2>1. mstage = "read" /\ UNCHANGED <<nsubsets, file>> /\ mstage' \in {"read", "end"}
    BY <1>4 DEF MockDacqRead
  <2>2. Ordered' = Ordered
    BY <2>1 DEF Ordered
  <2>3. ASSUME file # Missing, Ordered
        PROVE  \E ix : HandingOut(ix)'
    <3>1. PICK ix : HandingOut(ix)
      BY <2>1, <2>3 DEF MockInv
    <3>2. PICK n \in Nat, s \in Nat \ {0} : file = FileOf(n, s)
      BY <2>3 DEF MockInv
    <3>3. HandingOut(ix)'
      BY <1>4, <2>1, <3>1, <3>2, HandsOut
    <3> QED
      BY <3>3
  <2> QED
    BY <2>1, <2>2, <2>3 DEF MockInv
<1> QED
  BY <1>1, <1>2, <1>3, <1>4 DEF MockNext

\* The mock acquisition hands out every projection of the file exactly once, with
\* its own number, angle and rows, in the order of the file, in any number of
\* subsets and by halving (mock_dacq_read, mock_dacq_interleaved,
\* mock_dacq_interleaved_equally), whatever the size of the file.
THEOREM HandedOutOnce == MockSpec => []EachProjectionOnce
<1>1. MockInv /\ [MockNext]_mockVars => MockInv'
  BY MockGoesOn
<1>2. MockInv => EachProjectionOnce
  <2> SUFFICES ASSUME MockInv, mstage = "end", file # Missing, Ordered
               PROVE  /\ Len(got) = file.n
                      /\ {got[i].id : i \in DOMAIN got} = 0 .. file.n - 1
                      /\ \A i \in DOMAIN got :
                           /\ got[i].theta = got[i].id
                           /\ \A j \in DOMAIN got[i].rows : got[i].rows[j] = <<got[i].id, j>>
    BY DEF EachProjectionOnce
  <2>1. PICK ix : HandingOut(ix)
    BY DEF MockInv
  <2>2. PICK n \in Nat, s \in Nat \ {0} : file = FileOf(n, s) /\ file.n = n /\ file.sinos = s
    BY FileIs
  <2>3. /\ Permutes(ix, n) /\ Len(got) = n /\ got \in Seq({Item(x, s) : x \in Nat})
        /\ \A i \in 1 .. n : got[i] = Item(ix[i], s)
    BY <2>1, <2>2 DEF HandingOut, Ready
  <2>4. DOMAIN got = 1 .. n /\ DOMAIN ix = 1 .. n
    BY <2>3 DEF Permutes
  <2>5. \A i \in 1 .. n : /\ got[i].id = ix[i] /\ got[i].theta = ix[i]
                          /\ DOMAIN got[i].rows = 0 .. s - 1
                          /\ \A j \in 0 .. s - 1 : got[i].rows[j] = <<ix[i], j>>
    BY <2>3 DEF Item
  <2>6. {got[i].id : i \in DOMAIN got} = {ix[i] : i \in 1 .. n}
    BY <2>4, <2>5
  <2>7. {ix[i] : i \in 1 .. n} = 0 .. n - 1
    BY <2>3, <2>4 DEF Permutes, Range
  <2>8. \A i \in 1 .. n : /\ got[i].theta = got[i].id
                          /\ \A j \in DOMAIN got[i].rows : got[i].rows[j] = <<got[i].id, j>>
    BY <2>5
  <2>9. {got[i].id : i \in DOMAIN got} = 0 .. file.n - 1
    BY <2>2, <2>6, <2>7
  <2> QED
    BY <2>2, <2>3, <2>4, <2>8, <2>9
<1> QED
  BY <1>1, <1>2, MockStarts, PTL DEF MockSpec
=============================================================================
