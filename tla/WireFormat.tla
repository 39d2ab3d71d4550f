----------------------------- MODULE WireFormat -----------------------------
(***************************************************************************)
(* The messages of TraceMQ in memory.  Each end has the structures and the *)
(* functions that fill and read them in a file of its own: trace_streamer  *)
(* (C) at the distributor and in the test worker worker.c, trace_mq (C++)  *)
(* in the workers of sirt_stream.  They are not the same: the array at the *)
(* end of a structure has no element in C and one in C++ (ANY_ARRAY_SIZE), *)
(* so that sizeof differs, where the data begin does not.                  *)
(*                                                                         *)
(* Memory is modelled in words of four bytes, and the value of a field is  *)
(* the name of the field: what matters is that it is found again.  A       *)
(* 64-bit field is its low word.                                           *)
(***************************************************************************)
EXTENDS Integers, Sequences, FiniteSets

CONSTANT MaxRays    \* bound on the rays of a worker in one projection

ASSUME MaxRaysAssumption == MaxRays \in Nat

VARIABLES sender,   \* the end that sends: "distributor", "TraceMQ", "worker.c", or
                    \* "TraceMQ server", a distributor built on trace_mq
          receiver, \* the other end
          type,     \* of the message
          rays,     \* n_sinograms * n_rays_per_proj_row, known to both ends
          wire,     \* the words of the zmq message; << >> before it is sent
          heard     \* what the other end read; << >> before it is received

wireVars == <<sender, receiver, type, rays, wire, heard>>

\* What each end sends.
Types(end) == IF end \in {"distributor", "TraceMQ server"} THEN {"DATAINFO_REP", "DATA_REP", "FIN_REP"}
                                     ELSE {"DATAINFO_REQ", "DATA_REQ", "FIN_REP"}

Code(t) == CASE t = "FIN_REP"      -> 0
             [] t = "DATAINFO_REQ" -> 1
             [] t = "DATAINFO_REP" -> 2
             [] t = "DATA_REQ"     -> 16
             [] t = "DATA_REP"     -> 32

-----------------------------------------------------------------------------
(* The declarations.                                                       *)

\* Faulty variant: one of the two files has two fields the other way round.
DataInfoRepSwapped(end) ==
  IF end = "TraceMQ" THEN <<"tn_sinograms", "n_sinograms", "beg_sinogram", "n_rays_per_proj_row">>
                     ELSE <<"tn_sinograms", "beg_sinogram", "n_sinograms", "n_rays_per_proj_row">>

\* _tomo_msg_data_info_rep_str, a word for each field.
DataInfoRep(end) ==
  <<"tn_sinograms", "beg_sinogram", "n_sinograms", "n_rays_per_proj_row">>

\* The fields of the structure that follows the header.
Layout(end, t) ==
  CASE t = "DATAINFO_REP" -> DataInfoRep(end)
    [] t = "DATAINFO_REQ" -> <<"comm_rank", "comm_size">>
    [] t = "DATA_REP"     -> <<"projection_id", "theta", "center">>
    [] OTHER              -> << >>

InCpp(end) == end \in {"TraceMQ", "TraceMQ server"}

DataAt == 6    \* tomo_msg_t: seq_n, type and size, two words each

\* sizeof(tomo_msg_t): with data[1] it is padded to a multiple of eight bytes.
SizeofHeader(end) == IF InCpp(end) THEN 8 ELSE 6

\* sizeof the structure that follows the header.
SizeofStruct(end, t) ==
  Len(Layout(end, t)) + (IF t = "DATA_REP" /\ InCpp(end) THEN 1 ELSE 0)

-----------------------------------------------------------------------------
\* A message of type t with n rays in malloc(size): size is that of the two
\* structures and of the rays, as the sender declares them; what is not assigned
\* is what malloc returned.
Filled(end, t, n) ==
  LET names  == Layout(end, t)
      RaysAt == DataAt + Len(names)
      size   == SizeofHeader(end) + SizeofStruct(end, t) + n
  IN  [k \in 0 .. size - 1 |->
         CASE k = 0 -> "seq_n"
           [] k = 2 -> Code(t)
           [] k = 4 -> size
           [] k \in {1, 3, 5} -> 0
           [] k \in DataAt .. RaysAt - 1 -> names[k - DataAt + 1]
           [] k \in RaysAt .. RaysAt + n - 1 -> <<"ray", k - RaysAt>>
           [] OTHER -> "unwritten"]

\* The distributor's messages, its last one made by done_image itself.
DataInfoRepMsg == Filled("distributor", "DATAINFO_REP", 0)
DataRepMsg     == Filled("distributor", "DATA_REP", rays)
FinRepMsg      == Filled("distributor", "FIN_REP", 0)

\* The messages of TraceMQ, the last one made by ReceiveMsg itself, and those of
\* the test worker.
DataInfoReqMsg == Filled("TraceMQ", "DATAINFO_REQ", 0)
DataReqMsg     == Filled("TraceMQ", "DATA_REQ", 0)
FinMsg         == Filled("TraceMQ", "FIN_REP", 0)
TestInfoReqMsg == Filled("worker.c", "DATAINFO_REQ", 0)
TestDataReqMsg == Filled("worker.c", "DATA_REQ", 0)
TestFinMsg     == Filled("worker.c", "FIN_REP", 0)

\* The distributor's messages as trace_mq makes them: no program sends them yet.
CppDataInfoRepMsg == Filled("TraceMQ server", "DATAINFO_REP", 0)
CppDataRepMsg     == Filled("TraceMQ server", "DATA_REP", rays)
CppFinRepMsg      == Filled("TraceMQ server", "FIN_REP", 0)

\* send_msg: size bytes of the message.
SendMsg ==
  /\ wire = << >>
  /\ \/ /\ sender = "distributor"
        /\ \/ type = "DATAINFO_REP" /\ wire' = DataInfoRepMsg
           \/ type = "DATA_REP"     /\ wire' = DataRepMsg
           \/ type = "FIN_REP"      /\ wire' = FinRepMsg
     \/ /\ sender = "TraceMQ server"
        /\ \/ type = "DATAINFO_REP" /\ wire' = CppDataInfoRepMsg
           \/ type = "DATA_REP"     /\ wire' = CppDataRepMsg
           \/ type = "FIN_REP"      /\ wire' = CppFinRepMsg
     \/ /\ sender = "TraceMQ"
        /\ \/ type = "DATAINFO_REQ" /\ wire' = DataInfoReqMsg
           \/ type = "DATA_REQ"     /\ wire' = DataReqMsg
           \/ type = "FIN_REP"      /\ wire' = FinMsg
     \/ /\ sender = "worker.c"
        /\ \/ type = "DATAINFO_REQ" /\ wire' = TestInfoReqMsg
           \/ type = "DATA_REQ"     /\ wire' = TestDataReqMsg
           \/ type = "FIN_REP"      /\ wire' = TestFinMsg
  /\ UNCHANGED <<sender, receiver, type, rays, heard>>

\* recv_msg and read_*: the words behind the header, by the receiver's own
\* declaration of the structure.  AddTomoMsg copies the structure, sizeof bytes
\* of it, and then the rays.
Read(end) ==
  LET t     == CHOOSE u \in Types(sender) : Code(u) = wire[2]
      names == Layout(end, t)
  IN  [seq_n    |-> wire[0],
       type     |-> t,
       capacity |-> wire[4],
       fields   |-> [f \in {names[n] : n \in DOMAIN names} |->
                       wire[DataAt - 1 + CHOOSE n \in DOMAIN names : names[n] = f]],
       copied   |-> DataAt .. DataAt + SizeofStruct(end, t) - 1,
       data     |-> IF t # "DATA_REP" THEN << >>
                    ELSE [n \in 1 .. rays |-> wire[DataAt - 1 + Len(names) + n]]]

RecvMsg == /\ wire # << >> /\ heard = << >>
           /\ heard' = Read(receiver)
           /\ UNCHANGED <<sender, receiver, type, rays, wire>>

WireInit == /\ \/ sender \in {"distributor", "TraceMQ server"} /\ receiver \in {"TraceMQ", "worker.c"}
               \/ sender \in {"TraceMQ", "worker.c"} /\ receiver \in {"distributor", "TraceMQ server"}
            /\ type \in Types(sender)
            /\ rays \in 0 .. MaxRays
            /\ wire = << >> /\ heard = << >>

WireNext == SendMsg \/ RecvMsg

WireSpec == WireInit /\ [][WireNext]_wireVars

-----------------------------------------------------------------------------
\* Whatever one end sends the other finds: the type, the number, every field
\* under its name and every ray in order; the copy into malloc(size) fits, and
\* the receiver reads nothing behind the message's end (the size of a message
\* is computed with the sender's sizeof, the reads go by the receiver's).  A
\* worker without rows does read behind it: see the README.
ReadAsSent ==
  heard # << >> =>
    /\ heard.type = type /\ heard.seq_n = "seq_n"
    /\ heard.capacity >= Cardinality(DOMAIN wire)
    /\ \A f \in DOMAIN heard.fields : heard.fields[f] = f
    /\ heard.data = IF type = "DATA_REP" THEN [n \in 1 .. rays |-> <<"ray", n - 1>>] ELSE << >>
    /\ (type # "DATA_REP" \/ rays > 0) => heard.copied \subseteq DOMAIN wire
=============================================================================
