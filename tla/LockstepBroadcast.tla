-------------------------- MODULE LockstepBroadcast --------------------------
(***************************************************************************)
(* What the TraceMQ link promises its two users, the distributor's receive *)
(* loop above server.c and the reconstruction loop above trace_mq.cc: one  *)
(* stream of images, delivered to every worker in the order it was pushed, *)
(* with no loss and no repetition, each image to everybody before the next *)
(* one is pushed; and an end of stream that reaches every worker, after    *)
(* the last image.  No message, sequence number or socket appears here.    *)
(***************************************************************************)
EXTENDS Integers, Sequences

CONSTANTS Worker,     \* the receivers
          Image,      \* what can be pushed
          MaxImages   \* bound on the length of the stream

VARIABLES pushed,     \* the stream so far, in the order it was pushed
          got,        \* got[w]: what worker w has been handed so far
          closed,     \* TRUE once the end of the stream was announced
          stopped     \* the workers that were told of the end

vars == <<pushed, got, closed, stopped>>

Init == /\ pushed = <<>>
        /\ got = [w \in Worker |-> <<>>]
        /\ closed = FALSE
        /\ stopped = {}

\* Every worker holds the whole stream.
UpToDate == \A w \in Worker : got[w] = pushed

Push(x) == /\ ~closed
           /\ UpToDate
           /\ Len(pushed) < MaxImages
           /\ pushed' = Append(pushed, x)
           /\ UNCHANGED <<got, closed, stopped>>

Deliver(w) == /\ got[w] # pushed
              /\ got' = [got EXCEPT ![w] = Append(@, pushed[Len(@) + 1])]
              /\ UNCHANGED <<pushed, closed, stopped>>

Close == /\ ~closed
         /\ UpToDate
         /\ closed' = TRUE
         /\ UNCHANGED <<pushed, got, stopped>>

Stop(w) == /\ closed
           /\ w \notin stopped
           /\ stopped' = stopped \cup {w}
           /\ UNCHANGED <<pushed, got, closed>>

Next == \/ \E x \in Image : Push(x)
        \/ Close
        \/ \E w \in Worker : Deliver(w) \/ Stop(w)

Safe == Init /\ [][Next]_vars

Spec == /\ Safe
        /\ \A w \in Worker : WF_vars(Deliver(w)) /\ WF_vars(Stop(w))
=============================================================================
