------------------------------- MODULE MCFeeds -------------------------------
(***************************************************************************)
(* Data from a file to the distributor, a message between the distributor  *)
(* and a worker, and images to a viewer: a behaviour is a run of one.      *)
(***************************************************************************)
EXTENDS MockAcquisition, ImageFeed, WireFormat

\* From the order of the file over halving to more subsets than projections.
MCSubsets == {-1, 0, 1, 2, 3, 4, 11}

\* A worker without rows, one with two, and a single column.
MCShapes == {Dim3(0, 1, 2), Dim3(2, 1, 2), Dim3(1, 2, 1)}

VARIABLE job

vars == <<job, mockVars, feedVars, wireVars>>

NoFile == /\ mstage = "end" /\ nsubsets = 0 /\ file = Missing /\ dacq = Missing
          /\ got = <<>>

NoFeed == FeedInit /\ source = "worker" /\ shape = Dim3(0, 1, 2)

NoMessage == /\ WireInit /\ sender = "TraceMQ" /\ receiver = "distributor"
             /\ type = "FIN_REP" /\ rays = 0

Init == \/ job = "viewer"      /\ NoFile   /\ FeedInit /\ NoMessage
        \/ job = "distributor" /\ MockInit /\ NoFeed   /\ NoMessage
        \/ job = "link"        /\ NoFile   /\ NoFeed   /\ WireInit

Finished == /\ \/ job = "distributor" /\ mstage \in {"end", "crashed"}
               \/ job = "link" /\ heard # << >>
               \/ job = "viewer" /\ subscribed /\ pipe = <<>>
                  /\ fstage = "over"
               \/ job = "viewer" /\ vstage # "receive" /\ fstage = "over"
            /\ UNCHANGED vars

Next == \/ job = "distributor" /\ MockNext /\ UNCHANGED <<job, feedVars, wireVars>>
        \/ job = "viewer" /\ FeedNext /\ UNCHANGED <<job, mockVars, wireVars>>
        \/ job = "link" /\ WireNext /\ UNCHANGED <<job, mockVars, feedVars>>
        \/ Finished

Spec == Init /\ [][Next]_vars
=============================================================================
