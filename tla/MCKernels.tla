------------------------------- MODULE MCKernels -------------------------------
(***************************************************************************)
(* The two kernels on the same scans, and a client of the regions that     *)
(* hold scans and images: a behaviour is a run of one of the three.  Two   *)
(* projections; the first has any of ten angles, in all four quadrants and *)
(* in the turn before the first one, the second one of two.  SirtKernel    *)
(* states its properties for the nine that CalculateQuadrant gets right    *)
(* (Folded); the tenth is traced by ArtSimple alone.                       *)
(***************************************************************************)
EXTENDS SirtKernel, ArtSimple, DataRegion

Dir(cos, sin, r, turn) == [p |-> cos, q |-> sin, r |-> r, turn |-> turn]

MCDirections == {Dir(1, 0, 1, 0), Dir(-1, 0, 1, 0), Dir(4, 3, 5, 0), Dir(3, 4, 5, 0),
                 Dir(-3, 4, 5, 0), Dir(-4, -3, 5, 0), Dir(-3, -4, 5, 0), Dir(4, -3, 5, 0),
                 Dir(3, -4, 5, -1), Dir(-4, -3, 5, -1)}
SecondDirections == {Dir(4, 3, 5, 0), Dir(-3, 4, 5, 0)}

\* Not given, the middle of three columns, and a quarter of a pixel off it.
MCCenters == {0, 288, 336}

VARIABLE job

vars == <<job, theta, center, sirtVars, artVars, regionVars>>

Init == /\ job \in {"sirt_stream", "art_simple", "client"}
        /\ theta \in [Proj -> Directions]
        /\ \A p1 \in Proj \ {0} : theta[p1] \in SecondDirections
        /\ center \in Centers
        /\ SirtInit /\ ArtInit /\ RegionInit
        /\ job # "art_simple" => path = "none"
        /\ job = "client" => center = 0 /\ theta = [p1 \in Proj |-> Dir(4, 3, 5, 0)]

Finished == /\ \/ job = "sirt_stream" /\ kpc = "end"
               \/ job = "art_simple" /\ apc \in {"end", "failed", "unwritten"}
            /\ UNCHANGED vars

Next == \/ /\ job = "sirt_stream" /\ SirtNext
           /\ UNCHANGED <<job, theta, center, artVars, regionVars>>
        \/ /\ job = "art_simple" /\ ArtNext
           /\ UNCHANGED <<job, theta, center, sirtVars, regionVars>>
        \/ /\ job = "client" /\ RegionNext
           /\ UNCHANGED <<job, theta, center, sirtVars, artVars>>
        \/ Finished

Spec == Init /\ [][Next]_vars

\* Both kernels keep to their tables and buffers: no list of crossings outgrows
\* the memory the code gives it, whatever the angle.
TypeOK == SirtTypeOK /\ ArtTypeOK /\ BuffersHold

\* Two traversals written by different hands (Reduce's tracing, at the angles it
\* folds, and calc_coords .. calc_dist) find in the same scan what each line
\* crosses, in the memory the code gives their lists.
TracedAsCrossed == TypeOK /\ SegmentsAreClips /\ ArtSegmentsAreClips
=============================================================================
