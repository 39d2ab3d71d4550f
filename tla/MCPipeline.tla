----------------------------- MODULE MCPipeline -----------------------------
(***************************************************************************)
(* An instance of Pipeline for TLC: a file with two projections, of which   *)
(* the interleaved order of publication puts one before the dark frame.    *)
(***************************************************************************)
EXTENDS Pipeline

MCDatasets == {[flat |-> 1, dark |-> 1, proj |-> 2]}
=============================================================================
