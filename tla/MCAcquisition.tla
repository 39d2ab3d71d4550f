--------------------------- MODULE MCAcquisition ---------------------------
(***************************************************************************)
(* Instances of Acquisition for TLC: two distributors, the first with two  *)
(* workers, and files whose sizes are below, at and above a multiple of    *)
(* the subset size.                                                        *)
(***************************************************************************)
EXTENDS Acquisition

CONSTANTS d1, d2

MCSubs == {d1, d2}
MCNWorkers == [s \in MCSubs |-> IF s = d1 THEN 2 ELSE 1]

Dataset(f, d, p) == [flat |-> f, dark |-> d, proj |-> p]

\* With NElem = 2: one subset and a bit, two whole ones, two and a bit; and files
\* without darks and without either field.
MCDatasets == {Dataset(1, 1, 1), Dataset(1, 1, 2), Dataset(2, 2, 1),
               Dataset(2, 0, 1), Dataset(0, 0, 2)}

\* The dark frames of the file fall into several subsets.
DarkSpread == {Dataset(1, 2, 2)}
=============================================================================
