------------------------------- MODULE Filter -------------------------------
(***************************************************************************)
(* SelectSeq, as a recursive function, which a proof can unfold.           *)
(***************************************************************************)
EXTENDS Integers, Sequences

\* The elements of q that are in S, in their order.
Select(q, S) ==
  LET kept[i \in 0 .. Len(q)] ==
        IF i = 0 THEN <<>>
        ELSE IF q[i] \in S THEN Append(kept[i - 1], q[i]) ELSE kept[i - 1]
  IN  kept[Len(q)]
=============================================================================
