----------------------------- MODULE RayGeometry -----------------------------
(***************************************************************************)
(* What the two reconstruction kernels, sirt and art_simple, share: the    *)
(* angles and the rotation centre of a scan, the grid of pixels, and what  *)
(* a ray through the grid is.  The ray of a detector column at angle theta *)
(* is the line -sin(theta)*x + cos(theta)*y = yi.                          *)
(*                                                                         *)
(* The arithmetic is exact.  An angle is a Pythagorean triple: its cosine  *)
(* is p/r, its sine q/r, and turn says which turn of the circle it is on.  *)
(* Lengths are counted in 1/192 of a pixel, which makes every crossing of  *)
(* such a ray with a grid line, and every distance between two crossings,  *)
(* a whole number.  Rounding is not modelled; the small offset the code    *)
(* adds to keep rays off the grid lines (1e-6 or 0.01) is 1/16 pixel.      *)
(***************************************************************************)
EXTENDS Integers, Sequences, FiniteSetsExt, SequencesExt

CONSTANTS NumCols,     \* num_cols: detector columns, and pixels along a side
          NumProjs,    \* projections of the window, or of the file
          NumSlices,   \* slices a rank, or a job, reconstructs
          Directions,  \* angles a projection may have
          Centers      \* rotation centres, in 1/192 pixel; 0 is "not given"

ASSUME SizesAssumption == {NumCols, NumProjs, NumSlices} \subseteq Nat \ {0}
ASSUME DirectionsAssumption ==
  \A d \in Directions : d.p # 0 /\ d.p * d.p + d.q * d.q = d.r * d.r /\ d.r > 0

Pixel == 192
Half == Pixel \div 2
Eps == Pixel \div 16

Proj == 0 .. NumProjs - 1
Slice == 0 .. NumSlices - 1
Col == 0 .. NumCols - 1

VARIABLES theta,    \* theta[p]: the angle of projection p
          center    \* the rotation centre

\* The quotient, by a divisor that may be negative, of a division without rest.
Quot(a, b) == IF b > 0 THEN a \div b ELSE (-a) \div (-b)

\* C's conversion of a/b to int, for b > 0.
Trunc(a, b) == IF a >= 0 THEN a \div b ELSE -((-a) \div b)

\* The grid lines: gridx_ and gridy_ are the same table.
Grid == [i \in 0 .. NumCols |-> i * Pixel - NumCols * Half]

Abs(n) == IF n < 0 THEN -n ELSE n

-----------------------------------------------------------------------------
(***************************************************************************)
(* The reference: how long a ray stays in a pixel, from the pixel's sides. *)
(***************************************************************************)

\* Where the ray is within the rows between lo and hi: an interval of x.
Rows(d, yi, lo, hi) ==
  LET x(y) == Quot(d.p * y - d.r * yi, d.q)
      level == Quot(d.r * yi, d.p)            \* of a ray parallel to the rows
  IN  IF d.q # 0 THEN {x(lo), x(hi)}
      ELSE IF lo <= level /\ level < hi THEN {Grid[0], Grid[NumCols]} ELSE {Grid[0]}

\* The length of the ray in the pixel of column ix and row iy.
Clip(d, yi, ix, iy) ==
  LET within == Rows(d, yi, Grid[iy], Grid[iy + 1])
      beg == Max({Grid[ix], Min(within)})
      end == Min({Grid[ix + 1], Max(within)})
  IN  IF beg < end THEN ((end - beg) * d.r) \div Abs(d.p) ELSE 0
=============================================================================
