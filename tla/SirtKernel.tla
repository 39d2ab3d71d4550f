------------------------------ MODULE SirtKernel ------------------------------
(***************************************************************************)
(* The SIRT kernel: SIRTReconSpace::Reduce takes the chunks of rays of a   *)
(* window, traces every ray through the pixel grid (trace_utils.cc) and    *)
(* adds its correction to the reduction space; UpdateRecon then corrects   *)
(* the image.  How threads share the chunks is in DispEngine; here one     *)
(* thread takes them all, and what is followed is each ray.                *)
(*                                                                         *)
(* Measured values and image values are names, not numbers: simdata is the *)
(* set of the image values it sums with their weights, a correction the    *)
(* record of what it is computed from.                                     *)
(***************************************************************************)
EXTENDS RayGeometry

VARIABLES kpc,       \* where Reduce is
          beg,       \* rays.index() of the chunk: the rays handed out before
          proj, col, \* the loops of Reduce
          coords,    \* coordx and coordy
          points,    \* the trimmed points: a = (ax, ay), b = (bx, by)
          coor,      \* (coorx, coory), the points in the order of the ray
          segs,      \* leng and indi
          replica,   \* reduction_objects(): two entries per pixel and slice
          image      \* recon: the correction each value received last

sirtVars == <<kpc, beg, proj, col, coords, points, coor, segs, replica, image>>

Pixels == NumCols * NumCols
NumRays == NumProjs * NumSlices * NumCols

\* TraceMetadata: rays per projection and the place of a ray.
NumRaysProj == NumSlices * NumCols
RayProjection(offset) == offset \div NumRaysProj
RaySlice(offset) == (offset - RayProjection(offset) * NumRaysProj) \div NumCols

\* Faulty variant: two rows of the detector in a chunk.
TwoRows == 2 * NumCols

\* main asks for one detector row at a time.
req_number == NumCols

ChunkEnd == Min({beg + req_number, NumRays})

\* TraceMetadata's offset of the detector, from the centre given or the default
\* one; it is pushed off the grid lines, always, as it is never above its ceiling.
Mov == LET given == IF center <= 0 THEN NumCols * Half + Pixel ELSE center
           mov == NumCols * Half - given
           ceil == -((-mov) \div Pixel) * Pixel
       IN  IF mov - ceil < Eps THEN mov + Eps ELSE mov

\* The ray of a detector column.
Yi(c) == (1 - NumCols) * Half + c * Pixel + Mov

\* Faulty variant: the first and the second half turn.
CalculateQuadrantHalfTurn(d) == IF d.turn = 0 /\ (d.q > 0 \/ (d.q = 0 /\ d.p > 0)) THEN 1 ELSE 0

\* The first or the third quadrant, of the first turn.
CalculateQuadrant(d) ==
  IF d.turn = 0 /\ ((d.p > 0 /\ d.q >= 0) \/ (d.p < 0 /\ d.q <= 0)) THEN 1 ELSE 0

Nowhere == 1000 * Pixel     \* an infinite coordinate, or one that is no number

SirtInit == /\ kpc = "chunk" /\ beg = 0 /\ proj = 0 /\ col = 0
            /\ coords = <<>> /\ points = <<>> /\ coor = <<>> /\ segs = <<>>
            /\ replica = [s \in Slice |-> [k \in 0 .. 2 * Pixels - 1 |->
                            IF k % 2 = 0 THEN {} ELSE 0]]
            /\ image = [k \in 0 .. NumSlices * Pixels - 1 |-> {}]

NextChunk == /\ kpc = "chunk" /\ beg < NumRays
             /\ proj' = RayProjection(beg) /\ col' = 0
             /\ kpc' = "coordinates"
             /\ UNCHANGED <<beg, coords, points, coor, segs, replica, image>>

\* The crossings with the grid lines: coordx with the rows, coordy with the columns.
CalculateCoordinates(d, yi) ==
  [x |-> [i \in 0 .. NumCols |-> IF d.q = 0 THEN Nowhere
                                 ELSE Quot(d.p * Grid[i] - d.r * yi, d.q)],
   y |-> [i \in 0 .. NumCols |-> Quot(d.q * Grid[i] + d.r * yi, d.p)]]

Coordinates == /\ kpc = "coordinates"
               /\ coords' = CalculateCoordinates(theta[proj], Yi(col))
               /\ kpc' = "merge"
               /\ UNCHANGED <<beg, proj, col, points, coor, segs, replica, image>>

Within(v) == v > Grid[0] /\ v < Grid[NumCols]

\* The crossings inside the grid, in the order of the grid lines.
MergeTrimCoordinates(c) ==
  LET line(i) == Grid[i - 1]
      all == [i \in 1 .. NumCols + 1 |-> i]
      as == SelectSeq(all, LAMBDA i : Within(c.x[i - 1]))
      bs == SelectSeq(all, LAMBDA i : Within(c.y[i - 1]))
  IN  [a |-> [k \in DOMAIN as |-> [x |-> c.x[as[k] - 1], y |-> line(as[k])]],
       b |-> [k \in DOMAIN bs |-> [x |-> line(bs[k]), y |-> c.y[bs[k] - 1]]]]

MergeTrim == /\ kpc = "merge"
             /\ points' = MergeTrimCoordinates(coords)
             /\ kpc' = "sort"
             /\ UNCHANGED <<beg, proj, col, coords, coor, segs, replica, image>>

\* The two lists merged by x, a point of b first when they are equal.
Merge(a, b) ==
  LET m[i \in 0 .. Len(a), j \in 0 .. Len(b)] ==
        IF i = Len(a) THEN SubSeq(b, j + 1, Len(b))
        ELSE IF j = Len(b) THEN SubSeq(a, i + 1, Len(a))
        ELSE IF a[i + 1].x < b[j + 1].x THEN <<a[i + 1]>> \o m[i + 1, j]
        ELSE <<b[j + 1]>> \o m[i, j + 1]
  IN  m[0, 0]

\* The first loop of the code only writes what the others overwrite.
SortIntersectionPoints(quadrant, pts) ==
  Merge(IF quadrant = 1 THEN pts.a ELSE Reverse(pts.a), pts.b)

SortPoints == /\ kpc = "sort"
              /\ coor' = SortIntersectionPoints(CalculateQuadrant(theta[proj]), points)
              /\ kpc' = "lengths"
              /\ UNCHANGED <<beg, proj, col, coords, points, segs, replica, image>>

Dist2(u, v) == (v.x - u.x) * (v.x - u.x) + (v.y - u.y) * (v.y - u.y)
Dist(u, v) == CHOOSE l \in 0 .. 2 * NumCols * Pixel : l * l = Dist2(u, v)

\* The pixel row or column of the point halfway between u and v.
IndexAt(u, v) == Trunc(u + v + NumCols * Pixel, 2 * Pixel)

PixelOf(u, v) == IndexAt(u.x, v.x) + IndexAt(u.y, v.y) * NumCols

CalculateDistanceLengths(pts) ==
  [i \in 1 .. Len(pts) - 1 |-> [leng |-> Dist(pts[i], pts[i + 1]),
                                indi |-> PixelOf(pts[i], pts[i + 1])]]

Lengths == /\ kpc = "lengths"
           /\ segs' = CalculateDistanceLengths(coor)
           /\ kpc' = "update"
           /\ UNCHANGED <<beg, proj, col, coords, points, coor, replica, image>>

\* The image values along the ray, in the slice of the chunk.
CalculateSimdata(slice) ==
  {[recon |-> slice * Pixels + segs[i].indi, leng |-> segs[i].leng] :
     i \in {j \in DOMAIN segs : segs[j].indi < Pixels}}

SumLeng2 == LET a2[i \in 0 .. Len(segs)] ==
                  IF i = 0 THEN 0 ELSE a2[i - 1] + segs[i].leng * segs[i].leng
            IN  a2[Len(segs)]

\* What (ray - simdata) / a2 is computed from; ray is rays[curr_col].
Correction(slice) == [ray |-> beg + col, sim |-> CalculateSimdata(slice), a2 |-> SumLeng2]

\* The replica after the first i segments of the ray, skipping those out of bounds.
UpdateReconReplica(slice, upd) ==
  LET add(row, seg) ==
        IF seg.indi * 2 < 0 \/ seg.indi * 2 >= 2 * Pixels THEN row
        ELSE [row EXCEPT ![seg.indi * 2] = @ \cup {[leng |-> seg.leng, upd |-> upd]},
                         ![seg.indi * 2 + 1] = @ + seg.leng]
  IN  [replica EXCEPT ![slice] = FoldLeft(add, @, segs)]

\* The next column, the next projection of the chunk, or the end of the chunk.
NextRay ==
  IF col + 1 < NumCols THEN col' = col + 1 /\ kpc' = "coordinates" /\ UNCHANGED <<beg, proj>>
  ELSE IF proj < RayProjection(ChunkEnd - 1)
       THEN proj' = proj + 1 /\ col' = 0 /\ kpc' = "coordinates" /\ UNCHANGED beg
       ELSE beg' = ChunkEnd /\ col' = 0 /\ kpc' = "chunk" /\ UNCHANGED proj

\* Forward projection and back projection of the ray.
UpdateRay == LET slice == RaySlice(beg) IN
             /\ kpc = "update"
             /\ replica' = UpdateReconReplica(slice, Correction(slice))
             /\ NextRay
             /\ coords' = <<>> /\ points' = <<>> /\ coor' = <<>> /\ segs' = <<>>
             /\ UNCHANGED image

\* The two entries of pixel j: the sum of the corrections and of the lengths.
Entries(row, j) == <<row[2 * j], row[2 * j + 1]>>

\* The image is corrected, except where the quotient is not a number.
UpdateRecon ==
  /\ kpc = "chunk" /\ beg = NumRays
  /\ image' = [k \in DOMAIN image |->
                 LET entries == Entries(replica[k \div Pixels], k % Pixels) IN
                 IF entries[2] = 0 THEN image[k] ELSE {entries}]
  /\ kpc' = "end"
  /\ UNCHANGED <<beg, proj, col, coords, points, coor, segs, replica>>

SirtNext == NextChunk \/ Coordinates \/ MergeTrim \/ SortPoints \/ Lengths
              \/ UpdateRay \/ UpdateRecon

-----------------------------------------------------------------------------
\* No list outgrows its buffer, and a traced segment names a pixel of the grid.
SirtTypeOK ==
  /\ kpc \in {"chunk", "coordinates", "merge", "sort", "lengths", "update", "end"}
  /\ beg \in 0 .. NumRays /\ proj \in Proj /\ col \in Col
  /\ points # <<>> => Len(points.a) <= NumCols + 1 /\ Len(points.b) <= NumCols + 1
  /\ Len(coor) <= 2 * Pixels
  /\ \A i \in DOMAIN segs : segs[i].leng \in Nat /\ segs[i].indi \in 0 .. Pixels - 1
  /\ \A s \in Slice, k \in 0 .. 2 * Pixels - 1 :
       IF k % 2 = 1 THEN replica[s][k] \in Nat
       ELSE \A e \in replica[s][k] : e.leng \in Nat /\ e.upd.ray \in 0 .. NumRays - 1

\* The angles for which CalculateQuadrant is right: the code does not fold them.
Folded(d) == d.turn = 0 \/ (d.turn = -1 /\ d.p > 0)

Expected(d, c, pix) == Clip(d, Yi(c), pix % NumCols, pix \div NumCols)

\* How long the traced segments say the ray is in a pixel.
Traced(pix) == MapThenSumSet(LAMBDA i : IF segs[i].indi = pix THEN segs[i].leng ELSE 0,
                             DOMAIN segs)

\* A traced ray crosses every pixel for as long as the line crosses it, at every
\* angle of the first turn and of the last quarter before it (an angle with
\* Folded) and for every column, and leaves the others alone.
SegmentsAreClips ==
  kpc = "update" /\ Folded(theta[proj]) =>
    \A pix \in 0 .. Pixels - 1 : Traced(pix) = Expected(theta[proj], col, pix)

\* The correction a ray owes to the image: its own measured value, against its
\* own slice of the image along its own line.
Owed(p, s, c) ==
  LET on == {pix \in 0 .. Pixels - 1 : Expected(theta[p], c, pix) > 0} IN
  [ray |-> p * NumRaysProj + s * NumCols + c,
   sim |-> {[recon |-> s * Pixels + pix, leng |-> Expected(theta[p], c, pix)] : pix \in on},
   a2 |-> MapThenSumSet(LAMBDA pix : Expected(theta[p], c, pix) * Expected(theta[p], c, pix), on)]

\* What the rays handed out so far owe to a pixel of a slice: their corrections,
\* and the sum of their lengths in it.
Owing(s, pix) ==
  LET rays == {ray \in Proj \X Col : /\ ray[1] * NumRaysProj + s * NumCols + ray[2] < beg
                                    /\ Expected(theta[ray[1]], ray[2], pix) > 0}
      len(ray) == Expected(theta[ray[1]], ray[2], pix)
  IN  <<{[leng |-> len(ray), upd |-> Owed(ray[1], s, ray[2])] : ray \in rays},
        MapThenSumSet(len, rays)>>

\* After every chunk the reduction space holds, for every pixel of every slice,
\* the corrections of exactly the rays that were handed out and cross it; in the
\* end these are what corrects the image, and a pixel that no ray crosses keeps
\* its value instead of becoming NaN.
BackProjected ==
  kpc \in {"chunk", "end"} /\ (\A p \in Proj : Folded(theta[p])) =>
    \A s \in Slice, pix \in 0 .. Pixels - 1 :
      LET owing == Owing(s, pix) IN
      /\ <<replica[s][2 * pix], replica[s][2 * pix + 1]>> = owing
      /\ kpc = "end" => image[s * Pixels + pix] = IF owing[2] > 0 THEN {owing} ELSE {}
=============================================================================
