------------------------------- MODULE ArtSimple -------------------------------
(***************************************************************************)
(* art_simple: main reads some slices of a file, and the image of a        *)
(* checkpoint if it is given one, swaps the axes of the data, and calls    *)
(* art() again and again, writing the image after each call.  art() traces *)
(* a ray once for all slices and corrects the image ray by ray.            *)
(*                                                                         *)
(* The image is followed by the rays that have corrected each value, in    *)
(* order, and by where its first values come from: new float[] leaves them *)
(* as they are, and nothing clears them.                                   *)
(***************************************************************************)
EXTENDS RayGeometry

CONSTANTS NumOuterIter,   \* num_outer_iter, calls of art()
          NumIter         \* num_iter, iterations of a call

ASSUME IterationsAssumption == NumOuterIter \in Nat /\ NumIter \in Nat

VARIABLES apc,        \* where main and art() are
          path,       \* check_point_path: the file it names, or "none"
          outer, iter, p, d, s,   \* the loops
          indi,       \* the segments of the ray: pixel and dist
          data,       \* data_swap[k]: the projection, slice and column of the value
          simdata,    \* simdata[k]: the image values summed, with their weights
          recon,      \* recon[k]: where it began, and the rays that corrected it
          files       \* the files written: name -> dataset and image

loops == <<outer, iter, p, d, s>>
artVars == <<apc, path, loops, indi, data, simdata, recon, files>>

\* What the checkpoint argument may name: nothing, no file, a file of main's
\* own making (dataset "/data"), or one with the dataset "/recon".
Paths == {"none", "missing", "own output", "with recon"}

DataSize == NumSlices * NumProjs * NumCols
ReconSize == NumSlices * NumCols * NumCols
Image(from) == [k \in 0 .. ReconSize - 1 |-> [from |-> from, rays |-> <<>>]]
NoSims == [k \in 0 .. DataSize - 1 |-> <<>>]

\* The place of projection pp, slice ss, column dd in the file's order and in data_swap.
FileIndex(pp, ss, dd) == pp * (NumSlices * NumCols) + ss * NumCols + dd
DataIndex(pp, ss, dd) == dd + pp * NumCols + ss * NumProjs * NumCols

ArtInit == /\ apc = "read" /\ path \in Paths
           /\ outer = 0 /\ iter = 0 /\ p = 0 /\ d = 0 /\ s = 0
           /\ indi = <<>>
           /\ data = [k \in 0 .. DataSize - 1 |-> CHOOSE psd \in Proj \X Slice \X Col :
                        FileIndex(psd[1], psd[2], psd[3]) = k]
           /\ simdata = NoSims
           /\ recon = Image("garbage")
           /\ files = <<>>

Goto(label) == apc' = label

\* Faulty variant: a failure to read the checkpoint goes unnoticed.
ReadCheckPointBlindly ==
  /\ apc = "read"
  /\ Goto("swap")
  /\ IF path = "with recon" THEN recon' = Image("checkpoint") ELSE UNCHANGED recon
  /\ UNCHANGED <<path, loops, indi, data, simdata, files>>

\* main returns 1 when the checkpoint cannot be opened, or holds no "/recon".
ReadCheckPoint ==
  /\ apc = "read"
  /\ CASE path = "none" -> Goto("swap") /\ UNCHANGED recon
       [] path = "with recon" -> Goto("swap") /\ recon' = Image("checkpoint")
       [] OTHER -> Goto("failed") /\ UNCHANGED recon
  /\ UNCHANGED <<path, loops, indi, data, simdata, files>>

\* swapDimensions(data, dt, dy, dx, 0, 1): [p][s][d] becomes [s][p][d].
Swapped(original) ==
  [k \in DOMAIN original |->
     LET ss == k \div (NumProjs * NumCols)
         pp == (k \div NumCols) % NumProjs
     IN  original[FileIndex(pp, ss, k % NumCols)]]

SwapDimensions ==
  /\ apc = "swap"
  /\ data' = Swapped(data)
  /\ Goto("outer")
  /\ UNCHANGED <<path, loops, indi, simdata, recon, files>>

\* The head of main's loop: art() is called, and looks at num_iter.
CallArt ==
  /\ apc = "outer"
  /\ Goto(IF outer = NumOuterIter THEN "end" ELSE IF NumIter = 0 THEN "write" ELSE "iterate")
  /\ iter' = 0
  /\ UNCHANGED <<path, outer, p, d, s, indi, data, simdata, recon, files>>

\* Faulty variant: simdata goes on from the iteration before.
ClearedNot == simdata

\* memset(simdata, 0, ...)
Cleared == NoSims

\* preprocessing: mov, pushed off the grid lines only when it is close to one.
preprocessing == LET mov == (NumCols - 1) * Half - center
                     floor == (mov \div Pixel) * Pixel
                 IN  (IF mov - floor < Eps THEN mov + Eps ELSE mov) + Half

Iterate ==
  /\ apc = "iterate"
  /\ simdata' = Cleared
  /\ p' = 0 /\ d' = 0
  /\ Goto("trace")
  /\ UNCHANGED <<path, outer, iter, s, indi, data, recon, files>>

\* fmodf drops whole turns and keeps the sign; a negative angle is then folded.
calc_quadrant(dir) == IF (dir.p > 0 /\ dir.q >= 0) \/ (dir.p < 0 /\ dir.q <= 0) THEN 1 ELSE 0

\* art() allocates ngridx + ngridy entries for a list of points, and for a merged one.
BufferSize == NumCols + NumCols

AYi(c) == (1 - NumCols) * Half + c * Pixel + preprocessing
Far == 1000 * Pixel     \* an infinite coordinate, or one that is no number

calc_coords(dir, yi) ==
  [x |-> [i \in 0 .. NumCols |-> IF dir.q = 0 THEN Far ELSE Quot(dir.p * Grid[i] - dir.r * yi, dir.q)],
   y |-> [i \in 0 .. NumCols |-> Quot(dir.q * Grid[i] + dir.r * yi, dir.p)]]

Kept(v) == v >= Grid[0] + Eps /\ v <= Grid[NumCols] - Eps

trim_coords(c) ==
  LET lines == [i \in 1 .. NumCols + 1 |-> i - 1]
      as == SelectSeq(lines, LAMBDA i : Kept(c.x[i]))
      bs == SelectSeq(lines, LAMBDA i : Kept(c.y[i]))
  IN  [a |-> [k \in DOMAIN as |-> [x |-> c.x[as[k]], y |-> Grid[as[k]]]],
       b |-> [k \in DOMAIN bs |-> [x |-> Grid[bs[k]], y |-> c.y[bs[k]]]]]

\* One list of points by x: a is taken backwards when ind_condition is 0.
sort_intersections(ind_condition, pts) ==
  LET a == IF ind_condition = 0 THEN Reverse(pts.a) ELSE pts.a
      m[i \in 0 .. Len(a), j \in 0 .. Len(pts.b)] ==
        IF i = Len(a) THEN SubSeq(pts.b, j + 1, Len(pts.b))
        ELSE IF j = Len(pts.b) \/ a[i + 1].x < pts.b[j + 1].x
             THEN <<a[i + 1]>> \o m[i + 1, j]
             ELSE <<pts.b[j + 1]>> \o m[i, j + 1]
  IN  m[0, 0]

\* The segment from point n to the next: its length, and the pixel of its middle.
SegmentLength(pts, n) ==
  LET dx == pts[n + 1].x - pts[n].x
      dy == pts[n + 1].y - pts[n].y
  IN  CHOOSE l \in 0 .. 2 * NumCols * Pixel : l * l = dx * dx + dy * dy

Place(u, v) == (u + v + NumCols * Pixel) \div (2 * Pixel)

calc_dist(pts) ==
  [n \in 1 .. Len(pts) - 1 |->
     [pix |-> Place(pts[n].y, pts[n + 1].y) + Place(pts[n].x, pts[n + 1].x) * NumCols,
      dist |-> SegmentLength(pts, n)]]

Points(dir, c) == sort_intersections(calc_quadrant(dir), trim_coords(calc_coords(dir, AYi(c))))

SumDist2(segs) == MapThenSumSet(LAMBDA n : segs[n].dist * segs[n].dist, DOMAIN segs)

\* The tracing of a ray: with less than two points there are no segments.
Trace ==
  /\ apc = "trace"
  /\ indi' = calc_dist(Points(theta[p], d))
  /\ s' = 0
  /\ Goto("slices")
  /\ UNCHANGED <<path, outer, iter, p, d, data, simdata, recon, files>>

\* simdata += model * dist, along the ray.
calc_simdata(k) ==
  LET add(w, seg) == LET m == seg.pix + s * NumCols * NumCols IN
                     IF m \in DOMAIN w THEN [w EXCEPT ![m] = @ + seg.dist]
                     ELSE [x \in DOMAIN w \cup {m} |-> IF x = m THEN seg.dist ELSE w[x]]
  IN  FoldLeft(add, simdata[k], indi)

\* The kernel for vector fields, which no one calls yet: calc_dist2 keeps the two
\* coordinates of a pixel apart, and calc_simdata2 and calc_simdata3 project two
\* components of a field, weighted with the velocities vx and vy.
calc_dist2(pts) ==
  [n \in 1 .. Len(pts) - 1 |->
     [indx |-> Place(pts[n].x, pts[n + 1].x), indy |-> Place(pts[n].y, pts[n + 1].y),
      dist |-> SegmentLength(pts, n)]]

\* The values a segment reads: which model, which voxel, times which velocity.
calc_simdata2(seg, ss) ==
  LET voxel == seg.indy + seg.indx * NumCols + ss * NumCols * NumCols
  IN  {<<"modelx", voxel, "vx">>, <<"modely", voxel, "vy">>}

\* The slice is a plane normal to the axis, of a cube of NumCols planes each way.
calc_simdata3(axis, seg, ss) ==
  LET voxel1 == ss + seg.indx * NumCols + seg.indy * NumCols * NumCols
      voxel2 == seg.indx + ss * NumCols + seg.indy * NumCols * NumCols
  IN  CASE axis = 0 -> calc_simdata2(seg, ss)
        [] axis = 1 -> {<<"modely", voxel1, "vx">>, <<"modelz", voxel1, "vy">>}
        [] axis = 2 -> {<<"modelx", voxel2, "vx">>, <<"modelz", voxel2, "vy">>}

\* The image values of a ray in slice ss.
OnRay(segs, ss) == {segs[n].pix + ss * NumCols * NumCols : n \in DOMAIN segs}

\* A slice: the ray is projected, and its correction goes into the image at once.
UpdateSlice ==
  LET k == DataIndex(p, s, d) IN
  /\ apc = "slices" /\ SumDist2(indi) # 0 /\ s < NumSlices
  /\ simdata' = [simdata EXCEPT ![k] = calc_simdata(k)]
  /\ recon' = [m \in DOMAIN recon |->
                 IF m \in OnRay(indi, s) THEN [recon[m] EXCEPT !.rays = Append(@, k)] ELSE recon[m]]
  /\ s' = s + 1
  /\ UNCHANGED <<apc, path, outer, iter, p, d, indi, data, files>>

NextArtRay ==
  /\ apc = "slices" /\ (SumDist2(indi) = 0 \/ s = NumSlices)
  /\ IF d + 1 < NumCols THEN d' = d + 1 /\ Goto("trace") /\ UNCHANGED <<iter, p>>
     ELSE IF p + 1 < NumProjs THEN d' = 0 /\ p' = p + 1 /\ Goto("trace") /\ UNCHANGED iter
          ELSE /\ iter' = iter + 1 /\ UNCHANGED <<p, d>>
               /\ Goto(IF iter + 1 < NumIter THEN "iterate" ELSE "write")
  /\ UNCHANGED <<path, outer, s, indi, data, simdata, recon, files>>

\* recon_<i>.h5, or cont_recon_<i>.h5 after a checkpoint; what was there is truncated.
OutputName == <<IF path = "none" THEN "recon" ELSE "cont_recon", outer>>

WriteOutput ==
  /\ apc = "write"
  /\ files' = [f \in DOMAIN files \cup {OutputName} |->
                 IF f = OutputName THEN [dataset |-> "/data", image |-> recon] ELSE files[f]]
  /\ outer' = outer + 1
  /\ Goto("outer")
  /\ UNCHANGED <<path, iter, p, d, s, indi, data, simdata, recon>>

\* The file cannot be created: main returns 1, and what it had written stays.
CreateFails ==
  /\ apc = "write"
  /\ Goto("unwritten")
  /\ UNCHANGED <<path, loops, indi, data, simdata, recon, files>>

ArtNext == ReadCheckPoint \/ SwapDimensions \/ CallArt \/ Iterate \/ Trace
             \/ UpdateSlice \/ NextArtRay \/ WriteOutput \/ CreateFails

ArtSpec == /\ theta \in [Proj -> Directions] /\ center \in Centers
           /\ ArtInit
           /\ [][ArtNext /\ UNCHANGED <<theta, center>>]_<<theta, center, artVars>>

-----------------------------------------------------------------------------
\* The loops stay within their bounds, and every table has entries of its kind.
ArtTypeOK ==
  /\ apc \in {"read", "swap", "outer", "iterate", "trace", "slices", "write", "end",
             "failed", "unwritten"}
  /\ path \in Paths
  /\ outer \in 0 .. NumOuterIter /\ iter \in 0 .. NumIter
  /\ p \in Proj /\ d \in Col /\ s \in 0 .. NumSlices
  /\ \A n \in DOMAIN indi : indi[n].pix \in 0 .. NumCols * NumCols - 1 /\ indi[n].dist \in Nat
  /\ data \in [0 .. DataSize - 1 -> Proj \X Slice \X Col]
  /\ \A k \in 0 .. DataSize - 1 : DOMAIN simdata[k] \subseteq 0 .. ReconSize - 1
  /\ \A m \in 0 .. ReconSize - 1 : recon[m].rays \in Seq(0 .. DataSize - 1)

ArtClip(ix, iy) == Clip(theta[p], AYi(d), ix, iy)

\* The weight the ray has traced in a pixel.
Weight(ix, iy) == MapThenSumSet(LAMBDA n : IF indi[n].pix = iy + ix * NumCols THEN indi[n].dist ELSE 0,
                                DOMAIN indi)

OnBorder(ix, iy) == {ix, iy} \cap {0, NumCols - 1} # {}

\* The vector kernel reads, of each component, its own voxel for every slice and
\* pixel, whatever the axis: along axis 0 the one calc_simdata reads, along the
\* others one within the cube, and no voxel for two slices or for two pixels.
VoxelsApart ==
  apc = "slices" =>
    LET segs == calc_dist2(Points(theta[p], d))
        read(axis, n, ss) == calc_simdata3(axis, segs[n], ss)
        voxel(axis, n, ss) == CHOOSE v \in {r[2] : r \in read(axis, n, ss)} : TRUE
        planes == Slice \cap Col
    IN  /\ \A n \in DOMAIN segs, ss \in Slice :
             voxel(0, n, ss) = indi[n].pix + ss * NumCols * NumCols
        /\ \A axis \in {1, 2}, n1, n2 \in DOMAIN segs, s1, s2 \in planes :
             /\ Cardinality({r[2] : r \in read(axis, n1, s1)}) = 1
             /\ voxel(axis, n1, s1) \in 0 .. NumCols * NumCols * NumCols - 1
             /\ voxel(axis, n1, s1) = voxel(axis, n2, s2)
                  => s1 = s2 /\ indi[n1].pix = indi[n2].pix

\* At every angle, in any turn, a traced segment is what the line has in common
\* with its pixel; trimming the points within 0.01 of the border can lose a whole
\* segment, but only in the pixels along the border.  calc_dist2 traces the
\* same, and the vector kernel reads the voxels it should.
ArtSegmentsAreClips ==
  apc = "slices" =>
    /\ \A ix, iy \in Col : \/ Weight(ix, iy) = ArtClip(ix, iy)
                           \/ OnBorder(ix, iy) /\ Weight(ix, iy) = 0
    /\ LET segs == calc_dist2(Points(theta[p], d)) IN
       indi = [n \in DOMAIN segs |-> [pix |-> segs[n].indy + segs[n].indx * NumCols,
                                      dist |-> segs[n].dist]]
    /\ VoxelsApart

\* The buffers of art() hold no less than the points of a ray:
\* neither a list of crossings nor the merged one.
BuffersHold ==
  apc = "trace" =>
    LET pts == trim_coords(calc_coords(theta[p], AYi(d))) IN
    Len(pts.a) + Len(pts.b) <= BufferSize

\* What is subtracted from a measured value is the projection of its own slice
\* along its own ray, with nothing of an earlier iteration; and the value is the
\* one the file has for that projection, slice and column.
ProjectsAfresh ==
  apc = "slices" /\ SumDist2(indi) # 0 =>
    \A ss \in 0 .. s - 1 :
      LET k == DataIndex(p, ss, d) IN
      /\ data[k] = <<p, ss, d>>
      /\ simdata[k] = [m \in {indi[n].pix + ss * NumCols * NumCols : n \in DOMAIN indi} |->
                         LET pix == m - ss * NumCols * NumCols IN Weight(pix \div NumCols, pix % NumCols)]

\* A file written after a checkpoint was read starts from that checkpoint, and
\* every file carries all the corrections of the files before it.
FilesContinue ==
  \A f \in DOMAIN files :
    /\ (path # "none") <=> (\A k \in DOMAIN recon : files[f].image[k].from = "checkpoint")
    /\ \A g \in DOMAIN files : g[2] < f[2] =>
         \A k \in DOMAIN recon :
           LET before == files[g].image[k].rays
               after == files[f].image[k].rays
           IN  IsPrefix(before, after) /\ Len(after) * (g[2] + 1) = Len(before) * (f[2] + 1)
=============================================================================
