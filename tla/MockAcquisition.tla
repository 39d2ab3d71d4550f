--------------------------- MODULE MockAcquisition ---------------------------
(***************************************************************************)
(* The acquisition the distributor can simulate itself (mock_data_acq.c,   *)
(* setup_mock_data of server.c): a file of projections is read as a whole, *)
(* reordered into nsubsets interleaved subsets (nsubsets > 0) or by        *)
(* repeated halving (nsubsets < 0), and handed out one by one.             *)
(*                                                                         *)
(* The data array is modelled row by row: <<p, j>> is the contents of row  *)
(* j of projection p in the file.                                          *)
(***************************************************************************)
EXTENDS Integers, SequencesExt, Filter

CONSTANTS MaxProjs,   \* bound on the projections in the file
          MaxSinos,   \* bound on its rows
          Subsets     \* values of nsubsets

ASSUME MockAssumption == /\ MaxProjs \in Nat /\ MaxSinos \in Nat \ {0}
                         /\ Subsets \subseteq Int

VARIABLES mstage,    \* "extract", "setup", "read", "end", "crashed"
          nsubsets,
          file,      \* dims[0], dims[1] and the data; Missing
          dacq,      \* dacq_file
          got        \* what mock_dacq_read returned, in order

mockVars == <<mstage, nsubsets, file, dacq, got>>

Missing == [n |-> 0, sinos |-> 0, data |-> << >>]
Wild == -1                     \* the contents of memory nobody wrote

\* A dacq_file_t of which nothing has been read.
Dacq(n, sinos, projs, thetas, ids) ==
  [n |-> n, sinos |-> sinos, projs |-> projs, thetas |-> thetas, proj_ids |-> ids, curr |-> 0]

\* mock_dacq_file: the projections are numbered as they come.
mock_dacq_file == Dacq(file.n, file.sinos, file.data, [i \in 0 .. file.n - 1 |-> i],
                       [i \in 0 .. file.n - 1 |-> i])

\* extract_sinogram: a file with the first row of every projection.
extract_sinogram == [n |-> file.n, sinos |-> 1,
                     data |-> [i \in 0 .. file.n - 1 |-> file.data[i * file.sinos]]]

-----------------------------------------------------------------------------
\* mock_gen_interleaved: item i of dest is item ix[i] of src.
mock_gen_interleaved(ix, n, nitem, src) ==
  [k \in 0 .. n * nitem - 1 |->
     LET at == ix[k \div nitem] * nitem + (k % nitem)
     IN  IF at \in DOMAIN src THEN src[at] ELSE <<Wild, Wild>>]

\* Faulty variant: one subset too many gets one of the projections left over.
SubsetInclusive(n, sets, i) ==
  [j \in 1 .. (n \div sets) + (IF i <= n % sets THEN 1 ELSE 0) |-> (j - 1) * sets + i]

\* The projections of subset i.
Subset(n, sets, i) ==
  [j \in 1 .. (n \div sets) + (IF i < n % sets THEN 1 ELSE 0) |-> (j - 1) * sets + i]

\* proj_ix of mock_dacq_interleaved.
Interleaved(n, sets) == FlattenSeq([i \in 1 .. sets |-> Subset(n, sets, i - 1)])

\* add_indices: the multiples of step below n that are not there yet.  The step
\* is a float, half of an odd number at times, but an int is added up: only its
\* integral part counts.
add_indices(ix, step, n) ==
  ix \o Select([k \in 1 .. (n + step - 1) \div step |-> (k - 1) * step],
               (0 .. n - 1) \ Range(ix))

\* The loop of mock_dacq_interleaved_equally: co and proj_ix after turn k.  co is
\* halved until it is below 1, in at most n turns.
Halve(n) ==
  LET after[k \in 0 .. n] ==
        IF k = 0 THEN [co |-> n \div 2, ix |-> <<>>]
        ELSE IF after[k - 1].co = 0 THEN after[k - 1]
        ELSE [co |-> after[k - 1].co \div 2,
              ix |-> add_indices(after[k - 1].ix, after[k - 1].co, n)]
  IN  after[n].ix

\* proj_ix of mock_dacq_interleaved_equally; what the loop did not write, which
\* is the only entry of a file with one projection, is what the memory held.
Equally(n) ==
  LET ix == Halve(n)
  IN  {ix \o rest : rest \in [1 .. n - Len(ix) -> {0, Wild}]}

\* The copy two functions return, given proj_ix.
Reorganized(d, proj_ix) ==
  LET ix == [i \in 0 .. d.n - 1 |-> proj_ix[i + 1]]
  IN  Dacq(d.n, d.sinos, mock_gen_interleaved(ix, d.n, d.sinos, d.projs),
           mock_gen_interleaved(ix, d.n, 1, d.thetas), ix)

mock_dacq_interleaved(d, sets) == Reorganized(d, Interleaved(d.n, sets))

\* The possible outcomes of mock_dacq_interleaved_equally.
mock_dacq_interleaved_equally(d) == {Reorganized(d, ix) : ix \in Equally(d.n)}

-----------------------------------------------------------------------------
MockInit ==
  /\ mstage \in {"extract", "setup"}
  /\ nsubsets \in Subsets
  /\ file \in {Missing} \cup
       {[n |-> n, sinos |-> s, data |-> [k \in 0 .. n * s - 1 |-> <<k \div s, k % s>>]] :
          n \in 0 .. MaxProjs, s \in 1 .. MaxSinos}
  /\ dacq = mock_dacq_file
  /\ got = <<>>

\* A run of extract_sinogram; setup_mock_data is called on its output.
Extract == /\ mstage = "extract"
           /\ IF file = Missing THEN mstage' = "end" /\ UNCHANGED file
                                ELSE mstage' = "setup" /\ file' = extract_sinogram
           /\ UNCHANGED <<nsubsets, dacq, got>>

\* setup_mock_data.  It does not look at what mock_dacq_file returned: without a
\* file the next access is through a null pointer.
SetupMockData ==
  /\ mstage = "setup"
  /\ \/ /\ file = Missing
        /\ mstage' = "crashed" /\ UNCHANGED dacq
     \/ /\ file # Missing /\ nsubsets = 0
        /\ dacq' = mock_dacq_file
        /\ mstage' = "read"
     \/ /\ file # Missing /\ nsubsets # 0
        /\ dacq' \in IF nsubsets > 0 THEN {mock_dacq_interleaved(mock_dacq_file, nsubsets)}
                                     ELSE mock_dacq_interleaved_equally(mock_dacq_file)
        /\ mstage' = "read"
  /\ UNCHANGED <<nsubsets, file, got>>

\* mock_dacq_read, until it returns NULL.
MockDacqRead ==
  /\ mstage = "read"
  /\ \/ /\ dacq.curr = dacq.n
        /\ mstage' = "end" /\ UNCHANGED <<dacq, got>>
     \/ /\ dacq.curr # dacq.n
        /\ got' = Append(got,
             [id |-> dacq.proj_ids[dacq.curr], theta |-> dacq.thetas[dacq.curr],
              rows |-> [j \in 0 .. dacq.sinos - 1 |-> dacq.projs[dacq.curr * dacq.sinos + j]]])
        /\ dacq' = [dacq EXCEPT !.curr = @ + 1]
        /\ UNCHANGED mstage
  /\ UNCHANGED <<nsubsets, file>>

MockNext == Extract \/ SetupMockData \/ MockDacqRead

MockSpec == MockInit /\ [][MockNext]_mockVars

-----------------------------------------------------------------------------
\* The one projection of a file of one is not reordered by halving: there is no
\* step of at least 1 and proj_ix is never written.
Ordered == nsubsets >= 0 \/ file.n # 1

\* Whatever the order, every projection is handed out exactly once, under the
\* number it has in the file, with its own angle and its own rows (the angles,
\* the data and the numbers are reordered by three separate copies).
EachProjectionOnce ==
  mstage = "end" /\ file # Missing /\ Ordered =>
    /\ Len(got) = file.n
    /\ {got[i].id : i \in DOMAIN got} = 0 .. file.n - 1
    /\ \A i \in DOMAIN got : /\ got[i].theta = got[i].id
                             /\ \A j \in DOMAIN got[i].rows : got[i].rows[j] = <<got[i].id, j>>
=============================================================================
