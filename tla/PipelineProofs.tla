--------------------------- MODULE PipelineProofs ---------------------------
(***************************************************************************)
(* Proofs about SirtStream, and about Pipeline, which joins it to the       *)
(* acquisition, for any number of ranks, any length of the stream and any  *)
(* command line.                                                           *)
(*                                                                         *)
(* The stream is 1, 2, 3, ..., so that everything a rank holds is a run of *)
(* consecutive numbers.  How far a rank has read depends only on how many  *)
(* reads it has done (Upto), and so its window is a function of the window *)
(* of the pass before, whichever rank computes it: this, and that no read  *)
(* is cut short unless the stream has ended, is the inductive invariant.   *)
(*                                                                         *)
(* In the pipeline every step is a step of the acquisition, of the stream, *)
(* of both, or of neither, so that both their invariants hold in it (that  *)
(* of the acquisition is proved in AcquisitionProofs).  Image i of the     *)
(* link being the i-th projection pushed, what the ranks reconstruct is    *)
(* what was published.                                                     *)
(***************************************************************************)
EXTENDS Pipeline, SequenceTheorems, TLAPS

\* The projections after number a, up to number b.
Run(a, b) == [k \in 1 .. b - a |-> a + k]

\* What a rank has received after p reads: config.step projections each time,
\* but no more than there are.
Upto(p) == IF config.step * p <= Len(pushed) THEN config.step * p ELSE Len(pushed)

Labels == {"read", "receive", "slide", "reconstruct", "write", "finalize", "destroy"}

\* The reads rank w has finished.
Reads(w) == IF pc[w] \in {"slide", "reconstruct", "finalize", "destroy"}
            THEN Len(out[w]) + 1 ELSE Len(out[w])

\* The window of pass p of rank w; before the first pass it is empty.
WindowOf(w, p) == IF p = 0 THEN <<>> ELSE out[w][p].window

\* The window that pass p makes of the one before.
NextWindow(w, p) == Slid(EraseDownTo(WindowOf(w, p - 1), config.len), Run(Upto(p - 1), Upto(p)))

Longest == (IF config.len = 0 THEN 0 ELSE config.len - 1) + config.step

\* win is the newest part of the first n projections.
Newest(win, n) == \E a \in 0 .. n : win = Run(a, n) /\ n - a <= Longest

StreamTypeOK ==
  /\ config \in Config
  /\ Len(pushed) \in Nat /\ pushed = Run(0, Len(pushed))
  /\ closed \in BOOLEAN
  /\ stopped \subseteq Rank
  /\ pc \in [Rank -> Labels]
  /\ passes \in [Rank -> Nat]
  /\ received \in [Rank -> Seq(Nat)]
  /\ window \in [Rank -> Seq(Nat)]
  /\ got \in [Rank -> Seq(Nat)]
  /\ out \in [Rank -> Seq([window : Seq(Nat), published : BOOLEAN, written : BOOLEAN])]

\* The link: a rank has the beginning of the stream, one that was told of the
\* end all of it.
LinkOK(w) ==
  /\ got[w] = Run(0, Len(got[w])) /\ Len(got[w]) <= Len(pushed)
  /\ w \in stopped => closed /\ Len(got[w]) = Len(pushed)

\* The read under way, and that no read before was short while the stream went on.
ReadOK(w) ==
  /\ \A p \in 0 .. Reads(w) : config.step * p <= Len(pushed) \/ closed
  /\ pc[w] # "receive" => Len(got[w]) = Upto(Reads(w))
  /\ pc[w] = "receive" => /\ Upto(Len(out[w])) <= Len(got[w])
                          /\ Len(got[w]) < Upto(Len(out[w])) + config.step
  /\ pc[w] \in {"receive", "slide"} => received[w] = Run(Upto(Len(out[w])), Len(got[w]))

\* The window, by the place in the pass.
WindowOK(w) ==
  /\ pc[w] \in {"read", "write"} => window[w] = WindowOf(w, Len(out[w]))
  /\ pc[w] \in {"receive", "slide"} =>
       window[w] = EraseDownTo(WindowOf(w, Len(out[w])), config.len)
  /\ pc[w] = "reconstruct" => window[w] = NextWindow(w, Len(out[w]) + 1)
  /\ pc[w] \in {"finalize", "destroy"} =>
       window[w] = <<>> /\ Upto(Len(out[w]) + 1) = Upto(Len(out[w]))

\* The passes done, and how they are counted.
HistoryOK(w) ==
  /\ \A p \in 1 .. Len(out[w]) :
       /\ out[w][p].window = NextWindow(w, p)
       /\ out[w][p].published = ((p - 1) % config.pub_freq = 0)
       /\ out[w][p].written = ((p - 1) % config.write_freq = 0)
  /\ passes[w] = IF pc[w] = "write" THEN Len(out[w]) - 1 ELSE Len(out[w])

\* The window of a pass is the newest part of what was read until then, and has
\* all that was read in that pass.
NewestOK(w) ==
  \A p \in 1 .. Len(out[w]) :
    \E a \in 0 .. Upto(p - 1) : out[w][p].window = Run(a, Upto(p)) /\ Upto(p) - a <= Longest

RankOK(w) == LinkOK(w) /\ ReadOK(w) /\ WindowOK(w) /\ HistoryOK(w) /\ NewestOK(w)

StreamInv == StreamTypeOK /\ (\A w \in Rank : RankOK(w)) /\ RanksAgree

-----------------------------------------------------------------------------
(* Runs of numbers.                                                        *)

\* A run is a sequence of its length; one that ends where it begins is empty.
LEMMA RunIsSeq ==
  ASSUME NEW a \in Nat, NEW b \in Nat, a <= b
  PROVE  /\ Run(a, b) \in Seq(Nat) /\ Len(Run(a, b)) = b - a
         /\ \A k \in 1 .. b - a : Run(a, b)[k] = a + k
         /\ (a = b) <=> (Run(a, b) = <<>>)
BY DEF Run

\* Projections are taken off at the front.
LEMMA RunErase ==
  ASSUME NEW a \in Nat, NEW b \in Nat, a <= b, NEW n \in Nat
  PROVE  Erase(Run(a, b), n) = IF a + n <= b THEN Run(a + n, b) ELSE <<>>
<1>1. Len(Run(a, b)) = b - a /\ Run(a, b) \in Seq(Nat)
  BY RunIsSeq
<1>2. CASE a + n <= b
  BY <1>1, <1>2 DEF Run, Erase
<1>3. CASE a + n > b
  BY <1>1, <1>3 DEF Run, Erase
<1> QED
  BY <1>2, <1>3

\* Taking off the front until a length is reached.
LEMMA RunEraseDownTo ==
  ASSUME NEW a \in Nat, NEW b \in Nat, a <= b, NEW n \in Nat
  PROVE  EraseDownTo(Run(a, b), n) = IF b - a > n THEN Run(b - n, b) ELSE Run(a, b)
<1>1. Len(Run(a, b)) = b - a
  BY RunIsSeq
<1>2. CASE b - a > n
  <2>1. EraseDownTo(Run(a, b), n) = Erase(Run(a, b), (b - a) - n)
    BY <1>1, <1>2 DEF EraseDownTo
  <2>2. (b - a) - n \in Nat /\ a + ((b - a) - n) = b - n
    BY <1>2
  <2> QED
    BY <1>2, <2>1, <2>2, RunErase
<1>3. CASE ~ b - a > n
  BY <1>1, <1>3 DEF EraseDownTo
<1> QED
  BY <1>2, <1>3

\* Two runs that meet are one.
LEMMA RunConcat ==
  ASSUME NEW a \in Nat, NEW b \in Nat, NEW c \in Nat, a <= b, b <= c
  PROVE  Run(a, b) \o Run(b, c) = Run(a, c)
<1>1. /\ Run(a, b) \in Seq(Nat) /\ Len(Run(a, b)) = b - a
      /\ Run(b, c) \in Seq(Nat) /\ Len(Run(b, c)) = c - b
  BY RunIsSeq
<1> DEFINE cat == Run(a, b) \o Run(b, c)
<1>2. cat \in Seq(Nat) /\ Len(cat) = c - a
  BY <1>1
<1>3. \A k \in 1 .. c - a : cat[k] = Run(a, c)[k]
  <2> SUFFICES ASSUME NEW k \in 1 .. c - a PROVE cat[k] = Run(a, c)[k]
    OBVIOUS
  <2>1. Run(a, c)[k] = a + k
    BY RunIsSeq
  <2>2. CASE k <= b - a
    <3>1. cat[k] = Run(a, b)[k] /\ k \in 1 .. b - a
      BY <1>1, <2>2
    <3>2. Run(a, b)[k] = a + k
      BY <3>1, RunIsSeq
    <3> QED
      BY <2>1, <3>1, <3>2
  <2>3. CASE k > b - a
    <3>1. cat[k] = Run(b, c)[k - (b - a)] /\ k - (b - a) \in 1 .. c - b
      BY <1>1, <2>3
    <3>2. Run(b, c)[k - (b - a)] = b + (k - (b - a))
      BY <3>1, RunIsSeq
    <3> QED
      BY <2>1, <3>1, <3>2
  <2>4. k <= b - a \/ k > b - a
    OBVIOUS
  <2> QED
    BY <2>2, <2>3, <2>4
<1> QED
  <2>1. Run(a, c) \in Seq(Nat) /\ Len(Run(a, c)) = c - a
    BY RunIsSeq
  <2> QED
    BY <1>2, <1>3, <2>1, SeqEqual

\* A run grows by the next number.
LEMMA RunAppend ==
  ASSUME NEW a \in Nat, NEW b \in Nat, a <= b
  PROVE  Append(Run(a, b), b + 1) = Run(a, b + 1)
<1>1. Run(a, b) \in Seq(Nat) /\ Len(Run(a, b)) = b - a
  BY RunIsSeq
<1> QED
  BY <1>1 DEF Run

\* The stream itself.
LEMMA Stream ==
  ASSUME NEW n \in Nat
  PROVE  /\ Run(0, n) \in Seq(Nat) /\ Len(Run(0, n)) = n
         /\ \A k \in 1 .. n : Run(0, n)[k] = k
         /\ Append(Run(0, n), n + 1) = Run(0, n + 1)
<1>1. 0 \in Nat /\ 0 <= n /\ n - 0 = n
  OBVIOUS
<1>2. Run(0, n) \in Seq(Nat) /\ Len(Run(0, n)) = n
  BY <1>1, RunIsSeq
<1>3. \A k \in 1 .. n : Run(0, n)[k] = k
  BY DEF Run
<1>4. Append(Run(0, n), n + 1) = Run(0, n + 1)
  BY <1>1, RunAppend
<1> QED
  BY <1>2, <1>3, <1>4

\* Append leaves what is there and adds one element.
LEMMA Appended ==
  ASSUME NEW S, NEW s \in Seq(S), NEW x \in S
  PROVE  /\ Append(s, x) \in Seq(S) /\ Len(Append(s, x)) = Len(s) + 1
         /\ Append(s, x)[Len(s) + 1] = x
         /\ \A k \in 1 .. Len(s) : Append(s, x)[k] = s[k]
OBVIOUS

-----------------------------------------------------------------------------
(* How far the reads get.                                                  *)

\* The types of the command line.
LEMMA Options ==
  ASSUME config \in Config
  PROVE  /\ config.len \in Nat /\ config.step \in Nat \ {0}
         /\ config.pub_freq \in Nat \ {0} /\ config.write_freq \in Nat \ {0}
         /\ Longest \in Nat
<1>1. /\ config.len \in Lens /\ config.step \in Steps
      /\ config.pub_freq \in Freqs /\ config.write_freq \in Freqs
  BY DEF Config
<1>2. config.len \in Nat /\ config.step \in Nat \ {0}
  BY <1>1, LensAssumption, StepsAssumption DEF LensAssumption, StepsAssumption
<1>3. config.pub_freq \in Nat \ {0} /\ config.write_freq \in Nat \ {0}
  BY <1>1, FreqsAssumption DEF FreqsAssumption
<1>4. Longest \in Nat
  BY <1>2 DEF Longest
<1> QED
  BY <1>2, <1>3, <1>4

\* A pass up to this one is this one or an earlier one.
LEMMA LastOrBefore ==
  ASSUME NEW n \in Nat, NEW q \in 1 .. n + 1
  PROVE  q = n + 1 \/ q \in 1 .. n
OBVIOUS

\* A read more is a step more.
LEMMA Times ==
  ASSUME NEW s \in Nat, NEW p \in Nat
  PROVE  s * p \in Nat /\ s * 0 = 0 /\ s * (p + 1) = s * p + s
OBVIOUS

\* One read more takes config.step projections, or what is left; if it is not
\* short then neither was any before it.
LEMMA UptoNext ==
  ASSUME config \in Config, Len(pushed) \in Nat, NEW p \in Nat
  PROVE  /\ Upto(p) \in 0 .. Len(pushed)
         /\ Upto(p + 1) = IF Upto(p) + config.step <= Len(pushed)
                          THEN Upto(p) + config.step ELSE Len(pushed)
         /\ Upto(p) + config.step <= Len(pushed) => config.step * (p + 1) <= Len(pushed)
         /\ Upto(0) = 0
<1>1. config.step \in Nat /\ config.step > 0
  BY Options
<1>2. /\ config.step * p \in Nat /\ config.step * 0 = 0
      /\ config.step * (p + 1) = config.step * p + config.step
  BY <1>1, Times
<1> QED
  BY <1>1, <1>2 DEF Upto

\* ReadSlidingWindow makes of the newest part of the stream, and of what it has
\* received, the newest part again, with everything received in it.
LEMMA SlidIsNewest ==
  ASSUME config \in Config,
         NEW a \in Nat, NEW b \in Nat, NEW c \in Nat,
         a <= b, b <= c, c - b <= config.step
  PROVE  \E d \in 0 .. b : /\ Slid(EraseDownTo(Run(a, b), config.len), Run(b, c)) = Run(d, c)
                           /\ c - d <= Longest
<1> DEFINE win == EraseDownTo(Run(a, b), config.len)
<1>0. config.len \in Nat /\ config.step \in Nat /\ config.step > 0
  BY Options
<1>1. PICK e \in Nat : e <= b /\ win = Run(e, b) /\ b - e <= config.len
  <2>0. win = IF b - a > config.len THEN Run(b - config.len, b) ELSE Run(a, b)
    BY <1>0, RunEraseDownTo
  <2>1. CASE b - a > config.len
    <3>1. b - config.len \in Nat /\ b - config.len <= b /\ b - (b - config.len) <= config.len
      BY <1>0, <2>1
    <3> QED
      BY <2>0, <2>1, <3>1
  <2>2. CASE ~ b - a > config.len
    <3>1. b - a <= config.len
      BY <1>0, <2>2
    <3> QED
      BY <2>0, <2>2, <3>1
  <2> QED
    BY <2>1, <2>2
<1>2. /\ Len(win) = b - e
      /\ win = <<>> <=> e = b
      /\ Run(b, c) = <<>> <=> b = c
  BY <1>1, RunIsSeq
<1>3. Erase(win, config.step) = IF e + config.step <= b THEN Run(e + config.step, b) ELSE <<>>
  BY <1>0, <1>1, RunErase
<1>4. Run(b, b) = <<>>
  BY RunIsSeq
<1>5. CASE b = c /\ e = b
  <2>1. Slid(win, Run(b, c)) = <<>>
    BY <1>2, <1>5 DEF Slid
  <2> QED
    BY <1>0, <1>4, <1>5, <2>1 DEF Longest
<1>6. CASE b = c /\ e # b
  <2>1. Slid(win, Run(b, c)) = Erase(win, config.step)
    BY <1>2, <1>6 DEF Slid
  <2>2. CASE e + config.step <= b
    BY <1>0, <1>1, <1>3, <1>6, <2>1, <2>2 DEF Longest
  <2>3. CASE ~ e + config.step <= b
    BY <1>0, <1>1, <1>3, <1>4, <1>6, <2>1, <2>3 DEF Longest
  <2> QED
    BY <2>2, <2>3
<1>7. CASE b # c /\ b - e < config.len
  <2>1. Slid(win, Run(b, c)) = win \o Run(b, c)
    BY <1>0, <1>1, <1>2, <1>7 DEF Slid
  <2>2. win \o Run(b, c) = Run(e, c)
    <3>1. Run(e, b) \o Run(b, c) = Run(e, c)
      BY <1>1, RunConcat
    <3> QED
      BY <1>1, <3>1
  <2>3. c - e <= Longest
    BY <1>0, <1>1, <1>7 DEF Longest
  <2> QED
    BY <1>0, <1>1, <2>1, <2>2, <2>3
<1>8. CASE b # c /\ b - e >= config.len
  <2>1. Slid(win, Run(b, c)) = Erase(win, config.step) \o Run(b, c)
    BY <1>0, <1>1, <1>2, <1>8 DEF Slid
  <2>2. CASE e + config.step <= b
    <3>1. Slid(win, Run(b, c)) = Run(e + config.step, c)
      <4>1. e + config.step \in Nat
        BY <1>0
      <4>2. Run(e + config.step, b) \o Run(b, c) = Run(e + config.step, c)
        BY <2>2, <4>1, RunConcat
      <4> QED
        BY <1>3, <2>1, <2>2, <4>2
    <3> QED
      BY <1>0, <1>1, <2>2, <3>1 DEF Longest
  <2>3. CASE ~ e + config.step <= b
    <3>1. Slid(win, Run(b, c)) = Run(b, c)
      BY <1>3, <1>4, <2>1, <2>3, RunConcat
    <3> QED
      BY <1>0, <3>1 DEF Longest
  <2> QED
    BY <2>2, <2>3
<1> QED
  BY <1>0, <1>1, <1>5, <1>6, <1>7, <1>8

-----------------------------------------------------------------------------
(* Ranks that a step does not concern.                                     *)

\* The state of rank w is the same after the step.
Same(w) == /\ got'[w] = got[w] /\ pc'[w] = pc[w] /\ passes'[w] = passes[w]
           /\ received'[w] = received[w] /\ window'[w] = window[w] /\ out'[w] = out[w]

\* What holds of a rank goes on holding while its variables and the stream stay.
LEMMA RankStays ==
  ASSUME NEW w \in Rank, RankOK(w), Same(w),
         config' = config, pushed' = pushed, closed => closed', (w \in stopped') = (w \in stopped)
  PROVE  RankOK(w)'
<1>1. \A p : Upto(p)' = Upto(p)
  BY DEF Upto
<1>2. Reads(w)' = Reads(w)
  BY DEF Reads, Same
<1>3. \A p : WindowOf(w, p)' = WindowOf(w, p)
  BY DEF WindowOf, Same
<1>4. \A p : NextWindow(w, p)' = NextWindow(w, p)
  BY <1>1, <1>3 DEF NextWindow, Slid, EraseDownTo, Erase
<1>5. LinkOK(w)'
  BY DEF RankOK, LinkOK, Same
<1>6. ReadOK(w)'
  BY <1>1, <1>2 DEF RankOK, ReadOK, Same
<1>7. WindowOK(w)'
  BY <1>1, <1>3, <1>4 DEF RankOK, WindowOK, Same
<1>8. HistoryOK(w)'
  BY <1>4 DEF RankOK, HistoryOK, Same
<1>9. NewestOK(w)'
  BY <1>1 DEF RankOK, NewestOK, Same, Longest
<1> QED
  BY <1>5, <1>6, <1>7, <1>8, <1>9 DEF RankOK

\* A step of one rank that emits nothing.
LEMMA OneRankMoves ==
  ASSUME StreamInv, StreamTypeOK', NEW w \in Rank, RankOK(w)',
         \A v \in Rank \ {w} : Same(v) /\ ((v \in stopped') = (v \in stopped)),
         config' = config, pushed' = pushed, closed' = closed, out' = out
  PROVE  StreamInv'
<1>1. \A v \in Rank : RankOK(v)'
  BY RankStays DEF StreamInv
<1>2. RanksAgree'
  BY DEF StreamInv, RanksAgree
<1> QED
  BY <1>1, <1>2 DEF StreamInv

-----------------------------------------------------------------------------
(* The steps.                                                              *)

\* Nothing is pushed and nobody has read.
LEMMA InitOK == Init => StreamInv
<1> SUFFICES ASSUME Init PROVE StreamInv
  OBVIOUS
<1>1. Run(0, 0) = <<>>
  BY RunIsSeq
<1>2. StreamTypeOK
  <2>1. pushed = <<>> /\ Len(pushed) = 0 /\ closed = FALSE /\ stopped = {} /\ config \in Config
    BY DEF Init, Link!Init
  <2>2. \A S : <<>> \in Seq(S)
    OBVIOUS
  <2>3. /\ received \in [Rank -> Seq(Nat)] /\ window \in [Rank -> Seq(Nat)]
        /\ got \in [Rank -> Seq(Nat)]
        /\ out \in [Rank -> Seq([window : Seq(Nat), published : BOOLEAN, written : BOOLEAN])]
    BY <2>2 DEF Init, Link!Init
  <2>4. pc \in [Rank -> Labels] /\ passes \in [Rank -> Nat]
    BY DEF Init, Labels
  <2> QED
    BY <1>1, <2>1, <2>3, <2>4 DEF StreamTypeOK
<1>3. ASSUME NEW w \in Rank PROVE RankOK(w)
  <2>1. Upto(0) = 0
    BY <1>2, UptoNext DEF StreamTypeOK
  <2>2. config.step * 0 = 0
    BY <1>2, Options, Times DEF StreamTypeOK
  <2>3. got[w] = <<>> /\ out[w] = <<>> /\ pc[w] = "read" /\ window[w] = <<>> /\ passes[w] = 0
        /\ pushed = <<>> /\ stopped = {}
    BY DEF Init, Link!Init
  <2>4. LinkOK(w)
    BY <1>1, <2>3 DEF LinkOK
  <2>5. ReadOK(w)
    BY <2>1, <2>2, <2>3 DEF ReadOK, Reads
  <2>6. WindowOK(w)
    BY <2>3 DEF WindowOK, WindowOf
  <2>7. HistoryOK(w) /\ NewestOK(w)
    BY <2>3 DEF HistoryOK, NewestOK
  <2> QED
    BY <2>4, <2>5, <2>6, <2>7 DEF RankOK
<1>4. RanksAgree
  BY DEF Init, RanksAgree
<1> QED
  BY <1>2, <1>3, <1>4 DEF StreamInv

\* A projection is pushed only when nothing was short so far, so that how far
\* the ranks have got does not depend on it.
LEMMA PushOK ==
  ASSUME StreamInv, PushNext
  PROVE  StreamInv'
<1>1. /\ ~ closed /\ closed' = closed /\ config' = config
      /\ pushed' = Append(pushed, Len(pushed) + 1)
      /\ \A w \in Rank : Same(w) /\ ((w \in stopped') = (w \in stopped))
      /\ UNCHANGED <<got, stopped, pc, passes, received, window, out>>
  BY DEF PushNext, Link!Push, Same
<1>2. /\ config \in Config /\ Len(pushed) \in Nat /\ pushed = Run(0, Len(pushed))
  BY DEF StreamInv, StreamTypeOK
<1>3. pushed' = Run(0, Len(pushed) + 1) /\ Len(pushed') = Len(pushed) + 1
  <2>1. pushed' = Run(0, Len(pushed) + 1)
    BY <1>1, <1>2, Stream
  <2>2. Len(Run(0, Len(pushed) + 1)) = Len(pushed) + 1
    <3>1. Len(pushed) + 1 \in Nat
      BY <1>2
    <3> QED
      BY <3>1, Stream
  <2> QED
    BY <2>1, <2>2
<1>4. StreamTypeOK'
  BY <1>1, <1>2, <1>3 DEF StreamInv, StreamTypeOK
<1>5. ASSUME NEW w \in Rank PROVE RankOK(w)'
  <2>1. RankOK(w) /\ Len(out[w]) \in Nat
    BY DEF StreamInv, StreamTypeOK
  <2>2. /\ Reads(w) \in {Len(out[w]), Len(out[w]) + 1} /\ Reads(w)' = Reads(w)
    BY <1>1 DEF Reads
  <2>3. \A p \in 0 .. Reads(w) : Upto(p)' = Upto(p) /\ config.step * p <= Len(pushed)
    <3> SUFFICES ASSUME NEW p \in 0 .. Reads(w)
                 PROVE  Upto(p)' = Upto(p) /\ config.step * p <= Len(pushed)
      OBVIOUS
    <3>1. config.step * p <= Len(pushed)
      BY <1>1, <2>1 DEF RankOK, ReadOK
    <3>2. config.step * p \in Nat
      BY <1>2, <2>1, <2>2, Options, Times
    <3> QED
      BY <1>1, <1>2, <1>3, <3>1, <3>2 DEF Upto
  <2>4. \A p : WindowOf(w, p)' = WindowOf(w, p)
    BY <1>1 DEF WindowOf
  <2>5. \A p \in 1 .. Reads(w) : NextWindow(w, p)' = NextWindow(w, p)
    <3> SUFFICES ASSUME NEW p \in 1 .. Reads(w) PROVE NextWindow(w, p)' = NextWindow(w, p)
      OBVIOUS
    <3>1. Upto(p)' = Upto(p) /\ Upto(p - 1)' = Upto(p - 1)
      BY <2>1, <2>2, <2>3
    <3> QED
      BY <1>1, <2>4, <3>1 DEF NextWindow, Slid, EraseDownTo, Erase
  <2>6. LinkOK(w)'
    BY <1>1, <1>2, <1>3, <2>1 DEF RankOK, LinkOK, StreamInv, StreamTypeOK
  <2>7. ReadOK(w)'
    <3>1. \A p \in 0 .. Reads(w)' : config'.step * p <= Len(pushed')
      <4> SUFFICES ASSUME NEW p \in 0 .. Reads(w) PROVE config.step * p <= Len(pushed) + 1
        BY <1>1, <1>3, <2>2
      <4>1. config.step * p <= Len(pushed) /\ config.step * p \in Nat
        BY <1>2, <2>1, <2>2, <2>3, Options, Times
      <4> QED
        BY <1>2, <4>1
    <3>2. Upto(Len(out[w]))' = Upto(Len(out[w])) /\ Upto(Reads(w))' = Upto(Reads(w))
      BY <2>1, <2>2, <2>3, <1>1
    <3> QED
      BY <1>1, <2>1, <2>2, <3>1, <3>2 DEF RankOK, ReadOK
  <2>8. WindowOK(w)'
    <3>1. pc[w] = "reconstruct" => NextWindow(w, Len(out[w]) + 1)' = NextWindow(w, Len(out[w]) + 1)
      BY <1>1, <2>1, <2>5 DEF Reads
    <3>2. pc[w] \in {"finalize", "destroy"} => /\ Upto(Len(out[w]) + 1)' = Upto(Len(out[w]) + 1)
                                           /\ Upto(Len(out[w]))' = Upto(Len(out[w]))
      BY <1>1, <2>1, <2>3 DEF Reads
    <3> QED
      BY <1>1, <2>1, <2>4, <3>1, <3>2 DEF RankOK, WindowOK
  <2>9. HistoryOK(w)'
    BY <1>1, <2>1, <2>2, <2>5 DEF RankOK, HistoryOK
  <2>10. NewestOK(w)'
    <3>1. \A p \in 1 .. Len(out[w]) : Upto(p)' = Upto(p) /\ Upto(p - 1)' = Upto(p - 1)
      BY <2>1, <2>2, <2>3
    <3> QED
      BY <1>1, <2>1, <3>1 DEF RankOK, NewestOK, Longest
  <2> QED
    BY <2>6, <2>7, <2>8, <2>9, <2>10 DEF RankOK
<1>6. RanksAgree'
  BY <1>1 DEF StreamInv, RanksAgree
<1> QED
  BY <1>4, <1>5, <1>6 DEF StreamInv

\* The stream ends; nothing is read by that.
LEMMA EndOK ==
  ASSUME StreamInv, EndOfData
  PROVE  StreamInv'
<1>1. /\ closed' = TRUE /\ config' = config
      /\ \A w \in Rank : Same(w) /\ ((w \in stopped') = (w \in stopped))
      /\ UNCHANGED <<pushed, got, stopped, pc, passes, received, window, out>>
  BY DEF EndOfData, Link!Close, Same
<1>2. StreamTypeOK'
  BY <1>1 DEF StreamInv, StreamTypeOK
<1>3. \A w \in Rank : RankOK(w)'
  BY <1>1, RankStays DEF StreamInv
<1>4. RanksAgree'
  BY <1>1 DEF StreamInv, RanksAgree
<1> QED
  BY <1>2, <1>3, <1>4 DEF StreamInv

\* The window that a pass makes is the same as long as what it is made of is.
LEMMA SameNextWindow ==
  ASSUME NEW w \in Rank, UNCHANGED config,
         \A q : Upto(q)' = Upto(q), \A q : WindowOf(w, q)' = WindowOf(w, q)
  PROVE  \A q : NextWindow(w, q)' = NextWindow(w, q)
BY ZenonT(40) DEF NextWindow, Slid, EraseDownTo, Erase

\* The window is cut before the read.
LEMMA MeetSizeOK ==
  ASSUME StreamInv, NEW w \in Rank, MeetSize(w)
  PROVE  StreamInv'
<1> DEFINE p == Len(out[w])
<1>1. /\ pc[w] = "read" /\ pc'[w] = "receive" /\ received'[w] = <<>>
      /\ window'[w] = EraseDownTo(window[w], config.len)
      /\ got'[w] = got[w] /\ passes'[w] = passes[w] /\ out'[w] = out[w]
      /\ \A v \in Rank \ {w} : Same(v) /\ ((v \in stopped') = (v \in stopped))
      /\ UNCHANGED <<config, pushed, got, closed, stopped, passes, out>>
  BY DEF MeetSize, Goto, linkVars, Same, StreamInv, StreamTypeOK
<1>2. /\ config \in Config /\ Len(pushed) \in Nat /\ p \in Nat /\ window[w] \in Seq(Nat)
      /\ RankOK(w)
  BY DEF StreamInv, StreamTypeOK
<1>3. /\ Upto(p) \in Nat /\ config.step \in Nat /\ config.step > 0 /\ config.len \in Nat
  <2>1. Upto(p) \in 0 .. Len(pushed)
    BY <1>2, UptoNext
  <2>2. config.step \in Nat \ {0} /\ config.len \in Nat
    BY <1>2, Options
  <2> QED
    BY <1>2, <2>1, <2>2
<1>4. StreamTypeOK'
  <2>1. EraseDownTo(window[w], config.len) \in Seq(Nat)
    <3>1. \A win \in Seq(Nat) : \A n \in Nat : SubSeq(win, n + 1, Len(win)) \in Seq(Nat)
      OBVIOUS
    <3>2. Len(window[w]) \in Nat
      BY <1>2
    <3>3. CASE Len(window[w]) > config.len
      <4>1. Len(window[w]) - config.len \in Nat
        BY <1>3, <3>2, <3>3
      <4> QED
        BY <1>2, <3>1, <3>3, <4>1 DEF EraseDownTo, Erase
    <3>4. CASE ~ Len(window[w]) > config.len
      BY <1>2, <3>4 DEF EraseDownTo
    <3> QED
      BY <3>3, <3>4
  <2>2. window' \in [Rank -> Seq(Nat)] /\ received' \in [Rank -> Seq(Nat)] /\ pc' \in [Rank -> Labels]
    BY <2>1 DEF MeetSize, Goto, StreamInv, StreamTypeOK, Labels
  <2> QED
    BY <1>1, <2>2 DEF StreamInv, StreamTypeOK
<1>5. \A q : Upto(q)' = Upto(q)
  BY <1>1 DEF Upto
<1>6. \A q : WindowOf(w, q)' = WindowOf(w, q)
  BY <1>1 DEF WindowOf
<1>7. \A q : NextWindow(w, q)' = NextWindow(w, q)
  BY <1>1, <1>5, <1>6, SameNextWindow
<1>8. Len(got[w]) = Upto(p) /\ Reads(w) = p /\ Reads(w)' = p
  BY <1>1, <1>2 DEF RankOK, ReadOK, Reads
<1>9. LinkOK(w)'
  BY <1>1, <1>2 DEF RankOK, LinkOK
<1>10. ReadOK(w)'
  <2>1. Run(Upto(p), Upto(p)) = <<>>
    BY <1>3, RunIsSeq
  <2> QED
    BY <1>1, <1>2, <1>3, <1>5, <1>8, <2>1 DEF RankOK, ReadOK
<1>11. WindowOK(w)'
  BY <1>1, <1>2, <1>6 DEF RankOK, WindowOK, EraseDownTo, Erase
<1>12. HistoryOK(w)'
  BY <1>1, <1>2, <1>7 DEF RankOK, HistoryOK
<1>13. NewestOK(w)'
  BY <1>1, <1>2, <1>5 DEF RankOK, NewestOK, Longest
<1> QED
  BY <1>1, <1>4, <1>9, <1>10, <1>11, <1>12, <1>13, OneRankMoves DEF RankOK

\* The read goes on, or it is complete and then was not short.
LEMMA ReceiveImageOK ==
  ASSUME StreamInv, NEW w \in Rank, ReceiveImage(w)
  PROVE  StreamInv'
<1> DEFINE p == Len(out[w])
           g == Len(got[w])
<1>1. /\ pc[w] = "receive" /\ got[w] # pushed
      /\ got'[w] = Append(got[w], pushed[g + 1])
      /\ received'[w] = Append(received[w], pushed[g + 1])
      /\ IF Len(received'[w]) < config.step THEN pc' = pc ELSE pc' = [pc EXCEPT ![w] = "slide"]
      /\ window'[w] = window[w] /\ passes'[w] = passes[w] /\ out'[w] = out[w]
      /\ \A v \in Rank \ {w} : Same(v) /\ ((v \in stopped') = (v \in stopped))
      /\ UNCHANGED <<config, pushed, closed, stopped, passes, window, out>>
  BY DEF ReceiveImage, Link!Deliver, Goto, Same, StreamInv, StreamTypeOK
<1>2. /\ config \in Config /\ Len(pushed) \in Nat /\ pushed = Run(0, Len(pushed))
      /\ p \in Nat /\ g \in Nat /\ RankOK(w)
  BY DEF StreamInv, StreamTypeOK
<1>3. /\ Upto(p) \in Nat /\ config.step \in Nat /\ config.step > 0
      /\ Upto(p) <= g /\ g < Upto(p) + config.step
      /\ received[w] = Run(Upto(p), g)
  <2>1. Upto(p) \in 0 .. Len(pushed)
    BY <1>2, UptoNext
  <2>2. config.step \in Nat \ {0}
    BY <1>2, Options
  <2>3. Upto(p) <= g /\ g < Upto(p) + config.step /\ received[w] = Run(Upto(p), g)
    BY <1>1, <1>2 DEF RankOK, ReadOK
  <2> QED
    BY <1>2, <2>1, <2>2, <2>3
<1>4. g < Len(pushed) /\ got[w] = Run(0, g)
  BY <1>1, <1>2 DEF RankOK, LinkOK
<1>5. pushed[g + 1] = g + 1
  <2>1. g + 1 \in 1 .. Len(pushed)
    BY <1>2, <1>4
  <2>2. Run(0, Len(pushed))[g + 1] = g + 1
    BY <1>2, <2>1, Stream
  <2> QED
    BY <1>2, <2>2
<1>6. got'[w] = Run(0, g + 1) /\ Len(got'[w]) = g + 1 /\ got'[w] \in Seq(Nat)
  <2>1. g + 1 \in Nat
    BY <1>2
  <2> QED
    BY <1>1, <1>2, <1>4, <1>5, <2>1, Stream
<1>7. /\ received'[w] = Run(Upto(p), g + 1) /\ received'[w] \in Seq(Nat)
      /\ Len(received'[w]) = (g + 1) - Upto(p)
  <2>1. g + 1 \in Nat /\ Upto(p) <= g + 1
    BY <1>2, <1>3
  <2>2. received'[w] = Run(Upto(p), g + 1)
    BY <1>1, <1>2, <1>3, <1>5, RunAppend
  <2>3. /\ Run(Upto(p), g + 1) \in Seq(Nat)
        /\ Len(Run(Upto(p), g + 1)) = (g + 1) - Upto(p)
    BY <1>3, <2>1, RunIsSeq
  <2> QED
    BY <2>2, <2>3
<1>8. StreamTypeOK'
  <2>1. got' \in [Rank -> Seq(Nat)]
    BY <1>2, <1>5 DEF ReceiveImage, Link!Deliver, StreamInv, StreamTypeOK
  <2>2. received' \in [Rank -> Seq(Nat)]
    BY <1>2, <1>5 DEF ReceiveImage, StreamInv, StreamTypeOK
  <2>3. pc' \in [Rank -> Labels]
    BY <1>1 DEF StreamInv, StreamTypeOK, Labels
  <2> QED
    BY <1>1, <2>1, <2>2, <2>3 DEF StreamInv, StreamTypeOK
<1>9. \A q : Upto(q)' = Upto(q)
  BY <1>1 DEF Upto
<1>10. \A q : WindowOf(w, q)' = WindowOf(w, q)
  BY <1>1 DEF WindowOf
<1>11. \A q : NextWindow(w, q)' = NextWindow(w, q)
  BY <1>1, <1>9, <1>10, SameNextWindow
<1>12. LinkOK(w)'
  <2>1. w \notin stopped
    BY <1>2, <1>4 DEF RankOK, LinkOK
  <2> QED
    BY <1>1, <1>2, <1>4, <1>6, <2>1 DEF LinkOK
<1>13. HistoryOK(w)'
  <2>1. pc'[w] # "write"
    BY <1>1 DEF StreamInv, StreamTypeOK
  <2> QED
    BY <1>1, <1>2, <1>11, <2>1 DEF RankOK, HistoryOK
<1>14. NewestOK(w)'
  BY <1>1, <1>2, <1>9 DEF RankOK, NewestOK, Longest
<1>15. Reads(w) = p
  BY <1>1 DEF Reads
<1>16. ReadOK(w)' /\ WindowOK(w)'
  <2>1. CASE Len(received'[w]) < config.step
    <3>1. pc'[w] = "receive" /\ Reads(w)' = p
      BY <1>1, <2>1 DEF Reads
    <3>2. ReadOK(w)'
      <4>1. Upto(p) <= g + 1 /\ g + 1 < Upto(p) + config.step
        BY <1>2, <1>3, <1>7, <2>1
      <4>2. \A q \in 0 .. Reads(w)' : config'.step * q <= Len(pushed') \/ closed'
        BY <1>1, <1>2, <1>15, <3>1 DEF RankOK, ReadOK
      <4> QED
        BY <1>1, <1>6, <1>7, <1>9, <3>1, <4>1, <4>2 DEF ReadOK
    <3>3. WindowOK(w)'
      BY <1>1, <1>2, <1>10, <3>1 DEF RankOK, WindowOK, EraseDownTo, Erase
    <3> QED
      BY <3>2, <3>3
  <2>2. CASE ~ Len(received'[w]) < config.step
    <3>1. pc'[w] = "slide" /\ Reads(w)' = p + 1
      BY <1>1, <2>2 DEF Reads, StreamInv, StreamTypeOK
    <3>2. g + 1 = Upto(p) + config.step
      BY <1>2, <1>3, <1>7, <2>2
    <3>3. Upto(p + 1) = g + 1 /\ config.step * (p + 1) <= Len(pushed)
      <4>1. /\ Upto(p + 1) = IF Upto(p) + config.step <= Len(pushed)
                             THEN Upto(p) + config.step ELSE Len(pushed)
            /\ Upto(p) + config.step <= Len(pushed) => config.step * (p + 1) <= Len(pushed)
        BY <1>2, UptoNext
      <4>2. Upto(p) + config.step <= Len(pushed)
        BY <1>2, <1>4, <3>2
      <4> QED
        BY <3>2, <4>1, <4>2
    <3>4. \A q \in 0 .. p + 1 : config.step * q <= Len(pushed) \/ closed
      BY <1>2, <1>15, <3>3 DEF RankOK, ReadOK
    <3>5. ReadOK(w)'
      BY <1>1, <1>6, <1>7, <1>9, <3>1, <3>3, <3>4 DEF ReadOK
    <3>6. WindowOK(w)'
      BY <1>1, <1>2, <1>10, <3>1 DEF RankOK, WindowOK, EraseDownTo, Erase
    <3> QED
      BY <3>5, <3>6
  <2> QED
    BY <2>1, <2>2
<1> QED
  BY <1>1, <1>2, <1>8, <1>12, <1>13, <1>14, <1>16, OneRankMoves DEF RankOK

\* The end is told only to a rank that has the whole stream: its read is short
\* because there is no more.
LEMMA ReceiveEndOK ==
  ASSUME StreamInv, NEW w \in Rank, ReceiveEnd(w)
  PROVE  StreamInv'
<1> DEFINE p == Len(out[w])
           g == Len(got[w])
<1>1. /\ pc[w] = "receive" /\ pc' = [pc EXCEPT ![w] = "slide"] /\ pc'[w] = "slide"
      /\ got' = got /\ received'[w] = received[w]
      /\ window'[w] = window[w] /\ passes'[w] = passes[w] /\ out'[w] = out[w]
      /\ \A v \in Rank \ {w} : Same(v) /\ ((v \in stopped') = (v \in stopped))
      /\ UNCHANGED <<config, pushed, closed, passes, received, window, out>>
      /\ stopped' \subseteq Rank
  BY DEF ReceiveEnd, Link!Stop, linkVars, Goto, Same, StreamInv, StreamTypeOK
<1>2. /\ config \in Config /\ Len(pushed) \in Nat /\ p \in Nat /\ g \in Nat /\ RankOK(w)
  BY DEF StreamInv, StreamTypeOK
<1>3. closed /\ g = Len(pushed)
  BY <1>2 DEF ReceiveEnd, Link!Stop, RankOK, LinkOK
<1>4. /\ Upto(p) <= g /\ g < Upto(p) + config.step /\ received[w] = Run(Upto(p), g)
  BY <1>1, <1>2 DEF RankOK, ReadOK
<1>5. Upto(p + 1) = g
  <2>1. /\ Upto(p) \in 0 .. Len(pushed)
        /\ Upto(p + 1) = IF Upto(p) + config.step <= Len(pushed)
                         THEN Upto(p) + config.step ELSE Len(pushed)
    BY <1>2, UptoNext
  <2>2. config.step \in Nat
    BY <1>2, Options
  <2> QED
    BY <1>2, <1>3, <1>4, <2>1, <2>2
<1>6. StreamTypeOK'
  <2>1. pc' \in [Rank -> Labels]
    BY <1>1 DEF StreamInv, StreamTypeOK, Labels
  <2> QED
    BY <1>1, <2>1 DEF StreamInv, StreamTypeOK
<1>7. \A q : Upto(q)' = Upto(q)
  BY <1>1 DEF Upto
<1>8. \A q : WindowOf(w, q)' = WindowOf(w, q)
  BY <1>1 DEF WindowOf
<1>9. \A q : NextWindow(w, q)' = NextWindow(w, q)
  BY <1>1, <1>7, <1>8, SameNextWindow
<1>10. LinkOK(w)'
  BY <1>1, <1>2, <1>3 DEF RankOK, LinkOK
<1>11. ReadOK(w)'
  <2>1. Reads(w)' = p + 1
    BY <1>1 DEF Reads
  <2> QED
    BY <1>1, <1>3, <1>4, <1>5, <1>7, <2>1 DEF ReadOK
<1>12. WindowOK(w)'
  BY <1>1, <1>2, <1>8 DEF RankOK, WindowOK, EraseDownTo, Erase
<1>13. HistoryOK(w)'
  BY <1>1, <1>2, <1>9 DEF RankOK, HistoryOK
<1>14. NewestOK(w)'
  BY <1>1, <1>2, <1>7 DEF RankOK, NewestOK, Longest
<1> QED
  BY <1>1, <1>6, <1>10, <1>11, <1>12, <1>13, <1>14, OneRankMoves DEF RankOK

\* The window that the last pass left is the newest part of what was read.
LEMMA LastIsNewest ==
  ASSUME StreamInv, NEW w \in Rank
  PROVE  \E a \in Nat : /\ a <= Upto(Len(out[w]))
                       /\ WindowOf(w, Len(out[w])) = Run(a, Upto(Len(out[w])))
                       /\ Upto(Len(out[w])) - a <= Longest
<1> DEFINE p == Len(out[w])
<1>1. /\ config \in Config /\ Len(pushed) \in Nat /\ p \in Nat /\ NewestOK(w)
  BY DEF StreamInv, StreamTypeOK, RankOK
<1>2. config.step \in Nat /\ config.step > 0 /\ Longest \in Nat
  BY <1>1, Options
<1>3. Upto(p) \in 0 .. Len(pushed) /\ Upto(0) = 0
  BY <1>1, UptoNext
<1>4. CASE p = 0
  <2>1. Run(0, 0) = <<>>
    BY RunIsSeq
  <2> QED
    BY <1>2, <1>3, <1>4, <2>1 DEF WindowOf
<1>5. CASE p # 0
  <2>1. PICK a \in 0 .. Upto(p - 1) : out[w][p].window = Run(a, Upto(p)) /\ Upto(p) - a <= Longest
    BY <1>1, <1>5 DEF NewestOK
  <2>2. Upto(p - 1) <= Upto(p) /\ Upto(p - 1) \in Nat
    <3>1. p - 1 \in Nat /\ (p - 1) + 1 = p
      BY <1>1, <1>5
    <3>2. /\ Upto(p - 1) \in 0 .. Len(pushed)
          /\ Upto((p - 1) + 1) = IF Upto(p - 1) + config.step <= Len(pushed)
                                 THEN Upto(p - 1) + config.step ELSE Len(pushed)
      BY <1>1, <3>1, UptoNext
    <3> QED
      BY <1>1, <1>2, <3>1, <3>2
  <2>3. a \in Nat /\ a <= Upto(p)
    BY <1>3, <2>2
  <2> QED
    BY <1>5, <2>1, <2>3 DEF WindowOf
<1> QED
  BY <1>4, <1>5

\* What the next pass makes of the window of the last one.
LEMMA NextIsNewest ==
  ASSUME StreamInv, NEW w \in Rank
  PROVE  \E d \in 0 .. Upto(Len(out[w])) :
           /\ NextWindow(w, Len(out[w]) + 1) = Run(d, Upto(Len(out[w]) + 1))
           /\ Upto(Len(out[w]) + 1) - d <= Longest
<1> DEFINE p == Len(out[w])
<1>1. /\ config \in Config /\ Len(pushed) \in Nat /\ p \in Nat /\ NewestOK(w)
  BY DEF StreamInv, StreamTypeOK, RankOK
<1>2. config.step \in Nat /\ config.step > 0
  BY <1>1, Options
<1>3. /\ Upto(p) \in 0 .. Len(pushed)
      /\ Upto(p + 1) = IF Upto(p) + config.step <= Len(pushed)
                       THEN Upto(p) + config.step ELSE Len(pushed)
      /\ Upto(0) = 0
  BY <1>1, UptoNext
<1>4. /\ Upto(p) \in Nat /\ Upto(p + 1) \in Nat /\ Upto(p) <= Upto(p + 1)
      /\ Upto(p + 1) - Upto(p) <= config.step
  BY <1>1, <1>2, <1>3
<1>5. PICK a \in Nat : a <= Upto(p) /\ WindowOf(w, p) = Run(a, Upto(p))
  BY LastIsNewest
<1>6. NextWindow(w, p + 1)
        = Slid(EraseDownTo(Run(a, Upto(p)), config.len), Run(Upto(p), Upto(p + 1)))
  <2>1. (p + 1) - 1 = p
    BY <1>1
  <2> QED
    BY <1>5, <2>1 DEF NextWindow
<1>7. PICK d \in 0 .. Upto(p) :
        /\ Slid(EraseDownTo(Run(a, Upto(p)), config.len), Run(Upto(p), Upto(p + 1)))
             = Run(d, Upto(p + 1))
        /\ Upto(p + 1) - d <= Longest
  BY <1>1, <1>4, <1>5, SlidIsNewest
<1> QED
  BY <1>6, <1>7

\* The window after the read is the one its pass has at every rank.
LEMMA SlideOK ==
  ASSUME StreamInv, NEW w \in Rank, Slide(w)
  PROVE  StreamInv'
<1> DEFINE p == Len(out[w])
<1>1. /\ pc[w] = "slide"
      /\ window' = [window EXCEPT ![w] = Slid(window[w], received[w])]
      /\ window'[w] = Slid(window[w], received[w])
      /\ pc' = [pc EXCEPT ![w] = IF window'[w] = <<>> THEN "finalize" ELSE "reconstruct"]
      /\ pc'[w] = IF window'[w] = <<>> THEN "finalize" ELSE "reconstruct"
      /\ \A v \in Rank \ {w} : Same(v) /\ ((v \in stopped') = (v \in stopped))
      /\ UNCHANGED <<config, pushed, got, closed, stopped, passes, received, out>>
  BY DEF Slide, linkVars, Goto, Same, StreamInv, StreamTypeOK
<1>2. /\ config \in Config /\ Len(pushed) \in Nat /\ p \in Nat /\ RankOK(w)
  BY DEF StreamInv, StreamTypeOK
<1>3. Reads(w) = p + 1 /\ Reads(w)' = p + 1
  BY <1>1 DEF Reads
<1>4. window'[w] = NextWindow(w, p + 1)
  <2>1. received[w] = Run(Upto(p), Upto(p + 1))
    BY <1>1, <1>2, <1>3 DEF RankOK, ReadOK
  <2>2. window[w] = EraseDownTo(WindowOf(w, p), config.len)
    BY <1>1, <1>2 DEF RankOK, WindowOK
  <2>3. (p + 1) - 1 = p
    BY <1>2
  <2> QED
    BY <1>1, <2>1, <2>2, <2>3 DEF NextWindow
<1>5. PICK d \in 0 .. Upto(p) : NextWindow(w, p + 1) = Run(d, Upto(p + 1))
  BY NextIsNewest
<1>6. Upto(p) \in Nat /\ Upto(p + 1) \in Nat /\ Upto(p) <= Upto(p + 1)
  <2>1. /\ Upto(p) \in 0 .. Len(pushed)
        /\ Upto(p + 1) = IF Upto(p) + config.step <= Len(pushed)
                         THEN Upto(p) + config.step ELSE Len(pushed)
    BY <1>2, UptoNext
  <2>2. config.step \in Nat
    BY <1>2, Options
  <2> QED
    BY <1>2, <2>1, <2>2
<1>7. /\ window'[w] \in Seq(Nat)
      /\ window'[w] = <<>> => Upto(p + 1) = Upto(p)
  <2>1. d \in Nat /\ d <= Upto(p + 1)
    BY <1>6
  <2>2. /\ Run(d, Upto(p + 1)) \in Seq(Nat)
        /\ Run(d, Upto(p + 1)) = <<>> => d = Upto(p + 1)
    BY <1>6, <2>1, RunIsSeq
  <2> QED
    BY <1>4, <1>5, <1>6, <2>2
<1>8. StreamTypeOK'
  <2>1. window' \in [Rank -> Seq(Nat)]
    BY <1>1, <1>7 DEF StreamInv, StreamTypeOK
  <2>2. pc' \in [Rank -> Labels]
    BY <1>1 DEF StreamInv, StreamTypeOK, Labels
  <2> QED
    BY <1>1, <2>1, <2>2 DEF StreamInv, StreamTypeOK
<1>9. \A q : Upto(q)' = Upto(q)
  BY <1>1 DEF Upto
<1>10. \A q : WindowOf(w, q)' = WindowOf(w, q)
  BY <1>1 DEF WindowOf
<1>11. \A q : NextWindow(w, q)' = NextWindow(w, q)
  BY <1>1, <1>9, <1>10, SameNextWindow
<1>12. LinkOK(w)'
  BY <1>1, <1>2 DEF RankOK, LinkOK
<1>13. ReadOK(w)'
  BY <1>1, <1>2, <1>3, <1>9 DEF RankOK, ReadOK
<1>14. WindowOK(w)'
  <2>1. pc'[w] = "reconstruct" => window'[w] = NextWindow(w, p + 1)'
    <3>1. NextWindow(w, p + 1)' = NextWindow(w, p + 1)
      BY <1>1, <1>2, <1>11
    <3> QED
      BY <1>4, <3>1
  <2>2. pc'[w] \in {"finalize", "destroy"} => window'[w] = <<>> /\ Upto(p + 1)' = Upto(p)'
    BY <1>1, <1>7, <1>9
  <2>3. pc'[w] \in {"finalize", "reconstruct"}
    BY <1>1
  <2> QED
    BY <1>1, <2>1, <2>2, <2>3 DEF WindowOK
<1>15. HistoryOK(w)'
  <2>1. pc'[w] # "write" /\ passes'[w] = passes[w] /\ out'[w] = out[w]
    BY <1>1
  <2> QED
    BY <1>1, <1>2, <1>11, <2>1 DEF RankOK, HistoryOK
<1>16. NewestOK(w)'
  BY <1>1, <1>2, <1>9 DEF RankOK, NewestOK, Longest
<1> QED
  BY <1>1, <1>8, <1>12, <1>13, <1>14, <1>15, <1>16, OneRankMoves DEF RankOK

\* A pass that another rank has already done comes out the same here.
LEMMA ReconstructOK ==
  ASSUME StreamInv, NEW w \in Rank, Reconstruct(w)
  PROVE  StreamInv'
<1> DEFINE p == Len(out[w])
           pass == [window |-> window[w], published |-> Due(w, config.pub_freq),
                    written |-> Due(w, config.write_freq)]
<1>1. /\ pc[w] = "reconstruct"
      /\ out' = [out EXCEPT ![w] = Append(out[w], pass)]
      /\ out'[w] = Append(out[w], pass)
      /\ \/ pc' = [pc EXCEPT ![w] = "write"] /\ pc'[w] = "write" /\ passes' = passes
         \/ /\ pc' = [pc EXCEPT ![w] = "read"] /\ pc'[w] = "read"
            /\ passes' = [passes EXCEPT ![w] = passes[w] + 1] /\ passes'[w] = passes[w] + 1
      /\ \A v \in Rank \ {w} : Same(v) /\ ((v \in stopped') = (v \in stopped))
      /\ UNCHANGED <<config, pushed, got, closed, stopped, received, window>>
  BY DEF Reconstruct, linkVars, Goto, Same, StreamInv, StreamTypeOK
<1>2. /\ config \in Config /\ Len(pushed) \in Nat /\ p \in Nat /\ RankOK(w)
      /\ out[w] \in Seq([window : Seq(Nat), published : BOOLEAN, written : BOOLEAN])
      /\ passes[w] \in Nat
      /\ pass \in [window : Seq(Nat), published : BOOLEAN, written : BOOLEAN]
  BY DEF StreamInv, StreamTypeOK, Due
<1>3. /\ Len(out'[w]) = p + 1 /\ out'[w][p + 1] = pass
      /\ \A q \in 1 .. p : out'[w][q] = out[w][q]
      /\ out'[w] \in Seq([window : Seq(Nat), published : BOOLEAN, written : BOOLEAN])
  <2> DEFINE S == [window : Seq(Nat), published : BOOLEAN, written : BOOLEAN]
  <2> HIDE DEF S, pass
  <2>1. out[w] \in Seq(S) /\ pass \in S
    BY <1>2 DEF S
  <2>2. /\ Append(out[w], pass) \in Seq(S) /\ Len(Append(out[w], pass)) = Len(out[w]) + 1
        /\ Append(out[w], pass)[Len(out[w]) + 1] = pass
        /\ \A k \in 1 .. Len(out[w]) : Append(out[w], pass)[k] = out[w][k]
    BY <2>1, Appended
  <2> QED
    BY <1>1, <2>2 DEF S
<1>4. Reads(w) = p + 1 /\ Reads(w)' = p + 1
  BY <1>1, <1>3 DEF Reads
<1>5. /\ pass.window = NextWindow(w, p + 1) /\ passes[w] = p
      /\ pass.published = (((p + 1) - 1) % config.pub_freq = 0)
      /\ pass.written = (((p + 1) - 1) % config.write_freq = 0)
  <2>1. window[w] = NextWindow(w, p + 1) /\ passes[w] = p
    BY <1>1, <1>2 DEF RankOK, WindowOK, HistoryOK
  <2>2. (p + 1) - 1 = p
    BY <1>2
  <2> QED
    BY <2>1, <2>2 DEF Due
<1>6. StreamTypeOK'
  <2>1. out' \in [Rank -> Seq([window : Seq(Nat), published : BOOLEAN, written : BOOLEAN])]
    BY <1>1, <1>3 DEF StreamInv, StreamTypeOK
  <2>2. pc \in [Rank -> Labels] /\ passes \in [Rank -> Nat] /\ passes[w] + 1 \in Nat
        /\ "write" \in Labels /\ "read" \in Labels
    BY <1>2 DEF StreamInv, StreamTypeOK, Labels
  <2>3. pc' \in [Rank -> Labels] /\ passes' \in [Rank -> Nat]
    <3>1. CASE pc' = [pc EXCEPT ![w] = "write"] /\ passes' = passes
      BY <2>2, <3>1
    <3>2. CASE pc' = [pc EXCEPT ![w] = "read"] /\ passes' = [passes EXCEPT ![w] = passes[w] + 1]
      BY <2>2, <3>2
    <3> QED
      BY <1>1, <3>1, <3>2
  <2> QED
    BY <1>1, <2>1, <2>3 DEF StreamInv, StreamTypeOK
<1>7. \A q : Upto(q)' = Upto(q)
  BY <1>1 DEF Upto
<1>8. \A q \in 0 .. p : WindowOf(w, q)' = WindowOf(w, q)
  <2> SUFFICES ASSUME NEW q \in 0 .. p PROVE WindowOf(w, q)' = WindowOf(w, q)
    OBVIOUS
  <2>1. CASE q = 0
    BY <2>1 DEF WindowOf
  <2>2. CASE q # 0
    <3>1. q \in 1 .. p
      BY <1>2, <2>2
    <3>2. out'[w][q] = out[w][q]
      BY <1>3, <3>1
    <3> QED
      BY <2>2, <3>2 DEF WindowOf
  <2> QED
    BY <2>1, <2>2
<1>9. \A q \in 1 .. p + 1 : NextWindow(w, q)' = NextWindow(w, q)
  <2> SUFFICES ASSUME NEW q \in 1 .. p + 1 PROVE NextWindow(w, q)' = NextWindow(w, q)
    OBVIOUS
  <2>1. WindowOf(w, q - 1)' = WindowOf(w, q - 1)
    BY <1>2, <1>8
  <2> QED
    BY <1>1, <1>7, <2>1 DEF NextWindow, Slid, EraseDownTo, Erase
<1>10. LinkOK(w)'
  BY <1>1, <1>2 DEF RankOK, LinkOK
<1>11. ReadOK(w)'
  BY <1>1, <1>2, <1>4, <1>7 DEF RankOK, ReadOK
<1>12. WindowOK(w)'
  <2>1. WindowOf(w, Len(out[w]))' = window[w]
    BY <1>2, <1>3 DEF WindowOf
  <2> QED
    BY <1>1, <2>1 DEF WindowOK
<1>13. HistoryOK(w)'
  <2>1. ASSUME NEW q \in 1 .. p + 1
        PROVE  /\ out'[w][q].window = NextWindow(w, q)'
               /\ out'[w][q].published = ((q - 1) % config'.pub_freq = 0)
               /\ out'[w][q].written = ((q - 1) % config'.write_freq = 0)
    <3>1. NextWindow(w, q)' = NextWindow(w, q)
      BY <1>9
    <3>2. CASE q = p + 1
      <4>1. out'[w][q] = pass /\ config' = config
        BY <1>1, <1>3, <3>2
      <4>2. /\ pass.window = NextWindow(w, q)
            /\ pass.published = ((q - 1) % config.pub_freq = 0)
            /\ pass.written = ((q - 1) % config.write_freq = 0)
        BY <1>5, <3>2
      <4> HIDE DEF pass
      <4> QED
        BY <3>1, <4>1, <4>2
    <3>3. CASE q \in 1 .. p
      <4>1. out'[w][q] = out[w][q] /\ config' = config
        BY <1>1, <1>3, <3>3
      <4>2. /\ out[w][q].window = NextWindow(w, q)
            /\ out[w][q].published = ((q - 1) % config.pub_freq = 0)
            /\ out[w][q].written = ((q - 1) % config.write_freq = 0)
        BY <1>2, <3>3 DEF RankOK, HistoryOK
      <4> QED
        BY <3>1, <4>1, <4>2
    <3>4. q = p + 1 \/ q \in 1 .. p
      BY <1>2, <2>1, LastOrBefore
    <3> QED
      BY <3>2, <3>3, <3>4
  <2>2. passes'[w] = IF pc'[w] = "write" THEN Len(out'[w]) - 1 ELSE Len(out'[w])
    BY <1>1, <1>2, <1>3, <1>5
  <2> QED
    BY <1>3, <2>1, <2>2 DEF HistoryOK
<1>14. NewestOK(w)'
  <2>1. ASSUME NEW q \in 1 .. p + 1
        PROVE  \E a \in 0 .. Upto(q - 1) : out'[w][q].window = Run(a, Upto(q)) /\ Upto(q) - a <= Longest
    <3>1. CASE q = p + 1
      <4>1. PICK d \in 0 .. Upto(p) : /\ NextWindow(w, p + 1) = Run(d, Upto(p + 1))
                                      /\ Upto(p + 1) - d <= Longest
        BY NextIsNewest
      <4>2. q - 1 = p
        BY <1>2, <3>1
      <4>3. out'[w][q].window = Run(d, Upto(q))
        <5>1. out'[w][q] = pass
          BY <1>3, <3>1
        <5>2. pass.window = Run(d, Upto(q))
          BY <1>5, <3>1, <4>1
        <5> HIDE DEF pass
        <5> QED
          BY <5>1, <5>2
      <4>4. Upto(q) - d <= Longest /\ d \in 0 .. Upto(q - 1)
        BY <3>1, <4>1, <4>2
      <4> QED
        BY <4>3, <4>4
    <3>2. CASE q \in 1 .. p
      BY <1>2, <1>3, <3>2 DEF RankOK, NewestOK
    <3>3. q = p + 1 \/ q \in 1 .. p
      BY <1>2, <2>1, LastOrBefore
    <3> QED
      BY <3>1, <3>2, <3>3
  <2>2. Longest' = Longest
    BY <1>1 DEF Longest
  <2> QED
    BY <1>3, <1>7, <2>1, <2>2 DEF NewestOK
<1>15. \A v \in Rank : RankOK(v)'
  BY <1>1, <1>10, <1>11, <1>12, <1>13, <1>14, RankStays DEF StreamInv, RankOK
<1>16. RanksAgree'
  <2>1. ASSUME NEW v \in Rank \ {w}, NEW q \in DOMAIN out[v], q \in 1 .. p + 1
        PROVE  out'[w][q] = out[v][q]
    <3>1. /\ out[v] \in Seq([window : Seq(Nat), published : BOOLEAN, written : BOOLEAN])
          /\ q \in 1 .. Len(out[v])
      BY DEF StreamInv, StreamTypeOK
    <3>2. CASE q \in 1 .. p
      <4>1. out[w][q] = out[v][q]
        BY <1>2, <3>2 DEF StreamInv, RanksAgree
      <4> QED
        BY <1>3, <3>2, <4>1
    <3>3. CASE q = p + 1
      <4>1. WindowOf(v, p) = WindowOf(w, p)
        <5>1. CASE p = 0
          BY <5>1 DEF WindowOf
        <5>2. CASE p # 0
          <6>1. p \in DOMAIN out[v] /\ p \in DOMAIN out[w]
            BY <1>2, <3>1, <3>3, <5>2
          <6>2. out[v][p] = out[w][p]
            BY <6>1 DEF StreamInv, RanksAgree
          <6> QED
            BY <6>2 DEF WindowOf
        <5> QED
          BY <5>1, <5>2
      <4>2. NextWindow(v, p + 1) = NextWindow(w, p + 1)
        <5>1. (p + 1) - 1 = p
          BY <1>2
        <5> QED
          BY <4>1, <5>1 DEF NextWindow
      <4>3. /\ out[v][p + 1].window = NextWindow(v, p + 1)
            /\ out[v][p + 1].published = (((p + 1) - 1) % config.pub_freq = 0)
            /\ out[v][p + 1].written = (((p + 1) - 1) % config.write_freq = 0)
        BY <3>1, <3>3 DEF StreamInv, RankOK, HistoryOK
      <4>4. out[v][p + 1] \in [window : Seq(Nat), published : BOOLEAN, written : BOOLEAN]
        <5>1. p + 1 \in 1 .. Len(out[v])
          BY <3>1, <3>3
        <5> QED
          BY <3>1, <5>1, ElementOfSeq
      <4>5. out[v][p + 1] = pass
        BY <1>2, <1>5, <4>2, <4>3, <4>4
      <4> QED
        BY <1>3, <3>3, <4>5
    <3>4. q = p + 1 \/ q \in 1 .. p
      BY <1>2, <2>1, LastOrBefore
    <3> QED
      BY <3>2, <3>3, <3>4
  <2>2. DOMAIN out'[w] = 1 .. p + 1
    BY <1>3
  <2>3. \A v \in Rank \ {w} : out'[v] = out[v]
    BY <1>1 DEF Same
  <2> QED
    BY <2>1, <2>2, <2>3 DEF StreamInv, RanksAgree
<1> QED
  BY <1>6, <1>15, <1>16 DEF StreamInv

\* All ranks leave the collective write together, and count the pass.
LEMMA WriteOK ==
  ASSUME StreamInv, WriteRecon
  PROVE  StreamInv'
<1>1. /\ \A w \in Rank : pc[w] = "write" /\ pc'[w] = "read" /\ passes'[w] = passes[w] + 1
      /\ pc' = [w \in Rank |-> "read"]
      /\ passes' = [w \in Rank |-> passes[w] + 1]
      /\ UNCHANGED <<config, pushed, got, closed, stopped, received, window, out>>
  BY DEF WriteRecon, linkVars
<1>2. StreamTypeOK'
  <2>1. pc' \in [Rank -> Labels]
    BY <1>1 DEF Labels
  <2>2. passes' \in [Rank -> Nat]
    BY <1>1 DEF StreamInv, StreamTypeOK
  <2> QED
    BY <1>1, <2>1, <2>2 DEF StreamInv, StreamTypeOK
<1>3. ASSUME NEW w \in Rank PROVE RankOK(w)'
  <2>1. RankOK(w) /\ Len(out[w]) \in Nat /\ Reads(w)' = Reads(w)
    BY <1>1 DEF StreamInv, StreamTypeOK, Reads
  <2>2. \A q : Upto(q)' = Upto(q)
    BY <1>1 DEF Upto
  <2>3. \A q : WindowOf(w, q)' = WindowOf(w, q)
    BY <1>1 DEF WindowOf
  <2>4. \A q : NextWindow(w, q)' = NextWindow(w, q)
    BY <1>1, <2>2, <2>3, SameNextWindow
  <2>5. LinkOK(w)'
    BY <1>1, <2>1 DEF RankOK, LinkOK
  <2>6. ReadOK(w)'
    BY <1>1, <2>1, <2>2 DEF RankOK, ReadOK
  <2>7. WindowOK(w)'
    BY <1>1, <2>1, <2>3 DEF RankOK, WindowOK
  <2>8. HistoryOK(w)'
    BY <1>1, <2>1, <2>4 DEF RankOK, HistoryOK
  <2>9. NewestOK(w)'
    BY <1>1, <2>1, <2>2 DEF RankOK, NewestOK, Longest
  <2> QED
    BY <2>5, <2>6, <2>7, <2>8, <2>9 DEF RankOK
<1>4. RanksAgree'
  BY <1>1 DEF StreamInv, RanksAgree
<1> QED
  BY <1>2, <1>3, <1>4 DEF StreamInv

\* The ranks leave together too.
LEMMA FinalizeOK ==
  ASSUME StreamInv, Finalize
  PROVE  StreamInv'
<1>1. /\ \A w \in Rank : pc[w] = "finalize" /\ pc'[w] = "destroy"
      /\ pc' = [w \in Rank |-> "destroy"]
      /\ UNCHANGED <<config, pushed, got, closed, stopped, passes, received, window, out>>
  BY DEF Finalize, linkVars
<1>2. StreamTypeOK'
  <2>1. pc' \in [Rank -> Labels]
    BY <1>1 DEF Labels
  <2> QED
    BY <1>1, <2>1 DEF StreamInv, StreamTypeOK
<1>3. ASSUME NEW w \in Rank PROVE RankOK(w)'
  <2>1. RankOK(w) /\ Len(out[w]) \in Nat /\ Reads(w)' = Reads(w)
    BY <1>1 DEF StreamInv, StreamTypeOK, Reads
  <2>2. \A q : Upto(q)' = Upto(q)
    BY <1>1 DEF Upto
  <2>3. \A q : WindowOf(w, q)' = WindowOf(w, q)
    BY <1>1 DEF WindowOf
  <2>4. \A q : NextWindow(w, q)' = NextWindow(w, q)
    BY <1>1, <2>2, <2>3, SameNextWindow
  <2>5. LinkOK(w)'
    BY <1>1, <2>1 DEF RankOK, LinkOK
  <2>6. ReadOK(w)'
    BY <1>1, <2>1, <2>2 DEF RankOK, ReadOK
  <2>7. WindowOK(w)'
    BY <1>1, <2>1, <2>2 DEF RankOK, WindowOK
  <2>8. HistoryOK(w)'
    BY <1>1, <2>1, <2>4 DEF RankOK, HistoryOK
  <2>9. NewestOK(w)'
    BY <1>1, <2>1, <2>2 DEF RankOK, NewestOK, Longest
  <2> QED
    BY <2>5, <2>6, <2>7, <2>8, <2>9 DEF RankOK
<1>4. RanksAgree'
  BY <1>1 DEF StreamInv, RanksAgree
<1> QED
  BY <1>2, <1>3, <1>4 DEF StreamInv

\* Every step preserves the invariant.
LEMMA NextOK == StreamInv /\ [Next]_vars => StreamInv'
<1> SUFFICES ASSUME StreamInv, [Next]_vars PROVE StreamInv'
  OBVIOUS
<1>1. CASE PushNext
  BY <1>1, PushOK
<1>2. CASE EndOfData
  BY <1>2, EndOK
<1>3. ASSUME NEW w \in Rank, RankStep(w) PROVE StreamInv'
  BY <1>3, MeetSizeOK, ReceiveImageOK, ReceiveEndOK, SlideOK, ReconstructOK DEF RankStep
<1>4. CASE WriteRecon
  BY <1>4, WriteOK
<1>5. CASE Finalize
  BY <1>5, FinalizeOK
<1>6. CASE UNCHANGED vars
  <2>1. \A w \in Rank : Same(w)
    BY <1>6 DEF vars, Same
  <2>2. StreamTypeOK' /\ RanksAgree'
    BY <1>6 DEF vars, StreamInv, StreamTypeOK, RanksAgree
  <2>3. \A w \in Rank : RankOK(w)'
    BY <1>6, <2>1, RankStays DEF vars, StreamInv
  <2> QED
    BY <2>2, <2>3 DEF StreamInv
<1> QED
  BY <1>1, <1>2, <1>3, <1>4, <1>5, <1>6 DEF Next, Finished

\* The inductive invariant, for any number of ranks and any command line.
THEOREM StreamInvariant == Spec => []StreamInv
BY InitOK, NextOK, PTL DEF Spec, Safe

-----------------------------------------------------------------------------
(* What follows.                                                           *)

\* The passes of any two ranks are the same as far as both have come, whatever
\* their speeds: the blocks of rows of one pass belong to one volume.
THEOREM Agreement == Spec => []RanksAgree
<1>1. StreamInv => RanksAgree
  BY DEF StreamInv
<1> QED
  BY <1>1, StreamInvariant, PTL

\* The newest part of the stream, in the words of WindowIsNewest.
LEMMA NewestPart ==
  ASSUME NEW a \in Nat, NEW n \in Nat, a <= n
  PROVE  /\ Len(Run(a, n)) = n - a
         /\ Run(a, n) = SubSeq(Run(0, n), n - (n - a) + 1, n)
<1>1. /\ Len(Run(a, n)) = n - a /\ Run(a, n) \in Seq(Nat)
      /\ \A k \in 1 .. n - a : Run(a, n)[k] = a + k
  BY RunIsSeq
<1>2. n - (n - a) + 1 = a + 1
  OBVIOUS
<1>3. Run(a, n) = SubSeq(Run(0, n), a + 1, n)
  BY DEF Run
<1> QED
  BY <1>1, <1>2, <1>3

\* The beginning of the stream.
LEMMA Prefix ==
  ASSUME NEW m \in Nat, NEW n \in Nat, m <= n
  PROVE  SubSeq(Run(0, n), 1, m) = Run(0, m)
BY DEF Run

\* At every place in a pass the window is the newest part of what was read
\* before the read under way, whole and in order, and no longer than one step
\* makes it.
THEOREM NewestWindow == Spec => []WindowIsNewest
<1>1. ASSUME StreamInv, NEW w \in Rank
      PROVE  LET unread == IF pc[w] \in {"receive", "slide"} THEN Len(received[w]) ELSE 0
                 seen   == SubSeq(got[w], 1, Len(got[w]) - unread)
             IN  /\ Len(window[w]) <= Len(seen)
                 /\ window[w] = SubSeq(seen, Len(seen) - Len(window[w]) + 1, Len(seen))
                 /\ Len(window[w]) <= (IF config.len = 0 THEN 0 ELSE config.len - 1) + config.step
  <2> DEFINE p == Len(out[w])
             g == Len(got[w])
             unread == IF pc[w] \in {"receive", "slide"} THEN Len(received[w]) ELSE 0
             seen   == SubSeq(got[w], 1, Len(got[w]) - unread)
  <2>1. /\ config \in Config /\ Len(pushed) \in Nat /\ p \in Nat /\ g \in Nat
        /\ RankOK(w) /\ pc[w] \in Labels /\ got[w] = Run(0, g)
    BY <1>1 DEF StreamInv, StreamTypeOK, RankOK, LinkOK
  <2>2. /\ Upto(p) \in Nat /\ Upto(p + 1) \in Nat /\ Upto(p) <= Upto(p + 1)
        /\ config.len \in Nat /\ config.step \in Nat /\ Longest \in Nat
    <3>1. config.len \in Nat /\ config.step \in Nat /\ Longest \in Nat
      BY <2>1, Options
    <3>2. /\ Upto(p) \in 0 .. Len(pushed)
          /\ Upto(p + 1) = IF Upto(p) + config.step <= Len(pushed)
                           THEN Upto(p) + config.step ELSE Len(pushed)
      BY <2>1, UptoNext
    <3> QED
      BY <2>1, <3>1, <3>2
  <2>3. PICK a \in Nat : /\ a <= Upto(p) /\ WindowOf(w, p) = Run(a, Upto(p))
                         /\ Upto(p) - a <= Longest
    BY <1>1, LastIsNewest
  <2>4. PICK m \in Nat, b \in Nat : /\ b <= m /\ m - b <= Longest /\ m = g - unread /\ m <= g
                                    /\ window[w] = Run(b, m)
    <3>1. CASE pc[w] \in {"read", "write"}
      <4>1. g = Upto(p) /\ unread = 0
        BY <2>1, <3>1 DEF RankOK, ReadOK, Reads
      <4>2. window[w] = WindowOf(w, p)
        BY <2>1, <3>1 DEF RankOK, WindowOK
      <4> QED
        BY <2>2, <2>3, <4>1, <4>2
    <3>2. CASE pc[w] \in {"receive", "slide"}
      <4>1. received[w] = Run(Upto(p), g) /\ Upto(p) <= g
        BY <2>1, <2>2, <3>2 DEF RankOK, ReadOK, Reads
      <4>2. unread = g - Upto(p)
        BY <2>1, <2>2, <3>2, <4>1, RunIsSeq
      <4>3. window[w] = IF Upto(p) - a > config.len THEN Run(Upto(p) - config.len, Upto(p))
                                                   ELSE Run(a, Upto(p))
        <5>1. window[w] = EraseDownTo(Run(a, Upto(p)), config.len)
          BY <2>1, <2>3, <3>2 DEF RankOK, WindowOK
        <5> QED
          BY <2>2, <2>3, <5>1, RunEraseDownTo
      <4>4. g - unread = Upto(p)
        <5>1. \A x, y \in Nat : x - (x - y) = y
          OBVIOUS
        <5> HIDE DEF unread
        <5> QED
          BY <2>1, <2>2, <4>2, <5>1
      <4>5. CASE Upto(p) - a > config.len
        <5>1. /\ Upto(p) - config.len \in Nat /\ Upto(p) - config.len <= Upto(p)
              /\ Upto(p) - (Upto(p) - config.len) <= Longest
          BY <2>2, <2>3, <4>5
        <5> QED
          BY <2>2, <4>1, <4>3, <4>4, <4>5, <5>1
      <4>6. CASE ~ Upto(p) - a > config.len
        BY <2>2, <2>3, <4>1, <4>3, <4>4, <4>6
      <4> QED
        BY <4>5, <4>6
    <3>3. CASE pc[w] = "reconstruct"
      <4>1. g = Upto(p + 1) /\ unread = 0
        BY <2>1, <3>3 DEF RankOK, ReadOK, Reads
      <4>2. window[w] = NextWindow(w, p + 1)
        BY <2>1, <3>3 DEF RankOK, WindowOK
      <4>3. PICK d \in 0 .. Upto(p) : /\ NextWindow(w, p + 1) = Run(d, Upto(p + 1))
                                      /\ Upto(p + 1) - d <= Longest
        BY <1>1, NextIsNewest
      <4>4. d \in Nat /\ d <= Upto(p + 1)
        BY <2>2
      <4> QED
        BY <2>2, <4>1, <4>2, <4>3, <4>4
    <3>4. CASE pc[w] \in {"finalize", "destroy"}
      <4>1. g = Upto(p + 1) /\ unread = 0
        BY <2>1, <3>4 DEF RankOK, ReadOK, Reads
      <4>2. window[w] = <<>>
        BY <2>1, <3>4 DEF RankOK, WindowOK
      <4>3. Run(Upto(p + 1), Upto(p + 1)) = <<>> /\ Upto(p + 1) - Upto(p + 1) <= Longest
        <5>1. \A x \in Nat : Run(x, x) = <<>>
          BY RunIsSeq
        <5>2. \A x, y \in Nat : x - x <= y
          OBVIOUS
        <5> QED
          BY <2>2, <5>1, <5>2
      <4> QED
        BY <2>2, <4>1, <4>2, <4>3
    <3> QED
      BY <2>1, <3>1, <3>2, <3>3, <3>4 DEF Labels
  <2>5. seen = Run(0, m)
    BY <2>1, <2>4, Prefix
  <2>6. Len(seen) = m
    BY <2>5, Stream
  <2>7. Len(window[w]) = m - b /\ window[w] = SubSeq(seen, m - (m - b) + 1, m)
    BY <2>4, <2>5, NewestPart
  <2>8. m - b <= (IF config.len = 0 THEN 0 ELSE config.len - 1) + config.step
    BY <2>4 DEF Longest
  <2>9. Len(window[w]) <= m
    <3>1. \A x, y \in Nat : y - x <= y
      OBVIOUS
    <3>2. m - b <= m
      BY <2>4, <3>1
    <3>3. Len(window[w]) = m - b
      BY <2>7
    <3> QED
      BY <3>2, <3>3
  <2>10. /\ Len(window[w]) <= Len(seen)
         /\ window[w] = SubSeq(seen, Len(seen) - Len(window[w]) + 1, Len(seen))
         /\ Len(window[w]) <= (IF config.len = 0 THEN 0 ELSE config.len - 1) + config.step
    <3> HIDE DEF seen
    <3> QED
      BY <2>6, <2>7, <2>8, <2>9
  <2> QED
    BY <2>10
<1>2. StreamInv => WindowIsNewest
  BY <1>1 DEF WindowIsNewest
<1> QED
  BY <1>2, StreamInvariant, PTL

\* The read that receives number n is the first one to ask for as many.
LEMMA ReadOfNumber ==
  ASSUME NEW s \in Nat \ {0}, NEW n \in Nat \ {0}
  PROVE  LET q == (n - 1) \div s + 1
         IN  q \in Nat \ {0} /\ s * (q - 1) < n /\ n <= s * q
<1> DEFINE d == (n - 1) \div s
<1>1. d \in Nat /\ s * d <= n - 1 /\ n - 1 < s * d + s
  OBVIOUS
<1>2. (d + 1) - 1 = d /\ s * (d + 1) = s * d + s /\ d + 1 \in Nat \ {0}
  BY <1>1
<1> QED
  BY <1>1, <1>2

\* Fewer reads ask for less.
LEMMA TimesLess ==
  ASSUME NEW s \in Nat \ {0}, NEW x \in Nat, NEW y \in Nat, s * x < s * y
  PROVE  x < y
OBVIOUS

\* Everything read by the end of a pass was in the window of some pass.
LEMMA AllReconstructed ==
  ASSUME StreamInv, NEW w \in Rank, NEW n \in 1 .. Upto(Len(out[w]))
  PROVE  n \in Reconstructed(w)
<1> DEFINE p == Len(out[w])
<1>1. /\ config \in Config /\ Len(pushed) \in Nat /\ p \in Nat /\ NewestOK(w)
      /\ DOMAIN out[w] = 1 .. p
  BY DEF StreamInv, StreamTypeOK, RankOK
<1>2. config.step \in Nat \ {0}
  BY <1>1, Options
<1>3. Upto(p) \in 0 .. Len(pushed)
  BY <1>1, UptoNext
<1>4. n \in Nat \ {0} /\ n <= Len(pushed) /\ n <= Upto(p)
  BY <1>1, <1>3
<1>5. PICK q \in Nat \ {0} : config.step * (q - 1) < n /\ n <= config.step * q
  BY <1>2, <1>4, ReadOfNumber
<1>6. /\ config.step * p \in Nat /\ config.step * q \in Nat /\ config.step * (q - 1) \in Nat
      /\ q - 1 \in Nat
  <2>1. \A s, x \in Nat : s * x \in Nat
    OBVIOUS
  <2>2. config.step \in Nat /\ q \in Nat /\ q - 1 \in Nat /\ p \in Nat
    BY <1>1, <1>2, <1>5
  <2> QED
    BY <2>1, <2>2, Zenon
<1>7. q \in 1 .. p
  <2>1. n <= config.step * p
    BY <1>1, <1>4, <1>6 DEF Upto
  <2>2. config.step * (q - 1) < config.step * p
    BY <1>4, <1>5, <1>6, <2>1
  <2>3. q - 1 < p
    BY <1>1, <1>2, <1>6, <2>2, TimesLess
  <2> QED
    BY <1>1, <1>5, <2>3
<1>8. Upto(q - 1) < n /\ n <= Upto(q) /\ Upto(q - 1) \in Nat /\ Upto(q) \in Nat
  BY <1>1, <1>4, <1>5, <1>6 DEF Upto
<1>9. PICK a \in 0 .. Upto(q - 1) : out[w][q].window = Run(a, Upto(q))
  BY <1>1, <1>7 DEF NewestOK
<1>10. a \in Nat /\ a < n /\ a <= Upto(q)
  BY <1>8
<1>11. n - a \in 1 .. Upto(q) - a /\ a + (n - a) = n
  BY <1>4, <1>8, <1>10
<1>12. /\ out[w][q].window[n - a] = n
       /\ DOMAIN out[w][q].window = 1 .. Upto(q) - a
  BY <1>8, <1>9, <1>10, <1>11 DEF Run
<1> DEFINE of(x) == {out[w][x].window[k] : k \in DOMAIN out[w][x].window}
<1>13. n \in of(q)
  <2>1. n - a \in DOMAIN out[w][q].window
    BY <1>11, <1>12
  <2>2. n = out[w][q].window[n - a]
    BY <1>12
  <2> QED
    BY <2>1, <2>2
<1>14. of(q) \in {of(x) : x \in DOMAIN out[w]}
  BY <1>1, <1>7
<1>15. n \in UNION {of(x) : x \in DOMAIN out[w]}
  <2> HIDE DEF of
  <2> QED
    BY <1>13, <1>14
<1> QED
  BY <1>15 DEF Reconstructed

\* No projection that a rank received stays out of every window it reconstructed.
THEOREM NothingInVain == Spec => []NoneInVain
<1>1. ASSUME StreamInv, NEW w \in Rank, pc[w] \in {"read", "finalize", "destroy"},
             NEW k \in DOMAIN got[w]
      PROVE  got[w][k] \in Reconstructed(w)
  <2> DEFINE p == Len(out[w])
             g == Len(got[w])
  <2>1. RankOK(w) /\ p \in Nat /\ g \in Nat /\ got[w] = Run(0, g)
    BY <1>1 DEF StreamInv, StreamTypeOK, RankOK, LinkOK
  <2>2. g = Upto(p)
    <3>1. CASE pc[w] = "read"
      BY <2>1, <3>1 DEF RankOK, ReadOK, Reads
    <3>2. CASE pc[w] \in {"finalize", "destroy"}
      BY <2>1, <3>2 DEF RankOK, ReadOK, WindowOK, Reads
    <3> QED
      BY <1>1, <3>1, <3>2
  <2>3. k \in 1 .. g
    BY <2>1 DEF Run
  <2>4. got[w][k] = k
    BY <2>1, <2>3, Stream
  <2> QED
    BY <1>1, <2>2, <2>3, <2>4, AllReconstructed
<1>2. StreamInv => NoneInVain
  BY <1>1 DEF NoneInVain
<1> QED
  BY <1>2, StreamInvariant, PTL

-----------------------------------------------------------------------------
(* The pipeline.                                                           *)

\* What is known of the acquisition.
Hears == INSTANCE AcquisitionProofs WITH
           Subs <- {Distributor}, NWorkers <- [s \in {Distributor} |-> NRanks],
           SynchCount <- NRanks, pushed <- frames

\* What Acquisition assumes of its constants.
LEMMA AcquisitionAssumptions ==
  /\ [s \in {Distributor} |-> NRanks] \in [{Distributor} -> Nat \ {0}]
  /\ NRanks \in Nat
  /\ Datasets \subseteq {d \in [flat : Nat, dark : Nat, proj : Nat] :
                            /\ d.dark = 0 \/ d.flat \in 1 .. d.dark
                            /\ d.flat + d.dark + d.proj > 0}
  /\ NElem \in Nat \ {0}
  /\ Iterations \in Nat \ {0}
BY NRanksAssumption, DatasetsAssumption, NElemAssumption, IterationsAssumption

\* The two instances of Acquisition are the same.
LEMMA SameInit == Acq!Init <=> Hears!Init
BY DEF Acq!Init, Hears!Init

\* One action at a time.
LEMMA SameNext == [Acq!Next]_(Acq!vars) <=> [Hears!Next]_(Hears!vars)
<1>1. ASSUME NEW s \in {Distributor}
      PROVE  /\ Acq!Answer(s) <=> Hears!Answer(s)
             /\ Acq!Subscribe(s) <=> Hears!Subscribe(s)
             /\ Acq!SubscriptionArrives(s) <=> Hears!SubscriptionArrives(s)
             /\ Acq!Ask(s) <=> Hears!Ask(s)
             /\ Acq!ReceiveReply(s) <=> Hears!ReceiveReply(s)
  BY DEF Acq!Answer, Hears!Answer, Acq!Synched, Hears!Synched, Acq!Goto, Hears!Goto,
         Acq!Subscribe, Hears!Subscribe, Acq!Ask, Hears!Ask, Acq!daqVars, Hears!daqVars,
         Acq!SubscriptionArrives, Hears!SubscriptionArrives,
         Acq!ReceiveReply, Hears!ReceiveReply
<1>2. ASSUME NEW s \in {Distributor}
      PROVE  /\ Acq!ReceiveProjection(s) <=> Hears!ReceiveProjection(s)
             /\ Acq!ReceiveWhite(s) <=> Hears!ReceiveWhite(s)
             /\ Acq!ReceiveDark(s) <=> Hears!ReceiveDark(s)
             /\ Acq!ReceiveEnd(s) <=> Hears!ReceiveEnd(s)
  BY DEF Acq!ReceiveProjection, Hears!ReceiveProjection, Acq!ReceiveWhite, Hears!ReceiveWhite,
         Acq!ReceiveDark, Hears!ReceiveDark, Acq!ReceiveEnd, Hears!ReceiveEnd,
         Acq!Loops, Hears!Loops, Acq!Received, Hears!Received, Acq!TakeFrame, Hears!TakeFrame,
         Acq!Collected, Hears!Collected, Acq!EndOfStream, Hears!EndOfStream,
         Acq!Goto, Hears!Goto, Acq!daqVars, Hears!daqVars
<1>3. Acq!PublishFrame <=> Hears!PublishFrame
  BY DEF Acq!PublishFrame, Hears!PublishFrame, Acq!Publish, Hears!Publish,
         Acq!Frame, Hears!Frame, Acq!TypeOf, Hears!TypeOf, Acq!Indices, Hears!Indices,
         Acq!Size, Hears!Size, Acq!NextFrame, Hears!NextFrame, Acq!NFrames, Hears!NFrames,
         Acq!ordered_subset, Hears!ordered_subset, Acq!FlattenSeq, Hears!FlattenSeq
<1>4. /\ Acq!EndData <=> Hears!EndData
      /\ Acq!Signal <=> Hears!Signal
      /\ Acq!Quit <=> Hears!Quit
      /\ Acq!Stopped <=> Hears!Stopped
      /\ Acq!vars = Hears!vars /\ (UNCHANGED Acq!vars <=> UNCHANGED Hears!vars)
  BY DEF Acq!EndData, Hears!EndData, Acq!Publish, Hears!Publish,
         Acq!EndOfStream, Hears!EndOfStream, Acq!Signal, Hears!Signal, Acq!Quit, Hears!Quit,
         Acq!Stopped, Hears!Stopped, Acq!vars, Hears!vars
<1>5. Acq!Next <=> Hears!Next
  BY <1>1, <1>2, <1>3, <1>4
     DEF Acq!Next, Hears!Next, Acq!DaqStep, Hears!DaqStep, Acq!SubStep, Hears!SubStep
<1> QED
  BY <1>4, <1>5

\* So is what they say of a state.
LEMMA SameViews ==
  /\ Acq!PushedFrames(Distributor) = Hears!PushedFrames(Distributor)
  /\ \A q : Acq!Projections(q) = Hears!Projections(q)
BY DEF Acq!PushedFrames, Hears!PushedFrames, Acq!Projections, Hears!Projections,
       Acq!Select, Hears!Select, Acq!Range, Hears!Range

-----------------------------------------------------------------------------
\* Every step of the whole is a step of the acquisition, or leaves it alone.
LEMMA AcquisitionPart ==
  ASSUME [PipelineNext]_pipelineVars
  PROVE  [Acq!Next]_(Acq!vars)
<1>1. CASE UNCHANGED acqVars
  BY <1>1 DEF acqVars, Acq!vars
<1>2. CASE AcquisitionStep \/ DistributorStep
  BY <1>2 DEF AcquisitionStep, DistributorStep, Join, ReceiveField, PushProjection, Done,
              Acq!Next, Acq!SubStep
<1>3. CASE Ranks \/ Over \/ UNCHANGED pipelineVars
  BY <1>1, <1>3 DEF Ranks, Over, pipelineVars
<1> QED
  BY <1>2, <1>3 DEF PipelineNext

\* Every step of the whole is a step of the stream and its ranks, or leaves them alone.
LEMMA StreamPart ==
  ASSUME [PipelineNext]_pipelineVars
  PROVE  [Next]_vars
<1>1. CASE UNCHANGED vars
  BY <1>1
<1>2. CASE PushProjection \/ Done
  BY <1>2 DEF PushProjection, Done, Next
<1>3. CASE Ranks
  BY <1>3 DEF Ranks, Next
<1>4. CASE AcquisitionStep \/ Join \/ ReceiveField \/ Over \/ UNCHANGED pipelineVars
  BY <1>1, <1>4 DEF AcquisitionStep, Join, ReceiveField, Over, pipelineVars
<1> QED
  BY <1>2, <1>3, <1>4 DEF PipelineNext, DistributorStep

\* The pipeline implements both its parts, but for their fairness, which stays with TLC: what
\* Acquisition leaves open of a distributor and SirtStream of what feeds it fits together
\* where main of ModDistStreamPubDemo.py calls push_image and done_image.
THEOREM PipelineIsBoth == PipelineSpec => Acq!Safe /\ Safe
<1>1. PipelineInit => Acq!Init /\ Init
  BY DEF PipelineInit
<1>2. [PipelineNext]_pipelineVars => [Acq!Next]_(Acq!vars) /\ [Next]_vars
  BY AcquisitionPart, StreamPart
<1> QED
  BY <1>1, <1>2, PTL DEF PipelineSpec, Acq!Safe, Safe

-----------------------------------------------------------------------------
\* Image i of the link is the i-th projection pushed; the link is closed by done_image,
\* after end_data.
Joined ==
  /\ Len(frames[Distributor]) = Len(pushed)
  /\ closed => spc[Distributor] = "done"

PipelineInv == StreamInv /\ Hears!HearInv /\ Hears!EndOK /\ Joined

\* What Hears needs of the distributor.
LEMMA HearsNow ==
  ASSUME Hears!HearInv
  PROVE  /\ frames \in [{Distributor} -> Seq([frame : Hears!Frames, normalized : BOOLEAN])]
         /\ spc \in [{Distributor} -> {"start", "ask", "asking", "answered", "loop", "done"}]
BY DEF Hears!HearInv, Hears!HearType, Hears!StartOK

\* The invariant holds at the start.
LEMMA PipelineStarts ==
  ASSUME PipelineInit
  PROVE  PipelineInv
<1>1. StreamInv
  BY InitOK DEF PipelineInit
<1>2. Hears!HearInv /\ Hears!EndOK
  BY SameInit, AcquisitionAssumptions, Hears!HearInit, Hears!EndInit DEF PipelineInit
<1>3. Joined
  BY <1>2, HearsNow DEF PipelineInit, Acq!Init, Init, Link!Init, Joined
<1> QED
  BY <1>1, <1>2, <1>3 DEF PipelineInv

\* A projection that is pushed is the next image; done_image follows end_data.
LEMMA JoinedNext ==
  ASSUME PipelineInv, [PipelineNext]_pipelineVars
  PROVE  Joined'
<1>1. /\ frames \in [{Distributor} -> Seq([frame : Hears!Frames, normalized : BOOLEAN])]
      /\ spc \in [{Distributor} -> {"start", "ask", "asking", "answered", "loop", "done"}]
  BY HearsNow DEF PipelineInv
<1>2. /\ Len(frames[Distributor]) = Len(pushed) /\ Len(pushed) \in Nat
      /\ closed => spc[Distributor] = "done"
      /\ closed \in BOOLEAN /\ pushed = Run(0, Len(pushed))
  BY DEF PipelineInv, Joined, StreamInv, StreamTypeOK
<1>3. ASSUME frames' = frames, pushed' = pushed, closed' = closed,
             spc[Distributor] = "done" => spc'[Distributor] = "done"
      PROVE  Joined'
  BY <1>2, <1>3 DEF Joined
<1>4. CASE PushProjection
  <2>1. PICK r \in {[frame |-> Acq!Received(Distributor),
                     normalized |-> white[Distributor] # <<>> /\ dark[Distributor] # <<>>]} :
          frames' = [frames EXCEPT ![Distributor] = Append(@, r)] /\ spc' = spc
    BY <1>4 DEF PushProjection, Acq!ReceiveProjection
  <2>2. pushed' = Append(pushed, Len(pushed) + 1) /\ closed' = closed
    BY <1>4 DEF PushProjection, PushNext, Link!Push
  <2>3. frames'[Distributor] = Append(frames[Distributor], r)
    BY <1>1, <2>1
  <2>4. PICK f : f = frames[Distributor] /\ f \in Seq([frame : Hears!Frames, normalized : BOOLEAN])
    BY <1>1
  <2>5. Len(Append(f, r)) = Len(f) + 1
    BY <2>4
  <2>6. Len(pushed') = Len(pushed) + 1
    BY <1>2, <2>2 DEF Run
  <2> QED
    BY <1>2, <2>1, <2>2, <2>3, <2>4, <2>5, <2>6 DEF Joined
<1>5. CASE Done
  <2>1. /\ frames' = frames /\ pushed' = pushed
        /\ spc' = [spc EXCEPT ![Distributor] = "done"]
    BY <1>5 DEF Done, Acq!ReceiveEnd, Acq!Goto, EndOfData, Link!Close
  <2>2. spc'[Distributor] = "done"
    BY <1>1, <2>1
  <2> QED
    BY <1>2, <2>1, <2>2 DEF Joined
<1>6. CASE AcquisitionStep
  <2>1. UNCHANGED <<frames, pushed, closed>>
    BY <1>6 DEF AcquisitionStep, vars, Acq!DaqStep, Acq!Answer, Acq!PublishFrame, Acq!EndData,
                Acq!Signal, Acq!Quit, Acq!SubscriptionArrives
  <2>2. spc' = spc \/ spc[Distributor] = "asking"
    BY <1>6 DEF AcquisitionStep, Acq!DaqStep, Acq!Answer, Acq!PublishFrame, Acq!EndData,
                Acq!Signal, Acq!Quit, Acq!SubscriptionArrives
  <2> QED
    BY <1>3, <2>1, <2>2
<1>7. CASE Join \/ ReceiveField
  <2>1. UNCHANGED <<frames, pushed, closed>>
    BY <1>7 DEF Join, ReceiveField, vars, Acq!Subscribe, Acq!Ask, Acq!ReceiveReply,
                Acq!ReceiveWhite, Acq!ReceiveDark
  <2>2. spc' = spc \/ spc[Distributor] \in {"start", "ask", "answered"}
    BY <1>7 DEF Join, ReceiveField, Acq!Subscribe, Acq!Ask, Acq!ReceiveReply,
                Acq!ReceiveWhite, Acq!ReceiveDark
  <2> QED
    BY <1>3, <2>1, <2>2
<1>8. CASE Ranks
  <2>1. frames' = frames /\ spc' = spc
    BY <1>8 DEF Ranks, acqVars
  <2>2. pushed' = pushed /\ closed' = closed
    BY <1>8 DEF Ranks, RankStep, MeetSize, ReceiveImage, ReceiveEnd, Slide, Reconstruct,
                 WriteRecon, Finalize, linkVars, Link!Deliver, Link!Stop
  <2> QED
    BY <1>3, <2>1, <2>2
<1>9. CASE Over \/ UNCHANGED pipelineVars
  BY <1>3, <1>9 DEF Over, pipelineVars, acqVars, vars
<1> QED
  BY <1>4, <1>5, <1>6, <1>7, <1>8, <1>9 DEF PipelineNext, DistributorStep

\* Every step keeps the invariant.
LEMMA PipelineGoesOn ==
  ASSUME PipelineInv, [PipelineNext]_pipelineVars
  PROVE  PipelineInv'
<1>1. StreamInv'
  BY StreamPart, NextOK DEF PipelineInv
<1>2. Hears!HearInv' /\ Hears!EndOK'
  BY AcquisitionPart, SameNext, AcquisitionAssumptions, Hears!HearNext, Hears!EndNext
     DEF PipelineInv
<1> QED
  BY <1>1, <1>2, JoinedNext DEF PipelineInv

-----------------------------------------------------------------------------
\* Between two reads a rank has reconstructed what it has got, and nothing else; when it
\* has left its loop, that is the whole stream.
LEMMA ReconstructsWhatItGot ==
  ASSUME StreamInv, NEW w \in Rank, pc[w] \in {"read", "finalize", "destroy"}
  PROVE  /\ Len(got[w]) \in 0 .. Len(pushed)
         /\ Reconstructed(w) = 1 .. Len(got[w])
         /\ pc[w] # "read" => closed /\ Len(got[w]) = Len(pushed)
<1> DEFINE p == Len(out[w])
           g == Len(got[w])
<1>1. /\ config \in Config /\ Len(pushed) \in Nat /\ p \in Nat /\ g \in Nat /\ RankOK(w)
      /\ DOMAIN out[w] = 1 .. p /\ closed \in BOOLEAN
  BY DEF StreamInv, StreamTypeOK
<1>2. config.step \in Nat \ {0}
  BY <1>1, Options
<1>3. /\ config.step * p \in Nat /\ config.step * (p + 1) \in Nat
      /\ config.step * (p + 1) > config.step * p
      /\ \A i \in 0 .. p : config.step * i \in Nat /\ config.step * i <= config.step * p
  BY <1>1, <1>2
<1>4. g = Upto(p) /\ g <= Len(pushed)
  <2>1. CASE pc[w] = "read"
    BY <1>1, <2>1 DEF RankOK, ReadOK, LinkOK, Reads
  <2>2. CASE pc[w] \in {"finalize", "destroy"}
    BY <1>1, <2>2 DEF RankOK, ReadOK, LinkOK, WindowOK, Reads
  <2> QED
    BY <2>1, <2>2
<1>5. ASSUME pc[w] # "read"
      PROVE  closed /\ g = Len(pushed)
  <2>1. Upto(p + 1) = Upto(p)
    BY <1>1, <1>5 DEF RankOK, WindowOK
  <2>2. Reads(w) = p + 1 /\ (config.step * (p + 1) <= Len(pushed) \/ closed)
    BY <1>1, <1>5 DEF RankOK, ReadOK, Reads
  <2>3. ~(config.step * (p + 1) <= Len(pushed))
    BY <1>1, <1>3, <2>1 DEF Upto
  <2>4. Upto(p + 1) = Len(pushed)
    BY <2>3 DEF Upto
  <2> QED
    BY <1>4, <2>1, <2>2, <2>3, <2>4
<1> DEFINE of(x) == {out[w][x].window[k] : k \in DOMAIN out[w][x].window}
<1>6. ASSUME NEW x \in 1 .. p, NEW n \in of(x)
      PROVE  n \in 1 .. g
  <2>1. PICK a \in 0 .. Upto(x - 1) : out[w][x].window = Run(a, Upto(x))
    BY <1>1 DEF RankOK, NewestOK
  <2>2. Upto(x) \in Nat /\ Upto(x) <= g /\ Upto(x - 1) \in Nat
    BY <1>1, <1>3, <1>4 DEF Upto
  <2>3. PICK k \in 1 .. Upto(x) - a : n = Run(a, Upto(x))[k]
    BY <2>1 DEF Run
  <2>4. n = a + k /\ a \in Nat /\ k \in Nat \ {0} /\ k <= Upto(x) - a
    BY <2>2, <2>3 DEF Run
  <2> QED
    BY <1>1, <2>2, <2>4
<1>7. Reconstructed(w) \subseteq 1 .. g
  <2>1. Reconstructed(w) = UNION {of(x) : x \in 1 .. p}
    BY <1>1 DEF Reconstructed
  <2> HIDE DEF of
  <2> QED
    BY <1>6, <2>1
<1>8. 1 .. g \subseteq Reconstructed(w)
  BY <1>4, AllReconstructed
<1>9. g \in 0 .. Len(pushed)
  BY <1>1, <1>4
<1>10. Reconstructed(w) = 1 .. g
  BY <1>7, <1>8
<1> QED
  BY <1>5, <1>9, <1>10

\* Whatever a rank has reconstructed, from the acquisition's PUB socket through push_image to
\* ReadSlidingWindow, is the beginning of what was published since the subscription arrived,
\* and all of it when the rank has left its loop.
THEOREM ReconstructsPublished == PipelineSpec => []ReconstructsAsPublished
<1>1. ASSUME PipelineInv, NEW w \in Rank, pc[w] \in {"read", "finalize", "destroy"},
             NEW published,
             published = Acq!Projections(SubSeq(sent, from[Distributor] + 1, Len(sent)))
      PROVE  \E n \in 0 .. Len(published) :
               /\ FramesOf(Reconstructed(w)) = {published[k] : k \in 1 .. n}
               /\ pc[w] # "read" => n = Len(published)
  <2> DEFINE g == Len(got[w])
             F == frames[Distributor]
  <2>1. /\ g \in 0 .. Len(pushed) /\ Reconstructed(w) = 1 .. g
        /\ pc[w] # "read" => closed /\ g = Len(pushed)
    BY <1>1, ReconstructsWhatItGot DEF PipelineInv
  <2>2. Len(F) = Len(pushed) /\ Len(pushed) \in Nat /\ (closed => spc[Distributor] = "done")
    BY <1>1 DEF PipelineInv, Joined, StreamInv, StreamTypeOK
  <2>3. PICK seen : seen = Hears!PushedFrames(Distributor)
    OBVIOUS
  <2>4. F \in Seq([frame : Hears!Frames, normalized : BOOLEAN])
    BY <1>1, HearsNow DEF PipelineInv
  <2>5. Len(seen) = Len(F) /\ \A k \in 1 .. Len(F) : seen[k] = F[k].frame
    BY <2>3, <2>4 DEF Hears!PushedFrames
  <2>6. /\ seen \in Seq(Hears!Frames) /\ published \in Seq(Hears!Frames)
        /\ Hears!Begins(seen, published)
    BY <1>1, <2>3, SameViews, AcquisitionAssumptions, Hears!PushedBegins DEF PipelineInv
  <2>7. /\ Len(published) \in Nat /\ Len(F) <= Len(published)
        /\ \A k \in 1 .. Len(F) : F[k].frame = published[k]
    BY <2>5, <2>6 DEF Hears!Begins
  <2>8. g \in 0 .. Len(published)
    BY <2>1, <2>2, <2>7
  <2>9. FramesOf(Reconstructed(w)) = {published[k] : k \in 1 .. g}
    <3>1. \A k \in 1 .. g : F[k].frame = published[k]
      BY <2>1, <2>2, <2>7
    <3> QED
      BY <2>1, <3>1 DEF FramesOf
  <2>10. ASSUME pc[w] # "read"
         PROVE  g = Len(published)
    <3>1. spc[Distributor] = "done" /\ g = Len(F)
      BY <2>1, <2>2, <2>10
    <3>2. seen = published
      BY <1>1, <2>3, <3>1, SameViews, AcquisitionAssumptions, Hears!LeftWithAll
         DEF PipelineInv
    <3> QED
      BY <2>5, <3>1, <3>2
  <2> QED
    BY <2>8, <2>9, <2>10
<1>2. PipelineInv => ReconstructsAsPublished
  <2> SUFFICES ASSUME PipelineInv
               PROVE  ReconstructsAsPublished
    OBVIOUS
  <2>1. PICK published :
          published = Acq!Projections(SubSeq(sent, from[Distributor] + 1, Len(sent)))
    OBVIOUS
  <2>2. \A w \in Rank : pc[w] \in {"read", "finalize", "destroy"} =>
          \E n \in 0 .. Len(published) :
            /\ FramesOf(Reconstructed(w)) = {published[k] : k \in 1 .. n}
            /\ pc[w] # "read" => n = Len(published)
    BY <1>1, <2>1
  <2> QED
    BY <2>1, <2>2 DEF ReconstructsAsPublished
<1> QED
  BY <1>2, PipelineStarts, PipelineGoesOn, PTL DEF PipelineSpec
=============================================================================
