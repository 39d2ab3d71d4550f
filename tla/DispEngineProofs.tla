--------------------------- MODULE DispEngineProofs ---------------------------
(***************************************************************************)
(* Proofs about DispEngine, for any number of threads, rays and iterations *)
(* and any chunk size: every ray is reduced exactly once per iteration.    *)
(*                                                                         *)
(* The invariant follows a ray: not handed out, in one thread's chunk, in  *)
(* one reduction space, and, while spaces are added up, in one of the      *)
(* spaces that still matter.  That the groups of the queue and of the      *)
(* threads never share a space, and that a space that is added to another  *)
(* is no target, is what keeps it true.                                    *)
(***************************************************************************)
EXTENDS DispEngine, SequenceTheorems, TLAPS

Phases == {"reduce", "synch", "update", "reset", "end"}
Labels == {"ask", "partition", "process", "pop", "popfront", "combine", "store", "reset", "done"}

\* Where the threads can be while main is in a phase.
LabelsOf(ph) == CASE ph = "reduce" -> {"ask", "partition", "process", "done"}
                  [] ph = "synch"  -> {"pop", "popfront", "combine", "store", "done"}
                  [] ph = "reset"  -> {"reset", "done"}
                  [] OTHER         -> {"done"}

\* Of the spaces in S exactly one counts ray r, and counts it once.
OnceIn(S, r) == \E s \in S : space[s][r] = 1 /\ \A u \in S \ {s} : space[u][r] = 0

Disjoint(g, h) == Members(g) \cap Members(h) = {}

EngineTypeOK ==
  /\ phase \in Phases
  /\ index \in 0 .. NRays
  /\ space \in [Thread -> [Ray -> Nat]]
  /\ targets \in Seq(Thread)
  /\ queue \in Seq(Seq(Thread))
  /\ pmutex \in Thread \cup {Nobody}
  /\ qmutex \in Thread \cup {Nobody}
  /\ tpc \in [Thread -> Labels]
  /\ seen \in [Thread -> Int]
  /\ chunk \in [Thread -> SUBSET Ray]
  /\ job \in [Thread -> Seq(Thread)]
  /\ sum \in [Thread -> [Ray -> Nat]]

\* Who holds a mutex, and what is there in which phase only.
ControlOK ==
  /\ \A t \in Thread : tpc[t] \in LabelsOf(phase)
  /\ \A t \in Thread : tpc[t] = "partition" <=> pmutex = t
  /\ \A t \in Thread : tpc[t] = "popfront" <=> qmutex = t
  /\ \A t \in Thread : chunk[t] # {} => tpc[t] = "process"
  /\ \A t \in Thread : job[t] # <<>> <=> tpc[t] \in {"popfront", "combine", "store"}

\* The rays while chunks are handed out.
ReduceOK ==
  phase = "reduce" =>
    /\ \A t \in Thread : tpc[t] = "partition" => seen[t] = index
    /\ \A t \in Thread : tpc[t] = "done" => index = NRays
    /\ \A t \in Thread : \A r \in chunk[t] : r < index
    /\ \A t, u \in Thread : t # u => chunk[t] \cap chunk[u] = {}
    /\ \A r \in Ray : (r >= index \/ \E t \in Thread : r \in chunk[t]) =>
                        \A u \in Thread : space[u][r] = 0
    /\ \A r \in Ray : (r < index /\ \A t \in Thread : r \notin chunk[t]) => OnceIn(Thread, r)

\* One or two spaces, of which the first is a target and the other is none.
GroupOK(g) == /\ Len(g) \in {1, 2}
              /\ g[1] \in Members(targets)
              /\ Len(g) = 2 => g[2] \notin Members(targets)

TargetsOK == /\ targets # <<>> /\ targets[1] = 0
             /\ \A i, j \in 1 .. Len(targets) : targets[i] = targets[j] => i = j

\* The groups while spaces are added up.
GroupsOK ==
  /\ \A k \in 1 .. Len(queue) : GroupOK(queue[k])
  /\ \A t \in Thread : job[t] # <<>> => GroupOK(job[t])
  /\ \A k, l \in 1 .. Len(queue) : k # l => Disjoint(queue[k], queue[l])
  /\ \A t \in Thread : tpc[t] = "popfront" => queue # <<>> /\ job[t] = queue[1]
  /\ \A t \in Thread : tpc[t] # "popfront" =>
                         \A k \in 1 .. Len(queue) : Disjoint(job[t], queue[k])
  /\ \A t \in Thread : tpc[t] = "done" => queue = <<>>
  /\ \A t \in Thread : tpc[t] = "store" =>
                         Len(job[t]) = 2 /\ sum[t] = Add(space[job[t][1]], space[job[t][2]])

SynchOK == phase = "synch" => TargetsOK /\ GroupsOK /\ \A r \in Ray : OnceIn(Live, r)

\* The sum, and the reset after it.
UpdateOK == phase = "update" => \A r \in Ray : space[0][r] = 1
ResetOK == phase = "reset" => \A t \in Thread : tpc[t] = "done" => space[t] = Empty

EngineInv == /\ EngineTypeOK /\ ControlOK /\ ReduceOK /\ NoSharedSpace
             /\ SynchOK /\ UpdateOK /\ ResetOK

-----------------------------------------------------------------------------
(* The groups of a level.                                                  *)

\* A group of two, and a group of one.
LEMMA PairOf ==
  ASSUME NEW S, NEW sp \in Seq(S), NEW i \in 1 .. Len(sp), i + 1 <= Len(sp)
  PROVE  LET g == SubSeq(sp, i, i + 1)
         IN  g \in Seq(S) /\ Len(g) = 2 /\ g[1] = sp[i] /\ g[2] = sp[i + 1]
<1>1. (i + 1) - i + 1 = 2 /\ i + 1 - 1 = i /\ i + 2 - 1 = i + 1 /\ i + 1 \in 1 .. Len(sp)
  OBVIOUS
<1>2. SubSeq(sp, i, i + 1) = [k \in 1 .. 2 |-> sp[i + k - 1]]
  BY <1>1
<1>3. sp[i] \in S /\ sp[i + 1] \in S
  BY <1>1, ElementOfSeq
<1>4. \A k \in 1 .. 2 : k = 1 \/ k = 2
  OBVIOUS
<1> QED
  BY <1>1, <1>2, <1>3, <1>4

\* A space without a partner is a group of its own.
LEMMA SingleOf ==
  ASSUME NEW S, NEW sp \in Seq(S), NEW i \in 1 .. Len(sp)
  PROVE  LET g == SubSeq(sp, i, i)
         IN  g \in Seq(S) /\ Len(g) = 1 /\ g[1] = sp[i]
<1>1. i - i + 1 = 1 /\ i + 1 - 1 = i
  OBVIOUS
<1>2. SubSeq(sp, i, i) = [k \in 1 .. 1 |-> sp[i + k - 1]]
  BY <1>1
<1>3. sp[i] \in S
  BY ElementOfSeq
<1> QED
  BY <1>1, <1>2, <1>3

\* PartitionReductionSpaces, group by group.
LEMMA GroupsOfSpaces ==
  ASSUME NEW sp \in Seq(Thread), sp # <<>>
  PROVE  LET G == Groups(sp)
             n == Len(sp)
         IN  /\ G \in Seq(Seq(Thread)) /\ Len(G) \in Nat \ {0} /\ 2 * Len(G) >= n
             /\ 2 * Len(G) <= n + 1
             /\ \A k \in 1 .. Len(G) :
                  /\ G[k] \in Seq(Thread)
                  /\ 2 * k - 1 \in 1 .. n /\ G[k][1] = sp[2 * k - 1]
                  /\ 2 * k <= n => Len(G[k]) = 2 /\ G[k][2] = sp[2 * k]
                  /\ 2 * k > n => Len(G[k]) = 1
<1> DEFINE n == Len(sp)
           m == (n + PartitionSize - 1) \div PartitionSize
           last(g) == IF g * PartitionSize > n THEN n ELSE g * PartitionSize
           group(g) == SubSeq(sp, (g - 1) * PartitionSize + 1, last(g))
<1>1. n \in Nat \ {0}
  OBVIOUS
<1>2. m \in Nat \ {0} /\ 2 * m >= n /\ 2 * m <= n + 1
  BY <1>1 DEF PartitionSize
<1>3. ASSUME NEW k \in 1 .. m
      PROVE  /\ group(k) \in Seq(Thread)
             /\ 2 * k - 1 \in 1 .. n /\ group(k)[1] = sp[2 * k - 1]
             /\ 2 * k <= n => Len(group(k)) = 2 /\ group(k)[2] = sp[2 * k]
             /\ 2 * k > n => Len(group(k)) = 1
  <2>1. 2 * k - 1 \in 1 .. n /\ (k - 1) * 2 + 1 = 2 * k - 1 /\ k * 2 = 2 * k
    BY <1>1, <1>2
  <2>2. group(k) = SubSeq(sp, 2 * k - 1, IF 2 * k > n THEN n ELSE 2 * k)
    BY <2>1 DEF PartitionSize
  <2>3. CASE 2 * k <= n
    <3>1. group(k) = SubSeq(sp, 2 * k - 1, (2 * k - 1) + 1)
      <4>1. ~ 2 * k > n /\ (2 * k - 1) + 1 = 2 * k
        BY <1>1, <2>3
      <4> QED
        BY <2>2, <4>1
    <3>2. (2 * k - 1) + 1 <= n /\ (2 * k - 1) + 1 = 2 * k /\ ~ 2 * k > n
      BY <1>1, <2>3
    <3>3. LET g == SubSeq(sp, 2 * k - 1, (2 * k - 1) + 1)
          IN  g \in Seq(Thread) /\ Len(g) = 2 /\ g[1] = sp[2 * k - 1] /\ g[2] = sp[2 * k]
      <4>1. \A i \in 1 .. Len(sp) : i + 1 <= Len(sp) =>
              LET g == SubSeq(sp, i, i + 1)
              IN  g \in Seq(Thread) /\ Len(g) = 2 /\ g[1] = sp[i] /\ g[2] = sp[i + 1]
        BY PairOf
      <4>2. LET g == SubSeq(sp, 2 * k - 1, (2 * k - 1) + 1)
            IN  /\ g \in Seq(Thread) /\ Len(g) = 2 /\ g[1] = sp[2 * k - 1]
                /\ g[2] = sp[(2 * k - 1) + 1]
        BY <2>1, <3>2, <4>1
      <4> QED
        BY <3>2, <4>2
    <3> HIDE DEF group
    <3> QED
      BY <2>1, <3>1, <3>2, <3>3
  <2>4. CASE 2 * k > n
    <3>1. n = 2 * k - 1 /\ ~ 2 * k <= n
      BY <1>1, <2>1, <2>4
    <3>2. group(k) = SubSeq(sp, 2 * k - 1, 2 * k - 1)
      BY <2>2, <2>4, <3>1
    <3>3. LET g == SubSeq(sp, 2 * k - 1, 2 * k - 1)
          IN  g \in Seq(Thread) /\ Len(g) = 1 /\ g[1] = sp[2 * k - 1]
      BY <2>1, SingleOf
    <3> HIDE DEF group
    <3> QED
      BY <2>1, <3>1, <3>2, <3>3
  <2>5. 2 * k <= n \/ 2 * k > n
    BY <1>1
  <2> HIDE DEF group
  <2> QED
    BY <2>3, <2>4, <2>5
<1>4. Groups(sp) = [g \in 1 .. m |-> group(g)]
  BY DEF Groups
<1> HIDE DEF group, m
<1>5. Groups(sp) \in Seq(Seq(Thread)) /\ Len(Groups(sp)) = m
  <2>1. \A k \in 1 .. m : group(k) \in Seq(Thread)
    BY <1>3
  <2> QED
    BY <1>2, <1>4, <2>1
<1> QED
  BY <1>1, <1>2, <1>3, <1>4, <1>5

\* A table over 1 .. n is a sequence of length n.
LEMMA TableIsSeq ==
  ASSUME NEW S, NEW n \in Nat, NEW f \in [1 .. n -> S]
  PROVE  f \in Seq(S) /\ Len(f) = n /\ DOMAIN f = 1 .. n
OBVIOUS

\* If no space comes twice, the groups are disjoint, the first spaces of the
\* groups are the next targets, and nothing else is: and no space is left out.
LEMMA GroupsAreDisjoint ==
  ASSUME NEW sp \in Seq(Thread), sp # <<>>,
         \A i, j \in 1 .. Len(sp) : sp[i] = sp[j] => i = j
  PROVE  LET G == Groups(sp)
             T == Firsts(G)
         IN  /\ T \in Seq(Thread) /\ T # <<>> /\ T[1] = sp[1]
             /\ \A i, j \in 1 .. Len(T) : T[i] = T[j] => i = j
             /\ \A k, l \in 1 .. Len(G) : k # l => Disjoint(G[k], G[l])
             /\ \A k \in 1 .. Len(G) : /\ Len(G[k]) \in {1, 2} /\ G[k][1] \in Members(T)
                                       /\ Len(G[k]) = 2 => G[k][2] \notin Members(T)
             /\ Members(T) \cup UNION {Members(G[k]) : k \in DOMAIN G} = Members(sp)
<1> DEFINE G == Groups(sp)
           T == Firsts(G)
           n == Len(sp)
           m == Len(G)
<1>1. /\ G \in Seq(Seq(Thread)) /\ m \in Nat \ {0} /\ 2 * m >= n /\ 2 * m <= n + 1
      /\ \A k \in 1 .. m :
           /\ G[k] \in Seq(Thread)
           /\ 2 * k - 1 \in 1 .. n /\ G[k][1] = sp[2 * k - 1]
           /\ 2 * k <= n => Len(G[k]) = 2 /\ G[k][2] = sp[2 * k]
           /\ 2 * k > n => Len(G[k]) = 1
  BY GroupsOfSpaces
<1>2. n \in Nat /\ \A i, j \in 1 .. n : sp[i] = sp[j] => i = j
  OBVIOUS
<1> HIDE DEF G, n
<1>3. DOMAIN G = 1 .. m
  BY <1>1
<1>4. T = [k \in 1 .. m |-> G[k][1]]
  BY <1>3 DEF Firsts
<1>5. \A k \in 1 .. m : T[k] = sp[2 * k - 1] /\ sp[2 * k - 1] \in Thread
  <2>1. \A i \in 1 .. n : sp[i] \in Thread
    BY DEF n
  <2> QED
    BY <1>1, <1>4, <2>1
<1> HIDE DEF T, m
<1>6. T \in Seq(Thread) /\ Len(T) = m /\ DOMAIN T = 1 .. m
  <2>1. \A k \in 1 .. m : G[k][1] \in Thread
    BY <1>1, <1>5
  <2>2. m \in Nat /\ T \in [1 .. m -> Thread]
    BY <1>1, <1>4, <2>1
  <2> QED
    BY <2>2, TableIsSeq
<1>7. T # <<>> /\ T[1] = sp[1]
  <2>1. 1 \in 1 .. m /\ 2 * 1 - 1 = 1
    BY <1>1
  <2> QED
    BY <1>5, <1>6, <2>1
<1>8. \A i, j \in 1 .. m : T[i] = T[j] => i = j
  BY <1>1, <1>2, <1>5
<1>9. \A x : x \in Members(T) <=> \E k \in 1 .. m : x = sp[2 * k - 1]
  BY <1>5, <1>6 DEF Members
<1>10. ASSUME NEW k \in 1 .. m, NEW x
       PROVE  x \in Members(G[k]) <=> x = sp[2 * k - 1] \/ (2 * k <= n /\ x = sp[2 * k])
  <2>1. /\ G[k] \in Seq(Thread) /\ G[k][1] = sp[2 * k - 1]
        /\ 2 * k <= n => Len(G[k]) = 2 /\ G[k][2] = sp[2 * k]
        /\ 2 * k > n => Len(G[k]) = 1
    BY <1>1
  <2>2. CASE 2 * k <= n
    <3>1. DOMAIN G[k] = {1, 2}
      BY <2>1, <2>2
    <3> QED
      BY <2>1, <2>2, <3>1 DEF Members
  <2>3. CASE 2 * k > n
    <3>1. DOMAIN G[k] = {1}
      BY <2>1, <2>3
    <3>2. ~ 2 * k <= n
      BY <1>2, <2>3
    <3> QED
      BY <2>1, <3>1, <3>2 DEF Members
  <2> QED
    BY <1>2, <2>2, <2>3
<1>11. ASSUME NEW k \in 1 .. m, NEW l \in 1 .. m, k # l PROVE Disjoint(G[k], G[l])
  <2> SUFFICES ASSUME NEW x, x \in Members(G[k]), x \in Members(G[l]) PROVE FALSE
    BY DEF Disjoint
  <2>1. PICK i \in 1 .. n : (i = 2 * k - 1 \/ i = 2 * k) /\ x = sp[i]
    <3>1. 2 * k - 1 \in 1 .. n /\ (2 * k <= n => 2 * k \in 1 .. n)
      BY <1>1, <1>2
    <3> QED
      BY <1>10, <3>1
  <2>2. PICK j \in 1 .. n : (j = 2 * l - 1 \/ j = 2 * l) /\ x = sp[j]
    <3>1. 2 * l - 1 \in 1 .. n /\ (2 * l <= n => 2 * l \in 1 .. n)
      BY <1>1, <1>2
    <3> QED
      BY <1>10, <3>1
  <2>3. i = j
    BY <1>2, <2>1, <2>2
  <2> QED
    BY <1>11, <2>1, <2>2, <2>3
<1>12. ASSUME NEW k \in 1 .. m
       PROVE  /\ Len(G[k]) \in {1, 2} /\ G[k][1] \in Members(T)
              /\ Len(G[k]) = 2 => G[k][2] \notin Members(T)
  <2>1. 2 * k <= n \/ 2 * k > n
    BY <1>2
  <2>2. G[k][1] \in Members(T) /\ Len(G[k]) \in {1, 2}
    BY <1>1, <1>9, <2>1
  <2>3. ASSUME Len(G[k]) = 2, NEW l \in 1 .. m, G[k][2] = sp[2 * l - 1] PROVE FALSE
    <3>1. 2 * k <= n /\ sp[2 * k] = sp[2 * l - 1]
      BY <1>1, <2>1, <2>3
    <3>2. 2 * k \in 1 .. n /\ 2 * l - 1 \in 1 .. n
      <4>1. 2 * k >= 1
        BY <1>1
      <4>2. 2 * l - 1 \in 1 .. n
        BY <1>1
      <4> QED
        BY <1>2, <3>1, <4>1, <4>2
    <3>3. 2 * k = 2 * l - 1
      BY <1>2, <3>1, <3>2
    <3> QED
      BY <3>3
  <2> QED
    BY <1>9, <2>2, <2>3
<1>13. Members(T) \cup UNION {Members(G[k]) : k \in DOMAIN G} = Members(sp)
  <2>1. \A x : x \in Members(sp) <=> \E i \in 1 .. n : x = sp[i]
    BY DEF Members, n
  <2>2. ASSUME NEW k \in 1 .. m, NEW x, x \in Members(G[k]) PROVE x \in Members(sp)
    <3>1. 2 * k - 1 \in 1 .. n /\ (2 * k <= n => 2 * k \in 1 .. n)
      BY <1>1, <1>2
    <3>2. x = sp[2 * k - 1] \/ (2 * k <= n /\ x = sp[2 * k])
      BY <1>10, <2>2
    <3> QED
      BY <2>1, <3>1, <3>2
  <2>3. ASSUME NEW x \in Members(T) PROVE x \in Members(sp)
    <3>1. PICK k \in 1 .. m : x = sp[2 * k - 1]
      BY <1>9, <2>3
    <3>2. 2 * k - 1 \in 1 .. n
      BY <1>1
    <3> QED
      BY <2>1, <3>1, <3>2
  <2>4. ASSUME NEW x \in Members(sp) PROVE \E k \in 1 .. m : x \in Members(G[k])
    <3>1. PICK i \in 1 .. n : x = sp[i]
      BY <2>1
    <3>2. PICK k \in 1 .. m : i = 2 * k - 1 \/ i = 2 * k
      <4>1. (i + 1) \div 2 \in 1 .. m
        BY <1>1, <1>2
      <4>2. i = 2 * ((i + 1) \div 2) - 1 \/ i = 2 * ((i + 1) \div 2)
        BY <1>2
      <4> QED
        BY <4>1, <4>2
    <3>3. x = sp[2 * k - 1] \/ (2 * k <= n /\ x = sp[2 * k])
      BY <1>2, <3>1, <3>2
    <3>4. x \in Members(G[k])
      BY <1>10, <3>3
    <3> QED
      BY <3>4
  <2> QED
    BY <1>3, <2>2, <2>3, <2>4
<1> QED
  BY <1>6, <1>7, <1>8, <1>11, <1>12, <1>13 DEF T, m, G

-----------------------------------------------------------------------------
(* Chunks.                                                                 *)

\* There is a thread, and Nobody is none.
LEMMA ThreadZero == 0 \in Thread /\ Nobody \notin Thread
BY NThreadsAssumption DEF NThreadsAssumption, Thread, Nobody

\* A thread's place tells what main is in.
LEMMA PhaseOf ==
  ASSUME EngineInv, NEW t \in Thread
  PROVE  /\ tpc[t] \in {"ask", "partition", "process"} => phase = "reduce"
         /\ tpc[t] \in {"pop", "popfront", "combine", "store"} => phase = "synch"
         /\ tpc[t] = "reset" => phase = "reset"
<1>1. phase \in Phases /\ tpc[t] \in LabelsOf(phase)
  BY DEF EngineInv, EngineTypeOK, ControlOK
<1> QED
  BY <1>1 DEF Phases, LabelsOf

\* main builds the spaces empty, and every ray is still to be handed out.
LEMMA InitOK == Init => EngineInv
<1> SUFFICES ASSUME Init PROVE EngineInv
  OBVIOUS
<1>1. /\ phase = "reduce" /\ index = 0 /\ space = [t \in Thread |-> Empty]
      /\ targets = <<>> /\ queue = <<>> /\ pmutex = Nobody /\ qmutex = Nobody
      /\ tpc = [t \in Thread |-> "ask"] /\ seen = [t \in Thread |-> 0]
      /\ chunk = [t \in Thread |-> {}] /\ job = [t \in Thread |-> <<>>]
      /\ sum = [t \in Thread |-> Empty]
  BY DEF Init, All
<1>2. Empty \in [Ray -> Nat] /\ \A r \in Ray : Empty[r] = 0
  BY DEF Empty
<1>3. EngineTypeOK
  <2>1. \A S : <<>> \in Seq(S)
    OBVIOUS
  <2>2. index \in 0 .. NRays
    BY <1>1, NRaysAssumption DEF NRaysAssumption
  <2>3. /\ targets \in Seq(Thread) /\ queue \in Seq(Seq(Thread)) /\ job \in [Thread -> Seq(Thread)]
    BY <1>1, <2>1
  <2> QED
    BY <1>1, <1>2, <2>2, <2>3 DEF EngineTypeOK, Phases, Labels
<1>4. ControlOK
  BY <1>1, ThreadZero DEF ControlOK, LabelsOf
<1>5. ReduceOK
  BY <1>1, <1>2 DEF ReduceOK, Ray
<1>6. NoSharedSpace
  BY <1>1 DEF NoSharedSpace, Members
<1> QED
  BY <1>1, <1>3, <1>4, <1>5, <1>6 DEF EngineInv, SynchOK, UpdateOK, ResetOK

\* Only the thread inside the mutex reads index_.
LEMMA ReadIndexOK ==
  ASSUME EngineInv, NEW t \in Thread, ReadIndex(t)
  PROVE  EngineInv'
<1>1. /\ tpc[t] = "ask" /\ pmutex = Nobody /\ pmutex' = t
      /\ seen' = [seen EXCEPT ![t] = index]
      /\ tpc' = [tpc EXCEPT ![t] = "partition"]
      /\ UNCHANGED <<phase, index, space, targets, queue, qmutex, chunk, job, sum>>
  BY DEF ReadIndex, LockPartitioner, Goto
<1>2. phase = "reduce" /\ phase' = "reduce"
  BY <1>1, PhaseOf
<1>3. /\ EngineTypeOK /\ ControlOK /\ ReduceOK /\ tpc \in [Thread -> Labels]
      /\ seen \in [Thread -> Int] /\ index \in 0 .. NRays
  BY DEF EngineInv, EngineTypeOK
<1>4. tpc'[t] = "partition" /\ seen'[t] = index /\ \A u \in Thread \ {t} : tpc'[u] = tpc[u]
  BY <1>1, <1>3
<1>5. EngineTypeOK'
  <2>1. tpc' \in [Thread -> Labels]
    BY <1>1, <1>3 DEF Labels
  <2>2. seen' \in [Thread -> Int]
    BY <1>1, <1>3
  <2> QED
    BY <1>1, <1>3, <2>1, <2>2 DEF EngineTypeOK
<1>6. ControlOK'
  <2>1. \A u \in Thread : tpc'[u] \in LabelsOf(phase')
    BY <1>2, <1>3, <1>4 DEF ControlOK, LabelsOf
  <2>2. \A u \in Thread : tpc'[u] = "partition" <=> pmutex' = u
    BY <1>1, <1>3, <1>4, ThreadZero DEF ControlOK
  <2>3. /\ \A u \in Thread : tpc'[u] = "popfront" <=> qmutex' = u
        /\ \A u \in Thread : chunk'[u] # {} => tpc'[u] = "process"
        /\ \A u \in Thread : job'[u] # <<>> <=> tpc'[u] \in {"popfront", "combine", "store"}
    BY <1>1, <1>3, <1>4 DEF ControlOK
  <2> QED
    BY <2>1, <2>2, <2>3 DEF ControlOK
<1>7. ReduceOK'
  <2>1. /\ \A u \in Thread : tpc'[u] = "partition" => seen'[u] = index'
        /\ \A u \in Thread : tpc'[u] = "done" => index' = NRays
    BY <1>1, <1>2, <1>3, <1>4, ThreadZero DEF ReduceOK, ControlOK
  <2>2. \A r \in Ray : OnceIn(Thread, r)' = OnceIn(Thread, r)
    BY <1>1 DEF OnceIn
  <2> QED
    BY <1>1, <1>2, <1>3, <2>1, <2>2 DEF ReduceOK
<1>8. NoSharedSpace'
  BY <1>1 DEF EngineInv, NoSharedSpace
<1> QED
  BY <1>2, <1>5, <1>6, <1>7, <1>8 DEF EngineInv, SynchOK, UpdateOK, ResetOK

\* A thread that finds no more rays is done; one that finds some takes them.
LEMMA NextMirroredRegionOK ==
  ASSUME EngineInv, NEW t \in Thread, NextMirroredRegion(t)
  PROVE  EngineInv'
<1>1. /\ tpc[t] = "partition" /\ pmutex' = Nobody
      /\ \/ /\ seen[t] >= NRays /\ tpc' = [tpc EXCEPT ![t] = "done"]
            /\ UNCHANGED <<index, chunk>>
         \/ /\ seen[t] < NRays /\ tpc' = [tpc EXCEPT ![t] = "process"]
            /\ chunk' = [chunk EXCEPT ![t] = seen[t] .. RegionEnd(seen[t]) - 1]
            /\ index' = RegionEnd(seen[t])
      /\ UNCHANGED <<phase, space, targets, queue, qmutex, seen, job, sum>>
  BY DEF NextMirroredRegion, Goto
<1>2. phase = "reduce" /\ phase' = "reduce"
  BY <1>1, PhaseOf
<1>3. /\ EngineTypeOK /\ ControlOK /\ ReduceOK /\ tpc \in [Thread -> Labels]
      /\ chunk \in [Thread -> SUBSET Ray] /\ index \in 0 .. NRays
      /\ NRays \in Nat \ {0} /\ ReqUnits \in Nat \ {0}
  BY NRaysAssumption, ReqUnitsAssumption
     DEF EngineInv, EngineTypeOK, NRaysAssumption, ReqUnitsAssumption
<1>4. seen[t] = index /\ chunk[t] = {} /\ pmutex = t
  BY <1>1, <1>2, <1>3 DEF ReduceOK, ControlOK
<1>5. /\ tpc'[t] \in {"done", "process"} /\ tpc' \in [Thread -> Labels]
      /\ \A u \in Thread \ {t} : tpc'[u] = tpc[u]
  <2>1. CASE tpc' = [tpc EXCEPT ![t] = "done"]
    BY <1>3, <2>1 DEF Labels
  <2>2. CASE tpc' = [tpc EXCEPT ![t] = "process"]
    BY <1>3, <2>2 DEF Labels
  <2> QED
    BY <1>1, <2>1, <2>2
<1>6. \A u \in Thread \ {t} : tpc[u] # "partition"
  BY <1>3, <1>4 DEF ControlOK
<1>7. \A r \in Ray : OnceIn(Thread, r)' = OnceIn(Thread, r)
  BY <1>1 DEF OnceIn
<1>8. CASE index >= NRays
  <2>1. index = NRays /\ tpc'[t] = "done" /\ index' = index /\ chunk' = chunk
    BY <1>1, <1>3, <1>4, <1>8
  <2>2. EngineTypeOK'
    BY <1>1, <1>3, <1>5, <2>1 DEF EngineTypeOK
  <2>3. ControlOK'
    <3>1. \A u \in Thread : tpc'[u] \in LabelsOf(phase')
      BY <1>2, <1>3, <1>5 DEF ControlOK, LabelsOf
    <3>2. \A u \in Thread : tpc'[u] = "partition" <=> pmutex' = u
      BY <1>1, <1>5, <1>6, ThreadZero
    <3>3. /\ \A u \in Thread : tpc'[u] = "popfront" <=> qmutex' = u
          /\ \A u \in Thread : chunk'[u] # {} => tpc'[u] = "process"
          /\ \A u \in Thread : job'[u] # <<>> <=> tpc'[u] \in {"popfront", "combine", "store"}
      BY <1>1, <1>3, <1>4, <1>5, <2>1 DEF ControlOK
    <3> QED
      BY <3>1, <3>2, <3>3 DEF ControlOK
  <2>4. ReduceOK'
    BY <1>1, <1>2, <1>3, <1>5, <1>7, <2>1 DEF ReduceOK
  <2> QED
    BY <1>1, <1>2, <2>2, <2>3, <2>4 DEF EngineInv, SynchOK, UpdateOK, ResetOK, NoSharedSpace
<1>9. CASE index < NRays
  <2>1. /\ tpc'[t] = "process" /\ index' = RegionEnd(index)
        /\ chunk' = [chunk EXCEPT ![t] = index .. RegionEnd(index) - 1]
    BY <1>1, <1>3, <1>4, <1>9
  <2>2. RegionEnd(index) \in 0 .. NRays /\ index < RegionEnd(index)
    BY <1>3, <1>9 DEF RegionEnd
  <2>3. /\ chunk'[t] = index .. index' - 1 /\ index' \in 0 .. NRays /\ index < index'
        /\ \A u \in Thread \ {t} : chunk'[u] = chunk[u]
    BY <1>3, <2>1, <2>2
  <2>4. EngineTypeOK'
    <3>1. index .. index' - 1 \subseteq Ray
      <4>1. \A a, b \in 0 .. NRays : \A r \in a .. b - 1 : r \in 0 .. NRays - 1
        BY <1>3
      <4>2. \A r \in index .. index' - 1 : r \in Ray
        BY <1>3, <2>3, <4>1 DEF Ray
      <4> QED
        BY <4>2
    <3>2. chunk' \in [Thread -> SUBSET Ray]
      BY <1>3, <2>1, <2>3, <3>1
    <3> QED
      BY <1>1, <1>3, <1>5, <2>3, <3>2 DEF EngineTypeOK
  <2>5. ControlOK'
    <3>1. \A u \in Thread : tpc'[u] \in LabelsOf(phase')
      BY <1>2, <1>3, <1>5 DEF ControlOK, LabelsOf
    <3>2. \A u \in Thread : tpc'[u] = "partition" <=> pmutex' = u
      BY <1>1, <1>5, <1>6, ThreadZero
    <3>3. /\ \A u \in Thread : tpc'[u] = "popfront" <=> qmutex' = u
          /\ \A u \in Thread : chunk'[u] # {} => tpc'[u] = "process"
          /\ \A u \in Thread : job'[u] # <<>> <=> tpc'[u] \in {"popfront", "combine", "store"}
      BY <1>1, <1>3, <1>5, <2>1, <2>3 DEF ControlOK
    <3> QED
      BY <3>1, <3>2, <3>3 DEF ControlOK
  <2>6. /\ \A u \in Thread : tpc'[u] = "partition" => seen'[u] = index'
        /\ \A u \in Thread : tpc'[u] = "done" => index' = NRays
    BY <1>2, <1>3, <1>5, <1>6, <1>9, <2>1 DEF ReduceOK
  <2>7. \A u \in Thread : \A r \in chunk[u] : r \in Ray /\ r < index
    BY <1>2, <1>3 DEF ReduceOK
  <2>8. \A u \in Thread : \A r \in chunk'[u] : r < index'
    BY <1>3, <2>3, <2>7 DEF Ray
  <2>9. \A u, v \in Thread : u # v => chunk'[u] \cap chunk'[v] = {}
    <3>1. \A u \in Thread \ {t} : chunk'[u] \cap chunk'[t] = {}
      BY <1>3, <2>3, <2>7 DEF Ray
    <3>2. \A u, v \in Thread \ {t} : u # v => chunk'[u] \cap chunk'[v] = {}
      BY <1>2, <1>3, <2>3 DEF ReduceOK
    <3> QED
      BY <3>1, <3>2
  <2>10. ASSUME NEW r \in Ray, r >= index' \/ \E u \in Thread : r \in chunk'[u]
         PROVE  \A u \in Thread : space'[u][r] = 0
    <3>1. r >= index \/ \E u \in Thread : r \in chunk[u]
      BY <1>3, <2>3, <2>10 DEF Ray
    <3> QED
      BY <1>1, <1>2, <1>3, <3>1 DEF ReduceOK
  <2>11. ASSUME NEW r \in Ray, r < index', \A u \in Thread : r \notin chunk'[u]
         PROVE  OnceIn(Thread, r)'
    <3>1. r < index /\ \A u \in Thread : r \notin chunk[u]
      BY <1>3, <1>4, <2>3, <2>11 DEF Ray
    <3> QED
      BY <1>2, <1>3, <1>7, <3>1 DEF ReduceOK
  <2>12. ReduceOK'
    BY <2>6, <2>8, <2>9, <2>10, <2>11 DEF ReduceOK
  <2> QED
    BY <1>1, <1>2, <2>4, <2>5, <2>12 DEF EngineInv, SynchOK, UpdateOK, ResetOK, NoSharedSpace
<1> QED
  BY <1>3, <1>8, <1>9

\* The rays of the chunk move into the thread's space.
LEMMA ProcessOK ==
  ASSUME EngineInv, NEW t \in Thread, Process(t)
  PROVE  EngineInv'
<1> DEFINE added == [r \in Ray |-> IF r \in chunk[t] THEN space[t][r] + 1 ELSE space[t][r]]
<1>1. /\ tpc[t] = "process"
      /\ space' = [space EXCEPT ![t] = added]
      /\ chunk' = [chunk EXCEPT ![t] = {}]
      /\ tpc' = [tpc EXCEPT ![t] = "ask"]
      /\ UNCHANGED <<phase, index, targets, queue, pmutex, qmutex, seen, job, sum>>
  BY DEF Process, Goto, EngineInv, EngineTypeOK
<1>2. phase = "reduce" /\ phase' = "reduce"
  BY <1>1, PhaseOf
<1>3. /\ EngineTypeOK /\ ControlOK /\ ReduceOK /\ tpc \in [Thread -> Labels]
      /\ chunk \in [Thread -> SUBSET Ray] /\ index \in 0 .. NRays
      /\ space \in [Thread -> [Ray -> Nat]]
  BY DEF EngineInv, EngineTypeOK
<1>4. /\ tpc'[t] = "ask" /\ chunk'[t] = {} /\ space'[t] = added
      /\ \A u \in Thread \ {t} : tpc'[u] = tpc[u] /\ chunk'[u] = chunk[u] /\ space'[u] = space[u]
  BY <1>1, <1>3
<1>5. added \in [Ray -> Nat]
      /\ \A r \in Ray : added[r] = IF r \in chunk[t] THEN space[t][r] + 1 ELSE space[t][r]
  BY <1>3
<1> HIDE DEF added
<1>6. EngineTypeOK'
  <2>1. tpc' \in [Thread -> Labels]
    BY <1>1, <1>3 DEF Labels
  <2>2. chunk' \in [Thread -> SUBSET Ray]
    BY <1>1, <1>3
  <2>3. space' \in [Thread -> [Ray -> Nat]]
    BY <1>1, <1>3, <1>5
  <2> QED
    BY <1>1, <1>3, <2>1, <2>2, <2>3 DEF EngineTypeOK
<1>7. ControlOK'
  <2>1. \A u \in Thread : tpc'[u] \in LabelsOf(phase')
    BY <1>2, <1>3, <1>4 DEF ControlOK, LabelsOf
  <2>2. /\ \A u \in Thread : tpc'[u] = "partition" <=> pmutex' = u
        /\ \A u \in Thread : tpc'[u] = "popfront" <=> qmutex' = u
        /\ \A u \in Thread : chunk'[u] # {} => tpc'[u] = "process"
        /\ \A u \in Thread : job'[u] # <<>> <=> tpc'[u] \in {"popfront", "combine", "store"}
    BY <1>1, <1>3, <1>4 DEF ControlOK
  <2> QED
    BY <2>1, <2>2 DEF ControlOK
<1>8. /\ \A u \in Thread : tpc'[u] = "partition" => seen'[u] = index'
      /\ \A u \in Thread : tpc'[u] = "done" => index' = NRays
      /\ \A u \in Thread : \A r \in chunk'[u] : r < index'
      /\ \A u, v \in Thread : u # v => chunk'[u] \cap chunk'[v] = {}
  BY <1>1, <1>2, <1>3, <1>4 DEF ReduceOK
<1>9. ASSUME NEW r \in Ray, r >= index' \/ \E u \in Thread : r \in chunk'[u]
      PROVE  \A u \in Thread : space'[u][r] = 0
  <2>1. r \notin chunk[t]
    BY <1>1, <1>2, <1>3, <1>4, <1>9 DEF ReduceOK, Ray
  <2>2. r >= index \/ \E u \in Thread : r \in chunk[u]
    BY <1>1, <1>4, <1>9
  <2>3. \A u \in Thread : space[u][r] = 0
    BY <1>2, <1>3, <2>2 DEF ReduceOK
  <2> QED
    BY <1>4, <1>5, <2>1, <2>3
<1>10. ASSUME NEW r \in Ray, r < index', \A u \in Thread : r \notin chunk'[u]
       PROVE  OnceIn(Thread, r)'
  <2>1. CASE r \in chunk[t]
    <3>1. \A u \in Thread : space[u][r] = 0
      BY <1>2, <1>3, <2>1 DEF ReduceOK
    <3>2. space'[t][r] = 1 /\ \A u \in Thread \ {t} : space'[u][r] = 0
      BY <1>4, <1>5, <2>1, <3>1
    <3> QED
      BY <3>2 DEF OnceIn
  <2>2. CASE r \notin chunk[t]
    <3>1. \A u \in Thread : r \notin chunk[u]
      BY <1>4, <1>10, <2>2
    <3>2. OnceIn(Thread, r)
      BY <1>1, <1>2, <1>3, <1>10, <3>1 DEF ReduceOK
    <3>3. \A u \in Thread : space'[u][r] = space[u][r]
      BY <1>4, <1>5, <2>2
    <3> QED
      BY <3>2, <3>3 DEF OnceIn
  <2> QED
    BY <2>1, <2>2
<1>11. ReduceOK'
  BY <1>8, <1>9, <1>10 DEF ReduceOK
<1>12. NoSharedSpace'
  BY <1>1 DEF EngineInv, NoSharedSpace
<1> QED
  BY <1>2, <1>6, <1>7, <1>11, <1>12 DEF EngineInv, SynchOK, UpdateOK, ResetOK

-----------------------------------------------------------------------------
(* Groups.                                                                 *)

\* The spaces that matter, as a function of the lists they are in.
LiveOf(T, Q, J) == Members(T) \cup (UNION {Members(Q[k]) : k \in DOMAIN Q})
                              \cup (UNION {Members(J[u]) : u \in Thread})

\* What matters is a target, or the second space of a group still to be added.
LEMMA InLiveOf ==
  ASSUME NEW T, NEW Q, NEW J, NEW x
  PROVE  x \in LiveOf(T, Q, J) <=> \/ x \in Members(T)
                                   \/ \E k \in DOMAIN Q : x \in Members(Q[k])
                                   \/ \E u \in Thread : x \in Members(J[u])
<1> DEFINE B == UNION {Members(Q[k]) : k \in DOMAIN Q}
           C == UNION {Members(J[u]) : u \in Thread}
<1>1. x \in B <=> \E k \in DOMAIN Q : x \in Members(Q[k])
  OBVIOUS
<1>2. x \in C <=> \E u \in Thread : x \in Members(J[u])
  OBVIOUS
<1>3. LiveOf(T, Q, J) = Members(T) \cup B \cup C
  BY DEF LiveOf
<1> HIDE DEF B, C
<1> QED
  BY <1>1, <1>2, <1>3

\* Live, as an operator of the variables it reads.
LEMMA LiveIs == Live = LiveOf(targets, queue, job) /\ Live' = LiveOf(targets', queue', job')
BY DEF Live, LiveOf

\* A level begins: its groups are those of PartitionReductionSpaces.
LEMMA LevelOK ==
  ASSUME EngineInv, AllDone,
         NEW sp \in Seq(Thread), sp # <<>>, sp[1] = 0,
         \A i, j \in 1 .. Len(sp) : sp[i] = sp[j] => i = j,
         \A r \in Ray : OnceIn(Members(sp), r),
         Level(sp), phase' = "synch",
         UNCHANGED <<index, space, pmutex, qmutex, seen, chunk, job, sum>>
  PROVE  EngineInv'
<1> DEFINE G == Groups(sp)
           T == Firsts(G)
<1>1. /\ G \in Seq(Seq(Thread)) /\ T \in Seq(Thread) /\ T # <<>> /\ T[1] = 0
      /\ \A i, j \in 1 .. Len(T) : T[i] = T[j] => i = j
      /\ \A k, l \in 1 .. Len(G) : k # l => Disjoint(G[k], G[l])
      /\ \A k \in 1 .. Len(G) : /\ Len(G[k]) \in {1, 2} /\ G[k][1] \in Members(T)
                                /\ Len(G[k]) = 2 => G[k][2] \notin Members(T)
      /\ Members(T) \cup UNION {Members(G[k]) : k \in DOMAIN G} = Members(sp)
  BY GroupsOfSpaces, GroupsAreDisjoint
<1>2. queue' = G /\ targets' = T /\ tpc' = [t \in Thread |-> "pop"]
  BY DEF Level, All
<1> HIDE DEF G, T
<1>3. /\ EngineTypeOK /\ ControlOK /\ \A t \in Thread : tpc[t] = "done"
  BY DEF EngineInv, AllDone
<1>4. \A t \in Thread : job[t] = <<>> /\ chunk[t] = {} /\ pmutex # t /\ qmutex # t
  BY <1>3 DEF ControlOK
<1>5. EngineTypeOK'
  BY <1>1, <1>2, <1>3 DEF EngineTypeOK, Phases, Labels
<1>6. ControlOK'
  BY <1>2, <1>4 DEF ControlOK, LabelsOf
<1>7. NoSharedSpace'
  BY DEF EngineInv, NoSharedSpace
<1>8. TargetsOK'
  BY <1>1, <1>2 DEF TargetsOK
<1>9. GroupsOK'
  <2>1. \A k \in 1 .. Len(G) : GroupOK(G[k])'
    BY <1>1, <1>2 DEF GroupOK
  <2>2. \A t \in Thread : Members(job'[t]) = {}
    BY <1>4 DEF Members
  <2> QED
    BY <1>1, <1>2, <1>4, <2>1, <2>2 DEF GroupsOK, Disjoint
<1>10. Live' = Members(sp)
  <2>1. \A t \in Thread : Members(job'[t]) = {}
    BY <1>4 DEF Members
  <2>2. Live' = LiveOf(T, G, job')
    BY <1>2, LiveIs
  <2>3. \A x : x \in Live' <=> x \in Members(T) \/ \E k \in DOMAIN G : x \in Members(G[k])
    BY <2>1, <2>2, InLiveOf
  <2>4. \A x : x \in Members(sp) <=> x \in Members(T) \/ \E k \in DOMAIN G : x \in Members(G[k])
    BY <1>1
  <2> QED
    BY <2>3, <2>4
<1>11. \A r \in Ray : OnceIn(Live, r)'
  BY <1>10 DEF OnceIn
<1> QED
  BY <1>5, <1>6, <1>7, <1>8, <1>9, <1>11 DEF EngineInv, ReduceOK, SynchOK, UpdateOK, ResetOK

\* Every ray is in the space of one thread when the threads have been joined.
LEMMA JoinReductionOK ==
  ASSUME EngineInv, JoinReduction
  PROVE  EngineInv'
<1> DEFINE sp == [k \in 1 .. NThreads |-> k - 1]
<1>1. /\ phase = "reduce" /\ AllDone /\ phase' = "synch" /\ Level(sp)
      /\ UNCHANGED <<index, space, pmutex, qmutex, seen, chunk, job, sum>>
  BY DEF JoinReduction
<1>2. NThreads \in Nat \ {0}
  BY NThreadsAssumption DEF NThreadsAssumption
<1>3. /\ sp \in Seq(Thread) /\ Len(sp) = NThreads /\ sp # <<>> /\ sp[1] = 0
      /\ \A i, j \in 1 .. Len(sp) : sp[i] = sp[j] => i = j
  BY <1>2 DEF Thread
<1>4. Members(sp) = Thread
  <2>1. \A x \in Thread : x + 1 \in 1 .. NThreads /\ sp[x + 1] = x
    BY <1>2 DEF Thread
  <2>2. \A k \in 1 .. NThreads : sp[k] \in Thread
    BY <1>2 DEF Thread
  <2> QED
    BY <2>1, <2>2 DEF Members
<1>5. \A r \in Ray : OnceIn(Thread, r)
  <2>1. ControlOK /\ ReduceOK /\ \A t \in Thread : tpc[t] = "done"
    BY <1>1 DEF EngineInv, AllDone
  <2>2. index = NRays /\ \A t \in Thread : chunk[t] = {}
    BY <1>1, <2>1, ThreadZero DEF ControlOK, ReduceOK
  <2>3. \A r \in Ray : r < NRays
    BY NRaysAssumption DEF Ray, NRaysAssumption
  <2> QED
    BY <1>1, <2>1, <2>2, <2>3 DEF ReduceOK
<1> HIDE DEF sp
<1> QED
  BY <1>1, <1>3, <1>4, <1>5, LevelOK

\* What the steps of a thread that adds up leave alone.
LEMMA SynchStep ==
  ASSUME EngineInv, NEW t \in Thread, phase = "synch", phase' = phase,
         NEW l \in {"pop", "popfront", "combine", "store", "done"},
         tpc' = [tpc EXCEPT ![t] = l],
         UNCHANGED <<index, pmutex, seen, chunk, targets>>,
         l = "popfront" <=> qmutex' = t,
         \A u \in Thread \ {t} : (qmutex' = u) <=> (qmutex = u),
         \A u \in Thread \ {t} : job'[u] = job[u],
         job'[t] # <<>> <=> l \in {"popfront", "combine", "store"},
         qmutex' \in Thread \cup {Nobody},
         queue' \in Seq(Seq(Thread)),
         space' \in [Thread -> [Ray -> Nat]],
         job' \in [Thread -> Seq(Thread)],
         sum' \in [Thread -> [Ray -> Nat]]
  PROVE  /\ EngineTypeOK' /\ ControlOK' /\ ReduceOK' /\ UpdateOK' /\ ResetOK'
         /\ tpc'[t] = l /\ \A u \in Thread \ {t} : tpc'[u] = tpc[u]
<1>1. EngineTypeOK /\ ControlOK /\ tpc \in [Thread -> Labels]
  BY DEF EngineInv, EngineTypeOK
<1>2. tpc'[t] = l /\ \A u \in Thread \ {t} : tpc'[u] = tpc[u]
  BY <1>1
<1>3. EngineTypeOK'
  <2>1. tpc' \in [Thread -> Labels]
    BY <1>1 DEF Labels
  <2> QED
    BY <1>1, <2>1 DEF EngineTypeOK
<1>4. tpc[t] # "partition" /\ tpc[t] # "process"
  BY PhaseOf
<1>5. ControlOK'
  <2>1. \A u \in Thread : tpc'[u] \in LabelsOf(phase')
    BY <1>1, <1>2 DEF ControlOK, LabelsOf
  <2>2. \A u \in Thread : tpc'[u] = "partition" <=> pmutex' = u
    BY <1>1, <1>2, <1>4 DEF ControlOK
  <2>3. \A u \in Thread : tpc'[u] = "popfront" <=> qmutex' = u
    BY <1>1, <1>2 DEF ControlOK
  <2>4. \A u \in Thread : chunk'[u] # {} => tpc'[u] = "process"
    BY <1>1, <1>2, <1>4 DEF ControlOK
  <2>5. \A u \in Thread : job'[u] # <<>> <=> tpc'[u] \in {"popfront", "combine", "store"}
    BY <1>1, <1>2 DEF ControlOK
  <2> QED
    BY <2>1, <2>2, <2>3, <2>4, <2>5 DEF ControlOK
<1> QED
  BY <1>2, <1>3, <1>5 DEF ReduceOK, UpdateOK, ResetOK

\* The sum of two spaces is a space.
LEMMA AddTyped ==
  ASSUME NEW f \in [Ray -> Nat], NEW g \in [Ray -> Nat]
  PROVE  Add(f, g) \in [Ray -> Nat] /\ \A r \in Ray : Add(f, g)[r] = f[r] + g[r]
BY DEF Add

\* The front of the queue is with the thread that holds the mutex, and nobody
\* else holds the mutex.
LEMMA FrontOK ==
  ASSUME EngineInv, NEW t \in Thread, Front(t)
  PROVE  EngineInv'
<1>1. /\ tpc[t] = "pop" /\ qmutex = Nobody
      /\ \/ /\ queue # <<>> /\ job' = [job EXCEPT ![t] = Head(queue)] /\ qmutex' = t
            /\ tpc' = [tpc EXCEPT ![t] = "popfront"]
         \/ /\ queue = <<>> /\ tpc' = [tpc EXCEPT ![t] = "done"]
            /\ job' = job /\ qmutex' = qmutex
      /\ UNCHANGED <<phase, index, space, targets, queue, pmutex, seen, chunk, sum>>
  BY DEF Front, QueueFree, Goto
<1>2. phase = "synch" /\ phase' = "synch"
  BY <1>1, PhaseOf
<1>3. /\ EngineTypeOK /\ ControlOK /\ NoSharedSpace /\ TargetsOK /\ GroupsOK
      /\ \A r \in Ray : OnceIn(Live, r)
      /\ queue \in Seq(Seq(Thread)) /\ job \in [Thread -> Seq(Thread)]
  BY <1>2 DEF EngineInv, EngineTypeOK, SynchOK
<1>4. job[t] = <<>> /\ \A u \in Thread : tpc[u] # "popfront"
  BY <1>1, <1>3, ThreadZero DEF ControlOK
<1>5. TargetsOK' /\ \A g : GroupOK(g)' = GroupOK(g)
  BY <1>1, <1>3 DEF TargetsOK, GroupOK
<1>6. CASE queue = <<>>
  <2>1. tpc' = [tpc EXCEPT ![t] = "done"] /\ job' = job /\ qmutex' = qmutex
    BY <1>1, <1>6
  <2>2. /\ EngineTypeOK' /\ ControlOK' /\ ReduceOK' /\ UpdateOK' /\ ResetOK'
        /\ tpc'[t] = "done" /\ \A u \in Thread \ {t} : tpc'[u] = tpc[u]
    <3>1. qmutex' # t
      BY <1>1, <2>1, ThreadZero
    <3>2. /\ queue' \in Seq(Seq(Thread)) /\ space' \in [Thread -> [Ray -> Nat]]
          /\ job' \in [Thread -> Seq(Thread)] /\ sum' \in [Thread -> [Ray -> Nat]]
          /\ qmutex' \in Thread \cup {Nobody}
      BY <1>1, <1>3, <2>1 DEF EngineTypeOK
    <3> QED
      BY <1>1, <1>2, <1>4, <2>1, <3>1, <3>2, SynchStep
  <2>3. GroupsOK'
    BY <1>1, <1>3, <1>4, <1>5, <1>6, <2>1, <2>2 DEF GroupsOK
  <2>4. Live' = Live
    BY <1>1, <2>1 DEF Live
  <2>5. \A r \in Ray : OnceIn(Live, r)'
    BY <1>1, <1>3, <2>4 DEF OnceIn
  <2>6. NoSharedSpace'
    BY <1>3, <2>1 DEF NoSharedSpace
  <2> QED
    BY <1>5, <2>2, <2>3, <2>5, <2>6 DEF EngineInv, SynchOK
<1>7. CASE queue # <<>>
  <2>1. /\ tpc' = [tpc EXCEPT ![t] = "popfront"] /\ qmutex' = t
        /\ job' = [job EXCEPT ![t] = queue[1]]
        /\ job'[t] = queue[1] /\ \A u \in Thread \ {t} : job'[u] = job[u]
    BY <1>1, <1>3, <1>7
  <2>2. 1 \in 1 .. Len(queue) /\ queue[1] \in Seq(Thread) /\ GroupOK(queue[1])
    BY <1>3, <1>7 DEF GroupsOK
  <2>3. queue[1] # <<>>
    BY <2>2 DEF GroupOK
  <2>4. /\ EngineTypeOK' /\ ControlOK' /\ ReduceOK' /\ UpdateOK' /\ ResetOK'
        /\ tpc'[t] = "popfront" /\ \A u \in Thread \ {t} : tpc'[u] = tpc[u]
    <3>1. /\ queue' \in Seq(Seq(Thread)) /\ space' \in [Thread -> [Ray -> Nat]]
          /\ job' \in [Thread -> Seq(Thread)] /\ sum' \in [Thread -> [Ray -> Nat]]
          /\ qmutex' \in Thread \cup {Nobody}
      BY <1>1, <1>3, <2>1, <2>2 DEF EngineTypeOK
    <3>2. \A u \in Thread \ {t} : (qmutex' = u) <=> (qmutex = u)
      BY <1>1, <2>1, ThreadZero
    <3> QED
      BY <1>1, <1>2, <2>1, <2>3, <3>1, <3>2, SynchStep
  <2>5. NoSharedSpace'
    <3>1. \A u \in Thread \ {t} : Members(job'[u]) \cap Members(job'[t]) = {}
      BY <1>3, <1>4, <2>1, <2>2 DEF GroupsOK, Disjoint
    <3> QED
      BY <1>3, <2>1, <3>1 DEF NoSharedSpace
  <2>6. GroupsOK'
    <3>1. \A u \in Thread : job'[u] # <<>> => GroupOK(job[u])'
      BY <1>3, <1>5, <2>1, <2>2 DEF GroupsOK
    <3>2. \A u \in Thread : tpc'[u] = "popfront" => queue' # <<>> /\ job'[u] = queue'[1]
      BY <1>1, <1>4, <1>7, <2>1, <2>4
    <3>3. \A u \in Thread : tpc'[u] # "popfront" =>
            \A k \in 1 .. Len(queue') : Disjoint(job'[u], queue'[k])
      BY <1>1, <1>3, <2>1, <2>4 DEF GroupsOK
    <3>4. \A u \in Thread : tpc'[u] = "done" => queue' = <<>>
      BY <1>1, <1>3, <2>4 DEF GroupsOK
    <3>5. \A u \in Thread : tpc'[u] = "store" =>
            Len(job'[u]) = 2 /\ sum'[u] = Add(space'[job'[u][1]], space'[job'[u][2]])
      BY <1>1, <1>3, <2>1, <2>4 DEF GroupsOK
    <3> QED
      BY <1>1, <1>3, <1>5, <3>1, <3>2, <3>3, <3>4, <3>5 DEF GroupsOK
  <2>7. Live' = Live
    <3>1. ASSUME NEW x PROVE x \in Live' <=> x \in Live
      <4>1. /\ x \in Live <=> \/ x \in Members(targets)
                              \/ \E k \in DOMAIN queue : x \in Members(queue[k])
                              \/ \E u \in Thread : x \in Members(job[u])
            /\ x \in Live' <=> \/ x \in Members(targets)
                               \/ \E k \in DOMAIN queue : x \in Members(queue[k])
                               \/ \E u \in Thread : x \in Members(job'[u])
        BY <1>1, LiveIs, InLiveOf
      <4>2. 1 \in DOMAIN queue /\ Members(job[t]) = {}
        BY <1>3, <1>4, <2>2 DEF Members
      <4> QED
        BY <2>1, <4>1, <4>2
    <3> QED
      BY <3>1
  <2>8. \A r \in Ray : OnceIn(Live, r)'
    BY <1>1, <1>3, <2>7 DEF OnceIn
  <2> QED
    BY <1>5, <2>4, <2>5, <2>6, <2>8 DEF EngineInv, SynchOK
<1> QED
  BY <1>6, <1>7

\* The group leaves the queue; the thread has it.
LEMMA PopFrontOK ==
  ASSUME EngineInv, NEW t \in Thread, PopFront(t)
  PROVE  EngineInv'
<1>1. /\ tpc[t] = "popfront" /\ queue # <<>> /\ queue' = Tail(queue) /\ qmutex' = Nobody
      /\ tpc' = [tpc EXCEPT ![t] = "combine"]
      /\ UNCHANGED <<phase, index, space, targets, pmutex, seen, chunk, job, sum>>
  BY DEF PopFront, UnlockQueue, Goto
<1>2. phase = "synch" /\ phase' = "synch"
  BY <1>1, PhaseOf
<1>3. /\ EngineTypeOK /\ ControlOK /\ NoSharedSpace /\ TargetsOK /\ GroupsOK
      /\ \A r \in Ray : OnceIn(Live, r)
      /\ queue \in Seq(Seq(Thread)) /\ job \in [Thread -> Seq(Thread)]
  BY <1>2 DEF EngineInv, EngineTypeOK, SynchOK
<1>4. /\ qmutex = t /\ job[t] # <<>> /\ job[t] = queue[1]
      /\ \A u \in Thread \ {t} : tpc[u] # "popfront"
  BY <1>1, <1>3 DEF ControlOK, GroupsOK
<1>5. /\ queue' \in Seq(Seq(Thread)) /\ Len(queue') = Len(queue) - 1 /\ Len(queue) \in Nat \ {0}
      /\ \A k \in 1 .. Len(queue') : queue'[k] = queue[k + 1] /\ k + 1 \in 1 .. Len(queue)
  BY <1>1, <1>3
<1>6. TargetsOK' /\ \A g : GroupOK(g)' = GroupOK(g)
  BY <1>1, <1>3 DEF TargetsOK, GroupOK
<1>7. /\ EngineTypeOK' /\ ControlOK' /\ ReduceOK' /\ UpdateOK' /\ ResetOK'
      /\ tpc'[t] = "combine" /\ \A u \in Thread \ {t} : tpc'[u] = tpc[u]
  <2>1. /\ queue' \in Seq(Seq(Thread)) /\ space' \in [Thread -> [Ray -> Nat]]
        /\ job' \in [Thread -> Seq(Thread)] /\ sum' \in [Thread -> [Ray -> Nat]]
        /\ qmutex' \in Thread \cup {Nobody}
    BY <1>1, <1>3, <1>5 DEF EngineTypeOK
  <2>2. qmutex' # t /\ \A u \in Thread \ {t} : (qmutex' = u) <=> (qmutex = u)
    BY <1>1, <1>4, ThreadZero
  <2> QED
    BY <1>1, <1>2, <1>4, <2>1, <2>2, SynchStep
<1>8. GroupsOK'
  <2>1. \A k \in 1 .. Len(queue') : GroupOK(queue[k])'
    BY <1>3, <1>5, <1>6 DEF GroupsOK
  <2>2. \A u \in Thread : job'[u] # <<>> => GroupOK(job[u])'
    BY <1>1, <1>3, <1>6 DEF GroupsOK
  <2>3. \A k, l \in 1 .. Len(queue') : k # l => Disjoint(queue'[k], queue'[l])
    <3> SUFFICES ASSUME NEW k \in 1 .. Len(queue'), NEW l \in 1 .. Len(queue'), k # l
                 PROVE  Disjoint(queue'[k], queue'[l])
      OBVIOUS
    <3>1. k + 1 \in 1 .. Len(queue) /\ l + 1 \in 1 .. Len(queue) /\ k + 1 # l + 1
      BY <1>5
    <3>2. Disjoint(queue[k + 1], queue[l + 1])
      BY <1>3, <3>1 DEF GroupsOK
    <3> QED
      BY <1>5, <3>2
  <2>4. ASSUME NEW u \in Thread, NEW k \in 1 .. Len(queue') PROVE Disjoint(job'[u], queue'[k])
    <3>1. job'[u] = job[u] /\ queue'[k] = queue[k + 1] /\ k + 1 \in 1 .. Len(queue)
          /\ 1 \in 1 .. Len(queue) /\ k + 1 # 1
      BY <1>1, <1>5
    <3>2. CASE u = t
      BY <1>3, <1>4, <3>1, <3>2 DEF GroupsOK
    <3>3. CASE u # t
      BY <1>3, <1>4, <3>1, <3>3 DEF GroupsOK
    <3> QED
      BY <3>2, <3>3
  <2>5. \A u \in Thread : tpc'[u] # "popfront"
    BY <1>4, <1>7
  <2>6. \A u \in Thread : tpc'[u] = "done" => queue' = <<>>
    BY <1>1, <1>3, <1>7 DEF GroupsOK
  <2>7. \A u \in Thread : tpc'[u] = "store" =>
          Len(job'[u]) = 2 /\ sum'[u] = Add(space'[job'[u][1]], space'[job'[u][2]])
    BY <1>1, <1>3, <1>7 DEF GroupsOK
  <2> QED
    BY <2>1, <2>2, <2>3, <2>4, <2>5, <2>6, <2>7 DEF GroupsOK
<1>9. NoSharedSpace'
  BY <1>1, <1>3 DEF NoSharedSpace
<1>10. Live' = Live
  <2>1. ASSUME NEW x PROVE x \in Live' <=> x \in Live
    <3>1. x \in Live <=> \/ x \in Members(targets)
                         \/ \E k \in DOMAIN queue : x \in Members(queue[k])
                         \/ \E u \in Thread : x \in Members(job[u])
      BY LiveIs, InLiveOf
    <3>5. x \in Live' <=> \/ x \in Members(targets)
                          \/ \E k \in DOMAIN queue' : x \in Members(queue'[k])
                          \/ \E u \in Thread : x \in Members(job[u])
      <4>1. Live' = LiveOf(targets, queue', job)
        BY <1>1, LiveIs
      <4> QED
        BY <4>1, InLiveOf
    <3>2. DOMAIN queue = 1 .. Len(queue) /\ DOMAIN queue' = 1 .. Len(queue')
      BY <1>3, <1>5
    <3>3. \A k \in DOMAIN queue : k = 1 \/ (k - 1 \in DOMAIN queue' /\ queue'[k - 1] = queue[k])
      BY <1>5, <3>2
    <3>4. \A k \in DOMAIN queue' : k + 1 \in DOMAIN queue /\ queue'[k] = queue[k + 1]
      BY <1>5, <3>2
    <3> QED
      BY <1>4, <3>1, <3>3, <3>4, <3>5
  <2> QED
    BY <2>1
<1>11. \A r \in Ray : OnceIn(Live, r)'
  BY <1>1, <1>3, <1>10 DEF OnceIn
<1> QED
  BY <1>6, <1>7, <1>8, <1>9, <1>11 DEF EngineInv, SynchOK

\* Two spaces are read, or a group of one has been dealt with: its space is a
\* target, and goes on to matter.
LEMMA LocalSynchLoadOK ==
  ASSUME EngineInv, NEW t \in Thread, LocalSynchLoad(t)
  PROVE  EngineInv'
<1>1. /\ tpc[t] = "combine"
      /\ \/ /\ Len(job[t]) > 1 /\ job' = job
            /\ sum' = [sum EXCEPT ![t] = Add(space[job[t][1]], space[job[t][2]])]
            /\ tpc' = [tpc EXCEPT ![t] = "store"]
         \/ /\ Len(job[t]) = 1 /\ sum' = sum
            /\ job' = [job EXCEPT ![t] = <<>>]
            /\ tpc' = [tpc EXCEPT ![t] = "pop"]
      /\ UNCHANGED <<phase, index, space, targets, queue, pmutex, qmutex, seen, chunk>>
  BY DEF LocalSynchLoad, Goto
<1>2. phase = "synch" /\ phase' = "synch"
  BY <1>1, PhaseOf
<1>3. /\ EngineTypeOK /\ ControlOK /\ NoSharedSpace /\ TargetsOK /\ GroupsOK
      /\ \A r \in Ray : OnceIn(Live, r)
      /\ queue \in Seq(Seq(Thread)) /\ job \in [Thread -> Seq(Thread)]
      /\ space \in [Thread -> [Ray -> Nat]] /\ sum \in [Thread -> [Ray -> Nat]]
  BY <1>2 DEF EngineInv, EngineTypeOK, SynchOK
<1>4. /\ job[t] # <<>> /\ GroupOK(job[t]) /\ job[t] \in Seq(Thread) /\ qmutex # t
  BY <1>1, <1>3 DEF ControlOK, GroupsOK
<1>5. TargetsOK' /\ \A g : GroupOK(g)' = GroupOK(g)
  BY <1>1, <1>3 DEF TargetsOK, GroupOK
<1>6. CASE Len(job[t]) = 2
  <2>1. /\ job' = job /\ tpc' = [tpc EXCEPT ![t] = "store"]
        /\ sum' = [sum EXCEPT ![t] = Add(space[job[t][1]], space[job[t][2]])]
    BY <1>1, <1>6
  <2>2. /\ sum'[t] = Add(space[job[t][1]], space[job[t][2]])
        /\ \A u \in Thread \ {t} : sum'[u] = sum[u]
        /\ sum' \in [Thread -> [Ray -> Nat]]
    <3>1. job[t][1] \in Thread /\ job[t][2] \in Thread
      BY <1>4, <1>6, ElementOfSeq
    <3>2. Add(space[job[t][1]], space[job[t][2]]) \in [Ray -> Nat]
      BY <1>3, <3>1, AddTyped
    <3> QED
      BY <1>3, <2>1, <3>2
  <2>3. /\ EngineTypeOK' /\ ControlOK' /\ ReduceOK' /\ UpdateOK' /\ ResetOK'
        /\ tpc'[t] = "store" /\ \A u \in Thread \ {t} : tpc'[u] = tpc[u]
    <3>1. /\ queue' \in Seq(Seq(Thread)) /\ space' \in [Thread -> [Ray -> Nat]]
          /\ job' \in [Thread -> Seq(Thread)] /\ qmutex' \in Thread \cup {Nobody}
      BY <1>1, <1>3, <2>1 DEF EngineTypeOK
    <3> QED
      BY <1>1, <1>2, <1>4, <2>1, <2>2, <3>1, SynchStep
  <2>4. GroupsOK'
    <3>1. \A u \in Thread : tpc'[u] = "popfront" => queue' # <<>> /\ job'[u] = queue'[1]
      BY <1>1, <1>3, <2>1, <2>3 DEF GroupsOK
    <3>2. \A u \in Thread : tpc'[u] # "popfront" =>
            \A k \in 1 .. Len(queue') : Disjoint(job'[u], queue'[k])
      BY <1>1, <1>3, <2>1, <2>3 DEF GroupsOK
    <3>3. \A u \in Thread : tpc'[u] = "done" => queue' = <<>>
      BY <1>1, <1>3, <2>3 DEF GroupsOK
    <3>4. \A u \in Thread : tpc'[u] = "store" =>
            Len(job'[u]) = 2 /\ sum'[u] = Add(space'[job'[u][1]], space'[job'[u][2]])
      BY <1>1, <1>3, <1>6, <2>1, <2>2, <2>3 DEF GroupsOK
    <3> QED
      BY <1>1, <1>3, <1>5, <2>1, <3>1, <3>2, <3>3, <3>4 DEF GroupsOK
  <2>5. Live' = Live
    BY <1>1, <2>1 DEF Live
  <2>6. \A r \in Ray : OnceIn(Live, r)'
    BY <1>1, <1>3, <2>5 DEF OnceIn
  <2>7. NoSharedSpace'
    BY <1>3, <2>1 DEF NoSharedSpace
  <2> QED
    BY <1>5, <2>3, <2>4, <2>6, <2>7 DEF EngineInv, SynchOK
<1>7. CASE Len(job[t]) = 1
  <2>1. /\ job' = [job EXCEPT ![t] = <<>>] /\ tpc' = [tpc EXCEPT ![t] = "pop"] /\ sum' = sum
        /\ job'[t] = <<>> /\ \A u \in Thread \ {t} : job'[u] = job[u]
    BY <1>1, <1>3, <1>7
  <2>2. Members(job'[t]) = {} /\ Members(job[t]) \subseteq Members(targets)
    <3>1. DOMAIN job[t] = {1}
      BY <1>4, <1>7
    <3>2. Members(job[t]) = {job[t][1]}
      BY <3>1 DEF Members
    <3>3. Members(<<>>) = {}
      BY DEF Members
    <3>4. job[t][1] \in Members(targets)
      BY <1>4 DEF GroupOK
    <3> QED
      BY <2>1, <3>2, <3>3, <3>4
  <2>3. /\ EngineTypeOK' /\ ControlOK' /\ ReduceOK' /\ UpdateOK' /\ ResetOK'
        /\ tpc'[t] = "pop" /\ \A u \in Thread \ {t} : tpc'[u] = tpc[u]
    <3>1. /\ queue' \in Seq(Seq(Thread)) /\ space' \in [Thread -> [Ray -> Nat]]
          /\ job' \in [Thread -> Seq(Thread)] /\ qmutex' \in Thread \cup {Nobody}
          /\ sum' \in [Thread -> [Ray -> Nat]]
      BY <1>1, <1>3, <2>1 DEF EngineTypeOK
    <3> QED
      BY <1>1, <1>2, <1>4, <2>1, <3>1, SynchStep
  <2>4. GroupsOK'
    <3>1. \A u \in Thread : job'[u] # <<>> => GroupOK(job[u])'
      BY <1>3, <1>5, <2>1 DEF GroupsOK
    <3>2. \A u \in Thread : tpc'[u] = "popfront" => queue' # <<>> /\ job'[u] = queue'[1]
      BY <1>1, <1>3, <2>1, <2>3 DEF GroupsOK
    <3>3. \A u \in Thread : tpc'[u] # "popfront" =>
            \A k \in 1 .. Len(queue') : Disjoint(job'[u], queue'[k])
      BY <1>1, <1>3, <2>1, <2>2, <2>3 DEF GroupsOK, Disjoint
    <3>4. \A u \in Thread : tpc'[u] = "done" => queue' = <<>>
      BY <1>1, <1>3, <2>3 DEF GroupsOK
    <3>5. \A u \in Thread : tpc'[u] = "store" =>
            Len(job'[u]) = 2 /\ sum'[u] = Add(space'[job'[u][1]], space'[job'[u][2]])
      BY <1>1, <1>3, <2>1, <2>3 DEF GroupsOK
    <3> QED
      BY <1>1, <1>3, <1>5, <3>1, <3>2, <3>3, <3>4, <3>5 DEF GroupsOK
  <2>5. Live' = Live
    <3>1. ASSUME NEW x PROVE x \in Live' <=> x \in Live
      <4>1. /\ x \in Live <=> \/ x \in Members(targets)
                              \/ \E k \in DOMAIN queue : x \in Members(queue[k])
                              \/ \E u \in Thread : x \in Members(job[u])
            /\ x \in Live' <=> \/ x \in Members(targets)
                               \/ \E k \in DOMAIN queue : x \in Members(queue[k])
                               \/ \E u \in Thread : x \in Members(job'[u])
        BY <1>1, LiveIs, InLiveOf
      <4> QED
        BY <2>1, <2>2, <4>1
    <3> QED
      BY <3>1
  <2>6. \A r \in Ray : OnceIn(Live, r)'
    BY <1>1, <1>3, <2>5 DEF OnceIn
  <2>7. NoSharedSpace'
    BY <1>3, <2>1, <2>2 DEF NoSharedSpace
  <2> QED
    BY <1>5, <2>3, <2>4, <2>6, <2>7 DEF EngineInv, SynchOK
<1> QED
  BY <1>4, <1>6, <1>7 DEF GroupOK

\* The second space of the group goes into the first, and matters no more.
LEMMA LocalSynchStoreOK ==
  ASSUME EngineInv, NEW t \in Thread, LocalSynchStore(t)
  PROVE  EngineInv'
<1> DEFINE a == job[t][1]
           b == job[t][2]
<1>1. /\ tpc[t] = "store" /\ tpc' = [tpc EXCEPT ![t] = "combine"]
      /\ space' = [space EXCEPT ![a] = sum[t]]
      /\ sum' = [sum EXCEPT ![t] = Empty]
      /\ job' = [job EXCEPT ![t] = <<job[t][1]>> \o SubSeq(job[t], 3, Len(job[t]))]
      /\ UNCHANGED <<phase, index, targets, queue, pmutex, qmutex, seen, chunk>>
  BY DEF LocalSynchStore, Goto, EngineInv, EngineTypeOK
<1>2. phase = "synch" /\ phase' = "synch"
  BY <1>1, PhaseOf
<1>3. /\ EngineTypeOK /\ ControlOK /\ NoSharedSpace /\ TargetsOK /\ GroupsOK
      /\ \A r \in Ray : OnceIn(Live, r)
      /\ queue \in Seq(Seq(Thread)) /\ job \in [Thread -> Seq(Thread)]
      /\ space \in [Thread -> [Ray -> Nat]] /\ sum \in [Thread -> [Ray -> Nat]]
  BY <1>2 DEF EngineInv, EngineTypeOK, SynchOK
<1>4. /\ job[t] # <<>> /\ GroupOK(job[t]) /\ job[t] \in Seq(Thread) /\ qmutex # t
      /\ Len(job[t]) = 2 /\ sum[t] = Add(space[a], space[b])
  BY <1>1, <1>3 DEF ControlOK, GroupsOK
<1>5. /\ a \in Thread /\ b \in Thread /\ a \in Members(targets) /\ b \notin Members(targets)
      /\ a # b /\ Members(job[t]) = {a, b}
  <2>1. DOMAIN job[t] = {1, 2}
    BY <1>4
  <2>2. Members(job[t]) = {a, b}
    BY <2>1 DEF Members
  <2>3. a \in Thread /\ b \in Thread
    BY <1>4, ElementOfSeq
  <2>4. a \in Members(targets) /\ b \notin Members(targets)
    BY <1>4 DEF GroupOK
  <2> QED
    BY <2>2, <2>3, <2>4
<1>6. /\ job'[t] = <<a>> /\ \A u \in Thread \ {t} : job'[u] = job[u]
      /\ Members(job'[t]) = {a} /\ job'[t] # <<>> /\ Len(job'[t]) = 1 /\ job'[t][1] = a
      /\ job' \in [Thread -> Seq(Thread)]
  <2>1. <<a>> \o SubSeq(job[t], 3, Len(job[t])) = <<a>>
    <3>1. SubSeq(job[t], 3, Len(job[t])) = <<>>
      BY <1>4
    <3>2. \A S : \A s \in Seq(S) : s \o <<>> = s
      OBVIOUS
    <3>3. <<a>> \in Seq(Thread)
      BY <1>5
    <3> HIDE DEF a
    <3> QED
      BY <3>1, <3>2, <3>3
  <2>2. job'[t] = <<a>> /\ \A u \in Thread \ {t} : job'[u] = job[u]
    BY <1>1, <1>3, <2>1
  <2>3. Members(<<a>>) = {a} /\ <<a>> # <<>> /\ Len(<<a>>) = 1 /\ <<a>>[1] = a
        /\ <<a>> \in Seq(Thread)
    <3> HIDE DEF a
    <3> QED
      BY <1>5 DEF Members
  <2>4. job' \in [Thread -> Seq(Thread)]
    BY <1>1, <1>3, <2>1, <2>3
  <2> HIDE DEF a
  <2> QED
    BY <2>2, <2>3, <2>4
<1>7. /\ space'[a] = Add(space[a], space[b]) /\ \A s \in Thread \ {a} : space'[s] = space[s]
      /\ space' \in [Thread -> [Ray -> Nat]]
      /\ \A r \in Ray : space'[a][r] = space[a][r] + space[b][r]
  <2>1. sum[t] \in [Ray -> Nat]
    BY <1>3
  <2>2. \A r \in Ray : Add(space[a], space[b])[r] = space[a][r] + space[b][r]
    <3>1. space[a] \in [Ray -> Nat] /\ space[b] \in [Ray -> Nat]
      BY <1>3, <1>5
    <3> QED
      BY <3>1, AddTyped
  <2> QED
    BY <1>1, <1>3, <1>4, <1>5, <2>1, <2>2
<1>8. \A u \in Thread \ {t} : sum'[u] = sum[u]
  BY <1>1, <1>3
<1>9. /\ \A k \in 1 .. Len(queue) : a \notin Members(queue[k]) /\ b \notin Members(queue[k])
      /\ \A u \in Thread \ {t} : a \notin Members(job[u]) /\ b \notin Members(job[u])
  <2>1. \A k \in 1 .. Len(queue) : Disjoint(job[t], queue[k])
    BY <1>1, <1>3 DEF GroupsOK
  <2> QED
    BY <1>3, <1>5, <2>1 DEF NoSharedSpace, Disjoint
<1> HIDE DEF a, b
<1>10. TargetsOK' /\ \A g : GroupOK(g)' = GroupOK(g)
  BY <1>1, <1>3 DEF TargetsOK, GroupOK
<1>11. /\ EngineTypeOK' /\ ControlOK' /\ ReduceOK' /\ UpdateOK' /\ ResetOK'
       /\ tpc'[t] = "combine" /\ \A u \in Thread \ {t} : tpc'[u] = tpc[u]
  <2>1. Empty \in [Ray -> Nat]
    BY DEF Empty
  <2>2. sum' \in [Thread -> [Ray -> Nat]]
    BY <1>1, <1>3, <2>1
  <2>3. queue' \in Seq(Seq(Thread)) /\ qmutex' \in Thread \cup {Nobody}
    BY <1>1, <1>3 DEF EngineTypeOK
  <2> QED
    BY <1>1, <1>2, <1>4, <1>6, <1>7, <2>2, <2>3, SynchStep
<1>12. GroupsOK'
  <2>1. \A u \in Thread : job'[u] # <<>> => GroupOK(job'[u])
    <3>1. GroupOK(job'[t])
      BY <1>5, <1>6 DEF GroupOK
    <3> QED
      BY <1>3, <1>6, <3>1 DEF GroupsOK
  <2>2. \A u \in Thread : tpc'[u] = "popfront" => queue' # <<>> /\ job'[u] = queue'[1]
    BY <1>1, <1>3, <1>6, <1>11 DEF GroupsOK
  <2>3. \A u \in Thread : tpc'[u] # "popfront" =>
          \A k \in 1 .. Len(queue') : Disjoint(job'[u], queue'[k])
    <3>1. \A k \in 1 .. Len(queue) : Disjoint(job'[t], queue[k])
      BY <1>6, <1>9 DEF Disjoint
    <3>2. \A u \in Thread \ {t} : tpc[u] # "popfront" =>
            \A k \in 1 .. Len(queue) : Disjoint(job[u], queue[k])
      BY <1>3 DEF GroupsOK
    <3> QED
      BY <1>1, <1>6, <1>11, <3>1, <3>2
  <2>4. \A u \in Thread : tpc'[u] = "done" => queue' = <<>>
    BY <1>1, <1>3, <1>11 DEF GroupsOK
  <2>5. ASSUME NEW u \in Thread, tpc'[u] = "store"
        PROVE  Len(job'[u]) = 2 /\ sum'[u] = Add(space'[job'[u][1]], space'[job'[u][2]])
    <3>1. u # t /\ tpc[u] = "store" /\ job'[u] = job[u] /\ sum'[u] = sum[u]
      BY <1>6, <1>8, <1>11, <2>5
    <3>2. Len(job[u]) = 2 /\ sum[u] = Add(space[job[u][1]], space[job[u][2]])
      BY <1>3, <3>1 DEF GroupsOK
    <3>3. job[u][1] \in Members(job[u]) /\ job[u][2] \in Members(job[u])
      <4>1. DOMAIN job[u] = {1, 2}
        BY <1>3, <3>2
      <4> QED
        BY <4>1 DEF Members
    <3>4. job[u][1] \in Thread \ {a} /\ job[u][2] \in Thread \ {a}
      <4>1. job[u] \in Seq(Thread)
        BY <1>3
      <4>2. job[u][1] \in Thread /\ job[u][2] \in Thread
        BY <3>2, <4>1, ElementOfSeq
      <4> QED
        BY <1>9, <3>1, <3>3, <4>2
    <3> QED
      BY <1>7, <3>1, <3>2, <3>4
  <2> QED
    BY <1>1, <1>3, <1>10, <2>1, <2>2, <2>3, <2>4, <2>5 DEF GroupsOK
<1>13. NoSharedSpace'
  <2>1. Members(job'[t]) = {a} /\ \A u \in Thread \ {t} : Members(job'[u]) = Members(job[u])
    BY <1>6
  <2>2. \A u \in Thread \ {t} : a \notin Members(job[u])
    BY <1>9
  <2>3. \A u, v \in Thread \ {t} : u # v => Members(job[u]) \cap Members(job[v]) = {}
    BY <1>3 DEF NoSharedSpace
  <2> QED
    BY <2>1, <2>2, <2>3 DEF NoSharedSpace
<1>14. \A x : x \in Live' <=> x \in Live /\ x # b
  <2>1. ASSUME NEW x PROVE x \in Live' <=> x \in Live /\ x # b
    <3>1. x \in Live <=> \/ x \in Members(targets)
                         \/ \E k \in DOMAIN queue : x \in Members(queue[k])
                         \/ \E u \in Thread : x \in Members(job[u])
      BY LiveIs, InLiveOf
    <3>2. x \in Live' <=> \/ x \in Members(targets)
                          \/ \E k \in DOMAIN queue : x \in Members(queue[k])
                          \/ \E u \in Thread : x \in Members(job'[u])
      <4>1. Live' = LiveOf(targets, queue, job')
        BY <1>1, LiveIs
      <4> QED
        BY <4>1, InLiveOf
    <3>3. \A k \in DOMAIN queue : b \notin Members(queue[k])
      <4>1. DOMAIN queue = 1 .. Len(queue)
        BY <1>3
      <4> QED
        BY <1>9, <4>1
    <3>4. \A u \in Thread \ {t} : job'[u] = job[u] /\ b \notin Members(job[u])
      BY <1>6, <1>9
    <3>5. x \in Members(job[t]) <=> x = a \/ x = b
      BY <1>5
    <3>6. x \in Members(job'[t]) <=> x = a
      BY <1>6
    <3>7. CASE x = b
      <4>1. ~ x \in Live'
        BY <1>5, <3>2, <3>3, <3>4, <3>6, <3>7
      <4> QED
        BY <3>7, <4>1
    <3>8. CASE x # b
      <4>1. (\E u \in Thread : x \in Members(job[u])) <=> \E u \in Thread : x \in Members(job'[u])
        BY <3>4, <3>5, <3>6, <3>8
      <4> QED
        BY <3>1, <3>2, <3>8, <4>1
    <3> QED
      BY <3>7, <3>8
  <2> QED
    BY <2>1
<1>15. a \in Live /\ b \in Live /\ Live \subseteq Thread
  <2>1. a \in Live /\ b \in Live
    BY <1>5, LiveIs, InLiveOf
  <2>2. \A g \in Seq(Thread) : Members(g) \subseteq Thread
    BY DEF Members
  <2>3. /\ targets \in Seq(Thread) /\ \A k \in DOMAIN queue : queue[k] \in Seq(Thread)
        /\ \A u \in Thread : job[u] \in Seq(Thread)
    BY <1>3 DEF EngineTypeOK
  <2>4. \A x \in Live : x \in Thread
    BY <2>2, <2>3, LiveIs, InLiveOf
  <2> QED
    BY <2>1, <2>4
<1>16. ASSUME NEW r \in Ray PROVE OnceIn(Live, r)'
  <2>1. PICK s \in Live : space[s][r] = 1 /\ \A u \in Live \ {s} : space[u][r] = 0
    BY <1>3 DEF OnceIn
  <2>2. \A u \in Live' \ {a} : space'[u][r] = space[u][r]
    BY <1>7, <1>14, <1>15
  <2>3. a \in Live'
    BY <1>5, <1>14, <1>15
  <2>4. CASE s \in {a, b}
    <3>1. space'[a][r] = 1
      BY <1>5, <1>7, <1>15, <2>1, <2>4
    <3>2. \A u \in Live' \ {a} : space'[u][r] = 0
      BY <1>14, <2>1, <2>2, <2>4
    <3> QED
      BY <2>3, <3>1, <3>2 DEF OnceIn
  <2>5. CASE s \notin {a, b}
    <3>1. space'[a][r] = 0
      BY <1>7, <1>15, <2>1, <2>5
    <3>2. s \in Live' /\ space'[s][r] = 1
      BY <1>14, <2>1, <2>2, <2>5
    <3>3. \A u \in Live' \ {s} : space'[u][r] = 0
      BY <1>14, <2>1, <2>2, <3>1
    <3> QED
      BY <3>2, <3>3 DEF OnceIn
  <2> QED
    BY <2>4, <2>5
<1> QED
  BY <1>10, <1>11, <1>12, <1>13, <1>16 DEF EngineInv, SynchOK

-----------------------------------------------------------------------------
(* main.                                                                   *)

\* The targets of a level are the spaces of the next, until there is one.
LEMMA JoinLevelOK ==
  ASSUME EngineInv, JoinLevel
  PROVE  EngineInv'
<1>1. /\ phase = "synch" /\ AllDone
      /\ \/ Len(targets) > 1 /\ Level(targets) /\ phase' = phase
         \/ Len(targets) <= 1 /\ phase' = "update" /\ UNCHANGED <<queue, targets, tpc>>
      /\ UNCHANGED <<index, space, pmutex, qmutex, seen, chunk, job, sum>>
  BY DEF JoinLevel
<1>2. /\ EngineTypeOK /\ ControlOK /\ NoSharedSpace /\ TargetsOK /\ GroupsOK
      /\ \A r \in Ray : OnceIn(Live, r)
      /\ targets \in Seq(Thread) /\ \A t \in Thread : tpc[t] = "done"
  BY <1>1 DEF EngineInv, EngineTypeOK, SynchOK, AllDone
<1>3. queue = <<>> /\ \A t \in Thread : job[t] = <<>>
  BY <1>2, ThreadZero DEF GroupsOK, ControlOK
<1>4. Live = Members(targets)
  <2>1. Members(<<>>) = {}
    BY DEF Members
  <2>2. \A x : x \in Live <=> x \in Members(targets)
    BY <1>3, <2>1, LiveIs, InLiveOf
  <2> QED
    BY <2>2
<1>5. CASE Len(targets) > 1
  <2>1. Level(targets) /\ phase' = "synch"
    BY <1>1, <1>2, <1>5
  <2>2. PICK sp \in Seq(Thread) : sp = targets
    BY <1>2
  <2>3. /\ sp # <<>> /\ sp[1] = 0 /\ Level(sp)
        /\ \A i, j \in 1 .. Len(sp) : sp[i] = sp[j] => i = j
        /\ \A r \in Ray : OnceIn(Members(sp), r)
    BY <1>2, <1>4, <2>1, <2>2 DEF TargetsOK
  <2> QED
    BY <1>1, <2>1, <2>3, LevelOK
<1>6. CASE Len(targets) <= 1
  <2>1. phase' = "update" /\ UNCHANGED <<queue, targets, tpc>>
    BY <1>1, <1>2, <1>6
  <2>2. Live = {0}
    <3>1. DOMAIN targets = {1} /\ targets[1] = 0
      <4>1. targets # <<>> /\ targets[1] = 0 /\ targets \in Seq(Thread)
        BY <1>2 DEF TargetsOK
      <4>2. Len(targets) = 1
        <5>1. Len(targets) \in Nat /\ Len(targets) # 0
          BY <4>1, EmptySeq
        <5>2. \A n \in Nat : n # 0 /\ n <= 1 => n = 1
          OBVIOUS
        <5> QED
          BY <1>6, <5>1, <5>2
      <4> QED
        BY <4>1, <4>2
    <3> QED
      BY <1>4, <3>1 DEF Members
  <2>3. UpdateOK'
    BY <1>1, <1>2, <2>2 DEF UpdateOK, OnceIn
  <2>4. EngineTypeOK'
    BY <1>1, <1>2, <2>1 DEF EngineTypeOK, Phases
  <2>5. ControlOK'
    BY <1>1, <1>2, <2>1 DEF ControlOK, LabelsOf
  <2> QED
    BY <1>1, <1>2, <2>1, <2>3, <2>4, <2>5 DEF EngineInv, ReduceOK, SynchOK, ResetOK, NoSharedSpace
<1> QED
  BY <1>2, <1>5, <1>6

\* The image is updated from the one space that is left.
LEMMA UpdateReconOK ==
  ASSUME EngineInv, UpdateRecon
  PROVE  EngineInv'
<1>1. /\ phase = "update" /\ phase' = "reset" /\ tpc' = [t \in Thread |-> "reset"]
      /\ UNCHANGED <<index, space, targets, queue, pmutex, qmutex, seen, chunk, job, sum>>
  BY DEF UpdateRecon, All
<1>2. EngineTypeOK /\ ControlOK /\ NoSharedSpace /\ \A t \in Thread : tpc[t] = "done"
  BY <1>1 DEF EngineInv, ControlOK, LabelsOf
<1>3. EngineTypeOK'
  BY <1>1, <1>2 DEF EngineTypeOK, Phases, Labels
<1>4. ControlOK'
  BY <1>1, <1>2 DEF ControlOK, LabelsOf
<1> QED
  BY <1>1, <1>2, <1>3, <1>4 DEF EngineInv, ReduceOK, SynchOK, UpdateOK, ResetOK, NoSharedSpace

\* A space is cleared, and stays so while the others are.
LEMMA ResetOneOK ==
  ASSUME EngineInv, NEW t \in Thread, ResetAllReductionObjects(t)
  PROVE  EngineInv'
<1>1. /\ tpc[t] = "reset" /\ tpc' = [tpc EXCEPT ![t] = "done"]
      /\ space' = [space EXCEPT ![t] = Empty]
      /\ UNCHANGED <<phase, index, targets, queue, pmutex, qmutex, seen, chunk, job, sum>>
  BY DEF ResetAllReductionObjects, Goto, ResetAllItems
<1>2. phase = "reset" /\ phase' = "reset"
  BY <1>1, PhaseOf
<1>3. /\ EngineTypeOK /\ ControlOK /\ NoSharedSpace /\ ResetOK
      /\ tpc \in [Thread -> Labels] /\ space \in [Thread -> [Ray -> Nat]]
  BY DEF EngineInv, EngineTypeOK
<1>4. /\ tpc'[t] = "done" /\ space'[t] = Empty
      /\ \A u \in Thread \ {t} : tpc'[u] = tpc[u] /\ space'[u] = space[u]
  BY <1>1, <1>3
<1>5. EngineTypeOK'
  <2>1. tpc' \in [Thread -> Labels]
    BY <1>1, <1>3 DEF Labels
  <2>2. Empty \in [Ray -> Nat]
    BY DEF Empty
  <2>3. space' \in [Thread -> [Ray -> Nat]]
    BY <1>1, <1>3, <2>2
  <2> QED
    BY <1>1, <1>3, <2>1, <2>3 DEF EngineTypeOK
<1>6. ControlOK'
  <2>1. \A u \in Thread : tpc'[u] \in LabelsOf(phase')
    BY <1>2, <1>3, <1>4 DEF ControlOK, LabelsOf
  <2>2. /\ \A u \in Thread : tpc'[u] = "partition" <=> pmutex' = u
        /\ \A u \in Thread : tpc'[u] = "popfront" <=> qmutex' = u
        /\ \A u \in Thread : chunk'[u] # {} => tpc'[u] = "process"
        /\ \A u \in Thread : job'[u] # <<>> <=> tpc'[u] \in {"popfront", "combine", "store"}
    BY <1>1, <1>3, <1>4 DEF ControlOK
  <2> QED
    BY <2>1, <2>2 DEF ControlOK
<1>7. ResetOK'
  BY <1>2, <1>3, <1>4 DEF ResetOK
<1> QED
  BY <1>1, <1>2, <1>3, <1>5, <1>6, <1>7 DEF EngineInv, ReduceOK, SynchOK, UpdateOK, NoSharedSpace

\* The next iteration begins with nothing left from the one before.
LEMMA RewindOK ==
  ASSUME EngineInv, ResetMirroredRegionIter
  PROVE  EngineInv'
<1>1. /\ phase = "reset" /\ AllDone /\ index' = 0
      /\ \/ phase' = "reduce" /\ tpc' = [t \in Thread |-> "ask"]
         \/ phase' = "end" /\ tpc' = tpc
      /\ UNCHANGED <<space, targets, queue, pmutex, qmutex, seen, chunk, job, sum>>
  BY DEF ResetMirroredRegionIter, All
<1>2. /\ EngineTypeOK /\ ControlOK /\ NoSharedSpace
      /\ \A t \in Thread : tpc[t] = "done" /\ space[t] = Empty
  BY <1>1 DEF EngineInv, ResetOK, AllDone
<1>3. \A t \in Thread : chunk[t] = {} /\ job[t] = <<>> /\ pmutex # t /\ qmutex # t
  BY <1>2 DEF ControlOK
<1>4. EngineTypeOK'
  <2>1. 0 \in 0 .. NRays
    BY NRaysAssumption DEF NRaysAssumption
  <2> QED
    BY <1>1, <1>2, <2>1 DEF EngineTypeOK, Phases, Labels
<1>5. ControlOK'
  <2>1. CASE phase' = "reduce" /\ tpc' = [t \in Thread |-> "ask"]
    BY <1>1, <1>3, <2>1 DEF ControlOK, LabelsOf
  <2>2. CASE phase' = "end" /\ tpc' = tpc
    BY <1>1, <1>2, <1>3, <2>2 DEF ControlOK, LabelsOf
  <2> QED
    BY <1>1, <2>1, <2>2
<1>6. ReduceOK'
  <2>1. CASE phase' = "end"
    BY <2>1 DEF ReduceOK
  <2>2. CASE phase' = "reduce" /\ tpc' = [t \in Thread |-> "ask"]
    <3>1. \A r \in Ray : ~ r < 0
      BY DEF Ray
    <3>2. \A t \in Thread : tpc'[t] = "ask" /\ chunk'[t] = {}
      BY <1>1, <1>3, <2>2
    <3>3. \A t \in Thread : \A r \in Ray : space'[t][r] = 0
      BY <1>1, <1>2 DEF Empty
    <3> QED
      BY <1>1, <3>1, <3>2, <3>3 DEF ReduceOK
  <2> QED
    BY <1>1, <2>1, <2>2
<1>7. phase' \notin {"synch", "update", "reset"}
  BY <1>1
<1> QED
  BY <1>1, <1>2, <1>4, <1>5, <1>6, <1>7 DEF EngineInv, SynchOK, UpdateOK, ResetOK, NoSharedSpace

\* Every step preserves the invariant.
LEMMA NextOK == EngineInv /\ [Next]_vars => EngineInv'
<1> SUFFICES ASSUME EngineInv, [Next]_vars PROVE EngineInv'
  OBVIOUS
<1>1. CASE MainStep
  BY <1>1, JoinReductionOK, JoinLevelOK, UpdateReconOK, RewindOK DEF MainStep
<1>2. ASSUME NEW t \in Thread, ThreadStep(t) PROVE EngineInv'
  BY <1>2, ReadIndexOK, NextMirroredRegionOK, ProcessOK, FrontOK, PopFrontOK,
     LocalSynchLoadOK, LocalSynchStoreOK, ResetOneOK DEF ThreadStep
<1>3. CASE UNCHANGED vars
  <2>1. Live' = Live
    BY <1>3 DEF vars, Live
  <2>2. SynchOK'
    BY <1>3, <2>1 DEF vars, EngineInv, SynchOK, TargetsOK, GroupsOK, GroupOK, OnceIn
  <2>3. EngineTypeOK' /\ ControlOK' /\ NoSharedSpace' /\ UpdateOK' /\ ResetOK'
    BY <1>3 DEF vars, EngineInv, EngineTypeOK, ControlOK, NoSharedSpace, UpdateOK, ResetOK
  <2>4. ReduceOK'
    BY <1>3 DEF vars, EngineInv, ReduceOK, OnceIn
  <2> QED
    BY <2>2, <2>3, <2>4 DEF EngineInv
<1> QED
  BY <1>1, <1>2, <1>3 DEF Next, Finished

-----------------------------------------------------------------------------
\* The inductive invariant, for any number of threads, rays and iterations.
THEOREM EngineInvariant == Spec => []EngineInv
BY InitOK, NextOK, PTL DEF Spec, Safe

\* No two threads add up the same space at the same time.
THEOREM SpacesApart == Spec => []NoSharedSpace
<1>1. EngineInv => NoSharedSpace
  BY DEF EngineInv
<1> QED
  BY <1>1, EngineInvariant, PTL

\* While spaces are added up every ray is counted once in those that matter.
THEOREM NoneLost == Spec => []NothingLost
<1>1. EngineInv => NothingLost
  BY DEF EngineInv, SynchOK, NothingLost, OnceIn
<1> QED
  BY <1>1, EngineInvariant, PTL

\* The sum that updates the image counts every ray of the window exactly once.
THEOREM ReducedOnce == Spec => []EachRayOnce
<1>1. ASSUME EngineInv PROVE EachRayOnce
  <2> SUFFICES ASSUME phase = "update" PROVE space[0] = [r \in Ray |-> 1]
    BY DEF EachRayOnce
  <2>1. space[0] \in [Ray -> Nat] /\ \A r \in Ray : space[0][r] = 1
    BY <1>1, ThreadZero DEF EngineInv, EngineTypeOK, UpdateOK
  <2> QED
    BY <2>1
<1> QED
  BY <1>1, EngineInvariant, PTL
=============================================================================
