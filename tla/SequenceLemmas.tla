--------------------------- MODULE SequenceLemmas ---------------------------
(***************************************************************************)
(* Induction over the naturals and over sequences, stated with sets so     *)
(* that the provers can instantiate it, and what follows about recursive   *)
(* functions: Select and FlattenSeq.                                       *)
(***************************************************************************)
EXTENDS Filter, SequencesExt, FiniteSetTheorems, SequenceTheorems, WellFoundedInduction, TLAPS

-----------------------------------------------------------------------------
(* Induction.                                                              *)

\* A set of naturals with an element has a least one.
LEMMA LeastElement ==
  ASSUME NEW S \in SUBSET Nat, S # {}
  PROVE  \E m \in S : \A k \in S : m <= k
<1>1. PICK R : R = OpToRel(<, Nat)
  OBVIOUS
<1>2. IsWellFoundedOn(R, Nat)
  BY <1>1, NatLessThanWellFounded, Zenon
<1>3. \A x, y \in Nat : <<x, y>> \in R <=> x < y
  BY <1>1 DEF OpToRel
<1>4. PICK x \in S : \A y \in S : ~ (<<y, x>> \in R)
  BY <1>2, WFMin, Zenon
<1>5. \A y \in S : ~ (y < x)
  BY <1>3, <1>4
<1>6. \A y \in S : x <= y
  BY <1>5
<1> QED
  BY <1>6

\* Mathematical induction.
LEMMA Induction ==
  ASSUME NEW S \in SUBSET Nat, 0 \in S, \A n \in S : n + 1 \in S
  PROVE  \A n \in Nat : n \in S
<1> SUFFICES ASSUME NEW k \in Nat, k \notin S
             PROVE  FALSE
  OBVIOUS
<1>1. PICK m \in Nat \ S : \A i \in Nat \ S : m <= i
  BY LeastElement
<1> QED
  BY <1>1, m - 1 \in Nat

\* Induction up to a bound.
LEMMA BoundedInduction ==
  ASSUME NEW n \in Nat, NEW S \in SUBSET (0 .. n), 0 \in S,
         \A i \in 0 .. n - 1 : i \in S => i + 1 \in S
  PROVE  \A i \in 0 .. n : i \in S
<1> DEFINE T == S \cup {i \in Nat : i > n}
<1>1. T \in SUBSET Nat /\ 0 \in T
  <2>1. \A i \in S : i \in Nat
    OBVIOUS
  <2> QED
    BY <2>1
<1>2. ASSUME NEW i \in T
      PROVE  i + 1 \in T
  <2>1. i \in Nat
    OBVIOUS
  <2>2. CASE i \in 0 .. n - 1
    BY <2>2
  <2>3. CASE i >= n
    BY <2>1, <2>3
  <2> QED
    BY <2>1, <2>2, <2>3
<1>3. \A i \in Nat : i \in T
  <2> HIDE DEF T
  <2> QED
    BY <1>1, <1>2, Induction
<1> QED
  BY <1>3

\* A set of sequences that has the empty one and is closed under Append has
\* them all.
LEMMA SequenceInduction ==
  ASSUME NEW X, NEW G \in SUBSET Seq(X), <<>> \in G,
         \A q \in G : \A x \in X : Append(q, x) \in G
  PROVE  \A q \in Seq(X) : q \in G
<1> DEFINE S == {n \in Nat : \A q \in Seq(X) : Len(q) = n => q \in G}
<1>1. S \in SUBSET Nat
  OBVIOUS
<1>2. 0 \in S
  <2>1. \A q \in Seq(X) : Len(q) = 0 => q = <<>>
    BY EmptySeq
  <2> QED
    BY <2>1
<1>3. ASSUME NEW n \in S
      PROVE  n + 1 \in S
  <2> SUFFICES ASSUME NEW q \in Seq(X), Len(q) = n + 1
               PROVE  q \in G
    OBVIOUS
  <2>0. n \in Nat
    OBVIOUS
  <2>1. q # <<>>
    BY <2>0, EmptySeq
  <2>2. PICK p \in Seq(X), x \in X : q = Append(p, x)
    BY <2>1, SequenceEmptyOrAppend
  <2>3. Len(p) = n
    BY <2>0, <2>2
  <2>4. p \in G
    BY <2>3
  <2> QED
    BY <2>2, <2>4
<1>4. \A n \in Nat : n \in S
  <2> HIDE DEF S
  <2> QED
    BY <1>1, <1>2, <1>3, Induction
<1> QED
  BY <1>4

\* g starts with x0 and makes a step of F at every place up to n.
Steps(g, x0, F, n) == /\ g[0] = x0
                      /\ \A i \in 1 .. n : g[i] = F[i][g[i - 1]]

\* A function on an interval can be defined by recursion.
LEMMA Recursion ==
  ASSUME NEW n \in Nat, NEW X, NEW x0 \in X, NEW F \in [1 .. n -> [X -> X]]
  PROVE  \E g \in [0 .. n -> X] : Steps(g, x0, F, n)
<1> DEFINE Upto(k) == \E g \in [0 .. k -> X] : /\ g[0] = x0
                                               /\ \A i \in 1 .. k : g[i] = F[i][g[i - 1]]
           S == {k \in 0 .. n : Upto(k)}
<1>1. 0 \in S
  <2> DEFINE h == [i \in 0 .. 0 |-> x0]
  <2>1. h \in [0 .. 0 -> X] /\ h[0] = x0 /\ \A i \in 1 .. 0 : h[i] = F[i][h[i - 1]]
    OBVIOUS
  <2>2. Upto(0)
    <3> HIDE DEF h
    <3> QED
      BY <2>1
  <2> QED
    BY <2>2
<1>2. ASSUME NEW k \in 0 .. n - 1, k \in S
      PROVE  k + 1 \in S
  <2>1. PICK g \in [0 .. k -> X] : /\ g[0] = x0
                                   /\ \A i \in 1 .. k : g[i] = F[i][g[i - 1]]
    BY <1>2
  <2> DEFINE h == [i \in 0 .. k + 1 |-> IF i = k + 1 THEN F[i][g[k]] ELSE g[i]]
  <2>2. g[k] \in X /\ k + 1 \in 1 .. n /\ F[k + 1][g[k]] \in X
    BY <2>1
  <2>3. h \in [0 .. k + 1 -> X]
    BY <2>2
  <2>4. h[0] = x0
    BY <2>1
  <2>5. ASSUME NEW i \in 1 .. k + 1
        PROVE  h[i] = F[i][h[i - 1]]
    BY <2>1
  <2>6. Upto(k + 1)
    <3> HIDE DEF h
    <3> QED
      BY <2>3, <2>4, <2>5
  <2> QED
    BY <2>2, <2>6
<1>3. \A k \in 0 .. n : k \in S
  <2>1. S \in SUBSET (0 .. n)
    OBVIOUS
  <2> HIDE DEF S
  <2> QED
    BY <1>1, <1>2, <2>1, BoundedInduction
<1> QED
  BY <1>3 DEF Steps

-----------------------------------------------------------------------------
(* Parts of a sequence: what is after place a, up to place n.              *)

LEMMA Part ==
  ASSUME NEW X, NEW q \in Seq(X), NEW a \in Nat, NEW n \in Nat, a <= n, n <= Len(q)
  PROVE  /\ SubSeq(q, a + 1, n) \in Seq(X) /\ Len(SubSeq(q, a + 1, n)) = n - a
         /\ \A i \in 1 .. n - a : SubSeq(q, a + 1, n)[i] = q[a + i]
<1>1. /\ a + 1 \in Int /\ n \in Int /\ n - (a + 1) + 1 = n - a
      /\ (IF a + 1 <= n THEN n - (a + 1) + 1 ELSE 0) = n - a
      /\ \A i \in 1 .. n - a : (a + 1) + i - 1 = a + i
  OBVIOUS
<1>2. \A i \in a + 1 .. n : q[i] \in X
  OBVIOUS
<1>3. /\ SubSeq(q, a + 1, n) \in Seq(X)
      /\ Len(SubSeq(q, a + 1, n)) = IF a + 1 <= n THEN n - (a + 1) + 1 ELSE 0
      /\ \A i \in 1 .. n - (a + 1) + 1 : SubSeq(q, a + 1, n)[i] = q[(a + 1) + i - 1]
  BY <1>1, <1>2, SubSeqProperties
<1> QED
  BY <1>1, <1>3

\* Nothing is after the last place.
LEMMA PartEmpty ==
  ASSUME NEW q, NEW n \in Nat
  PROVE  SubSeq(q, n + 1, n) = <<>>
BY n + 1 \in Int, n < n + 1, SubSeqEmpty

\* One place more.
LEMMA PartMore ==
  ASSUME NEW X, NEW q \in Seq(X), NEW a \in Nat, NEW n \in Nat, a <= n, n + 1 <= Len(q)
  PROVE  SubSeq(q, a + 1, n + 1) = Append(SubSeq(q, a + 1, n), q[n + 1])
<1>1. PICK p : p = SubSeq(q, a + 1, n)
  OBVIOUS
<1>2. PICK r : r = SubSeq(q, a + 1, n + 1)
  OBVIOUS
<1>3. p \in Seq(X) /\ Len(p) = n - a /\ \A i \in 1 .. n - a : p[i] = q[a + i]
  BY <1>1, Part
<1>4. /\ r \in Seq(X) /\ Len(r) = (n + 1) - a
      /\ \A i \in 1 .. (n + 1) - a : r[i] = q[a + i]
  <2>1. a <= n + 1 /\ n + 1 \in Nat
    OBVIOUS
  <2> QED
    BY <1>2, <2>1, Part
<1>5. q[n + 1] \in X
  OBVIOUS
<1>6. PICK t : t = Append(p, q[n + 1])
  OBVIOUS
<1>7. /\ t \in Seq(X) /\ Len(t) = (n + 1) - a
      /\ \A i \in 1 .. n - a : t[i] = p[i]
      /\ t[(n + 1) - a] = q[n + 1]
  <2>1. /\ t \in Seq(X) /\ Len(t) = Len(p) + 1 /\ t[Len(p) + 1] = q[n + 1]
        /\ \A i \in 1 .. Len(p) : t[i] = p[i]
    BY <1>3, <1>5, <1>6, AppendProperties
  <2>2. Len(p) + 1 = (n + 1) - a
    BY <1>3
  <2> QED
    BY <1>3, <2>1, <2>2
<1>8. ASSUME NEW i \in 1 .. (n + 1) - a
      PROVE  t[i] = r[i]
  <2>1. CASE i \in 1 .. n - a
    BY <1>3, <1>4, <1>7, <2>1
  <2>2. CASE i = (n + 1) - a
    <3>1. a + i = n + 1
      BY <2>2
    <3> QED
      BY <1>4, <1>7, <2>2, <3>1
  <2> QED
    BY <2>1, <2>2
<1>9. t = r
  BY <1>4, <1>7, <1>8, SeqEqual
<1> QED
  BY <1>1, <1>2, <1>6, <1>9

\* What is appended later is not in the part.
LEMMA PartFixed ==
  ASSUME NEW X, NEW q \in Seq(X), NEW x \in X, NEW a \in Nat, NEW n \in Nat,
         a <= n, n <= Len(q)
  PROVE  SubSeq(Append(q, x), a + 1, n) = SubSeq(q, a + 1, n)
<1>1. PICK t : t = Append(q, x)
  OBVIOUS
<1>2. t \in Seq(X) /\ n <= Len(t) /\ \A i \in 1 .. Len(q) : t[i] = q[i]
  BY <1>1
<1>3. /\ SubSeq(q, a + 1, n) \in Seq(X) /\ Len(SubSeq(q, a + 1, n)) = n - a
      /\ \A i \in 1 .. n - a : SubSeq(q, a + 1, n)[i] = q[a + i]
  BY Part
<1>4. /\ SubSeq(t, a + 1, n) \in Seq(X) /\ Len(SubSeq(t, a + 1, n)) = n - a
      /\ \A i \in 1 .. n - a : SubSeq(t, a + 1, n)[i] = t[a + i]
  BY <1>2, Part
<1>5. \A i \in 1 .. n - a : t[a + i] = q[a + i]
  BY <1>2
<1>6. \A i \in 1 .. n - a : SubSeq(t, a + 1, n)[i] = SubSeq(q, a + 1, n)[i]
  BY <1>3, <1>4, <1>5
<1>7. SubSeq(t, a + 1, n) = SubSeq(q, a + 1, n)
  BY <1>3, <1>4, <1>6, SeqEqual
<1> QED
  BY <1>1, <1>7

\* The rest of a sequence that something is appended to.
LEMMA RestMore ==
  ASSUME NEW X, NEW q \in Seq(X), NEW x \in X, NEW n \in Nat, n <= Len(q)
  PROVE  SubSeq(Append(q, x), n + 1, Len(Append(q, x))) = Append(SubSeq(q, n + 1, Len(q)), x)
<1>1. PICK t : t = Append(q, x)
  OBVIOUS
<1>2. t \in Seq(X) /\ Len(t) = Len(q) + 1 /\ t[Len(q) + 1] = x /\ Len(q) \in Nat
  BY <1>1
<1>3. SubSeq(t, n + 1, Len(q) + 1) = Append(SubSeq(t, n + 1, Len(q)), x)
  <2>1. Len(q) + 1 <= Len(t)
    BY <1>2
  <2>2. SubSeq(t, n + 1, Len(q) + 1) = Append(SubSeq(t, n + 1, Len(q)), t[Len(q) + 1])
    BY <1>2, <2>1, PartMore
  <2> QED
    BY <1>2, <2>2
<1>4. SubSeq(t, n + 1, Len(q)) = SubSeq(q, n + 1, Len(q))
  <2>1. Len(q) <= Len(q)
    BY <1>2
  <2> QED
    BY <1>1, <1>2, <2>1, PartFixed
<1> QED
  BY <1>1, <1>2, <1>3, <1>4

\* The first of the rest, and what is after it.
LEMMA RestTail ==
  ASSUME NEW X, NEW q \in Seq(X), NEW n \in Nat, n < Len(q)
  PROVE  /\ SubSeq(q, n + 1, Len(q)) \in Seq(X)
         /\ SubSeq(q, n + 1, Len(q)) # <<>>
         /\ Head(SubSeq(q, n + 1, Len(q))) = q[n + 1]
         /\ Tail(SubSeq(q, n + 1, Len(q))) = SubSeq(q, (n + 1) + 1, Len(q))
<1>1. n + 1 \in 1 .. Len(q) /\ Len(q) \in n + 1 .. Len(q) /\ n <= Len(q) /\ Len(q) \in Nat
  OBVIOUS
<1>2. /\ SubSeq(q, n + 1, Len(q)) \in Seq(X)
      /\ Len(SubSeq(q, n + 1, Len(q))) = Len(q) - n
  <2>1. Len(q) <= Len(q)
    BY <1>1
  <2> QED
    BY <1>1, <2>1, Part
<1>3. SubSeq(q, n + 1, Len(q)) # <<>>
  <2>1. Len(q) - n # 0
    BY <1>1
  <2> QED
    BY <1>2, <2>1, EmptySeq
<1> QED
  BY <1>1, <1>2, <1>3, HeadTailOfSubSeq

\* The same with something behind.
LEMMA TailOfAppend ==
  ASSUME NEW X, NEW q \in Seq(X), q # <<>>, NEW x \in X
  PROVE  /\ Append(q, x) # <<>>
         /\ Head(Append(q, x)) = Head(q)
         /\ Tail(Append(q, x)) = Append(Tail(q), x)
<1>1. PICK t : t = Append(q, x)
  OBVIOUS
<1>2. /\ t \in Seq(X) /\ t # <<>> /\ Len(t) = Len(q) + 1 /\ t[Len(q) + 1] = x
      /\ Len(q) \in Nat /\ Len(q) # 0 /\ \A i \in 1 .. Len(q) : t[i] = q[i]
  BY <1>1, EmptySeq
<1>3. Head(t) = Head(q)
  BY <1>2
<1>4. PICK u : u = Tail(t)
  OBVIOUS
<1>5. PICK v : v = Tail(q)
  OBVIOUS
<1>6. u \in Seq(X) /\ Len(u) = Len(q) /\ \A i \in 1 .. Len(q) : u[i] = t[i + 1]
  <2>1. Len(t) - 1 = Len(q)
    BY <1>2
  <2> QED
    BY <1>2, <1>4, <2>1, HeadTailProperties
<1>7. v \in Seq(X) /\ Len(v) = Len(q) - 1 /\ \A i \in 1 .. Len(q) - 1 : v[i] = q[i + 1]
  BY <1>5, HeadTailProperties
<1>8. PICK w : w = Append(v, x)
  OBVIOUS
<1>9. /\ w \in Seq(X) /\ Len(w) = Len(q) /\ w[Len(q)] = x
      /\ \A i \in 1 .. Len(q) - 1 : w[i] = v[i]
  BY <1>2, <1>7, <1>8, AppendProperties
<1>10. ASSUME NEW i \in 1 .. Len(q)
       PROVE  u[i] = w[i]
  <2>1. CASE i = Len(q)
    BY <1>2, <1>6, <1>9, <2>1
  <2>2. CASE i # Len(q)
    <3>1. i \in 1 .. Len(q) - 1 /\ i + 1 \in 1 .. Len(q)
      BY <1>2, <2>2
    <3> QED
      BY <1>2, <1>6, <1>7, <1>9, <3>1
  <2> QED
    BY <2>1, <2>2
<1>11. u = w
  BY <1>6, <1>9, <1>10, SeqEqual
<1> QED
  BY <1>1, <1>2, <1>3, <1>4, <1>5, <1>8, <1>11

-----------------------------------------------------------------------------
(* Select.                                                                 *)

\* What the function in the definition of Select is.
SelectBy(g, q, S) ==
  /\ g[0] = <<>>
  /\ \A i \in 1 .. Len(q) : g[i] = IF q[i] \in S THEN Append(g[i - 1], q[i]) ELSE g[i - 1]

\* There is such a function.
LEMMA SelectFunction ==
  ASSUME NEW X, NEW q \in Seq(X), NEW S
  PROVE  \E g \in [0 .. Len(q) -> Seq(X)] : SelectBy(g, q, S) /\ Select(q, S) = g[Len(q)]
<1> DEFINE n == Len(q)
           F == [i \in 1 .. n |-> [t \in Seq(X) |-> IF q[i] \in S THEN Append(t, q[i]) ELSE t]]
           Def(f) == [i \in 0 .. n |->
                        IF i = 0 THEN <<>>
                        ELSE IF q[i] \in S THEN Append(f[i - 1], q[i]) ELSE f[i - 1]]
<1>1. n \in Nat /\ <<>> \in Seq(X) /\ \A i \in 1 .. n : q[i] \in X
  OBVIOUS
<1>2. F \in [1 .. n -> [Seq(X) -> Seq(X)]]
  BY <1>1
<1>3. \A i \in 1 .. n : \A t \in Seq(X) : F[i][t] = IF q[i] \in S THEN Append(t, q[i]) ELSE t
  OBVIOUS
<1> HIDE DEF F, Def, n
<1>4. PICK g \in [0 .. n -> Seq(X)] : Steps(g, <<>>, F, n)
  BY <1>1, <1>2, Recursion
<1>5. \A i \in 1 .. n : g[i - 1] \in Seq(X)
  BY <1>1
<1>6. \A i \in 1 .. n : g[i] = IF q[i] \in S THEN Append(g[i - 1], q[i]) ELSE g[i - 1]
  BY <1>3, <1>4, <1>5 DEF Steps
<1>7. g = Def(g)
  <2>1. \A i \in 0 .. n : g[i] = IF i = 0 THEN <<>>
                                 ELSE IF q[i] \in S THEN Append(g[i - 1], q[i]) ELSE g[i - 1]
    <3> SUFFICES ASSUME NEW i \in 0 .. n
                 PROVE  g[i] = IF i = 0 THEN <<>>
                               ELSE IF q[i] \in S THEN Append(g[i - 1], q[i]) ELSE g[i - 1]
      OBVIOUS
    <3>1. CASE i = 0
      BY <1>4, <3>1 DEF Steps
    <3>2. CASE i # 0
      <4>1. i \in 1 .. n
        BY <1>1, <3>2
      <4> QED
        BY <1>6, <3>2, <4>1, Zenon
    <3> QED
      BY <3>1, <3>2
  <2>2. g = [i \in 0 .. n |-> g[i]]
    OBVIOUS
  <2> QED
    BY <2>1, <2>2, Zenon DEF Def
<1>8. PICK f : f = Def(f) /\ Select(q, S) = f[n]
  <2>1. Select(q, S) = (CHOOSE f : f = Def(f))[n]
    BY DEF Select, Def, n
  <2>2. (CHOOSE f : f = Def(f)) = Def(CHOOSE f : f = Def(f))
    BY <1>7
  <2> QED
    BY <2>1, <2>2
<1>9. \A i \in 0 .. n : f[i] = g[i]
  <2> DEFINE T == {i \in 0 .. n : f[i] = g[i]}
  <2>1. 0 \in T
    <3>1. f[0] = Def(f)[0]
      BY <1>8
    <3> QED
      BY <1>1, <1>4, <3>1 DEF Def, Steps
  <2>2. ASSUME NEW i \in 0 .. n - 1, i \in T
        PROVE  i + 1 \in T
    <3>1. i + 1 \in 1 .. n /\ i + 1 # 0 /\ (i + 1) - 1 = i /\ f[i] = g[i]
      BY <1>1, <2>2
    <3>2. f[i + 1] = Def(f)[i + 1]
      BY <1>8
    <3>3. f[i + 1] = IF q[i + 1] \in S THEN Append(f[i], q[i + 1]) ELSE f[i]
      BY <1>1, <3>1, <3>2 DEF Def
    <3> QED
      BY <1>6, <3>1, <3>3
  <2>3. T \in SUBSET (0 .. n)
    OBVIOUS
  <2>4. \A i \in 0 .. n : i \in T
    <3> HIDE DEF T
    <3> QED
      BY <1>1, <2>1, <2>2, <2>3, BoundedInduction
  <2> QED
    BY <2>4
<1> QED
  BY <1>1, <1>4, <1>6, <1>8, <1>9 DEF SelectBy, Steps, n

\* The first n elements are the same, and selected or not in the same way.
Alike(q, S, p, T, n) ==
  /\ n <= Len(q) /\ n <= Len(p)
  /\ \A i \in 1 .. n : q[i] = p[i] /\ (q[i] \in S <=> p[i] \in T)

\* Two selections agree as long as the sequences and the sets do.
LEMMA SelectAgree ==
  ASSUME NEW X, NEW q \in Seq(X), NEW p \in Seq(X), NEW S, NEW T, NEW g, NEW h,
         SelectBy(g, q, S), SelectBy(h, p, T),
         NEW n \in Nat, Alike(q, S, p, T, n)
  PROVE  g[n] = h[n]
<1> DEFINE G == {i \in 0 .. n : g[i] = h[i]}
<1>1. 0 \in G
  BY DEF SelectBy
<1>2. ASSUME NEW i \in 0 .. n - 1, i \in G
      PROVE  i + 1 \in G
  <2>1. /\ i + 1 \in 1 .. n /\ i + 1 \in 1 .. Len(q) /\ i + 1 \in 1 .. Len(p)
        /\ (i + 1) - 1 = i /\ g[i] = h[i]
    BY <1>2 DEF Alike
  <2>2. /\ g[i + 1] = IF q[i + 1] \in S THEN Append(g[i], q[i + 1]) ELSE g[i]
        /\ h[i + 1] = IF p[i + 1] \in T THEN Append(h[i], p[i + 1]) ELSE h[i]
    BY <2>1 DEF SelectBy
  <2> QED
    BY <2>1, <2>2 DEF Alike
<1>3. \A i \in 0 .. n : i \in G
  <2>1. G \in SUBSET (0 .. n)
    OBVIOUS
  <2> HIDE DEF G
  <2> QED
    BY <1>1, <1>2, <2>1, BoundedInduction
<1> QED
  BY <1>3

\* What is selected is a sequence of elements.
LEMMA SelectType ==
  ASSUME NEW X, NEW q \in Seq(X), NEW S
  PROVE  Select(q, S) \in Seq(X)
<1>1. PICK g \in [0 .. Len(q) -> Seq(X)] : Select(q, S) = g[Len(q)]
  BY SelectFunction
<1> QED
  BY <1>1

\* Nothing is selected from an empty sequence.
LEMMA SelectEmpty ==
  ASSUME NEW S
  PROVE  Select(<<>>, S) = <<>>
<1>1. PICK q : q = <<>>
  OBVIOUS
<1>2. q \in Seq({}) /\ Len(q) = 0
  BY <1>1
<1>3. PICK g \in [0 .. Len(q) -> Seq({})] : SelectBy(g, q, S) /\ Select(q, S) = g[Len(q)]
  BY <1>2, SelectFunction
<1> QED
  BY <1>1, <1>2, <1>3 DEF SelectBy

\* Only membership in S of the elements that occur matters.
LEMMA SelectSame ==
  ASSUME NEW X, NEW q \in Seq(X), NEW S, NEW T,
         \A i \in 1 .. Len(q) : q[i] \in S <=> q[i] \in T
  PROVE  Select(q, S) = Select(q, T)
<1>1. PICK g \in [0 .. Len(q) -> Seq(X)] : SelectBy(g, q, S) /\ Select(q, S) = g[Len(q)]
  BY SelectFunction
<1>2. PICK h \in [0 .. Len(q) -> Seq(X)] : SelectBy(h, q, T) /\ Select(q, T) = h[Len(q)]
  BY SelectFunction
<1>3. Len(q) \in Nat
  OBVIOUS
<1>4. Alike(q, S, q, T, Len(q))
  BY <1>3 DEF Alike
<1> QED
  BY <1>1, <1>2, <1>3, <1>4, SelectAgree

\* Selecting from one element more.
LEMMA SelectAppend ==
  ASSUME NEW X, NEW q \in Seq(X), NEW x \in X, NEW S
  PROVE  Select(Append(q, x), S) = IF x \in S THEN Append(Select(q, S), x) ELSE Select(q, S)
<1> DEFINE n == Len(q)
<1>0. PICK p : p = Append(q, x)
  OBVIOUS
<1>1. /\ p \in Seq(X) /\ n \in Nat /\ Len(p) = n + 1 /\ p[n + 1] = x
      /\ \A i \in 1 .. n : q[i] = p[i]
  BY <1>0
<1>2. PICK g \in [0 .. Len(q) -> Seq(X)] : SelectBy(g, q, S) /\ Select(q, S) = g[Len(q)]
  BY SelectFunction
<1>3. PICK h \in [0 .. Len(p) -> Seq(X)] : SelectBy(h, p, S) /\ Select(p, S) = h[Len(p)]
  BY <1>1, SelectFunction
<1>4. g[n] = h[n]
  <2>1. Alike(q, S, p, S, n)
    BY <1>1 DEF Alike
  <2>2. Len(q) \in Nat /\ p \in Seq(X) /\ Alike(q, S, p, S, Len(q))
    BY <1>1, <2>1
  <2>3. g[Len(q)] = h[Len(q)]
    BY <1>2, <1>3, <2>2, SelectAgree
  <2> QED
    BY <2>3
<1>5. h[n + 1] = IF x \in S THEN Append(h[n], x) ELSE h[n]
  <2>1. n + 1 \in 1 .. Len(p) /\ (n + 1) - 1 = n
    BY <1>1
  <2> HIDE DEF n
  <2>2. h[n + 1] = IF p[n + 1] \in S THEN Append(h[(n + 1) - 1], p[n + 1]) ELSE h[(n + 1) - 1]
    BY <1>3, <2>1 DEF SelectBy
  <2> QED
    BY <1>1, <2>1, <2>2
<1> QED
  BY <1>0, <1>1, <1>2, <1>3, <1>4, <1>5

\* A sequence of elements of S is selected as a whole.
LEMMA SelectAll ==
  ASSUME NEW X, NEW q \in Seq(X), NEW S, \A i \in 1 .. Len(q) : q[i] \in S
  PROVE  Select(q, S) = q
<1> DEFINE G == {r \in Seq(X) : (\A i \in 1 .. Len(r) : r[i] \in S) => Select(r, S) = r}
<1>1. <<>> \in G
  BY SelectEmpty
<1>2. ASSUME NEW r \in G, NEW x \in X
      PROVE  Append(r, x) \in G
  <2>1. r \in Seq(X) /\ Append(r, x) \in Seq(X)
    OBVIOUS
  <2> SUFFICES ASSUME \A i \in 1 .. Len(Append(r, x)) : Append(r, x)[i] \in S
               PROVE  Select(Append(r, x), S) = Append(r, x)
    BY <2>1
  <2>2. x \in S /\ \A i \in 1 .. Len(r) : r[i] \in S
    <3>1. Len(r) + 1 \in 1 .. Len(Append(r, x)) /\ Append(r, x)[Len(r) + 1] = x
      BY <2>1
    <3>2. \A i \in 1 .. Len(r) : i \in 1 .. Len(Append(r, x)) /\ Append(r, x)[i] = r[i]
      BY <2>1
    <3> QED
      BY <3>1, <3>2
  <2>3. Select(r, S) = r
    BY <2>2
  <2> QED
    BY <2>1, <2>2, <2>3, SelectAppend
<1>3. \A r \in Seq(X) : r \in G
  <2>1. G \in SUBSET Seq(X)
    OBVIOUS
  <2> HIDE DEF G
  <2> QED
    BY <1>1, <1>2, <2>1, SequenceInduction
<1> QED
  BY <1>3

\* Nothing is selected from a sequence without elements of S.
LEMMA SelectNone ==
  ASSUME NEW X, NEW q \in Seq(X), NEW S, \A i \in 1 .. Len(q) : q[i] \notin S
  PROVE  Select(q, S) = <<>>
<1> DEFINE G == {r \in Seq(X) : Select(r, {}) = <<>>}
<1>1. <<>> \in G
  BY SelectEmpty
<1>2. ASSUME NEW r \in G, NEW x \in X
      PROVE  Append(r, x) \in G
  <2>1. r \in Seq(X) /\ Append(r, x) \in Seq(X) /\ x \notin {} /\ Select(r, {}) = <<>>
    OBVIOUS
  <2> QED
    BY <2>1, SelectAppend
<1>3. \A r \in Seq(X) : r \in G
  <2>1. G \in SUBSET Seq(X)
    OBVIOUS
  <2> HIDE DEF G
  <2> QED
    BY <1>1, <1>2, <2>1, SequenceInduction
<1>4. Select(q, S) = Select(q, {})
  BY SelectSame
<1> QED
  BY <1>3, <1>4

\* Sequence r begins with sequence p.
Begins(p, r) == Len(p) <= Len(r) /\ \A k \in 1 .. Len(p) : p[k] = r[k]

\* A longer part of a sequence only adds to what is selected of it.
LEMMA SelectLonger ==
  ASSUME NEW X, NEW q \in Seq(X), NEW a \in Nat, NEW n \in Nat, a <= n, n <= Len(q), NEW S
  PROVE  Begins(Select(SubSeq(q, a + 1, n), S), Select(SubSeq(q, a + 1, Len(q)), S))
<1> DEFINE Of(m) == Select(SubSeq(q, a + 1, m), S)
           last == Len(q) - n
           G == {i \in 0 .. last : Begins(Of(n), Of(n + i))}
<1>1. last \in Nat /\ n + last = Len(q) /\ n + 0 = n
  OBVIOUS
<1>2. ASSUME NEW m \in n .. Len(q)
      PROVE  Of(m) \in Seq(X)
  <2>1. SubSeq(q, a + 1, m) \in Seq(X)
    BY <1>2, Part
  <2> QED
    BY <2>1, SelectType
<1>3. 0 \in G
  BY <1>1 DEF Begins
<1>4. ASSUME NEW i \in 0 .. last - 1, i \in G
      PROVE  i + 1 \in G
  <2>1. PICK p : p = SubSeq(q, a + 1, n + i)
    OBVIOUS
  <2>2. n + i \in Nat /\ a <= n + i /\ (n + i) + 1 <= Len(q) /\ (n + i) + 1 = n + (i + 1)
    BY <1>1, <1>4
  <2>3. p \in Seq(X) /\ q[(n + i) + 1] \in X
    BY <2>1, <2>2, Part
  <2>4. SubSeq(q, a + 1, n + (i + 1)) = Append(p, q[(n + i) + 1])
    <3>1. SubSeq(q, a + 1, (n + i) + 1) = Append(p, q[(n + i) + 1])
      BY <2>1, <2>2, PartMore
    <3> QED
      BY <2>2, <3>1
  <2>5. PICK x : x = q[(n + i) + 1]
    OBVIOUS
  <2>6. Of(n + (i + 1)) = IF x \in S THEN Append(Of(n + i), x) ELSE Of(n + i)
    <3>0. p \in Seq(X) /\ x \in X
      BY <2>3, <2>5
    <3>1. Select(Append(p, x), S) = IF x \in S THEN Append(Select(p, S), x) ELSE Select(p, S)
      BY <3>0, SelectAppend, Zenon
    <3>2. SubSeq(q, a + 1, n + (i + 1)) = Append(p, x)
      BY <2>4, <2>5
    <3>3. Of(n + i) = Select(p, S) /\ Of(n + (i + 1)) = Select(Append(p, x), S)
      BY <2>1, <3>2
    <3> QED
      BY <3>1, <3>3
  <2>7. Begins(Of(n), Of(n + i))
    BY <1>4
  <2>8. PICK r : r = Of(n + i)
    OBVIOUS
  <2>9. PICK b : b = Of(n)
    OBVIOUS
  <2>10. PICK t : t = Of(n + (i + 1))
    OBVIOUS
  <2>11. r \in Seq(X) /\ b \in Seq(X) /\ x \in X
    BY <1>2, <2>2, <2>3, <2>5, <2>8, <2>9
  <2>12. t = (IF x \in S THEN Append(r, x) ELSE r) /\ Begins(b, r)
    BY <2>6, <2>7, <2>8, <2>9, <2>10
  <2>13. Len(r) <= Len(t) /\ \A k \in 1 .. Len(r) : t[k] = r[k]
    BY <2>11, <2>12
  <2>14. Begins(b, t)
    BY <2>11, <2>12, <2>13 DEF Begins
  <2>15. i + 1 \in 0 .. last
    BY <1>1, <1>4
  <2> HIDE DEF Of
  <2> QED
    BY <2>9, <2>10, <2>14, <2>15
<1>5. last \in G
  <2>1. G \in SUBSET (0 .. last)
    OBVIOUS
  <2>2. last \in Nat /\ last \in 0 .. last
    BY <1>1
  <2> HIDE DEF G, last
  <2>3. \A i \in 0 .. last : i \in G
    BY <1>3, <1>4, <2>1, <2>2, BoundedInduction
  <2> QED
    BY <2>2, <2>3
<1> QED
  BY <1>1, <1>5

-----------------------------------------------------------------------------
(* FlattenSeq.                                                             *)

\* No element occurs twice.
Distinct(q) == \A i, j \in 1 .. Len(q) : q[i] = q[j] => i = j

\* What the function in the definition of FlattenSeq is.
Flattens(g, ss) == /\ g[1] = ss[1]
                   /\ \A i \in 2 .. Len(ss) : g[i] = g[i - 1] \o ss[i]

\* There is such a function.
LEMMA FlattenFunction ==
  ASSUME NEW X, NEW ss \in Seq(Seq(X)), ss # <<>>
  PROVE  \E g \in [1 .. Len(ss) -> Seq(X)] : Flattens(g, ss) /\ FlattenSeq(ss) = g[Len(ss)]
<1> DEFINE n == Len(ss)
           F == [i \in 1 .. n |-> [t \in Seq(X) |-> t \o ss[i]]]
           Def(f) == [i \in 1 .. n |-> IF i = 1 THEN ss[i] ELSE f[i - 1] \o ss[i]]
<1>1. n \in Nat /\ n # 0 /\ <<>> \in Seq(X) /\ \A i \in 1 .. n : ss[i] \in Seq(X)
  BY EmptySeq
<1>2. F \in [1 .. n -> [Seq(X) -> Seq(X)]]
  BY <1>1
<1>3. \A i \in 1 .. n : \A t \in Seq(X) : F[i][t] = t \o ss[i]
  OBVIOUS
<1> HIDE DEF F, n
<1>4. PICK g \in [0 .. n -> Seq(X)] : Steps(g, <<>>, F, n)
  BY <1>1, <1>2, Recursion
<1>5. \A i \in 1 .. n : g[i - 1] \in Seq(X) /\ g[i] = g[i - 1] \o ss[i]
  <2> SUFFICES ASSUME NEW i \in 1 .. n
               PROVE  g[i - 1] \in Seq(X) /\ g[i] = g[i - 1] \o ss[i]
    OBVIOUS
  <2>1. g[i - 1] \in Seq(X)
    BY <1>1
  <2>2. g[i] = F[i][g[i - 1]]
    BY <1>4 DEF Steps
  <2> QED
    BY <1>3, <2>1, <2>2
<1>6. g[1] = ss[1]
  <2>1. 1 \in 1 .. n /\ g[0] = <<>>
    BY <1>1, <1>4 DEF Steps
  <2>2. g[1] = g[1 - 1] \o ss[1] /\ ss[1] \in Seq(X)
    BY <1>1, <1>5, <2>1, Zenon
  <2>3. g[1] = <<>> \o ss[1]
    <3>1. 1 - 1 = 0
      OBVIOUS
    <3> QED
      BY <2>1, <2>2, <3>1, Zenon
  <2> QED
    BY <2>2, <2>3
<1>7. PICK h : h = [i \in 1 .. n |-> g[i]]
  OBVIOUS
<1>8. h = Def(h)
  <2>1. ASSUME NEW i \in 1 .. n
        PROVE  h[i] = IF i = 1 THEN ss[i] ELSE h[i - 1] \o ss[i]
    <3>1. CASE i = 1
      BY <1>6, <1>7, <3>1
    <3>2. CASE i # 1
      <4>1. i - 1 \in 1 .. n
        BY <1>1, <3>2
      <4> QED
        BY <1>5, <1>7, <3>2, <4>1
    <3> QED
      BY <3>1, <3>2
  <2>2. h = [i \in 1 .. n |-> h[i]]
    BY <1>7
  <2> QED
    BY <2>1, <2>2, Zenon
<1>9. PICK f : f = Def(f) /\ FlattenSeq(ss) = f[n]
  <2>1. FlattenSeq(ss) = (CHOOSE f : f = Def(f))[n]
    BY <1>1 DEF FlattenSeq, n
  <2> HIDE DEF Def
  <2>2. (CHOOSE f : f = Def(f)) = Def(CHOOSE f : f = Def(f))
    BY <1>8
  <2> QED
    BY <2>1, <2>2
<1> HIDE DEF Def
<1>10. f[1] = ss[1]
  <2>1. f[1] = Def(f)[1]
    BY <1>9
  <2> QED
    BY <1>1, <2>1 DEF Def
<1>11. \A i \in 2 .. n : f[i] = f[i - 1] \o ss[i]
  <2> SUFFICES ASSUME NEW i \in 2 .. n
               PROVE  f[i] = f[i - 1] \o ss[i]
    OBVIOUS
  <2>1. f[i] = Def(f)[i]
    BY <1>9
  <2>2. i \in 1 .. n /\ i # 1
    BY <1>1
  <2>3. Def(f)[i] = IF i = 1 THEN ss[i] ELSE f[i - 1] \o ss[i]
    BY <2>2, Zenon DEF Def
  <2> QED
    BY <2>1, <2>2, <2>3
<1>12. \A i \in 1 .. n : f[i] \in Seq(X)
  <2> DEFINE T == {i \in 0 .. n : i = 0 \/ f[i] \in Seq(X)}
  <2>1. 0 \in T
    BY <1>1
  <2>2. ASSUME NEW i \in 0 .. n - 1, i \in T
        PROVE  i + 1 \in T
    <3>1. CASE i = 0
      BY <1>1, <1>10, <3>1
    <3>2. CASE i # 0
      <4>1. i + 1 \in 2 .. n /\ (i + 1) - 1 = i /\ f[i] \in Seq(X) /\ ss[i + 1] \in Seq(X)
        BY <1>1, <2>2, <3>2
      <4>2. f[i + 1] = f[(i + 1) - 1] \o ss[i + 1]
        BY <1>11, <4>1, Zenon
      <4>3. f[i + 1] = f[i] \o ss[i + 1]
        BY <4>1, <4>2, Zenon
      <4>4. f[i + 1] \in Seq(X)
        BY <4>1, <4>3
      <4>5. i + 1 \in 0 .. n
        BY <1>1
      <4> QED
        BY <4>4, <4>5
    <3> QED
      BY <3>1, <3>2
  <2>3. \A i \in 0 .. n : i \in T
    <3>1. T \in SUBSET (0 .. n)
      OBVIOUS
    <3> HIDE DEF T
    <3> QED
      BY <1>1, <2>1, <2>2, <3>1, BoundedInduction
  <2> QED
    BY <1>1, <2>3
<1>13. f \in [1 .. n -> Seq(X)]
  <2>1. f = [i \in 1 .. n |-> Def(f)[i]]
    BY <1>9 DEF Def
  <2> QED
    BY <1>9, <1>12, <2>1
<1> QED
  BY <1>9, <1>10, <1>11, <1>13 DEF Flattens, n

\* The elements of a concatenation; none occurs twice if that is so of both parts
\* and they have none in common.
LEMMA ConcatElements ==
  ASSUME NEW X, NEW p \in Seq(X), NEW q \in Seq(X)
  PROVE  Range(p \o q) = Range(p) \cup Range(q)
<1>1. /\ p \o q \in Seq(X) /\ Len(p \o q) = Len(p) + Len(q)
      /\ \A i \in 1 .. Len(p) + Len(q) :
           (p \o q)[i] = IF i <= Len(p) THEN p[i] ELSE q[i - Len(p)]
  BY ConcatProperties
<1> DEFINE r == p \o q
<1> HIDE DEF r
<1>2. DOMAIN r = 1 .. Len(p) + Len(q) /\ DOMAIN p = 1 .. Len(p) /\ DOMAIN q = 1 .. Len(q)
  BY <1>1 DEF r
<1>3. Len(p) \in Nat /\ Len(q) \in Nat
  OBVIOUS
<1>4. ASSUME NEW x \in Range(r)
      PROVE  x \in Range(p) \cup Range(q)
  <2>1. PICK i \in 1 .. Len(p) + Len(q) : x = r[i]
    BY <1>2, <1>4 DEF Range
  <2>2. CASE i <= Len(p)
    BY <1>1, <1>2, <1>3, <2>1, <2>2 DEF Range, r
  <2>3. CASE ~(i <= Len(p))
    <3>1. i - Len(p) \in 1 .. Len(q) /\ x = q[i - Len(p)]
      BY <1>1, <1>3, <2>1, <2>3 DEF r
    <3> QED
      BY <1>2, <3>1 DEF Range
  <2> QED
    BY <2>2, <2>3
<1>5. ASSUME NEW x \in Range(p)
      PROVE  x \in Range(r)
  <2>1. PICK i \in 1 .. Len(p) : x = p[i]
    BY <1>2, <1>5 DEF Range
  <2>2. i \in 1 .. Len(p) + Len(q) /\ r[i] = x
    BY <1>1, <1>3, <2>1 DEF r
  <2> QED
    BY <1>2, <2>2 DEF Range
<1>6. ASSUME NEW x \in Range(q)
      PROVE  x \in Range(r)
  <2>1. PICK i \in 1 .. Len(q) : x = q[i]
    BY <1>2, <1>6 DEF Range
  <2>2. i + Len(p) \in 1 .. Len(p) + Len(q) /\ r[i + Len(p)] = x
    BY <1>1, <1>3, <2>1 DEF r
  <2> QED
    BY <1>2, <2>2 DEF Range
<1> QED
  BY <1>4, <1>5, <1>6 DEF r

\* A concatenation has no element twice if its parts have none twice and share none.
LEMMA ConcatDistinct ==
  ASSUME NEW X, NEW p \in Seq(X), NEW q \in Seq(X), Distinct(p), Distinct(q),
         Range(p) \cap Range(q) = {}
  PROVE  Distinct(p \o q)
<1>1. /\ Len(p \o q) = Len(p) + Len(q)
      /\ \A i \in 1 .. Len(p) + Len(q) :
           (p \o q)[i] = IF i <= Len(p) THEN p[i] ELSE q[i - Len(p)]
  BY ConcatProperties
<1> DEFINE r == p \o q
<1>2. Len(p) \in Nat /\ Len(q) \in Nat
  OBVIOUS
<1>3. \A i \in 1 .. Len(p) : \A j \in 1 .. Len(q) : p[i] # q[j]
  BY DEF Range
<1> SUFFICES ASSUME NEW i \in 1 .. Len(p) + Len(q), NEW j \in 1 .. Len(p) + Len(q), r[i] = r[j]
             PROVE  i = j
  BY <1>1 DEF Distinct
<1> HIDE DEF r
<1>4. CASE i <= Len(p) /\ j <= Len(p)
  BY <1>1, <1>2, <1>4 DEF Distinct, r
<1>5. CASE i > Len(p) /\ j > Len(p)
  <2>1. i - Len(p) \in 1 .. Len(q) /\ j - Len(p) \in 1 .. Len(q)
    BY <1>2, <1>5
  <2>2. r[i] = q[i - Len(p)] /\ r[j] = q[j - Len(p)]
    BY <1>1, <1>2, <1>5 DEF r
  <2>3. i - Len(p) = j - Len(p)
    BY <2>1, <2>2 DEF Distinct
  <2> QED
    BY <1>2, <2>3
<1>6. CASE i <= Len(p) /\ j > Len(p)
  <2>1. i \in 1 .. Len(p) /\ j - Len(p) \in 1 .. Len(q)
    BY <1>2, <1>6
  <2>2. r[i] = p[i] /\ r[j] = q[j - Len(p)]
    BY <1>1, <1>2, <1>6 DEF r
  <2> QED
    BY <1>3, <2>1, <2>2
<1>7. CASE i > Len(p) /\ j <= Len(p)
  <2>1. j \in 1 .. Len(p) /\ i - Len(p) \in 1 .. Len(q)
    BY <1>2, <1>7
  <2>2. r[j] = p[j] /\ r[i] = q[i - Len(p)]
    BY <1>1, <1>2, <1>7 DEF r
  <2> QED
    BY <1>3, <2>1, <2>2
<1> QED
  BY <1>2, <1>4, <1>5, <1>6, <1>7

\* The parts of ss, each without an element twice and none with an element of
\* another.
Apart(ss) == /\ \A i \in 1 .. Len(ss) : Distinct(ss[i])
             /\ \A i, j \in 1 .. Len(ss) : i # j => Range(ss[i]) \cap Range(ss[j]) = {}

\* Flattening has the elements of all the parts, and each of them once.
LEMMA FlattenElements ==
  ASSUME NEW X, NEW ss \in Seq(Seq(X)), ss # <<>>, Apart(ss)
  PROVE  /\ FlattenSeq(ss) \in Seq(X)
         /\ Distinct(FlattenSeq(ss))
         /\ Range(FlattenSeq(ss)) = UNION {Range(ss[i]) : i \in 1 .. Len(ss)}
<1> DEFINE n == Len(ss)
           U(k) == UNION {Range(ss[i]) : i \in 1 .. k}
<1>1. n \in Nat /\ n # 0 /\ \A i \in 1 .. n : ss[i] \in Seq(X)
  BY EmptySeq
<1>2. PICK g \in [1 .. n -> Seq(X)] : Flattens(g, ss) /\ FlattenSeq(ss) = g[n]
  BY FlattenFunction
<1> DEFINE T == {k \in 0 .. n : k # 0 => Distinct(g[k]) /\ Range(g[k]) = U(k)}
<1>3. 0 \in T
  BY <1>1
<1>4. ASSUME NEW k \in 0 .. n - 1, k \in T
      PROVE  k + 1 \in T
  <2>1. k + 1 \in 1 .. n /\ k + 1 \in 0 .. n
    BY <1>1
  <2>2. U(k + 1) = U(k) \cup Range(ss[k + 1])
    <3>1. 1 .. k + 1 = (1 .. k) \cup {k + 1}
      OBVIOUS
    <3> QED
      BY <3>1
  <2>3. CASE k = 0
    <3>1. g[k + 1] = ss[k + 1]
      BY <1>2, <2>3 DEF Flattens
    <3>2. U(k) = {}
      BY <2>3
    <3> HIDE DEF U
    <3> QED
      BY <2>1, <2>2, <3>1, <3>2 DEF Apart
  <2>4. CASE k # 0
    <3>0. k + 1 \in 2 .. n /\ (k + 1) - 1 = k /\ k \in 1 .. n
      BY <1>1, <2>4
    <3>1. g[k] \in Seq(X)
      BY <3>0
    <3>2. g[k + 1] = g[k] \o ss[k + 1]
      BY <1>2, <3>0 DEF Flattens
    <3>3. Distinct(g[k]) /\ Range(g[k]) = U(k) /\ Distinct(ss[k + 1]) /\ ss[k + 1] \in Seq(X)
      BY <1>1, <1>4, <2>1, <2>4 DEF Apart
    <3>4. U(k) \cap Range(ss[k + 1]) = {}
      <4>1. \A i \in 1 .. k : i \in 1 .. n /\ i # k + 1
        BY <1>1, <2>1
      <4> QED
        BY <2>1, <4>1 DEF Apart
    <3> HIDE DEF U
    <3>5. Distinct(g[k] \o ss[k + 1])
      BY <3>1, <3>3, <3>4, ConcatDistinct
    <3>6. Range(g[k] \o ss[k + 1]) = U(k + 1)
      <4>1. Range(g[k] \o ss[k + 1]) = Range(g[k]) \cup Range(ss[k + 1])
        BY <3>1, <3>3, ConcatElements
      <4> QED
        BY <2>2, <3>3, <4>1
    <3> QED
      BY <2>1, <3>2, <3>5, <3>6
  <2> QED
    BY <2>3, <2>4
<1>5. \A k \in 0 .. n : k \in T
  <2>1. T \in SUBSET (0 .. n)
    OBVIOUS
  <2> HIDE DEF T
  <2> QED
    BY <1>1, <1>3, <1>4, <2>1, BoundedInduction
<1>6. n \in T
  <2> HIDE DEF T
  <2> QED
    BY <1>1, <1>5
<1>7. g[n] \in Seq(X)
  BY <1>1
<1>8. Distinct(g[n]) /\ Range(g[n]) = U(n)
  BY <1>1, <1>6
<1> QED
  BY <1>2, <1>7, <1>8

\* Flattening starts with what the first part starts with.
LEMMA FlattenFirst ==
  ASSUME NEW X, NEW ss \in Seq(Seq(X)), ss # <<>>, ss[1] # <<>>
  PROVE  FlattenSeq(ss)[1] = ss[1][1]
<1> DEFINE n == Len(ss)
<1>1. n \in Nat /\ n # 0 /\ \A i \in 1 .. n : ss[i] \in Seq(X)
  BY EmptySeq
<1>2. PICK g \in [1 .. n -> Seq(X)] : Flattens(g, ss) /\ FlattenSeq(ss) = g[n]
  BY FlattenFunction
<1> DEFINE T == {k \in 0 .. n : k # 0 => Len(g[k]) # 0 /\ g[k][1] = ss[1][1]}
<1>3. 0 \in T
  BY <1>1
<1>4. ASSUME NEW k \in 0 .. n - 1, k \in T
      PROVE  k + 1 \in T
  <2>1. k + 1 \in 0 .. n
    BY <1>1
  <2>2. CASE k = 0
    <3>1. g[k + 1] = ss[1] /\ ss[1] \in Seq(X)
      BY <1>1, <1>2, <2>2 DEF Flattens
    <3> QED
      BY <2>1, <3>1
  <2>3. CASE k # 0
    <3>1. k + 1 \in 2 .. n /\ (k + 1) - 1 = k /\ k \in 1 .. n /\ ss[k + 1] \in Seq(X)
      BY <1>1, <2>3
    <3>2. g[k] \in Seq(X) /\ Len(g[k]) # 0 /\ g[k][1] = ss[1][1]
      BY <1>4, <2>3, <3>1
    <3>3. g[k + 1] = g[k] \o ss[k + 1]
      BY <1>2, <3>1 DEF Flattens
    <3> HIDE DEF n
    <3>4. Len(g[k + 1]) # 0 /\ g[k + 1][1] = g[k][1]
      BY <3>1, <3>2, <3>3, ConcatProperties
    <3> QED
      BY <2>1, <3>2, <3>4
  <2> QED
    BY <2>2, <2>3
<1>5. \A k \in 0 .. n : k \in T
  <2>1. T \in SUBSET (0 .. n)
    OBVIOUS
  <2> HIDE DEF T
  <2> QED
    BY <1>1, <1>3, <1>4, <2>1, BoundedInduction
<1>6. n \in T
  <2> HIDE DEF T
  <2> QED
    BY <1>1, <1>5
<1> QED
  BY <1>1, <1>2, <1>6

\* A sequence that has the m numbers below m, each of them once, is m long.
LEMMA PermutationLength ==
  ASSUME NEW m \in Nat, NEW q \in Seq(Nat), Distinct(q), Range(q) = 0 .. m - 1
  PROVE  Len(q) = m
<1> DEFINE S == 1 .. Len(q)
           T == 0 .. m - 1
<1>1. Len(q) \in Nat /\ DOMAIN q = S
  OBVIOUS
<1>2. IsFiniteSet(S) /\ Cardinality(S) = Len(q)
  <2>1. \A k \in Nat : IsFiniteSet(1 .. k) /\ Cardinality(1 .. k) = k
    BY FS_Interval
  <2> QED
    BY <1>1, <2>1
<1>3. IsFiniteSet(T) /\ Cardinality(T) = m
  BY FS_Interval
<1>4. q \in [S -> T]
  <2>1. \A i \in S : q[i] \in T
    BY <1>1 DEF Range
  <2>2. q = [i \in S |-> q[i]]
    BY <1>1
  <2> HIDE DEF S, T
  <2> QED
    BY <2>1, <2>2
<1>5. q \in Injection(S, T)
  BY <1>1, <1>4 DEF Injection, IsInjective, Distinct
<1>6. q \in Surjection(S, T)
  BY <1>1, <1>4 DEF Surjection, Range
<1>7. ExistsBijection(S, T)
  BY <1>5, <1>6 DEF ExistsBijection, Bijection
<1> HIDE DEF S, T
<1> QED
  BY <1>2, <1>3, <1>7, FS_Bijection

-----------------------------------------------------------------------------
(* The elements of a sequence that grows, or that is selected from.        *)

\* The elements of a sequence with one more.
LEMMA AppendElements ==
  ASSUME NEW X, NEW q \in Seq(X), NEW x \in X
  PROVE  /\ Range(Append(q, x)) = Range(q) \cup {x}
         /\ Distinct(Append(q, x)) <=> Distinct(q) /\ x \notin Range(q)
<1>1. PICK p : p = Append(q, x)
  OBVIOUS
<1>2. PICK n \in Nat : n = Len(q)
  OBVIOUS
<1>3. /\ DOMAIN q = 1 .. n /\ DOMAIN p = 1 .. n + 1 /\ Len(p) = n + 1
      /\ p[n + 1] = x /\ \A i \in 1 .. n : p[i] = q[i]
  BY <1>1, <1>2
<1>4. 1 .. n + 1 = (1 .. n) \cup {n + 1} /\ n + 1 \notin 1 .. n
  OBVIOUS
<1>5. Range(p) = Range(q) \cup {x}
  BY <1>3, <1>4 DEF Range
<1>6. Distinct(p) => Distinct(q) /\ x \notin Range(q)
  <2> SUFFICES ASSUME \A i, j \in 1 .. n + 1 : p[i] = p[j] => i = j
               PROVE  Distinct(q) /\ x \notin Range(q)
    BY <1>3 DEF Distinct
  <2>1. Distinct(q)
    BY <1>2, <1>3, <1>4 DEF Distinct
  <2>2. x \notin Range(q)
    BY <1>3, <1>4 DEF Range
  <2> QED
    BY <2>1, <2>2
<1>7. Distinct(q) /\ x \notin Range(q) => Distinct(p)
  <2> SUFFICES ASSUME Distinct(q), x \notin Range(q),
                      NEW i \in 1 .. n + 1, NEW j \in 1 .. n + 1, p[i] = p[j]
               PROVE  i = j
    BY <1>3 DEF Distinct
  <2>1. \A k \in 1 .. n : q[k] # x
    BY <1>3 DEF Range
  <2>2. \A k, l \in 1 .. n : q[k] = q[l] => k = l
    BY <1>2 DEF Distinct
  <2> QED
    BY <1>3, <1>4, <2>1, <2>2
<1> QED
  BY <1>1, <1>5, <1>6, <1>7

\* What is selected: the elements that are in S, each of them once if it occurs
\* once.
LEMMA SelectElements ==
  ASSUME NEW X, NEW q \in Seq(X), NEW S
  PROVE  /\ Range(Select(q, S)) = Range(q) \cap S
         /\ Distinct(q) => Distinct(Select(q, S))
<1> DEFINE G == {r \in Seq(X) : /\ Range(Select(r, S)) = Range(r) \cap S
                                /\ Distinct(r) => Distinct(Select(r, S))}
<1>1. <<>> \in G
  <2>1. Range(<<>>) = {} /\ Distinct(<<>>) /\ <<>> \in Seq(X)
    BY DEF Range, Distinct
  <2>2. Select(<<>>, S) = <<>>
    BY SelectEmpty
  <2> QED
    BY <2>1, <2>2
<1>2. ASSUME NEW r \in G, NEW x \in X
      PROVE  Append(r, x) \in G
  <2>1. /\ r \in Seq(X) /\ Append(r, x) \in Seq(X)
        /\ Range(Select(r, S)) = Range(r) \cap S
        /\ Distinct(r) => Distinct(Select(r, S))
    OBVIOUS
  <2>2. Select(r, S) \in Seq(X)
    BY <2>1, SelectType
  <2>3. Select(Append(r, x), S) = IF x \in S THEN Append(Select(r, S), x) ELSE Select(r, S)
    BY <2>1, SelectAppend
  <2>4. /\ Range(Append(r, x)) = Range(r) \cup {x}
        /\ Distinct(Append(r, x)) <=> Distinct(r) /\ x \notin Range(r)
    BY <2>1, AppendElements
  <2>5. PICK t : t = Select(r, S)
    OBVIOUS
  <2>6. /\ Range(Append(t, x)) = Range(t) \cup {x}
        /\ Distinct(Append(t, x)) <=> Distinct(t) /\ x \notin Range(t)
    BY <2>2, <2>5, AppendElements
  <2>7. Range(Select(Append(r, x), S)) = Range(Append(r, x)) \cap S
    BY <2>1, <2>3, <2>4, <2>5, <2>6, Zenon
  <2>8. Distinct(Append(r, x)) => Distinct(Select(Append(r, x), S))
    BY <2>1, <2>3, <2>4, <2>5, <2>6
  <2> QED
    BY <2>1, <2>7, <2>8
<1>3. \A r \in Seq(X) : r \in G
  <2>1. G \in SUBSET Seq(X)
    OBVIOUS
  <2> HIDE DEF G
  <2> QED
    BY <1>1, <1>2, <2>1, SequenceInduction
<1> QED
  BY <1>3

-----------------------------------------------------------------------------
(* Interleaved subsets.                                                    *)

\* Division with remainder.
LEMMA Remainder ==
  ASSUME NEW x \in Nat, NEW n \in Nat \ {0}
  PROVE  /\ x \div n \in Nat /\ x % n \in 0 .. n - 1
         /\ x = (x \div n) * n + (x % n)
<1>1. x \in Int /\ n \in Int /\ n > 0
  OBVIOUS
<1> QED
  BY <1>1

\* It is the only way to write x.
LEMMA RemainderUnique ==
  ASSUME NEW n \in Nat \ {0}, NEW i \in Nat, NEW j \in Nat,
         NEW a \in 0 .. n - 1, NEW b \in 0 .. n - 1, a + i * n = b + j * n
  PROVE  a = b /\ i = j
<1>1. ASSUME i < j
      PROVE  FALSE
  <2>1. PICK d \in Nat \ {0} : j = i + d
    BY <1>1, j - i \in Nat \ {0}
  <2>2. j * n = i * n + d * n
    BY <2>1
  <2>3. d * n >= n
    BY <2>1
  <2> QED
    BY <2>2, <2>3
<1>2. ASSUME j < i
      PROVE  FALSE
  <2>1. PICK d \in Nat \ {0} : i = j + d
    BY <1>2, i - j \in Nat \ {0}
  <2>2. i * n = j * n + d * n
    BY <2>1
  <2>3. d * n >= n
    BY <2>1
  <2> QED
    BY <2>2, <2>3
<1>3. i = j
  BY <1>1, <1>2
<1> QED
  BY <1>3

\* Part k of ss has k - 1 and every n-th number after it, below m.
Strided(ss, n, m) ==
  /\ ss \in Seq(Seq(Nat)) /\ Len(ss) = n
  /\ \A k \in 1 .. n :
       /\ \A j \in 1 .. Len(ss[k]) : ss[k][j] = k - 1 + (j - 1) * n
       /\ \A j \in Nat \ {0} : j <= Len(ss[k]) <=> k - 1 + (j - 1) * n < m

\* The parts together have all the numbers below m, each of them once.
LEMMA StridedFlat ==
  ASSUME NEW n \in Nat \ {0}, NEW m \in Nat, NEW ss, Strided(ss, n, m)
  PROVE  /\ FlattenSeq(ss) \in Seq(Nat)
         /\ Distinct(FlattenSeq(ss))
         /\ Range(FlattenSeq(ss)) = 0 .. m - 1
         /\ Len(FlattenSeq(ss)) = m
<1>1. /\ ss \in Seq(Seq(Nat)) /\ Len(ss) = n /\ ss # <<>>
      /\ \A k \in 1 .. n : ss[k] \in Seq(Nat) /\ DOMAIN ss[k] = 1 .. Len(ss[k]) /\ Len(ss[k]) \in Nat
  BY DEF Strided
<1>2. \A k \in 1 .. n : \A j \in 1 .. Len(ss[k]) :
        k - 1 \in 0 .. n - 1 /\ j - 1 \in Nat /\ ss[k][j] = (k - 1) + (j - 1) * n
  BY <1>1 DEF Strided
<1>3. ASSUME NEW k \in 1 .. n, NEW h \in 1 .. n,
             NEW j \in 1 .. Len(ss[k]), NEW i \in 1 .. Len(ss[h]), ss[k][j] = ss[h][i]
      PROVE  k = h /\ j = i
  <2>1. /\ k - 1 \in 0 .. n - 1 /\ j - 1 \in Nat /\ ss[k][j] = (k - 1) + (j - 1) * n
        /\ h - 1 \in 0 .. n - 1 /\ i - 1 \in Nat /\ ss[h][i] = (h - 1) + (i - 1) * n
    BY <1>2
  <2>2. (k - 1) + (j - 1) * n = (h - 1) + (i - 1) * n
    BY <1>3, <2>1
  <2>3. \A a, b \in 0 .. n - 1 : \A u, v \in Nat : a + u * n = b + v * n => a = b /\ u = v
    BY RemainderUnique
  <2>4. PICK a, b, u, v : a = k - 1 /\ b = h - 1 /\ u = j - 1 /\ v = i - 1
    OBVIOUS
  <2>6. a \in 0 .. n - 1 /\ b \in 0 .. n - 1 /\ u \in Nat /\ v \in Nat
    BY <2>1, <2>4
  <2>7. a + u * n = b + v * n
    BY <2>2, <2>4
  <2>8. a = b /\ u = v
    BY <2>3, <2>6, <2>7
  <2>5. j \in Int /\ i \in Int
    BY <1>1
  <2> QED
    BY <2>4, <2>5, <2>8
<1>4. Apart(ss)
  <2>1. ASSUME NEW k \in 1 .. n
        PROVE  Distinct(ss[k])
    BY <1>3 DEF Distinct
  <2>2. ASSUME NEW k \in 1 .. n, NEW h \in 1 .. n, k # h
        PROVE  Range(ss[k]) \cap Range(ss[h]) = {}
    <3> SUFFICES ASSUME NEW x \in Range(ss[k]), x \in Range(ss[h])
                 PROVE  FALSE
      OBVIOUS
    <3>1. PICK j \in 1 .. Len(ss[k]) : x = ss[k][j]
      BY <1>1 DEF Range
    <3>2. PICK i \in 1 .. Len(ss[h]) : x = ss[h][i]
      BY <1>1 DEF Range
    <3> QED
      BY <1>3, <2>2, <3>1, <3>2
  <2> QED
    BY <1>1, <2>1, <2>2 DEF Apart
<1>5. /\ FlattenSeq(ss) \in Seq(Nat) /\ Distinct(FlattenSeq(ss))
      /\ Range(FlattenSeq(ss)) = UNION {Range(ss[k]) : k \in 1 .. n}
  BY <1>1, <1>4, FlattenElements
<1>6. ASSUME NEW k \in 1 .. n, NEW x \in Range(ss[k])
      PROVE  x \in 0 .. m - 1
  <2>1. PICK j \in 1 .. Len(ss[k]) : x = ss[k][j]
    BY <1>1 DEF Range
  <2>2. j \in Nat \ {0} /\ j <= Len(ss[k]) /\ x = k - 1 + (j - 1) * n /\ x \in Nat
    BY <1>1, <2>1 DEF Strided
  <2>3. x < m
    BY <2>2 DEF Strided
  <2> QED
    BY <2>2, <2>3
<1>7. ASSUME NEW x \in 0 .. m - 1
      PROVE  \E k \in 1 .. n : x \in Range(ss[k])
  <2>1. x \in Nat /\ x < m
    OBVIOUS
  <2>2. /\ x \div n \in Nat /\ x % n \in 0 .. n - 1
        /\ x = (x \div n) * n + (x % n)
    BY <2>1, Remainder
  <2>3. PICK q \in Nat, r \in 0 .. n - 1 : x = q * n + r
    BY <2>2
  <2>4. r + 1 \in 1 .. n /\ q + 1 \in Nat \ {0} /\ x = (r + 1) - 1 + ((q + 1) - 1) * n
    BY <2>3
  <2>5. q + 1 <= Len(ss[r + 1])
    BY <2>1, <2>4 DEF Strided
  <2>6. q + 1 \in 1 .. Len(ss[r + 1])
    BY <1>1, <2>4, <2>5
  <2>7. ss[r + 1][q + 1] = x
    BY <2>4, <2>6 DEF Strided
  <2> QED
    BY <1>1, <2>4, <2>6, <2>7 DEF Range
<1>8. Range(FlattenSeq(ss)) = 0 .. m - 1
  BY <1>5, <1>6, <1>7
<1> QED
  BY <1>5, <1>8, PermutationLength
=============================================================================
