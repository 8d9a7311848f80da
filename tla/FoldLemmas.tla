----------------------------- MODULE FoldLemmas -----------------------------
(***************************************************************************)
(* Facts about recursion that proofs about folds rest on: induction on     *)
(* numbers and on finite sets, that what a fold computes exists, and sums. *)
(* A lemma cannot be applied to an operator of its reader's, so steps are  *)
(* functions here and predicates are sets.                                 *)
(***************************************************************************)
EXTENDS Integers, Sequences, FiniteSets, SequencesExt, FiniteSetTheorems, WellFoundedInduction,
        TLAPS

----------------------------------------------------------------------------
(* Induction.                                                              *)

\* A set of numbers that is not empty has a least one.
LEMMA Least ==
    ASSUME NEW T \in SUBSET Nat, T # {}
    PROVE  \E x \in T : \A y \in T : x <= y
<1>1. PICK x \in T : \A y \in T : ~ (<<y, x>> \in OpToRel(<, Nat))
  BY NatLessThanWellFounded, WFMin
<1>2. \A y \in T : y < x => <<y, x>> \in OpToRel(<, Nat)
  BY DEF OpToRel
<1>3. \A y \in T : ~ (y < x)
  BY <1>1, <1>2
<1>4. \A y \in T : y \in Int /\ x \in Int
  OBVIOUS
<1> QED
  BY ONLY <1>3, <1>4

\* Induction on the natural numbers, for a set that holds zero and each successor.
LEMMA ByInduction ==
    ASSUME NEW S, 0 \in S, \A n \in Nat : n \in S => n + 1 \in S
    PROVE  \A n \in Nat : n \in S
<1> SUFFICES ASSUME NEW m \in Nat, m \notin S PROVE FALSE
  OBVIOUS
<1>1. PICK n \in Nat \ S : \A y \in Nat \ S : n <= y
  <2>1. Nat \ S # {} /\ Nat \ S \in SUBSET Nat
    OBVIOUS
  <2> QED
    BY <2>1, Least
<1>2. n # 0 /\ n - 1 \in Nat /\ n - 1 \in S
  BY <1>1
<1> QED
  BY <1>1, <1>2

\* Induction up to a bound.
LEMMA ByInductionTo ==
    ASSUME NEW m \in Nat, NEW S, 0 \in S, \A n \in 0 .. m - 1 : n \in S => n + 1 \in S
    PROVE  \A n \in 0 .. m : n \in S
<1> DEFINE U == {n \in Nat : n <= m => n \in S}
<1>1. 0 \in U
  OBVIOUS
<1>2. \A n \in Nat : n \in U => n + 1 \in U
  OBVIOUS
<1>3. \A n \in Nat : n \in U
  <2> HIDE DEF U
  <2> QED
    BY <1>1, <1>2, ByInduction
<1> QED
  BY <1>3

\* Induction on a finite set: c takes one element out of each set on the way.
LEMMA SetInduction ==
    ASSUME NEW S, IsFiniteSet(S), NEW c, NEW P, {} \in P,
           \A t \in SUBSET S : t # {} => c[t] \in t /\ (t \ {c[t]} \in P => t \in P)
    PROVE  \A t \in SUBSET S : t \in P
<1> DEFINE N == {n \in Nat : \A t \in SUBSET S : Cardinality(t) = n => t \in P}
<1>1. \A t \in SUBSET S : IsFiniteSet(t) /\ Cardinality(t) \in Nat
  BY FS_Subset, FS_CardinalityType
<1>2. 0 \in N
  BY <1>1, FS_EmptySet
<1>3. ASSUME NEW n \in Nat, n \in N, NEW t \in SUBSET S, Cardinality(t) = n + 1
      PROVE  t \in P
  <2>1. t # {}
    BY <1>3, FS_EmptySet
  <2>2. c[t] \in t
    BY <2>1
  <2>3. Cardinality(t \ {c[t]}) = n
    BY <1>1, <1>3, <2>2, FS_RemoveElement
  <2>4. t \ {c[t]} \in SUBSET S
    OBVIOUS
  <2>5. t \ {c[t]} \in P
    BY <1>3, <2>3, <2>4
  <2> QED
    BY <2>1, <2>5
<1>4. \A n \in Nat : n \in N => n + 1 \in N
  BY <1>3
<1>5. \A n \in Nat : n \in N
  <2> HIDE DEF N
  <2> QED
    BY <1>2, <1>4, ByInduction
<1> QED
  BY <1>1, <1>5

----------------------------------------------------------------------------
(* What a fold computes.                                                   *)

\* A function on the subsets of S that starts at base and takes one element at a time,
\* the one c chooses, by the step g.
SetFold(h, S, V, c, base, g) ==
    /\ h \in [SUBSET S -> V]
    /\ h[{}] = base
    /\ \A t \in SUBSET S : t # {} => h[t] = g[<<c[t], h[t \ {c[t]}]>>]

\* On a finite set there is one.
LEMMA FoldExists ==
    ASSUME NEW S, IsFiniteSet(S), NEW c, \A t \in SUBSET S : t # {} => c[t] \in t,
           NEW V, NEW base \in V, NEW g \in [S \X V -> V]
    PROVE  \E h : SetFold(h, S, V, c, base, g)
<1> DEFINE Upto(h, n) == /\ h[{}] = base
                         /\ \A t \in SUBSET S : t # {} /\ Cardinality(t) <= n =>
                                                  h[t] = g[<<c[t], h[t \ {c[t]}]>>]
           N == {n \in Nat : \E h \in [SUBSET S -> V] : Upto(h, n)}
<1>1. \A t \in SUBSET S : IsFiniteSet(t) /\ Cardinality(t) \in Nat
  BY FS_Subset, FS_CardinalityType
<1>2. \A t \in SUBSET S : t # {} => Cardinality(t) # 0
  BY <1>1, FS_EmptySet
<1>3. 0 \in N
  <2> DEFINE h == [t \in SUBSET S |-> base]
  <2>1. h \in [SUBSET S -> V] /\ h[{}] = base
    OBVIOUS
  <2>2. \A t \in SUBSET S : t # {} => ~ (Cardinality(t) <= 0)
    BY <1>1, <1>2
  <2> QED
    BY <2>1, <2>2
<1>4. ASSUME NEW n \in Nat, n \in N PROVE n + 1 \in N
  <2>1. PICK h \in [SUBSET S -> V] : Upto(h, n)
    BY <1>4
  <2> DEFINE k == [t \in SUBSET S |-> IF Cardinality(t) = n + 1 THEN g[<<c[t], h[t \ {c[t]}]>>]
                                                              ELSE h[t]]
  <2>2. \A t \in SUBSET S : t # {} => <<c[t], h[t \ {c[t]}]>> \in S \X V
    OBVIOUS
  <2>3. Cardinality({}) = 0 /\ {} \in SUBSET S
    BY FS_EmptySet
  <2>4. \A t \in SUBSET S : Cardinality(t) = n + 1 => t # {}
    <3>1. n + 1 # 0
      OBVIOUS
    <3> QED
      BY ONLY <2>3, <3>1
  <2>5. k \in [SUBSET S -> V]
    BY <2>2, <2>4
  <2>6. k[{}] = base
    BY <2>1, <2>3
  <2>7. ASSUME NEW t \in SUBSET S, t # {}, Cardinality(t) <= n + 1
        PROVE  k[t] = g[<<c[t], k[t \ {c[t]}]>>]
    <3>1. Cardinality(t \ {c[t]}) = Cardinality(t) - 1 /\ t \ {c[t]} \in SUBSET S
      BY <1>1, <2>7, FS_RemoveElement
    <3>2. Cardinality(t) \in Nat
      BY <1>1
    <3>3. k[t \ {c[t]}] = h[t \ {c[t]}]
      BY <2>7, <3>1, <3>2
    <3>4. CASE Cardinality(t) = n + 1
      BY <3>3, <3>4
    <3>5. CASE Cardinality(t) # n + 1
      <4>1. Cardinality(t) <= n
        BY <2>7, <3>2, <3>5
      <4>2. h[t] = g[<<c[t], h[t \ {c[t]}]>>]
        BY <2>1, <2>7, <4>1
      <4> QED
        BY <3>3, <3>5, <4>2
    <3> QED
      BY <3>4, <3>5
  <2>8. Upto(k, n + 1)
    BY <2>6, <2>7
  <2>9. \E f \in [SUBSET S -> V] : Upto(f, n + 1)
    <3> HIDE DEF Upto, k
    <3> QED
      BY <2>5, <2>8
  <2>10. n + 1 \in Nat
    OBVIOUS
  <2> HIDE DEF Upto
  <2> QED
    BY <2>9, <2>10
<1>5. \A n \in Nat : n \in N
  <2>1. \A n \in Nat : n \in N => n + 1 \in N
    BY <1>4
  <2> HIDE DEF N
  <2> QED
    BY <1>3, <2>1, ByInduction
<1>6. PICK h \in [SUBSET S -> V] : Upto(h, Cardinality(S))
  BY <1>1, <1>5
<1>7. \A t \in SUBSET S : Cardinality(t) <= Cardinality(S)
  BY FS_Subset
<1>8. SetFold(h, S, V, c, base, g)
  BY <1>6, <1>7 DEF SetFold
<1> QED
  BY <1>8

\* The greatest of the first n numbers is n.
LEMMA GreatestOfFirst ==
    ASSUME NEW n \in Nat \ {0}
    PROVE  Max(1 .. n) = n /\ (1 .. n) \ {Max(1 .. n)} = 1 .. n - 1
<1>1. n \in 1 .. n /\ \A y \in 1 .. n : n >= y
  OBVIOUS
<1>2. \A x \in 1 .. n : (\A y \in 1 .. n : x >= y) => x = n
  OBVIOUS
<1>3. Max(1 .. n) = n
  BY <1>1, <1>2 DEF Max
<1> QED
  BY <1>3

\* A set of numbers up to n has a greatest, which is in it.
LEMMA GreatestIsIn ==
    ASSUME NEW n \in Nat, NEW t \in SUBSET (1 .. n), t # {}
    PROVE  Max(t) \in t
<1> DEFINE T == {n - x : x \in t}
<1>1. T \in SUBSET Nat /\ T # {}
  <2>1. \A x \in t : n - x \in Nat
    OBVIOUS
  <2> QED
    BY <2>1
<1>2. PICK z \in T : \A y \in T : z <= y
  <2> HIDE DEF T
  <2> QED
    BY <1>1, Least
<1>3. PICK x \in t : z = n - x
  BY <1>2
<1>4. \A y \in t : n - x <= n - y
  BY <1>2, <1>3
<1>5. \A y \in t : x >= y
  BY <1>4
<1> QED
  BY <1>5 DEF Max

\* The function FoldLeft recurs through, for a step g that stays in V.
LeftFold(h, n, s, V, base, g) ==
    /\ h \in [SUBSET (1 .. n) -> V]
    /\ \A t \in SUBSET (1 .. n) :
          h[t] = IF t = {} THEN base ELSE g[<<h[t \ {Max(t)}], s[Max(t)]>>]

\* What a left fold computes exists.
LEMMA FoldLeftExists ==
    ASSUME NEW n \in Nat, NEW D, NEW s \in [1 .. n -> D],
           NEW V, NEW base \in V, NEW g \in [V \X D -> V]
    PROVE  \E h : LeftFold(h, n, s, V, base, g)
<1> DEFINE S == 1 .. n
           c == [t \in SUBSET S |-> Max(t)]
           k == [p \in S \X V |-> g[<<p[2], s[p[1]]>>]]
<1>1. IsFiniteSet(S)
  BY FS_Interval
<1>2. \A t \in SUBSET S : t # {} => c[t] \in t
  BY GreatestIsIn
<1>3. k \in [S \X V -> V]
  OBVIOUS
<1>4. PICK h : SetFold(h, S, V, c, base, k)
  <2> HIDE DEF S, c, k
  <2> QED
    BY <1>1, <1>2, <1>3, FoldExists
<1>5. h \in [SUBSET S -> V] /\ h[{}] = base
  BY <1>4 DEF SetFold
<1>6. ASSUME NEW t \in SUBSET S, t # {}
      PROVE  h[t] = g[<<h[t \ {Max(t)}], s[Max(t)]>>]
  <2>1. c[t] = Max(t) /\ Max(t) \in S /\ h[t \ {Max(t)}] \in V
    BY <1>2, <1>5, <1>6
  <2>2. h[t] = k[<<Max(t), h[t \ {Max(t)}]>>]
    <3> HIDE DEF k, c
    <3> QED
      BY <1>4, <1>6, <2>1 DEF SetFold
  <2>3. <<Max(t), h[t \ {Max(t)}]>> \in S \X V
    BY <2>1
  <2>4. k[<<Max(t), h[t \ {Max(t)}]>>] = g[<<h[t \ {Max(t)}], s[Max(t)]>>]
    BY <2>3
  <2> HIDE DEF k
  <2> QED
    BY <2>2, <2>4
<1>7. LeftFold(h, n, s, V, base, g)
  BY <1>5, <1>6 DEF LeftFold
<1> QED
  BY <1>7

\* What FoldLeft computes is a run: it starts at base, and each element of the sequence
\* takes it one step of g further.
FoldRun(r, n, s, V, base, g) ==
    /\ r \in [0 .. n -> V]
    /\ r[0] = base
    /\ \A k \in 1 .. n : r[k] = g[<<r[k - 1], s[k]>>]

RunsTo(z, n, s, V, base, g) == \E r : FoldRun(r, n, s, V, base, g) /\ r[n] = z

\* A function on sets of positions that takes the greatest position last, by the step g as
\* long as it stays in V.
Recurs(i, n, s, V, base, g) ==
    /\ i[{}] = base
    /\ \A t \in SUBSET (1 .. n) : t # {} /\ i[t \ {Max(t)}] \in V =>
          i[t] = g[<<i[t \ {Max(t)}], s[Max(t)]>>]

\* Such a function ends where the run of its steps over the sequence ends.
LEMMA FoldLeftRuns ==
    ASSUME NEW n \in Nat, NEW D, NEW s \in [1 .. n -> D],
           NEW V, NEW base \in V, NEW g \in [V \X D -> V],
           NEW i, Recurs(i, n, s, V, base, g)
    PROVE  RunsTo(i[1 .. n], n, s, V, base, g)
<1> DEFINE r == [k \in 0 .. n |-> i[1 .. k]]
<1>1. r[0] = base
  <2>1. 1 .. 0 = {}
    OBVIOUS
  <2> QED
    BY <2>1 DEF Recurs
<1>2. ASSUME NEW k \in 1 .. n, r[k - 1] \in V
      PROVE  r[k] = g[<<r[k - 1], s[k]>>]
  <2>1. Max(1 .. k) = k /\ (1 .. k) \ {Max(1 .. k)} = 1 .. k - 1
    BY GreatestOfFirst
  <2>2. 1 .. k \in SUBSET (1 .. n) /\ 1 .. k # {}
    <3>1. 1 \in 1 .. k
      OBVIOUS
    <3>2. \A j \in 1 .. k : j \in 1 .. n
      OBVIOUS
    <3> QED
      BY <3>1, <3>2
  <2>3. r[k] = i[1 .. k] /\ r[k - 1] = i[1 .. k - 1]
    OBVIOUS
  <2> QED
    BY <1>2, <2>1, <2>2, <2>3 DEF Recurs
<1>3. \A k \in 0 .. n : r[k] \in V
  <2> DEFINE U == {k \in 0 .. n : r[k] \in V}
  <2>1. 0 \in U
    BY <1>1
  <2>2. ASSUME NEW k \in 0 .. n - 1, k \in U PROVE k + 1 \in U
    <3>1. r[(k + 1) - 1] \in V /\ k + 1 \in 1 .. n
      BY <2>2
    <3>2. r[k + 1] = g[<<r[(k + 1) - 1], s[k + 1]>>]
      BY <1>2, <3>1
    <3>3. r[k + 1] \in V
      BY <3>1, <3>2
    <3> QED
      BY <3>1, <3>3
  <2>3. \A k \in 0 .. n : k \in U
    <3> HIDE DEF U
    <3> QED
      BY <2>1, <2>2, ByInductionTo
  <2> QED
    BY <2>3
<1>4. FoldRun(r, n, s, V, base, g)
  <2>1. r \in [0 .. n -> V]
    BY <1>3
  <2>2. ASSUME NEW k \in 1 .. n PROVE r[k] = g[<<r[k - 1], s[k]>>]
    <3>1. k - 1 \in 0 .. n
      OBVIOUS
    <3> HIDE DEF r
    <3> QED
      BY <1>2, <1>3, <3>1
  <2> QED
    BY <1>1, <2>1, <2>2 DEF FoldRun
<1>5. r[n] = i[1 .. n]
  OBVIOUS
<1> QED
  BY <1>4, <1>5 DEF RunsTo

\* A sequence is another with one more element.
OneLonger(s, n, q, m) == m \in Nat /\ n = m + 1 /\ \A k \in 1 .. m : q[k] = s[k]

\* Two runs of the same step over the same elements pass the same places.
LEMMA RunExtends ==
    ASSUME NEW V, NEW base, NEW g, NEW s, NEW n, NEW q, NEW m, OneLonger(s, n, q, m),
           NEW z, RunsTo(z, n, s, V, base, g), NEW y, RunsTo(y, m, q, V, base, g)
    PROVE  z = g[<<y, s[n]>>] /\ z \in V /\ y \in V
<1> USE DEF OneLonger
<1>1. PICK r : FoldRun(r, n, s, V, base, g) /\ r[n] = z
  BY DEF RunsTo
<1>2. PICK p : FoldRun(p, m, q, V, base, g) /\ p[m] = y
  BY DEF RunsTo
<1> DEFINE U == {k \in 0 .. m : r[k] = p[k]}
<1>3. 0 \in U
  BY <1>1, <1>2 DEF FoldRun
<1>4. ASSUME NEW k \in 0 .. m - 1, k \in U PROVE k + 1 \in U
  <2>1. k + 1 \in 1 .. m /\ k + 1 \in 1 .. n /\ (k + 1) - 1 = k
    OBVIOUS
  <2>2. r[k + 1] = g[<<r[k], s[k + 1]>>]
    BY <1>1, <2>1 DEF FoldRun
  <2>3. p[k + 1] = g[<<p[k], q[k + 1]>>]
    BY <1>2, <2>1 DEF FoldRun
  <2> QED
    BY <1>4, <2>1, <2>2, <2>3
<1>5. m \in U
  <2>1. \A k \in 0 .. m : k \in U
    <3> HIDE DEF U
    <3> QED
      BY <1>3, <1>4, ByInductionTo
  <2> QED
    BY <2>1
<1>6. n \in 1 .. n /\ n \in 0 .. n /\ m \in 0 .. m /\ n - 1 = m
  OBVIOUS
<1> QED
  BY <1>1, <1>2, <1>5, <1>6 DEF FoldRun

\* A step has a run over any sequence.
LEMMA RunExists ==
    ASSUME NEW n \in Nat, NEW D, NEW s \in [1 .. n -> D],
           NEW V, NEW base \in V, NEW g \in [V \X D -> V]
    PROVE  \E r : FoldRun(r, n, s, V, base, g)
<1>1. PICK h : LeftFold(h, n, s, V, base, g)
  BY FoldLeftExists
<1>2. Recurs(h, n, s, V, base, g)
  BY <1>1 DEF LeftFold, Recurs
<1>3. RunsTo(h[1 .. n], n, s, V, base, g)
  BY ONLY <1>2, FoldLeftRuns, n \in Nat, s \in [1 .. n -> D], base \in V, g \in [V \X D -> V]
<1> QED
  BY <1>3 DEF RunsTo

\* Flattening joins one sequence after the other.
Joining(D) == [p \in Seq(D) \X Seq(D) |-> p[1] \o p[2]]

\* FlattenSeq is a run that joins one sequence after another.
LEMMA FlattenRuns ==
    ASSUME NEW D, NEW seqs \in Seq(Seq(D))
    PROVE  RunsTo(FlattenSeq(seqs), Len(seqs), seqs, Seq(D), <<>>, Joining(D))
<1> DEFINE n == Len(seqs)
           F(i) == [k \in 1 .. n |-> IF k = 1 THEN seqs[k] ELSE i[k - 1] \o seqs[k]]
           flatten == CHOOSE i : i = F(i)
<1>1. n \in Nat /\ seqs \in [1 .. n -> Seq(D)] /\ <<>> \in Seq(D)
  OBVIOUS
<1>2. Joining(D) \in [Seq(D) \X Seq(D) -> Seq(D)]
  BY DEF Joining
<1>3. PICK r : FoldRun(r, n, seqs, Seq(D), <<>>, Joining(D))
  <2> HIDE DEF n
  <2> QED
    BY ONLY <1>1, <1>2, RunExists
<1>4. r \in [0 .. n -> Seq(D)] /\ r[0] = <<>>
  BY <1>3 DEF FoldRun
<1>5. ASSUME NEW k \in 1 .. n PROVE r[k] = r[k - 1] \o seqs[k]
  <2>1. r[k] = Joining(D)[<<r[k - 1], seqs[k]>>]
    BY <1>3 DEF FoldRun
  <2>2. r[k - 1] \in Seq(D) /\ seqs[k] \in Seq(D)
    <3>1. k - 1 \in 0 .. n
      BY <1>1
    <3> QED
      BY <1>1, <1>4, <3>1
  <2> QED
    BY <2>1, <2>2 DEF Joining
<1>6. n # 0 => r[1] = seqs[1]
  <2> SUFFICES ASSUME n # 0 PROVE r[1] = seqs[1]
    OBVIOUS
  <2>1. 1 \in 1 .. n /\ 1 - 1 = 0
    BY <1>1
  <2>2. r[1] = <<>> \o seqs[1] /\ seqs[1] \in Seq(D)
    BY <1>1, <1>4, <1>5, <2>1
  <2> QED
    BY <2>2
<1>7. FlattenSeq(seqs) = IF n = 0 THEN seqs ELSE flatten[n]
  BY DEF FlattenSeq
<1> HIDE DEF n
<1>8. flatten = F(flatten)
  <2> DEFINE k == [j \in 1 .. n |-> r[j]]
  <2>1. k = F(k)
    <3>1. ASSUME NEW j \in 1 .. n PROVE k[j] = IF j = 1 THEN seqs[j] ELSE k[j - 1] \o seqs[j]
      <4>1. CASE j = 1
        BY <1>1, <1>6, <4>1
      <4>2. CASE j # 1
        <5>1. j - 1 \in 1 .. n
          BY <1>1, <4>2
        <5> QED
          BY <1>5, <4>2, <5>1
      <4> QED
        BY <4>1, <4>2
    <3> QED
      BY <3>1
  <2> HIDE DEF k
  <2> QED
    BY <2>1
<1> HIDE DEF flatten
<1> DEFINE U == {k \in 0 .. n : k # 0 => flatten[k] = r[k]}
<1>9. 0 \in U
  BY <1>1
<1>10. ASSUME NEW k \in 0 .. n - 1, k \in U PROVE k + 1 \in U
  <2>1. k + 1 \in 1 .. n /\ (k + 1) - 1 = k /\ k + 1 \in 0 .. n
    BY <1>1
  <2>2. flatten[k + 1] = IF k + 1 = 1 THEN seqs[k + 1] ELSE flatten[k] \o seqs[k + 1]
    BY <1>8, <2>1
  <2>3. r[k + 1] = r[k] \o seqs[k + 1]
    BY <1>5, <2>1
  <2>4. CASE k = 0
    <3>1. n # 0
      BY <2>1, <2>4
    <3> QED
      BY <1>6, <2>1, <2>2, <2>4, <3>1
  <2>5. CASE k # 0
    <3>1. k + 1 # 1 /\ flatten[k] = r[k]
      BY <1>10, <2>5
    <3> QED
      BY <2>1, <2>2, <2>3, <3>1
  <2> QED
    BY <2>4, <2>5
<1>11. n \in U
  <2>1. \A k \in 0 .. n : k \in U
    <3> HIDE DEF U
    <3> QED
      BY <1>1, <1>9, <1>10, ByInductionTo
  <2> QED
    BY <1>1, <2>1
<1>12. FlattenSeq(seqs) = r[n]
  <2>1. CASE n = 0
    <3>1. seqs = <<>>
      BY <1>1, <2>1 DEF n
    <3> QED
      BY <1>4, <1>7, <2>1, <3>1
  <2>2. CASE n # 0
    BY <1>7, <1>11, <2>2
  <2> QED
    BY <2>1, <2>2
<1>13. RunsTo(FlattenSeq(seqs), n, seqs, Seq(D), <<>>, Joining(D))
  BY <1>3, <1>12 DEF RunsTo
<1> QED
  BY <1>13 DEF n

\* One more part is joined at the end.
LEMMA FlattenAppends ==
    ASSUME NEW D, NEW seqs \in Seq(Seq(D)), NEW part \in Seq(D)
    PROVE  /\ FlattenSeq(seqs) \in Seq(D)
           /\ FlattenSeq(Append(seqs, part)) = FlattenSeq(seqs) \o part
<1> DEFINE long == Append(seqs, part)
           m == Len(seqs)
           n == Len(long)
<1>1. /\ long \in Seq(Seq(D)) /\ m \in Nat /\ n = m + 1
      /\ long[n] = part /\ \A k \in 1 .. m : seqs[k] = long[k]
  OBVIOUS
<1>2. RunsTo(FlattenSeq(long), n, long, Seq(D), <<>>, Joining(D))
  BY <1>1, FlattenRuns
<1>3. RunsTo(FlattenSeq(seqs), m, seqs, Seq(D), <<>>, Joining(D))
  BY <1>1, FlattenRuns
<1> HIDE DEF long, m, n
<1>4. FlattenSeq(long) = Joining(D)[<<FlattenSeq(seqs), long[n]>>] /\ FlattenSeq(seqs) \in Seq(D)
  <2> DEFINE V == Seq(D)
             base == <<>>
             g == Joining(D)
             z == FlattenSeq(long)
             y == FlattenSeq(seqs)
  <2>1. RunsTo(z, n, long, V, base, g) /\ RunsTo(y, m, seqs, V, base, g)
    BY <1>2, <1>3
  <2>2. OneLonger(long, n, seqs, m)
    BY <1>1 DEF OneLonger
  <2> HIDE DEF V, base, g, z, y
  <2>3. z = g[<<y, long[n]>>] /\ y \in V
    BY ONLY <2>1, <2>2, RunExtends
  <2> QED
    BY <2>3 DEF V, g, z, y
<1> QED
  BY <1>1, <1>4 DEF Joining, long

----------------------------------------------------------------------------
(* Sequences without repetition, and the sets of their elements.           *)

\* Appending adds an element.
LEMMA AppendAdds ==
    ASSUME NEW D, NEW q \in Seq(D), NEW x \in D
    PROVE  /\ Append(q, x) \in Seq(D)
           /\ ToSet(Append(q, x)) = ToSet(q) \cup {x}
           /\ IsInjective(q) /\ x \notin ToSet(q) => IsInjective(Append(q, x))
<1> DEFINE z == Append(q, x)
<1>1. z \in Seq(D) /\ DOMAIN z = 1 .. Len(q) + 1 /\ DOMAIN q = 1 .. Len(q) /\ Len(q) \in Nat
  OBVIOUS
<1>2. \A i \in 1 .. Len(q) + 1 : z[i] = IF i = Len(q) + 1 THEN x ELSE q[i]
  OBVIOUS
<1>3. \A i \in 1 .. Len(q) + 1 : i = Len(q) + 1 \/ i \in 1 .. Len(q)
  BY <1>1
<1>4. \A i \in 1 .. Len(q) : i \in 1 .. Len(q) + 1 /\ i # Len(q) + 1
  BY <1>1
<1>5. Len(q) + 1 \in 1 .. Len(q) + 1
  BY <1>1
<1> HIDE DEF z
<1>6. ToSet(z) = ToSet(q) \cup {x}
  BY <1>1, <1>2, <1>3, <1>4, <1>5 DEF ToSet
<1>7. IsInjective(q) /\ x \notin ToSet(q) => IsInjective(z)
  BY <1>1, <1>2, <1>3, <1>4 DEF ToSet, IsInjective
<1> QED
  BY <1>1, <1>6, <1>7 DEF z

\* Joining adds the elements of both.
LEMMA ConcatAdds ==
    ASSUME NEW D, NEW q \in Seq(D), NEW r \in Seq(D)
    PROVE  /\ q \o r \in Seq(D) /\ Len(q \o r) = Len(q) + Len(r)
           /\ ToSet(q \o r) = ToSet(q) \cup ToSet(r)
           /\ IsInjective(q) /\ IsInjective(r) /\ ToSet(q) \cap ToSet(r) = {} => IsInjective(q \o r)
<1> DEFINE z == q \o r
           m == Len(q)
           n == Len(r)
<1>1. /\ z \in Seq(D) /\ Len(z) = m + n /\ DOMAIN z = 1 .. m + n
      /\ DOMAIN q = 1 .. m /\ DOMAIN r = 1 .. n /\ m \in Nat /\ n \in Nat
  OBVIOUS
<1>2. \A i \in 1 .. m + n : z[i] = IF i <= m THEN q[i] ELSE r[i - m]
  OBVIOUS
<1> HIDE DEF z, m, n
<1>3. \A i \in 1 .. m + n : IF i <= m THEN i \in 1 .. m ELSE i - m \in 1 .. n
  BY <1>1
<1>4. \A i \in 1 .. m : i \in 1 .. m + n /\ i <= m
  BY <1>1
<1>5. \A i \in 1 .. n : i + m \in 1 .. m + n /\ ~ (i + m <= m) /\ (i + m) - m = i
  BY <1>1
<1>6. ToSet(z) = ToSet(q) \cup ToSet(r)
  <2>1. ToSet(z) \subseteq ToSet(q) \cup ToSet(r)
    BY <1>1, <1>2, <1>3 DEF ToSet
  <2>2. ToSet(q) \subseteq ToSet(z)
    BY <1>1, <1>2, <1>4 DEF ToSet
  <2>3. ToSet(r) \subseteq ToSet(z)
    <3> SUFFICES ASSUME NEW j \in 1 .. n PROVE r[j] \in ToSet(z)
      BY <1>1 DEF ToSet
    <3>1. z[j + m] = r[j] /\ j + m \in DOMAIN z
      BY <1>1, <1>2, <1>5
    <3> QED
      BY <3>1 DEF ToSet
  <2> QED
    BY <2>1, <2>2, <2>3
<1>7. ASSUME IsInjective(q), IsInjective(r), ToSet(q) \cap ToSet(r) = {} PROVE IsInjective(z)
  <2> SUFFICES ASSUME NEW i \in 1 .. m + n, NEW j \in 1 .. m + n, z[i] = z[j] PROVE i = j
    BY <1>1 DEF IsInjective
  <2>1. \A a \in 1 .. m, b \in 1 .. n : q[a] # r[b]
    BY <1>1, <1>7 DEF ToSet
  <2>2. CASE i <= m /\ j <= m
    BY <1>1, <1>2, <1>3, <1>7, <2>2 DEF IsInjective
  <2>3. CASE ~ (i <= m) /\ ~ (j <= m)
    <3>1. i - m \in 1 .. n /\ j - m \in 1 .. n /\ r[i - m] = r[j - m]
      BY <1>2, <1>3, <2>3
    <3>2. i - m = j - m
      BY <1>1, <1>7, <3>1 DEF IsInjective
    <3> QED
      BY <1>1, <3>2
  <2>4. CASE i <= m /\ ~ (j <= m)
    BY <1>2, <1>3, <2>1, <2>4
  <2>5. CASE ~ (i <= m) /\ j <= m
    BY <1>2, <1>3, <2>1, <2>5
  <2> QED
    BY <2>2, <2>3, <2>4, <2>5
<1> QED
  BY <1>1, <1>6, <1>7 DEF z, m, n

\* A sequence without repetition has as many places as elements.
LEMMA InjectiveCounts ==
    ASSUME NEW D, NEW q \in Seq(D), IsInjective(q)
    PROVE  IsFiniteSet(ToSet(q)) /\ Cardinality(ToSet(q)) = Len(q)
<1>1. q \in [1 .. Len(q) -> ToSet(q)] /\ Len(q) \in Nat
  BY DEF ToSet
<1>2. q \in Surjection(1 .. Len(q), ToSet(q))
  BY <1>1 DEF Surjection, ToSet
<1>3. q \in Injection(1 .. Len(q), ToSet(q))
  BY <1>1 DEF Injection
<1>4. IsFiniteSet(1 .. Len(q)) /\ Cardinality(1 .. Len(q)) = Len(q)
  <2>1. \A n \in Nat : IsFiniteSet(1 .. n) /\ Cardinality(1 .. n) = n
    BY FS_Interval
  <2> QED
    BY <1>1, <2>1
<1> QED
  BY <1>2, <1>3, <1>4, FS_Surjection

\* The step that drops what is in A and keeps the rest, in order.
Dropping(D, A) == [p \in Seq(D) \X D |-> IF p[2] \in A THEN p[1] ELSE Append(p[1], p[2])]

\* Dropping is a step on sequences of D.
LEMMA DroppingFits ==
    ASSUME NEW D, NEW A
    PROVE  Dropping(D, A) \in [Seq(D) \X D -> Seq(D)]
  BY DEF Dropping

\* It leaves out the elements of A.
LEMMA DroppingStep ==
    ASSUME NEW D, NEW A, NEW q \in Seq(D), NEW x \in D
    PROVE  Dropping(D, A)[<<q, x>>] = IF x \in A THEN q ELSE Append(q, x)
  BY DEF Dropping

\* A run of it ends with what is not in A, without repetition where there was none.
LEMMA WhatIsLeft ==
    ASSUME NEW D, NEW A, NEW n \in Nat, NEW s \in [1 .. n -> D], NEW z,
           RunsTo(z, n, s, Seq(D), <<>>, Dropping(D, A))
    PROVE  /\ z \in Seq(D)
           /\ ToSet(z) = {s[i] : i \in 1 .. n} \ A
           /\ IsInjective(s) => IsInjective(z)
<1>1. PICK r : FoldRun(r, n, s, Seq(D), <<>>, Dropping(D, A)) /\ r[n] = z
  BY DEF RunsTo
<1> DEFINE Sofar(k) == {s[i] : i \in 1 .. k}
           Left(k) == /\ ToSet(r[k]) = Sofar(k) \ A
                      /\ IsInjective(s) => IsInjective(r[k])
           U == {k \in 0 .. n : Left(k)}
<1>2. r \in [0 .. n -> Seq(D)] /\ r[0] = <<>>
  BY <1>1 DEF FoldRun
<1>3. 0 \in U
  <2>1. Sofar(0) = {}
    OBVIOUS
  <2>2. ToSet(r[0]) = {} /\ IsInjective(r[0])
    BY <1>2 DEF ToSet, IsInjective
  <2> QED
    BY <2>1, <2>2
<1>4. ASSUME NEW k \in 0 .. n - 1, k \in U PROVE k + 1 \in U
  <2>1. k + 1 \in 1 .. n /\ (k + 1) - 1 = k /\ k \in 0 .. n
    OBVIOUS
  <2>2. s[k + 1] \in D /\ r[k] \in Seq(D)
    BY <1>2, <2>1
  <2>3. r[k + 1] = Dropping(D, A)[<<r[k], s[k + 1]>>]
    BY <1>1, <2>1 DEF FoldRun
  <2>4. r[k + 1] = IF s[k + 1] \in A THEN r[k] ELSE Append(r[k], s[k + 1])
    BY <2>2, <2>3, DroppingStep
  <2>5. Sofar(k + 1) = Sofar(k) \cup {s[k + 1]}
    <3>1. \A i \in 1 .. k + 1 : i = k + 1 \/ i \in 1 .. k
      OBVIOUS
    <3>2. \A i \in 1 .. k : i \in 1 .. k + 1
      OBVIOUS
    <3>3. k + 1 \in 1 .. k + 1
      OBVIOUS
    <3> QED
      BY ONLY <3>1, <3>2, <3>3
  <2>6. IsInjective(s) => s[k + 1] \notin Sofar(k)
    <3>1. \A i \in 1 .. k : i \in 1 .. n /\ i # k + 1
      OBVIOUS
    <3> QED
      BY <2>1, <3>1 DEF IsInjective
  <2>7. Left(k)
    BY <1>4
  <2> HIDE DEF Sofar
  <2>8. CASE s[k + 1] \in A
    BY <2>1, <2>4, <2>5, <2>7, <2>8
  <2>9. CASE s[k + 1] \notin A
    <3>1. /\ ToSet(r[k + 1]) = ToSet(r[k]) \cup {s[k + 1]}
          /\ IsInjective(r[k]) /\ s[k + 1] \notin ToSet(r[k]) => IsInjective(r[k + 1])
      BY <2>2, <2>4, <2>9, AppendAdds
    <3> QED
      BY <2>1, <2>5, <2>6, <2>7, <2>9, <3>1
  <2> QED
    BY <2>8, <2>9
<1>5. \A k \in 0 .. n : k \in U
  <2> HIDE DEF U
  <2> QED
    BY <1>3, <1>4, ByInductionTo
<1>6. Left(n)
  BY <1>5
<1> QED
  BY <1>1, <1>2, <1>6

----------------------------------------------------------------------------
(* Sums: an element may be taken out anywhere.                             *)

\* The element a sum takes out first.
Picked(t) == CHOOSE x \in t : TRUE

\* The partial sums of a finite set, of numbers only.
SumTable(h, f, S) ==
    /\ h \in [SUBSET S -> Nat]
    /\ h[{}] = 0
    /\ \A t \in SUBSET S : t # {} => h[t] = f[Picked(t)] + h[t \ {Picked(t)}]

Summable(f, S) == IsFiniteSet(S) /\ \A x \in S : f[x] \in Nat

\* The table of the sums of all subsets exists.
LEMMA SumTableExists ==
    ASSUME NEW S, NEW f, Summable(f, S)
    PROVE  \E h : SumTable(h, f, S)
<1> DEFINE c == [t \in SUBSET S |-> Picked(t)]
           g == [p \in S \X Nat |-> f[p[1]] + p[2]]
<1>1. \A t \in SUBSET S : t # {} => c[t] \in t /\ c[t] = Picked(t)
  BY DEF Picked
<1>2. g \in [S \X Nat -> Nat] /\ \A x \in S, n \in Nat : g[<<x, n>>] = f[x] + n
  BY DEF Summable
<1>3. IsFiniteSet(S) /\ 0 \in Nat
  BY DEF Summable
<1> HIDE DEF c, g
<1>4. PICK h : SetFold(h, S, Nat, c, 0, g)
  BY ONLY <1>1, <1>2, <1>3, FoldExists
<1>5. h \in [SUBSET S -> Nat] /\ h[{}] = 0
  BY <1>4 DEF SetFold
<1>6. ASSUME NEW t \in SUBSET S, t # {} PROVE h[t] = f[Picked(t)] + h[t \ {Picked(t)}]
  <2>1. h[t] = g[<<c[t], h[t \ {c[t]}]>>]
    BY <1>4, <1>6 DEF SetFold
  <2>2. c[t] \in S /\ h[t \ {c[t]}] \in Nat /\ c[t] = Picked(t)
    BY <1>1, <1>5, <1>6
  <2> QED
    BY <1>2, <2>1, <2>2
<1> QED
  BY <1>5, <1>6 DEF SumTable

\* What SumFunctionOnSet computes is in the table.
LEMMA SumIsInTable ==
    ASSUME NEW S, NEW f, NEW h, IsFiniteSet(S), SumTable(h, f, S)
    PROVE  SumFunctionOnSet(f, S) = h[S]
<1> DEFINE F(i) == [t \in SUBSET S |-> IF t = {} THEN 0 ELSE f[Picked(t)] + i[t \ {Picked(t)}]]
           iter == CHOOSE i : i = F(i)
           c == [t \in SUBSET S |-> Picked(t)]
           P == {t \in SUBSET S : iter[t] = h[t]}
<1>1. SumFunctionOnSet(f, S) = iter[S]
  BY DEF SumFunctionOnSet, FoldFunctionOnSet, MapThenFoldSet, Picked
<1>2. iter = F(iter)
  <2>1. h = F(h)
    BY DEF SumTable
  <2> QED
    BY <2>1
<1>3. {} \in P
  <2> HIDE DEF iter
  <2> QED
    BY <1>2 DEF SumTable
<1>4. ASSUME NEW t \in SUBSET S, t # {}
      PROVE  c[t] \in t /\ (t \ {c[t]} \in P => t \in P)
  <2> DEFINE z == Picked(t)
  <2>1. c[t] = z /\ z \in t
    BY <1>4 DEF Picked
  <2> HIDE DEF iter, c
  <2>2. iter[t] = f[z] + iter[t \ {z}]
    BY <1>2, <1>4
  <2>3. h[t] = f[z] + h[t \ {z}]
    BY <1>4 DEF SumTable
  <2> HIDE DEF z
  <2>4. iter[t \ {z}] = h[t \ {z}] => iter[t] = h[t]
    BY ONLY <2>2, <2>3
  <2> QED
    BY <2>1, <2>4
<1>5. \A t \in SUBSET S : t \in P
  <2> HIDE DEF P, c
  <2>1. \A t \in SUBSET S : t # {} => c[t] \in t /\ (t \ {c[t]} \in P => t \in P)
    BY <1>4
  <2>2. IsFiniteSet(S)
    OBVIOUS
  <2> QED
    BY ONLY <1>3, <2>1, <2>2, SetInduction
<1>6. S \in P
  BY <1>5
<1> QED
  BY <1>1, <1>6

\* One table holds the sums of all the subsets.
LEMMA SumsAreInTable ==
    ASSUME NEW S, NEW f, NEW h, IsFiniteSet(S), SumTable(h, f, S), NEW T \in SUBSET S
    PROVE  SumFunctionOnSet(f, T) = h[T]
<1> DEFINE k == [t \in SUBSET T |-> h[t]]
<1>1. SumTable(k, f, T)
  <2>1. k \in [SUBSET T -> Nat] /\ k[{}] = 0
    BY DEF SumTable
  <2>2. ASSUME NEW t \in SUBSET T, t # {} PROVE k[t] = f[Picked(t)] + k[t \ {Picked(t)}]
    BY <2>2 DEF SumTable
  <2> QED
    BY <2>1, <2>2 DEF SumTable
<1>2. IsFiniteSet(T)
  BY FS_Subset
<1>3. k[T] = h[T]
  OBVIOUS
<1> HIDE DEF k
<1> QED
  BY <1>1, <1>2, <1>3, SumIsInTable

\* The sum over nothing is zero.
LEMMA SumOfNone == ASSUME NEW f PROVE SumFunctionOnSet(f, {}) = 0
<1>1. Summable(f, {})
  BY FS_EmptySet DEF Summable
<1>2. PICK h : SumTable(h, f, {})
  BY <1>1, SumTableExists
<1> QED
  BY <1>1, <1>2, SumIsInTable DEF SumTable, Summable

\* Any element may be taken out first.
LEMMA SumTakes ==
    ASSUME NEW S, NEW f, Summable(f, S), NEW x \in S
    PROVE  /\ SumFunctionOnSet(f, S) \in Nat /\ SumFunctionOnSet(f, S \ {x}) \in Nat
           /\ SumFunctionOnSet(f, S) = f[x] + SumFunctionOnSet(f, S \ {x})
<1>1. PICK h : SumTable(h, f, S)
  BY SumTableExists
<1>2. IsFiniteSet(S) /\ \A y \in S : f[y] \in Nat
  BY DEF Summable
<1>3. h \in [SUBSET S -> Nat]
  BY <1>1 DEF SumTable
<1> DEFINE TakesAny(t) == \A y \in t : h[t] = f[y] + h[t \ {y}]
           c == [t \in SUBSET S |-> Picked(t)]
           P == {t \in SUBSET S : TakesAny(t)}
           N == {n \in Nat : \A t \in SUBSET S : Cardinality(t) = n => TakesAny(t)}
<1>4. \A t \in SUBSET S : IsFiniteSet(t) /\ Cardinality(t) \in Nat
  BY <1>2, FS_Subset, FS_CardinalityType
<1>5. 0 \in N
  BY <1>4, FS_EmptySet
<1>6. ASSUME NEW n \in Nat, n \in N, NEW t \in SUBSET S, Cardinality(t) = n + 1, NEW y \in t
      PROVE  h[t] = f[y] + h[t \ {y}]
  <2> DEFINE z == Picked(t)
  <2>1. z \in t
    BY DEF Picked
  <2>2. h[t] = f[z] + h[t \ {z}]
    BY <1>1 DEF SumTable
  <2> HIDE DEF z
  <2>3. CASE z = y
    BY <2>2, <2>3
  <2>4. CASE z # y
    <3>1. /\ Cardinality(t \ {z}) = n /\ Cardinality(t \ {y}) = n
          /\ t \ {z} \in SUBSET S /\ t \ {y} \in SUBSET S
      <4>1. IsFiniteSet(t) /\ \A any \in t : Cardinality(t \ {any}) = Cardinality(t) - 1
        BY <1>4, FS_RemoveElement
      <4>2. Cardinality(t \ {z}) = (n + 1) - 1 /\ Cardinality(t \ {y}) = (n + 1) - 1
        BY <1>6, <2>1, <4>1
      <4> QED
        BY <4>2
    <3>2. h[t \ {z}] = f[y] + h[(t \ {z}) \ {y}]
      BY <1>6, <2>4, <3>1
    <3>3. h[t \ {y}] = f[z] + h[(t \ {y}) \ {z}]
      BY <1>6, <2>1, <2>4, <3>1
    <3>4. (t \ {z}) \ {y} = (t \ {y}) \ {z} /\ (t \ {y}) \ {z} \in SUBSET S
      OBVIOUS
    <3>5. f[y] \in Nat /\ f[z] \in Nat /\ h[(t \ {y}) \ {z}] \in Nat
      BY <1>2, <1>3, <2>1, <3>4
    <3> DEFINE rest == h[(t \ {y}) \ {z}]
    <3>6. h[t \ {z}] = f[y] + rest /\ h[t \ {y}] = f[z] + rest /\ rest \in Nat
      BY <3>2, <3>3, <3>4, <3>5
    <3> HIDE DEF rest
    <3>7. f[z] + (f[y] + rest) = f[y] + (f[z] + rest)
      BY ONLY <3>5, <3>6
    <3> QED
      BY ONLY <2>2, <3>6, <3>7
  <2> QED
    BY <2>3, <2>4
<1>7. \A n \in Nat : n \in N
  <2>1. ASSUME NEW n \in Nat, n \in N PROVE n + 1 \in N
    <3>1. \A t \in SUBSET S : Cardinality(t) = n + 1 => TakesAny(t)
      BY <1>6, <2>1
    <3> HIDE DEF TakesAny
    <3> QED
      BY <3>1
  <2> HIDE DEF N
  <2> QED
    BY <1>5, <2>1, ByInduction
<1>8. h[S] = f[x] + h[S \ {x}]
  BY <1>4, <1>7
<1>9. SumFunctionOnSet(f, S) = h[S] /\ SumFunctionOnSet(f, S \ {x}) = h[S \ {x}]
  BY <1>1, <1>2, SumsAreInTable
<1> QED
  BY <1>3, <1>8, <1>9

\* A sum of natural numbers is one.
LEMMA SumIsNat ==
    ASSUME NEW S, NEW f, Summable(f, S)
    PROVE  SumFunctionOnSet(f, S) \in Nat
<1>1. CASE S = {}
  BY <1>1, SumOfNone
<1>2. CASE S # {}
  BY <1>2, SumTakes
<1> QED
  BY <1>1, <1>2

Onto(m, S) == {m[x] : x \in S}
OneToOne(m, S) == \A x, y \in S : m[x] = m[y] => x = y
Meets(g, m, f, S) == \A x \in S : g[m[x]] = f[x]

\* Sums that meet element by element are equal: m takes one to the other.
LEMMA SumMoves ==
    ASSUME NEW S, NEW f, Summable(f, S), NEW g, NEW m, OneToOne(m, S), Meets(g, m, f, S)
    PROVE  SumFunctionOnSet(g, Onto(m, S)) = SumFunctionOnSet(f, S)
<1> DEFINE To(t) == Onto(m, t)
           c == [t \in SUBSET S |-> Picked(t)]
           P == {t \in SUBSET S : SumFunctionOnSet(g, To(t)) = SumFunctionOnSet(f, t)}
<1>1. {} \in P
  <2>1. To({}) = {}
    BY DEF Onto
  <2> QED
    BY <2>1, SumOfNone
<1>2. IsFiniteSet(S) /\ \A x \in S : f[x] \in Nat
  BY DEF Summable
<1>3. ASSUME NEW t \in SUBSET S, t # {}
      PROVE  c[t] \in t /\ (t \ {c[t]} \in P => t \in P)
  <2> DEFINE z == c[t]
  <2>1. z \in t
    BY <1>3 DEF Picked
  <2> HIDE DEF c, z
  <2>2. Summable(f, t) /\ IsFiniteSet(t)
    BY <1>2, FS_Subset DEF Summable
  <2>3. Summable(g, To(t))
    <3>1. \A y \in To(t) : g[y] \in Nat
      BY <1>2 DEF Onto, Meets
    <3>2. IsFiniteSet(To(t))
      <4> DEFINE mt == [x \in t |-> m[x]]
      <4>1. mt \in Surjection(t, To(t))
        BY DEF Surjection, Onto
      <4> HIDE DEF mt, To
      <4> QED
        BY <2>2, <4>1, FS_Surjection
    <3> QED
      BY <3>1, <3>2 DEF Summable
  <2>4. m[z] \in To(t) /\ To(t) \ {m[z]} = To(t \ {z})
    BY <2>1 DEF Onto, OneToOne
  <2>5. SumFunctionOnSet(f, t) = f[z] + SumFunctionOnSet(f, t \ {z})
    BY <2>1, <2>2, SumTakes
  <2>6. SumFunctionOnSet(g, To(t)) = g[m[z]] + SumFunctionOnSet(g, To(t) \ {m[z]})
    <3> HIDE DEF To
    <3> QED
      BY <2>3, <2>4, SumTakes
  <2>7. t \ {z} \in P => t \in P
    <3>1. g[m[z]] = f[z]
      BY <2>1 DEF Meets
    <3> HIDE DEF To
    <3> QED
      BY <2>4, <2>5, <2>6, <3>1
  <2> QED
    BY <2>1, <2>7 DEF z
<1>4. \A t \in SUBSET S : t \in P
  <2> HIDE DEF P, c
  <2>1. \A t \in SUBSET S : t # {} => c[t] \in t /\ (t \ {c[t]} \in P => t \in P)
    BY <1>3
  <2>2. IsFiniteSet(S)
    BY <1>2
  <2> QED
    BY ONLY <1>1, <2>1, <2>2, SetInduction
<1> QED
  BY <1>4

\* Functions that agree on a set have the same sum there.
LEMMA SumAgrees ==
    ASSUME NEW S, NEW f, Summable(f, S), NEW g, \A x \in S : g[x] = f[x]
    PROVE  SumFunctionOnSet(g, S) = SumFunctionOnSet(f, S)
<1> DEFINE m == [x \in S |-> x]
<1>1. OneToOne(m, S) /\ Meets(g, m, f, S) /\ Onto(m, S) = S
  BY DEF OneToOne, Meets, Onto
<1> HIDE DEF m
<1> QED
  BY <1>1, SumMoves

\* Disjoint sets' sums add up.
LEMMA SumJoins ==
    ASSUME NEW S, NEW T, NEW f, Summable(f, S), Summable(f, T), S \cap T = {}
    PROVE  SumFunctionOnSet(f, S \cup T) = SumFunctionOnSet(f, S) + SumFunctionOnSet(f, T)
<1> DEFINE c == [t \in SUBSET S |-> Picked(t)]
           P == {t \in SUBSET S :
                    SumFunctionOnSet(f, t \cup T) = SumFunctionOnSet(f, t) + SumFunctionOnSet(f, T)}
<1>1. {} \in P
  <2>1. {} \cup T = T
    OBVIOUS
  <2>2. SumFunctionOnSet(f, T) \in Nat
    BY SumIsNat
  <2> QED
    BY <2>1, <2>2, SumOfNone
<1>2. IsFiniteSet(S) /\ IsFiniteSet(T) /\ \A x \in S \cup T : f[x] \in Nat
  BY DEF Summable
<1>3. ASSUME NEW t \in SUBSET S, t # {}
      PROVE  c[t] \in t /\ (t \ {c[t]} \in P => t \in P)
  <2> DEFINE z == c[t]
  <2>1. z \in t
    BY <1>3 DEF Picked
  <2> HIDE DEF c, z
  <2>2. Summable(f, t)
    BY <1>2, FS_Subset DEF Summable
  <2>3. Summable(f, t \cup T)
    BY <1>2, <2>2, FS_Union DEF Summable
  <2>4. (t \cup T) \ {z} = (t \ {z}) \cup T
    BY <2>1
  <2>5. /\ SumFunctionOnSet(f, t) = f[z] + SumFunctionOnSet(f, t \ {z})
        /\ SumFunctionOnSet(f, t \ {z}) \in Nat
    BY <2>1, <2>2, SumTakes
  <2>6. SumFunctionOnSet(f, t \cup T) = f[z] + SumFunctionOnSet(f, (t \cup T) \ {z})
    BY <2>1, <2>3, SumTakes
  <2>7. SumFunctionOnSet(f, T) \in Nat /\ f[z] \in Nat
    BY <1>2, <2>1, SumIsNat
  <2>8. ASSUME t \ {z} \in P PROVE t \in P
    <3>1. SumFunctionOnSet(f, (t \ {z}) \cup T)
            = SumFunctionOnSet(f, t \ {z}) + SumFunctionOnSet(f, T)
      BY <2>8
    <3> DEFINE a == SumFunctionOnSet(f, t \ {z})
               b == SumFunctionOnSet(f, T)
    <3>2. /\ SumFunctionOnSet(f, t \cup T) = f[z] + (a + b)
          /\ SumFunctionOnSet(f, t) = f[z] + a /\ a \in Nat /\ b \in Nat /\ f[z] \in Nat
      BY <2>4, <2>5, <2>6, <2>7, <3>1
    <3> HIDE DEF a, b
    <3>3. f[z] + (a + b) = (f[z] + a) + b
      BY ONLY <3>2
    <3>4. SumFunctionOnSet(f, t \cup T) = SumFunctionOnSet(f, t) + b
      BY ONLY <3>2, <3>3
    <3> QED
      BY <3>4 DEF b
  <2> QED
    BY <2>1, <2>8 DEF z
<1>4. \A t \in SUBSET S : t \in P
  <2> HIDE DEF P, c
  <2>1. \A t \in SUBSET S : t # {} => c[t] \in t /\ (t \ {c[t]} \in P => t \in P)
    BY <1>3
  <2>2. IsFiniteSet(S)
    BY <1>2
  <2> QED
    BY ONLY <1>1, <2>1, <2>2, SetInduction
<1> QED
  BY <1>4

\* The sum of one more number.
LEMMA SumGrows ==
    ASSUME NEW n \in Nat \ {0}, NEW f, NEW g, f \in [1 .. n -> Nat], g \in [1 .. n - 1 -> Nat],
           \A i \in 1 .. n - 1 : g[i] = f[i]
    PROVE  SumFunction(f) = SumFunction(g) + f[n] /\ SumFunction(g) \in Nat
<1>1. SumFunction(f) = SumFunctionOnSet(f, 1 .. n) /\ SumFunction(g) = SumFunctionOnSet(g, 1 .. n - 1)
  BY DEF SumFunction
<1>2. IsFiniteSet(1 .. n) /\ IsFiniteSet(1 .. n - 1)
  BY FS_Interval
<1>3. Summable(f, 1 .. n) /\ Summable(f, 1 .. n - 1) /\ Summable(g, 1 .. n - 1)
  <2> DEFINE I == 1 .. n
             J == 1 .. n - 1
  <2>1. \A i \in J : i \in I
    OBVIOUS
  <2>2. (\A i \in I : f[i] \in Nat) /\ \A i \in J : g[i] \in Nat
    OBVIOUS
  <2>3. IsFiniteSet(I) /\ IsFiniteSet(J)
    BY <1>2
  <2> HIDE DEF I, J
  <2>4. Summable(f, I) /\ Summable(f, J) /\ Summable(g, J)
    BY <2>1, <2>2, <2>3 DEF Summable
  <2> QED
    BY <2>4 DEF I, J
<1>4. n \in 1 .. n /\ (1 .. n) \ {n} = 1 .. n - 1
  OBVIOUS
<1>5. SumFunctionOnSet(f, 1 .. n) = f[n] + SumFunctionOnSet(f, (1 .. n) \ {n})
  BY <1>3, <1>4, SumTakes
<1>6. SumFunctionOnSet(g, 1 .. n - 1) = SumFunctionOnSet(f, 1 .. n - 1)
  BY <1>3, SumAgrees
<1>7. SumFunctionOnSet(g, 1 .. n - 1) \in Nat /\ f[n] \in Nat
  BY <1>3, <1>4, SumIsNat
<1>8. SumFunctionOnSet(f, 1 .. n) = f[n] + SumFunctionOnSet(g, 1 .. n - 1)
  BY <1>4, <1>5, <1>6
<1> QED
  BY ONLY <1>1, <1>7, <1>8

\* A function of sums over disjoint parts adds up to the sum over them together.
Gathered(P, K) == UNION {P[k] : k \in K}

\* The sum of the sums of parts that do not overlap is the sum over all of them.
LEMMA SumOfParts ==
    ASSUME NEW K, IsFiniteSet(K), NEW P, NEW f, NEW F,
           \A k \in K : Summable(f, P[k]) /\ F[k] = SumFunctionOnSet(f, P[k]),
           \A k, l \in K : k # l => P[k] \cap P[l] = {}
    PROVE  /\ Summable(f, Gathered(P, K)) /\ Summable(F, K)
           /\ SumFunctionOnSet(F, K) = SumFunctionOnSet(f, Gathered(P, K))
<1> DEFINE c == [t \in SUBSET K |-> Picked(t)]
           Q == {t \in SUBSET K : /\ Summable(f, Gathered(P, t))
                                  /\ SumFunctionOnSet(F, t) = SumFunctionOnSet(f, Gathered(P, t))}
<1>1. {} \in Q
  <2>1. Gathered(P, {}) = {}
    BY DEF Gathered
  <2>2. Summable(f, {})
    BY FS_EmptySet DEF Summable
  <2> QED
    BY <2>1, <2>2, SumOfNone
<1>2. \A k \in K : F[k] \in Nat
  BY SumIsNat
<1>3. \A t \in SUBSET K : Summable(F, t)
  BY <1>2, FS_Subset DEF Summable
<1>4. ASSUME NEW t \in SUBSET K, t # {}
      PROVE  c[t] \in t /\ (t \ {c[t]} \in Q => t \in Q)
  <2> DEFINE z == c[t]
             s == t \ {z}
  <2>1. z \in t
    BY <1>4 DEF Picked
  <2> HIDE DEF c, z
  <2>2. SumFunctionOnSet(F, t) = F[z] + SumFunctionOnSet(F, s)
    BY <1>3, <2>1, SumTakes
  <2>3. Gathered(P, t) = P[z] \cup Gathered(P, s) /\ P[z] \cap Gathered(P, s) = {}
    BY <2>1 DEF Gathered
  <2>4. Summable(f, P[z]) /\ F[z] = SumFunctionOnSet(f, P[z])
    BY <2>1
  <2> HIDE DEF s
  <2>5. ASSUME s \in Q PROVE t \in Q
    <3>1. Summable(f, Gathered(P, s)) /\ SumFunctionOnSet(F, s) = SumFunctionOnSet(f, Gathered(P, s))
      BY <2>5
    <3>2. SumFunctionOnSet(f, P[z] \cup Gathered(P, s))
             = SumFunctionOnSet(f, P[z]) + SumFunctionOnSet(f, Gathered(P, s))
      BY <2>3, <2>4, <3>1, SumJoins
    <3>3. Summable(f, P[z] \cup Gathered(P, s))
      BY <2>4, <3>1, FS_Union DEF Summable
    <3>4. Summable(f, Gathered(P, t))
      BY <2>3, <3>3
    <3>5. SumFunctionOnSet(F, t) = SumFunctionOnSet(f, Gathered(P, t))
      BY ONLY <2>2, <2>3, <2>4, <3>1, <3>2
    <3> QED
      BY <3>4, <3>5
  <2> QED
    BY <2>1, <2>5 DEF z, s
<1>5. K \in Q
  <2>1. \A t \in SUBSET K : t \in Q
    <3> HIDE DEF Q, c
    <3>1. \A t \in SUBSET K : t # {} => c[t] \in t /\ (t \ {c[t]} \in Q => t \in Q)
      BY <1>4
    <3>2. IsFiniteSet(K)
      OBVIOUS
    <3> QED
      BY ONLY <1>1, <3>1, <3>2, SetInduction
  <2> QED
    BY <2>1
<1> QED
  BY <1>3, <1>5

----------------------------------------------------------------------------
(* Sets of numbers in their order.                                         *)

\* The rank of a number in a set of numbers, and the set in that order.
RankIn(S, one) == Cardinality({other \in S : other <= one})
Listed(S) == [i \in 1 .. Cardinality(S) |-> CHOOSE one \in S : RankIn(S, one) = i]

\* Ranks are the places from one to the number of ones, each taken once and in order.
LEMMA RanksAreOrdered ==
    ASSUME NEW S \in SUBSET Nat, IsFiniteSet(S)
    PROVE  /\ \A p \in Nat : RankIn(S, p) \in 0 .. Cardinality(S)
           /\ \A p \in S : RankIn(S, p) \in 1 .. Cardinality(S)
           /\ \A p, q \in Nat : p <= q => RankIn(S, p) <= RankIn(S, q)
           /\ \A p \in Nat, q \in S : p < q => RankIn(S, p) < RankIn(S, q)
<1> DEFINE B(p) == {other \in S : other <= p}
<1>1. \A p : IsFiniteSet(B(p)) /\ Cardinality(B(p)) \in Nat /\ Cardinality(B(p)) <= Cardinality(S)
  <2> TAKE p
  <2>1. B(p) \in SUBSET S
    OBVIOUS
  <2> HIDE DEF B
  <2> QED
    BY <2>1, FS_Subset, FS_CardinalityType
<1>2. Cardinality(S) \in Nat
  BY FS_CardinalityType
<1>3. \A p, q \in Nat : p <= q => Cardinality(B(p)) <= Cardinality(B(q))
  <2> TAKE p, q \in Nat
  <2> HAVE p <= q
  <2>1. B(p) \in SUBSET B(q)
    <3>1. \A other \in S : other \in Nat /\ (other <= p => other <= q)
      OBVIOUS
    <3> QED
      BY <3>1
  <2> HIDE DEF B
  <2> QED
    BY <1>1, <2>1, FS_Subset
<1>4. \A p \in Nat, q \in S : p < q => Cardinality(B(p)) < Cardinality(B(q))
  <2> TAKE p \in Nat, q \in S
  <2> HAVE p < q
  <2>1. B(p) \in SUBSET B(q) /\ q \in B(q) /\ q \notin B(p)
    <3>1. \A other \in S : other \in Nat /\ (other <= p => other <= q)
      OBVIOUS
    <3>2. q <= q /\ ~ (q <= p)
      OBVIOUS
    <3> QED
      BY <3>1, <3>2
  <2> HIDE DEF B
  <2>2. Cardinality(B(p)) <= Cardinality(B(q)) /\ (Cardinality(B(p)) = Cardinality(B(q)) => B(p) = B(q))
    BY <1>1, <2>1, FS_Subset
  <2> QED
    BY <1>1, <2>1, <2>2
<1>5. \A p \in S : Cardinality(B(p)) # 0
  <2> TAKE p \in S
  <2>1. p \in B(p)
    OBVIOUS
  <2> HIDE DEF B
  <2> QED
    BY <1>1, <2>1, FS_EmptySet
<1>6. \A p : RankIn(S, p) = Cardinality(B(p))
  BY DEF RankIn
<1> HIDE DEF B
<1> QED
  BY <1>1, <1>2, <1>3, <1>4, <1>5, <1>6

\* In the listing each one stands at its rank.
LEMMA ListedByRank ==
    ASSUME NEW S \in SUBSET Nat, IsFiniteSet(S)
    PROVE  /\ Listed(S) \in [1 .. Cardinality(S) -> S]
           /\ \A i \in 1 .. Cardinality(S) : RankIn(S, Listed(S)[i]) = i
           /\ \A p \in S : Listed(S)[RankIn(S, p)] = p
<1> DEFINE n == Cardinality(S)
           f == [p \in S |-> RankIn(S, p)]
<1>1. n \in Nat
  BY FS_CardinalityType
<1>2. f \in [S -> 1 .. n] /\ \A p \in S : f[p] = RankIn(S, p)
  BY RanksAreOrdered
<1>3. \A p, q \in S : f[p] = f[q] => p = q
  <2> TAKE p, q \in S
  <2> HAVE f[p] = f[q]
  <2>1. p \in Nat /\ q \in Nat /\ RankIn(S, p) = RankIn(S, q) /\ RankIn(S, p) \in 1 .. n
    BY <1>2
  <2>2. ~ (p < q) /\ ~ (q < p)
    BY <1>1, <2>1, RanksAreOrdered
  <2> QED
    BY <2>1, <2>2
<1>4. IsFiniteSet(1 .. n) /\ Cardinality(1 .. n) = n
  BY <1>1, FS_Interval
<1>5. \A i \in 1 .. n : \E p \in S : f[p] = i
  <2> HIDE DEF f, n
  <2>1. f \in Injection(S, 1 .. n)
    BY <1>2, <1>3 DEF Injection, IsInjective
  <2>2. f \in Surjection(S, 1 .. n)
    BY <1>4, <2>1, FS_Injection DEF n
  <2> QED
    BY <2>2 DEF Surjection
<1>6. \A i \in 1 .. n : Listed(S)[i] \in S /\ RankIn(S, Listed(S)[i]) = i
  BY <1>2, <1>5 DEF Listed
<1>7. Listed(S) \in [1 .. n -> S]
  BY <1>6 DEF Listed
<1>8. \A p \in S : Listed(S)[RankIn(S, p)] = p
  <2> TAKE p \in S
  <2> DEFINE q == Listed(S)[RankIn(S, p)]
  <2>1. RankIn(S, p) \in 1 .. n
    BY <1>2
  <2>2. q \in S /\ RankIn(S, q) = RankIn(S, p)
    BY <1>6, <2>1
  <2> HIDE DEF q
  <2>3. f[q] = f[p]
    BY <1>2, <2>2
  <2>4. q = p
    BY <1>3, <2>2, <2>3
  <2> QED
    BY <2>4 DEF q
<1> QED
  BY <1>6, <1>7, <1>8
=============================================================================
