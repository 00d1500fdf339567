-------------------------- MODULE FiniteRecursion --------------------------
(***************************************************************************)
(* Induction and recursion for the proofs about the loops of the code.     *)
(*                                                                         *)
(* A loop over a sequence is a function F over 0..n with F[0] the value    *)
(* before the loop and F[i] a function of F[i-1], the value after i        *)
(* iterations.  The provers see such a function as a CHOOSE, so its        *)
(* equation has to be proved; g below is its body as a function.           *)
(***************************************************************************)
EXTENDS Integers, SequencesExt, WellFoundedInduction, SequenceTheorems, TLAPS

\* Induction over the natural numbers, with a set for the hypothesis: the
\* theorem behind every proof about a loop.
LEMMA NatSetInduction ==
  ASSUME NEW T, 0 \in T, \A n \in Nat : n \in T => n + 1 \in T
  PROVE  Nat \subseteq T
<1> DEFINE Bad == Nat \ T
<1>1. SUFFICES ASSUME Bad # {} PROVE FALSE
  OBVIOUS
<1>2. PICK b \in Bad : \A y \in Bad : ~(<<y, b>> \in OpToRel(<, Nat))
  <2>1. Bad \subseteq Nat
    OBVIOUS
  <2> HIDE DEF Bad
  <2> QED BY <1>1, <2>1, WFMin, NatLessThanWellFounded
<1>3. \A y \in Bad : ~(y < b)
  BY <1>2 DEF OpToRel
<1>4. b # 0 /\ b - 1 \in Nat
  OBVIOUS
<1>5. b - 1 \in T
  BY <1>3, <1>4
<1>6. b \in T
  BY <1>4, <1>5
<1> QED BY <1>6

\* The same up to a bound, which is how a loop is reasoned about.
LEMMA BoundedInduction ==
  ASSUME NEW n \in Nat, NEW T, 0 \in T,
         \A i \in 1..n : i - 1 \in T => i \in T
  PROVE  0..n \subseteq T
<1> DEFINE U == {k \in Nat : k <= n => k \in T}
<1>1. 0 \in U
  OBVIOUS
<1>2. \A k \in Nat : k \in U => k + 1 \in U
  <2> SUFFICES ASSUME NEW k \in Nat, k \in U, k + 1 <= n PROVE k + 1 \in T
    OBVIOUS
  <2>1. k \in T
    OBVIOUS
  <2>2. k + 1 \in 1..n /\ (k + 1) - 1 = k
    OBVIOUS
  <2> QED BY <2>1, <2>2
<1> HIDE DEF U
<1>3. Nat \subseteq U
  BY <1>1, <1>2, NatSetInduction
<1> QED BY <1>3 DEF U

\* f solves the equation of a loop of m iterations.
Solves(f, a, g, m) ==
  f = [i \in 0..m |-> IF i = 0 THEN a ELSE g[i][f[i - 1]]]

\* A loop of n iterations has a value after each of them.
LEMMA LoopExists ==
  ASSUME NEW S, NEW a \in S, NEW n \in Nat, NEW g \in [1..n -> [S -> S]]
  PROVE  \E f \in [0..n -> S] : Solves(f, a, g, n)
<1> DEFINE T == {m \in 0..n : \E f \in [0..m -> S] : Solves(f, a, g, m)}
<1>1. 0 \in T
  <2> DEFINE f == [i \in 0..0 |-> a]
  <2>1. f \in [0..0 -> S]
    OBVIOUS
  <2>2. \A i \in 0..0 : f[i] = IF i = 0 THEN a ELSE g[i][f[i - 1]]
    OBVIOUS
  <2>3. Solves(f, a, g, 0)
    BY <2>1, <2>2 DEF Solves
  <2> HIDE DEF f
  <2> QED BY <2>1, <2>3
<1>2. \A i \in 1..n : i - 1 \in T => i \in T
  <2> SUFFICES ASSUME NEW i \in 1..n, i - 1 \in T PROVE i \in T
    OBVIOUS
  <2>1. PICK f \in [0..(i - 1) -> S] : Solves(f, a, g, i - 1)
    OBVIOUS
  <2> DEFINE h == [k \in 0..i |-> IF k < i THEN f[k] ELSE g[i][f[i - 1]]]
  <2>2. i - 1 \in 0..(i - 1) /\ g[i] \in [S -> S]
    OBVIOUS
  <2>3. h \in [0..i -> S]
    BY <2>2
  <2>4. ASSUME NEW k \in 0..i
        PROVE  h[k] = IF k = 0 THEN a ELSE g[k][h[k - 1]]
    <3>1. CASE k = 0
      BY <2>1, <3>1 DEF Solves
    <3>2. CASE k # 0 /\ k < i
      <4>1. k \in 0..(i - 1) /\ k - 1 \in 0..(i - 1) /\ k - 1 \in 0..i
        BY <3>2
      <4>2. f[k] = g[k][f[k - 1]]
        BY <2>1, <3>2, <4>1 DEF Solves
      <4>3. h[k] = f[k] /\ h[k - 1] = f[k - 1]
        BY <3>2, <4>1
      <4> QED BY <3>2, <4>2, <4>3
    <3>3. CASE k = i
      <4>1. h[k] = g[i][f[i - 1]]
        BY <3>3
      <4>2. h[k - 1] = f[i - 1]
        BY <3>3
      <4> QED BY <3>3, <4>1, <4>2
    <3> QED BY <3>1, <3>2, <3>3
  <2>5. Solves(h, a, g, i)
    <3> HIDE DEF h
    <3> QED BY <2>3, <2>4 DEF Solves
  <2> HIDE DEF h
  <2> QED BY <2>3, <2>5
<1> HIDE DEF T
<1>3. 0..n \subseteq T
  BY <1>1, <1>2, BoundedInduction
<1>4. n \in 0..n
  OBVIOUS
<1>5. n \in T
  BY <1>3, <1>4
<1> QED BY <1>5 DEF T

-----------------------------------------------------------------------------
(* Concatenation: FlattenSeq is a loop over its sequences. *)

\* The loop of FlattenSeq.
FlattenLoop(ss) ==
  CHOOSE f : f = [i \in 1..Len(ss) |-> IF i = 1 THEN ss[i] ELSE f[i - 1] \o ss[i]]

LEMMA FlattenIsLoop ==
  \A ss : FlattenSeq(ss) = IF Len(ss) = 0 THEN ss ELSE FlattenLoop(ss)[Len(ss)]
<1> SUFFICES ASSUME NEW ss
             PROVE  FlattenSeq(ss) = IF Len(ss) = 0 THEN ss ELSE FlattenLoop(ss)[Len(ss)]
  OBVIOUS
<1> QED BY DEF FlattenSeq, FlattenLoop

\* f has the concatenations of the first i of n sequences.
Flattens(f, ss, n, S) ==
  \A i \in 1..n : /\ f[i] \in Seq(S)
                  /\ f[i] = IF i = 1 THEN ss[i] ELSE f[i - 1] \o ss[i]

LEMMA FlattenLoopEquation ==
  ASSUME NEW S, NEW n \in Nat, NEW ss \in [1..n -> Seq(S)]
  PROVE  Len(ss) = n /\ Flattens(FlattenLoop(ss), ss, n, S)
<1> DEFINE T == Seq(S)
           g == [i \in 1..n |-> [t \in T |-> t \o ss[i]]]
           Eq(f) == f = [i \in 1..n |-> IF i = 1 THEN ss[i] ELSE f[i - 1] \o ss[i]]
<1>1. <<>> \in T /\ \A i \in 1..n : \A t \in T : t \o ss[i] \in T
  OBVIOUS
<1>2. Len(ss) = n
  <2> HIDE DEF T
  <2> QED OBVIOUS
<1>3. g \in [1..n -> [T -> T]]
  <2> HIDE DEF T
  <2> QED BY <1>1
<1>4. PICK f \in [0..n -> T] : Solves(f, <<>>, g, n)
  <2> HIDE DEF g, T
  <2> QED BY <1>1, <1>3, LoopExists
<1>5. ASSUME NEW i \in 1..n
      PROVE  /\ f[i] \in Seq(S)
             /\ f[i] = IF i = 1 THEN ss[i] ELSE f[i - 1] \o ss[i]
  <2>1. i \in 0..n /\ i - 1 \in 0..n /\ i # 0
    OBVIOUS
  <2>2. f[i] \in Seq(S) /\ f[i - 1] \in Seq(S) /\ ss[i] \in Seq(S)
    BY <1>4, <2>1
  <2>3. f[i] = g[i][f[i - 1]]
    <3> HIDE DEF g, T
    <3> QED BY <1>4, <2>1 DEF Solves
  <2>4. f[i] = f[i - 1] \o ss[i]
    <3> HIDE DEF T
    <3> QED BY <2>2, <2>3 DEF T
  <2>5. CASE i = 1
    <3>1. f[0] = <<>>
      <4> HIDE DEF g, T
      <4> QED BY <1>4 DEF Solves
    <3>2. f[i - 1] = <<>>
      BY <2>5, <3>1
    <3>3. <<>> \o ss[i] = ss[i]
      BY <2>2, ConcatEmptySeq
    <3> QED BY <2>2, <2>4, <2>5, <3>2, <3>3
  <2> QED BY <2>2, <2>4, <2>5
<1> DEFINE h == [i \in 1..n |-> f[i]]
<1>6. Eq(h)
  <2> DEFINE B(i) == IF i = 1 THEN ss[i] ELSE h[i - 1] \o ss[i]
  <2>1. ASSUME NEW i \in 1..n PROVE h[i] = B(i)
    <3>1. i # 1 => i - 1 \in 1..n
      OBVIOUS
    <3> QED BY <1>5, <3>1
  <2>2. h = [i \in 1..n |-> B(i)]
    <3> HIDE DEF B
    <3>1. h = [i \in 1..n |-> h[i]]
      OBVIOUS
    <3> HIDE DEF h
    <3> QED BY <2>1, <3>1
  <2> QED BY <2>2
<1>7. FlattenLoop(ss) = CHOOSE x : Eq(x)
  BY <1>2 DEF FlattenLoop
<1> HIDE DEF Eq, h
<1>8. Eq(FlattenLoop(ss))
  BY <1>6, <1>7
<1> DEFINE w == FlattenLoop(ss)
<1>9. \A i \in 1..n : w[i] = IF i = 1 THEN ss[i] ELSE w[i - 1] \o ss[i]
  <2> HIDE DEF w
  <2>1. Eq(w)
    BY <1>8 DEF w
  <2> DEFINE B(i) == IF i = 1 THEN ss[i] ELSE w[i - 1] \o ss[i]
  <2>2. w = [i \in 1..n |-> B(i)]
    BY <2>1 DEF Eq
  <2> HIDE DEF B
  <2>3. \A i \in 1..n : w[i] = B(i)
    BY <2>2
  <2> QED BY <2>3 DEF B
<1> HIDE DEF w
<1> DEFINE U == {i \in 0..n : i # 0 => w[i] \in Seq(S)}
<1>10. 0 \in U
  OBVIOUS
<1>11. ASSUME NEW i \in 1..n, i - 1 \in U PROVE i \in U
  <2>1. w[i] \in Seq(S)
    <3>1. CASE i = 1
      BY <1>9, <3>1
    <3>2. CASE i # 1
      <4>1. w[i - 1] \in Seq(S) /\ ss[i] \in Seq(S)
        BY <1>11, <3>2
      <4>2. w[i - 1] \o ss[i] \in Seq(S)
        BY <4>1
      <4> QED BY <1>9, <3>2, <4>2
    <3> QED BY <3>1, <3>2
  <2> QED BY <2>1
<1> HIDE DEF U
<1>12. 0..n \subseteq U
  BY <1>10, <1>11, BoundedInduction
<1>13. \A i \in 1..n : w[i] \in Seq(S)
  BY <1>12 DEF U
<1>14. Flattens(w, ss, n, S)
  BY <1>9, <1>13 DEF Flattens
<1> QED BY <1>2, <1>14 DEF w

\* FlattenSeq of one more sequence adds it at the end.
LEMMA FlattenStep ==
  ASSUME NEW S, NEW k \in Nat, NEW g \in [1..(k + 1) -> Seq(S)],
         NEW h \in [1..k -> Seq(S)], \A i \in 1..k : h[i] = g[i]
  PROVE  FlattenSeq(g) = FlattenSeq(h) \o g[k + 1]
<1> DEFINE v == FlattenLoop(g)
           w == FlattenLoop(h)
           T == {i \in 0..k : i # 0 => v[i] = w[i]}
<1>1. /\ Len(g) = k + 1
      /\ \A i \in 1..(k + 1) : v[i] = IF i = 1 THEN g[i] ELSE v[i - 1] \o g[i]
  <2> DEFINE n == k + 1
  <2>1. n \in Nat /\ g \in [1..n -> Seq(S)]
    OBVIOUS
  <2> HIDE DEF n
  <2>2. Len(g) = n /\ Flattens(v, g, n, S)
    BY <2>1, FlattenLoopEquation
  <2> HIDE DEF v
  <2> QED BY <2>2 DEF n, Flattens
<1>2. /\ Len(h) = k
      /\ \A i \in 1..k : w[i] = IF i = 1 THEN h[i] ELSE w[i - 1] \o h[i]
  <2>1. Len(h) = k /\ Flattens(w, h, k, S)
    BY FlattenLoopEquation
  <2> HIDE DEF w
  <2> QED BY <2>1 DEF Flattens
<1>3. FlattenSeq(g) = v[k + 1]
  BY <1>1, FlattenIsLoop
<1>4. FlattenSeq(h) = IF k = 0 THEN h ELSE w[k]
  BY <1>2, FlattenIsLoop
<1> HIDE DEF v, w
<1>5. 0 \in T
  OBVIOUS
<1>6. ASSUME NEW i \in 1..k, i - 1 \in T PROVE i \in T
  <2>1. i \in 1..(k + 1) /\ (i # 1 => i - 1 \in 1..k)
    OBVIOUS
  <2> QED BY <1>1, <1>2, <1>6, <2>1
<1> HIDE DEF T
<1>7. 0..k \subseteq T
  BY <1>5, <1>6, BoundedInduction
<1>8. CASE k = 0
  <2>1. h = <<>> /\ g[1] \in Seq(S) /\ v[1] = g[1]
    BY <1>1, <1>2, <1>8
  <2>2. <<>> \o g[1] = g[1]
    BY <2>1, ConcatEmptySeq
  <2> QED BY <1>3, <1>4, <1>8, <2>1, <2>2
<1>9. CASE k # 0
  <2>1. v[k] = w[k]
    BY <1>7, <1>9 DEF T
  <2>2. v[k + 1] = v[k] \o g[k + 1]
    <3>1. k + 1 \in 1..(k + 1) /\ k + 1 # 1 /\ (k + 1) - 1 = k
      BY <1>9
    <3> QED BY <1>1, <3>1
  <2> QED BY <1>3, <1>4, <1>9, <2>1, <2>2
<1> QED BY <1>8, <1>9

LEMMA FlattenType ==
  ASSUME NEW S, NEW n \in Nat, NEW ss \in [1..n -> Seq(S)]
  PROVE  FlattenSeq(ss) \in Seq(S)
<1>1. Len(ss) = n /\ \A i \in 1..n : FlattenLoop(ss)[i] \in Seq(S)
  BY FlattenLoopEquation DEF Flattens
<1>2. n = 0 => ss = <<>>
  OBVIOUS
<1>3. <<>> \in Seq(S)
  OBVIOUS
<1> QED BY <1>1, <1>2, <1>3, FlattenIsLoop

LEMMA FlattenEmpty == FlattenSeq(<<>>) = <<>>
BY FlattenIsLoop

\* f has the concatenations of the first i sequences, from none on.
FlatPrefixes(f, ss, S) ==
  /\ f \in [0..Len(ss) -> Seq(S)]
  /\ f[0] = <<>>
  /\ \A i \in 1..Len(ss) : f[i] = f[i - 1] \o ss[i]

LEMMA FlattenSteps ==
  ASSUME NEW S, NEW ss \in Seq(Seq(S))
  PROVE  \E f : FlatPrefixes(f, ss, S) /\ FlattenSeq(ss) = f[Len(ss)]
<1> DEFINE n == Len(ss)
           w == FlattenLoop(ss)
           f == [i \in 0..n |-> IF i = 0 THEN <<>> ELSE w[i]]
<1>1. n \in Nat /\ ss \in [1..n -> Seq(S)]
  OBVIOUS
<1>2. \A i \in 1..n : w[i] \in Seq(S) /\ w[i] = IF i = 1 THEN ss[i] ELSE w[i - 1] \o ss[i]
  <2> HIDE DEF n
  <2> QED BY <1>1, FlattenLoopEquation DEF Flattens
<1>3. FlattenSeq(ss) = IF n = 0 THEN ss ELSE w[n]
  BY FlattenIsLoop
<1>4. n = 0 => ss = <<>>
  OBVIOUS
<1> HIDE DEF n, w
<1>5. f \in [0..n -> Seq(S)] /\ f[0] = <<>>
  <2>1. \A i \in 0..n : (IF i = 0 THEN <<>> ELSE w[i]) \in Seq(S)
    BY <1>1, <1>2
  <2> QED BY <1>1, <2>1
<1>6. ASSUME NEW i \in 1..n PROVE f[i] = f[i - 1] \o ss[i]
  <2>1. i - 1 \in 0..n /\ i \in 0..n /\ ss[i] \in Seq(S)
    BY <1>1
  <2>2. CASE i = 1
    <3>1. f[i - 1] = <<>> /\ f[i] = ss[i]
      BY <1>2, <2>1, <2>2
    <3> HIDE DEF f
    <3> QED BY <2>1, <3>1, ConcatEmptySeq
  <2>3. CASE i # 1
    <3>1. i # 0 /\ i - 1 # 0
      BY <1>1, <2>3
    <3>2. f[i - 1] = w[i - 1] /\ f[i] = w[i]
      BY <2>1, <3>1
    <3> HIDE DEF f
    <3> QED BY <1>2, <2>3, <3>2
  <2> QED BY <2>2, <2>3
<1>7. FlattenSeq(ss) = f[n]
  BY <1>1, <1>3, <1>4
<1> HIDE DEF f
<1>8. FlatPrefixes(f, ss, S)
  BY <1>5, <1>6 DEF FlatPrefixes, n
<1> QED BY <1>7, <1>8 DEF n
=============================================================================
