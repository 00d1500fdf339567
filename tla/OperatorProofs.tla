--------------------------- MODULE OperatorProofs ---------------------------
(***************************************************************************)
(* Proofs about Operators, for paths of any names and any length, for any  *)
(* versions and any limits on their numbers, for constraints of any words, *)
(* for packages of any contents, and for heads of CBOR and strings of JSON *)
(* in any file.                                                            *)
(***************************************************************************)
EXTENDS Operators, EntryPathProofs, FiniteSetTheorems

-----------------------------------------------------------------------------
(* The order of versions *)

\* What a comparison has to be for std::sort, of three things.
Weak(ab, ba, bc, ac) ==
  /\ ab \in {-1, 0, 1} /\ ba = -ab
  /\ ab <= 0 /\ bc <= 0 => ac <= 0 /\ (ac = 0 => ab = 0 /\ bc = 0)

LEMMA SignIsWeak ==
  ASSUME NEW a \in Int, NEW b \in Int, NEW c \in Int
  PROVE  Weak(Sign(a, b), Sign(b, a), Sign(b, c), Sign(a, c)) /\ Sign(a, a) = 0
BY DEF Weak, Sign

LEMMA IdentifierOrderIsWeak ==
  ASSUME NEW a \in Identifier, NEW b \in Identifier, NEW c \in Identifier
  PROVE  /\ Weak(compare_identifier(a, b), compare_identifier(b, a),
                 compare_identifier(b, c), compare_identifier(a, c))
         /\ compare_identifier(a, a) = 0
<1>1. \A id \in Identifier : id.numeric \in BOOLEAN /\ id.value \in Nat
  BY DEF Identifier
<1>2. \A id \in Identifier : IdentifierNumber(id) \in Nat
  BY <1>1 DEF IdentifierNumber
<1>3. ASSUME NEW x \in Identifier, NEW y \in Identifier
      PROVE  compare_identifier(x, y) =
               IF x.numeric THEN IF y.numeric THEN Sign(IdentifierNumber(x), IdentifierNumber(y)) ELSE -1
               ELSE IF y.numeric THEN 1 ELSE Sign(x.value, y.value)
  BY <1>1 DEF compare_identifier
<1> QED BY <1>1, <1>2, <1>3 DEF Weak, Sign

Prerelease == Seq(Identifier)

LEMMA PrereleaseElements ==
  ASSUME NEW a \in Prerelease
  PROVE  /\ Len(a) \in Nat /\ DOMAIN a = 1 .. Len(a)
         /\ \A i \in 1 .. Len(a) : a[i] \in Identifier
         /\ a = <<>> <=> Len(a) = 0
BY DEF Prerelease

\* Two prereleases differ first in one place, seen from either.
LEMMA OneFirstDifference ==
  ASSUME NEW a \in Prerelease, NEW b \in Prerelease, NEW i, DifferFirstAt(a, b, i)
  PROVE  /\ i \in 1 .. Len(a) /\ i \in 1 .. Len(b) /\ i \in Nat
         /\ \A j : DifferFirstAt(a, b, j) => j = i
         /\ DifferFirstAt(b, a, i)
<1>1. i \in 1 .. Len(a) /\ i \in 1 .. Len(b) /\ i \in Nat
  BY PrereleaseElements DEF DifferFirstAt
<1>2. ASSUME NEW j, DifferFirstAt(a, b, j) PROVE j = i
  <2>1. j \in 1 .. Len(a)
    BY <1>2, PrereleaseElements DEF DifferFirstAt
  <2>2. ~(j \in 1 .. i - 1) /\ ~(i \in 1 .. j - 1)
    BY <1>2 DEF DifferFirstAt
  <2> QED BY <1>1, <2>1, <2>2, PrereleaseElements
<1>3. \A j \in 1 .. i : compare_identifier(b[j], a[j]) = -compare_identifier(a[j], b[j])
                        /\ compare_identifier(a[j], b[j]) \in {-1, 0, 1}
  <2>1. ASSUME NEW j \in 1 .. i PROVE a[j] \in Identifier /\ b[j] \in Identifier
    BY <1>1, PrereleaseElements
  <2> QED BY <2>1, IdentifierOrderIsWeak DEF Weak
<1>4. DifferFirstAt(b, a, i)
  <2>1. compare_identifier(b[i], a[i]) # 0
    BY <1>1, <1>3 DEF DifferFirstAt
  <2>2. \A j \in 1 .. i - 1 : compare_identifier(b[j], a[j]) = 0
    BY <1>1, <1>3 DEF DifferFirstAt
  <2> QED BY <2>1, <2>2 DEF DifferFirstAt
<1> QED BY <1>1, <1>2, <1>4

\* Two prereleases without a first difference agree as far as both go.
LEMMA NoDifference ==
  ASSUME NEW a \in Prerelease, NEW b \in Prerelease,
         ~\E i \in DOMAIN a : DifferFirstAt(a, b, i)
  PROVE  \A i \in 1 .. Len(a) : i <= Len(b) => compare_identifier(a[i], b[i]) = 0
<1> DEFINE n == Len(a)
           Agree(k) == \A i \in 1 .. k : i <= Len(b) => compare_identifier(a[i], b[i]) = 0
           T == {k \in 0 .. n : Agree(k)}
<1>1. n \in Nat /\ Len(b) \in Nat /\ DOMAIN a = 1 .. n /\ DOMAIN b = 1 .. Len(b)
  BY PrereleaseElements
<1> HIDE DEF n
<1>2. 0 \in T
  BY <1>1
<1>3. ASSUME NEW k \in 1 .. n, k - 1 \in T PROVE k \in T
  <2>1. Agree(k - 1)
    BY <1>3
  <2>2. k <= Len(b) => compare_identifier(a[k], b[k]) = 0
    <3> SUFFICES ASSUME k <= Len(b), compare_identifier(a[k], b[k]) # 0 PROVE FALSE
      OBVIOUS
    <3>1. \A j \in 1 .. k - 1 : compare_identifier(a[j], b[j]) = 0
      BY <1>1, <2>1
    <3>2. DifferFirstAt(a, b, k)
      BY <1>1, <3>1 DEF DifferFirstAt
    <3> QED BY <1>1, <3>2
  <2>3. Agree(k)
    BY <1>1, <2>1, <2>2
  <2> QED BY <2>3
<1> HIDE DEF T
<1>4. 0 .. n \subseteq T
  BY <1>1, <1>2, <1>3, BoundedInduction
<1>5. n \in T
  BY <1>1, <1>4
<1> QED BY <1>5 DEF T, n

\* The three ways two prereleases that are there compare.
LEMMA PrereleaseComparison ==
  ASSUME NEW a \in Prerelease, NEW b \in Prerelease, a # <<>>, b # <<>>
  PROVE  \/ \E i \in 1 .. Len(a) :
              /\ i <= Len(b)
              /\ DifferFirstAt(a, b, i) /\ DifferFirstAt(b, a, i)
              /\ compare_prerelease(a, b) = compare_identifier(a[i], b[i])
              /\ compare_prerelease(b, a) = compare_identifier(b[i], a[i])
         \/ /\ \A i \in 1 .. Len(a) : i <= Len(b) =>
                 compare_identifier(a[i], b[i]) = 0 /\ compare_identifier(b[i], a[i]) = 0
            /\ compare_prerelease(a, b) = Sign(Len(a), Len(b))
            /\ compare_prerelease(b, a) = Sign(Len(b), Len(a))
<1>1. CASE \E i \in DOMAIN a : DifferFirstAt(a, b, i)
  <2>1. PICK i \in DOMAIN a : DifferFirstAt(a, b, i)
    BY <1>1
  <2>2. i \in 1 .. Len(a) /\ i \in 1 .. Len(b) /\ i <= Len(b)
        /\ i \in DOMAIN b /\ DifferFirstAt(b, a, i)
    BY <2>1, OneFirstDifference, PrereleaseElements
  <2>3. (CHOOSE j \in DOMAIN a : DifferFirstAt(a, b, j)) = i
    BY <2>1, OneFirstDifference
  <2>4. (CHOOSE j \in DOMAIN b : DifferFirstAt(b, a, j)) = i
    BY <2>2, OneFirstDifference
  <2>5. compare_prerelease(a, b) = compare_identifier(a[i], b[i])
    BY <1>1, <2>3 DEF compare_prerelease
  <2>6. compare_prerelease(b, a) = compare_identifier(b[i], a[i])
    BY <2>2, <2>4 DEF compare_prerelease
  <2> QED BY <2>1, <2>2, <2>5, <2>6
<1>2. CASE ~\E i \in DOMAIN a : DifferFirstAt(a, b, i)
  <2>1. ~\E i \in DOMAIN b : DifferFirstAt(b, a, i)
    <3> SUFFICES ASSUME NEW i \in DOMAIN b, DifferFirstAt(b, a, i) PROVE FALSE
      OBVIOUS
    <3>1. DifferFirstAt(a, b, i) /\ i \in DOMAIN a
      BY OneFirstDifference, PrereleaseElements
    <3> QED BY <1>2, <3>1
  <2>2. \A i \in 1 .. Len(a) : i <= Len(b) =>
          compare_identifier(a[i], b[i]) = 0 /\ compare_identifier(b[i], a[i]) = 0
    <3>1. ASSUME NEW i \in 1 .. Len(a), i <= Len(b)
          PROVE  compare_identifier(a[i], b[i]) = 0 /\ compare_identifier(b[i], a[i]) = 0
      <4>1. compare_identifier(a[i], b[i]) = 0
        BY <1>2, <3>1, NoDifference
      <4>2. i \in 1 .. Len(b) /\ i <= Len(a)
        BY <3>1, PrereleaseElements
      <4>3. compare_identifier(b[i], a[i]) = 0
        BY <2>1, <4>2, NoDifference
      <4> QED BY <4>1, <4>3
    <3> QED BY <3>1
  <2>3. /\ compare_prerelease(a, b) = Sign(Len(a), Len(b))
        /\ compare_prerelease(b, a) = Sign(Len(b), Len(a))
    BY <1>2, <2>1 DEF compare_prerelease
  <2> QED BY <2>2, <2>3
<1> QED BY <1>1, <1>2

\* The signs of the elements at one place of three prereleases.
LEMMA ElementOrder ==
  ASSUME NEW a \in Prerelease, NEW b \in Prerelease, NEW c \in Prerelease,
         NEW i \in Nat, i >= 1, i <= Len(a), i <= Len(b), i <= Len(c)
  PROVE  /\ Weak(compare_identifier(a[i], b[i]), compare_identifier(b[i], a[i]),
                 compare_identifier(b[i], c[i]), compare_identifier(a[i], c[i]))
         /\ Weak(compare_identifier(a[i], c[i]), compare_identifier(c[i], a[i]),
                 compare_identifier(c[i], b[i]), compare_identifier(a[i], b[i]))
         /\ Weak(compare_identifier(b[i], c[i]), compare_identifier(c[i], b[i]),
                 compare_identifier(c[i], a[i]), compare_identifier(b[i], a[i]))
<1>1. a[i] \in Identifier /\ b[i] \in Identifier /\ c[i] \in Identifier
  BY PrereleaseElements
<1> QED BY <1>1, IdentifierOrderIsWeak

\* The same where the first two are equal or the last two are.
LEMMA EqualElements ==
  ASSUME NEW a \in Prerelease, NEW b \in Prerelease, NEW c \in Prerelease,
         NEW i \in Nat, i >= 1, i <= Len(a), i <= Len(b), i <= Len(c)
  PROVE  /\ compare_identifier(a[i], b[i]) = 0 =>
              compare_identifier(a[i], c[i]) = compare_identifier(b[i], c[i])
         /\ compare_identifier(b[i], c[i]) = 0 =>
              compare_identifier(a[i], c[i]) = compare_identifier(a[i], b[i])
         /\ compare_identifier(a[i], b[i]) < 0 /\ compare_identifier(b[i], c[i]) < 0 =>
              compare_identifier(a[i], c[i]) < 0
<1> DEFINE x == a[i]
           y == b[i]
           z == c[i]
<1>1. x \in Identifier /\ y \in Identifier /\ z \in Identifier
  BY PrereleaseElements
<1> HIDE DEF x, y, z
<1>2. \A id \in Identifier : id.numeric \in BOOLEAN /\ id.value \in Nat
  BY DEF Identifier
<1>3. \A id \in Identifier : IdentifierNumber(id) \in Nat
  BY <1>2 DEF IdentifierNumber
<1>4. /\ compare_identifier(x, y) = 0 => compare_identifier(x, z) = compare_identifier(y, z)
      /\ compare_identifier(y, z) = 0 => compare_identifier(x, z) = compare_identifier(x, y)
      /\ compare_identifier(x, y) < 0 /\ compare_identifier(y, z) < 0 =>
           compare_identifier(x, z) < 0
  BY <1>1, <1>2, <1>3 DEF compare_identifier, Sign
<1> QED BY <1>4 DEF x, y, z

\* The first difference decides.
LEMMA FirstDifferenceDecides ==
  ASSUME NEW a \in Prerelease, NEW b \in Prerelease, NEW i \in Nat,
         i >= 1, i <= Len(a), i <= Len(b), compare_identifier(a[i], b[i]) # 0,
         \A j \in 1 .. i - 1 : compare_identifier(a[j], b[j]) = 0
  PROVE  compare_prerelease(a, b) = compare_identifier(a[i], b[i])
<1>1. DifferFirstAt(a, b, i) /\ i \in DOMAIN a
  BY PrereleaseElements DEF DifferFirstAt
<1>2. a # <<>> /\ b # <<>>
  BY PrereleaseElements
<1>3. (CHOOSE j \in DOMAIN a : DifferFirstAt(a, b, j)) = i
  BY <1>1, OneFirstDifference
<1> QED BY <1>1, <1>2, <1>3 DEF compare_prerelease

\* Without a difference the length decides.
LEMMA LengthDecides ==
  ASSUME NEW a \in Prerelease, NEW b \in Prerelease, a # <<>>, b # <<>>,
         \A i \in 1 .. Len(a) : i <= Len(b) => compare_identifier(a[i], b[i]) = 0
  PROVE  compare_prerelease(a, b) = Sign(Len(a), Len(b))
<1>1. ~\E i \in DOMAIN a : DifferFirstAt(a, b, i)
  BY PrereleaseElements DEF DifferFirstAt
<1> QED BY <1>1 DEF compare_prerelease

LEMMA PrereleaseAntisymmetric ==
  ASSUME NEW a \in Prerelease, NEW b \in Prerelease
  PROVE  /\ compare_prerelease(a, b) \in {-1, 0, 1}
         /\ compare_prerelease(b, a) = -compare_prerelease(a, b)
         /\ compare_prerelease(a, a) = 0
<1>1. compare_prerelease(a, a) = 0
  <2>1. CASE a = <<>>
    BY <2>1 DEF compare_prerelease, Sign
  <2>2. CASE a # <<>>
    <3>1. \A i \in 1 .. Len(a) : compare_identifier(a[i], a[i]) = 0
      BY PrereleaseElements, IdentifierOrderIsWeak
    <3>2. compare_prerelease(a, a) = Sign(Len(a), Len(a))
      BY <2>2, <3>1, LengthDecides
    <3> QED BY <3>2, PrereleaseElements DEF Sign
  <2> QED BY <2>1, <2>2
<1>2. CASE a = <<>> \/ b = <<>>
  <2>1. compare_prerelease(a, b) = Sign(IF a = <<>> THEN 1 ELSE 0, IF b = <<>> THEN 1 ELSE 0)
    BY <1>2 DEF compare_prerelease
  <2>2. compare_prerelease(b, a) = Sign(IF b = <<>> THEN 1 ELSE 0, IF a = <<>> THEN 1 ELSE 0)
    BY <1>2 DEF compare_prerelease
  <2> QED BY <1>1, <2>1, <2>2 DEF Sign
<1>3. CASE a # <<>> /\ b # <<>>
  <2>1. /\ Sign(Len(b), Len(a)) = -Sign(Len(a), Len(b))
        /\ Sign(Len(a), Len(b)) \in {-1, 0, 1}
    BY PrereleaseElements DEF Sign
  <2>2. \A i \in Nat : i >= 1 /\ i <= Len(a) /\ i <= Len(b) =>
          /\ compare_identifier(a[i], b[i]) \in {-1, 0, 1}
          /\ compare_identifier(b[i], a[i]) = -compare_identifier(a[i], b[i])
    BY ElementOrder DEF Weak
  <2>3. Len(a) \in Nat /\ Len(b) \in Nat
    BY PrereleaseElements
  <2>4. CASE \E i \in 1 .. Len(a) :
              /\ i <= Len(b)
              /\ compare_prerelease(a, b) = compare_identifier(a[i], b[i])
              /\ compare_prerelease(b, a) = compare_identifier(b[i], a[i])
    BY <1>1, <2>2, <2>3, <2>4
  <2> QED BY <1>1, <1>3, <2>1, <2>4, PrereleaseComparison
<1> QED BY <1>1, <1>2, <1>3

\* A comparison that comes out of a smaller-or-equal one and another.
Chained(ab, bc, ac) == ab <= 0 /\ bc <= 0 => ac <= 0 /\ (ac = 0 => ab = 0)

\* How two prereleases compare, told by where they differ first: at i, or
\* nowhere and i is past the end of the shorter.
SplitAt(a, b, i) ==
  /\ i \in Nat /\ i >= 1
  /\ \A j \in 1 .. i - 1 : j <= Len(a) /\ j <= Len(b) /\ compare_identifier(a[j], b[j]) = 0
  /\ \/ /\ i <= Len(a) /\ i <= Len(b)
        /\ compare_identifier(a[i], b[i]) # 0
        /\ compare_prerelease(a, b) = compare_identifier(a[i], b[i])
     \/ /\ i > Len(a) \/ i > Len(b)
        /\ compare_prerelease(a, b) = Sign(Len(a), Len(b))

LEMMA EveryPairSplits ==
  ASSUME NEW a \in Prerelease, NEW b \in Prerelease, a # <<>>, b # <<>>
  PROVE  \E i : SplitAt(a, b, i)
<1>1. Len(a) \in Nat /\ Len(b) \in Nat
  BY PrereleaseElements
<1>2. CASE \E i \in 1 .. Len(a) :
              /\ i <= Len(b)
              /\ DifferFirstAt(a, b, i) /\ DifferFirstAt(b, a, i)
              /\ compare_prerelease(a, b) = compare_identifier(a[i], b[i])
              /\ compare_prerelease(b, a) = compare_identifier(b[i], a[i])
  <2>1. PICK i \in 1 .. Len(a) :
              /\ i <= Len(b) /\ DifferFirstAt(a, b, i)
              /\ compare_prerelease(a, b) = compare_identifier(a[i], b[i])
    BY <1>2
  <2>2. SplitAt(a, b, i)
    BY <1>1, <2>1 DEF SplitAt, DifferFirstAt
  <2> QED BY <2>2
<1>3. CASE /\ \A i \in 1 .. Len(a) : i <= Len(b) =>
                 compare_identifier(a[i], b[i]) = 0 /\ compare_identifier(b[i], a[i]) = 0
           /\ compare_prerelease(a, b) = Sign(Len(a), Len(b))
           /\ compare_prerelease(b, a) = Sign(Len(b), Len(a))
  <2> DEFINE i == IF Len(a) <= Len(b) THEN Len(a) + 1 ELSE Len(b) + 1
  <2>1. i \in Nat /\ i >= 1 /\ (i > Len(a) \/ i > Len(b))
    BY <1>1
  <2>2. \A j \in 1 .. i - 1 : j \in 1 .. Len(a) /\ j <= Len(a) /\ j <= Len(b)
    BY <1>1
  <2> HIDE DEF i
  <2>3. SplitAt(a, b, i)
    BY <1>3, <2>1, <2>2 DEF SplitAt
  <2> QED BY <2>3
<1> QED BY <1>2, <1>3, PrereleaseComparison

LEMMA PrereleaseTransitive ==
  ASSUME NEW a \in Prerelease, NEW b \in Prerelease, NEW c \in Prerelease
  PROVE  Chained(compare_prerelease(a, b), compare_prerelease(b, c), compare_prerelease(a, c))
<1>1. CASE a = <<>> \/ b = <<>> \/ c = <<>>
  BY <1>1, PrereleaseAntisymmetric DEF Chained, compare_prerelease, Sign
<1>2. CASE a # <<>> /\ b # <<>> /\ c # <<>>
  <2> SUFFICES ASSUME compare_prerelease(a, b) <= 0, compare_prerelease(b, c) <= 0
               PROVE  /\ compare_prerelease(a, c) <= 0
                      /\ compare_prerelease(a, c) = 0 => compare_prerelease(a, b) = 0
    BY DEF Chained
  <2>1. /\ Len(a) \in Nat /\ Len(b) \in Nat /\ Len(c) \in Nat
    BY PrereleaseElements
  <2>2. PICK i : SplitAt(a, b, i)
    BY <1>2, EveryPairSplits
  <2>3. PICK k : SplitAt(b, c, k)
    BY <1>2, EveryPairSplits
  <2>4. ASSUME NEW j \in Nat, j >= 1, j <= Len(a), j <= Len(b), j <= Len(c)
        PROVE  /\ compare_identifier(a[j], b[j]) \in Int
               /\ compare_identifier(b[j], c[j]) \in Int
               /\ compare_identifier(a[j], c[j]) \in Int
               /\ compare_identifier(a[j], b[j]) = 0 =>
                    compare_identifier(a[j], c[j]) = compare_identifier(b[j], c[j])
               /\ compare_identifier(b[j], c[j]) = 0 =>
                    compare_identifier(a[j], c[j]) = compare_identifier(a[j], b[j])
               /\ compare_identifier(a[j], b[j]) < 0 /\ compare_identifier(b[j], c[j]) < 0 =>
                    compare_identifier(a[j], c[j]) < 0
    <3>1. /\ compare_identifier(a[j], b[j]) \in {-1, 0, 1}
          /\ compare_identifier(b[j], c[j]) \in {-1, 0, 1}
          /\ compare_identifier(a[j], c[j]) \in {-1, 0, 1}
      BY <2>4, ElementOrder DEF Weak
    <3> QED BY <2>4, <3>1, EqualElements
  <2>5. CASE i <= Len(a) /\ i <= Len(b) /\ i < k
    <3>1. compare_identifier(a[i], b[i]) < 0
      BY <2>1, <2>2, <2>4, <2>5, <2>3 DEF SplitAt
    <3>2. i <= Len(c) /\ compare_identifier(b[i], c[i]) = 0
      BY <2>2, <2>3, <2>5 DEF SplitAt
    <3>3. compare_identifier(a[i], c[i]) < 0 /\ compare_identifier(a[i], c[i]) \in Int
      BY <2>1, <2>2, <2>4, <2>5, <3>1, <3>2 DEF SplitAt
    <3>4. \A j \in 1 .. i - 1 : compare_identifier(a[j], c[j]) = 0
      BY <2>1, <2>2, <2>3, <2>4, <2>5 DEF SplitAt
    <3>5. compare_prerelease(a, c) = compare_identifier(a[i], c[i])
      BY <2>2, <2>5, <3>2, <3>3, <3>4, FirstDifferenceDecides DEF SplitAt
    <3> QED BY <3>3, <3>5
  <2>6. CASE k <= Len(b) /\ k <= Len(c) /\ k <= Len(a) /\ k <= i
    <3>1. compare_identifier(b[k], c[k]) < 0
      BY <2>1, <2>3, <2>4, <2>6, <2>2 DEF SplitAt
    <3>2. compare_identifier(a[k], b[k]) <= 0
      <4>1. k \in Nat /\ k >= 1 /\ i \in Nat
        BY <2>2, <2>3 DEF SplitAt
      <4>2. CASE k = i
        BY <2>2, <2>6, <4>2 DEF SplitAt
      <4>3. CASE k # i
        <5>1. k \in 1 .. i - 1
          BY <2>6, <4>1, <4>3
        <5>2. compare_identifier(a[k], b[k]) = 0
          BY <2>2, <5>1, Zenon DEF SplitAt
        <5> QED BY <5>2
      <4> QED BY <4>2, <4>3
    <3>3. compare_identifier(a[k], c[k]) < 0 /\ compare_identifier(a[k], c[k]) \in Int
      BY <2>1, <2>3, <2>4, <2>6, <3>1, <3>2 DEF SplitAt
    <3>4. \A j \in 1 .. k - 1 : compare_identifier(a[j], c[j]) = 0
      BY <2>1, <2>2, <2>3, <2>4, <2>6 DEF SplitAt
    <3>5. compare_prerelease(a, c) = compare_identifier(a[k], c[k])
      BY <2>3, <2>6, <3>3, <3>4, FirstDifferenceDecides DEF SplitAt
    <3> QED BY <3>3, <3>5
  <2>7. CASE /\ ~(i <= Len(a) /\ i <= Len(b) /\ i < k)
             /\ ~(k <= Len(b) /\ k <= Len(c) /\ k <= Len(a) /\ k <= i)
    <3>1. \A j \in 1 .. Len(a) : j <= Len(c) => compare_identifier(a[j], c[j]) = 0
      BY <2>1, <2>2, <2>3, <2>4, <2>7 DEF SplitAt, Sign
    <3>2. compare_prerelease(a, c) = Sign(Len(a), Len(c))
      BY <1>2, <3>1, LengthDecides
    <3> QED BY <2>1, <2>2, <2>3, <2>4, <2>7, <3>2 DEF SplitAt, Sign
  <2> QED BY <2>5, <2>6, <2>7
<1> QED BY <1>1, <1>2

\* All of a version but its build, which plays no part in the order.
Comparable(v) ==
  v.major \in Number /\ v.minor \in Number /\ v.patch \in Number
  /\ v.prerelease \in Prerelease

LEMMA VersionsAreComparable == \A v \in Version : Comparable(v)
BY DEF Version, Prerelease, Comparable

LEMMA ComponentsAreNumbers == \A n \in Number : n \in Nat /\ n < NumberLimit
BY LimitsArePositive DEF Number

\* operator<=> tells the same of two versions from either side.
THEOREM CompareIsAntisymmetric ==
  ASSUME NEW a, Comparable(a), NEW b, Comparable(b)
  PROVE  /\ Compare(a, b) \in {-1, 0, 1}
         /\ Compare(b, a) = -Compare(a, b)
         /\ Compare(a, a) = 0
<1>1. /\ compare_prerelease(a.prerelease, b.prerelease) \in {-1, 0, 1}
      /\ compare_prerelease(b.prerelease, a.prerelease)
           = -compare_prerelease(a.prerelease, b.prerelease)
      /\ compare_prerelease(a.prerelease, a.prerelease) = 0
  BY PrereleaseAntisymmetric DEF Comparable
<1> QED BY <1>1, ComponentsAreNumbers DEF Comparable, Compare, Sign

\* A version not after another that is not after a third is not after the third.
THEOREM CompareIsTransitive ==
  ASSUME NEW a, Comparable(a), NEW b, Comparable(b), NEW c, Comparable(c)
  PROVE  Chained(Compare(a, b), Compare(b, c), Compare(a, c))
<1> DEFINE p == compare_prerelease(a.prerelease, b.prerelease)
           q == compare_prerelease(b.prerelease, c.prerelease)
           r == compare_prerelease(a.prerelease, c.prerelease)
<1>1. Chained(p, q, r) /\ p \in Int /\ q \in Int /\ r \in Int
  BY PrereleaseTransitive, PrereleaseAntisymmetric DEF Comparable
<1>2. /\ Compare(a, b) = IF a.major # b.major THEN Sign(a.major, b.major)
                         ELSE IF a.minor # b.minor THEN Sign(a.minor, b.minor)
                         ELSE IF a.patch # b.patch THEN Sign(a.patch, b.patch) ELSE p
      /\ Compare(b, c) = IF b.major # c.major THEN Sign(b.major, c.major)
                         ELSE IF b.minor # c.minor THEN Sign(b.minor, c.minor)
                         ELSE IF b.patch # c.patch THEN Sign(b.patch, c.patch) ELSE q
      /\ Compare(a, c) = IF a.major # c.major THEN Sign(a.major, c.major)
                         ELSE IF a.minor # c.minor THEN Sign(a.minor, c.minor)
                         ELSE IF a.patch # c.patch THEN Sign(a.patch, c.patch) ELSE r
  BY DEF Compare
<1> HIDE DEF p, q, r
<1> QED BY <1>1, <1>2, ComponentsAreNumbers DEF Comparable, Chained, Sign

-----------------------------------------------------------------------------
(* The inputs *)

Subjects == {"nothing", "path", "versions", "range", "constraint", "package"}

InputOK ==
  /\ input.about \in Subjects
  /\ input.about = "path" => input.raw \in Seq(PathComponents)
  /\ input.about = "versions" =>
       input.left \in VersionsToOrder /\ input.right \in VersionsToOrder
  /\ input.about = "range" =>
       input.word \in [op : {"^", "~", ""}, text : RangeTexts]
  /\ input.about = "constraint" => input.text \in Seq(Seq(Words)) /\ input.text # <<>>
  /\ input.about = "package" => input.contents \in PackageContents

THEOREM InputsAreWellFormed == Spec => []InputOK
<1>1. Init => InputOK
  BY DEF Init, InputOK, Subjects
<1>2. InputOK /\ [Next]_input => InputOK'
  <2> SUFFICES ASSUME InputOK, [Next]_input PROVE InputOK'
    OBVIOUS
  <2>1. CASE GrowPath
    <3> DEFINE raw == IF input.about = "path" THEN input.raw ELSE <<>>
    <3>1. PICK c \in PathComponents : input' = [about |-> "path", raw |-> Append(raw, c)]
      BY <2>1 DEF GrowPath
    <3>2. raw \in Seq(PathComponents)
      <4>1. CASE input.about = "path"
        BY <4>1 DEF InputOK
      <4>2. CASE input.about # "path"
        BY <4>2
      <4> QED BY <4>1, <4>2
    <3>3. Append(raw, c) \in Seq(PathComponents)
      BY <3>2
    <3> QED BY <3>1, <3>3 DEF InputOK, Subjects
  <2>2. CASE PickVersions
    BY <2>2 DEF PickVersions, InputOK, Subjects
  <2>3. CASE PickRange
    <3>1. PICK op \in {"^", "~", ""}, text \in RangeTexts :
            input' = [about |-> "range", word |-> [op |-> op, text |-> text]]
      BY <2>3 DEF PickRange
    <3>2. input'.word \in [op : {"^", "~", ""}, text : RangeTexts]
      BY <3>1
    <3> QED BY <3>1, <3>2 DEF InputOK, Subjects
  <2>4. CASE GrowConstraint
    <3> DEFINE text == IF input.about = "constraint" THEN input.text ELSE <<<<>>>>
    <3>1. PICK grown \in {Append(text, <<>>)} \cup
                         {[text EXCEPT ![Len(text)] = Append(@, w)] : w \in Words} :
            input' = [about |-> "constraint", text |-> grown]
      BY <2>4 DEF GrowConstraint
    <3>2. text \in Seq(Seq(Words)) /\ text # <<>>
      <4>1. CASE input.about = "constraint"
        BY <4>1 DEF InputOK
      <4>2. CASE input.about # "constraint"
        <5>1. <<>> \in Seq(Words)
          OBVIOUS
        <5> QED BY <4>2, <5>1
      <4> QED BY <4>1, <4>2
    <3> HIDE DEF text
    <3>3. grown \in Seq(Seq(Words)) /\ grown # <<>>
      <4>1. CASE grown = Append(text, <<>>)
        BY <3>2, <4>1
      <4>2. CASE \E w \in Words : grown = [text EXCEPT ![Len(text)] = Append(@, w)]
        BY <3>2, <4>2
      <4> QED BY <3>1, <4>1, <4>2
    <3> QED BY <3>1, <3>3 DEF InputOK, Subjects
  <2>5. CASE PickContents
    BY <2>5 DEF PickContents, InputOK, Subjects
  <2>6. CASE UNCHANGED input
    BY <2>6 DEF InputOK
  <2> QED BY <2>1, <2>2, <2>3, <2>4, <2>5, <2>6 DEF Next
<1> QED BY <1>1, <1>2, PTL DEF Spec

\* The order of versions is one std::sort can use.
THEOREM VersionsAreOrdered == Spec => []VersionOrderIsWeak
<1>1. InputOK => VersionOrderIsWeak
  <2> SUFFICES ASSUME InputOK, input.about = "versions" PROVE VersionOrderIsWeak
    BY DEF VersionOrderIsWeak
  <2>1. Comparable(input.left) /\ Comparable(input.right)
    BY InputsAssumption, VersionsAreComparable DEF InputOK
  <2>2. \A middle \in VersionsToOrder : Comparable(middle)
    BY InputsAssumption, VersionsAreComparable
  <2> DEFINE left == input.left
             right == input.right
  <2> HIDE DEF left, right
  <2>3. /\ Compare(right, left) = -Compare(left, right)
        /\ left = right => Compare(left, right) = 0
    BY <2>1, CompareIsAntisymmetric DEF left, right
  <2>4. ASSUME NEW middle \in VersionsToOrder
        PROVE  Chained(Compare(left, middle), Compare(middle, right), Compare(left, right))
    BY <2>1, <2>2, CompareIsTransitive DEF left, right
  <2> QED BY <2>3, <2>4 DEF VersionOrderIsWeak, Chained, left, right
<1> QED BY <1>1, InputsAreWellFormed, PTL

-----------------------------------------------------------------------------
(* Ranges *)

\* Two versions agree on their first k components.
LEMMA SameCore ==
  ASSUME NEW a \in Int, NEW b \in Int, NEW c \in Int,
         NEW x \in Int, NEW y \in Int, NEW z \in Int, NEW k \in 0 .. 3
  PROVE  SubSeq(<<a, b, c>>, 1, k) = SubSeq(<<x, y, z>>, 1, k) <=>
           (k >= 1 => a = x) /\ (k >= 2 => b = y) /\ (k >= 3 => c = z)
<1> DEFINE s == <<a, b, c>>
           t == <<x, y, z>>
<1>1. /\ s \in Seq(Int) /\ Len(s) = 3 /\ s[1] = a /\ s[2] = b /\ s[3] = c
      /\ t \in Seq(Int) /\ Len(t) = 3 /\ t[1] = x /\ t[2] = y /\ t[3] = z
  OBVIOUS
<1> HIDE DEF s, t
<1>2. /\ Len(SubSeq(s, 1, k)) = k /\ Len(SubSeq(t, 1, k)) = k
      /\ SubSeq(s, 1, k) \in Seq(Int) /\ SubSeq(t, 1, k) \in Seq(Int)
      /\ \A i \in 1 .. k : SubSeq(s, 1, k)[i] = s[i] /\ SubSeq(t, 1, k)[i] = t[i]
  BY <1>1
<1>3. SubSeq(s, 1, k) = SubSeq(t, 1, k) <=> \A i \in 1 .. k : s[i] = t[i]
  <2>1. ASSUME SubSeq(s, 1, k) = SubSeq(t, 1, k) PROVE \A i \in 1 .. k : s[i] = t[i]
    BY <1>2, <2>1
  <2>2. ASSUME \A i \in 1 .. k : s[i] = t[i] PROVE SubSeq(s, 1, k) = SubSeq(t, 1, k)
    BY <1>2, <2>2
  <2> QED BY <2>1, <2>2
<1>4. (\A i \in 1 .. k : s[i] = t[i]) <=>
        (k >= 1 => a = x) /\ (k >= 2 => b = y) /\ (k >= 3 => c = z)
  <2>1. k = 0 \/ k = 1 \/ k = 2 \/ k = 3
    OBVIOUS
  <2>2. 1 .. 0 = {} /\ 1 .. 1 = {1} /\ 1 .. 2 = {1, 2} /\ 1 .. 3 = {1, 2, 3}
    OBVIOUS
  <2> QED BY <1>1, <2>1, <2>2
<1> QED BY <1>3, <1>4 DEF s, t

\* Before the first wildcard there are at most as many components as in all.
LEMMA GivenComponents ==
  ASSUME NEW text \in VersionText, Len(text.components) \in 1 .. 3
  PROVE  /\ Given(text, TRUE) \in Seq(Nat \cup {Wildcard, Malformed})
         /\ Len(Given(text, TRUE)) \in 0 .. 3
<1> DEFINE all == text.components
           before == {i \in DOMAIN all : TRUE => Wildcard \notin {all[j] : j \in 1 .. i}}
<1>1. all \in Seq(Nat \cup {Wildcard, Malformed})
  BY DEF VersionText
<1>2. DOMAIN all = 1 .. Len(all) /\ Len(all) \in 1 .. 3
  BY <1>1
<1>3. IsFiniteSet(1 .. Len(all)) /\ Cardinality(1 .. Len(all)) = Len(all)
  BY <1>2, FS_Interval
<1>4. before \subseteq 1 .. Len(all)
  BY <1>2
<1> DEFINE n == Cardinality(before)
<1>5. Given(text, TRUE) = SubSeq(all, 1, n)
  BY DEF Given
<1> HIDE DEF before, all
<1>6. n \in Nat /\ n <= Cardinality(1 .. Len(all))
  BY <1>3, <1>4, FS_Subset, FS_CardinalityType
<1> HIDE DEF n
<1>7. n \in 0 .. 3 /\ n <= Len(all)
  BY <1>2, <1>3, <1>6
<1>8. /\ SubSeq(all, 1, n) \in Seq(Nat \cup {Wildcard, Malformed})
      /\ Len(SubSeq(all, 1, n)) = n
  BY <1>1, <1>2, <1>7
<1> QED BY <1>5, <1>7, <1>8

\* A version as it is read.
VersionOf(x, y, z, pre, b) ==
  [major |-> x, minor |-> y, patch |-> z, prerelease |-> pre, build |-> b]

IsVersion(v) ==
  \E x, y, z \in Number, pre \in Prerelease : \E build : v = VersionOf(x, y, z, pre, build)

LEMMA VersionsCompare ==
  ASSUME NEW v, IsVersion(v) PROVE Comparable(v)
BY DEF IsVersion, VersionOf, Comparable

\* What parses is a version.
LEMMA ParsedVersion ==
  ASSUME NEW text \in VersionText, parse_core(text, TRUE).ok
  PROVE  /\ Len(Given(text, TRUE)) \in 0 .. 3
         /\ IsVersion(parse_core(text, TRUE).value)
<1> DEFINE given == Given(text, TRUE)
           Nth(i) == IF i <= Len(given) THEN given[i] ELSE 0
           version == [major |-> Nth(1), minor |-> Nth(2), patch |-> Nth(3),
                       prerelease |-> DashTail(text),
                       build |-> IF text.plus THEN text.build ELSE ""]
<1>1. /\ Len(text.components) \in 1 .. 3
      /\ \A i \in DOMAIN given : given[i] \in Number
      /\ parse_core(text, TRUE) = Parsed(version)
  BY DEF parse_core, Failed
<1>2. given \in Seq(Nat \cup {Wildcard, Malformed}) /\ Len(given) \in 0 .. 3
  BY <1>1, GivenComponents
<1>3. 0 \in Number
  BY LimitsArePositive DEF Number
<1>4. Nth(1) \in Number /\ Nth(2) \in Number /\ Nth(3) \in Number
  <2> HIDE DEF given
  <2>1. DOMAIN given = 1 .. Len(given)
    BY <1>2
  <2>2. \A i \in 1 .. 3 : i <= Len(given) => i \in DOMAIN given
    BY <1>2, <2>1
  <2>3. ASSUME NEW i \in 1 .. 3 PROVE Nth(i) \in Number
    BY <1>1, <1>3, <2>2
  <2> HIDE DEF Nth
  <2> QED BY <2>3
<1>5. DashTail(text) \in Prerelease
  BY DEF DashTail, VersionText, Prerelease
<1> HIDE DEF Nth
<1>6. IsVersion(version)
  BY <1>4, <1>5 DEF IsVersion, VersionOf
<1> HIDE DEF version
<1>7. parse_core(text, TRUE).value = version
  <2> DEFINE parsed == parse_core(text, TRUE)
  <2>1. parsed = Parsed(version)
    BY <1>1
  <2> HIDE DEF parsed
  <2>2. parsed.value = version
    BY <2>1 DEF Parsed
  <2> QED BY <2>2 DEF parsed
<1> QED BY <1>2, <1>6, <1>7

LEMMA CandidateFields ==
  ASSUME NEW v \in Candidates
  PROVE  Comparable(v) /\ v.prerelease = <<>>
<1>1. <<>> \in Prerelease
  BY DEF Prerelease
<1> QED BY <1>1 DEF Candidates, Comparable

\* A clause allows what each of its predicates allows.
LEMMA ClauseMatches ==
  ASSUME NEW clause, NEW v
  PROVE  constraint_matches(<<clause>>, v) <=>
           \A p \in DOMAIN clause : predicate_matches(clause[p], v)
<1> DEFINE constraint == <<clause>>
<1>1. constraint # AnyVersion /\ DOMAIN constraint = {1} /\ constraint[1] = clause
  BY DEF AnyVersion
<1> HIDE DEF constraint
<1>2. constraint_matches(constraint, v) <=>
        \A p \in DOMAIN clause : predicate_matches(clause[p], v)
  BY <1>1 DEF constraint_matches
<1> QED BY <1>2 DEF constraint

\* Counting up does not wrap below the largest number.
LEMMA BumpCounts ==
  ASSUME NEW n \in Number, n < NumberLimit - 1
  PROVE  Bump(n) = n + 1 /\ Bump(n) \in Number
BY LimitsArePositive DEF Bump, Number

\* A release comes before a version when its components do.
Before(v, w) ==
  \/ v.major < w.major
  \/ v.major = w.major /\ v.minor < w.minor
  \/ v.major = w.major /\ v.minor = w.minor /\ v.patch < w.patch

LEMMA ReleaseOrder ==
  ASSUME NEW v \in Candidates, NEW w, Comparable(w)
  PROVE  /\ Compare(v, w) \in Int
         /\ Compare(v, w) < 0 <=> Before(v, w)
<1>1. Comparable(v) /\ v.prerelease = <<>>
  BY CandidateFields
<1>2. compare_prerelease(v.prerelease, w.prerelease) \in {0, 1}
  BY <1>1 DEF compare_prerelease, Sign
<1> QED BY <1>1, <1>2, ComponentsAreNumbers DEF Comparable, Compare, Sign, Before

\* The releases from a version on and before the upper bound of its range are
\* those with its first components.
LEMMA RangeKeepsCore ==
  ASSUME NEW op \in {"^", "~"}, NEW v \in Candidates,
         NEW x \in Number, NEW y \in Number, NEW z \in Number,
         NEW pre \in Prerelease, NEW build, NEW kept,
         kept = IF op = "~" THEN 2 ELSE IF x > 0 THEN 1 ELSE IF y > 0 THEN 2 ELSE 3,
         (IF kept = 1 THEN x ELSE IF kept = 2 THEN y ELSE z) < NumberLimit - 1
  PROVE  LET base == VersionOf(x, y, z, pre, build)
         IN  /\ Comparable(base) /\ Comparable(Upper(op, base))
             /\ ~Before(v, base) =>
                  (Before(v, Upper(op, base)) <=>
                     /\ v.major = x
                     /\ kept >= 2 => v.minor = y
                     /\ kept >= 3 => v.patch = z)
<1> DEFINE base  == VersionOf(x, y, z, pre, build)
           upper == IF kept = 1 THEN VersionOf(x + 1, 0, 0, pre, build)
                    ELSE IF kept = 2 THEN VersionOf(x, y + 1, 0, pre, build)
                    ELSE VersionOf(x, y, z + 1, pre, build)
<1>1. /\ x \in Nat /\ y \in Nat /\ z \in Nat
      /\ v.major \in Nat /\ v.minor \in Nat /\ v.patch \in Nat
  BY CandidateFields, ComponentsAreNumbers DEF Comparable
<1>2. 0 \in Number
  BY LimitsArePositive DEF Number
<1>3. Upper(op, base) = upper /\ Comparable(upper)
  <2>1. CASE kept = 1
    <3>1. Bump(x) = x + 1 /\ x + 1 \in Number
      BY <2>1, BumpCounts
    <3>2. op = "^" /\ x > 0
      BY <2>1
    <3>3. Upper(op, base) = VersionOf(x + 1, 0, 0, pre, build)
      BY <3>1, <3>2 DEF Upper, VersionOf
    <3> QED BY <1>2, <2>1, <3>1, <3>3 DEF VersionOf, Comparable
  <2>2. CASE kept = 2
    <3>1. Bump(y) = y + 1 /\ y + 1 \in Number
      BY <2>2, BumpCounts
    <3>2. op # "^" \/ (~(x > 0) /\ y # 0)
      BY <2>2, <1>1
    <3>3. Upper(op, base) = VersionOf(x, y + 1, 0, pre, build)
      BY <3>1, <3>2 DEF Upper, VersionOf
    <3> QED BY <1>2, <2>2, <3>1, <3>3 DEF VersionOf, Comparable
  <2>3. CASE kept = 3
    <3>1. Bump(z) = z + 1 /\ z + 1 \in Number
      BY <2>3, BumpCounts
    <3>2. op = "^" /\ ~(x > 0) /\ y = 0
      BY <2>3, <1>1
    <3>3. Upper(op, base) = VersionOf(x, y, z + 1, pre, build)
      BY <3>1, <3>2 DEF Upper, VersionOf
    <3> QED BY <2>3, <3>1, <3>3 DEF VersionOf, Comparable
  <2> QED BY <2>1, <2>2, <2>3
<1>4. Comparable(base)
  BY DEF Comparable, VersionOf
<1>5. ~Before(v, base) =>
        (Before(v, upper) <=> /\ v.major = x
                              /\ kept >= 2 => v.minor = y
                              /\ kept >= 3 => v.patch = z)
  BY <1>1 DEF Before, VersionOf
<1> QED BY <1>3, <1>4, <1>5

\* Of a range, both bounds are asked.
LEMMA RangeMatches ==
  ASSUME NEW op \in {"^", "~"}, NEW text, NEW v \in Candidates,
         ReadWord([op |-> op, text |-> text]).ok,
         Comparable(parse_core(text, TRUE).value),
         Comparable(Upper(op, parse_core(text, TRUE).value))
  PROVE  constraint_matches(<<ReadWord([op |-> op, text |-> text]).value>>, v) <=>
           /\ ~Before(v, parse_core(text, TRUE).value)
           /\ Before(v, Upper(op, parse_core(text, TRUE).value))
<1> DEFINE parsed == parse_core(text, TRUE)
           base   == parsed.value
           upper  == Upper(op, base)
           word   == [op |-> op, text |-> text]
           lowest == [comparator |-> ">=", version |-> base, precision |-> NoPrecision]
           past   == [comparator |-> "<", version |-> upper, precision |-> NoPrecision]
           clause == <<lowest, past>>
<1>1. word.op \in {"^", "~"} /\ word.text = text /\ word.op = op
  OBVIOUS
<1>2. ReadWord(word) = IF ~parsed.ok THEN parsed ELSE Parsed(clause)
  BY <1>1 DEF ReadWord
<1>0. ReadWord(word).ok
  OBVIOUS
<1> HIDE DEF word, parsed, clause
<1>3. parsed.ok
  BY <1>0, <1>2
<1>4. ReadWord(word).value = clause
  BY <1>2, <1>3 DEF Parsed
<1>5. constraint_matches(<<clause>>, v) <=>
        predicate_matches(lowest, v) /\ predicate_matches(past, v)
  <2>1. DOMAIN clause = {1, 2} /\ clause[1] = lowest /\ clause[2] = past
    BY DEF clause
  <2> HIDE DEF lowest, past
  <2> QED BY <2>1, ClauseMatches
<1>6. /\ Compare(v, base) \in Int
      /\ Compare(v, base) < 0 <=> Before(v, base)
      /\ Compare(v, upper) \in Int
      /\ Compare(v, upper) < 0 <=> Before(v, upper)
  BY ReleaseOrder DEF parsed
<1> HIDE DEF base, upper
<1>7. predicate_matches(lowest, v) <=> Compare(v, base) = 0 \/ Compare(v, base) > 0
  BY DEF predicate_matches, NoPrecision
<1>8. predicate_matches(past, v) <=> Compare(v, upper) < 0
  BY DEF predicate_matches, NoPrecision
<1>9. constraint_matches(<<ReadWord(word).value>>, v) <=> ~Before(v, base) /\ Before(v, upper)
  BY <1>4, <1>5, <1>6, <1>7, <1>8
<1> QED BY <1>9 DEF word, base, upper, parsed

\* A text alone is read as one predicate,
LEMMA TextIsPredicate ==
  ASSUME NEW word, word.op = "", ReadWord(word).ok
  PROVE  /\ parse_core(word.text, TRUE).ok
         /\ ReadWord(word).value =
              <<[comparator |-> "=", version |-> parse_core(word.text, TRUE).value,
                 precision |-> Len(Given(word.text, TRUE))]>>
<1> DEFINE parsed == parse_core(word.text, TRUE)
           equal  == [comparator |-> "=", version |-> parsed.value,
                      precision |-> Len(Given(word.text, TRUE))]
           read   == predicate_for(word.op, word.text)
<1>1. word.op \notin {"^", "~"}
  OBVIOUS
<1>2. read = IF ~parsed.ok THEN parsed ELSE Parsed(equal)
  BY Zenon DEF predicate_for
<1>3. ReadWord(word) = IF read.ok THEN Parsed(<<read.value>>) ELSE read
  BY <1>1, Zenon DEF ReadWord
<1> HIDE DEF parsed, equal, read
<1>4. parsed.ok
  BY <1>2, <1>3, Zenon
<1>5. read = Parsed(equal)
  BY <1>2, <1>4, Zenon
<1>6. ReadWord(word).value = <<equal>>
  <2>1. \A x : Parsed(x).ok /\ Parsed(x).value = x
    BY DEF Parsed
  <2> QED BY <1>3, <1>5, <2>1, Zenon
<1> QED BY <1>4, <1>6, Zenon DEF parsed, equal

\* which asks for the components it gives.
LEMMA TextMatches ==
  ASSUME NEW version, NEW n \in 0 .. 3, NEW v
  PROVE  constraint_matches(<<<<[comparator |-> "=", version |-> version, precision |-> n]>>>>, v) <=>
           /\ n >= 1 => v.major = version.major
           /\ n >= 2 => v.minor = version.minor
           /\ n >= 3 => v.patch = version.patch
<1> DEFINE equal  == [comparator |-> "=", version |-> version, precision |-> n]
           clause == <<equal>>
<1>1. DOMAIN clause = {1} /\ clause[1] = equal
  OBVIOUS
<1>2. predicate_matches(equal, v) <=>
        /\ n >= 1 => v.major = version.major
        /\ n >= 2 => v.minor = version.minor
        /\ n >= 3 => v.patch = version.patch
  <2>1. equal.comparator = "=" /\ equal.version = version /\ equal.precision = n
    OBVIOUS
  <2>2. n # NoPrecision
    BY DEF NoPrecision
  <2> HIDE DEF equal
  <2> QED BY <2>1, <2>2 DEF predicate_matches
<1> HIDE DEF equal, clause
<1>3. constraint_matches(<<clause>>, v) <=> predicate_matches(equal, v)
  BY <1>1, ClauseMatches
<1> QED BY <1>2, <1>3 DEF clause, equal

\* The first k components of two versions as sequences.
CoreOf(v, k) == SubSeq(<<v.major, v.minor, v.patch>>, 1, k)

LEMMA CoresAgree ==
  ASSUME NEW v, Comparable(v), NEW w, Comparable(w), NEW k \in 0 .. 3
  PROVE  CoreOf(v, k) = CoreOf(w, k) <=>
           /\ k >= 1 => v.major = w.major
           /\ k >= 2 => v.minor = w.minor
           /\ k >= 3 => v.patch = w.patch
<1>1. /\ v.major \in Int /\ v.minor \in Int /\ v.patch \in Int
      /\ w.major \in Int /\ w.minor \in Int /\ w.patch \in Int
  BY ComponentsAreNumbers DEF Comparable
<1> QED BY <1>1, SameCore DEF CoreOf

LEMMA CoreElement ==
  ASSUME NEW v, Comparable(v), NEW k \in 1 .. 3
  PROVE  CoreOf(v, k)[k] = IF k = 1 THEN v.major ELSE IF k = 2 THEN v.minor ELSE v.patch
<1> DEFINE s == <<v.major, v.minor, v.patch>>
<1>1. s \in Seq(Int) /\ Len(s) = 3 /\ s[1] = v.major /\ s[2] = v.minor /\ s[3] = v.patch
  BY ComponentsAreNumbers DEF Comparable
<1>2. CoreOf(v, k) = SubSeq(s, 1, k)
  BY DEF CoreOf
<1> HIDE DEF s
<1>3. SubSeq(s, 1, k)[k] = s[k]
  BY <1>1
<1>4. s[k] = IF k = 1 THEN v.major ELSE IF k = 2 THEN v.minor ELSE v.patch
  BY <1>1
<1>5. CoreOf(v, k)[k] = s[k]
  BY <1>2, <1>3, Zenon
<1> QED BY <1>4, <1>5, Zenon

LEMMA PrecisionKeepsPrefix ==
  ASSUME NEW v \in Candidates, NEW b, Comparable(b), NEW k \in 0 .. 3
  PROVE  constraint_matches(<<<<[comparator |-> "=", version |-> b, precision |-> k]>>>>, v)
           <=> CoreOf(v, k) = CoreOf(b, k)
<1>1. Comparable(v)
  BY CandidateFields
<1>2. CoreOf(v, k) = CoreOf(b, k) <=> /\ k >= 1 => v.major = b.major
                                      /\ k >= 2 => v.minor = b.minor
                                      /\ k >= 3 => v.patch = b.patch
  BY <1>1, CoresAgree
<1> QED BY <1>2, TextMatches

LEMMA TextKeepsPrefix ==
  ASSUME NEW word, word.op = "", word.text \in VersionText, ReadWord(word).ok,
         NEW v \in Candidates
  PROVE  constraint_matches(<<ReadWord(word).value>>, v) <=>
           CoreOf(v, Len(Given(word.text, TRUE)))
             = CoreOf(parse_core(word.text, TRUE).value, Len(Given(word.text, TRUE)))
<1> DEFINE parsed == parse_core(word.text, TRUE)
           base   == parsed.value
           n      == Len(Given(word.text, TRUE))
           clause == ReadWord(word).value
<1>1. /\ parsed.ok
      /\ clause = <<[comparator |-> "=", version |-> base, precision |-> n]>>
  BY TextIsPredicate, Zenon
<1>2. \A text \in VersionText : parse_core(text, TRUE).ok =>
        /\ Len(Given(text, TRUE)) \in 0 .. 3
        /\ Comparable(parse_core(text, TRUE).value)
  BY ParsedVersion, VersionsCompare, Zenon
<1>3. n \in 0 .. 3 /\ Comparable(base)
  BY <1>1, <1>2, Zenon
<1> HIDE DEF parsed, base, n, clause
<1>4. constraint_matches(<<clause>>, v) <=> CoreOf(v, n) = CoreOf(base, n)
  BY <1>1, <1>3, PrecisionKeepsPrefix, Zenon
<1> QED BY <1>4, Zenon DEF parsed, base, n, clause

\* How many components a range keeps.
KeptBy(op, base) ==
  IF op = "~" THEN 2 ELSE IF base.major > 0 THEN 1 ELSE IF base.minor > 0 THEN 2 ELSE 3

\* The component it counts up does not wrap.
RangeFits(op, base) == CoreOf(base, KeptBy(op, base))[KeptBy(op, base)] < NumberLimit - 1

RangeAllows(op, base, v) ==
  Compare(v, base) >= 0 /\ CoreOf(v, KeptBy(op, base)) = CoreOf(base, KeptBy(op, base))

LEMMA BoundsKeepPrefix ==
  ASSUME NEW op \in {"^", "~"}, NEW v \in Candidates,
         NEW base, IsVersion(base), RangeFits(op, base)
  PROVE  /\ Comparable(base) /\ Comparable(Upper(op, base))
         /\ ~Before(v, base) /\ Before(v, Upper(op, base)) <=> RangeAllows(op, base, v)
<1> DEFINE kept == KeptBy(op, base)
<1>a. PICK x \in Number, y \in Number, z \in Number, pre \in Prerelease :
        \E build : base = VersionOf(x, y, z, pre, build)
  BY DEF IsVersion
<1>0. PICK build : base = VersionOf(x, y, z, pre, build)
  BY <1>a
<1>1. base.major = x /\ base.minor = y /\ base.patch = z /\ Comparable(base)
  BY <1>0 DEF VersionOf, Comparable
<1>2. kept = (IF op = "~" THEN 2 ELSE IF x > 0 THEN 1 ELSE IF y > 0 THEN 2 ELSE 3)
      /\ kept \in 1 .. 3
  BY <1>1 DEF KeptBy
<1> HIDE DEF kept
<1>3. (IF kept = 1 THEN x ELSE IF kept = 2 THEN y ELSE z) < NumberLimit - 1
  <2>1. CoreOf(base, kept)[kept] < NumberLimit - 1
    BY DEF kept, RangeFits
  <2> QED BY <1>1, <1>2, <2>1, CoreElement
<1>4. /\ Comparable(Upper(op, base))
      /\ ~Before(v, base) => (Before(v, Upper(op, base)) <=>
                                /\ v.major = x
                                /\ kept >= 2 => v.minor = y
                                /\ kept >= 3 => v.patch = z)
  BY <1>0, <1>2, <1>3, RangeKeepsCore
<1>5. CoreOf(v, kept) = CoreOf(base, kept) <=> /\ v.major = x
                                               /\ kept >= 2 => v.minor = y
                                               /\ kept >= 3 => v.patch = z
  <2>1. Comparable(v) /\ kept \in 0 .. 3 /\ kept >= 1
    BY <1>2, CandidateFields
  <2> QED BY <1>1, <2>1, CoresAgree
<1>6. Compare(v, base) >= 0 <=> ~Before(v, base)
  BY <1>1, ReleaseOrder
<1> QED BY <1>1, <1>4, <1>5, <1>6 DEF kept, RangeAllows

\* What is read from a text with ^ or ~, when it is read.
LEMMA RangeIsParsed ==
  ASSUME NEW op \in {"^", "~"}, NEW text, ReadWord([op |-> op, text |-> text]).ok
  PROVE  parse_core(text, TRUE).ok
<1> DEFINE word   == [op |-> op, text |-> text]
           parsed == parse_core(text, TRUE)
<1>1. word.op \in {"^", "~"} /\ word.text = text /\ ReadWord(word).ok
  OBVIOUS
<1> HIDE DEF word
<1>2. ~parsed.ok => ReadWord(word) = parsed
  BY <1>1 DEF ReadWord
<1> HIDE DEF parsed
<1>3. parsed.ok
  BY <1>1, <1>2
<1> QED BY <1>3 DEF parsed

LEMMA WordFields ==
  ASSUME NEW op, NEW text, NEW word, word = [op |-> op, text |-> text]
  PROVE  word.op = op /\ word.text = text
OBVIOUS

LEMMA RangeKeepsPrefix ==
  ASSUME NEW op \in {"^", "~"}, NEW text \in VersionText, NEW v \in Candidates,
         NEW word, word = [op |-> op, text |-> text], ReadWord(word).ok,
         NEW base, base = parse_core(text, TRUE).value,
         RangeFits(op, base)
  PROVE  constraint_matches(<<ReadWord(word).value>>, v) <=> RangeAllows(op, base, v)
<1>1. IsVersion(base)
  BY RangeIsParsed, ParsedVersion, Zenon
<1>2. /\ Comparable(base) /\ Comparable(Upper(op, base))
      /\ ~Before(v, base) /\ Before(v, Upper(op, base)) <=> RangeAllows(op, base, v)
  BY <1>1, BoundsKeepPrefix, Zenon
<1>3. constraint_matches(<<ReadWord(word).value>>, v) <=>
        ~Before(v, base) /\ Before(v, Upper(op, base))
  BY <1>2, RangeMatches, Zenon
<1> QED BY <1>2, <1>3, Zenon

\* A range means the components it keeps, in every state.
THEOREM RangesKeepTheirPrefix == Spec => []RangesMeanTheirPrefix
<1> DEFINE word   == input.word
           base   == parse_core(word.text, TRUE).value
           clause == ReadWord(word).value
           kept   == IF word.op = "" THEN Len(Given(word.text, TRUE))
                     ELSE IF word.op = "~" THEN 2
                     ELSE IF base.major > 0 THEN 1
                     ELSE IF base.minor > 0 THEN 2 ELSE 3
           Core(v) == SubSeq(<<v.major, v.minor, v.patch>>, 1, kept)
<1>1. ASSUME InputOK, input.about = "range", ReadWord(word).ok,
             word.op = "" \/ Core(base)[kept] < NumberLimit - 1, NEW v \in Candidates
      PROVE  constraint_matches(<<clause>>, v) <=>
               (word.op = "" \/ Compare(v, base) >= 0) /\ Core(v) = Core(base)
  <2>1. word \in [op : {"^", "~", ""}, text : RangeTexts]
    BY <1>1, Zenon DEF InputOK
  <2>2. word.op \in {"^", "~", ""} /\ word.text \in RangeTexts
        /\ word = [op |-> word.op, text |-> word.text]
    BY <2>1
  <2>3. word.text \in VersionText
    BY <2>2, InputsAssumption, Zenon
  <2>4. \A u : Core(u) = CoreOf(u, kept)
    BY Zenon DEF CoreOf
  <2>5. CASE word.op = ""
    <3>1. kept = Len(Given(word.text, TRUE))
      BY <2>5, Zenon
    <3>2. constraint_matches(<<clause>>, v) <=> CoreOf(v, kept) = CoreOf(base, kept)
      BY <1>1, <2>3, <2>5, <3>1, TextKeepsPrefix, Zenon
    <3> QED BY <2>4, <2>5, <3>2, Zenon
  <2>6. CASE word.op # ""
    <3>1. word.op \in {"^", "~"}
      BY <2>2, <2>6, Zenon
    <3>2. kept = KeptBy(word.op, base)
      BY <2>6, Zenon DEF KeptBy
    <3>3. CoreOf(base, kept)[kept] < NumberLimit - 1
      BY <1>1, <2>4, <2>6, Zenon
    <3>4. base = parse_core(word.text, TRUE).value
      BY Zenon
    <3>5. RangeFits(word.op, base)
      BY <3>2, <3>3, Zenon DEF RangeFits
    <3> HIDE DEF kept, base
    <3>6. constraint_matches(<<clause>>, v) <=> RangeAllows(word.op, base, v)
      BY <1>1, <2>2, <2>3, <3>1, <3>4, <3>5, RangeKeepsPrefix, Zenon
    <3>7. constraint_matches(<<clause>>, v) <=>
            Compare(v, base) >= 0 /\ CoreOf(v, kept) = CoreOf(base, kept)
      BY <3>2, <3>6, Zenon DEF RangeAllows
    <3> QED BY <2>4, <2>6, <3>7, Zenon
  <2> QED BY <2>5, <2>6, Zenon
<1>2. InputOK => RangesMeanTheirPrefix
  BY <1>1, Zenon DEF RangesMeanTheirPrefix
<1> QED BY <1>2, InputsAreWellFormed, PTL

-----------------------------------------------------------------------------
(* Paths: the components kept are those of an increasing sequence of places, *)
(* the names that survive, and the last of them has one name more than ".."  *)
(* after it, the one before it two more, and so on: so ".." takes back the   *)
(* last.                                                                     *)

CountIn(T, i, j) == Cardinality({x \in i .. j : x \in T})

\* One more place counts when it is in T.
LEMMA CountOneMore ==
  ASSUME NEW T, NEW i \in Nat, NEW k \in Nat, i <= k + 1
  PROVE  /\ CountIn(T, i, k) \in Nat
         /\ CountIn(T, i, k + 1) = CountIn(T, i, k) + (IF k + 1 \in T THEN 1 ELSE 0)
         /\ CountIn(T, k + 1, k) = 0
<1> DEFINE A == {x \in i .. k : x \in T}
           B == {x \in i .. k + 1 : x \in T}
<1>1. IsFiniteSet(A)
  <2>1. IsFiniteSet(i .. k)
    BY FS_Interval
  <2> QED BY <2>1, FS_Subset
<1>2. Cardinality(A) \in Nat
  <2> HIDE DEF A
  <2> QED BY <1>1, FS_CardinalityType
<1>3. Cardinality(B) = Cardinality(A) + (IF k + 1 \in T THEN 1 ELSE 0)
  <2>1. CASE k + 1 \in T
    <3>1. B = A \cup {k + 1} /\ k + 1 \notin A
      BY <2>1
    <3> HIDE DEF A, B
    <3>2. Cardinality(B) = Cardinality(A) + 1
      BY <1>1, <3>1, FS_AddElement
    <3> QED BY <2>1, <3>2
  <2>2. CASE k + 1 \notin T
    <3>1. B = A
      BY <2>2
    <3> HIDE DEF A, B
    <3> QED BY <1>2, <2>2, <3>1
  <2> QED BY <2>1, <2>2
<1>4. Cardinality({x \in k + 1 .. k : x \in T}) = 0
  <2>1. {x \in k + 1 .. k : x \in T} = {}
    OBVIOUS
  <2> QED BY <2>1, FS_EmptySet
<1> QED BY <1>2, <1>3, <1>4 DEF CountIn

LEMMA CountsOneMore ==
  ASSUME NEW raw, NEW i \in Nat, NEW k \in Nat, i <= k + 1
  PROVE  /\ NamesIn(raw, i, k) \in Nat /\ UpsIn(raw, i, k) \in Nat
         /\ NamesIn(raw, i, k + 1) = NamesIn(raw, i, k) + (IF IsName(raw[k + 1]) THEN 1 ELSE 0)
         /\ UpsIn(raw, i, k + 1) = UpsIn(raw, i, k) + (IF raw[k + 1] = Up THEN 1 ELSE 0)
         /\ NamesIn(raw, k + 1, k) = 0 /\ UpsIn(raw, k + 1, k) = 0
<1> DEFINE names == {x \in Nat : IsName(raw[x])}
           ups   == {x \in Nat : raw[x] = Up}
<1>1. \A a \in Nat, b \in Nat :
        /\ NamesIn(raw, a, b) = CountIn(names, a, b)
        /\ UpsIn(raw, a, b) = CountIn(ups, a, b)
  <2> SUFFICES ASSUME NEW a \in Nat, NEW b \in Nat
               PROVE  /\ NamesIn(raw, a, b) = CountIn(names, a, b)
                      /\ UpsIn(raw, a, b) = CountIn(ups, a, b)
    OBVIOUS
  <2>1. {x \in a .. b : x \in names} = {x \in a .. b : IsName(raw[x])}
    OBVIOUS
  <2>2. {x \in a .. b : x \in ups} = {x \in a .. b : raw[x] = Up}
    OBVIOUS
  <2> QED BY <2>1, <2>2 DEF NamesIn, UpsIn, CountIn
<1>2. k + 1 \in Nat /\ (k + 1 \in names <=> IsName(raw[k + 1])) /\ (k + 1 \in ups <=> raw[k + 1] = Up)
  OBVIOUS
<1> HIDE DEF names, ups
<1>3. /\ CountIn(names, i, k) \in Nat
      /\ CountIn(names, i, k + 1) = CountIn(names, i, k) + (IF k + 1 \in names THEN 1 ELSE 0)
      /\ CountIn(names, k + 1, k) = 0
  BY CountOneMore
<1>4. /\ CountIn(ups, i, k) \in Nat
      /\ CountIn(ups, i, k + 1) = CountIn(ups, i, k) + (IF k + 1 \in ups THEN 1 ELSE 0)
      /\ CountIn(ups, k + 1, k) = 0
  BY CountOneMore
<1> QED BY <1>1, <1>2, <1>3, <1>4

\* What a component adds to the counts of every place up to k.
Counted(raw, i, k, names, ups) ==
  /\ NamesIn(raw, i, k) \in Nat /\ UpsIn(raw, i, k) \in Nat
  /\ NamesIn(raw, i, k + 1) = NamesIn(raw, i, k) + names
  /\ UpsIn(raw, i, k + 1) = UpsIn(raw, i, k) + ups

LEMMA PlacesOneMore ==
  ASSUME NEW raw, NEW k \in Nat
  PROVE  \A i \in 1 .. k :
           /\ IsName(raw[k + 1]) /\ raw[k + 1] # Up => Counted(raw, i, k, 1, 0)
           /\ ~IsName(raw[k + 1]) /\ raw[k + 1] = Up => Counted(raw, i, k, 0, 1)
           /\ ~IsName(raw[k + 1]) /\ raw[k + 1] # Up => Counted(raw, i, k, 0, 0)
<1> TAKE i \in 1 .. k
<1>1. i \in Nat /\ i <= k + 1
  OBVIOUS
<1>2. Counted(raw, i, k, IF IsName(raw[k + 1]) THEN 1 ELSE 0, IF raw[k + 1] = Up THEN 1 ELSE 0)
  BY <1>1, CountsOneMore, Zenon DEF Counted
<1> QED BY <1>2, Zenon

\* A name survives the components up to k.
SurvivesTo(raw, i, k) ==
  /\ IsName(raw[i])
  /\ \A j \in i .. k : NamesIn(raw, i, j) > UpsIn(raw, i, j)

LEMMA SurvivesOneMore ==
  ASSUME NEW raw, NEW k \in Nat, NEW i \in 1 .. k
  PROVE  SurvivesTo(raw, i, k + 1) <=>
           SurvivesTo(raw, i, k) /\ NamesIn(raw, i, k + 1) > UpsIn(raw, i, k + 1)
BY DEF SurvivesTo

LEMMA LastSurvives ==
  ASSUME NEW raw, NEW k \in Nat
  PROVE  /\ SurvivesTo(raw, k + 1, k + 1) <=> IsName(raw[k + 1])
         /\ IsName(raw[k + 1]) => NamesIn(raw, k + 1, k + 1) = UpsIn(raw, k + 1, k + 1) + 1
<1>1. IsName(raw[k + 1]) => NamesIn(raw, k + 1, k + 1) = 1 /\ UpsIn(raw, k + 1, k + 1) = 0
  <2>1. IsName(raw[k + 1]) => raw[k + 1] # Up
    BY DEF IsName
  <2>2. k + 1 \in Nat /\ k + 1 <= k + 1
    OBVIOUS
  <2>3. /\ NamesIn(raw, k + 1, k + 1)
             = NamesIn(raw, k + 1, k) + (IF IsName(raw[k + 1]) THEN 1 ELSE 0)
        /\ UpsIn(raw, k + 1, k + 1)
             = UpsIn(raw, k + 1, k) + (IF raw[k + 1] = Up THEN 1 ELSE 0)
        /\ NamesIn(raw, k + 1, k) = 0 /\ UpsIn(raw, k + 1, k) = 0
    BY <2>2, CountsOneMore, Zenon
  <2> QED BY <2>1, <2>3
<1>2. \A j \in k + 1 .. k + 1 : j = k + 1
  OBVIOUS
<1> QED BY <1>1, <1>2 DEF SurvivesTo

\* p lists the m places of raw whose names the loop has kept after k rounds.
Places(raw, kept, k, m, p) ==
  /\ m \in Nat /\ p \in [1 .. m -> 1 .. k]
  /\ \A a, b \in 1 .. m : a < b => p[a] < p[b]
  /\ Len(kept) = m
  /\ \A a \in 1 .. m :
       /\ kept[a] = raw[p[a]]
       /\ SurvivesTo(raw, p[a], k)
       /\ NamesIn(raw, p[a], k) = UpsIn(raw, p[a], k) + (m - a + 1)
  /\ \A i \in 1 .. k : SurvivesTo(raw, i, k) => \E a \in 1 .. m : p[a] = i

\* A component that is skipped leaves the places as they are.
LEMMA SkippedKeepsPlaces ==
  ASSUME NEW raw, NEW kept, NEW k \in Nat, NEW m, NEW p, Places(raw, kept, k, m, p),
         raw[k + 1] \in Skipped
  PROVE  Places(raw, kept, k + 1, m, p)
<1>1. ~IsName(raw[k + 1]) /\ raw[k + 1] # Up
  BY DEF IsName, Skipped, Up
<1>2. \A i \in 1 .. k : NamesIn(raw, i, k + 1) = NamesIn(raw, i, k)
                        /\ UpsIn(raw, i, k + 1) = UpsIn(raw, i, k)
                        /\ NamesIn(raw, i, k) \in Nat /\ UpsIn(raw, i, k) \in Nat
  <2>1. \A i \in 1 .. k : Counted(raw, i, k, 0, 0)
    BY <1>1, PlacesOneMore, Zenon
  <2> QED BY <2>1 DEF Counted
<1>3. \A i \in 1 .. k : SurvivesTo(raw, i, k) => SurvivesTo(raw, i, k + 1)
  <2> SUFFICES ASSUME NEW i \in 1 .. k, SurvivesTo(raw, i, k) PROVE SurvivesTo(raw, i, k + 1)
    OBVIOUS
  <2>1. NamesIn(raw, i, k) > UpsIn(raw, i, k)
    BY DEF SurvivesTo
  <2> QED BY <1>2, <2>1, SurvivesOneMore
<1>4. \A i \in 1 .. k + 1 : SurvivesTo(raw, i, k + 1) => i \in 1 .. k /\ SurvivesTo(raw, i, k)
  <2> SUFFICES ASSUME NEW i \in 1 .. k + 1, SurvivesTo(raw, i, k + 1)
               PROVE  i \in 1 .. k /\ SurvivesTo(raw, i, k)
    OBVIOUS
  <2>1. i # k + 1
    BY <1>1 DEF SurvivesTo
  <2>2. i \in 1 .. k
    BY <2>1
  <2> QED BY <2>2, SurvivesOneMore
<1>5. p \in [1 .. m -> 1 .. k] /\ p \in [1 .. m -> 1 .. k + 1]
  <2>1. p \in [1 .. m -> 1 .. k]
    BY Zenon DEF Places
  <2>2. 1 .. k \subseteq 1 .. k + 1
    OBVIOUS
  <2> QED BY <2>1, <2>2
<1>6. ASSUME NEW a \in 1 .. m
      PROVE  /\ SurvivesTo(raw, p[a], k + 1)
             /\ NamesIn(raw, p[a], k + 1) = UpsIn(raw, p[a], k + 1) + (m - a + 1)
  <2>1. /\ p[a] \in 1 .. k /\ SurvivesTo(raw, p[a], k)
        /\ NamesIn(raw, p[a], k) = UpsIn(raw, p[a], k) + (m - a + 1)
    BY <1>5 DEF Places
  <2>2. NamesIn(raw, p[a], k + 1) = NamesIn(raw, p[a], k)
        /\ UpsIn(raw, p[a], k + 1) = UpsIn(raw, p[a], k)
    BY <1>2, <2>1, Zenon
  <2> QED BY <1>3, <2>1, <2>2, Zenon
<1>7. /\ m \in Nat /\ \A a, b \in 1 .. m : a < b => p[a] < p[b]
      /\ Len(kept) = m /\ \A a \in 1 .. m : kept[a] = raw[p[a]]
      /\ \A i \in 1 .. k : SurvivesTo(raw, i, k) => \E a \in 1 .. m : p[a] = i
  BY Zenon DEF Places
<1> QED BY <1>4, <1>5, <1>6, <1>7, Zenon DEF Places

\* A name is kept at the end.
LEMMA NameAddsPlace ==
  ASSUME NEW raw, NEW N, NEW kept \in Seq(N), NEW k \in Nat, NEW m, NEW p,
         Places(raw, kept, k, m, p), IsName(raw[k + 1]), raw[k + 1] \in N
  PROVE  \E q : Places(raw, Append(kept, raw[k + 1]), k + 1, m + 1, q)
<1> DEFINE q == [a \in 1 .. m + 1 |-> IF a = m + 1 THEN k + 1 ELSE p[a]]
           more == Append(kept, raw[k + 1])
<1>1. /\ m \in Nat /\ p \in [1 .. m -> 1 .. k] /\ Len(kept) = m
      /\ \A a, b \in 1 .. m : a < b => p[a] < p[b]
  BY DEF Places
<1>2. raw[k + 1] # Up
  BY DEF IsName
<1>3. \A i \in 1 .. k : NamesIn(raw, i, k + 1) = NamesIn(raw, i, k) + 1
                        /\ UpsIn(raw, i, k + 1) = UpsIn(raw, i, k)
                        /\ NamesIn(raw, i, k) \in Nat /\ UpsIn(raw, i, k) \in Nat
  <2>1. \A i \in 1 .. k : Counted(raw, i, k, 1, 0)
    BY <1>2, PlacesOneMore, Zenon
  <2> QED BY <2>1 DEF Counted
<1>4. NamesIn(raw, k + 1, k + 1) = UpsIn(raw, k + 1, k + 1) + 1 /\ SurvivesTo(raw, k + 1, k + 1)
  BY LastSurvives
<1>5. q \in [1 .. m + 1 -> 1 .. k + 1] /\ q[m + 1] = k + 1 /\ \A a \in 1 .. m : q[a] = p[a]
  BY <1>1
<1>6. /\ Len(more) = m + 1 /\ more[m + 1] = raw[k + 1]
      /\ \A a \in 1 .. m : more[a] = kept[a]
  BY <1>1
<1> HIDE DEF q, more
<1>7. \A a, b \in 1 .. m + 1 : a < b => q[a] < q[b]
  <2> SUFFICES ASSUME NEW a \in 1 .. m + 1, NEW b \in 1 .. m + 1, a < b PROVE q[a] < q[b]
    OBVIOUS
  <2>1. a \in 1 .. m /\ q[a] = p[a] /\ p[a] \in 1 .. k
    BY <1>1, <1>5
  <2>2. CASE b = m + 1
    BY <1>5, <2>1, <2>2
  <2>3. CASE b # m + 1
    BY <1>1, <1>5, <2>1, <2>3
  <2> QED BY <2>2, <2>3
<1>8. \A a \in 1 .. m + 1 :
        /\ more[a] = raw[q[a]]
        /\ SurvivesTo(raw, q[a], k + 1)
        /\ NamesIn(raw, q[a], k + 1) = UpsIn(raw, q[a], k + 1) + ((m + 1) - a + 1)
  <2> SUFFICES ASSUME NEW a \in 1 .. m + 1
               PROVE  /\ more[a] = raw[q[a]]
                      /\ SurvivesTo(raw, q[a], k + 1)
                      /\ NamesIn(raw, q[a], k + 1) = UpsIn(raw, q[a], k + 1) + ((m + 1) - a + 1)
    OBVIOUS
  <2>1. CASE a = m + 1
    <3>1. q[a] = k + 1 /\ more[a] = raw[k + 1]
      BY <1>5, <1>6, <2>1
    <3>2. (m + 1) - a + 1 = 1
      BY <1>1, <2>1
    <3> QED BY <1>4, <3>1, <3>2
  <2>2. CASE a # m + 1
    <3>1. a \in 1 .. m /\ q[a] = p[a] /\ p[a] \in 1 .. k /\ more[a] = kept[a]
      BY <1>1, <1>5, <1>6, <2>2
    <3>2. /\ kept[a] = raw[p[a]] /\ SurvivesTo(raw, p[a], k)
          /\ NamesIn(raw, p[a], k) = UpsIn(raw, p[a], k) + (m - a + 1)
      BY <3>1 DEF Places
    <3>3. NamesIn(raw, p[a], k + 1) = UpsIn(raw, p[a], k + 1) + ((m + 1) - a + 1)
          /\ NamesIn(raw, p[a], k + 1) > UpsIn(raw, p[a], k + 1)
      <4>1. /\ NamesIn(raw, p[a], k + 1) = NamesIn(raw, p[a], k) + 1
            /\ UpsIn(raw, p[a], k + 1) = UpsIn(raw, p[a], k) /\ UpsIn(raw, p[a], k) \in Nat
        BY <1>3, <3>1, Zenon
      <4>2. m \in Nat /\ a \in Int /\ a <= m
        BY <1>1, <3>1
      <4> QED BY <3>2, <4>1, <4>2
    <3>4. SurvivesTo(raw, p[a], k + 1)
      BY <3>1, <3>2, <3>3, SurvivesOneMore
    <3> QED BY <3>1, <3>2, <3>3, <3>4
  <2> QED BY <2>1, <2>2
<1>9. \A i \in 1 .. k + 1 : SurvivesTo(raw, i, k + 1) => \E a \in 1 .. m + 1 : q[a] = i
  <2> SUFFICES ASSUME NEW i \in 1 .. k + 1, SurvivesTo(raw, i, k + 1)
               PROVE  \E a \in 1 .. m + 1 : q[a] = i
    OBVIOUS
  <2>1. CASE i = k + 1
    <3>1. m + 1 \in 1 .. m + 1
      BY <1>1
    <3> QED BY <1>5, <2>1, <3>1
  <2>2. CASE i # k + 1
    <3>1. i \in 1 .. k
      BY <2>2
    <3>2. PICK a \in 1 .. m : p[a] = i
      BY <3>1, SurvivesOneMore DEF Places
    <3>3. a \in 1 .. m + 1
      BY <1>1
    <3> QED BY <1>5, <3>2, <3>3
  <2> QED BY <2>1, <2>2
<1>10. Places(raw, more, k + 1, m + 1, q)
  BY <1>1, <1>5, <1>6, <1>7, <1>8, <1>9 DEF Places
<1> QED BY <1>10 DEF more

\* ".." takes back the last place, if any.
LEMMA UpTakesPlace ==
  ASSUME NEW raw, NEW N, NEW kept \in Seq(N), NEW k \in Nat, NEW m, NEW p,
         Places(raw, kept, k, m, p), raw[k + 1] = Up
  PROVE  \E n, q : Places(raw, IF kept = <<>> THEN kept ELSE SubSeq(kept, 1, Len(kept) - 1),
                          k + 1, n, q)
<1> DEFINE n == IF m = 0 THEN 0 ELSE m - 1
           q == [a \in 1 .. n |-> p[a]]
           less == IF kept = <<>> THEN kept ELSE SubSeq(kept, 1, Len(kept) - 1)
<1>1. /\ m \in Nat /\ p \in [1 .. m -> 1 .. k] /\ Len(kept) = m
      /\ \A a, b \in 1 .. m : a < b => p[a] < p[b]
  BY DEF Places
<1>2. ~IsName(raw[k + 1])
  BY DEF IsName
<1>3. \A i \in 1 .. k : NamesIn(raw, i, k + 1) = NamesIn(raw, i, k)
                        /\ UpsIn(raw, i, k + 1) = UpsIn(raw, i, k) + 1
                        /\ NamesIn(raw, i, k) \in Nat /\ UpsIn(raw, i, k) \in Nat
  <2>1. \A i \in 1 .. k : Counted(raw, i, k, 0, 1)
    BY <1>2, PlacesOneMore, Zenon
  <2> QED BY <2>1 DEF Counted
<1>4. n \in Nat /\ \A a \in 1 .. n : a \in 1 .. m /\ a < m
  BY <1>1
<1>5. q \in [1 .. n -> 1 .. k + 1] /\ \A a \in 1 .. n : q[a] = p[a] /\ p[a] \in 1 .. k
  BY <1>1, <1>4
<1>6. Len(less) = n /\ \A a \in 1 .. n : less[a] = kept[a]
  BY <1>1
<1>7. \A a \in 1 .. m : a # m => a \in 1 .. n
  BY <1>1
<1> HIDE DEF n, q, less
<1>8. \A a \in 1 .. m :
        /\ kept[a] = raw[p[a]]
        /\ SurvivesTo(raw, p[a], k)
        /\ NamesIn(raw, p[a], k + 1) = UpsIn(raw, p[a], k + 1) + (m - a)
  <2> SUFFICES ASSUME NEW a \in 1 .. m
               PROVE  /\ kept[a] = raw[p[a]]
                      /\ SurvivesTo(raw, p[a], k)
                      /\ NamesIn(raw, p[a], k + 1) = UpsIn(raw, p[a], k + 1) + (m - a)
    OBVIOUS
  <2>1. /\ kept[a] = raw[p[a]] /\ SurvivesTo(raw, p[a], k) /\ p[a] \in 1 .. k
        /\ NamesIn(raw, p[a], k) = UpsIn(raw, p[a], k) + (m - a + 1)
    BY <1>1 DEF Places
  <2>2. /\ NamesIn(raw, p[a], k + 1) = NamesIn(raw, p[a], k)
        /\ UpsIn(raw, p[a], k + 1) = UpsIn(raw, p[a], k) + 1 /\ UpsIn(raw, p[a], k) \in Nat
    BY <1>3, <2>1, Zenon
  <2>3. m \in Nat /\ a \in Int
    BY <1>1
  <2> QED BY <2>1, <2>2, <2>3
<1>9. \A a \in 1 .. n :
        /\ less[a] = raw[q[a]]
        /\ SurvivesTo(raw, q[a], k + 1)
        /\ NamesIn(raw, q[a], k + 1) = UpsIn(raw, q[a], k + 1) + (n - a + 1)
  <2> SUFFICES ASSUME NEW a \in 1 .. n
               PROVE  /\ less[a] = raw[q[a]]
                      /\ SurvivesTo(raw, q[a], k + 1)
                      /\ NamesIn(raw, q[a], k + 1) = UpsIn(raw, q[a], k + 1) + (n - a + 1)
    OBVIOUS
  <2>1. a \in 1 .. m /\ a < m /\ q[a] = p[a] /\ p[a] \in 1 .. k /\ less[a] = kept[a]
    BY <1>4, <1>5, <1>6
  <2>2. n = m - 1
    BY <1>1, <2>1 DEF n
  <2>3. UpsIn(raw, p[a], k + 1) \in Nat
    BY <1>3, <2>1
  <2>4. NamesIn(raw, p[a], k + 1) > UpsIn(raw, p[a], k + 1)
    BY <1>1, <1>8, <2>1, <2>3
  <2>5. SurvivesTo(raw, p[a], k + 1)
    BY <1>8, <2>1, <2>4, SurvivesOneMore
  <2>6. m - a = n - a + 1
    BY <1>1, <2>2
  <2> QED BY <1>8, <2>1, <2>5, <2>6
<1>10. \A i \in 1 .. k + 1 : SurvivesTo(raw, i, k + 1) => \E a \in 1 .. n : q[a] = i
  <2> SUFFICES ASSUME NEW i \in 1 .. k + 1, SurvivesTo(raw, i, k + 1)
               PROVE  \E a \in 1 .. n : q[a] = i
    OBVIOUS
  <2>1. i # k + 1
    BY <1>2 DEF SurvivesTo
  <2>2. i \in 1 .. k
    BY <2>1
  <2>3. SurvivesTo(raw, i, k) /\ NamesIn(raw, i, k + 1) > UpsIn(raw, i, k + 1)
    BY <2>2, SurvivesOneMore
  <2>4. PICK a \in 1 .. m : p[a] = i
    BY <2>2, <2>3 DEF Places
  <2>5. a # m
    <3> SUFFICES ASSUME a = m PROVE FALSE
      OBVIOUS
    <3>1. NamesIn(raw, i, k + 1) = UpsIn(raw, i, k + 1) + 0
      BY <1>1, <1>8, <2>4
    <3>2. UpsIn(raw, i, k + 1) \in Nat
      BY <1>3, <2>2
    <3> QED BY <2>3, <3>1, <3>2
  <2>6. a \in 1 .. n
    BY <1>7, <2>5
  <2> QED BY <1>5, <2>4, <2>6
<1>11. \A a, b \in 1 .. n : a < b => q[a] < q[b]
  BY <1>1, <1>4, <1>5
<1>12. Places(raw, less, k + 1, n, q)
  BY <1>4, <1>5, <1>6, <1>9, <1>10, <1>11 DEF Places
<1> QED BY <1>12 DEF less

\* One iteration of the loop.
LEMMA IterationKeepsPlaces ==
  ASSUME NEW N, NEW raw, NEW kept \in Seq(N), NEW k \in Nat, NEW m, NEW p,
         Places(raw, kept, k, m, p), raw[k + 1] \in Components(N)
  PROVE  \E n, q : Places(raw, KeepPart(kept, raw[k + 1]), k + 1, n, q)
<1>1. CASE raw[k + 1] \in Skipped
  <2>1. Places(raw, kept, k + 1, m, p)
    BY <1>1, SkippedKeepsPlaces, Zenon
  <2>2. KeepPart(kept, raw[k + 1]) = kept
    BY <1>1, Zenon DEF KeepPart
  <2> QED BY <2>1, <2>2, Zenon
<1>2. CASE raw[k + 1] \notin Skipped /\ raw[k + 1] # Up
  <2>1. IsName(raw[k + 1]) /\ raw[k + 1] \in N
    BY <1>2 DEF IsName, Components
  <2>2. KeepPart(kept, raw[k + 1]) = Append(kept, raw[k + 1])
    BY <1>2, Zenon DEF KeepPart
  <2>3. \E q : Places(raw, Append(kept, raw[k + 1]), k + 1, m + 1, q)
    BY <2>1, NameAddsPlace, Zenon
  <2> QED BY <2>2, <2>3, Zenon
<1>3. CASE raw[k + 1] \notin Skipped /\ raw[k + 1] = Up
  <2>1. KeepPart(kept, raw[k + 1])
          = IF kept = <<>> THEN kept ELSE SubSeq(kept, 1, Len(kept) - 1)
    BY <1>3, Zenon DEF KeepPart
  <2>2. \E n, q : Places(raw, IF kept = <<>> THEN kept
                              ELSE SubSeq(kept, 1, Len(kept) - 1), k + 1, n, q)
    BY <1>3, UpTakesPlace, Zenon
  <2> QED BY <2>1, <2>2, Zenon
<1> QED BY <1>1, <1>2, <1>3, Zenon

\* The whole loop.
LEMMA NormalHasPlaces ==
  ASSUME NEW N, NEW raw \in Seq(Components(N))
  PROVE  \E m, p : Places(raw, normalize_relative_path(raw), Len(raw), m, p)
<1> DEFINE T == {k \in 0 .. Len(raw) : \E m, p : Places(raw, Loop(raw)[k], k, m, p)}
<1>1. Len(raw) \in Nat
  OBVIOUS
<1>2. 0 \in T
  <2>1. Loop(raw)[0] = <<>>
    BY LoopSteps, Zenon
  <2> DEFINE none == [a \in 1 .. 0 |-> 0]
  <2>2. none \in [1 .. 0 -> 1 .. 0]
    OBVIOUS
  <2> HIDE DEF none
  <2>3. Places(raw, <<>>, 0, 0, none)
    BY <2>2 DEF Places
  <2>4. 0 \in 0 .. Len(raw)
    BY <1>1
  <2> QED BY <2>1, <2>3, <2>4
<1>3. ASSUME NEW i \in 1 .. Len(raw), i - 1 \in T PROVE i \in T
  <2> DEFINE k == i - 1
  <2>1. k \in Nat /\ k \in 0 .. Len(raw) /\ k + 1 = i /\ i \in 0 .. Len(raw)
    OBVIOUS
  <2>2. raw[i] \in Components(N)
    OBVIOUS
  <2>3. Loop(raw)[i] = KeepPart(Loop(raw)[k], raw[i])
    BY LoopSteps
  <2>4. Loop(raw)[k] \in Seq(N)
    BY <2>1, LoopType, Zenon
  <2>5. PICK m, p : Places(raw, Loop(raw)[k], k, m, p)
    BY <1>3
  <2> HIDE DEF k
  <2>6. \E n, q : Places(raw, KeepPart(Loop(raw)[k], raw[i]), i, n, q)
    BY <2>1, <2>2, <2>4, <2>5, IterationKeepsPlaces, Zenon
  <2> QED BY <2>1, <2>3, <2>6
<1> HIDE DEF T
<1>4. 0 .. Len(raw) \subseteq T
  BY <1>1, <1>2, <1>3, BoundedInduction
<1>5. Len(raw) \in T
  BY <1>1, <1>4
<1>6. \E m, p : Places(raw, Loop(raw)[Len(raw)], Len(raw), m, p)
  BY <1>5 DEF T
<1> QED BY <1>6, LoopResult, Zenon

\* As many places as numbers.
LEMMA PlacesAreDistinct ==
  ASSUME NEW m \in Nat, NEW n \in Nat, NEW p \in [1 .. m -> 1 .. n],
         \A a, b \in 1 .. m : a < b => p[a] < p[b]
  PROVE  \A a \in 0 .. m : Cardinality({p[b] : b \in 1 .. a}) = a
<1> DEFINE Image(a) == {p[b] : b \in 1 .. a}
           T == {a \in 0 .. m : IsFiniteSet(Image(a)) /\ Cardinality(Image(a)) = a}
<1>1. 0 \in T
  <2>1. Image(0) = {}
    OBVIOUS
  <2> HIDE DEF Image
  <2>2. IsFiniteSet(Image(0)) /\ Cardinality(Image(0)) = 0
    BY <2>1, FS_EmptySet
  <2> QED BY <2>2
<1>2. ASSUME NEW a \in 1 .. m, a - 1 \in T PROVE a \in T
  <2>1. Image(a) = Image(a - 1) \cup {p[a]}
    <3>1. 1 .. a = (1 .. (a - 1)) \cup {a}
      OBVIOUS
    <3> QED BY <3>1
  <2>2. p[a] \notin Image(a - 1)
    <3> SUFFICES ASSUME NEW b \in 1 .. (a - 1), p[a] = p[b] PROVE FALSE
      OBVIOUS
    <3>1. b \in 1 .. m /\ b < a /\ p[a] \in 1 .. n /\ p[b] \in 1 .. n
      OBVIOUS
    <3>2. p[b] < p[a]
      BY <3>1
    <3> QED BY <3>1, <3>2
  <2>3. IsFiniteSet(Image(a - 1)) /\ Cardinality(Image(a - 1)) = a - 1
    BY <1>2
  <2> HIDE DEF Image
  <2>4. IsFiniteSet(Image(a)) /\ Cardinality(Image(a)) = Cardinality(Image(a - 1)) + 1
    <3> DEFINE S == Image(a - 1)
               e == p[a]
    <3>1. IsFiniteSet(S) /\ e \notin S
      BY <2>2, <2>3
    <3>2. Image(a) = S \cup {e}
      BY <2>1
    <3> HIDE DEF S, e
    <3>3. IsFiniteSet(S \cup {e}) /\ Cardinality(S \cup {e}) = Cardinality(S) + 1
      BY <3>1, FS_AddElement
    <3>4. IsFiniteSet(Image(a)) /\ Cardinality(Image(a)) = Cardinality(S) + 1
      BY <3>2, <3>3
    <3> QED BY <3>4 DEF S
  <2>5. (a - 1) + 1 = a /\ a \in 0 .. m
    OBVIOUS
  <2> QED BY <2>3, <2>4, <2>5
<1> HIDE DEF T
<1>3. 0 .. m \subseteq T
  BY <1>1, <1>2, BoundedInduction
<1> QED BY <1>3 DEF T

\* Every normalized path is the names that survive, in order.
THEOREM NormalPathIsSurvivors == Spec => []NormalIsSurvivors
<1> DEFINE raw    == input.raw
           normal == normalize_relative_path(raw)
           kept   == {i \in 1 .. Len(raw) : Survives(raw, i)}
<1>1. ASSUME InputOK, input.about = "path"
      PROVE  /\ Len(normal) = Cardinality(kept)
             /\ \A i \in kept : normal[Cardinality({j \in kept : j <= i})] = raw[i]
  <2>1. raw \in Seq(PathComponents)
    BY <1>1, Zenon DEF InputOK
  <2>2. raw \in Seq(Components(PathComponents)) /\ Len(raw) \in Nat
    BY <2>1 DEF Components
  <2>3. PICK m, p : Places(raw, normal, Len(raw), m, p)
    BY <2>2, NormalHasPlaces, Zenon
  <2>4. kept = {i \in 1 .. Len(raw) : SurvivesTo(raw, i, Len(raw))}
    BY DEF Survives, SurvivesTo
  <2> HIDE DEF raw, normal, kept
  <2>5. /\ m \in Nat /\ p \in [1 .. m -> 1 .. Len(raw)] /\ Len(normal) = m
        /\ \A a, b \in 1 .. m : a < b => p[a] < p[b]
        /\ \A a \in 1 .. m : normal[a] = raw[p[a]] /\ SurvivesTo(raw, p[a], Len(raw))
        /\ \A i \in 1 .. Len(raw) : SurvivesTo(raw, i, Len(raw)) => \E a \in 1 .. m : p[a] = i
    BY <2>3, Zenon DEF Places
  <2>6. \A a \in 0 .. m : Cardinality({p[b] : b \in 1 .. a}) = a
    <3>1. \A a, b \in 1 .. m : a < b => p[a] < p[b]
      BY <2>5, Zenon
    <3> DEFINE n == Len(raw)
    <3>2. n \in Nat /\ m \in Nat /\ p \in [1 .. m -> 1 .. n]
      BY <2>2, <2>5, Zenon
    <3> HIDE DEF n
    <3> QED BY <3>1, <3>2, PlacesAreDistinct
  <2>7. kept = {p[b] : b \in 1 .. m}
    BY <2>4, <2>5
  <2>8. \A a \in 1 .. m : {j \in kept : j <= p[a]} = {p[b] : b \in 1 .. a}
    <3> SUFFICES ASSUME NEW a \in 1 .. m
                 PROVE  {j \in kept : j <= p[a]} = {p[b] : b \in 1 .. a}
      OBVIOUS
    <3>1. \A b \in 1 .. m : p[b] <= p[a] <=> b <= a
      <4> SUFFICES ASSUME NEW b \in 1 .. m PROVE p[b] <= p[a] <=> b <= a
        OBVIOUS
      <4>1. p[a] \in Int /\ p[b] \in Int
        BY <2>2, <2>5
      <4>2. (a < b => p[a] < p[b]) /\ (b < a => p[b] < p[a])
        BY <2>5
      <4>3. a = b => p[a] = p[b]
        OBVIOUS
      <4> QED BY <4>1, <4>2, <4>3
    <3>2. \A b \in 1 .. a : b \in 1 .. m /\ b <= a
      BY <2>5
    <3>3. \A b \in 1 .. m : b <= a => b \in 1 .. a
      BY <2>5
    <3> QED BY <2>7, <3>1, <3>2, <3>3
  <2>9. Len(normal) = Cardinality(kept)
    <3>1. m \in 0 .. m
      BY <2>5
    <3> QED BY <2>5, <2>6, <2>7, <3>1
  <2>10. ASSUME NEW i \in kept
         PROVE  normal[Cardinality({j \in kept : j <= i})] = raw[i]
    <3>1. PICK a \in 1 .. m : p[a] = i
      BY <2>7
    <3>2. a \in 0 .. m
      BY <2>5
    <3>3. Cardinality({j \in kept : j <= i}) = a
      BY <2>6, <2>8, <3>1, <3>2
    <3> QED BY <2>5, <3>1, <3>3
  <2> QED BY <2>9, <2>10
<1>2. InputOK => NormalIsSurvivors
  BY <1>1, Zenon DEF NormalIsSurvivors
<1> QED BY <1>2, InputsAreWellFormed, PTL

-----------------------------------------------------------------------------
(* Constraints: what the loops over words and over alternatives have read   *)
(* so far means the words so far.                                           *)

\* A word adds one predicate, or the two of a range, or does not parse.
LEMMA CoreParsesOrFails ==
  \A text, w : \/ \E e : parse_core(text, w) = Failed(e)
               \/ \E x : parse_core(text, w) = Parsed(x)
<1> TAKE text, w
<1> DEFINE given == Given(text, w)
           Nth(i) == IF i <= Len(given) THEN given[i] ELSE 0
           version == [major |-> Nth(1), minor |-> Nth(2), patch |-> Nth(3),
                       prerelease |-> DashTail(text),
                       build |-> IF text.plus THEN text.build ELSE ""]
           result == parse_core(text, w)
<1>1. result = IF Len(text.components) \notin 1 .. 3 THEN Failed("one to three components")
               ELSE IF \E i \in DOMAIN given : given[i] \notin Number
                    THEN Failed("invalid component")
               ELSE IF Blank \in Range(DashTail(text)) THEN Failed("invalid prerelease")
               ELSE IF text.plus /\ text.build = "" THEN Failed("empty build")
               ELSE Parsed(version)
  BY Zenon DEF parse_core
<1> HIDE DEF given, version, result
<1>2. (\E e : result = Failed(e)) \/ (\E x : result = Parsed(x))
  BY <1>1, Zenon
<1> QED BY <1>2, Zenon DEF result

LEMMA PredicateParsesOrFails ==
  \A op, text : \/ \E e : predicate_for(op, text) = Failed(e)
                \/ \E p : predicate_for(op, text) = Parsed(p)
BY CoreParsesOrFails, Zenon DEF predicate_for

LEMMA FailedAndParsed ==
  \A x : ~Failed(x).ok /\ Failed(x).ok \in BOOLEAN /\ Parsed(x).ok /\ Parsed(x).ok \in BOOLEAN
         /\ Parsed(x).value = x
BY DEF Failed, Parsed

LEMMA WordParsesOrFails ==
  \A word : \/ \E e : ReadWord(word) = Failed(e)
            \/ \E p : ReadWord(word) = Parsed(<<p>>)
            \/ \E p, q : ReadWord(word) = Parsed(<<p, q>>)
<1> TAKE word
<1>1. CASE word.op \in {"^", "~"}
  <2> DEFINE base == parse_core(word.text, TRUE)
             low  == [comparator |-> ">=", version |-> base.value, precision |-> NoPrecision]
             high == [comparator |-> "<", version |-> Upper(word.op, base.value),
                      precision |-> NoPrecision]
  <2>1. ReadWord(word) = IF ~base.ok THEN base ELSE Parsed(<<low, high>>)
    BY <1>1, Zenon DEF ReadWord
  <2>2. (\E e : base = Failed(e)) \/ (\E x : base = Parsed(x))
    BY CoreParsesOrFails, Zenon
  <2> HIDE DEF base, low, high
  <2>3. (\E e : base = Failed(e)) \/ base.ok
    BY <2>2, FailedAndParsed, Zenon
  <2> QED BY <2>1, <2>3, Zenon
<1>2. CASE word.op \notin {"^", "~"}
  <2> DEFINE predicate == predicate_for(word.op, word.text)
  <2>1. ReadWord(word) = IF predicate.ok THEN Parsed(<<predicate.value>>) ELSE predicate
    BY <1>2, Zenon DEF ReadWord
  <2>2. (\E e : predicate = Failed(e)) \/ (\E x : predicate = Parsed(x))
    BY PredicateParsesOrFails, Zenon
  <2> HIDE DEF predicate
  <2>3. (\E e : predicate = Failed(e)) \/ predicate.ok
    BY <2>2, FailedAndParsed, Zenon
  <2> QED BY <2>1, <2>3, Zenon
<1> QED BY <1>1, <1>2, Zenon

\* The predicates the words stand for.
Predicates == UNION {{ReadWord(w).value[1], ReadWord(w).value[2]} : w \in Words}

LEMMA WordResult ==
  ASSUME NEW w \in Words
  PROVE  /\ ReadWord(w).ok \in BOOLEAN
         /\ ReadWord(w).ok => /\ ReadWord(w) = Parsed(ReadWord(w).value)
                              /\ ReadWord(w).value \in Seq(Predicates)
                              /\ ReadWord(w).value # <<>>
<1> DEFINE read == ReadWord(w)
<1>1. read.value[1] \in Predicates /\ read.value[2] \in Predicates
  BY DEF Predicates
<1>2. \/ \E e : read = Failed(e)
      \/ \E p : read = Parsed(<<p>>)
      \/ \E p, q : read = Parsed(<<p, q>>)
  BY WordParsesOrFails, Zenon
<1> HIDE DEF read
<1>3. CASE \E e : read = Failed(e)
  BY <1>3, FailedAndParsed, Zenon DEF read
<1>4. ASSUME NEW p, read = Parsed(<<p>>)
      PROVE  read.ok /\ read.value = <<p>> /\ read.value \in Seq(Predicates)
             /\ read.value # <<>>
  <2>1. read.ok /\ read.value = <<p>>
    BY <1>4, FailedAndParsed, Zenon
  <2>2. p \in Predicates
    BY <1>1, <2>1
  <2> QED BY <2>1, <2>2
<1>5. ASSUME NEW p, NEW q, read = Parsed(<<p, q>>)
      PROVE  read.ok /\ read.value = <<p, q>> /\ read.value \in Seq(Predicates)
             /\ read.value # <<>>
  <2>1. read.ok /\ read.value = <<p, q>>
    BY <1>5, FailedAndParsed, Zenon
  <2>2. p \in Predicates /\ q \in Predicates
    BY <1>1, <2>1
  <2> QED BY <2>1, <2>2
<1>6. CASE \E p : read = Parsed(<<p>>)
  BY <1>4, <1>6, FailedAndParsed, Zenon DEF read
<1>7. CASE \E p, q : read = Parsed(<<p, q>>)
  BY <1>5, <1>7, FailedAndParsed, Zenon DEF read
<1> QED BY <1>2, <1>3, <1>6, <1>7

\* What a clause may be, read so far.
Clauses == {Parsed(s) : s \in Seq(Predicates)} \cup {ReadWord(w) : w \in Words}

LEMMA ClauseFields ==
  ASSUME NEW c \in Clauses
  PROVE  /\ c.ok \in BOOLEAN
         /\ c.ok => c = Parsed(c.value) /\ c.value \in Seq(Predicates)
<1>1. CASE \E s \in Seq(Predicates) : c = Parsed(s)
  BY <1>1, FailedAndParsed, Zenon
<1>2. CASE \E w \in Words : c = ReadWord(w)
  BY <1>2, WordResult, Zenon
<1> QED BY <1>1, <1>2 DEF Clauses

LEMMA AddWordType ==
  ASSUME NEW c \in Clauses, NEW w \in Words
  PROVE  AddWord(c, w) \in Clauses
<1>1. CASE ~c.ok \/ w \in SkippedWords
  BY <1>1, Zenon DEF AddWord, AddPredicates
<1>2. CASE c.ok /\ w \notin SkippedWords
  <2>1. AddWord(c, w) = IF ReadWord(w).ok THEN Parsed(c.value \o ReadWord(w).value)
                        ELSE ReadWord(w)
    BY <1>2, Zenon DEF AddWord, AddPredicates
  <2>2. CASE ReadWord(w).ok
    <3>1. c.value \in Seq(Predicates) /\ ReadWord(w).value \in Seq(Predicates)
      BY <1>2, <2>2, ClauseFields, WordResult, Zenon
    <3>2. c.value \o ReadWord(w).value \in Seq(Predicates)
      BY <3>1
    <3> QED BY <2>1, <2>2, <3>2, Zenon DEF Clauses
  <2>3. CASE ~ReadWord(w).ok
    BY <2>1, <2>3 DEF Clauses
  <2> QED BY <2>2, <2>3
<1> QED BY <1>1, <1>2

\* The loop over the words of an alternative.
ClauseLoop(words) ==
  CHOOSE f : f = [i \in 0 .. Len(words) |->
                    IF i = 0 THEN Parsed(<<>>) ELSE AddWord(f[i - 1], words[i])]

LEMMA ClauseResult == \A words : read_clause(words) = ClauseLoop(words)[Len(words)]
BY DEF read_clause, ClauseLoop

LEMMA ClauseLoopSteps ==
  ASSUME NEW words \in Seq(Words)
  PROVE  /\ ClauseLoop(words)[0] = Parsed(<<>>)
         /\ \A i \in 1 .. Len(words) :
              ClauseLoop(words)[i] = AddWord(ClauseLoop(words)[i - 1], words[i])
         /\ \A i \in 0 .. Len(words) : ClauseLoop(words)[i] \in Clauses
<1> DEFINE n == Len(words)
           first == Parsed(<<>>)
           g == [i \in 1 .. n |-> [c \in Clauses |-> AddWord(c, words[i])]]
           Eq(f) == f = [i \in 0 .. n |-> IF i = 0 THEN first ELSE AddWord(f[i - 1], words[i])]
           Steps(f) == /\ f[0] = first
                       /\ \A i \in 1 .. n : f[i] = AddWord(f[i - 1], words[i])
<1>1. n \in Nat /\ \A i \in 1 .. n : words[i] \in Words
  OBVIOUS
<1>2. first \in Clauses
  <2>1. <<>> \in Seq(Predicates)
    OBVIOUS
  <2> QED BY <2>1, Zenon DEF Clauses
<1>3. \A i \in 1 .. n : \A c \in Clauses : AddWord(c, words[i]) \in Clauses
  BY <1>1, AddWordType, Zenon
<1>4. ClauseLoop(words) = CHOOSE f : Eq(f)
  BY DEF ClauseLoop
<1> HIDE DEF n, first
<1>5. g \in [1 .. n -> [Clauses -> Clauses]]
  BY <1>3
<1>6. PICK f \in [0 .. n -> Clauses] : Solves(f, first, g, n)
  <2> HIDE DEF g
  <2> QED BY <1>1, <1>2, <1>5, LoopExists
<1>7. Eq(f)
  <2> DEFINE A(i) == IF i = 0 THEN first ELSE g[i][f[i - 1]]
             B(i) == IF i = 0 THEN first ELSE AddWord(f[i - 1], words[i])
  <2>1. ASSUME NEW i \in 0 .. n PROVE A(i) = B(i)
    <3>1. i # 0 => i \in 1 .. n /\ f[i - 1] \in Clauses
      BY <1>1, <1>6
    <3> QED BY <3>1
  <2>2. f = [i \in 0 .. n |-> A(i)]
    <3> HIDE DEF g
    <3> QED BY <1>6 DEF Solves
  <2> HIDE DEF A
  <2>3. f = [i \in 0 .. n |-> B(i)]
    <3> HIDE DEF B
    <3> QED BY <2>1, <2>2
  <2> QED BY <2>3
<1> DEFINE h == ClauseLoop(words)
<1>8. Eq(h)
  <2> HIDE DEF Eq
  <2> QED BY <1>4, <1>7
<1>9. Steps(h)
  <2> HIDE DEF h
  <2> DEFINE B(i) == IF i = 0 THEN first ELSE AddWord(h[i - 1], words[i])
  <2>1. h = [i \in 0 .. n |-> B(i)]
    BY <1>8
  <2>2. \A i \in 0 .. n : h[i] = B(i)
    <3> HIDE DEF B
    <3> QED BY <2>1
  <2> QED BY <1>1, <2>2
<1> DEFINE T == {i \in 0 .. n : h[i] \in Clauses}
<1>10. 0 .. n \subseteq T
  <2> HIDE DEF h
  <2>1. 0 \in T
    BY <1>1, <1>2, <1>9
  <2>2. ASSUME NEW i \in 1 .. n, i - 1 \in T PROVE i \in T
    BY <1>3, <1>9, <2>2
  <2> HIDE DEF T
  <2> QED BY <1>1, <2>1, <2>2, BoundedInduction
<1> HIDE DEF h
<1>11. \A i \in 0 .. n : h[i] \in Clauses
  BY <1>10
<1> QED BY <1>9, <1>11 DEF h, n, first

\* What a clause allows is what both of its parts allow.
ClauseAllows(clause, v) == \A p \in DOMAIN clause : predicate_matches(clause[p], v)

LEMMA PartsAllow ==
  ASSUME NEW P, NEW left \in Seq(P), NEW right \in Seq(P), NEW v
  PROVE  ClauseAllows(left \o right, v) <=> ClauseAllows(left, v) /\ ClauseAllows(right, v)
<1> DEFINE both == left \o right
           m == Len(left)
           n == Len(right)
<1>1. /\ DOMAIN both = 1 .. (m + n) /\ m \in Nat /\ n \in Nat
      /\ DOMAIN left = 1 .. m /\ DOMAIN right = 1 .. n
      /\ \A i \in 1 .. m : i \in 1 .. (m + n) /\ both[i] = left[i]
      /\ \A i \in 1 .. n : m + i \in 1 .. (m + n) /\ both[m + i] = right[i]
  OBVIOUS
<1>2. \A i \in 1 .. (m + n) : i \in 1 .. m \/ \E j \in 1 .. n : i = m + j
  <2> SUFFICES ASSUME NEW i \in 1 .. (m + n), i \notin 1 .. m
               PROVE  \E j \in 1 .. n : i = m + j
    OBVIOUS
  <2> HIDE DEF m, n
  <2>1. i - m \in 1 .. n /\ i = m + (i - m)
    BY <1>1
  <2> QED BY <2>1
<1> HIDE DEF both, m, n
<1>3. ClauseAllows(both, v) => ClauseAllows(left, v) /\ ClauseAllows(right, v)
  BY <1>1, Zenon DEF ClauseAllows
<1>4. ClauseAllows(left, v) /\ ClauseAllows(right, v) => ClauseAllows(both, v)
  <2> SUFFICES ASSUME ClauseAllows(left, v), ClauseAllows(right, v), NEW i \in 1 .. (m + n)
               PROVE  predicate_matches(both[i], v)
    BY <1>1, Zenon DEF ClauseAllows
  <2>1. CASE i \in 1 .. m
    BY <1>1, <2>1, Zenon DEF ClauseAllows
  <2>2. CASE \E j \in 1 .. n : i = m + j
    BY <1>1, <2>2, Zenon DEF ClauseAllows
  <2> QED BY <1>2, <2>1, <2>2, Zenon
<1> QED BY <1>3, <1>4, Zenon DEF both

LEMMA NothingAllows == \A v : ClauseAllows(<<>>, v)
BY DEF ClauseAllows

LEMMA ClauseConstraint ==
  \A clause, v : constraint_matches(<<clause>>, v) <=> ClauseAllows(clause, v)
BY ClauseMatches, Zenon DEF ClauseAllows

\* What a word says of itself, and of a release.
WordReads(word) == word \notin SkippedWords => ReadWord(word).ok
WordAllows(word, v) == word \notin SkippedWords => ClauseAllows(ReadWord(word).value, v)

\* The clause read so far is what the first i words say.
ClauseSays(words, i, c, v) ==
  /\ c.ok <=> \A j \in 1 .. i : WordReads(words[j])
  /\ c.ok => /\ (c.value = <<>>) <=> \A j \in 1 .. i : words[j] \in SkippedWords
             /\ ClauseAllows(c.value, v) <=> \A j \in 1 .. i : WordAllows(words[j], v)

LEMMA WordIsSaid ==
  ASSUME NEW words \in Seq(Words), NEW i \in Nat, i + 1 \in 1 .. Len(words),
         NEW c \in Clauses, NEW v, ClauseSays(words, i, c, v)
  PROVE  ClauseSays(words, i + 1, AddWord(c, words[i + 1]), v)
<1> DEFINE word == words[i + 1]
           read == ReadWord(word)
           more == AddWord(c, word)
<1>1. word \in Words
  OBVIOUS
<1>2. \A j : j \in 1 .. (i + 1) <=> j \in 1 .. i \/ j = i + 1
  OBVIOUS
<1> DEFINE Reads(n)   == \A j \in 1 .. n : WordReads(words[j])
           Skips(n)   == \A j \in 1 .. n : words[j] \in SkippedWords
           Allowed(n) == \A j \in 1 .. n : WordAllows(words[j], v)
<1>3. /\ Reads(i + 1) <=> Reads(i) /\ WordReads(word)
      /\ Skips(i + 1) <=> Skips(i) /\ word \in SkippedWords
      /\ Allowed(i + 1) <=> Allowed(i) /\ WordAllows(word, v)
  BY <1>2, Zenon
<1>4. /\ c.ok <=> Reads(i)
      /\ c.ok => (c.value = <<>> <=> Skips(i)) /\ (ClauseAllows(c.value, v) <=> Allowed(i))
  BY Zenon DEF ClauseSays
<1> SUFFICES /\ more.ok <=> Reads(i + 1)
             /\ more.ok => /\ (more.value = <<>>) <=> Skips(i + 1)
                           /\ ClauseAllows(more.value, v) <=> Allowed(i + 1)
  BY Zenon DEF ClauseSays
<1> HIDE DEF word, Reads, Skips, Allowed
<1>5. CASE ~c.ok
  <2>1. more = c
    BY <1>5, Zenon DEF AddWord, AddPredicates
  <2> QED BY <1>3, <1>4, <1>5, <2>1, Zenon
<1>6. CASE c.ok /\ word \in SkippedWords
  <2>1. more = c
    BY <1>6, Zenon DEF AddWord, AddPredicates
  <2>2. WordReads(word) /\ WordAllows(word, v)
    BY <1>6, Zenon DEF WordReads, WordAllows
  <2> QED BY <1>3, <1>4, <1>6, <2>1, <2>2, Zenon
<1>7. CASE c.ok /\ word \notin SkippedWords /\ ~read.ok
  <2>1. more = read
    BY <1>7, Zenon DEF AddWord, AddPredicates
  <2>2. ~WordReads(word)
    BY <1>7, Zenon DEF WordReads
  <2> QED BY <1>3, <1>7, <2>1, <2>2, Zenon
<1>8. CASE c.ok /\ word \notin SkippedWords /\ read.ok
  <2>1. more = Parsed(c.value \o read.value)
    BY <1>8, Zenon DEF AddWord, AddPredicates
  <2>2. c.value \in Seq(Predicates) /\ read.value \in Seq(Predicates) /\ read.value # <<>>
    BY <1>1, <1>8, ClauseFields, WordResult, Zenon
  <2> HIDE DEF more, read
  <2>3. c.value \o read.value # <<>>
    BY <2>2
  <2>4. ClauseAllows(c.value \o read.value, v)
          <=> ClauseAllows(c.value, v) /\ ClauseAllows(read.value, v)
    BY <2>2, PartsAllow, Zenon
  <2>5. more.ok /\ more.value = c.value \o read.value
    BY <2>1, FailedAndParsed, Zenon
  <2>6. WordReads(word) /\ (WordAllows(word, v) <=> ClauseAllows(read.value, v))
    BY <1>8, Zenon DEF WordReads, WordAllows, read
  <2> QED BY <1>3, <1>4, <1>8, <2>3, <2>4, <2>5, <2>6, Zenon
<1> QED BY <1>5, <1>6, <1>7, <1>8, Zenon

\* The whole alternative.
LEMMA ClauseMeansItsWords ==
  ASSUME NEW words \in Seq(Words), NEW v
  PROVE  /\ read_clause(words) \in Clauses
         /\ ClauseSays(words, Len(words), read_clause(words), v)
<1> DEFINE h == ClauseLoop(words)
           T == {i \in 0 .. Len(words) : ClauseSays(words, i, h[i], v)}
<1>1. /\ h[0] = Parsed(<<>>)
      /\ \A i \in 1 .. Len(words) : h[i] = AddWord(h[i - 1], words[i])
      /\ \A i \in 0 .. Len(words) : h[i] \in Clauses
  BY ClauseLoopSteps, Zenon
<1> HIDE DEF h
<1>2. Len(words) \in Nat /\ Len(words) \in 0 .. Len(words) /\ 0 \in 0 .. Len(words)
  OBVIOUS
<1>3. 0 \in T
  <2>1. h[0].ok /\ h[0].value = <<>>
    BY <1>1, FailedAndParsed, Zenon
  <2>2. \A j : j \notin 1 .. 0
    OBVIOUS
  <2>3. ClauseSays(words, 0, h[0], v)
    BY <2>1, <2>2, NothingAllows, Zenon DEF ClauseSays
  <2> QED BY <1>2, <2>3
<1>4. ASSUME NEW i \in 1 .. Len(words), i - 1 \in T PROVE i \in T
  <2> DEFINE k == i - 1
  <2>1. k \in Nat /\ k \in 0 .. Len(words) /\ k + 1 = i /\ i \in 0 .. Len(words)
    OBVIOUS
  <2>2. ClauseSays(words, k, h[k], v)
    BY <1>4
  <2>3. h[i] = AddWord(h[k], words[i]) /\ h[k] \in Clauses
    BY <1>1, <2>1
  <2> HIDE DEF k
  <2>4. ClauseSays(words, k + 1, AddWord(h[k], words[k + 1]), v)
    <3>1. k + 1 \in 1 .. Len(words)
      BY <2>1
    <3> QED BY <2>1, <2>2, <2>3, <3>1, WordIsSaid, Zenon
  <2> QED BY <2>1, <2>3, <2>4
<1> HIDE DEF T
<1>5. 0 .. Len(words) \subseteq T
  BY <1>2, <1>3, <1>4, BoundedInduction
<1>6. ClauseSays(words, Len(words), h[Len(words)], v)
  BY <1>2, <1>5 DEF T
<1>7. read_clause(words) = h[Len(words)]
  BY ClauseResult, Zenon DEF h
<1> QED BY <1>1, <1>2, <1>6, <1>7, Zenon

\* What the alternatives of a constraint may be, read so far.
EmptyAlternative == Failed("empty constraint alternative")

Constraints ==
  {Parsed(s) : s \in Seq(Seq(Predicates))} \cup {c \in Clauses : ~c.ok} \cup {EmptyAlternative}

LEMMA ConstraintFields ==
  ASSUME NEW r \in Constraints
  PROVE  /\ r.ok \in BOOLEAN
         /\ r.ok => r = Parsed(r.value) /\ r.value \in Seq(Seq(Predicates))
<1>1. CASE \E s \in Seq(Seq(Predicates)) : r = Parsed(s)
  BY <1>1, FailedAndParsed, Zenon
<1>2. CASE r \in Clauses /\ ~r.ok
  BY <1>2, ClauseFields, Zenon
<1>3. CASE r = EmptyAlternative
  BY <1>3, FailedAndParsed, Zenon DEF EmptyAlternative
<1> QED BY <1>1, <1>2, <1>3 DEF Constraints

LEMMA AddAlternativeCases ==
  ASSUME NEW r, NEW words
  PROVE  /\ ~r.ok \/ words = <<>> => AddAlternative(r, words) = r
         /\ r.ok /\ words # <<>> /\ ~read_clause(words).ok
              => AddAlternative(r, words) = read_clause(words)
         /\ r.ok /\ words # <<>> /\ read_clause(words).ok /\ read_clause(words).value = <<>>
              => AddAlternative(r, words) = EmptyAlternative
         /\ r.ok /\ words # <<>> /\ read_clause(words).ok /\ read_clause(words).value # <<>>
              => AddAlternative(r, words) = Parsed(Append(r.value, read_clause(words).value))
BY Zenon DEF AddAlternative, AddClause, EmptyAlternative

LEMMA AddAlternativeType ==
  ASSUME NEW r \in Constraints, NEW words \in Seq(Words)
  PROVE  AddAlternative(r, words) \in Constraints
<1> DEFINE clause == read_clause(words)
<1>1. clause \in Clauses
  BY ClauseMeansItsWords, Zenon
<1>2. CASE ~r.ok \/ words = <<>>
  BY <1>2, AddAlternativeCases, Zenon
<1>3. CASE r.ok /\ words # <<>> /\ ~clause.ok
  <2>1. AddAlternative(r, words) = clause
    BY <1>3, AddAlternativeCases, Zenon
  <2> HIDE DEF clause
  <2> QED BY <1>1, <1>3, <2>1 DEF Constraints
<1>4. CASE r.ok /\ words # <<>> /\ clause.ok /\ clause.value = <<>>
  <2>1. AddAlternative(r, words) = EmptyAlternative
    BY <1>4, AddAlternativeCases, Zenon
  <2> QED BY <2>1 DEF Constraints
<1>5. CASE r.ok /\ words # <<>> /\ clause.ok /\ clause.value # <<>>
  <2>1. AddAlternative(r, words) = Parsed(Append(r.value, clause.value))
    BY <1>5, AddAlternativeCases, Zenon
  <2>2. r.value \in Seq(Seq(Predicates)) /\ clause.value \in Seq(Predicates)
    BY <1>1, <1>5, ClauseFields, ConstraintFields, Zenon
  <2> HIDE DEF clause
  <2>3. Append(r.value, clause.value) \in Seq(Seq(Predicates))
    BY <2>2
  <2> QED BY <2>1, <2>3, Zenon DEF Constraints
<1> QED BY <1>2, <1>3, <1>4, <1>5, Zenon

\* The loop over the alternatives.
ConstraintLoop(text) ==
  CHOOSE f : f = [i \in 0 .. Len(text) |->
                    IF i = 0 THEN Parsed(AnyVersion) ELSE AddAlternative(f[i - 1], text[i])]

LEMMA ConstraintResult ==
  \A text : read_alternatives(text) = ConstraintLoop(text)[Len(text)]
BY DEF read_alternatives, ConstraintLoop

LEMMA ConstraintLoopSteps ==
  ASSUME NEW text \in Seq(Seq(Words))
  PROVE  /\ ConstraintLoop(text)[0] = Parsed(AnyVersion)
         /\ \A i \in 1 .. Len(text) :
              ConstraintLoop(text)[i] = AddAlternative(ConstraintLoop(text)[i - 1], text[i])
         /\ \A i \in 0 .. Len(text) : ConstraintLoop(text)[i] \in Constraints
<1> DEFINE n == Len(text)
           first == Parsed(AnyVersion)
           g == [i \in 1 .. n |-> [c \in Constraints |-> AddAlternative(c, text[i])]]
           Eq(f) == f = [i \in 0 .. n |->
                           IF i = 0 THEN first ELSE AddAlternative(f[i - 1], text[i])]
           Steps(f) == /\ f[0] = first
                       /\ \A i \in 1 .. n : f[i] = AddAlternative(f[i - 1], text[i])
<1>1. n \in Nat /\ \A i \in 1 .. n : text[i] \in Seq(Words)
  OBVIOUS
<1>2. first \in Constraints
  <2>1. AnyVersion \in Seq(Seq(Predicates))
    BY DEF AnyVersion
  <2> QED BY <2>1, Zenon DEF Constraints
<1>3. \A i \in 1 .. n : \A c \in Constraints : AddAlternative(c, text[i]) \in Constraints
  BY <1>1, AddAlternativeType, Zenon
<1>4. ConstraintLoop(text) = CHOOSE f : Eq(f)
  BY DEF ConstraintLoop
<1> HIDE DEF n, first
<1>5. g \in [1 .. n -> [Constraints -> Constraints]]
  BY <1>3
<1>6. PICK f \in [0 .. n -> Constraints] : Solves(f, first, g, n)
  <2> HIDE DEF g
  <2> QED BY <1>1, <1>2, <1>5, LoopExists
<1>7. Eq(f)
  <2> DEFINE A(i) == IF i = 0 THEN first ELSE g[i][f[i - 1]]
             B(i) == IF i = 0 THEN first ELSE AddAlternative(f[i - 1], text[i])
  <2>1. ASSUME NEW i \in 0 .. n PROVE A(i) = B(i)
    <3>1. i # 0 => i \in 1 .. n /\ f[i - 1] \in Constraints
      BY <1>1, <1>6
    <3> QED BY <3>1
  <2>2. f = [i \in 0 .. n |-> A(i)]
    <3> HIDE DEF g
    <3> QED BY <1>6 DEF Solves
  <2> HIDE DEF A
  <2>3. f = [i \in 0 .. n |-> B(i)]
    <3> HIDE DEF B
    <3> QED BY <2>1, <2>2
  <2> QED BY <2>3
<1> DEFINE h == ConstraintLoop(text)
<1>8. Eq(h)
  <2> HIDE DEF Eq
  <2> QED BY <1>4, <1>7
<1>9. Steps(h)
  <2> HIDE DEF h
  <2> DEFINE B(i) == IF i = 0 THEN first ELSE AddAlternative(h[i - 1], text[i])
  <2>1. h = [i \in 0 .. n |-> B(i)]
    BY <1>8
  <2>2. \A i \in 0 .. n : h[i] = B(i)
    <3> HIDE DEF B
    <3> QED BY <2>1
  <2> QED BY <1>1, <2>2
<1> DEFINE T == {i \in 0 .. n : h[i] \in Constraints}
<1>10. 0 .. n \subseteq T
  <2> HIDE DEF h
  <2>1. 0 \in T
    BY <1>1, <1>2, <1>9
  <2>2. ASSUME NEW i \in 1 .. n, i - 1 \in T PROVE i \in T
    BY <1>3, <1>9, <2>2
  <2> HIDE DEF T
  <2> QED BY <1>1, <2>1, <2>2, BoundedInduction
<1> HIDE DEF h
<1>11. \A i \in 0 .. n : h[i] \in Constraints
  BY <1>10
<1> QED BY <1>9, <1>11 DEF h, n, first

LEMMA OneMoreIsSome == ASSUME NEW P, NEW s \in Seq(P), NEW x \in P PROVE Append(s, x) # <<>>
<1>1. Len(Append(s, x)) = Len(s) + 1 /\ Len(s) \in Nat
  OBVIOUS
<1> DEFINE more == Append(s, x)
<1> HIDE DEF more
<1>2. Len(more) # 0 => more # <<>>
  OBVIOUS
<1> QED BY <1>1, <1>2 DEF more

\* A constraint allows what one of its alternatives allows.
SomeAllows(constraint, v) == \E a \in DOMAIN constraint : ClauseAllows(constraint[a], v)

LEMMA OneMoreAllows ==
  ASSUME NEW P, NEW constraint \in Seq(P), NEW clause \in P, NEW v
  PROVE  SomeAllows(Append(constraint, clause), v)
           <=> SomeAllows(constraint, v) \/ ClauseAllows(clause, v)
<1> DEFINE more == Append(constraint, clause)
           n == Len(constraint)
<1>1. /\ n \in Nat /\ DOMAIN constraint = 1 .. n
      /\ \A i : i \in DOMAIN more <=> i \in 1 .. n \/ i = n + 1
      /\ \A i \in 1 .. n : more[i] = constraint[i]
      /\ more[n + 1] = clause
  OBVIOUS
<1> HIDE DEF more, n
<1>2. SomeAllows(more, v) <=> SomeAllows(constraint, v) \/ ClauseAllows(clause, v)
  BY <1>1, Zenon DEF SomeAllows
<1> QED BY <1>2 DEF more

\* What an alternative says: it has a word, and all of them parse.
IsAlternative(words) ==
  words # <<>> => /\ \E j \in 1 .. Len(words) : words[j] \notin SkippedWords
                  /\ \A j \in 1 .. Len(words) : WordReads(words[j])

AlternativeAllows(words, v) ==
  words # <<>> /\ \A j \in 1 .. Len(words) : WordAllows(words[j], v)

\* The constraint read so far is what the first i alternatives say.
ConstraintSays(text, i, r, v) ==
  /\ r.ok <=> \A a \in 1 .. i : IsAlternative(text[a])
  /\ r.ok => /\ (r.value = <<>>) <=> \A a \in 1 .. i : text[a] = <<>>
             /\ SomeAllows(r.value, v) <=> \E a \in 1 .. i : AlternativeAllows(text[a], v)

LEMMA AlternativeIsSaid ==
  ASSUME NEW text \in Seq(Seq(Words)), NEW i \in Nat, i + 1 \in 1 .. Len(text),
         NEW r \in Constraints, NEW v, ConstraintSays(text, i, r, v)
  PROVE  ConstraintSays(text, i + 1, AddAlternative(r, text[i + 1]), v)
<1> DEFINE words  == text[i + 1]
           clause == read_clause(words)
           more   == AddAlternative(r, words)
           Good(n) == \A a \in 1 .. n : IsAlternative(text[a])
           None(n) == \A a \in 1 .. n : text[a] = <<>>
           Some(n) == \E a \in 1 .. n : AlternativeAllows(text[a], v)
<1>1. words \in Seq(Words)
  OBVIOUS
<1>2. \A j : j \in 1 .. (i + 1) <=> j \in 1 .. i \/ j = i + 1
  OBVIOUS
<1>3. /\ Good(i + 1) <=> Good(i) /\ IsAlternative(words)
      /\ None(i + 1) <=> None(i) /\ words = <<>>
      /\ Some(i + 1) <=> Some(i) \/ AlternativeAllows(words, v)
  BY <1>2, Zenon
<1>4. /\ r.ok <=> Good(i)
      /\ r.ok => (r.value = <<>> <=> None(i)) /\ (SomeAllows(r.value, v) <=> Some(i))
  BY Zenon DEF ConstraintSays
<1> SUFFICES /\ more.ok <=> Good(i + 1)
             /\ more.ok => /\ (more.value = <<>>) <=> None(i + 1)
                           /\ SomeAllows(more.value, v) <=> Some(i + 1)
  BY Zenon DEF ConstraintSays
<1> HIDE DEF words, Good, None, Some
<1>5. clause \in Clauses /\ ClauseSays(words, Len(words), clause, v)
  BY <1>1, ClauseMeansItsWords, Zenon
<1>6. CASE ~r.ok
  <2>1. more = r
    BY <1>6, AddAlternativeCases, Zenon
  <2> QED BY <1>3, <1>4, <1>6, <2>1, Zenon
<1>7. CASE r.ok /\ words = <<>>
  <2>1. more = r
    BY <1>7, AddAlternativeCases, Zenon
  <2>2. IsAlternative(words) /\ ~AlternativeAllows(words, v)
    BY <1>7, Zenon DEF IsAlternative, AlternativeAllows
  <2> QED BY <1>3, <1>4, <1>7, <2>1, <2>2, Zenon
<1>8. CASE r.ok /\ words # <<>> /\ ~clause.ok
  <2>1. more = clause
    BY <1>8, AddAlternativeCases, Zenon
  <2>2. ~IsAlternative(words)
    BY <1>5, <1>8, Zenon DEF IsAlternative, ClauseSays
  <2> QED BY <1>3, <1>8, <2>1, <2>2, Zenon
<1>9. CASE r.ok /\ words # <<>> /\ clause.ok /\ clause.value = <<>>
  <2>1. more = EmptyAlternative
    BY <1>9, AddAlternativeCases, Zenon
  <2>2. ~IsAlternative(words)
    BY <1>5, <1>9, Zenon DEF IsAlternative, ClauseSays
  <2>3. ~more.ok
    BY <2>1, FailedAndParsed, Zenon DEF EmptyAlternative
  <2> QED BY <1>3, <2>2, <2>3, Zenon
<1>10. CASE r.ok /\ words # <<>> /\ clause.ok /\ clause.value # <<>>
  <2>1. more = Parsed(Append(r.value, clause.value))
    BY <1>10, AddAlternativeCases, Zenon
  <2>2. r.value \in Seq(Seq(Predicates)) /\ clause.value \in Seq(Predicates)
    BY <1>5, <1>10, ClauseFields, ConstraintFields, Zenon
  <2>3. IsAlternative(words) /\ (AlternativeAllows(words, v) <=> ClauseAllows(clause.value, v))
    BY <1>5, <1>10, Zenon DEF IsAlternative, AlternativeAllows, ClauseSays
  <2> HIDE DEF more, clause
  <2>4. Append(r.value, clause.value) # <<>>
    BY <2>2, OneMoreIsSome, Zenon
  <2>5. SomeAllows(Append(r.value, clause.value), v)
          <=> SomeAllows(r.value, v) \/ ClauseAllows(clause.value, v)
    BY <2>2, OneMoreAllows, Zenon
  <2>6. more.ok /\ more.value = Append(r.value, clause.value)
    BY <2>1, FailedAndParsed, Zenon
  <2> QED BY <1>3, <1>4, <1>10, <2>3, <2>4, <2>5, <2>6, Zenon
<1> QED BY <1>6, <1>7, <1>8, <1>9, <1>10, Zenon

\* The whole constraint.
LEMMA ConstraintMeansItsAlternatives ==
  ASSUME NEW text \in Seq(Seq(Words)), NEW v
  PROVE  /\ read_alternatives(text) \in Constraints
         /\ ConstraintSays(text, Len(text), read_alternatives(text), v)
<1> DEFINE h == ConstraintLoop(text)
           T == {i \in 0 .. Len(text) : ConstraintSays(text, i, h[i], v)}
<1>1. /\ h[0] = Parsed(AnyVersion)
      /\ \A i \in 1 .. Len(text) : h[i] = AddAlternative(h[i - 1], text[i])
      /\ \A i \in 0 .. Len(text) : h[i] \in Constraints
  BY ConstraintLoopSteps, Zenon
<1> HIDE DEF h
<1>2. Len(text) \in Nat /\ Len(text) \in 0 .. Len(text) /\ 0 \in 0 .. Len(text)
  OBVIOUS
<1>3. 0 \in T
  <2>1. h[0].ok /\ h[0].value = <<>>
    BY <1>1, FailedAndParsed, Zenon DEF AnyVersion
  <2>2. \A j : j \notin 1 .. 0 /\ j \notin DOMAIN <<>>
    OBVIOUS
  <2>3. ConstraintSays(text, 0, h[0], v)
    BY <2>1, <2>2, Zenon DEF ConstraintSays, SomeAllows
  <2> QED BY <1>2, <2>3
<1>4. ASSUME NEW i \in 1 .. Len(text), i - 1 \in T PROVE i \in T
  <2> DEFINE k == i - 1
  <2>1. k \in Nat /\ k \in 0 .. Len(text) /\ k + 1 = i /\ i \in 0 .. Len(text)
    OBVIOUS
  <2>2. ConstraintSays(text, k, h[k], v)
    BY <1>4
  <2>3. h[i] = AddAlternative(h[k], text[i]) /\ h[k] \in Constraints
    BY <1>1, <2>1
  <2> HIDE DEF k
  <2>4. ConstraintSays(text, k + 1, AddAlternative(h[k], text[k + 1]), v)
    <3>1. k + 1 \in 1 .. Len(text)
      BY <2>1
    <3> QED BY <2>1, <2>2, <2>3, <3>1, AlternativeIsSaid, Zenon
  <2> QED BY <2>1, <2>3, <2>4
<1> HIDE DEF T
<1>5. 0 .. Len(text) \subseteq T
  BY <1>2, <1>3, <1>4, BoundedInduction
<1>6. ConstraintSays(text, Len(text), h[Len(text)], v)
  BY <1>2, <1>5 DEF T
<1>7. read_alternatives(text) = h[Len(text)]
  BY ConstraintResult, Zenon DEF h
<1> QED BY <1>1, <1>2, <1>6, <1>7, Zenon

\* A constraint means its words, in every state.
THEOREM ConstraintsMeanTheirWords == Spec => []ConstraintMeansItsWords
<1> DEFINE text    == input.text
           Allows(word, v) == constraint_matches(<<ReadWord(word).value>>, v)
           Real(words) == {i \in DOMAIN words : words[i] \notin SkippedWords}
           written == {a \in DOMAIN text : text[a] # <<>>}
           result  == parse_constraint(text)
           read    == read_alternatives(text)
           Reads   == /\ written # {}
                      /\ \A a \in written : /\ Real(text[a]) # {}
                                            /\ \A i \in Real(text[a]) : ReadWord(text[a][i]).ok
           Means(v) == \E a \in written : \A i \in Real(text[a]) : Allows(text[a][i], v)
<1>1. ASSUME InputOK, input.about = "constraint", text \notin {<<<<Star>>>>, <<<<>>>>}
      PROVE  /\ result.ok <=> Reads
             /\ result.ok => \A v \in Candidates : constraint_matches(result.value, v) <=> Means(v)
  <2>1. text \in Seq(Seq(Words))
    BY <1>1, Zenon DEF InputOK
  <2>2. result = IF read = Parsed(AnyVersion) THEN Failed("invalid constraint") ELSE read
    BY <1>1, Zenon DEF parse_constraint
  <2>3. read \in Constraints /\ \A v : ConstraintSays(text, Len(text), read, v)
    BY <2>1, ConstraintMeansItsAlternatives, Zenon
  <2>4. DOMAIN text = 1 .. Len(text)
        /\ \A a \in DOMAIN text : DOMAIN text[a] = 1 .. Len(text[a])
    BY <2>1
  <2>5. \A a \in written : IsAlternative(text[a])
          <=> Real(text[a]) # {} /\ \A i \in Real(text[a]) : ReadWord(text[a][i]).ok
    <3> SUFFICES ASSUME NEW a \in DOMAIN text, text[a] # <<>>
                 PROVE  IsAlternative(text[a])
                          <=> Real(text[a]) # {}
                              /\ \A i \in Real(text[a]) : ReadWord(text[a][i]).ok
      OBVIOUS
    <3> DEFINE words == text[a]
    <3>1. DOMAIN words = 1 .. Len(words) /\ words # <<>>
      BY <2>4
    <3>2. \A i : i \in Real(words) <=> i \in 1 .. Len(words) /\ words[i] \notin SkippedWords
      BY <3>1
    <3> HIDE DEF words, text, Real
    <3>3. IsAlternative(words)
            <=> Real(words) # {} /\ \A i \in Real(words) : ReadWord(words[i]).ok
      BY <3>1, <3>2 DEF IsAlternative, WordReads
    <3> QED BY <3>3 DEF words
  <2>6. \A v : \A a \in written : AlternativeAllows(text[a], v)
          <=> \A i \in Real(text[a]) : Allows(text[a][i], v)
    <3> SUFFICES ASSUME NEW v, NEW a \in DOMAIN text, text[a] # <<>>
                 PROVE  AlternativeAllows(text[a], v)
                          <=> \A i \in Real(text[a]) : Allows(text[a][i], v)
      OBVIOUS
    <3> DEFINE words == text[a]
    <3>1. DOMAIN words = 1 .. Len(words) /\ words # <<>>
      BY <2>4
    <3>2. \A i : i \in Real(words) <=> i \in 1 .. Len(words) /\ words[i] \notin SkippedWords
      BY <3>1
    <3>3. \A word : Allows(word, v) <=> ClauseAllows(ReadWord(word).value, v)
      BY ClauseConstraint, Zenon
    <3> HIDE DEF words, text, Real, Allows
    <3>4. AlternativeAllows(words, v) <=> \A i \in Real(words) : Allows(words[i], v)
      BY <3>1, <3>2, <3>3, Zenon DEF AlternativeAllows, WordAllows
    <3> QED BY <3>4 DEF words
  <2>7. \A a : a \in written <=> a \in 1 .. Len(text) /\ text[a] # <<>>
    BY <2>4
  <2> HIDE DEF text, written, read, Real, Allows
  <2>8. \A a \in 1 .. Len(text) : text[a] = <<>> => IsAlternative(text[a]) /\ \A v : ~AlternativeAllows(text[a], v)
    BY Zenon DEF IsAlternative, AlternativeAllows
  <2>9. read.ok <=> \A a \in 1 .. Len(text) : IsAlternative(text[a])
    BY <2>3, Zenon DEF ConstraintSays
  <2>10. read.ok => /\ read = Parsed(read.value)
                    /\ (read.value = <<>>) <=> written = {}
                    /\ \A v : SomeAllows(read.value, v) <=> Means(v)
    <3> SUFFICES ASSUME read.ok
                 PROVE  /\ read = Parsed(read.value)
                        /\ (read.value = <<>>) <=> written = {}
                        /\ \A v : SomeAllows(read.value, v) <=> Means(v)
      OBVIOUS
    <3>1. read = Parsed(read.value)
      BY <2>3, ConstraintFields, Zenon
    <3>2. (read.value = <<>>) <=> \A a \in 1 .. Len(text) : text[a] = <<>>
      BY <2>3, Zenon DEF ConstraintSays
    <3>3. (read.value = <<>>) <=> written = {}
      BY <2>7, <3>2
    <3>4. \A v : SomeAllows(read.value, v) <=> \E a \in 1 .. Len(text) : AlternativeAllows(text[a], v)
      BY <2>3, Zenon DEF ConstraintSays
    <3>5. \A v : SomeAllows(read.value, v) <=> Means(v)
      BY <2>6, <2>7, <2>8, <3>4, Zenon
    <3> QED BY <3>1, <3>3, <3>5
  <2>11. CASE read = Parsed(AnyVersion)
    <3>1. read.ok /\ read.value = <<>>
      BY <2>11, FailedAndParsed, Zenon DEF AnyVersion
    <3>2. ~result.ok
      BY <2>2, <2>11, FailedAndParsed, Zenon
    <3>3. written = {}
      BY <2>10, <3>1, Zenon
    <3> QED BY <3>2, <3>3, Zenon
  <2>12. CASE read # Parsed(AnyVersion)
    <3>1. result = read
      BY <2>2, <2>12, Zenon
    <3> HIDE DEF result
    <3>2. read.ok => written # {} /\ read.value # <<>>
      BY <2>10, <2>12, Zenon DEF AnyVersion
    <3>3. read.ok <=> Reads
      BY <2>5, <2>7, <2>8, <2>9, <3>2, Zenon
    <3>4. read.ok => \A v : constraint_matches(read.value, v) <=> Means(v)
      BY <2>10, <3>2, Zenon DEF constraint_matches, SomeAllows, ClauseAllows, AnyVersion
    <3> QED BY <3>1, <3>3, <3>4, Zenon
  <2> QED BY <2>11, <2>12, Zenon
<1>2. InputOK => ConstraintMeansItsWords
  BY <1>1, Zenon DEF ConstraintMeansItsWords
<1> QED BY <1>2, InputsAreWellFormed, PTL

-----------------------------------------------------------------------------
(* The lines of a text of metadata *)

\* The symbols of the contents, and those of the keys of a package's own.  (The
\* provers do not know that a literal is in STRING.)
LineSymbol ==
  Symbol \cup {Equal, Newline, MetaPrefix} \cup {Letters(id) : id \in Registered}
         \cup {Letters(w) : w \in {"format", "schema.identifier", "schema.language"}}

Written == Seq(LineSymbol)

LEMMA SymbolsOfLines == Equal \in LineSymbol /\ Newline \in LineSymbol /\ Equal # Newline
<1>1. Equal # Newline
  BY DEF Equal, Newline, Char
<1> QED BY <1>1 DEF LineSymbol

\* Two texts that agree on a stretch have the same slice there.
LEMMA SameSlices ==
  ASSUME NEW S, NEW t \in Seq(S), NEW u \in Seq(S), NEW m \in Nat, NEW n \in Int, NEW k \in Nat,
         m >= 1, n <= Len(t), k + n <= Len(u), \A i \in m .. n : u[k + i] = t[i]
  PROVE  SubSeq(u, k + m, k + n) = SubSeq(t, m, n)
<1>1. \A i \in m .. n : t[i] \in S
  OBVIOUS
<1>2. \A i \in k + m .. k + n : u[i] \in S
  OBVIOUS
<1>3. /\ SubSeq(t, m, n) \in Seq(S)
      /\ Len(SubSeq(t, m, n)) = IF m <= n THEN n - m + 1 ELSE 0
      /\ \A i \in 1 .. n - m + 1 : SubSeq(t, m, n)[i] = t[m + i - 1]
  BY <1>1, SubSeqProperties
<1>4. /\ SubSeq(u, k + m, k + n) \in Seq(S)
      /\ Len(SubSeq(u, k + m, k + n)) = IF m <= n THEN n - m + 1 ELSE 0
      /\ \A i \in 1 .. n - m + 1 : SubSeq(u, k + m, k + n)[i] = u[k + (m + i - 1)]
  <2> DEFINE a == k + m
             b == k + n
  <2>1. a \in Int /\ b \in Int /\ b - a = n - m /\ (a <= b <=> m <= n)
    OBVIOUS
  <2>2. \A i \in a .. b : u[i] \in S
    BY <1>2
  <2>3. \A i \in 1 .. n - m + 1 : a + i - 1 = k + (m + i - 1)
    OBVIOUS
  <2> HIDE DEF a, b
  <2>4. /\ SubSeq(u, a, b) \in Seq(S)
        /\ Len(SubSeq(u, a, b)) = IF a <= b THEN b - a + 1 ELSE 0
        /\ \A i \in 1 .. b - a + 1 : SubSeq(u, a, b)[i] = u[a + i - 1]
    BY <2>1, <2>2, SubSeqProperties
  <2>5. /\ SubSeq(u, a, b) \in Seq(S)
        /\ Len(SubSeq(u, a, b)) = IF m <= n THEN n - m + 1 ELSE 0
        /\ \A i \in 1 .. n - m + 1 : SubSeq(u, a, b)[i] = u[k + (m + i - 1)]
    BY <2>1, <2>3, <2>4
  <2> QED BY <2>5 DEF a, b
<1>5. \A i \in 1 .. Len(SubSeq(t, m, n)) : SubSeq(u, k + m, k + n)[i] = SubSeq(t, m, n)[i]
  <2>1. \A i \in 1 .. Len(SubSeq(t, m, n)) : i \in 1 .. n - m + 1 /\ m + i - 1 \in m .. n
    BY <1>3
  <2> QED BY <1>3, <1>4, <2>1
<1> QED BY <1>3, <1>4, <1>5, SeqEqual

\* Where a line begins: there is one place.
IsStart(text, at, i) ==
  /\ i \in 1 .. at
  /\ i = 1 \/ text[i - 1] = Newline
  /\ \A j \in i .. at - 1 : text[j] # Newline

LEMMA LineStarts ==
  ASSUME NEW t, NEW at \in Nat, at >= 1
  PROVE  /\ IsStart(t, at, LineStart(t, at))
         /\ \A i : IsStart(t, at, i) => i = LineStart(t, at)
<1> DEFINE T == {a \in Nat : a = 0 \/ \E i \in 1 .. a : IsStart(t, a, i)}
<1>1. 0 \in T
  OBVIOUS
<1>2. \A a \in Nat : a \in T => a + 1 \in T
  <2> SUFFICES ASSUME NEW a \in Nat, a \in T PROVE \E i \in 1 .. a + 1 : IsStart(t, a + 1, i)
    OBVIOUS
  <2>1. CASE a = 0 \/ t[a] = Newline
    <3>1. IsStart(t, a + 1, a + 1)
      BY <2>1 DEF IsStart
    <3> QED BY <3>1
  <2>2. CASE a # 0 /\ t[a] # Newline
    <3>1. PICK i \in 1 .. a : IsStart(t, a, i)
      BY <2>2
    <3>2. \A j \in i .. (a + 1) - 1 : j = a \/ j \in i .. a - 1
      OBVIOUS
    <3>3. IsStart(t, a + 1, i)
      BY <2>2, <3>1, <3>2 DEF IsStart
    <3> QED BY <3>3
  <2> QED BY <2>1, <2>2
<1> HIDE DEF T
<1>3. Nat \subseteq T
  BY <1>1, <1>2, NatSetInduction
<1>4. \E i \in 1 .. at : IsStart(t, at, i)
  BY <1>3 DEF T
<1>5. ASSUME NEW i, NEW j, IsStart(t, at, i), IsStart(t, at, j), i # j PROVE FALSE
  <2>1. i \in 1 .. at /\ j \in 1 .. at
    BY <1>5 DEF IsStart
  <2>2. CASE i < j
    <3>1. j - 1 \in i .. at - 1 /\ t[j - 1] = Newline
      BY <1>5, <2>1, <2>2 DEF IsStart
    <3> QED BY <1>5, <3>1 DEF IsStart
  <2>3. CASE j < i
    <3>1. i - 1 \in j .. at - 1 /\ t[i - 1] = Newline
      BY <1>5, <2>1, <2>3 DEF IsStart
    <3> QED BY <1>5, <3>1 DEF IsStart
  <2> QED BY <1>5, <2>1, <2>2, <2>3
<1>6. LineStart(t, at) = CHOOSE i \in 1 .. at : IsStart(t, at, i)
  BY Zenon DEF LineStart, IsStart
<1> QED BY <1>4, <1>5, <1>6

\* Where a line ends, in a text whose last line does.
Ended(text) == text = <<>> \/ text[Len(text)] = Newline

IsEnd(text, at, i) ==
  /\ i \in at .. Len(text)
  /\ text[i] = Newline
  /\ \A j \in at .. i - 1 : text[j] # Newline

LEMMA LineEnds ==
  ASSUME NEW t \in Written, Ended(t), NEW at \in 1 .. Len(t)
  PROVE  /\ IsEnd(t, at, LineEnd(t, at))
         /\ \A i : IsEnd(t, at, i) => i = LineEnd(t, at)
<1> DEFINE n == Len(t)
<1>1. n \in Nat /\ t[n] = Newline
  <2>1. t # <<>>
    BY DEF Written
  <2> QED BY <2>1 DEF Ended, Written
<1> DEFINE T == {k \in Nat : k < n => \E i \in n - k .. n : IsEnd(t, n - k, i)}
<1>2. 0 \in T
  <2>1. IsEnd(t, n, n)
    BY <1>1 DEF IsEnd
  <2> HIDE DEF n
  <2> QED BY <1>1, <2>1
<1>3. ASSUME NEW k \in Nat, k \in T PROVE k + 1 \in T
  <2> SUFFICES ASSUME k + 1 < n
               PROVE  \E i \in n - (k + 1) .. n : IsEnd(t, n - (k + 1), i)
    OBVIOUS
  <2> DEFINE a == n - (k + 1)
  <2>1. a \in Nat /\ a <= n /\ n - k = a + 1
    BY <1>1
  <2>2. CASE t[a] = Newline
    <3>1. IsEnd(t, a, a)
      BY <2>1, <2>2 DEF IsEnd
    <3> QED BY <2>1, <3>1
  <2>3. CASE t[a] # Newline
    <3>1. PICK i \in n - k .. n : IsEnd(t, n - k, i)
      BY <1>1, <1>3
    <3>2. i \in a + 1 .. n /\ IsEnd(t, a + 1, i)
      BY <2>1, <3>1
    <3> HIDE DEF a
    <3>3. i \in a .. n /\ \A j \in a .. i - 1 : j = a \/ j \in a + 1 .. i - 1
      BY <1>1, <2>1, <3>2
    <3>4. IsEnd(t, a, i)
      BY <2>3, <3>2, <3>3 DEF IsEnd
    <3> QED BY <3>3, <3>4 DEF a
  <2> QED BY <2>2, <2>3
<1> HIDE DEF T
<1>4. Nat \subseteq T
  BY <1>2, <1>3, NatSetInduction
<1>5. \E i \in at .. n : IsEnd(t, at, i)
  <2>1. n - at \in T /\ n - at < n /\ n - (n - at) = at
    BY <1>1, <1>4
  <2> QED BY <2>1 DEF T
<1>6. ASSUME NEW i, NEW j, IsEnd(t, at, i), IsEnd(t, at, j), i # j PROVE FALSE
  <2>1. i \in at .. n /\ j \in at .. n
    BY <1>6 DEF IsEnd
  <2>2. CASE i < j
    <3>1. i \in at .. j - 1
      BY <1>1, <2>1, <2>2
    <3> QED BY <1>6, <3>1 DEF IsEnd
  <2>3. CASE j < i
    <3>1. j \in at .. i - 1
      BY <1>1, <2>1, <2>3
    <3> QED BY <1>6, <3>1 DEF IsEnd
  <2> QED BY <1>1, <1>6, <2>1, <2>2, <2>3
<1>7. LineEnd(t, at) = CHOOSE i \in at .. n : IsEnd(t, at, i)
  BY Zenon DEF LineEnd, IsEnd
<1> QED BY <1>5, <1>6, <1>7

\* What a line says after its first =.
ValueAt(text, at) == SubSeq(text, at + 1, LineEnd(text, at) - 1)

\* A text of ended lines reads the same when more follows it.
LEMMA LinesStay ==
  ASSUME NEW t \in Written, NEW r \in Written, Ended(t), NEW at \in 1 .. Len(t)
  PROVE  /\ LineStart(t \o r, at) = LineStart(t, at)
         /\ LineEnd(t \o r, at) = LineEnd(t, at)
         /\ at \in Equals(t \o r) <=> at \in Equals(t)
         /\ KeyAt(t \o r, at) = KeyAt(t, at)
         /\ ValueAt(t \o r, at) = ValueAt(t, at)
<1> DEFINE u == t \o r
           n == Len(t)
           a == LineStart(t, at)
           e == LineEnd(t, at)
<1>1. /\ n \in Nat /\ Len(u) \in Nat /\ n <= Len(u) /\ u \in Written
      /\ DOMAIN t = 1 .. n /\ DOMAIN u = 1 .. Len(u)
      /\ \A i \in 1 .. n : u[i] = t[i]
  BY ConcatProperties DEF Written
<1> HIDE DEF u, n
<1>2. at \in Nat /\ at >= 1 /\ at <= n /\ t \in Written
  BY <1>1 DEF n
<1>3. IsStart(t, at, a) /\ IsEnd(t, at, e)
  BY <1>2, LineStarts, LineEnds DEF n
<1>4. a \in 1 .. at /\ e \in at .. n
  BY <1>3 DEF IsStart, IsEnd, n
<1> HIDE DEF a, e
<1>5. LineStart(u, at) = a
  <2>1. IsStart(u, at, a)
    <3>1. a # 1 => u[a - 1] = t[a - 1]
      BY <1>1, <1>2, <1>4
    <3>2. \A j \in a .. at - 1 : u[j] = t[j]
      BY <1>1, <1>2, <1>4
    <3> QED BY <1>3, <3>1, <3>2 DEF IsStart
  <2> QED BY <1>2, <2>1, LineStarts
<1>6. LineEnd(u, at) = e
  <2> DEFINE P(x, i) == x[i] = Newline /\ \A j \in at .. i - 1 : x[j] # Newline
  <2>1. e \in at .. Len(u) /\ P(u, e)
    <3>1. u[e] = t[e] /\ \A j \in at .. e - 1 : u[j] = t[j]
      BY <1>1, <1>2, <1>4
    <3> QED BY <1>1, <1>3, <1>4, <3>1 DEF IsEnd
  <2>2. ASSUME NEW i \in at .. Len(u), P(u, i) PROVE i = e
    <3>1. ~(e \in at .. i - 1) /\ ~(i \in at .. e - 1)
      BY <2>1, <2>2
    <3> QED BY <1>1, <1>2, <1>4, <3>1
  <2>3. LineEnd(u, at) = CHOOSE i \in at .. Len(u) : P(u, i)
    BY Zenon DEF LineEnd
  <2> HIDE DEF P
  <2> QED BY <2>1, <2>2, <2>3
<1>7. at \in Equals(u) <=> at \in Equals(t)
  <2>1. u[at] = t[at] /\ \A j \in a .. at - 1 : u[j] = t[j]
    BY <1>1, <1>2, <1>4
  <2>2. at \in DOMAIN t /\ at \in DOMAIN u
    BY <1>1, <1>2
  <2>3. LineStart(t, at) = a
    BY DEF a
  <2> QED BY <1>5, <2>1, <2>2, <2>3 DEF Equals
<1>8. KeyAt(u, at) = KeyAt(t, at)
  <2>1. \A i \in a .. at - 1 : u[0 + i] = t[i]
    BY <1>1, <1>2, <1>4
  <2>2. a \in Nat /\ a >= 1 /\ at - 1 \in Int /\ at - 1 <= Len(t) /\ 0 + (at - 1) <= Len(u)
    BY <1>1, <1>2, <1>4 DEF n
  <2>3. SubSeq(u, 0 + a, 0 + (at - 1)) = SubSeq(t, a, at - 1)
    BY <1>1, <2>1, <2>2, SameSlices DEF Written
  <2>4. 0 + a = a /\ 0 + (at - 1) = at - 1
    BY <1>2, <1>4
  <2>5. LineStart(t, at) = a
    BY DEF a
  <2> QED BY <1>5, <2>3, <2>4, <2>5 DEF KeyAt
<1>9. ValueAt(u, at) = ValueAt(t, at)
  <2>1. \A i \in at + 1 .. e - 1 : u[0 + i] = t[i]
    BY <1>1, <1>2, <1>4
  <2>2. at + 1 \in Nat /\ at + 1 >= 1 /\ e - 1 \in Int /\ e - 1 <= Len(t) /\ 0 + (e - 1) <= Len(u)
    BY <1>1, <1>2, <1>4 DEF n
  <2>3. SubSeq(u, 0 + (at + 1), 0 + (e - 1)) = SubSeq(t, at + 1, e - 1)
    BY <1>1, <2>1, <2>2, SameSlices DEF Written
  <2>4. 0 + (at + 1) = at + 1 /\ 0 + (e - 1) = e - 1
    BY <1>2, <1>4
  <2>5. LineEnd(t, at) = e
    BY DEF e
  <2> QED BY <1>6, <2>3, <2>4, <2>5 DEF ValueAt
<1> QED BY <1>5, <1>6, <1>7, <1>8, <1>9 DEF u, a, e

\* The first line of a key.
IsFirst(text, key, at) ==
  /\ at \in Equals(text)
  /\ KeyAt(text, at) = key
  /\ \A other \in Equals(text) : KeyAt(text, other) = key => at <= other

LEMMA FirstLineCounts ==
  ASSUME NEW t \in Written, NEW key
  PROVE  /\ key \in DOMAIN parse_metadata(t) <=> \E at \in Equals(t) : KeyAt(t, at) = key
         /\ key \in DOMAIN parse_metadata(t) => \E at \in Equals(t) : IsFirst(t, key, at)
         /\ \A at : IsFirst(t, key, at) => parse_metadata(t)[key] = ValueAt(t, at)
<1>1. key \in DOMAIN parse_metadata(t) <=> \E at \in Equals(t) : KeyAt(t, at) = key
  BY DEF parse_metadata
<1>2. Equals(t) \subseteq Nat
  BY DEF Equals, Written
<1>3. ASSUME \E at \in Equals(t) : KeyAt(t, at) = key
      PROVE  \E at \in Equals(t) : IsFirst(t, key, at)
  <2> SUFFICES ASSUME \A at \in Equals(t) : ~IsFirst(t, key, at) PROVE FALSE
    OBVIOUS
  <2> DEFINE T == {n \in Nat : \A at \in Equals(t) : at <= n => KeyAt(t, at) # key}
  <2>1. 0 \in T
    BY DEF Equals, Written
  <2>2. ASSUME NEW n \in Nat, n \in T PROVE n + 1 \in T
    <3> SUFFICES ASSUME NEW at \in Equals(t), at <= n + 1, KeyAt(t, at) = key PROVE FALSE
      OBVIOUS
    <3>1. \A other \in Equals(t) : KeyAt(t, other) = key => at <= other
      BY <1>2, <2>2
    <3> QED BY <3>1 DEF IsFirst
  <2> HIDE DEF T
  <2>3. Nat \subseteq T
    BY <2>1, <2>2, NatSetInduction
  <2>4. PICK at \in Equals(t) : KeyAt(t, at) = key
    BY <1>3
  <2>5. at \in T /\ at <= at
    BY <1>2, <2>3
  <2> QED BY <2>4, <2>5 DEF T
<1>4. ASSUME NEW at, IsFirst(t, key, at) PROVE parse_metadata(t)[key] = ValueAt(t, at)
  <2> DEFINE P(i) == /\ KeyAt(t, i) = key
                     /\ \A other \in Equals(t) : KeyAt(t, other) = key => i <= other
  <2>1. at \in Equals(t) /\ P(at)
    BY <1>4 DEF IsFirst
  <2>2. \A i \in Equals(t) : P(i) => i = at
    BY <1>2, <2>1
  <2> HIDE DEF P
  <2>3. (CHOOSE i \in Equals(t) : P(i)) = at
    BY <2>1, <2>2
  <2>4. parse_metadata(t)[key] = LET first == CHOOSE i \in Equals(t) : P(i)
                                 IN  SubSeq(t, first + 1, LineEnd(t, first) - 1)
    <3>1. key \in {KeyAt(t, i) : i \in Equals(t)}
      BY <2>1 DEF P
    <3> QED BY <3>1 DEF parse_metadata, P
  <2> QED BY <2>3, <2>4 DEF ValueAt
<1> QED BY <1>1, <1>3, <1>4

\* What a text of ended lines says stays, whatever follows it.
LEMMA LaterLinesAdd ==
  ASSUME NEW t \in Written, NEW r \in Written, Ended(t), NEW key \in DOMAIN parse_metadata(t)
  PROVE  /\ key \in DOMAIN parse_metadata(t \o r)
         /\ parse_metadata(t \o r)[key] = parse_metadata(t)[key]
<1> DEFINE u == t \o r
<1>1. u \in Written /\ Equals(u) \subseteq Nat /\ Equals(t) \subseteq 1 .. Len(t) /\ Len(t) \in Nat
      /\ \A i \in Equals(u) : i \in 1 .. Len(t) \/ i > Len(t)
  BY ConcatProperties DEF Written, Equals
<1>2. PICK at \in Equals(t) : IsFirst(t, key, at)
  BY FirstLineCounts
<1>3. at \in 1 .. Len(t) /\ at \in Equals(u) /\ KeyAt(u, at) = key /\ ValueAt(u, at) = ValueAt(t, at)
  BY <1>1, <1>2, LinesStay DEF IsFirst
<1>4. ASSUME NEW other \in Equals(u), KeyAt(u, other) = key PROVE at <= other
  <2>1. CASE other > Len(t)
    BY <1>1, <1>3, <2>1
  <2>2. CASE other \in 1 .. Len(t)
    <3>1. other \in Equals(t) /\ KeyAt(t, other) = key
      BY <1>4, <2>2, LinesStay
    <3> QED BY <1>2, <3>1 DEF IsFirst
  <2> QED BY <1>1, <2>1, <2>2
<1> HIDE DEF u
<1>5. IsFirst(u, key, at)
  BY <1>3, <1>4 DEF IsFirst
<1>6. key \in DOMAIN parse_metadata(u) /\ parse_metadata(u)[key] = ValueAt(u, at)
  BY <1>1, <1>3, <1>5, FirstLineCounts
<1>7. parse_metadata(t)[key] = ValueAt(t, at)
  BY <1>2, FirstLineCounts
<1> QED BY <1>3, <1>6, <1>7 DEF u

\* The places of the parts of a concatenation.
IsConcat(S, s, t, u) ==
  /\ u \in Seq(S) /\ Len(u) = Len(s) + Len(t)
  /\ \A i \in 1 .. Len(s) : u[i] = s[i]
  /\ \A i \in 1 .. Len(t) : u[Len(s) + i] = t[i]

LEMMA PlacesOfConcat ==
  ASSUME NEW S, NEW s \in Seq(S), NEW t \in Seq(S)
  PROVE  IsConcat(S, s, t, s \o t)
<1> DEFINE u == s \o t
           n == Len(s)
           m == Len(t)
<1>0. n \in Nat /\ m \in Nat
  OBVIOUS
<1>1. /\ u \in Seq(S) /\ Len(u) = n + m
      /\ \A i \in 1 .. n + m : u[i] = IF i <= n THEN s[i] ELSE t[i - n]
  BY ConcatProperties
<1> HIDE DEF u, n, m
<1>2. ASSUME NEW i \in 1 .. m PROVE u[n + i] = t[i]
  <2>1. n + i \in 1 .. n + m /\ ~(n + i <= n) /\ (n + i) - n = i
    BY <1>0
  <2> QED BY <1>1, <2>1
<1>3. \A i \in 1 .. n : u[i] = s[i]
  BY <1>0, <1>1
<1> QED BY <1>1, <1>2, <1>3 DEF IsConcat, u, n, m

LEMMA PartsOfConcat ==
  ASSUME NEW s \in Written, NEW t \in Written
  PROVE  /\ s \o t \in Written /\ Len(s \o t) = Len(s) + Len(t)
         /\ \A i \in 1 .. Len(s) : (s \o t)[i] = s[i]
         /\ \A i \in 1 .. Len(t) : (s \o t)[Len(s) + i] = t[i]
<1>1. IsConcat(LineSymbol, s, t, s \o t)
  BY PlacesOfConcat, Zenon DEF Written
<1> QED BY <1>1, Zenon DEF IsConcat, Written

LEMMA TextsAssociate ==
  ASSUME NEW s \in Written, NEW t \in Written, NEW u \in Written
  PROVE  (s \o t) \o u = s \o (t \o u)
BY ConcatAssociative DEF Written

\* The symbols of a text with one more line.
LineAppended(t, key, text, u) ==
  LET at == Len(t) + Len(key) + 1
      e  == at + Len(text) + 1
  IN  /\ u \in Written /\ Len(u) = e /\ u[e] = Newline
      /\ \A i \in 1 .. Len(t) : u[i] = t[i]
      /\ \A i \in 1 .. Len(key) : u[Len(t) + i] = key[i]
      /\ u[at] = Equal
      /\ \A i \in 1 .. Len(text) : u[at + i] = text[i]

LEMMA LineIsAppended ==
  ASSUME NEW t \in Written, NEW key \in Written, NEW text \in Written
  PROVE  /\ Line(key, text) \in Written
         /\ LineAppended(t, key, text, t \o Line(key, text))
<1> DEFINE n == Len(t)
           m == Len(key)
           k == Len(text)
           u == t \o Line(key, text)
<1>a. n \in Nat /\ m \in Nat /\ k \in Nat /\ n = Len(t) /\ m = Len(key) /\ k = Len(text)
  BY DEF Written
<1> HIDE DEF n, m, k
<1> DEFINE a == key \o <<Equal>>
           b == a \o text
           c == b \o <<Newline>>
<1>0. Line(key, text) = c /\ u = t \o c
  <2>1. Line(key, text) = c
    BY Zenon DEF Line
  <2> QED BY <2>1
<1> HIDE DEF u
<1>1. /\ <<Equal>> \in Written /\ <<Newline>> \in Written
      /\ Len(<<Equal>>) = 1 /\ Len(<<Newline>>) = 1
      /\ <<Equal>>[1] = Equal /\ <<Newline>>[1] = Newline
  BY SymbolsOfLines DEF Written
<1>2. /\ a \in Written /\ Len(a) = m + 1
      /\ \A i \in 1 .. m : a[i] = key[i]
      /\ a[m + 1] = Equal
  BY <1>1, <1>a, PartsOfConcat DEF Written
<1> HIDE DEF a
<1>3. /\ b \in Written /\ Len(b) = m + 1 + k
      /\ \A i \in 1 .. m + 1 : b[i] = a[i]
      /\ \A i \in 1 .. k : b[m + 1 + i] = text[i]
  <2>1. /\ b \in Written /\ Len(b) = Len(a) + Len(text)
        /\ \A i \in 1 .. Len(a) : b[i] = a[i]
        /\ \A i \in 1 .. Len(text) : b[Len(a) + i] = text[i]
    BY <1>2, PartsOfConcat, Zenon
  <2> HIDE DEF b
  <2> QED BY <1>a, <1>2, <2>1
<1> HIDE DEF b
<1>4. /\ c \in Written /\ Len(c) = m + 1 + k + 1
      /\ \A i \in 1 .. m + 1 + k : c[i] = b[i]
      /\ c[m + 1 + k + 1] = Newline
  <2>1. /\ c \in Written /\ Len(c) = Len(b) + Len(<<Newline>>)
        /\ \A i \in 1 .. Len(b) : c[i] = b[i]
        /\ \A i \in 1 .. Len(<<Newline>>) : c[Len(b) + i] = <<Newline>>[i]
    BY <1>1, <1>3, PartsOfConcat, Zenon
  <2> HIDE DEF c
  <2> QED BY <1>a, <1>1, <1>3, <2>1
<1> HIDE DEF c
<1>5. /\ u \in Written /\ Len(u) = n + (m + 1 + k + 1)
      /\ \A i \in 1 .. n : u[i] = t[i]
      /\ \A i \in 1 .. m + 1 + k + 1 : u[n + i] = c[i]
  <2>1. /\ t \o c \in Written /\ Len(t \o c) = Len(t) + Len(c)
        /\ \A i \in 1 .. Len(t) : (t \o c)[i] = t[i]
        /\ \A i \in 1 .. Len(c) : (t \o c)[Len(t) + i] = c[i]
    BY <1>4, PartsOfConcat, Zenon
  <2>2. /\ u \in Written /\ Len(u) = Len(t) + Len(c)
        /\ \A i \in 1 .. Len(t) : u[i] = t[i]
        /\ \A i \in 1 .. Len(c) : u[Len(t) + i] = c[i]
    BY <1>0, <2>1, Zenon
  <2> QED BY <1>a, <1>4, <2>2
<1>6. u[n + m + 1] = Equal /\ \A i \in 1 .. m : u[n + i] = key[i]
  <2>1. m + 1 \in 1 .. m + 1 + k + 1 /\ m + 1 \in 1 .. m + 1 + k /\ m + 1 \in 1 .. m + 1
        /\ n + (m + 1) = n + m + 1
        /\ \A i \in 1 .. m : i \in 1 .. m + 1 + k + 1 /\ i \in 1 .. m + 1 + k /\ i \in 1 .. m + 1
    BY <1>a
  <2> QED BY <1>a, <1>2, <1>3, <1>4, <1>5, <2>1
<1>7. ASSUME NEW i \in 1 .. k PROVE u[n + m + 1 + i] = text[i]
  <2>1. m + 1 + i \in 1 .. m + 1 + k + 1 /\ m + 1 + i \in 1 .. m + 1 + k
        /\ n + (m + 1 + i) = n + m + 1 + i
    BY <1>a
  <2>2. u[n + (m + 1 + i)] = c[m + 1 + i]
    BY <1>5, <2>1
  <2>3. c[m + 1 + i] = b[m + 1 + i]
    BY <1>4, <2>1
  <2>4. b[m + 1 + i] = text[i]
    BY <1>3
  <2> QED BY <1>a, <2>1, <2>2, <2>3, <2>4
<1>8. Len(u) = n + m + 1 + k + 1 /\ u[n + m + 1 + k + 1] = Newline
  <2>1. m + 1 + k + 1 \in 1 .. m + 1 + k + 1 /\ n + (m + 1 + k + 1) = n + m + 1 + k + 1
    BY <1>a
  <2> QED BY <1>a, <1>4, <1>5, <2>1
<1>9. c \in Written
  BY <1>4
<1>10. LineAppended(t, key, text, u)
  <2> USE <1>a DEF n, m, k
  <2> QED BY <1>5, <1>6, <1>7, <1>8 DEF LineAppended
<1> QED BY <1>0, <1>9, <1>10 DEF u

\* A key that a line can have: the line ends where it ends.
IsKey(key) == key \in Written /\ IsOneLine(key) /\ Equal \notin Range(key)

\* u says what t says, and a text under one key more.
LineAdds(t, key, text, u) ==
  /\ u \in Written /\ Ended(u)
  /\ DOMAIN parse_metadata(u) = DOMAIN parse_metadata(t) \cup {key}
  /\ \A other \in DOMAIN parse_metadata(t) :
       parse_metadata(u)[other] = parse_metadata(t)[other]
  /\ parse_metadata(u)[key] = text

\* A line more: what it says is added, under a key that has no line yet.
LEMMA OneMoreLine ==
  ASSUME NEW t \in Written, Ended(t), NEW key, IsKey(key), NEW text \in Written,
         IsOneLine(text), key \notin DOMAIN parse_metadata(t)
  PROVE  LineAdds(t, key, text, t \o Line(key, text))
<1> DEFINE n  == Len(t)
           m  == Len(key)
           k  == Len(text)
           line == Line(key, text)
           u  == t \o line
           at == n + m + 1
           e  == at + k + 1
<1>0. key \in Written /\ IsOneLine(key) /\ Equal \notin Range(key)
  BY DEF IsKey
<1>1. n \in Nat /\ m \in Nat /\ k \in Nat
      /\ DOMAIN key = 1 .. m /\ DOMAIN text = 1 .. k
  BY <1>0 DEF Written
<1>2. /\ line \in Written /\ u \in Written
      /\ Len(u) = e /\ u[e] = Newline
      /\ \A i \in 1 .. n : u[i] = t[i]
      /\ \A i \in 1 .. m : u[n + i] = key[i]
      /\ u[at] = Equal
      /\ \A i \in 1 .. k : u[at + i] = text[i]
  <2>1. line \in Written /\ LineAppended(t, key, text, u)
    BY <1>0, LineIsAppended, Zenon
  <2> HIDE DEF u, line
  <2> QED BY <2>1 DEF LineAppended
<1>3. /\ \A i \in 1 .. m : key[i] # Newline /\ key[i] # Equal
      /\ \A i \in 1 .. k : text[i] # Newline
  BY <1>0, <1>1 DEF IsOneLine, Range
<1> HIDE DEF n, m, k, line
<1>4. at \in Nat /\ at >= 1 /\ e \in Nat /\ n < at /\ at < e /\ at = n + m + 1 /\ e = at + k + 1
  BY <1>1
<1> HIDE DEF at, e, u
<1>5. Equal # Newline
  BY SymbolsOfLines
<1>6. \A j \in n + 1 .. e - 1 : u[j] # Newline
  <2> SUFFICES ASSUME NEW j \in n + 1 .. e - 1 PROVE u[j] # Newline
    OBVIOUS
  <2>1. CASE j < at
    <3>1. j - n \in 1 .. m /\ n + (j - n) = j
      BY <1>1, <1>4, <2>1
    <3> QED BY <1>2, <1>3, <3>1
  <2>2. CASE j = at
    BY <1>2, <1>5, <2>2
  <2>3. CASE j > at
    <3>1. j - at \in 1 .. k /\ at + (j - at) = j
      BY <1>1, <1>4, <2>3
    <3> QED BY <1>2, <1>3, <3>1
  <2> QED BY <1>1, <1>4, <2>1, <2>2, <2>3
<1>7. ASSUME NEW x \in n + 1 .. e PROVE LineStart(u, x) = n + 1
  <2>1. n # 0 => u[(n + 1) - 1] = Newline
    <3>1. n # 0 => t # <<>> /\ n \in 1 .. n /\ (n + 1) - 1 = n
      BY <1>1 DEF n
    <3> QED BY <1>2, <3>1 DEF Ended, n
  <2>2. \A j \in n + 1 .. x - 1 : u[j] # Newline
    <3>1. \A j \in n + 1 .. x - 1 : j \in n + 1 .. e - 1
      BY <1>1, <1>4
    <3> QED BY <1>6, <3>1
  <2>3. IsStart(u, x, n + 1)
    BY <1>1, <1>4, <2>1, <2>2 DEF IsStart
  <2> QED BY <1>1, <1>4, <2>3, LineStarts
<1>8. DOMAIN u = 1 .. e
  BY <1>2 DEF Written
<1>9. at \in Equals(u)
  <2>1. LineStart(u, at) = n + 1
    BY <1>1, <1>4, <1>7
  <2>2. \A i \in n + 1 .. at - 1 : u[i] # Equal
    <3> SUFFICES ASSUME NEW i \in n + 1 .. at - 1 PROVE u[i] # Equal
      OBVIOUS
    <3>1. i - n \in 1 .. m /\ n + (i - n) = i
      BY <1>1, <1>4
    <3> QED BY <1>2, <1>3, <3>1
  <2>3. at \in DOMAIN u
    BY <1>4, <1>8
  <2> QED BY <1>2, <2>1, <2>2, <2>3 DEF Equals
<1>10. ASSUME NEW x \in Equals(u), x > n PROVE x = at
  <2>1. x \in n + 1 .. e /\ u[x] = Equal /\ \A i \in n + 1 .. x - 1 : u[i] # Equal
    <3>1. x \in n + 1 .. e
      BY <1>1, <1>4, <1>8, <1>10 DEF Equals
    <3> QED BY <1>7, <3>1 DEF Equals
  <2>2. CASE x < at
    <3>1. x - n \in 1 .. m /\ n + (x - n) = x
      BY <1>1, <1>4, <2>1, <2>2
    <3> QED BY <1>2, <1>3, <2>1, <3>1
  <2>3. CASE x > at
    <3>1. at \in n + 1 .. x - 1
      BY <1>1, <1>4, <2>1, <2>3
    <3> QED BY <1>2, <2>1, <3>1
  <2> QED BY <1>1, <1>4, <2>1, <2>2, <2>3
<1>11. KeyAt(u, at) = key
  <2>1. LineStart(u, at) = n + 1
    <3>1. at \in n + 1 .. e
      BY <1>1, <1>4
    <3> QED BY <1>7, <3>1
  <2>2. n + m <= Len(u) /\ m <= Len(key) /\ at - 1 = n + m
    BY <1>1, <1>2, <1>4 DEF m
  <2>3. SubSeq(u, n + 1, n + m) = SubSeq(key, 1, m)
    BY <1>0, <1>1, <1>2, <2>2, SameSlices DEF Written
  <2>4. SubSeq(key, 1, m) = key
    BY <1>0, SubSeqFull DEF Written, m
  <2> QED BY <2>1, <2>2, <2>3, <2>4 DEF KeyAt
<1>12. Ended(u)
  BY <1>2 DEF Ended
<1>13. ValueAt(u, at) = text
  <2>1. IsEnd(u, at, e)
    <3>1. \A j \in at .. e - 1 : u[j] # Newline
      BY <1>1, <1>4, <1>6
    <3> QED BY <1>2, <1>4, <3>1 DEF IsEnd
  <2>2. LineEnd(u, at) = e
    <3>1. at \in 1 .. Len(u) /\ u \in Written
      BY <1>2, <1>4
    <3> QED BY <1>12, <2>1, <3>1, LineEnds
  <2>3. at + k <= Len(u) /\ k <= Len(text) /\ e - 1 = at + k
    BY <1>1, <1>2, <1>4 DEF k
  <2>4. SubSeq(u, at + 1, at + k) = SubSeq(text, 1, k)
    <3>1. /\ u \in Seq(LineSymbol) /\ text \in Seq(LineSymbol) /\ k \in Int /\ at \in Nat
          /\ \A i \in 1 .. k : u[at + i] = text[i]
      BY <1>1, <1>2, <1>4 DEF Written
    <3> QED BY <2>3, <3>1, SameSlices
  <2>5. SubSeq(text, 1, k) = text
    BY SubSeqFull DEF Written, k
  <2> QED BY <2>2, <2>3, <2>4, <2>5 DEF ValueAt
<1>14. \A x \in Equals(u) : x = at \/ (x \in Equals(t) /\ KeyAt(u, x) = KeyAt(t, x))
  <2> SUFFICES ASSUME NEW x \in Equals(u), x # at
               PROVE  x \in Equals(t) /\ KeyAt(u, x) = KeyAt(t, x)
    OBVIOUS
  <2>1. x \in 1 .. Len(t)
    BY <1>1, <1>4, <1>8, <1>10 DEF Equals, n
  <2> QED BY <1>2, <2>1, LinesStay DEF u
<1>15. IsFirst(u, key, at)
  <2>1. ASSUME NEW other \in Equals(u), KeyAt(u, other) = key PROVE at <= other
    <3>1. other = at
      BY <1>14, <2>1, FirstLineCounts
    <3> QED BY <1>4, <3>1
  <2> QED BY <1>9, <1>11, <2>1 DEF IsFirst
<1>16. parse_metadata(u)[key] = text /\ key \in DOMAIN parse_metadata(u)
  BY <1>2, <1>9, <1>11, <1>13, <1>15, FirstLineCounts
<1>17. ASSUME NEW other \in DOMAIN parse_metadata(t)
       PROVE  other \in DOMAIN parse_metadata(u)
              /\ parse_metadata(u)[other] = parse_metadata(t)[other]
  BY <1>2, LaterLinesAdd DEF u
<1>18. ASSUME NEW other \in DOMAIN parse_metadata(u), other # key
       PROVE  other \in DOMAIN parse_metadata(t)
  <2>1. PICK x \in Equals(u) : KeyAt(u, x) = other
    BY <1>2, FirstLineCounts
  <2>2. x \in Equals(t) /\ KeyAt(t, x) = other
    BY <1>11, <1>14, <1>18, <2>1
  <2> QED BY <2>2, FirstLineCounts
<1> HIDE DEF Equals
<1>19. DOMAIN parse_metadata(u) = DOMAIN parse_metadata(t) \cup {key}
  BY <1>16, <1>17, <1>18
<1> QED BY <1>2, <1>12, <1>16, <1>17, <1>19 DEF LineAdds, u, line

-----------------------------------------------------------------------------
(* The lines of the metadata, one after the other *)

\* The keys of the metadata, each once.
LEMMA KeysInOrder ==
  ASSUME NEW S, IsFiniteSet(S)
  PROVE  LET keys == SetToSeq(S)
         IN  /\ keys \in Seq(S)
             /\ DOMAIN keys = 1 .. Len(keys)
             /\ \A i, j \in 1 .. Len(keys) : keys[i] = keys[j] => i = j
             /\ S = {keys[i] : i \in 1 .. Len(keys)}
<1> DEFINE n == Cardinality(S)
           P(f) == f \in [1 .. n -> S] /\ IsInjective(f)
<1>1. n \in Nat /\ \E f \in Bijection(1 .. n, S) : TRUE
  BY FS_CardinalityType DEF ExistsBijection
<1>2. \E f : P(f)
  BY <1>1 DEF Bijection, Injection
<1>3. SetToSeq(S) = CHOOSE f \in [1 .. n -> S] : IsInjective(f)
  BY DEF SetToSeq
<1> DEFINE k == SetToSeq(S)
<1>4. k \in [1 .. n -> S] /\ IsInjective(k)
  BY <1>2, <1>3
<1> HIDE DEF k
<1>5. k \in Surjection(1 .. n, S)
  <2>1. k \in Injection(1 .. n, S)
    BY <1>4 DEF Injection
  <2>2. IsFiniteSet(1 .. n) /\ Cardinality(1 .. n) = n
    BY <1>1, FS_Interval
  <2> DEFINE R == {k[i] : i \in 1 .. n}
  <2>3. R \subseteq S
    BY <1>4
  <2>4. IsFiniteSet(R) /\ Cardinality(R) = Cardinality(1 .. n)
    <3>1. k \in Injection(1 .. n, R)
      BY <1>4 DEF Injection, IsInjective
    <3>2. k \in Surjection(1 .. n, R)
      BY <1>4 DEF Surjection
    <3>3. k \in Bijection(1 .. n, R)
      BY <3>1, <3>2 DEF Bijection
    <3>4. ExistsBijection(1 .. n, R)
      BY <3>3 DEF ExistsBijection
    <3> HIDE DEF R
    <3> QED BY <2>2, <3>4, FS_Bijection
  <2>5. R = S
    <3> HIDE DEF R
    <3>1. Cardinality(S) = Cardinality(R) => S = R
      BY <2>3, FS_Subset
    <3> QED BY <2>2, <2>4, <3>1
  <2> QED BY <1>4, <2>5 DEF Surjection
<1>6. k \in Seq(S) /\ Len(k) = n /\ DOMAIN k = 1 .. n
  BY <1>1, <1>4, IsASeq
<1> HIDE DEF n
<1> QED BY <1>4, <1>5, <1>6 DEF IsInjective, Surjection, k

-----------------------------------------------------------------------------
(* The keys *)

LEMMA TextsAreWritten == Text \subseteq Written
BY SeqMonotonic, Zenon DEF Text, Written, LineSymbol

LEMMA WordIsKey ==
  ASSUME NEW w, Letters(w) \in LineSymbol
  PROVE  IsKey(<<Letters(w)>>) /\ <<Letters(w)>>[1] = Letters(w)
<1>1. Letters(w) # Newline /\ Letters(w) # Equal
  BY DEF Letters, Newline, Equal, Char
<1>2. Range(<<Letters(w)>>) = {Letters(w)}
  BY DEF Range
<1> QED BY <1>1, <1>2 DEF IsKey, Written, IsOneLine

LEMMA OwnKeys ==
  /\ IsKey(FormatKey) /\ IsKey(IdentifierKey) /\ IsKey(LanguageKey)
  /\ FormatKey[1] # MetaPrefix /\ IdentifierKey[1] # MetaPrefix /\ LanguageKey[1] # MetaPrefix
  /\ FormatKey # <<>> /\ IdentifierKey # <<>> /\ LanguageKey # <<>>
  /\ FormatKey # IdentifierKey /\ FormatKey # LanguageKey /\ IdentifierKey # LanguageKey
<1>1. \A w \in {"format", "schema.identifier", "schema.language"} : Letters(w) \in LineSymbol
  BY Zenon DEF LineSymbol
<1>2. /\ FormatKey[1] = Letters("format") /\ IdentifierKey[1] = Letters("schema.identifier")
      /\ LanguageKey[1] = Letters("schema.language")
  BY DEF FormatKey, IdentifierKey, LanguageKey
<1>3. FormatKey # <<>> /\ IdentifierKey # <<>> /\ LanguageKey # <<>>
  BY DEF FormatKey, IdentifierKey, LanguageKey
<1>4. /\ Letters("format") # Letters("schema.identifier")
      /\ Letters("format") # Letters("schema.language")
      /\ Letters("schema.identifier") # Letters("schema.language")
      /\ Letters("format") # MetaPrefix /\ Letters("schema.identifier") # MetaPrefix
      /\ Letters("schema.language") # MetaPrefix
  BY DEF Letters, MetaPrefix
<1>5. IsKey(FormatKey) /\ IsKey(IdentifierKey) /\ IsKey(LanguageKey)
  BY <1>1, WordIsKey, Zenon DEF FormatKey, IdentifierKey, LanguageKey
<1> QED BY <1>2, <1>3, <1>4, <1>5

MetaKey(key) == <<MetaPrefix>> \o key

LEMMA MetaKeys ==
  ASSUME NEW key \in Text
  PROVE  /\ MetaKey(key) \in Written /\ MetaKey(key) # <<>>
         /\ MetaKey(key)[1] = MetaPrefix /\ Tail(MetaKey(key)) = key
         /\ IsOneLine(key) /\ Equal \notin Range(key) => IsKey(MetaKey(key))
<1> DEFINE u == MetaKey(key)
           n == Len(key)
<1>1. <<MetaPrefix>> \in Written /\ Len(<<MetaPrefix>>) = 1 /\ <<MetaPrefix>>[1] = MetaPrefix
      /\ key \in Written /\ n \in Nat
  BY TextsAreWritten DEF Written, LineSymbol
<1>2. /\ u \in Written /\ Len(u) = 1 + n /\ u[1] = MetaPrefix
      /\ \A i \in 1 .. n : u[1 + i] = key[i]
  <2>1. /\ u \in Written /\ Len(u) = Len(<<MetaPrefix>>) + Len(key)
        /\ \A i \in 1 .. Len(<<MetaPrefix>>) : u[i] = <<MetaPrefix>>[i]
        /\ \A i \in 1 .. Len(key) : u[Len(<<MetaPrefix>>) + i] = key[i]
    BY <1>1, PartsOfConcat, Zenon DEF MetaKey
  <2> HIDE DEF u
  <2> QED BY <1>1, <2>1
<1> HIDE DEF u, n
<1>3. u # <<>>
  BY <1>1, <1>2
<1>4. Tail(u) = key
  <2>1. Tail(u) \in Seq(LineSymbol) /\ key \in Seq(LineSymbol) /\ Len(Tail(u)) = n /\ Len(key) = n
    BY <1>1, <1>2, <1>3 DEF Written, n
  <2>2. \A i \in 1 .. n : Tail(u)[i] = key[i]
    <3>1. \A i \in 1 .. n : Tail(u)[i] = u[i + 1]
      BY <1>1, <1>2, <1>3 DEF Written
    <3>2. \A i \in 1 .. n : 1 + i = i + 1
      BY <1>1
    <3> QED BY <1>2, <3>1, <3>2
  <2> QED BY <2>1, <2>2, SeqEqual
<1>5. IsOneLine(key) /\ Equal \notin Range(key) => IsKey(u)
  <2> SUFFICES ASSUME IsOneLine(key), Equal \notin Range(key) PROVE IsKey(u)
    OBVIOUS
  <2>1. MetaPrefix # Newline /\ MetaPrefix # Equal
    BY DEF MetaPrefix, Letters, Newline, Equal, Char
  <2>2. DOMAIN u = 1 .. 1 + n /\ DOMAIN key = 1 .. n
    BY <1>1, <1>2 DEF Written, n
  <2>3. \A i \in 1 .. n : key[i] # Newline /\ key[i] # Equal
    BY <2>2, Zenon DEF IsOneLine, Range
  <2>4. \A i \in 1 .. 1 + n : i = 1 \/ (i - 1 \in 1 .. n /\ 1 + (i - 1) = i)
    BY <1>1
  <2>5. \A i \in DOMAIN u : u[i] # Newline /\ u[i] # Equal
    BY <1>2, <2>1, <2>2, <2>3, <2>4
  <2> QED BY <1>2, <2>5, Zenon DEF IsKey, IsOneLine, Range
<1> QED BY <1>2, <1>3, <1>4, <1>5 DEF u

-----------------------------------------------------------------------------
(* The text of metadata, line by line *)

\* What a text of lines says.
Says(text, keys) == text \in Written /\ Ended(text) /\ DOMAIN parse_metadata(text) = keys

FormatLine(contents) == Line(FormatKey, <<Letters(contents.format)>>)

SchemaLines(contents) ==
  IF contents.schema = <<>> THEN <<>>
  ELSE Line(IdentifierKey, contents.schema[1].identifier)
         \o Line(LanguageKey, contents.schema[1].language)

HeadText(contents) == FormatLine(contents) \o SchemaLines(contents)

MetaLines(contents) ==
  LET keys == SetToSeq(DOMAIN contents.metadata)
  IN  FlattenSeq([i \in DOMAIN keys |-> Line(<<MetaPrefix>> \o keys[i], contents.metadata[keys[i]])])

LEMMA MetadataText ==
  \A contents : metadata_text(contents) = HeadText(contents) \o MetaLines(contents)
BY Zenon DEF metadata_text, HeadText, FormatLine, SchemaLines, MetaLines

\* The first line gives the format.
LEMMA FormatIsSaid ==
  ASSUME NEW contents, IsContents(contents)
  PROVE  /\ Says(FormatLine(contents), {FormatKey})
         /\ parse_metadata(FormatLine(contents))[FormatKey] = <<Letters(contents.format)>>
<1> DEFINE value == <<Letters(contents.format)>>
<1>1. Letters(contents.format) \in LineSymbol
  BY Zenon DEF IsContents, LineSymbol
<1>2. value \in Written /\ IsOneLine(value) /\ IsKey(FormatKey)
  BY <1>1, WordIsKey, OwnKeys, Zenon DEF IsKey
<1>3. <<>> \in Written /\ Ended(<<>>) /\ DOMAIN parse_metadata(<<>>) = {}
  <2>1. <<>> \in Written /\ Ended(<<>>) /\ Equals(<<>>) = {}
    BY DEF Written, Ended, Equals
  <2>2. \A key : key \notin DOMAIN parse_metadata(<<>>)
    BY <2>1, FirstLineCounts
  <2> QED BY <2>1, <2>2
<1>4. FormatLine(contents) = <<>> \o Line(FormatKey, value)
  <2>1. Line(FormatKey, value) \in Seq(LineSymbol)
    BY <1>2, LineIsAppended, Zenon DEF IsKey, Written
  <2> QED BY <2>1, ConcatEmptySeq DEF FormatLine
<1> HIDE DEF value
<1>5. LineAdds(<<>>, FormatKey, value, <<>> \o Line(FormatKey, value))
  BY <1>2, <1>3, OneMoreLine, Zenon
<1> QED BY <1>3, <1>4, <1>5 DEF LineAdds, Says, value

\* A schema of plain texts, which the lines of its keys give back.
Plain(contents) ==
  contents.schema # <<>> =>
    IsOneLine(contents.schema[1].identifier) /\ IsOneLine(contents.schema[1].language)

HeadKeys(contents) ==
  {FormatKey} \cup (IF contents.schema = <<>> THEN {} ELSE {IdentifierKey, LanguageKey})

LEMMA SchemaFields ==
  ASSUME NEW contents, IsContents(contents), contents.schema # <<>>
  PROVE  /\ contents.schema[1] \in SchemaSource /\ contents.schema = <<contents.schema[1]>>
         /\ contents.schema[1].identifier \in Written /\ contents.schema[1].language \in Written
<1>1. contents.schema \in Seq(SchemaSource) /\ Len(contents.schema) = 1
  <2> DEFINE s == contents.schema
  <2>1. s \in Seq(SchemaSource) /\ Len(s) <= 1 /\ s # <<>>
    BY Zenon DEF IsContents
  <2> HIDE DEF s
  <2> DEFINE n == Len(s)
  <2>2. n \in Nat \ {0} /\ n <= 1
    BY <2>1, EmptySeq
  <2> HIDE DEF n
  <2>3. n = 1
    BY <2>2
  <2> QED BY <2>1, <2>3 DEF s, n
<1>2. contents.schema[1] \in SchemaSource /\ contents.schema = <<contents.schema[1]>>
  BY <1>1
<1> QED BY <1>2, TextsAreWritten DEF SchemaSource

LEMMA HeadIsSaid ==
  ASSUME NEW contents, IsContents(contents), Plain(contents)
  PROVE  /\ Says(HeadText(contents), HeadKeys(contents))
         /\ parse_metadata(HeadText(contents))[FormatKey] = <<Letters(contents.format)>>
         /\ contents.schema # <<>> =>
              /\ parse_metadata(HeadText(contents))[IdentifierKey] = contents.schema[1].identifier
              /\ parse_metadata(HeadText(contents))[LanguageKey] = contents.schema[1].language
<1> DEFINE t == FormatLine(contents)
           format == <<Letters(contents.format)>>
<1>1. Says(t, {FormatKey}) /\ parse_metadata(t)[FormatKey] = format /\ t \in Seq(LineSymbol)
  BY FormatIsSaid DEF Says, Written
<1> HIDE DEF t, format
<1>2. CASE contents.schema = <<>>
  <2>1. HeadText(contents) = t
    BY <1>1, <1>2, ConcatEmptySeq DEF HeadText, SchemaLines, t
  <2>2. HeadKeys(contents) = {FormatKey}
    BY <1>2 DEF HeadKeys
  <2> QED BY <1>1, <1>2, <2>1, <2>2 DEF format
<1>3. CASE contents.schema # <<>>
  <2> DEFINE id   == contents.schema[1].identifier
             lang == contents.schema[1].language
             a    == Line(IdentifierKey, id)
             b    == Line(LanguageKey, lang)
             u    == t \o a
             w    == u \o b
  <2>1. id \in Written /\ lang \in Written /\ IsOneLine(id) /\ IsOneLine(lang)
    BY <1>3, SchemaFields DEF Plain
  <2>2. a \in Seq(LineSymbol) /\ b \in Seq(LineSymbol)
    BY <2>1, OwnKeys, LineIsAppended, Zenon DEF IsKey, Written
  <2>3. HeadText(contents) = t \o (a \o b)
    BY <1>3 DEF HeadText, SchemaLines, t
  <2> HIDE DEF id, lang
  <2>4. t \o (a \o b) = w
    <3> HIDE DEF a, b
    <3> QED BY <1>1, <2>2, ConcatAssociative
  <2>5. LineAdds(t, IdentifierKey, id, u)
    <3>1. IsKey(IdentifierKey) /\ IdentifierKey \notin DOMAIN parse_metadata(t)
      BY <1>1, OwnKeys DEF Says
    <3> QED BY <1>1, <2>1, <3>1, OneMoreLine, Zenon DEF Says
  <2> HIDE DEF u
  <2>6. LineAdds(u, LanguageKey, lang, w)
    <3>1. /\ u \in Written /\ Ended(u) /\ IsKey(LanguageKey)
          /\ LanguageKey \notin DOMAIN parse_metadata(u)
      BY <1>1, <2>5, OwnKeys DEF Says, LineAdds
    <3> QED BY <2>1, <3>1, OneMoreLine, Zenon
  <2>7. ({FormatKey} \cup {IdentifierKey}) \cup {LanguageKey} = HeadKeys(contents)
    BY <1>3, Zenon DEF HeadKeys
  <2> HIDE DEF w, a, b
  <2>8. HeadText(contents) = w
    BY <2>3, <2>4
  <2>9. /\ Says(w, ({FormatKey} \cup {IdentifierKey}) \cup {LanguageKey})
        /\ parse_metadata(w)[FormatKey] = format
        /\ parse_metadata(w)[IdentifierKey] = id /\ parse_metadata(w)[LanguageKey] = lang
    BY <1>1, <2>5, <2>6 DEF Says, LineAdds
  <2> QED BY <2>7, <2>8, <2>9 DEF id, lang, format
<1> QED BY <1>2, <1>3

\* The line of a key of the metadata.
MetaLine(contents, key) == Line(MetaKey(key), contents.metadata[key])

LEMMA MetaLineIsWritten ==
  ASSUME NEW contents, IsContents(contents), NEW key \in DOMAIN contents.metadata
  PROVE  /\ key \in Text /\ MetaKey(key) \in Written /\ contents.metadata[key] \in Written
         /\ MetaLine(contents, key) \in Written
<1>1. contents.metadata[key] \in Text /\ key \in Text
  <2>1. contents.metadata \in [DOMAIN contents.metadata -> Text]
        /\ DOMAIN contents.metadata \subseteq Text
    BY Zenon DEF IsContents
  <2> QED BY <2>1
<1>2. contents.metadata[key] \in Written /\ MetaKey(key) \in Written
  BY <1>1, TextsAreWritten, MetaKeys, Zenon
<1>3. Line(MetaKey(key), contents.metadata[key]) \in Written
  BY <1>2, LineIsAppended, Zenon
<1> QED BY <1>1, <1>2, <1>3 DEF MetaLine

\* The lines of the metadata, one after the other, each key once.
InLines(contents, keys, f) ==
  /\ keys \in Seq(DOMAIN contents.metadata)
  /\ \A i, j \in 1 .. Len(keys) : keys[i] = keys[j] => i = j
  /\ DOMAIN contents.metadata = {keys[i] : i \in 1 .. Len(keys)}
  /\ f \in [0 .. Len(keys) -> Written] /\ f[0] = <<>>
  /\ \A i \in 1 .. Len(keys) : f[i] = f[i - 1] \o MetaLine(contents, keys[i])
  /\ MetaLines(contents) = f[Len(keys)]

LEMMA MetaLinesSteps ==
  ASSUME NEW contents, IsContents(contents)
  PROVE  \E keys, f : InLines(contents, keys, f)
<1> DEFINE S    == DOMAIN contents.metadata
           keys == SetToSeq(S)
           n    == Len(keys)
           seqs == [i \in DOMAIN keys |-> MetaLine(contents, keys[i])]
<1>1. /\ keys \in Seq(S) /\ DOMAIN keys = 1 .. n
      /\ \A i, j \in 1 .. n : keys[i] = keys[j] => i = j
      /\ S = {keys[i] : i \in 1 .. n}
  <2>1. IsFiniteSet(S)
    BY Zenon DEF IsContents
  <2> HIDE DEF S
  <2> QED BY <2>1, KeysInOrder
<1>2. MetaLines(contents) = FlattenSeq(seqs)
  BY Zenon DEF MetaLines, MetaLine, MetaKey
<1>3. n \in Nat /\ \A i \in 1 .. n : keys[i] \in S
  BY <1>1
<1> HIDE DEF keys, n
<1>4. seqs \in Seq(Written) /\ Len(seqs) = n /\ \A i \in 1 .. n : seqs[i] = MetaLine(contents, keys[i])
  <2>1. \A i \in 1 .. n : MetaLine(contents, keys[i]) \in Written
    BY <1>3, MetaLineIsWritten
  <2>2. seqs = [i \in 1 .. n |-> MetaLine(contents, keys[i])]
    BY <1>1
  <2> HIDE DEF seqs
  <2>3. seqs \in [1 .. n -> Written]
    BY <2>1, <2>2
  <2> QED BY <1>3, <2>2, <2>3
<1> HIDE DEF seqs
<1>5. PICK f : FlatPrefixes(f, seqs, LineSymbol) /\ FlattenSeq(seqs) = f[Len(seqs)]
  <2>1. seqs \in Seq(Seq(LineSymbol))
    BY <1>4 DEF Written
  <2> QED BY <2>1, FlattenSteps, Zenon
<1>6. /\ f \in [0 .. n -> Written] /\ f[0] = <<>>
      /\ \A i \in 1 .. n : f[i] = f[i - 1] \o seqs[i]
  BY <1>4, <1>5 DEF FlatPrefixes, Written
<1>7. \A i \in 1 .. n : f[i] = f[i - 1] \o MetaLine(contents, keys[i])
  BY <1>4, <1>6
<1>8. MetaLines(contents) = f[n]
  BY <1>2, <1>4, <1>5
<1>9. InLines(contents, keys, f)
  BY <1>1, <1>6, <1>7, <1>8 DEF InLines, n
<1> QED BY <1>9

\* Metadata whose keys and texts make one line each.
Clean(contents) ==
  \A key \in DOMAIN contents.metadata :
    IsOneLine(key) /\ Equal \notin Range(key) /\ IsOneLine(contents.metadata[key])

\* u says what t says, and the metadata of some keys besides.
SaysMetadata(t, contents, keys, u) ==
  /\ u \in Written /\ Ended(u)
  /\ DOMAIN parse_metadata(u) = DOMAIN parse_metadata(t) \cup {MetaKey(key) : key \in keys}
  /\ \A other \in DOMAIN parse_metadata(t) : parse_metadata(u)[other] = parse_metadata(t)[other]
  /\ \A key \in keys : parse_metadata(u)[MetaKey(key)] = contents.metadata[key]

LEMMA MetaLineSays ==
  ASSUME NEW contents, IsContents(contents), Clean(contents),
         NEW t \in Written, \A key \in Text : MetaKey(key) \notin DOMAIN parse_metadata(t),
         NEW keys \in SUBSET DOMAIN contents.metadata, NEW u, SaysMetadata(t, contents, keys, u),
         NEW key \in DOMAIN contents.metadata, key \notin keys
  PROVE  SaysMetadata(t, contents, keys \cup {key}, u \o MetaLine(contents, key))
<1> DEFINE text == contents.metadata[key]
           w    == u \o MetaLine(contents, key)
           name == MetaKey(key)
<1>1. /\ IsOneLine(key) /\ Equal \notin Range(key) /\ IsOneLine(text)
      /\ key \in Text /\ text \in Written
  BY MetaLineIsWritten DEF Clean
<1>2. IsKey(name) /\ Tail(name) = key /\ \A other \in keys : Tail(MetaKey(other)) = other
  BY <1>1, MetaKeys, MetaLineIsWritten
<1>3. name \notin DOMAIN parse_metadata(u)
  BY <1>1, <1>2 DEF SaysMetadata
<1>4. LineAdds(u, name, text, w)
  <2>1. u \in Written /\ Ended(u)
    BY DEF SaysMetadata
  <2>2. w = u \o Line(name, text)
    BY DEF MetaLine
  <2> HIDE DEF w
  <2> QED BY <1>1, <1>2, <1>3, <2>1, <2>2, OneMoreLine, Zenon
<1> HIDE DEF w, text
<1>5. \A other \in keys : MetaKey(other) # name
  BY <1>2
<1>6. SaysMetadata(t, contents, keys \cup {key}, w)
  <2>1. DOMAIN parse_metadata(w) = DOMAIN parse_metadata(t) \cup {MetaKey(k) : k \in keys \cup {key}}
    BY <1>4 DEF LineAdds, SaysMetadata
  <2>2. \A other \in DOMAIN parse_metadata(t) : parse_metadata(w)[other] = parse_metadata(t)[other]
    BY <1>4 DEF LineAdds, SaysMetadata
  <2>3. \A k \in keys \cup {key} : parse_metadata(w)[MetaKey(k)] = contents.metadata[k]
    <3>1. \A k \in keys : MetaKey(k) \in DOMAIN parse_metadata(u)
      BY DEF SaysMetadata
    <3> QED BY <1>4, <3>1 DEF LineAdds, SaysMetadata, text
  <2> QED BY <1>4, <2>1, <2>2, <2>3 DEF LineAdds, SaysMetadata
<1> QED BY <1>6 DEF w

\* All the metadata, after a text that has none of their keys.
LEMMA MetadataIsSaid ==
  ASSUME NEW contents, IsContents(contents), Clean(contents), NEW t \in Written, Ended(t),
         \A key \in Text : MetaKey(key) \notin DOMAIN parse_metadata(t)
  PROVE  SaysMetadata(t, contents, DOMAIN contents.metadata, t \o MetaLines(contents))
<1>1. PICK keys, f : InLines(contents, keys, f)
  BY MetaLinesSteps, Zenon
<1> DEFINE n == Len(keys)
           S == DOMAIN contents.metadata
           First(i) == {keys[j] : j \in 1 .. i}
           T == {i \in 0 .. n : SaysMetadata(t, contents, First(i), t \o f[i])}
<1>2. /\ n \in Nat /\ \A i \in 1 .. n : keys[i] \in S
      /\ \A i, j \in 1 .. n : keys[i] = keys[j] => i = j
      /\ S = First(n)
      /\ f \in [0 .. n -> Written] /\ f[0] = <<>>
      /\ \A i \in 1 .. n : f[i] = f[i - 1] \o MetaLine(contents, keys[i])
      /\ MetaLines(contents) = f[n]
  <2>1. n \in Nat /\ \A i \in 1 .. n : keys[i] \in S
    <3>1. keys \in Seq(S)
      BY <1>1, Zenon DEF InLines
    <3> QED BY <3>1
  <2> QED BY <1>1, <2>1, Zenon DEF InLines
<1>3. 0 \in T
  <2>1. t \o f[0] = t
    <3>1. t \in Seq(LineSymbol)
      BY DEF Written
    <3> QED BY <1>2, <3>1, ConcatEmptySeq
  <2>2. First(0) = {}
    OBVIOUS
  <2>3. SaysMetadata(t, contents, {}, t)
    BY DEF SaysMetadata
  <2>4. SaysMetadata(t, contents, First(0), t \o f[0])
    BY <2>1, <2>2, <2>3
  <2>5. 0 \in 0 .. n
    BY <1>2
  <2> HIDE DEF First, n
  <2> QED BY <2>4, <2>5
<1>4. ASSUME NEW i \in 1 .. n, i - 1 \in T PROVE i \in T
  <2>1. i - 1 \in 0 .. n /\ i \in 0 .. n /\ keys[i] \in S
    BY <1>2
  <2>2. SaysMetadata(t, contents, First(i - 1), t \o f[i - 1])
    BY <1>4
  <2>3. First(i - 1) \subseteq S /\ keys[i] \notin First(i - 1)
    <3>1. \A j \in 1 .. i - 1 : j \in 1 .. n /\ j # i
      BY <1>2
    <3> QED BY <1>2, <3>1
  <2>4. First(i) = First(i - 1) \cup {keys[i]}
    <3>1. \A j : j \in 1 .. i <=> j = i \/ j \in 1 .. i - 1
      BY <1>2
    <3> QED BY <3>1
  <2>5. t \o f[i] = (t \o f[i - 1]) \o MetaLine(contents, keys[i])
    <3> DEFINE line == MetaLine(contents, keys[i])
               g    == f[i - 1]
    <3>1. t \in Written /\ g \in Written /\ line \in Written
      BY <1>2, <2>1, MetaLineIsWritten
    <3>2. f[i] = g \o line
      BY <1>2
    <3> HIDE DEF line, g
    <3>3. (t \o g) \o line = t \o (g \o line)
      BY <3>1, TextsAssociate, Zenon
    <3> QED BY <3>2, <3>3, Zenon DEF line, g
  <2> HIDE DEF First
  <2>6. SaysMetadata(t, contents, First(i - 1) \cup {keys[i]},
                     (t \o f[i - 1]) \o MetaLine(contents, keys[i]))
    BY <2>1, <2>2, <2>3, MetaLineSays
  <2> QED BY <2>1, <2>4, <2>5, <2>6
<1> HIDE DEF T
<1>5. 0 .. n \subseteq T
  BY <1>2, <1>3, <1>4, BoundedInduction
<1>6. n \in T
  BY <1>2, <1>5
<1>7. SaysMetadata(t, contents, First(n), t \o f[n])
  BY <1>6 DEF T
<1> HIDE DEF First, n
<1> QED BY <1>2, <1>7

\* The lines of the metadata are lines, whatever their keys and texts.
LEMMA MetaLinesAreWritten ==
  ASSUME NEW contents, IsContents(contents)
  PROVE  MetaLines(contents) \in Written /\ SchemaLines(contents) \in Written
<1>1. MetaLines(contents) \in Written
  <2>1. PICK keys, f : InLines(contents, keys, f)
    BY MetaLinesSteps, Zenon
  <2>2. Len(keys) \in 0 .. Len(keys)
    BY <2>1 DEF InLines
  <2> QED BY <2>1, <2>2 DEF InLines
<1>2. SchemaLines(contents) \in Written
  <2>1. CASE contents.schema = <<>>
    BY <2>1 DEF SchemaLines, Written
  <2>2. CASE contents.schema # <<>>
    <3> DEFINE a == Line(IdentifierKey, contents.schema[1].identifier)
               b == Line(LanguageKey, contents.schema[1].language)
    <3>1. a \in Written /\ b \in Written
      BY <2>2, SchemaFields, OwnKeys, LineIsAppended, Zenon DEF IsKey
    <3>2. SchemaLines(contents) = a \o b
      BY <2>2 DEF SchemaLines
    <3> HIDE DEF a, b
    <3> QED BY <3>1, <3>2, PartsOfConcat
  <2> QED BY <2>1, <2>2
<1> QED BY <1>1, <1>2

-----------------------------------------------------------------------------
(* What is unpacked *)

\* The schema and the metadata of an archive, of what its text says.
FieldOf(fields, key) == IF key \in DOMAIN fields THEN fields[key] ELSE <<>>

SchemaOf(fields, source) ==
  LET schema == [identifier |-> FieldOf(fields, IdentifierKey),
                 language |-> FieldOf(fields, LanguageKey), content |-> source]
  IN  IF schema.identifier = <<>> /\ schema.content = <<>> THEN <<>> ELSE <<schema>>

MetaOf(fields) == {key \in DOMAIN fields : key # <<>> /\ key[1] = MetaPrefix}

MetadataOf(fields) == [key \in {Tail(k) : k \in MetaOf(fields)} |-> fields[MetaKey(key)]]

LEMMA ExtractReads ==
  ASSUME NEW archive, NEW id \in Registered, NEW fields, fields = parse_metadata(archive.metadata),
         FormatKey \in DOMAIN fields, fields[FormatKey] = <<Letters(id)>>,
         Deserialize(id, archive.payload).ok
  PROVE  extract(archive) = [ok |-> TRUE, format |-> id,
                             root |-> Deserialize(id, archive.payload).value,
                             schema |-> SchemaOf(fields, archive.source),
                             metadata |-> MetadataOf(fields)]
<1>1. fields[FormatKey][1][2] = id /\ fields[FormatKey] \in {<<Letters(i)>> : i \in Registered}
  BY DEF Letters
<1> DEFINE Refuses == \/ FormatKey \notin DOMAIN fields
                      \/ fields[FormatKey] \notin {<<Letters(i)>> : i \in Registered}
                      \/ ~Deserialize(fields[FormatKey][1][2], archive.payload).ok
           root == Deserialize(fields[FormatKey][1][2], archive.payload)
<1>2. extract(archive) =
        IF Refuses THEN Refused
        ELSE [ok |-> TRUE, format |-> fields[FormatKey][1][2], root |-> root.value,
              schema |-> SchemaOf(fields, archive.source), metadata |-> MetadataOf(fields)]
  BY Zenon DEF extract, SchemaOf, FieldOf, MetadataOf, MetaOf, MetaKey
<1>3. ~Refuses
  BY <1>1, Zenon
<1> HIDE DEF Refuses
<1> QED BY <1>1, <1>2, <1>3, Zenon

LEMMA CreateWrites ==
  ASSUME NEW format, NEW contents, create(format, contents).ok
  PROVE  /\ Serialize(format, contents.root).ok
         /\ create(format, contents).payload = Serialize(format, contents.root).text
         /\ create(format, contents).metadata = metadata_text(contents)
         /\ create(format, contents).source =
              IF contents.schema = <<>> THEN <<>> ELSE contents.schema[1].content
<1> DEFINE written == Serialize(format, contents.root)
           source == IF contents.schema = <<>> THEN <<>> ELSE contents.schema[1].content
<1>1. create(format, contents) =
        IF ~written.ok THEN Refused
        ELSE [ok |-> TRUE, payload |-> written.text, metadata |-> metadata_text(contents),
              source |-> source]
  BY Zenon DEF create
<1>2. written.ok
  <2>1. ~written.ok => create(format, contents) = Refused
    BY <1>1, Zenon
  <2>2. ~Refused.ok
    BY DEF Refused
  <2> QED BY <2>1, <2>2, Zenon
<1> DEFINE text == metadata_text(contents)
<1> HIDE DEF source, text
<1>3. create(format, contents) =
        [ok |-> TRUE, payload |-> written.text, metadata |-> text, source |-> source]
  BY <1>1, <1>2, Zenon DEF text
<1> HIDE DEF written
<1>4. /\ create(format, contents).payload = written.text
      /\ create(format, contents).metadata = text
      /\ create(format, contents).source = source
  BY <1>3
<1> QED BY <1>2, <1>4, Zenon DEF written, source, text

\* What the text of metadata says of the format, of the schema and of the
\* metadata.
LEMMA TextSaysFormat ==
  ASSUME NEW contents, IsContents(contents), NEW fields, fields = parse_metadata(metadata_text(contents))
  PROVE  FormatKey \in DOMAIN fields /\ fields[FormatKey] = <<Letters(contents.format)>>
<1> DEFINE t == FormatLine(contents)
           s == SchemaLines(contents)
           m == MetaLines(contents)
<1>1. t \in Seq(LineSymbol) /\ s \in Seq(LineSymbol) /\ m \in Seq(LineSymbol)
  BY FormatIsSaid, MetaLinesAreWritten DEF Says, Written
<1>2. metadata_text(contents) = (t \o s) \o m
  BY MetadataText DEF HeadText
<1>3. t \in Written /\ Ended(t) /\ FormatKey \in DOMAIN parse_metadata(t)
      /\ parse_metadata(t)[FormatKey] = <<Letters(contents.format)>>
  BY FormatIsSaid DEF Says
<1> HIDE DEF t, s, m
<1>4. (t \o s) \o m = t \o (s \o m) /\ s \o m \in Written
  BY <1>1, ConcatAssociative, PartsOfConcat DEF Written
<1>5. fields = parse_metadata(t \o (s \o m))
  BY <1>2, <1>4, Zenon
<1> QED BY <1>3, <1>4, <1>5, LaterLinesAdd

LEMMA TextSaysHead ==
  ASSUME NEW contents, IsContents(contents), Plain(contents)
  PROVE  /\ HeadText(contents) \in Written /\ Ended(HeadText(contents))
         /\ DOMAIN parse_metadata(HeadText(contents)) = HeadKeys(contents)
         /\ \A key \in Text : MetaKey(key) \notin DOMAIN parse_metadata(HeadText(contents))
<1>1. Says(HeadText(contents), HeadKeys(contents))
  BY HeadIsSaid
<1>2. \A key \in HeadKeys(contents) : key[1] # MetaPrefix
  BY OwnKeys DEF HeadKeys
<1>3. \A key \in Text : MetaKey(key)[1] = MetaPrefix
  BY MetaKeys
<1> QED BY <1>1, <1>2, <1>3, Zenon DEF Says

LEMMA TextSaysSchema ==
  ASSUME NEW contents, IsContents(contents), Plain(contents), contents.schema # <<>>,
         NEW fields, fields = parse_metadata(metadata_text(contents)),
         contents.schema[1].identifier # <<>> \/ contents.schema[1].content # <<>>
  PROVE  SchemaOf(fields, contents.schema[1].content) = contents.schema
<1> DEFINE t == HeadText(contents)
           m == MetaLines(contents)
           schema == contents.schema[1]
<1>1. t \in Written /\ Ended(t) /\ m \in Written /\ fields = parse_metadata(t \o m)
  BY TextSaysHead, MetaLinesAreWritten, MetadataText, Zenon
<1>2. IdentifierKey \in DOMAIN parse_metadata(t) /\ LanguageKey \in DOMAIN parse_metadata(t)
  <2>1. IdentifierKey \in HeadKeys(contents) /\ LanguageKey \in HeadKeys(contents)
    BY DEF HeadKeys
  <2> QED BY <2>1, TextSaysHead, Zenon
<1>3. parse_metadata(t)[IdentifierKey] = schema.identifier
      /\ parse_metadata(t)[LanguageKey] = schema.language
  BY HeadIsSaid, Zenon
<1>4. schema \in SchemaSource /\ contents.schema = <<schema>>
  BY SchemaFields
<1> HIDE DEF t, m, schema
<1>5. FieldOf(fields, IdentifierKey) = schema.identifier
      /\ FieldOf(fields, LanguageKey) = schema.language
  BY <1>1, <1>2, <1>3, LaterLinesAdd DEF FieldOf
<1>6. [identifier |-> schema.identifier, language |-> schema.language,
       content |-> schema.content] = schema
  BY <1>4 DEF SchemaSource
<1>7. schema.identifier # <<>> \/ schema.content # <<>>
  BY Zenon DEF schema
<1>8. SchemaOf(fields, schema.content) = <<schema>>
  BY <1>5, <1>6, <1>7, Zenon DEF SchemaOf
<1> QED BY <1>4, <1>8, Zenon DEF schema

LEMMA TextSaysMetadata ==
  ASSUME NEW contents, IsContents(contents), Plain(contents), Clean(contents),
         NEW fields, fields = parse_metadata(metadata_text(contents))
  PROVE  /\ MetadataOf(fields) = contents.metadata
         /\ contents.schema = <<>> => SchemaOf(fields, <<>>) = <<>>
<1> DEFINE t == HeadText(contents)
           S == DOMAIN contents.metadata
<1>1. /\ t \in Written /\ Ended(t) /\ DOMAIN parse_metadata(t) = HeadKeys(contents)
      /\ \A key \in Text : MetaKey(key) \notin DOMAIN parse_metadata(t)
  BY TextSaysHead, Zenon
<1>2. SaysMetadata(t, contents, S, t \o MetaLines(contents))
  BY <1>1, MetadataIsSaid, Zenon
<1>3. /\ DOMAIN fields = HeadKeys(contents) \cup {MetaKey(key) : key \in S}
      /\ \A key \in S : fields[MetaKey(key)] = contents.metadata[key]
  <2>1. fields = parse_metadata(t \o MetaLines(contents))
    BY MetadataText, Zenon
  <2> QED BY <1>1, <1>2, <2>1, Zenon DEF SaysMetadata
<1>4. S \subseteq Text /\ contents.metadata \in [S -> Text]
  BY Zenon DEF IsContents
<1>5. \A key \in S : /\ MetaKey(key) # <<>> /\ MetaKey(key)[1] = MetaPrefix
                     /\ Tail(MetaKey(key)) = key
  BY <1>4, MetaKeys
<1>6. \A key \in HeadKeys(contents) : key[1] # MetaPrefix
  BY OwnKeys DEF HeadKeys
<1>7. MetaOf(fields) = {MetaKey(key) : key \in S}
  <2> DEFINE K == {MetaKey(key) : key \in S}
  <2>1. \A k \in K : k # <<>> /\ k[1] = MetaPrefix
    BY <1>5, Zenon
  <2>2. DOMAIN fields = HeadKeys(contents) \cup K
    BY <1>3, Zenon
  <2> HIDE DEF K
  <2>3. MetaOf(fields) = K
    BY <1>6, <2>1, <2>2, Zenon DEF MetaOf
  <2> QED BY <2>3, Zenon DEF K
<1>8. {Tail(k) : k \in MetaOf(fields)} = S
  <2> HIDE DEF S
  <2> QED BY <1>5, <1>7
<1>9. MetadataOf(fields) = contents.metadata
  <2>1. MetadataOf(fields) = [key \in S |-> fields[MetaKey(key)]]
    BY <1>8, Zenon DEF MetadataOf
  <2> HIDE DEF S
  <2> QED BY <1>3, <1>4, <2>1
<1>10. ASSUME contents.schema = <<>> PROVE SchemaOf(fields, <<>>) = <<>>
  <2>1. IdentifierKey \notin DOMAIN fields
    <3>1. IdentifierKey \notin HeadKeys(contents)
      BY <1>10, OwnKeys DEF HeadKeys
    <3>2. \A key \in S : MetaKey(key) # IdentifierKey
      BY <1>5, OwnKeys
    <3> HIDE DEF S
    <3> QED BY <1>3, <3>1, <3>2
  <2>2. FieldOf(fields, IdentifierKey) = <<>>
    BY <2>1, Zenon DEF FieldOf
  <2> QED BY <2>2 DEF SchemaOf
<1> QED BY <1>9, <1>10

\* The contents that are kept, of an archive that was written and a document
\* that is read back.
Kept(contents, archive, root, out) ==
  archive.ok /\ root.ok =>
    /\ out.ok /\ out.format = contents.format /\ out.root = root.value
    /\ /\ contents.schema # <<>> /\ Plain(contents)
       /\ contents.schema[1].identifier # <<>> \/ contents.schema[1].content # <<>>
       => out.schema = contents.schema
    /\ Plain(contents) /\ Clean(contents) =>
         /\ out.metadata = contents.metadata
         /\ contents.schema = <<>> => out.schema = <<>>

LEMMA PackedIsKept ==
  ASSUME NEW contents, IsContents(contents)
  PROVE  Kept(contents, create(contents.format, contents),
              ReadBackRoot(contents.format, contents.root),
              extract(create(contents.format, contents)))
<1> DEFINE archive == create(contents.format, contents)
           root    == ReadBackRoot(contents.format, contents.root)
           out     == extract(archive)
<1> SUFFICES ASSUME archive.ok, root.ok
             PROVE  Kept(contents, archive, root, out)
  BY Zenon DEF Kept
<1> DEFINE format == contents.format
           fields == parse_metadata(metadata_text(contents))
           source == IF contents.schema = <<>> THEN <<>> ELSE contents.schema[1].content
<1>1. /\ Serialize(format, contents.root).ok
      /\ archive.payload = Serialize(format, contents.root).text
      /\ archive.metadata = metadata_text(contents) /\ archive.source = source
  BY CreateWrites, Zenon
<1>2. root = Deserialize(format, archive.payload)
  BY <1>1, Zenon DEF ReadBackRoot
<1>3. format \in Registered
  BY Zenon DEF IsContents
<1>4. FormatKey \in DOMAIN fields /\ fields[FormatKey] = <<Letters(format)>>
  BY TextSaysFormat, Zenon
<1>5. fields = parse_metadata(archive.metadata)
  BY <1>1, Zenon
<1> HIDE DEF format, fields, source
<1>6. out = [ok |-> TRUE, format |-> format, root |-> root.value,
             schema |-> SchemaOf(fields, archive.source), metadata |-> MetadataOf(fields)]
  BY <1>2, <1>3, <1>4, <1>5, ExtractReads, Zenon
<1> DEFINE value == root.value
           schema == SchemaOf(fields, archive.source)
           metadata == MetadataOf(fields)
<1>7. out.ok /\ out.format = format /\ out.root = value /\ out.schema = schema
      /\ out.metadata = metadata
  <2> HIDE DEF value, schema, metadata
  <2>1. out = [ok |-> TRUE, format |-> format, root |-> value, schema |-> schema, metadata |-> metadata]
    BY <1>6, Zenon DEF value, schema, metadata
  <2> QED BY <2>1
<1>8. ASSUME contents.schema # <<>>, Plain(contents),
             contents.schema[1].identifier # <<>> \/ contents.schema[1].content # <<>>
      PROVE  schema = contents.schema
  BY <1>1, <1>8, TextSaysSchema, Zenon DEF source, fields
<1>9. ASSUME Plain(contents), Clean(contents)
      PROVE  metadata = contents.metadata /\ (contents.schema = <<>> => schema = <<>>)
  BY <1>1, <1>9, TextSaysMetadata, Zenon DEF source, fields
<1> HIDE DEF schema, metadata
<1> HIDE DEF archive, root, out
<1> QED BY <1>7, <1>8, <1>9, Zenon DEF format, Kept

\* What is packed is unpacked, for contents of any size, whatever the formats
\* make of documents: metadata come back, and no text of several lines changes
\* the format, the document or a schema of plain texts.
THEOREM PackagesKeepTheirContents == Spec => []PackageKeepsContents
<1> DEFINE contents == input.contents
           archive  == create(contents.format, contents)
           out      == extract(archive)
           root     == ReadBackRoot(contents.format, contents.root)
<1>1. ASSUME InputOK, input.about = "package" PROVE Kept(contents, archive, root, out)
  <2>1. IsContents(contents)
    BY <1>1, InputsAssumption, Zenon DEF InputOK
  <2> QED BY <2>1, PackedIsKept, Zenon
<1>2. InputOK => PackageKeepsContents
  <2> HIDE DEF contents, archive, out, root
  <2> QED BY <1>1, Zenon DEF PackageKeepsContents, Kept, Plain, Clean, contents, archive, out, root
<1> QED BY <1>2, InputsAreWellFormed, PTL

-----------------------------------------------------------------------------
(* The heads of CBOR *)

\* Powers of the base.
LEMMA PowerSteps ==
  /\ Power[0] = 1
  /\ \A k \in 1 .. 8 : Power[k] = Base * Power[k - 1]
  /\ \A k \in 0 .. 8 : Power[k] \in Nat \ {0}
<1> DEFINE S == Nat \ {0}
           n == 8
           g == [i \in 1 .. n |-> [p \in S |-> Base * p]]
           Body(f, i) == IF i = 0 THEN 1 ELSE Base * f[i - 1]
           Eq(f) == f = [i \in 0 .. n |-> Body(f, i)]
<1>1. \A p \in S : Base * p \in S
  BY BytesAssumption
<1>2. PICK f \in [0 .. n -> S] : Solves(f, 1, g, n)
  <2>1. g \in [1 .. n -> [S -> S]] /\ 1 \in S /\ n \in Nat
    BY <1>1
  <2> HIDE DEF g, S, n
  <2> QED BY <2>1, LoopExists
<1> HIDE DEF n
<1>3. n = 8 /\ n \in Nat
  BY DEF n
<1>4. Eq(f)
  <2>1. \A i \in 0 .. n : i # 0 => i \in 1 .. n /\ i - 1 \in 0 .. n
    BY <1>3
  <2>2. \A i \in 0 .. n : (IF i = 0 THEN 1 ELSE g[i][f[i - 1]]) = Body(f, i)
    BY <1>2, <2>1
  <2> DEFINE A(i) == IF i = 0 THEN 1 ELSE g[i][f[i - 1]]
  <2>3. f = [i \in 0 .. n |-> A(i)]
    BY <1>2, Zenon DEF Solves
  <2>4. \A i \in 0 .. n : A(i) = Body(f, i)
    BY <2>2
  <2> HIDE DEF A, Body
  <2> QED BY <2>3, <2>4
<1>5. Power = CHOOSE h : Eq(h)
  BY Zenon DEF Power, n
<1> HIDE DEF Eq
<1>6. Eq(Power)
  BY <1>4, <1>5
<1>7. \A i \in 0 .. n : Power[i] = Body(Power, i)
  <2> HIDE DEF Body
  <2> QED BY <1>6 DEF Eq
<1>8. Power[0] = 1 /\ \A k \in 1 .. n : Power[k] = Base * Power[k - 1]
  <2>1. 0 \in 0 .. n /\ \A k \in 1 .. n : k \in 0 .. n /\ k # 0
    BY <1>3
  <2> QED BY <1>7, <2>1
<1> DEFINE T == {k \in 0 .. n : Power[k] \in S}
<1>9. 0 \in T
  BY <1>3, <1>8
<1>10. \A k \in 1 .. n : k - 1 \in T => k \in T
  <2>1. \A k \in 1 .. n : k \in 0 .. n
    BY <1>3
  <2> HIDE DEF S
  <2> QED BY <1>1, <1>8, <2>1
<1> HIDE DEF T
<1>11. 0 .. n \subseteq T
  BY <1>3, <1>9, <1>10, BoundedInduction
<1> QED BY <1>3, <1>8, <1>11 DEF T

\* Dividing by two factors, one after the other.
LEMMA DividedTwice ==
  ASSUME NEW n \in Nat, NEW a \in Nat \ {0}, NEW b \in Nat \ {0}
  PROVE  n \div (b * a) = (n \div a) \div b
<1> DEFINE q == n \div a
           r == n % a
           p == q \div b
           s == q % b
<1>1. q \in Nat /\ r \in 0 .. a - 1 /\ n = a * q + r
  OBVIOUS
<1>2. p \in Nat /\ s \in 0 .. b - 1 /\ q = b * p + s
  OBVIOUS
<1> HIDE DEF q, r, p, s
<1> DEFINE m == b * a
           t == a * s + r
<1>3. n = m * p + t
  BY <1>1, <1>2
<1>4. t \in Nat /\ t < m /\ m \in Nat \ {0}
  <2>1. s + 1 <= b /\ r < a
    BY <1>1, <1>2
  <2>2. a * (s + 1) <= a * b
    BY <1>2, <2>1
  <2> QED BY <1>1, <1>2, <2>1, <2>2
<1> HIDE DEF m, t
<1>5. n \div m = p
  BY <1>2, <1>3, <1>4
<1> QED BY <1>5 DEF m, p, q

\* The width that is chosen for a number holds it, and is one a head can give.
LEMMA WidthHolds ==
  ASSUME NEW n \in Nat, n < Power[8]
  PROVE  /\ WidthFor(n) \in DOMAIN Wide /\ n < Power[WidthFor(n)]
         /\ WidthFor(n) \in 1 .. 8
<1> DEFINE P(w) == n < Power[w] /\ \A u \in DOMAIN Wide : n < Power[u] => w <= u
<1>1. DOMAIN Wide = {1, 2, 4, 8}
  BY DEF Wide
<1>2. \E w \in DOMAIN Wide : P(w)
  <2>1. CASE n < Power[1]
    BY <1>1, <2>1
  <2>2. CASE ~(n < Power[1]) /\ n < Power[2]
    BY <1>1, <2>2
  <2>3. CASE ~(n < Power[1]) /\ ~(n < Power[2]) /\ n < Power[4]
    BY <1>1, <2>3
  <2>4. CASE ~(n < Power[1]) /\ ~(n < Power[2]) /\ ~(n < Power[4])
    BY <1>1, <2>4
  <2> QED BY <2>1, <2>2, <2>3, <2>4
<1>3. WidthFor(n) = CHOOSE w \in DOMAIN Wide : P(w)
  BY Zenon DEF WidthFor
<1> HIDE DEF P
<1>4. WidthFor(n) \in DOMAIN Wide /\ P(WidthFor(n))
  BY <1>2, <1>3
<1> QED BY <1>1, <1>4 DEF P

\* The width that a head gives.
LEMMA WideTells ==
  ASSUME NEW w \in DOMAIN Wide
  PROVE  /\ Wide[w] \in Range(Wide) /\ Wide[w] > Immediate /\ Wide[w] \in Nat
         /\ (CHOOSE v \in DOMAIN Wide : Wide[v] = Wide[w]) = w
<1>1. DOMAIN Wide = {1, 2, 4, 8}
  BY DEF Wide
<1>2. /\ Wide[1] = Immediate + 1 /\ Wide[2] = Immediate + 2
      /\ Wide[4] = Immediate + 3 /\ Wide[8] = Immediate + 4
  BY DEF Wide
<1>3. Immediate \in Nat
  BY BytesAssumption
<1>4. \A v \in DOMAIN Wide : Wide[v] = Wide[w] => v = w
  BY <1>1, <1>2, <1>3
<1>5. Wide[w] > Immediate /\ Wide[w] \in Nat
  BY <1>1, <1>2, <1>3
<1> QED BY <1>4, <1>5 DEF Range

\* The number that bytes give, byte by byte.
NumberLoop(bytes) ==
  CHOOSE n : n = [i \in 0 .. Len(bytes) |-> IF i = 0 THEN 0 ELSE n[i - 1] * Base + bytes[i][2]]

LEMMA NumberResult == \A bytes : NumberOf(bytes) = NumberLoop(bytes)[Len(bytes)]
BY Zenon DEF NumberOf, NumberLoop

\* Bytes, the value of each a number.
AreBytes(bytes, width) ==
  Len(bytes) = width /\ \A i \in 1 .. width : bytes[i][2] \in Nat

LEMMA NumberSteps ==
  ASSUME NEW width \in Nat, NEW bytes, AreBytes(bytes, width)
  PROVE  LET n == NumberLoop(bytes)
         IN  n[0] = 0 /\ \A i \in 1 .. width : n[i] = n[i - 1] * Base + bytes[i][2]
<1> DEFINE g == [i \in 1 .. width |-> [p \in Nat |-> p * Base + bytes[i][2]]]
           Body(f, i) == IF i = 0 THEN 0 ELSE f[i - 1] * Base + bytes[i][2]
           Eq(f) == f = [i \in 0 .. width |-> Body(f, i)]
<1>1. g \in [1 .. width -> [Nat -> Nat]]
  <2>1. \A i \in 1 .. width : \A p \in Nat : p * Base + bytes[i][2] \in Nat
    BY BytesAssumption DEF AreBytes
  <2> QED BY <2>1
<1>2. PICK f \in [0 .. width -> Nat] : Solves(f, 0, g, width)
  <2> HIDE DEF g
  <2> QED BY <1>1, LoopExists
<1>3. Eq(f)
  <2> DEFINE A(i) == IF i = 0 THEN 0 ELSE g[i][f[i - 1]]
  <2>1. f = [i \in 0 .. width |-> A(i)]
    BY <1>2, Zenon DEF Solves
  <2>2. \A i \in 0 .. width : i # 0 => i \in 1 .. width /\ i - 1 \in 0 .. width
    OBVIOUS
  <2>3. \A i \in 0 .. width : A(i) = Body(f, i)
    BY <1>2, <2>2
  <2> HIDE DEF A, Body
  <2> QED BY <2>1, <2>3
<1>4. NumberLoop(bytes) = CHOOSE h : Eq(h)
  BY Zenon DEF NumberLoop, AreBytes
<1> DEFINE n == NumberLoop(bytes)
<1> HIDE DEF Eq, n
<1>5. Eq(n)
  BY <1>3, <1>4 DEF n
<1>6. \A i \in 0 .. width : n[i] = Body(n, i)
  <2> HIDE DEF Body
  <2> QED BY <1>5 DEF Eq
<1>7. 0 \in 0 .. width /\ \A i \in 1 .. width : i \in 0 .. width /\ i # 0
  OBVIOUS
<1>8. n[0] = 0 /\ \A i \in 1 .. width : n[i] = n[i - 1] * Base + bytes[i][2]
  BY <1>6, <1>7
<1> QED BY <1>8 DEF n

\* What is written in so many bytes is read from them.
LEMMA BytesComeBack ==
  ASSUME NEW width \in 1 .. 8, NEW n \in Nat, n < Power[width]
  PROVE  NumberOf(BytesOf(n, width)) = n
<1> DEFINE bytes == BytesOf(n, width)
           Left(i) == n \div Power[width - i]
           read == NumberLoop(bytes)
<1>1. \A i \in 0 .. width : width - i \in 0 .. 8
  OBVIOUS
<1>2. \A i \in 0 .. width : Power[width - i] \in Nat \ {0} /\ Left(i) \in Nat
  <2>1. \A i \in 0 .. width : Power[width - i] \in Nat \ {0}
    BY <1>1, PowerSteps
  <2> QED BY <2>1
<1>3. width \in Nat /\ \A i \in 1 .. width : i \in 0 .. width /\ i - 1 \in 0 .. width
  OBVIOUS
<1>4. /\ Len(bytes) = width
      /\ \A i \in 1 .. width : bytes[i][2] = Left(i) % Base
  BY <1>3 DEF BytesOf, Byte
<1> HIDE DEF bytes
<1>5. \A i \in 1 .. width : Left(i - 1) = Left(i) \div Base
  <2> SUFFICES ASSUME NEW i \in 1 .. width PROVE Left(i - 1) = Left(i) \div Base
    OBVIOUS
  <2>1. /\ width - i \in 0 .. 8 /\ width - (i - 1) \in 1 .. 8
        /\ (width - (i - 1)) - 1 = width - i
    OBVIOUS
  <2>2. Power[width - (i - 1)] = Base * Power[width - i]
    BY <2>1, PowerSteps
  <2>3. Power[width - i] \in Nat \ {0} /\ Base \in Nat \ {0}
    BY <2>1, PowerSteps, BytesAssumption
  <2> QED BY <2>2, <2>3, DividedTwice
<1>6. Left(0) = 0
  <2> DEFINE p == Power[width]
  <2>1. p \in Nat \ {0} /\ n < p
    BY PowerSteps
  <2> HIDE DEF p
  <2>2. n \div p = 0
    BY <2>1
  <2> QED BY <2>2 DEF p
<1>7. Left(width) = n
  <2>1. width - width = 0
    OBVIOUS
  <2> QED BY <2>1, PowerSteps
<1> HIDE DEF Left
<1>8. AreBytes(bytes, width)
  <2>1. \A x \in Nat : x % Base \in Nat
    BY BytesAssumption
  <2>2. \A i \in 1 .. width : bytes[i][2] \in Nat
    BY <1>2, <1>3, <1>4, <2>1
  <2> QED BY <1>4, <2>2, Zenon DEF AreBytes
<1>9. read[0] = 0 /\ \A i \in 1 .. width : read[i] = read[i - 1] * Base + bytes[i][2]
  BY <1>3, <1>8, NumberSteps
<1> HIDE DEF read
<1> DEFINE T == {i \in 0 .. width : read[i] = Left(i)}
<1>10. 0 \in T
  BY <1>3, <1>6, <1>9
<1>11. ASSUME NEW i \in 1 .. width, i - 1 \in T PROVE i \in T
  <2>1. read[i] = Left(i - 1) * Base + (Left(i) % Base)
    BY <1>4, <1>9, <1>11
  <2>2. Left(i) \in Nat /\ Left(i - 1) = Left(i) \div Base /\ Base \in Nat \ {0}
    BY <1>2, <1>3, <1>5, BytesAssumption
  <2>3. read[i] = Left(i)
    <3> DEFINE x == Left(i)
    <3>1. x \in Nat /\ read[i] = (x \div Base) * Base + (x % Base)
      BY <2>1, <2>2
    <3> HIDE DEF x
    <3>2. (x \div Base) * Base + (x % Base) = x
      BY <2>2, <3>1
    <3> QED BY <3>1, <3>2 DEF x
  <2> QED BY <1>3, <2>3
<1> HIDE DEF T
<1>12. 0 .. width \subseteq T
  BY <1>3, <1>10, <1>11, BoundedInduction
<1>13. read[width] = n
  <2>1. width \in T
    BY <1>3, <1>12
  <2> QED BY <1>7, <2>1 DEF T
<1> QED BY <1>4, <1>13, NumberResult DEF read, bytes

\* A head in a file, with anything before and after it.
LEMMA HeadIsRead ==
  ASSUME NEW S, NEW before \in Seq(S), NEW head \in Seq(S), NEW after \in Seq(S)
  PROVE  LET file == before \o head \o after
         IN  /\ file \in Seq(S) /\ Len(file) = Len(before) + Len(head) + Len(after)
             /\ \A i \in 1 .. Len(head) : file[Len(before) + i] = head[i]
<1> DEFINE b == before \o head
           file == b \o after
<1>1. IsConcat(S, before, head, b)
  BY PlacesOfConcat, Zenon
<1> HIDE DEF b
<1>2. IsConcat(S, b, after, file)
  <2>1. b \in Seq(S)
    BY <1>1, Zenon DEF IsConcat
  <2> QED BY <2>1, PlacesOfConcat, Zenon
<1> HIDE DEF file
<1>3. \A i \in 1 .. Len(head) : Len(before) + i \in 1 .. Len(b)
  BY <1>1 DEF IsConcat
<1>4. /\ file \in Seq(S) /\ Len(file) = Len(before) + Len(head) + Len(after)
      /\ \A i \in 1 .. Len(head) : file[Len(before) + i] = head[i]
  BY <1>1, <1>2, <1>3 DEF IsConcat
<1> QED BY <1>4 DEF file, b

\* What a head is made of.
HeadSymbol(major) ==
  {ItemHead(major, ai) : ai \in Nat} \cup {Byte(b) : b \in 0 .. Base - 1}

LEMMA HeadIsWritten ==
  ASSUME NEW major, NEW n \in Nat, n < Power[8]
  PROVE  LET head == cbor_emit_len(major, n)
             w    == WidthFor(n)
         IN  /\ head \in Seq(HeadSymbol(major))
             /\ n <= Immediate => Len(head) = 1 /\ head[1] = ItemHead(major, n)
             /\ ~(n <= Immediate) =>
                  /\ Len(head) = 1 + w /\ head[1] = ItemHead(major, Wide[w])
                  /\ BytesOf(n, w) \in Seq(HeadSymbol(major)) /\ Len(BytesOf(n, w)) = w
                  /\ \A i \in 1 .. w : head[1 + i] = BytesOf(n, w)[i]
<1> DEFINE head  == cbor_emit_len(major, n)
           w     == WidthFor(n)
           S     == HeadSymbol(major)
           bytes == BytesOf(n, w)
           first == <<ItemHead(major, Wide[w])>>
<1>1. w \in DOMAIN Wide /\ w \in 1 .. 8 /\ Wide[w] \in Nat
  BY WidthHolds, WideTells
<1>2. CASE n <= Immediate
  <2>1. head = <<ItemHead(major, n)>> /\ ItemHead(major, n) \in S
    BY <1>2 DEF cbor_emit_len, HeadSymbol
  <2> HIDE DEF head, S
  <2> QED BY <1>2, <2>1 DEF head, S
<1>3. CASE ~(n <= Immediate)
  <2>1. head = first \o bytes
    BY <1>3, Zenon DEF cbor_emit_len
  <2>2. first \in Seq(S) /\ Len(first) = 1 /\ first[1] = ItemHead(major, Wide[w])
    BY <1>1 DEF HeadSymbol
  <2>3. bytes \in Seq(S) /\ Len(bytes) = w
    <3> DEFINE e(i) == Byte((n \div Power[w - i]) % Base)
    <3>1. bytes = [i \in 1 .. w |-> e(i)] /\ w \in Nat
      <4>1. bytes = [i \in 1 .. w |-> e(i)]
        BY Zenon DEF BytesOf
      <4>2. w \in Nat
        BY <1>1
      <4> QED BY <4>1, <4>2
    <3>2. \A i \in 1 .. w : e(i) \in S
      <4> SUFFICES ASSUME NEW i \in 1 .. w PROVE e(i) \in S
        OBVIOUS
      <4> DEFINE p == Power[w - i]
                 x == n \div p
      <4>1. p \in Nat \ {0}
        <5>1. w - i \in 0 .. 8
          BY <1>1
        <5> QED BY <5>1, PowerSteps
      <4> HIDE DEF p
      <4>2. x \in Nat
        BY <4>1
      <4> HIDE DEF x
      <4>3. x % Base \in 0 .. Base - 1
        BY <4>2, BytesAssumption
      <4> QED BY <4>3, Zenon DEF HeadSymbol, x, p
    <3> HIDE DEF e, bytes, S, w
    <3> QED BY <1>1, <3>1, <3>2
  <2> HIDE DEF first, bytes, S, w, head
  <2>4. IsConcat(S, first, bytes, head)
    BY <2>1, <2>2, <2>3, PlacesOfConcat, Zenon
  <2>5. 1 \in 1 .. Len(first)
    BY <2>2
  <2>6. /\ head \in Seq(S) /\ Len(head) = 1 + w /\ head[1] = ItemHead(major, Wide[w])
        /\ \A i \in 1 .. w : head[1 + i] = bytes[i]
    BY <2>2, <2>3, <2>4, <2>5 DEF IsConcat
  <2> QED BY <1>3, <2>3, <2>6 DEF head, S, bytes, w
<1> QED BY <1>2, <1>3

\* The number and the end of a head are read back, in any file: whichever of
\* the widths cbor_emit_len has chosen for it.
THEOREM HeadsComeBack ==
  ASSUME NEW Around, NEW before \in Seq(Around), NEW after \in Seq(Around),
         NEW major, NEW n \in Nat, n < Power[8]
  PROVE  LET head == cbor_emit_len(major, n)
         IN  read_len(before \o head \o after, Len(before) + 1)
               = Accepted(n, Len(before) + Len(head) + 1)
<1> DEFINE head == cbor_emit_len(major, n)
           S    == Around \cup HeadSymbol(major)
           file == before \o head \o after
           at   == Len(before) + 1
           w    == WidthFor(n)
           ai   == file[at][3]
<1>1. head \in Seq(HeadSymbol(major))
  BY HeadIsWritten
<1>2. before \in Seq(S) /\ after \in Seq(S) /\ head \in Seq(S)
  <2>1. Around \subseteq S /\ HeadSymbol(major) \subseteq S
    OBVIOUS
  <2> HIDE DEF S, head
  <2> QED BY <1>1, <2>1, SeqMonotonic
<1> HIDE DEF S
<1>3. /\ file \in Seq(S) /\ Len(file) = Len(before) + Len(head) + Len(after)
      /\ \A i \in 1 .. Len(head) : file[Len(before) + i] = head[i]
  <2> HIDE DEF head
  <2> QED BY <1>2, HeadIsRead
<1>4. Len(before) \in Nat /\ Len(after) \in Nat /\ at \in Nat
  BY <1>2
<1>5. CASE n <= Immediate
  <2>1. Len(head) = 1 /\ head[1] = ItemHead(major, n)
    BY <1>5, HeadIsWritten
  <2> HIDE DEF head, file
  <2>2. file[at] = ItemHead(major, n)
    BY <1>3, <2>1
  <2>3. ai = n
    BY <2>2 DEF ItemHead
  <2> HIDE DEF ai
  <2>4. read_len(file, at) = Accepted(ai, at + 1)
    BY <1>5, <2>3, Zenon DEF read_len, ai
  <2>5. Len(before) + Len(head) + 1 = at + 1
    BY <1>4, <2>1
  <2> QED BY <2>3, <2>4, <2>5 DEF head, file
<1>6. CASE ~(n <= Immediate)
  <2> DEFINE bytes == BytesOf(n, w)
  <2>1. /\ Len(head) = 1 + w /\ head[1] = ItemHead(major, Wide[w])
        /\ bytes \in Seq(HeadSymbol(major)) /\ Len(bytes) = w
        /\ \A i \in 1 .. w : head[1 + i] = bytes[i]
    BY <1>6, HeadIsWritten
  <2>2. /\ w \in DOMAIN Wide /\ w \in 1 .. 8 /\ n < Power[w]
        /\ Wide[w] \in Range(Wide) /\ ~(Wide[w] <= Immediate)
        /\ (CHOOSE v \in DOMAIN Wide : Wide[v] = Wide[w]) = w
    BY WidthHolds, WideTells, BytesAssumption
  <2>3. NumberOf(bytes) = n
    BY <2>2, BytesComeBack
  <2> HIDE DEF head, file, bytes, w
  <2>4. file[at] = ItemHead(major, Wide[w])
    <3>1. 1 \in 1 .. Len(head)
      BY <2>1, <2>2
    <3> QED BY <1>3, <2>1, <3>1
  <2>5. ai = Wide[w]
    BY <2>4 DEF ItemHead
  <2>6. SubSeq(file, at + 1, at + w) = bytes
    <3>1. \A i \in 1 .. w : file[at + i] = bytes[i]
      <4>1. \A i \in 1 .. w : 1 + i \in 1 .. Len(head) /\ Len(before) + (1 + i) = at + i
        BY <1>4, <2>1, <2>2
      <4> QED BY <1>3, <2>1, <4>1
    <3>2. bytes \in Seq(S) /\ w <= Len(bytes) /\ at + w <= Len(file)
      <4>1. HeadSymbol(major) \subseteq S
        BY DEF S
      <4>2. bytes \in Seq(S)
        BY <2>1, <4>1, SeqMonotonic
      <4>3. at + w <= Len(file) /\ w <= Len(bytes)
        BY <1>3, <1>4, <2>1, <2>2
      <4> QED BY <4>2, <4>3
    <3>3. SubSeq(file, at + 1, at + w) = SubSeq(bytes, 1, w)
      <4>1. file \in Seq(S) /\ bytes \in Seq(S) /\ w \in Int /\ at \in Nat
        BY <1>3, <1>4, <2>2, <3>2
      <4> HIDE DEF at
      <4> QED BY <3>1, <3>2, <4>1, SameSlices
    <3>4. SubSeq(bytes, 1, w) = bytes
      BY <2>1, <3>2, SubSeqFull
    <3> QED BY <3>3, <3>4
  <2>7. ~(at + w > Len(file)) /\ at + w + 1 = Len(before) + Len(head) + 1
    <3>1. Len(file) = at - 1 + (1 + w) + Len(after) /\ Len(before) = at - 1
      BY <1>3, <1>4, <2>1
    <3> HIDE DEF at
    <3> QED BY <1>4, <2>1, <2>2, <3>1
  <2> HIDE DEF ai, at
  <2>8. read_len(file, at) = Accepted(NumberOf(SubSeq(file, at + 1, at + w)), at + w + 1)
    BY <2>2, <2>5, <2>7, Zenon DEF read_len, ai
  <2>9. read_len(file, at) = Accepted(n, Len(before) + Len(head) + 1)
    BY <2>3, <2>6, <2>7, <2>8, Zenon
  <2> QED BY <2>9 DEF head, file, at
<1> QED BY <1>5, <1>6

\* A file that ends inside a head is refused, wherever in it.
THEOREM CutHeadsAreRefused ==
  ASSUME NEW Around, NEW before \in Seq(Around), NEW major, NEW n \in Nat, n < Power[8],
         NEW k \in 1 .. Len(cbor_emit_len(major, n)) - 1
  PROVE  read_len(before \o SubSeq(cbor_emit_len(major, n), 1, k), Len(before) + 1) = Refused
<1> DEFINE head == cbor_emit_len(major, n)
           part == SubSeq(head, 1, k)
           S    == Around \cup HeadSymbol(major)
           file == before \o part
           at   == Len(before) + 1
           w    == WidthFor(n)
           ai   == file[at][3]
<1>1. /\ head \in Seq(HeadSymbol(major))
      /\ n <= Immediate => Len(head) = 1
      /\ ~(n <= Immediate) => Len(head) = 1 + w /\ head[1] = ItemHead(major, Wide[w])
  BY HeadIsWritten
<1>2. /\ w \in DOMAIN Wide /\ w \in 1 .. 8
      /\ Wide[w] \in Range(Wide) /\ ~(Wide[w] <= Immediate)
      /\ (CHOOSE v \in DOMAIN Wide : Wide[v] = Wide[w]) = w
  BY WidthHolds, WideTells, BytesAssumption
<1> HIDE DEF head, w
<1>3. /\ k \in 1 .. w /\ head[1] = ItemHead(major, Wide[w]) /\ k <= Len(head)
  <2>1. k \in 1 .. Len(head) - 1
    BY DEF head
  <2> DEFINE m == Len(head)
  <2>2. m \in Nat /\ k \in 1 .. m - 1
    BY <1>1, <2>1
  <2> HIDE DEF m
  <2>3. m # 1 /\ k <= m
    BY <2>2
  <2>4. m = 1 + w /\ head[1] = ItemHead(major, Wide[w])
    BY <1>1, <2>3 DEF m
  <2>5. k \in 1 .. w
    <3>1. w \in 1 .. 8 /\ m = 1 + w
      BY <1>2, <2>4, Zenon
    <3> QED BY <2>2, <3>1
  <2> QED BY <2>3, <2>4, <2>5 DEF m
<1>4. part \in Seq(S) /\ Len(part) = k /\ part[1] = head[1]
  <2>1. head \in Seq(S)
    <3>1. HeadSymbol(major) \subseteq S
      OBVIOUS
    <3> HIDE DEF S
    <3> QED BY <1>1, <3>1, SeqMonotonic
  <2> HIDE DEF S
  <2>2. \A i \in 1 .. k : head[i] \in S
    BY <1>3, <2>1
  <2>3. k \in Int /\ 1 <= k /\ 1 \in 1 .. k - 1 + 1
    BY <1>2, <1>3
  <2>4. /\ part \in Seq(S) /\ Len(part) = k - 1 + 1
        /\ \A i \in 1 .. k - 1 + 1 : part[i] = head[1 + i - 1]
    BY <2>2, <2>3, SubSeqProperties
  <2> HIDE DEF part
  <2> QED BY <2>3, <2>4
<1>5. before \in Seq(S) /\ Len(before) \in Nat
  <2>1. Around \subseteq S /\ Len(before) \in Nat
    OBVIOUS
  <2> HIDE DEF S
  <2> QED BY <2>1, SeqMonotonic
<1> HIDE DEF S, part
<1>6. IsConcat(S, before, part, file)
  BY <1>4, <1>5, PlacesOfConcat, Zenon
<1> HIDE DEF file
<1>7. file[at] = ItemHead(major, Wide[w]) /\ at + w > Len(file)
  <2>1. Len(file) = Len(before) + k /\ 1 \in 1 .. Len(part)
    BY <1>3, <1>4, <1>6 DEF IsConcat
  <2>2. file[at] = part[1]
    BY <1>6, <2>1, Zenon DEF IsConcat
  <2> DEFINE b == Len(before)
  <2>3. b \in Nat /\ w \in Nat /\ k \in 1 .. w
    BY <1>2, <1>3, <1>5
  <2> HIDE DEF b
  <2>4. b + 1 + w > b + k
    BY <2>3
  <2> QED BY <1>3, <1>4, <2>1, <2>2, <2>4 DEF b
<1>8. ai = Wide[w]
  BY <1>7 DEF ItemHead
<1> HIDE DEF ai, at
<1>9. read_len(file, at) = Refused
  BY <1>2, <1>7, <1>8, Zenon DEF read_len, ai
<1> QED BY <1>9 DEF file, part, head, at

-----------------------------------------------------------------------------
(* The strings of JSON *)

\* The loop over the places of a text.
ReadLoop(text) ==
  CHOOSE read : read = [at \in 1 .. Len(text) + 2 |-> ReadAt(text, read, at)]

LEMMA ReadResult == \A text, start : parse_json_string(text, start) = ReadLoop(text)[start]
BY Zenon DEF parse_json_string, ReadLoop

LEMMA ReadCases ==
  ASSUME NEW text, NEW read, NEW at,
         NEW c, c = SymbolAt(text, at), NEW escaped, escaped = SymbolAt(text, at + 1)
  PROVE  /\ c = Quote => ReadAt(text, read, at) = Accepted(<<>>, at + 1)
         /\ c = Backslash /\ escaped \in DOMAIN JsonEscapes =>
              ReadAt(text, read, at) = Prepended(JsonEscapes[escaped], read[at + 2])
         /\ c \notin {Quote, Backslash, Newline, Control, EndOfText} =>
              ReadAt(text, read, at) = Prepended(c, read[at + 1])
         /\ c \in {Newline, Control, EndOfText} => ReadAt(text, read, at) = Refused
<1> DEFINE Q == c = Quote
           B == c = Backslash /\ escaped \in DOMAIN JsonEscapes
           L == c \notin {Quote, Backslash, Newline, Control, EndOfText}
           q == Accepted(<<>>, at + 1)
           b == Prepended(JsonEscapes[escaped], read[at + 2])
           l == Prepended(c, read[at + 1])
<1>1. ReadAt(text, read, at) = CASE Q -> q [] B -> b [] L -> l [] OTHER -> Refused
  BY DEF ReadAt
<1>2. /\ Quote # Backslash /\ Quote # Newline /\ Quote # Control /\ Quote # EndOfText
      /\ Backslash # Newline /\ Backslash # Control /\ Backslash # EndOfText
  BY DEF Quote, Backslash, Newline, Control, EndOfText, Char
<1>3. /\ Q => ~B /\ ~L
      /\ B => ~Q /\ ~L
      /\ L => ~Q /\ ~B
      /\ c \in {Newline, Control, EndOfText} => ~Q /\ ~B /\ ~L
  BY <1>2
<1> HIDE DEF q, b, l
<1>4. /\ Q => ReadAt(text, read, at) = q
      /\ B => ReadAt(text, read, at) = b
      /\ L => ReadAt(text, read, at) = l
      /\ c \in {Newline, Control, EndOfText} => ReadAt(text, read, at) = Refused
  <2> HIDE DEF Q, B, L
  <2> QED BY <1>1, <1>3
<1> QED BY <1>4 DEF q, b, l

\* Nothing is read behind the end.
LEMMA ReadDepends ==
  ASSUME NEW S, NEW text \in Seq(S), NEW at \in 1 .. Len(text) + 2, NEW f, NEW h,
         at <= Len(text) => f[at + 1] = h[at + 1] /\ f[at + 2] = h[at + 2]
  PROVE  ReadAt(text, f, at) = ReadAt(text, h, at)
<1>1. CASE at <= Len(text)
  BY <1>1, Zenon DEF ReadAt
<1>2. CASE ~(at <= Len(text))
  <2>1. SymbolAt(text, at) = EndOfText
    BY <1>2 DEF SymbolAt
  <2> QED BY <2>1, ReadCases
<1> QED BY <1>1, <1>2

\* The reading of a text exists: from its end on, a place further back each time.
LEMMA ReadEquation ==
  ASSUME NEW S, NEW text \in Seq(S)
  PROVE  \A at \in 1 .. Len(text) + 2 : ReadLoop(text)[at] = ReadAt(text, ReadLoop(text), at)
<1> DEFINE n == Len(text)
           Eq(f, k) == f = [at \in n + 1 - k .. n + 2 |-> ReadAt(text, f, at)]
           T == {k \in 0 .. n : \E f : Eq(f, k)}
<1>1. n \in Nat
  OBVIOUS
<1>2. 0 \in T
  <2> DEFINE f == [at \in n + 1 - 0 .. n + 2 |-> ReadAt(text, text, at)]
  <2>1. \A at \in n + 1 - 0 .. n + 2 : ReadAt(text, text, at) = ReadAt(text, f, at)
    <3> HIDE DEF f
    <3>1. \A at \in n + 1 - 0 .. n + 2 : at \in 1 .. Len(text) + 2 /\ ~(at <= Len(text))
      BY <1>1
    <3> QED BY <3>1, ReadDepends
  <2>2. Eq(f, 0)
    BY <2>1
  <2> HIDE DEF f, Eq
  <2> QED BY <1>1, <2>2
<1>3. ASSUME NEW k \in 1 .. n, k - 1 \in T PROVE k \in T
  <2>1. PICK f : Eq(f, k - 1)
    BY <1>3
  <2> DEFINE a == n + 1 - k
             h == [at \in a .. n + 2 |-> IF at = a THEN ReadAt(text, f, a) ELSE f[at]]
  <2>2. a \in 1 .. n /\ n + 1 - (k - 1) = a + 1
    BY <1>1
  <2>3. \A at \in a + 1 .. n + 2 : f[at] = ReadAt(text, f, at)
    BY <2>1, <2>2
  <2>4. \A at \in a + 1 .. n + 2 : h[at] = f[at]
    BY <1>1, <2>2
  <2>5. h[a] = ReadAt(text, f, a)
    BY <1>1, <2>2
  <2>6. \A at \in a .. n + 2 : h[at] = ReadAt(text, h, at)
    <3> SUFFICES ASSUME NEW at \in a .. n + 2 PROVE h[at] = ReadAt(text, h, at)
      OBVIOUS
    <3> HIDE DEF h, a
    <3>1. at \in 1 .. Len(text) + 2
      BY <1>1, <2>2
    <3>2. at <= Len(text) => at + 1 \in a + 1 .. n + 2 /\ at + 2 \in a + 1 .. n + 2
      BY <1>1, <2>2
    <3>3. ReadAt(text, h, at) = ReadAt(text, f, at)
      BY <2>4, <3>1, <3>2, ReadDepends
    <3>4. at = a \/ at \in a + 1 .. n + 2
      BY <1>1, <2>2
    <3> QED BY <2>3, <2>4, <2>5, <3>3, <3>4
  <2>7. Eq(h, k)
    <3> DEFINE R(at) == ReadAt(text, h, at)
               A(at) == IF at = a THEN ReadAt(text, f, a) ELSE f[at]
    <3>1. \A at \in a .. n + 2 : A(at) = h[at]
      OBVIOUS
    <3>2. \A at \in a .. n + 2 : A(at) = R(at)
      BY <2>6, <3>1
    <3>3. h = [at \in a .. n + 2 |-> A(at)]
      OBVIOUS
    <3> HIDE DEF A, R, h, a
    <3>4. h = [at \in a .. n + 2 |-> R(at)]
      BY <3>2, <3>3
    <3> QED BY <3>4 DEF R, a
  <2> HIDE DEF h, Eq
  <2> QED BY <1>1, <2>7
<1> HIDE DEF T
<1>4. 0 .. n \subseteq T
  BY <1>1, <1>2, <1>3, BoundedInduction
<1>5. \E f : Eq(f, n)
  <2>1. n \in T
    BY <1>1, <1>4
  <2> QED BY <2>1 DEF T
<1> DEFINE Eq1(f) == f = [at \in 1 .. Len(text) + 2 |-> ReadAt(text, f, at)]
<1>6. \E f : Eq1(f)
  <2>1. n + 1 - n = 1
    BY <1>1
  <2> QED BY <1>5, <2>1
<1>7. ReadLoop(text) = CHOOSE f : Eq1(f)
  BY Zenon DEF ReadLoop
<1> HIDE DEF Eq1
<1>8. Eq1(ReadLoop(text))
  BY <1>6, <1>7
<1> DEFINE r == ReadLoop(text)
           R(at) == ReadAt(text, r, at)
<1>9. r = [at \in 1 .. Len(text) + 2 |-> R(at)]
  BY <1>8 DEF Eq1
<1> HIDE DEF r, R
<1>10. \A at \in 1 .. Len(text) + 2 : r[at] = R(at)
  BY <1>9
<1> QED BY <1>10 DEF r, R

\* The places of a part in the flattened sequence.
PartIsAt(f, ss, flat, i) ==
  /\ Len(f[i - 1]) \in Nat /\ Len(f[i]) \in Nat /\ Len(f[i]) <= Len(flat)
  /\ Len(f[i]) = Len(f[i - 1]) + Len(ss[i])
  /\ \A k \in 1 .. Len(ss[i]) : flat[Len(f[i - 1]) + k] = ss[i][k]

LEMMA PlacesOfParts ==
  ASSUME NEW S, NEW ss \in Seq(Seq(S)), NEW f, FlatPrefixes(f, ss, S), NEW i \in 1 .. Len(ss)
  PROVE  PartIsAt(f, ss, f[Len(ss)], i)
<1> DEFINE n == Len(ss)
           Begins(j) == /\ Len(f[i]) <= Len(f[j])
                        /\ \A k \in 1 .. Len(f[i]) : f[j][k] = f[i][k]
           T == {m \in 0 .. n - i : Begins(i + m)}
<1>1. n \in Nat /\ i - 1 \in 0 .. n /\ i \in 0 .. n /\ n - i \in Nat
  OBVIOUS
<1>2. /\ \A j \in 0 .. n : f[j] \in Seq(S) /\ Len(f[j]) \in Nat
      /\ \A j \in 1 .. n : f[j] = f[j - 1] \o ss[j]
  <2>1. f \in [0 .. n -> Seq(S)] /\ \A j \in 1 .. n : f[j] = f[j - 1] \o ss[j]
    BY Zenon DEF FlatPrefixes
  <2> HIDE DEF n
  <2>2. \A j \in 0 .. n : f[j] \in Seq(S)
    BY <2>1
  <2>3. \A j \in 0 .. n : Len(f[j]) \in Nat
    BY <2>2
  <2> QED BY <2>1, <2>2, <2>3
<1>3. \A j \in 1 .. n : ss[j] \in Seq(S)
  OBVIOUS
<1> HIDE DEF n
<1>4. 0 \in T
  <2>1. i + 0 = i
    BY <1>1
  <2>2. Begins(i + 0)
    BY <1>1, <1>2, <2>1
  <2> QED BY <1>1, <2>2
<1>5. ASSUME NEW m \in 1 .. n - i, m - 1 \in T PROVE m \in T
  <2> DEFINE j == i + m
  <2>1. j \in 1 .. n /\ j \in 0 .. n /\ j - 1 \in 0 .. n /\ i + (m - 1) = j - 1
    BY <1>1
  <2>2. Begins(j - 1)
    BY <1>5, <2>1
  <2> HIDE DEF j
  <2>3. IsConcat(S, f[j - 1], ss[j], f[j])
    <3>1. f[j] = f[j - 1] \o ss[j] /\ f[j - 1] \in Seq(S) /\ ss[j] \in Seq(S)
      BY <1>2, <1>3, <2>1
    <3> QED BY <3>1, PlacesOfConcat, Zenon
  <2>4. Len(ss[j]) \in Nat
    BY <1>3, <2>1
  <2>5. Begins(j)
    <3>1. Len(f[j]) = Len(f[j - 1]) + Len(ss[j]) /\ \A k \in 1 .. Len(f[j - 1]) : f[j][k] = f[j - 1][k]
      BY <2>3 DEF IsConcat
    <3>2. \A k \in 1 .. Len(f[i]) : k \in 1 .. Len(f[j - 1])
      BY <1>1, <1>2, <2>1, <2>2
    <3>3. Len(f[i]) <= Len(f[j])
      <4> DEFINE a == Len(f[i])
                 b == Len(f[j - 1])
                 c == Len(ss[j])
                 d == Len(f[j])
      <4>1. a \in Nat /\ b \in Nat /\ c \in Nat /\ a <= b /\ d = b + c
        BY <1>1, <1>2, <2>1, <2>2, <2>4, <3>1
      <4> HIDE DEF a, b, c, d
      <4>2. a <= d
        BY <4>1
      <4> QED BY <4>2 DEF a, d
    <3> QED BY <2>2, <3>1, <3>2, <3>3
  <2>6. m \in 0 .. n - i
    BY <1>1
  <2> QED BY <2>5, <2>6 DEF j
<1> HIDE DEF T
<1>6. 0 .. n - i \subseteq T
  BY <1>1, <1>4, <1>5, BoundedInduction
<1>7. Begins(n)
  <2>1. n - i \in T /\ i + (n - i) = n
    BY <1>1, <1>6
  <2> QED BY <2>1 DEF T
<1>8. IsConcat(S, f[i - 1], ss[i], f[i])
  <2>1. f[i] = f[i - 1] \o ss[i] /\ f[i - 1] \in Seq(S) /\ ss[i] \in Seq(S)
    BY <1>1, <1>2, <1>3 DEF n
  <2> QED BY <2>1, PlacesOfConcat, Zenon
<1>9. PartIsAt(f, ss, f[n], i)
  <2>1. Len(ss[i]) \in Nat
    BY <1>3 DEF n
  <2>2. Len(f[i]) = Len(f[i - 1]) + Len(ss[i])
        /\ \A k \in 1 .. Len(ss[i]) : f[i][Len(f[i - 1]) + k] = ss[i][k]
    BY <1>8 DEF IsConcat
  <2>3. \A k \in 1 .. Len(ss[i]) : Len(f[i - 1]) + k \in 1 .. Len(f[i])
    <3> DEFINE a == Len(f[i - 1])
               b == Len(f[i])
               c == Len(ss[i])
    <3>1. a \in Nat /\ b \in Nat /\ c \in Nat /\ b = a + c
      BY <1>1, <1>2, <2>1, <2>2
    <3> HIDE DEF a, b, c
    <3>2. \A k \in 1 .. c : a + k \in 1 .. b
      BY <3>1
    <3> QED BY <3>2 DEF a, b, c
  <2> QED BY <1>1, <1>2, <1>7, <2>2, <2>3 DEF PartIsAt
<1> QED BY <1>9 DEF n

\* The symbols of a dumped string.
JsonSymbol == Symbol \cup {Quote, Backslash, Newline, Control, Char("n")}

LEMMA EscapedSymbol ==
  ASSUME NEW c \in Symbol
  PROVE  /\ Escape(c) \in Seq(JsonSymbol) /\ Len(Escape(c)) \in {1, 2}
         /\ c \in {Quote, Backslash} =>
              Len(Escape(c)) = 2 /\ Escape(c)[1] = Backslash /\ Escape(c)[2] = c
         /\ c = Newline =>
              Len(Escape(c)) = 2 /\ Escape(c)[1] = Backslash /\ Escape(c)[2] = Char("n")
         /\ c \notin {Quote, Backslash, Newline} => Len(Escape(c)) = 1 /\ Escape(c)[1] = c
<1>1. /\ Quote # Newline /\ Backslash # Newline
      /\ Backslash \in JsonSymbol /\ c \in JsonSymbol /\ Char("n") \in JsonSymbol
  BY DEF Quote, Backslash, Newline, Char, JsonSymbol
<1>2. CASE c \in {Quote, Backslash}
  <2>1. Escape(c) = <<Backslash, c>>
    BY <1>2, Zenon DEF Escape
  <2> QED BY <1>1, <1>2, <2>1
<1>3. CASE c = Newline
  <2>1. Escape(c) = <<Backslash, Char("n")>>
    BY <1>1, <1>3, Zenon DEF Escape
  <2> QED BY <1>1, <1>3, <2>1
<1>4. CASE c \notin {Quote, Backslash, Newline}
  <2>1. Escape(c) = <<c>>
    BY <1>4, Zenon DEF Escape
  <2> QED BY <1>1, <1>4, <2>1
<1> QED BY <1>2, <1>3, <1>4

\* What is read of an escaped symbol, of a text that has it from a place on.
LEMMA EscapeIsRead ==
  ASSUME NEW c \in Symbol, NEW S, NEW file \in Seq(S), NEW at \in 1 .. Len(file),
         at + Len(Escape(c)) <= Len(file),
         \A k \in 1 .. Len(Escape(c)) : file[at + k - 1] = Escape(c)[k]
  PROVE  ReadLoop(file)[at] =
           IF c = Control THEN Refused ELSE Prepended(c, ReadLoop(file)[at + Len(Escape(c))])
<1> DEFINE r == ReadLoop(file)
           n == Len(Escape(c))
<1>1. at \in 1 .. Len(file) + 2 /\ at \in DOMAIN file /\ SymbolAt(file, at) = file[at]
  BY DEF SymbolAt
<1>2. r[at] = ReadAt(file, r, at)
  BY <1>1, ReadEquation
<1> HIDE DEF r, n
<1>3. n \in {1, 2} /\ file[at] = Escape(c)[1] /\ (n = 2 => file[at + 1] = Escape(c)[2])
  <2>1. Len(Escape(c)) \in {1, 2}
    BY EscapedSymbol
  <2>2. 1 \in 1 .. Len(Escape(c)) /\ at + 1 - 1 = at
    BY <2>1
  <2>3. Len(Escape(c)) = 2 => 2 \in 1 .. Len(Escape(c)) /\ at + 2 - 1 = at + 1
    OBVIOUS
  <2> QED BY <2>1, <2>2, <2>3 DEF n
<1>4. n = 2 => SymbolAt(file, at + 1) = file[at + 1]
  BY <1>3 DEF SymbolAt, n
<1>5. /\ JsonEscapes[Quote] = Quote /\ JsonEscapes[Backslash] = Backslash
      /\ JsonEscapes[Char("n")] = Newline
      /\ {Quote, Backslash, Char("n")} \subseteq DOMAIN JsonEscapes
  BY DEF JsonEscapes, Quote, Backslash, Newline, Char
<1>6. /\ Control # Quote /\ Control # Backslash /\ Control # Newline
      /\ Newline # Quote /\ Newline # Backslash
  BY DEF Quote, Backslash, Newline, Control, Char
<1>7. c # EndOfText
  BY DEF Symbol, EndOfText
<1>8. CASE c \in {Quote, Backslash}
  <2>1. n = 2 /\ SymbolAt(file, at) = Backslash /\ SymbolAt(file, at + 1) = c
    BY <1>1, <1>3, <1>4, <1>8, EscapedSymbol DEF n
  <2>2. c \in DOMAIN JsonEscapes /\ JsonEscapes[c] = c
    BY <1>5, <1>8
  <2>3. ReadAt(file, r, at) = Prepended(JsonEscapes[c], r[at + 2])
    BY <2>1, <2>2, ReadCases
  <2> QED BY <1>2, <1>6, <1>8, <2>1, <2>2, <2>3 DEF r, n
<1>9. CASE c = Newline
  <2>1. n = 2 /\ SymbolAt(file, at) = Backslash /\ SymbolAt(file, at + 1) = Char("n")
    BY <1>1, <1>3, <1>4, <1>9, EscapedSymbol DEF n
  <2>2. Char("n") \in DOMAIN JsonEscapes /\ JsonEscapes[Char("n")] = c
    BY <1>5, <1>9
  <2>3. ReadAt(file, r, at) = Prepended(JsonEscapes[Char("n")], r[at + 2])
    BY <2>1, <2>2, ReadCases
  <2> QED BY <1>2, <1>6, <1>9, <2>1, <2>2, <2>3 DEF r, n
<1>10. CASE c \notin {Quote, Backslash, Newline}
  <2>1. n = 1 /\ SymbolAt(file, at) = c
    BY <1>1, <1>3, <1>10, EscapedSymbol DEF n
  <2>2. CASE c = Control
    <3>1. ReadAt(file, r, at) = Refused
      BY <2>1, <2>2, ReadCases
    <3> QED BY <1>2, <2>2, <3>1 DEF r
  <2>3. CASE c # Control
    <3>1. ReadAt(file, r, at) = Prepended(c, r[at + 1])
      BY <1>7, <1>10, <2>1, <2>3, ReadCases
    <3> QED BY <1>2, <2>1, <2>3, <3>1 DEF r, n
  <2> QED BY <2>2, <2>3
<1> QED BY <1>8, <1>9, <1>10

\* The file that has a dumped string between two others: from the quote on, its
\* symbols are those of the escaped text, and the quote after it.
IsDumped(flat, before, after, file) ==
  /\ Len(file) = Len(before) + Len(flat) + 2 + Len(after)
  /\ \A k \in 1 .. Len(flat) : file[Len(before) + 1 + k] = flat[k]
  /\ file[Len(before) + Len(flat) + 2] = Quote

LEMMA DumpedPlaces ==
  ASSUME NEW S, NEW before \in Seq(S), NEW after \in Seq(S), NEW flat \in Seq(S), Quote \in S
  PROVE  LET dumped == <<Quote>> \o flat \o <<Quote>>
         IN  /\ dumped \in Seq(S) /\ Len(dumped) = Len(flat) + 2
             /\ before \o dumped \o after \in Seq(S)
             /\ IsDumped(flat, before, after, before \o dumped \o after)
<1> DEFINE q == <<Quote>>
           s1 == q \o flat
           s2 == s1 \o q
           s3 == before \o s2
           s4 == s3 \o after
<1>1. q \in Seq(S) /\ Len(q) = 1 /\ q[1] = Quote
  OBVIOUS
<1> HIDE DEF q
<1>2. IsConcat(S, q, flat, s1)
  BY <1>1, PlacesOfConcat, Zenon
<1>3. IsConcat(S, s1, q, s2)
  <2>1. s1 \in Seq(S)
    BY <1>2 DEF IsConcat
  <2> QED BY <1>1, <2>1, PlacesOfConcat, Zenon
<1>4. IsConcat(S, before, s2, s3)
  <2>1. s2 \in Seq(S)
    BY <1>3 DEF IsConcat
  <2> QED BY <2>1, PlacesOfConcat, Zenon
<1>5. IsConcat(S, s3, after, s4)
  <2>1. s3 \in Seq(S)
    BY <1>4 DEF IsConcat
  <2> QED BY <2>1, PlacesOfConcat, Zenon
<1> HIDE DEF s1, s2, s3, s4
<1> DEFINE a == Len(before)
           b == Len(flat)
           c == Len(after)
<1>6. a \in Nat /\ b \in Nat /\ c \in Nat
  OBVIOUS
<1>7. /\ Len(s1) = 1 + b /\ Len(s2) = b + 2 /\ Len(s3) = a + b + 2 /\ Len(s4) = a + b + 2 + c
  <2>1. Len(s1) = 1 + b
    BY <1>1, <1>2 DEF IsConcat
  <2>2. Len(s2) = Len(s1) + 1
    BY <1>1, <1>3 DEF IsConcat
  <2>3. Len(s3) = a + Len(s2)
    BY <1>4 DEF IsConcat
  <2>4. Len(s4) = Len(s3) + c
    BY <1>5 DEF IsConcat
  <2> HIDE DEF a, b, c
  <2> QED BY <1>6, <2>1, <2>2, <2>3, <2>4
<1>8. /\ \A k \in 1 .. b : s1[1 + k] = flat[k]
      /\ \A k \in 1 .. 1 + b : s2[k] = s1[k]
      /\ s2[(1 + b) + 1] = Quote
      /\ \A k \in 1 .. b + 2 : s3[a + k] = s2[k]
      /\ \A k \in 1 .. a + b + 2 : s4[k] = s3[k]
  <2>1. \A k \in 1 .. b : s1[1 + k] = flat[k]
    BY <1>1, <1>2 DEF IsConcat
  <2>2. \A k \in 1 .. 1 + b : s2[k] = s1[k]
    BY <1>3, <1>7 DEF IsConcat
  <2>3. s2[(1 + b) + 1] = Quote
    BY <1>1, <1>3, <1>7 DEF IsConcat
  <2>4. \A k \in 1 .. b + 2 : s3[a + k] = s2[k]
    BY <1>4, <1>7 DEF IsConcat
  <2>5. \A k \in 1 .. a + b + 2 : s4[k] = s3[k]
    BY <1>5, <1>7 DEF IsConcat
  <2> QED BY <2>1, <2>2, <2>3, <2>4, <2>5
<1> HIDE DEF a, b, c
<1>9. ASSUME NEW k \in 1 .. b PROVE s4[a + 1 + k] = flat[k]
  <2>1. /\ 1 + k \in 1 .. 1 + b /\ 1 + k \in 1 .. b + 2
        /\ a + 1 + k \in 1 .. a + b + 2 /\ a + 1 + k = a + (1 + k)
    BY <1>6
  <2>2. s4[a + 1 + k] = s3[a + (1 + k)] /\ s3[a + (1 + k)] = s2[1 + k] /\ s2[1 + k] = s1[1 + k]
    BY <1>8, <2>1
  <2> QED BY <1>8, <2>2
<1>10. s4[a + b + 2] = Quote
  <2>1. /\ b + 2 \in 1 .. b + 2 /\ (1 + b) + 1 = b + 2
        /\ a + b + 2 \in 1 .. a + b + 2 /\ a + b + 2 = a + (b + 2)
    BY <1>6
  <2>2. s4[a + b + 2] = s3[a + (b + 2)] /\ s3[a + (b + 2)] = s2[b + 2]
    BY <1>8, <2>1
  <2> QED BY <1>8, <2>1, <2>2
<1>11. IsDumped(flat, before, after, s4)
  <2>1. Len(s4) = a + b + 2 + c
    BY <1>7
  <2> QED BY <1>9, <1>10, <2>1 DEF IsDumped, a, b, c
<1>12. s2 \in Seq(S) /\ Len(s2) = b + 2 /\ s4 \in Seq(S)
  BY <1>3, <1>5, <1>7 DEF IsConcat
<1> QED BY <1>11, <1>12 DEF s1, s2, s3, s4, q, b

\* A symbol before the rest of a text.
LEMMA SymbolAndRest ==
  ASSUME NEW S, NEW text \in Seq(S), NEW j \in 1 .. Len(text)
  PROVE  <<text[j]>> \o SubSeq(text, j + 1, Len(text)) = SubSeq(text, j, Len(text))
<1> DEFINE n == Len(text)
           rest == SubSeq(text, j + 1, n)
           all == SubSeq(text, j, n)
           one == <<text[j]>>
           put == one \o rest
<1>1. n \in Nat /\ j \in 1 .. n /\ \A i \in 1 .. n : text[i] \in S
  OBVIOUS
<1>2. rest \in Seq(S) /\ Len(rest) = n - j /\ \A i \in 1 .. n - j : rest[i] = text[j + i]
  <2>1. \A i \in j + 1 .. n : text[i] \in S
    BY <1>1
  <2> DEFINE m == j + 1
  <2>2. m \in Nat /\ m >= 1 /\ n - m + 1 = n - j /\ (~(m <= n) => n - j = 0)
        /\ \A i \in Int : m + i - 1 = j + i
    BY <1>1
  <2>4. \A i \in m .. n : text[i] \in S
    BY <2>1
  <2> HIDE DEF m, n
  <2>3. /\ SubSeq(text, m, n) \in Seq(S)
        /\ Len(SubSeq(text, m, n)) = IF m <= n THEN n - m + 1 ELSE 0
        /\ \A i \in 1 .. n - m + 1 : SubSeq(text, m, n)[i] = text[m + i - 1]
    BY <1>1, <2>2, <2>4, SubSeqProperties
  <2> QED BY <1>1, <2>2, <2>3 DEF m
<1>3. all \in Seq(S) /\ Len(all) = n - j + 1 /\ \A i \in 1 .. n - j + 1 : all[i] = text[j + i - 1]
  <2>1. \A i \in j .. n : text[i] \in S
    BY <1>1
  <2> HIDE DEF n
  <2>2. j <= n
    BY <1>1
  <2> QED BY <1>1, <2>1, <2>2, SubSeqProperties
<1>4. one \in Seq(S) /\ Len(one) = 1 /\ one[1] = text[j]
  BY <1>1
<1> HIDE DEF rest, all, one, n
<1>5. IsConcat(S, one, rest, put)
  BY <1>2, <1>4, PlacesOfConcat, Zenon
<1> HIDE DEF put
<1>6. /\ put \in Seq(S) /\ Len(put) = n - j + 1 /\ put[1] = text[j]
      /\ \A i \in 1 .. n - j : put[1 + i] = text[j + i]
  <2>1. /\ put \in Seq(S) /\ Len(put) = 1 + Len(rest)
        /\ \A i \in 1 .. 1 : put[i] = one[i]
        /\ \A i \in 1 .. Len(rest) : put[1 + i] = rest[i]
    BY <1>4, <1>5 DEF IsConcat
  <2>2. 1 + (n - j) = n - j + 1 /\ 1 \in 1 .. 1 /\ Len(rest) = n - j
    BY <1>1, <1>2
  <2>3. put \in Seq(S) /\ Len(put) = n - j + 1 /\ put[1] = text[j]
    BY <1>4, <2>1, <2>2
  <2>4. \A i \in 1 .. n - j : put[1 + i] = text[j + i]
    BY <1>2, <2>1, <2>2
  <2> QED BY <2>3, <2>4
<1>7. ASSUME NEW i \in 1 .. n - j + 1 PROVE put[i] = all[i]
  <2>1. CASE i = 1
    BY <1>1, <1>3, <1>6, <2>1
  <2>2. CASE i # 1
    <3>1. i - 1 \in 1 .. n - j /\ 1 + (i - 1) = i /\ j + (i - 1) = j + i - 1
      BY <1>1, <2>2
    <3> QED BY <1>3, <1>6, <3>1
  <2> QED BY <2>1, <2>2
<1>8. put = all
  BY <1>3, <1>6, <1>7, SeqEqual
<1> QED BY <1>8 DEF put, one, rest, all, n

Escapes(text) == [i \in DOMAIN text |-> Escape(text[i])]

\* What a text with a dumped string in it reads from its first symbol on: the
\* text, unless a control character is in it.
ReadOf(text, next) ==
  IF Control \in Range(text) THEN Refused ELSE Accepted(text, next)

LEMMA StringIsRead ==
  ASSUME NEW Around, NEW before \in Seq(Around), NEW after \in Seq(Around), NEW text \in Text
  PROVE  LET dumped == emit_json_string(text)
         IN  parse_json_string(before \o dumped \o after, Len(before) + 2)
               = ReadOf(text, Len(before) + Len(dumped) + 1)
<1> DEFINE S == Around \cup JsonSymbol
           ss == Escapes(text)
           n == Len(text)
           flat == FlattenSeq(ss)
           dumped == emit_json_string(text)
           file == before \o dumped \o after
           start == Len(before) + 2
           next == Len(before) + Len(dumped) + 1
           rest(j) == SubSeq(text, j + 1, n)
           bad(j) == \E i \in j + 1 .. n : text[i] = Control
           read == ReadLoop(file)
<1>1. n \in Nat /\ text \in Seq(Symbol) /\ \A i \in 1 .. n : text[i] \in Symbol
  BY DEF Text
<1>2. ss \in Seq(Seq(S)) /\ Len(ss) = n /\ \A i \in 1 .. n : ss[i] = Escape(text[i])
  <2>1. \A i \in 1 .. n : Escape(text[i]) \in Seq(JsonSymbol)
    BY <1>1, EscapedSymbol
  <2>2. \A i \in 1 .. n : Escape(text[i]) \in Seq(S)
    BY <2>1
  <2>3. DOMAIN text = 1 .. n
    BY <1>1
  <2> HIDE DEF n, S
  <2> QED BY <1>1, <2>2, <2>3 DEF Escapes
<1>3. Quote \in S /\ before \in Seq(S) /\ after \in Seq(S)
  BY DEF JsonSymbol
<1> HIDE DEF S
<1>4. PICK f : FlatPrefixes(f, ss, S) /\ flat = f[Len(ss)]
  <2> HIDE DEF ss
  <2> QED BY <1>2, FlattenSteps
<1>5. /\ \A j \in 0 .. n : f[j] \in Seq(S)
      /\ f[0] = <<>>
  BY <1>2, <1>4 DEF FlatPrefixes
<1>6. dumped = <<Quote>> \o flat \o <<Quote>>
  BY Zenon DEF emit_json_string, Escapes
<1> HIDE DEF ss, dumped
<1>7. flat = f[n] /\ flat \in Seq(S)
  BY <1>1, <1>2, <1>4, <1>5
<1> HIDE DEF flat
<1>8. dumped \in Seq(S) /\ Len(dumped) = Len(flat) + 2 /\ file \in Seq(S)
      /\ IsDumped(flat, before, after, file)
  BY <1>3, <1>6, <1>7, DumpedPlaces
<1> HIDE DEF file
<1> DEFINE a == Len(before)
           len == Len(flat)
           p(j) == start + Len(f[j])
<1>9. /\ a \in Nat /\ len \in Nat /\ Len(after) \in Nat /\ Len(file) = a + len + 2 + Len(after)
      /\ start = a + 2 /\ next = a + len + 3
      /\ \A k \in 1 .. len : file[a + 1 + k] = flat[k]
      /\ file[a + len + 2] = Quote
  <2>1. a \in Nat /\ len \in Nat /\ Len(after) \in Nat
    BY <1>3, <1>7
  <2>2. Len(dumped) = len + 2 /\ Len(file) = a + len + 2 + Len(after)
        /\ (\A k \in 1 .. len : file[a + 1 + k] = flat[k]) /\ file[a + len + 2] = Quote
    BY <1>8 DEF IsDumped
  <2> HIDE DEF a, len
  <2>3. a + (len + 2) + 1 = a + len + 3
    BY <2>1
  <2> QED BY <2>1, <2>2, <2>3 DEF a
<1> DEFINE Reads(j) == read[p(j)] = IF bad(j) THEN Refused ELSE Accepted(rest(j), next)
           T == {k \in 0 .. n : Reads(n - k)}
<1>10. 0 \in T
  <2>1. n - 0 = n /\ 0 \in 0 .. n /\ ~bad(n)
    BY <1>1
  <2>2. rest(n) = <<>>
    BY <1>1, SubSeqEmpty
  <2>3. p(n) = a + len + 2
    <3>1. p(n) = start + len
      BY <1>7
    <3> HIDE DEF p, start, len
    <3>2. p(n) = a + len + 2
      BY <1>9, <3>1
    <3> QED BY <3>2
  <2>4. read[p(n)] = Accepted(<<>>, next)
    <3> DEFINE at == a + len + 2
    <3>1. at \in 1 .. Len(file) + 2 /\ at \in DOMAIN file /\ at + 1 = next
      BY <1>8, <1>9
    <3>2. SymbolAt(file, at) = Quote
      BY <1>9, <3>1 DEF SymbolAt
    <3> HIDE DEF at, read, next
    <3>3. ReadAt(file, read, at) = Accepted(<<>>, at + 1)
      BY <3>2, ReadCases
    <3>4. read[at] = ReadAt(file, read, at)
      BY <1>8, <3>1, ReadEquation DEF read
    <3>5. read[at] = Accepted(<<>>, next)
      BY <3>1, <3>3, <3>4
    <3> QED BY <2>3, <3>5 DEF at
  <2> HIDE DEF rest, bad, p, read, next
  <2> QED BY <2>1, <2>2, <2>4
<1>11. ASSUME NEW k \in 1 .. n, k - 1 \in T PROVE k \in T
  <2> DEFINE j == n - k
             c == text[j + 1]
             at == p(j)
             w == Len(Escape(c))
  <2>1. j \in 0 .. n /\ j + 1 \in 1 .. n /\ n - (k - 1) = j + 1 /\ (j + 1) - 1 = j
    BY <1>1
  <2>2. Reads(j + 1)
    BY <1>11, <2>1
  <2> HIDE DEF j
  <2>3. c \in Symbol /\ w \in {1, 2}
    BY <1>1, <2>1, EscapedSymbol
  <2>4. /\ Len(f[j]) \in Nat /\ Len(f[j + 1]) <= len /\ Len(f[j + 1]) = Len(f[j]) + w
        /\ \A i \in 1 .. w : flat[Len(f[j]) + i] = Escape(c)[i]
    <3>1. j + 1 \in 1 .. Len(ss)
      BY <1>2, <2>1
    <3>2. PartIsAt(f, ss, flat, j + 1)
      BY <1>2, <1>4, <3>1, PlacesOfParts
    <3>3. ss[j + 1] = Escape(c)
      BY <1>2, <2>1
    <3> QED BY <2>1, <3>2, <3>3 DEF PartIsAt
  <2> DEFINE b == Len(f[j])
             d == Len(f[j + 1])
  <2>5. /\ at \in 1 .. Len(file) /\ at + w <= Len(file) /\ at + w = p(j + 1)
        /\ \A i \in 1 .. w : file[at + i - 1] = Escape(c)[i]
    <3>1. /\ b \in Nat /\ d <= len /\ d = b + w /\ at = start + b /\ p(j + 1) = start + d
          /\ \A i \in 1 .. w : flat[b + i] = Escape(c)[i]
      BY <2>4
    <3> HIDE DEF b, d, w, c, at, start, p, a, len
    <3>2. at \in 1 .. Len(file) /\ at + w <= Len(file) /\ at + w = p(j + 1)
      <4>1. /\ a \in Nat /\ len \in Nat /\ Len(after) \in Nat /\ start = a + 2
            /\ Len(file) = a + len + 2 + Len(after)
            /\ b \in Nat /\ d <= len /\ d = b + w /\ at = start + b /\ p(j + 1) = start + d
        BY <1>9, <3>1
      <4> DEFINE end == Len(file)
                 more == Len(after)
      <4> HIDE DEF end, more
      <4>2. at \in 1 .. end /\ at + w <= end /\ at + w = p(j + 1)
        BY <2>3, <4>1 DEF end, more
      <4> QED BY <4>2 DEF end
    <3>3. \A i \in 1 .. w : at + i - 1 = a + 1 + (b + i) /\ b + i \in 1 .. len
      <4>1. a \in Nat /\ len \in Nat /\ start = a + 2 /\ at = start + b /\ b \in Nat
            /\ b + w <= len /\ w \in {1, 2}
        BY <1>9, <2>3, <3>1
      <4> QED BY <4>1
    <3>4. \A i \in 1 .. w : file[at + i - 1] = Escape(c)[i]
      <4>1. /\ \A k1 \in 1 .. len : file[a + 1 + k1] = flat[k1]
            /\ \A i \in 1 .. w : flat[b + i] = Escape(c)[i]
        BY <1>9, <3>1, Zenon
      <4> QED BY <3>3, <4>1
    <3> QED BY <3>2, <3>4
  <2>6. read[at] = IF c = Control THEN Refused ELSE Prepended(c, read[p(j + 1)])
    <3> HIDE DEF c, at, p
    <3>1. read[at] = IF c = Control THEN Refused ELSE Prepended(c, read[at + w])
      BY <1>8, <2>3, <2>5, EscapeIsRead DEF w
    <3> QED BY <2>5, <3>1
  <2>7. bad(j) <=> c = Control \/ bad(j + 1)
    <3>1. \A i \in j + 1 .. n : i = j + 1 \/ i \in (j + 1) + 1 .. n
      BY <2>1
    <3>2. \A i \in (j + 1) + 1 .. n : i \in j + 1 .. n
      BY <2>1
    <3>3. j + 1 \in j + 1 .. n
      BY <1>1, <2>1
    <3> QED BY <3>1, <3>2, <3>3
  <2>8. <<c>> \o rest(j + 1) = rest(j)
    <3> DEFINE i == j + 1
    <3>1. i \in 1 .. Len(text)
      BY <2>1
    <3> HIDE DEF i
    <3>2. <<text[i]>> \o SubSeq(text, i + 1, Len(text)) = SubSeq(text, i, Len(text))
      BY <1>1, <3>1, SymbolAndRest
    <3> QED BY <3>2 DEF i
  <2>9. Reads(j)
    <3> HIDE DEF c, at, p, bad, rest, read, next
    <3>1. CASE c = Control \/ bad(j + 1)
      <4>1. read[p(j + 1)] = Refused \/ c = Control
        BY <2>2, <3>1
      <4>2. ~Refused.ok
        BY DEF Refused
      <4>3. Prepended(c, Refused) = Refused
        BY <4>2 DEF Prepended
      <4> QED BY <2>6, <2>7, <3>1, <4>1, <4>3 DEF at
    <3>2. CASE ~(c = Control \/ bad(j + 1))
      <4>1. read[p(j + 1)] = Accepted(rest(j + 1), next)
        BY <2>2, <3>2
      <4>2. Prepended(c, Accepted(rest(j + 1), next)) = Accepted(<<c>> \o rest(j + 1), next)
        BY DEF Prepended, Accepted
      <4> QED BY <2>6, <2>7, <2>8, <3>2, <4>1, <4>2 DEF at
    <3> QED BY <3>1, <3>2
  <2>10. k \in 0 .. n
    BY <1>1
  <2> HIDE DEF Reads
  <2> QED BY <2>9, <2>10 DEF j
<1> HIDE DEF T
<1>12. 0 .. n \subseteq T
  BY <1>1, <1>10, <1>11, BoundedInduction
<1>13. Reads(0)
  <2>1. n \in T /\ n - n = 0
    BY <1>1, <1>12
  <2> QED BY <2>1 DEF T
<1>14. p(0) = start
  BY <1>5, <1>9
<1>15. rest(0) = text
  <2>1. SubSeq(text, 1, n) = text
    BY <1>1, SubSeqFull
  <2> QED BY <2>1
<1>16. bad(0) <=> Control \in Range(text)
  BY <1>1 DEF Range
<1>17. read[start] = ReadOf(text, next)
  <2> HIDE DEF bad, rest, p, read, start, next
  <2> QED BY <1>13, <1>14, <1>15, <1>16 DEF ReadOf
<1>18. parse_json_string(file, start) = read[start]
  BY ReadResult
<1>19. parse_json_string(file, start) = ReadOf(text, next)
  BY <1>17, <1>18
<1> QED BY <1>19 DEF file, dumped

\* A string dumped by emit_json_string is read back by parse_string whatever is
\* in the file before and after it, and the reading ends behind its quote: no
\* symbol of the text is taken for the end of it or for an escape.
THEOREM JsonStringsComeBack ==
  ASSUME NEW Around, NEW before \in Seq(Around), NEW after \in Seq(Around), NEW text \in Text,
         Control \notin Range(text)
  PROVE  LET dumped == emit_json_string(text)
         IN  parse_json_string(before \o dumped \o after, Len(before) + 2)
               = Accepted(text, Len(before) + Len(dumped) + 1)
BY StringIsRead DEF ReadOf

\* But emit_json_string leaves the control characters it has no escape for as they
\* are, and parse_string refuses them: such a document is dumped and not read.
THEOREM ControlsAreRefused ==
  ASSUME NEW Around, NEW before \in Seq(Around), NEW after \in Seq(Around), NEW text \in Text,
         Control \in Range(text)
  PROVE  parse_json_string(before \o emit_json_string(text) \o after, Len(before) + 2) = Refused
BY StringIsRead DEF ReadOf
=============================================================================
