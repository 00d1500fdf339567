-------------------------- MODULE EntryPathProofs --------------------------
(* Proofs about the normalization of entry paths, for any set of names.    *)
EXTENDS EntryPath, FiniteRecursion, SequenceTheorems

\* The components a raw path may have.
Components(N) == N \cup Skipped \cup {Up}

\* An iteration keeps a sequence of names.
LEMMA KeepPartType ==
  ASSUME NEW N, NEW parts \in Seq(N), NEW c \in Components(N)
  PROVE  KeepPart(parts, c) \in Seq(N)
<1>1. CASE c \in Skipped
  BY <1>1 DEF KeepPart
<1>2. CASE c \notin Skipped /\ c # Up
  BY <1>2 DEF KeepPart, Components
<1>3. CASE c \notin Skipped /\ c = Up
  BY <1>3 DEF KeepPart
<1> QED BY <1>1, <1>2, <1>3

\* The loop over the components of raw.
Loop(raw) ==
  CHOOSE f : f = [i \in 0..Len(raw) |->
                    IF i = 0 THEN <<>> ELSE KeepPart(f[i - 1], raw[i])]

LEMMA LoopResult == \A raw : normalize_relative_path(raw) = Loop(raw)[Len(raw)]
BY DEF normalize_relative_path, Loop

LEMMA LoopEquation ==
  ASSUME NEW N, NEW raw \in Seq(Components(N))
  PROVE  Loop(raw) = [i \in 0..Len(raw) |->
           IF i = 0 THEN <<>> ELSE KeepPart(Loop(raw)[i - 1], raw[i])]
<1> DEFINE n == Len(raw)
           S == Seq(N)
           g == [i \in 1..n |-> [p \in S |-> KeepPart(p, raw[i])]]
           Eq(f) == f = [i \in 0..n |->
                           IF i = 0 THEN <<>> ELSE KeepPart(f[i - 1], raw[i])]
<1>1. n \in Nat /\ <<>> \in S
  OBVIOUS
<1>2. \A i \in 1..n : \A p \in S : KeepPart(p, raw[i]) \in S
  BY KeepPartType
<1>3. g \in [1..n -> [S -> S]]
  BY <1>2
<1>4. PICK f \in [0..n -> S] : Solves(f, <<>>, g, n)
  <2> HIDE DEF g, n, S
  <2> QED BY <1>1, <1>3, LoopExists
<1>5. Eq(f)
  <2>1. ASSUME NEW i \in 1..n PROVE g[i][f[i - 1]] = KeepPart(f[i - 1], raw[i])
    <3>1. f[i - 1] \in S
      BY <1>1, <1>4
    <3> QED BY <3>1
  <2> DEFINE A(i) == IF i = 0 THEN <<>> ELSE g[i][f[i - 1]]
             B(i) == IF i = 0 THEN <<>> ELSE KeepPart(f[i - 1], raw[i])
  <2>2. \A i \in 0..n : A(i) = B(i)
    <3> HIDE DEF g
    <3> QED BY <1>1, <2>1
  <2>3. f = [i \in 0..n |-> A(i)]
    <3> HIDE DEF g
    <3> QED BY <1>4 DEF Solves
  <2>4. f = [i \in 0..n |-> B(i)]
    <3> HIDE DEF A, B
    <3> QED BY <2>2, <2>3
  <2> QED BY <2>4
<1>6. Loop(raw) = CHOOSE h : Eq(h)
  BY DEF Loop
<1> HIDE DEF Eq
<1>7. Eq(Loop(raw))
  BY <1>5, <1>6
<1> QED BY <1>7 DEF Eq

\* One iteration after the other.
LEMMA LoopSteps ==
  ASSUME NEW N, NEW raw \in Seq(Components(N))
  PROVE  /\ Loop(raw)[0] = <<>>
         /\ \A i \in 1..Len(raw) :
              Loop(raw)[i] = KeepPart(Loop(raw)[i - 1], raw[i])
<1> DEFINE Body(i) == IF i = 0 THEN <<>> ELSE KeepPart(Loop(raw)[i - 1], raw[i])
<1>1. Loop(raw) = [i \in 0..Len(raw) |-> Body(i)]
  BY LoopEquation
<1>2. \A i \in 0..Len(raw) : Loop(raw)[i] = Body(i)
  <2> HIDE DEF Body
  <2> QED BY <1>1
<1>3. Len(raw) \in Nat
  OBVIOUS
<1> QED BY <1>2, <1>3

\* After every iteration the kept components are names.
LEMMA LoopType ==
  ASSUME NEW N, NEW raw \in Seq(Components(N))
  PROVE  \A i \in 0..Len(raw) : Loop(raw)[i] \in Seq(N)
<1> DEFINE T == {i \in 0..Len(raw) : Loop(raw)[i] \in Seq(N)}
<1>1. 0 \in T
  <2>1. Loop(raw)[0] \in Seq(N)
    <3>1. Loop(raw)[0] = <<>>
      BY LoopSteps
    <3> QED BY <3>1
  <2>2. 0 \in 0..Len(raw)
    OBVIOUS
  <2> QED BY <2>1, <2>2
<1>2. ASSUME NEW i \in 1..Len(raw), i - 1 \in T PROVE i \in T
  <2>1. Loop(raw)[i] = KeepPart(Loop(raw)[i - 1], raw[i])
    BY LoopSteps
  <2>2. raw[i] \in Components(N) /\ Loop(raw)[i - 1] \in Seq(N)
    BY <1>2
  <2>3. Loop(raw)[i] \in Seq(N)
    BY <2>1, <2>2, KeepPartType
  <2> QED BY <2>3
<1> HIDE DEF T
<1>3. Len(raw) \in Nat
  OBVIOUS
<1>4. 0..Len(raw) \subseteq T
  BY <1>1, <1>2, <1>3, BoundedInduction
<1> QED BY <1>4 DEF T

\* normalize_relative_path leaves names only: no empty, "." or ".." component
\* of the input, wherever it stands, survives in an archive.
THEOREM NormalPathIsNames ==
  ASSUME NEW N, NEW raw \in Seq(Components(N))
  PROVE  normalize_relative_path(raw) \in Seq(N)
<1>1. Len(raw) \in 0..Len(raw)
  OBVIOUS
<1> QED BY <1>1, LoopResult, LoopType

\* Names at the front of a raw path are kept as they are.
LEMMA NamesAreKept ==
  ASSUME NEW N, N \cap (Skipped \cup {Up}) = {}, NEW path \in Seq(N),
         NEW text \in Seq(Components(N)), Len(path) <= Len(text),
         \A i \in 1..Len(path) : text[i] = path[i]
  PROVE  Loop(text)[Len(path)] = path
<1> DEFINE T == {i \in 0..Len(path) : Loop(text)[i] = SubSeq(path, 1, i)}
<1>1. Len(path) \in Nat /\ Len(text) \in Nat
  OBVIOUS
<1>2. 0 \in T
  <2>1. Loop(text)[0] = <<>>
    BY LoopSteps
  <2>2. SubSeq(path, 1, 0) = <<>>
    BY SubSeqEmpty
  <2>3. 0 \in 0..Len(path)
    BY <1>1
  <2> QED BY <2>1, <2>2, <2>3
<1>3. ASSUME NEW i \in 1..Len(path), i - 1 \in T PROVE i \in T
  <2>1. Loop(text)[i] = KeepPart(Loop(text)[i - 1], path[i])
    BY <1>1, LoopSteps
  <2>2. path[i] \in N
    OBVIOUS
  <2>3. KeepPart(Loop(text)[i - 1], path[i]) = Append(Loop(text)[i - 1], path[i])
    BY <2>2 DEF KeepPart
  <2>4. Append(SubSeq(path, 1, i - 1), path[i]) = SubSeq(path, 1, i)
    OBVIOUS
  <2>5. Loop(text)[i - 1] = SubSeq(path, 1, i - 1)
    BY <1>3
  <2>6. Loop(text)[i] = SubSeq(path, 1, i)
    BY <2>1, <2>3, <2>4, <2>5
  <2>7. i \in 0..Len(path)
    BY <1>1
  <2> QED BY <2>6, <2>7
<1> HIDE DEF T
<1>4. 0..Len(path) \subseteq T
  BY <1>1, <1>2, <1>3, BoundedInduction
<1>5. Loop(text)[Len(path)] = SubSeq(path, 1, Len(path))
  BY <1>1, <1>4 DEF T
<1>6. SubSeq(path, 1, Len(path)) = path
  OBVIOUS
<1> QED BY <1>5, <1>6

\* Normalizing a normal path, with the trailing slash of a directory or without,
\* changes nothing: the paths an archive records are found again by the
\* lookups, which normalize what they are asked for.
THEOREM NormalPathIsStable ==
  ASSUME NEW N, N \cap (Skipped \cup {Up}) = {}, NEW path \in Seq(N)
  PROVE  /\ normalize_relative_path(path) = path
         /\ normalize_relative_path(Append(path, "")) = path
<1>1. "" \in Skipped /\ "" \in Components(N) /\ N \subseteq Components(N)
  BY DEF Components, Skipped
<1>2. path \in Seq(Components(N))
  BY <1>1, SeqMonotonic
<1>3. normalize_relative_path(path) = path
  <2>1. Len(path) <= Len(path)
    BY LenProperties
  <2>2. Loop(path)[Len(path)] = path
    BY <1>2, <2>1, NamesAreKept
  <2> QED BY <2>2, LoopResult
<1>4. ASSUME NEW slash \in Skipped, slash \in Components(N)
      PROVE  normalize_relative_path(Append(path, slash)) = path
  <2> DEFINE text == Append(path, slash)
  <2>1. /\ text \in Seq(Components(N))
        /\ Len(text) = Len(path) + 1
        /\ text[Len(path) + 1] = slash
        /\ \A i \in 1..Len(path) : text[i] = path[i]
    BY <1>2, <1>4, AppendProperties
  <2> HIDE DEF text
  <2>2. Loop(text)[Len(path)] = path
    BY <2>1, NamesAreKept
  <2>3. Len(text) \in 1..Len(text) /\ Len(text) - 1 = Len(path)
    BY <2>1
  <2>4. Loop(text)[Len(text)] = KeepPart(Loop(text)[Len(text) - 1], text[Len(text)])
    BY <2>1, <2>3, LoopSteps
  <2>5. KeepPart(path, slash) = path
    BY <1>4 DEF KeepPart
  <2>6. Loop(text)[Len(text)] = path
    BY <2>1, <2>2, <2>3, <2>4, <2>5
  <2> QED BY <2>6, LoopResult DEF text
<1> QED BY <1>1, <1>3, <1>4

=============================================================================
