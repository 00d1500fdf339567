---------------------------- MODULE ZipperProofs ----------------------------
(***************************************************************************)
(* What holds of Zipper for any number of zippers, entries, names, files   *)
(* and directories: its types, distinct paths, the seal, what a build      *)
(* writes and holds, and that it implements ArchiveMap.                    *)
(*                                                                         *)
(* The first part is about the operations on a zipper's entry list: each   *)
(* of them keeps a list of entries without two of one path such a list,    *)
(* and does to its map from paths to entries what its name says.           *)
(***************************************************************************)
EXTENDS Zipper, EntryPathProofs, FiniteSetTheorems

\* Lists of entries from E, no two of one path.
Lists(E) == {s \in Seq(E) : UniquePaths(s)}

\* FirstAt finds an entry of that path when there is one.
LEMMA FirstAtFinds ==
  ASSUME NEW E, NEW s \in Lists(E), NEW path, HasPath(s, path)
  PROVE  /\ FirstAt(s, path) \in DOMAIN s
         /\ s[FirstAt(s, path)].path = path
<1>1. s \in Seq(E) /\ DOMAIN s = 1..Len(s) /\ Len(s) \in Nat
  BY DEF Lists
<1>2. PICK i \in DOMAIN s : s[i].path = path
  BY DEF HasPath
<1>3. \A j \in 1..(i - 1) : s[j].path # path
  <2> SUFFICES ASSUME NEW j \in 1..(i - 1), s[j].path = path PROVE FALSE
    OBVIOUS
  <2>1. j \in DOMAIN s /\ j # i
    BY <1>1
  <2> QED BY <1>2, <2>1 DEF Lists, UniquePaths
<1> DEFINE First(k) == s[k].path = path /\ \A j \in 1..(k - 1) : s[j].path # path
<1>4. First(i)
  BY <1>2, <1>3
<1>5. FirstAt(s, path) = CHOOSE k \in DOMAIN s : First(k)
  BY DEF FirstAt
<1> HIDE DEF First
<1>6. FirstAt(s, path) \in DOMAIN s /\ First(FirstAt(s, path))
  BY <1>4, <1>5
<1> QED BY <1>6 DEF First

\* upsert_entry replaces the entry of that path or adds one: either way there
\* is exactly one afterwards.
LEMMA UpsertKeepsLists ==
  ASSUME NEW E, NEW s \in Lists(E), NEW e \in E
  PROVE  upsert_entry(s, e) \in Lists(E)
<1>1. s \in Seq(E) /\ DOMAIN s = 1..Len(s) /\ Len(s) \in Nat
  BY DEF Lists
<1>2. CASE HasPath(s, e.path)
  <2> DEFINE k == FirstAt(s, e.path)
             t == [s EXCEPT ![k] = e]
  <2>1. k \in DOMAIN s /\ s[k].path = e.path
    BY <1>2, FirstAtFinds
  <2>2. upsert_entry(s, e) = t
    BY <1>2 DEF upsert_entry
  <2> HIDE DEF k
  <2>3. t \in Seq(E) /\ DOMAIN t = DOMAIN s
    BY <1>1, <2>1
  <2>4. \A i \in DOMAIN s : t[i].path = s[i].path
    BY <1>1, <2>1
  <2> HIDE DEF t
  <2>5. UniquePaths(t)
    BY <2>3, <2>4 DEF Lists, UniquePaths
  <2> QED BY <2>2, <2>3, <2>5 DEF Lists
<1>3. CASE ~HasPath(s, e.path)
  <2> DEFINE t == Append(s, e)
  <2>1. upsert_entry(s, e) = t
    BY <1>3 DEF upsert_entry
  <2>2. /\ t \in Seq(E) /\ DOMAIN t = 1..(Len(s) + 1)
        /\ t[Len(s) + 1] = e
        /\ \A i \in DOMAIN s : t[i] = s[i]
    BY <1>1
  <2> HIDE DEF t
  <2>3. \A i \in DOMAIN s : s[i].path # e.path
    BY <1>3 DEF HasPath
  <2>4. UniquePaths(t)
    <3> SUFFICES ASSUME NEW i \in DOMAIN t, NEW j \in DOMAIN t,
                        t[i].path = t[j].path
                 PROVE  i = j
      BY DEF UniquePaths
    <3>1. i \in DOMAIN s \/ i = Len(s) + 1
      BY <1>1, <2>2
    <3>2. j \in DOMAIN s \/ j = Len(s) + 1
      BY <1>1, <2>2
    <3>3. CASE i \in DOMAIN s /\ j \in DOMAIN s
      BY <2>2, <3>3 DEF Lists, UniquePaths
    <3>4. CASE ~(i \in DOMAIN s /\ j \in DOMAIN s)
      BY <2>2, <2>3, <3>1, <3>2, <3>4
    <3> QED BY <3>3, <3>4
  <2> QED BY <2>1, <2>2, <2>4 DEF Lists
<1> QED BY <1>2, <1>3

\* What upsert_entry was given is there afterwards, and no other path is lost
\* or added.
LEMMA UpsertHolds ==
  ASSUME NEW E, NEW s \in Lists(E), NEW e \in E
  PROVE  /\ PathsOf(upsert_entry(s, e)) = PathsOf(s) \cup {e.path}
         /\ \E i \in DOMAIN upsert_entry(s, e) : upsert_entry(s, e)[i] = e
<1>1. s \in Seq(E) /\ DOMAIN s = 1..Len(s) /\ Len(s) \in Nat
  BY DEF Lists
<1>2. CASE HasPath(s, e.path)
  <2> DEFINE k == FirstAt(s, e.path)
             t == [s EXCEPT ![k] = e]
  <2>1. k \in DOMAIN s /\ s[k].path = e.path
    BY <1>2, FirstAtFinds
  <2>2. upsert_entry(s, e) = t
    BY <1>2 DEF upsert_entry
  <2> HIDE DEF k
  <2>3. /\ DOMAIN t = DOMAIN s /\ t[k] = e
        /\ \A i \in DOMAIN s : t[i].path = s[i].path
    BY <1>1, <2>1
  <2> HIDE DEF t
  <2>4. PathsOf(t) = PathsOf(s) /\ e.path \in PathsOf(s)
    BY <2>1, <2>3 DEF PathsOf
  <2> QED BY <2>1, <2>2, <2>3, <2>4
<1>3. CASE ~HasPath(s, e.path)
  <2> DEFINE t == Append(s, e)
  <2>1. upsert_entry(s, e) = t
    BY <1>3 DEF upsert_entry
  <2>2. /\ DOMAIN t = DOMAIN s \cup {Len(s) + 1}
        /\ t[Len(s) + 1] = e
        /\ \A i \in DOMAIN s : t[i] = s[i]
    BY <1>1
  <2> HIDE DEF t
  <2>3. PathsOf(t) = PathsOf(s) \cup {e.path}
    BY <2>2 DEF PathsOf
  <2> QED BY <2>1, <2>2, <2>3
<1> QED BY <1>2, <1>3

\* The loop of UpsertAll.
UpsertLoop(s, new) ==
  CHOOSE f : f = [i \in 0..Len(new) |->
                    IF i = 0 THEN s ELSE upsert_entry(f[i - 1], new[i])]

LEMMA UpsertLoopEquation ==
  ASSUME NEW E, NEW s \in Lists(E), NEW new \in Seq(E)
  PROVE  UpsertLoop(s, new) = [i \in 0..Len(new) |->
           IF i = 0 THEN s ELSE upsert_entry(UpsertLoop(s, new)[i - 1], new[i])]
<1> DEFINE n == Len(new)
           S == Lists(E)
           g == [i \in 1..n |-> [t \in S |-> upsert_entry(t, new[i])]]
           Eq(f) == f = [i \in 0..n |->
                           IF i = 0 THEN s ELSE upsert_entry(f[i - 1], new[i])]
<1>1. n \in Nat /\ s \in S
  OBVIOUS
<1>2. \A i \in 1..n : new[i] \in E
  OBVIOUS
<1>3. \A i \in 1..n : \A t \in S : upsert_entry(t, new[i]) \in S
  BY <1>2, UpsertKeepsLists
<1>4. g \in [1..n -> [S -> S]]
  <2> HIDE DEF S
  <2> QED BY <1>3
<1>5. PICK f \in [0..n -> S] : Solves(f, s, g, n)
  <2> HIDE DEF g, n, S
  <2> QED BY <1>1, <1>4, LoopExists
<1>6. Eq(f)
  <2>1. ASSUME NEW i \in 1..n PROVE g[i][f[i - 1]] = upsert_entry(f[i - 1], new[i])
    <3>1. f[i - 1] \in S
      BY <1>1, <1>5
    <3> HIDE DEF S
    <3> QED BY <3>1
  <2> DEFINE A(i) == IF i = 0 THEN s ELSE g[i][f[i - 1]]
             B(i) == IF i = 0 THEN s ELSE upsert_entry(f[i - 1], new[i])
  <2>2. \A i \in 0..n : A(i) = B(i)
    <3> HIDE DEF g
    <3> QED BY <1>1, <2>1
  <2>3. f = [i \in 0..n |-> A(i)]
    <3> HIDE DEF g
    <3> QED BY <1>5 DEF Solves
  <2>4. f = [i \in 0..n |-> B(i)]
    <3> HIDE DEF A, B
    <3> QED BY <2>2, <2>3
  <2> QED BY <2>4
<1>7. UpsertLoop(s, new) = CHOOSE h : Eq(h)
  BY DEF UpsertLoop
<1> HIDE DEF Eq
<1>8. Eq(UpsertLoop(s, new))
  BY <1>6, <1>7
<1> QED BY <1>8 DEF Eq

\* Adding a directory tree, entry by entry.
LEMMA UpsertAllKeepsLists ==
  ASSUME NEW E, NEW s \in Lists(E), NEW new \in Seq(E)
  PROVE  UpsertAll(s, new) \in Lists(E)
<1> DEFINE f == UpsertLoop(s, new)
           n == Len(new)
           Body(i) == IF i = 0 THEN s ELSE upsert_entry(f[i - 1], new[i])
           T == {i \in 0..n : f[i] \in Lists(E)}
<1>1. n \in Nat /\ \A i \in 1..n : new[i] \in E
  OBVIOUS
<1>2. f = [i \in 0..n |-> Body(i)]
  BY UpsertLoopEquation
<1>3. UpsertAll(s, new) = f[n]
  BY DEF UpsertAll, UpsertLoop
<1> HIDE DEF f, n
<1>4. \A i \in 0..n : f[i] = Body(i)
  <2> HIDE DEF Body
  <2> QED BY <1>2
<1>5. 0 \in T
  <2>1. 0 \in 0..n
    BY <1>1
  <2> QED BY <1>4, <2>1
<1>6. ASSUME NEW i \in 1..n, i - 1 \in T PROVE i \in T
  <2>1. i \in 0..n /\ i # 0
    BY <1>1
  <2>2. f[i] = upsert_entry(f[i - 1], new[i])
    BY <1>4, <2>1
  <2>3. f[i] \in Lists(E)
    BY <1>1, <1>6, <2>2, UpsertKeepsLists
  <2> QED BY <2>1, <2>3
<1> HIDE DEF T
<1>7. 0..n \subseteq T
  BY <1>1, <1>5, <1>6, BoundedInduction
<1>8. n \in T
  BY <1>1, <1>7
<1> QED BY <1>3, <1>8 DEF T

\* The loop of erase_exact and one iteration of it.
EraseStep(t, e, path) == IF e.path = path THEN t ELSE Append(t, e)

EraseLoop(s, path) ==
  CHOOSE f : f = [i \in 0..Len(s) |->
                    IF i = 0 THEN <<>> ELSE EraseStep(f[i - 1], s[i], path)]

LEMMA EraseIsLoop ==
  \A s, path : erase_exact(s, path) = EraseLoop(s, path)[Len(s)]
<1> SUFFICES ASSUME NEW s, NEW path
             PROVE  erase_exact(s, path) = EraseLoop(s, path)[Len(s)]
  OBVIOUS
<1> DEFINE Three(f) ==
      [i \in 0..Len(s) |->
         IF i = 0 THEN <<>>
         ELSE IF s[i].path = path THEN f[i - 1] ELSE Append(f[i - 1], s[i])]
<1>1. erase_exact(s, path) = (CHOOSE f : f = Three(f))[Len(s)]
  BY DEF erase_exact
<1>2. EraseLoop(s, path) = CHOOSE f : f = Three(f)
  BY DEF EraseLoop, EraseStep
<1> QED BY <1>1, <1>2

LEMMA EraseLoopEquation ==
  ASSUME NEW E, NEW s \in Seq(E), NEW path
  PROVE  EraseLoop(s, path) = [i \in 0..Len(s) |->
           IF i = 0 THEN <<>> ELSE EraseStep(EraseLoop(s, path)[i - 1], s[i], path)]
<1> DEFINE n == Len(s)
           S == Seq(E)
           g == [i \in 1..n |-> [t \in S |-> EraseStep(t, s[i], path)]]
           Eq(f) == f = [i \in 0..n |->
                           IF i = 0 THEN <<>> ELSE EraseStep(f[i - 1], s[i], path)]
<1>1. n \in Nat /\ <<>> \in S
  OBVIOUS
<1>2. \A i \in 1..n : \A t \in S : EraseStep(t, s[i], path) \in S
  BY DEF EraseStep
<1>3. g \in [1..n -> [S -> S]]
  <2> HIDE DEF S
  <2> QED BY <1>2
<1>4. PICK f \in [0..n -> S] : Solves(f, <<>>, g, n)
  <2> HIDE DEF g, n, S
  <2> QED BY <1>1, <1>3, LoopExists
<1>5. Eq(f)
  <2>1. ASSUME NEW i \in 1..n PROVE g[i][f[i - 1]] = EraseStep(f[i - 1], s[i], path)
    <3>1. f[i - 1] \in S
      BY <1>1, <1>4
    <3> HIDE DEF S
    <3> QED BY <3>1
  <2> DEFINE A(i) == IF i = 0 THEN <<>> ELSE g[i][f[i - 1]]
             B(i) == IF i = 0 THEN <<>> ELSE EraseStep(f[i - 1], s[i], path)
  <2>2. \A i \in 0..n : A(i) = B(i)
    <3> HIDE DEF g
    <3> QED BY <1>1, <2>1
  <2>3. f = [i \in 0..n |-> A(i)]
    <3> HIDE DEF g
    <3> QED BY <1>4 DEF Solves
  <2>4. f = [i \in 0..n |-> B(i)]
    <3> HIDE DEF A, B
    <3> QED BY <2>2, <2>3
  <2> QED BY <2>4
<1>6. EraseLoop(s, path) = CHOOSE h : Eq(h)
  BY DEF EraseLoop
<1> HIDE DEF Eq
<1>7. Eq(EraseLoop(s, path))
  BY <1>5, <1>6
<1> QED BY <1>7 DEF Eq

\* An iteration over a list keeps a list: an entry that is kept has a path no
\* entry before it has.
LEMMA EraseStepKeepsLists ==
  ASSUME NEW E, NEW s \in Lists(E), NEW i \in DOMAIN s, NEW path,
         NEW t \in Lists(E), PathsOf(t) \subseteq {s[j].path : j \in 1..(i - 1)}
  PROVE  /\ EraseStep(t, s[i], path) \in Lists(E)
         /\ PathsOf(EraseStep(t, s[i], path)) \subseteq {s[j].path : j \in 1..i}
<1>1. /\ s \in Seq(E) /\ DOMAIN s = 1..Len(s) /\ Len(s) \in Nat
      /\ t \in Seq(E) /\ DOMAIN t = 1..Len(t) /\ Len(t) \in Nat
      /\ s[i] \in E /\ i \in Nat
  BY DEF Lists
<1>2. {s[j].path : j \in 1..(i - 1)} \subseteq {s[j].path : j \in 1..i}
  BY <1>1
<1>3. CASE s[i].path = path
  BY <1>2, <1>3 DEF EraseStep
<1>4. CASE s[i].path # path
  <2> DEFINE u == Append(t, s[i])
  <2>1. EraseStep(t, s[i], path) = u
    BY <1>4 DEF EraseStep
  <2>2. /\ u \in Seq(E) /\ DOMAIN u = 1..(Len(t) + 1)
        /\ u[Len(t) + 1] = s[i]
        /\ \A k \in DOMAIN t : u[k] = t[k]
    BY <1>1
  <2> HIDE DEF u
  <2>3. \A j \in 1..(i - 1) : s[j].path # s[i].path
    <3> SUFFICES ASSUME NEW j \in 1..(i - 1), s[j].path = s[i].path PROVE FALSE
      OBVIOUS
    <3>1. j \in DOMAIN s /\ j # i
      BY <1>1
    <3> QED BY <3>1 DEF Lists, UniquePaths
  <2>4. \A k \in DOMAIN t : \E j \in 1..(i - 1) : t[k].path = s[j].path
    BY DEF PathsOf
  <2>5. \A k \in DOMAIN t : t[k].path # s[i].path
    BY <2>3, <2>4
  <2>6. \A k \in DOMAIN u : k \in DOMAIN t \/ k = Len(t) + 1
    BY <1>1, <2>2
  <2>7. UniquePaths(u)
    <3> SUFFICES ASSUME NEW k \in DOMAIN u, NEW l \in DOMAIN u,
                        u[k].path = u[l].path
                 PROVE  k = l
      BY DEF UniquePaths
    <3>1. CASE k \in DOMAIN t /\ l \in DOMAIN t
      BY <2>2, <3>1 DEF Lists, UniquePaths
    <3>2. CASE ~(k \in DOMAIN t /\ l \in DOMAIN t)
      BY <2>2, <2>5, <2>6, <3>2
    <3> QED BY <3>1, <3>2
  <2>8. \A k \in DOMAIN u : \E j \in 1..i : u[k].path = s[j].path
    <3> SUFFICES ASSUME NEW k \in DOMAIN u PROVE \E j \in 1..i : u[k].path = s[j].path
      OBVIOUS
    <3>1. CASE k \in DOMAIN t
      <4>1. PICK j \in 1..(i - 1) : t[k].path = s[j].path
        BY <2>4, <3>1
      <4>2. j \in 1..i
        BY <1>1
      <4> QED BY <2>2, <3>1, <4>1, <4>2
    <3>2. CASE k = Len(t) + 1
      <4>1. i \in 1..i
        BY <1>1
      <4> QED BY <2>2, <3>2, <4>1
    <3> QED BY <2>6, <3>1, <3>2
  <2>9. PathsOf(u) \subseteq {s[j].path : j \in 1..i}
    BY <2>8 DEF PathsOf
  <2> QED BY <2>1, <2>2, <2>7, <2>9 DEF Lists
<1> QED BY <1>3, <1>4

\* Removing a path from a list leaves a list.
LEMMA EraseKeepsLists ==
  ASSUME NEW E, NEW s \in Lists(E), NEW path
  PROVE  erase_exact(s, path) \in Lists(E)
<1> DEFINE f == EraseLoop(s, path)
           n == Len(s)
           Body(i) == IF i = 0 THEN <<>> ELSE EraseStep(f[i - 1], s[i], path)
           T == {i \in 0..n : /\ f[i] \in Lists(E)
                              /\ PathsOf(f[i]) \subseteq {s[j].path : j \in 1..i}}
<1>1. s \in Seq(E) /\ n \in Nat /\ DOMAIN s = 1..n
  BY DEF Lists
<1>2. f = [i \in 0..n |-> Body(i)]
  BY <1>1, EraseLoopEquation
<1>3. erase_exact(s, path) = f[n]
  BY EraseIsLoop
<1> HIDE DEF f, n
<1>4. \A i \in 0..n : f[i] = Body(i)
  <2> HIDE DEF Body
  <2> QED BY <1>2
<1>5. 0 \in T
  <2>1. 0 \in 0..n /\ f[0] = <<>>
    BY <1>1, <1>4
  <2>2. <<>> \in Seq(E) /\ DOMAIN <<>> = {}
    BY EmptySeq
  <2>3. <<>> \in Lists(E) /\ PathsOf(<<>>) = {}
    BY <2>2 DEF Lists, UniquePaths, PathsOf
  <2> QED BY <2>1, <2>3
<1>6. ASSUME NEW i \in 1..n, i - 1 \in T PROVE i \in T
  <2>1. i \in 0..n /\ i # 0 /\ i \in DOMAIN s
    BY <1>1
  <2>2. f[i] = EraseStep(f[i - 1], s[i], path)
    BY <1>4, <2>1
  <2>3. /\ f[i - 1] \in Lists(E)
        /\ PathsOf(f[i - 1]) \subseteq {s[j].path : j \in 1..(i - 1)}
    BY <1>6
  <2>4. /\ f[i] \in Lists(E)
        /\ PathsOf(f[i]) \subseteq {s[j].path : j \in 1..i}
    BY <2>1, <2>2, <2>3, EraseStepKeepsLists
  <2> QED BY <2>1, <2>4
<1> HIDE DEF T
<1>7. 0..n \subseteq T
  BY <1>1, <1>5, <1>6, BoundedInduction
<1>8. n \in T
  BY <1>1, <1>7
<1> QED BY <1>3, <1>8 DEF T

-----------------------------------------------------------------------------
(* The entries of a list, and its map from paths to entries *)

Elements(s) == {s[i] : i \in DOMAIN s}

\* The map of a list has, at the path of each entry, that entry.
LEMMA MapHolds ==
  ASSUME NEW E, NEW s \in Lists(E)
  PROVE  /\ DOMAIN EntryMap(s) = PathsOf(s)
         /\ PathsOf(s) = {e.path : e \in Elements(s)}
         /\ \A e \in Elements(s) : EntryMap(s)[e.path] = e
<1>1. DOMAIN EntryMap(s) = PathsOf(s)
  BY DEF EntryMap
<1>2. PathsOf(s) = {e.path : e \in Elements(s)}
  BY DEF PathsOf, Elements
<1>3. ASSUME NEW i \in DOMAIN s PROVE EntryMap(s)[s[i].path] = s[i]
  <2>1. HasPath(s, s[i].path) /\ s[i].path \in PathsOf(s)
    BY DEF HasPath, PathsOf
  <2>2. FirstAt(s, s[i].path) \in DOMAIN s /\ s[FirstAt(s, s[i].path)].path = s[i].path
    BY <2>1, FirstAtFinds
  <2>3. FirstAt(s, s[i].path) = i
    BY <2>2 DEF Lists, UniquePaths
  <2> QED BY <2>1, <2>3 DEF EntryMap
<1> QED BY <1>1, <1>2, <1>3 DEF Elements

\* Lists with an entry in common have it in both their maps.
LEMMA MapsAgree ==
  ASSUME NEW E, NEW s \in Lists(E), NEW t \in Lists(E),
         NEW e \in Elements(s) \cap Elements(t)
  PROVE  /\ e.path \in DOMAIN EntryMap(s) /\ e.path \in DOMAIN EntryMap(t)
         /\ EntryMap(t)[e.path] = EntryMap(s)[e.path]
BY MapHolds

LEMMA AppendElements ==
  ASSUME NEW E, NEW s \in Seq(E), NEW e \in E
  PROVE  Elements(Append(s, e)) = Elements(s) \cup {e}
<1> DEFINE t == Append(s, e)
<1>1. /\ DOMAIN t = DOMAIN s \cup {Len(s) + 1}
      /\ t[Len(s) + 1] = e
      /\ \A i \in DOMAIN s : t[i] = s[i]
  OBVIOUS
<1> HIDE DEF t
<1>2. Elements(t) = Elements(s) \cup {e}
  BY <1>1 DEF Elements
<1> QED BY <1>2 DEF t

LEMMA UpsertElements ==
  ASSUME NEW E, NEW s \in Lists(E), NEW e \in E
  PROVE  /\ Elements(upsert_entry(s, e)) \subseteq Elements(s) \cup {e}
         /\ PathsOf(s) \subseteq PathsOf(upsert_entry(s, e))
<1>1. PathsOf(s) \subseteq PathsOf(upsert_entry(s, e))
  BY UpsertHolds
<1>2. CASE HasPath(s, e.path)
  <2> DEFINE k == FirstAt(s, e.path)
  <2>1. k \in DOMAIN s
    BY <1>2, FirstAtFinds
  <2>2. upsert_entry(s, e) = [s EXCEPT ![k] = e]
    BY <1>2 DEF upsert_entry
  <2> HIDE DEF k
  <2>3. Elements([s EXCEPT ![k] = e]) \subseteq Elements(s) \cup {e}
    BY DEF Elements
  <2> QED BY <1>1, <2>2, <2>3
<1>3. CASE ~HasPath(s, e.path)
  <2>1. upsert_entry(s, e) = Append(s, e) /\ s \in Seq(E)
    BY <1>3 DEF upsert_entry, Lists
  <2> QED BY <1>1, <2>1, AppendElements
<1> QED BY <1>2, <1>3

\* Adding a directory tree loses no path and adds nothing else.
LEMMA UpsertAllElements ==
  ASSUME NEW E, NEW s \in Lists(E), NEW new \in Seq(E)
  PROVE  /\ Elements(UpsertAll(s, new)) \subseteq Elements(s) \cup Elements(new)
         /\ PathsOf(s) \subseteq PathsOf(UpsertAll(s, new))
<1> DEFINE f == UpsertLoop(s, new)
           n == Len(new)
           Body(i) == IF i = 0 THEN s ELSE upsert_entry(f[i - 1], new[i])
           Grown(t) == /\ t \in Lists(E)
                       /\ Elements(t) \subseteq Elements(s) \cup Elements(new)
                       /\ PathsOf(s) \subseteq PathsOf(t)
           T == {i \in 0..n : Grown(f[i])}
<1>1. /\ n \in Nat /\ DOMAIN new = 1..n
      /\ \A i \in 1..n : new[i] \in E /\ new[i] \in Elements(new)
  BY DEF Elements
<1>2. f = [i \in 0..n |-> Body(i)]
  BY UpsertLoopEquation
<1>3. UpsertAll(s, new) = f[n]
  BY DEF UpsertAll, UpsertLoop
<1> HIDE DEF f, n
<1>4. \A i \in 0..n : f[i] = Body(i)
  <2> HIDE DEF Body
  <2> QED BY <1>2
<1>5. 0 \in T
  <2>1. 0 \in 0..n
    BY <1>1
  <2> QED BY <1>4, <2>1
<1>6. ASSUME NEW i \in 1..n, i - 1 \in T PROVE i \in T
  <2>1. i \in 0..n /\ i # 0
    BY <1>1
  <2>2. f[i] = upsert_entry(f[i - 1], new[i])
    BY <1>4, <2>1
  <2>3. Grown(f[i - 1])
    BY <1>6
  <2>4. f[i] \in Lists(E)
    BY <1>1, <2>2, <2>3, UpsertKeepsLists
  <2>5. /\ Elements(f[i]) \subseteq Elements(f[i - 1]) \cup {new[i]}
        /\ PathsOf(f[i - 1]) \subseteq PathsOf(f[i])
    BY <1>1, <2>2, <2>3, UpsertElements
  <2>6. Grown(f[i])
    BY <1>1, <2>3, <2>4, <2>5
  <2> QED BY <2>1, <2>6
<1> HIDE DEF T
<1>7. 0..n \subseteq T
  BY <1>1, <1>5, <1>6, BoundedInduction
<1>8. n \in T
  BY <1>1, <1>7
<1> QED BY <1>3, <1>8 DEF T

\* Removing a path keeps every other entry and adds none.
LEMMA EraseElements ==
  ASSUME NEW E, NEW s \in Seq(E), NEW path
  PROVE  Elements(erase_exact(s, path)) = {e \in Elements(s) : e.path # path}
<1> DEFINE f == EraseLoop(s, path)
           n == Len(s)
           Body(i) == IF i = 0 THEN <<>> ELSE EraseStep(f[i - 1], s[i], path)
           Kept(i) == {e \in {s[j] : j \in 1..i} : e.path # path}
           T == {i \in 0..n : f[i] \in Seq(E) /\ Elements(f[i]) = Kept(i)}
<1>1. n \in Nat /\ DOMAIN s = 1..n /\ \A i \in 1..n : s[i] \in E
  OBVIOUS
<1>2. f = [i \in 0..n |-> Body(i)]
  BY EraseLoopEquation
<1>3. erase_exact(s, path) = f[n]
  BY EraseIsLoop
<1> HIDE DEF f, n
<1>4. \A i \in 0..n : f[i] = Body(i)
  <2> HIDE DEF Body
  <2> QED BY <1>2
<1>5. 0 \in T
  <2>1. 0 \in 0..n /\ f[0] = <<>>
    BY <1>1, <1>4
  <2>2. <<>> \in Seq(E) /\ DOMAIN <<>> = {}
    BY EmptySeq
  <2>3. f[0] \in Seq(E) /\ Elements(f[0]) = {}
    BY <2>1, <2>2 DEF Elements
  <2>4. Kept(0) = {}
    OBVIOUS
  <2> HIDE DEF Kept
  <2> QED BY <2>1, <2>3, <2>4
<1>6. ASSUME NEW i \in 1..n, i - 1 \in T PROVE i \in T
  <2>1. i \in 0..n /\ i # 0 /\ s[i] \in E
    BY <1>1
  <2>2. f[i] = EraseStep(f[i - 1], s[i], path)
    BY <1>4, <2>1
  <2>3. f[i - 1] \in Seq(E) /\ Elements(f[i - 1]) = Kept(i - 1)
    BY <1>6
  <2>4. 1..i = 1..(i - 1) \cup {i}
    BY <1>1
  <2>5. Kept(i) = Kept(i - 1) \cup {e \in {s[i]} : e.path # path}
    BY <2>4
  <2> HIDE DEF Kept
  <2>6. f[i] \in Seq(E) /\ Elements(f[i]) = Kept(i)
    <3>1. CASE s[i].path = path
      BY <2>2, <2>3, <2>5, <3>1 DEF EraseStep
    <3>2. CASE s[i].path # path
      <4>1. f[i] = Append(f[i - 1], s[i])
        BY <2>2, <3>2 DEF EraseStep
      <4>2. f[i] \in Seq(E)
        BY <2>1, <2>3, <4>1
      <4>3. Elements(f[i]) = Elements(f[i - 1]) \cup {s[i]}
        BY <2>1, <2>3, <4>1, AppendElements
      <4> QED BY <2>3, <2>5, <3>2, <4>2, <4>3
    <3> QED BY <3>1, <3>2
  <2> QED BY <2>1, <2>6
<1> HIDE DEF T
<1>7. 0..n \subseteq T
  BY <1>1, <1>5, <1>6, BoundedInduction
<1>8. n \in T
  BY <1>1, <1>7
<1>9. Elements(f[n]) = Kept(n)
  BY <1>8 DEF T
<1>10. Kept(n) = {e \in Elements(s) : e.path # path}
  BY <1>1 DEF Elements
<1> HIDE DEF Kept
<1> QED BY <1>3, <1>9, <1>10

-----------------------------------------------------------------------------
(* What the invariants say of a build *)

\* The archive being built is a front part of the entries to build, path by
\* path: this is what makes its own paths distinct at every step.
ArchiveFollowsWork ==
  job # Nothing =>
    \A i \in DOMAIN job.archive : job.archive[i].path = job.work[i].path

Inv == TypeOK /\ UniqueLogicalPaths /\ ArchiveFollowsWork

-----------------------------------------------------------------------------
(* The entries the operations add *)

LEMMA NormalEntryPath ==
  ASSUME NEW raw \in Seq(Names \cup Skipped \cup {Up}), NEW hint \in BOOLEAN
  PROVE  normalize_entry_path(raw, hint) \in LogicalPath(Names)
<1>1. normalize_relative_path(raw) \in Seq(Names)
  BY NormalPathIsNames DEF Components
<1> QED BY <1>1 DEF normalize_entry_path, LogicalPath

LEMMA NormalRawPath ==
  \A raw \in RawPaths \cup Hosts :
    /\ raw \in Seq(Names \cup Skipped \cup {Up})
    /\ normalize_relative_path(raw) \in Seq(Names)
<1> TAKE raw \in RawPaths \cup Hosts
<1>1. raw \in Seq(Names \cup Skipped \cup {Up})
  BY PathsAssumption
<1>2. normalize_relative_path(raw) \in Seq(Names)
  BY <1>1, NormalPathIsNames DEF Components
<1> QED BY <1>1, <1>2

LEMMA EntryType ==
  ASSUME NEW raw \in Seq(Names \cup Skipped \cup {Up}), NEW hint \in BOOLEAN,
         NEW kind \in Kinds, NEW load \in Loads
  PROVE  Entry(normalize_entry_path(raw, hint), kind, load) \in Entries
BY NormalEntryPath DEF Entry, Entries

LEMMA LoadTypes ==
  /\ \A f \in Seq(Names) : FileLoad(f) \in Loads
  /\ \A c \in Buffers : BytesLoad(c) \in Loads
  /\ \A s \in Streams : StreamLoad(s) \in Loads
  /\ \A c \in Objects, e \in BOOLEAN : ObjectLoad(c, e) \in Loads
  /\ EmptyLoad \in Loads
BY DEF Loads, FileLoad, BytesLoad, StreamLoad, ObjectLoad, EmptyLoad

\* Every entry of a directory iteration is an entry.
LEMMA ChildType ==
  ASSUME NEW raw \in RawPaths, NEW recursive \in BOOLEAN,
         NEW node \in Listing(normalize_relative_path(raw), recursive)
  PROVE  Child(normalize_relative_path(raw), node) \in Entries
<1> DEFINE dir == normalize_relative_path(raw)
           rest == Relative(dir, node)
<1>1. dir \in Seq(Names)
  BY NormalRawPath
<1>2. node \in Seq(Names) /\ node \in Dirs \cup Files
  BY PathsAssumption DEF Listing
<1>3. rest \in Seq(Names)
  <2>1. Len(dir) + 1 \in Int /\ Len(node) \in Int
    BY <1>1, <1>2
  <2>2. \A i \in (Len(dir) + 1)..Len(node) : node[i] \in Names
    BY <1>1, <1>2
  <2> QED BY <2>1, <2>2, SubSeqProperties DEF Relative
<1>4. rest \in Seq(Names \cup Skipped \cup {Up})
  BY <1>3, SeqMonotonic
<1> HIDE DEF rest, dir
<1>5. Entry(normalize_entry_path(rest, TRUE), "directory", EmptyLoad) \in Entries
  BY <1>4, EntryType, LoadTypes DEF Kinds
<1>6. Entry(normalize_entry_path(rest, FALSE), "file", FileLoad(node)) \in Entries
  BY <1>2, <1>4, EntryType, LoadTypes DEF Kinds
<1> QED BY <1>5, <1>6 DEF Child, DirectoryEntry, rest, dir

\* What an iteration has yielded when it stops is a sequence of entries.
LEMMA YieldedType ==
  ASSUME NEW raw \in RawPaths, NEW recursive \in BOOLEAN,
         NEW order \in IterationOrder(Listing(normalize_relative_path(raw), recursive)),
         NEW yielded \in 0..Len(order)
  PROVE  [i \in 1..yielded |-> Child(normalize_relative_path(raw), order[i])]
           \in Seq(Entries)
<1> DEFINE dir == normalize_relative_path(raw)
           nodes == Listing(dir, recursive)
<1>1. IsFiniteSet(nodes)
  <2>1. IsFiniteSet(Dirs \cup Files)
    BY PathsAssumption, FS_Union
  <2>2. nodes \subseteq Dirs \cup Files
    BY DEF Listing
  <2> QED BY <2>1, <2>2, FS_Subset
<1>2. Cardinality(nodes) \in Nat
  BY <1>1, FS_CardinalityType
<1>3. order \in [1..Cardinality(nodes) -> nodes]
  BY DEF IterationOrder
<1>4. order \in Seq(nodes) /\ Len(order) = Cardinality(nodes)
  <2> HIDE DEF nodes
  <2> QED BY <1>2, <1>3
<1>5. \A i \in 1..yielded : order[i] \in nodes
  <2> HIDE DEF nodes
  <2> QED BY <1>2, <1>3, <1>4
<1>6. \A i \in 1..yielded : Child(dir, order[i]) \in Entries
  BY <1>5, ChildType
<1>7. yielded \in Nat
  BY <1>2, <1>4
<1> HIDE DEF nodes, dir
<1>8. [i \in 1..yielded |-> Child(dir, order[i])] \in [1..yielded -> Entries]
  BY <1>6
<1>9. [i \in 1..yielded |-> Child(dir, order[i])] \in Seq(Entries)
  BY <1>7, <1>8
<1> QED BY <1>9 DEF dir

-----------------------------------------------------------------------------
(* Sequences of any elements *)

LEMMA SeqIsSequence ==
  ASSUME NEW E, NEW s \in Seq(E)
  PROVE  IsSequence(s)
<1> DEFINE Image == {s[i] : i \in DOMAIN s}
<1>1. Len(s) \in Nat /\ DOMAIN s = 1..Len(s) /\ s = [i \in 1..Len(s) |-> s[i]]
  BY LenProperties
<1>2. \A i \in 1..Len(s) : s[i] \in Image
  BY <1>1
<1> HIDE DEF Image
<1>3. s \in [1..Len(s) -> Image]
  BY <1>1, <1>2
<1>4. s \in Seq(Image)
  BY <1>1, <1>3
<1> QED BY <1>4 DEF IsSequence, Image

LEMMA SequenceProperties ==
  ASSUME NEW s, IsSequence(s)
  PROVE  Len(s) \in Nat /\ DOMAIN s = 1..Len(s)
BY LenProperties DEF IsSequence

LEMMA AppendSequence ==
  ASSUME NEW s, NEW e, IsSequence(s)
  PROVE  /\ IsSequence(Append(s, e))
         /\ Len(Append(s, e)) = Len(s) + 1
         /\ DOMAIN Append(s, e) = 1..(Len(s) + 1)
         /\ \A i \in 1..Len(s) : Append(s, e)[i] = s[i]
         /\ Append(s, e)[Len(s) + 1] = e
<1> DEFINE E == {s[i] : i \in DOMAIN s}
           T == E \cup {e}
<1>1. s \in Seq(T)
  <2>1. s \in Seq(E)
    BY DEF IsSequence
  <2> HIDE DEF E
  <2> QED BY <2>1, SeqMonotonic
<1>2. e \in T
  OBVIOUS
<1> HIDE DEF T
<1>3. Append(s, e) \in Seq(T)
  BY <1>1, <1>2
<1>4. IsSequence(Append(s, e))
  BY <1>3, SeqIsSequence
<1> QED BY <1>1, <1>2, <1>3, <1>4, AppendProperties, LenProperties

-----------------------------------------------------------------------------
(* The parts of the invariant *)

ZipOK == zip \in [Handles -> Zippers]
           /\ \A h \in Handles : UniquePaths(zip[h].entries)

StoresOK ==
  /\ DOMAIN manifests = Manifests
  /\ disk \in [Files -> Contents \cup {Nothing}]
  /\ stream \in [Streams -> Contents \cup {Empty}]
  /\ store \in [Targets -> {"absent", "complete", "torn"}]

JobOK ==
  job # Nothing =>
    /\ DOMAIN job = {"owner", "sink", "work", "archive", "outcome",
                     "hooked", "asked", "wanted"}
    /\ job.owner \in Handles
    /\ job.sink \in Sinks \cup {"file"}
    /\ job.outcome \in {"running", "ok", "failed"}
    /\ IsSequence(job.work) /\ IsSequence(job.archive)
    /\ Len(job.archive) <= Len(job.work)
    /\ UniquePaths(job.work)
    /\ \A i \in DOMAIN job.archive : job.archive[i].path = job.work[i].path

\* The paths of the archive are distinct because those of the work are.
LEMMA InvParts == Inv <=> ZipOK /\ StoresOK /\ JobOK
<1>1. Inv => ZipOK /\ StoresOK /\ JobOK
  BY DEF Inv, ZipOK, StoresOK, JobOK, TypeOK, UniqueLogicalPaths, ArchiveFollowsWork
<1>2. ASSUME ZipOK, StoresOK, JobOK PROVE Inv
  <2>1. ASSUME job # Nothing PROVE UniquePaths(job.archive)
    <3>1. DOMAIN job.archive \subseteq DOMAIN job.work
      <4>1. /\ Len(job.archive) \in Nat /\ DOMAIN job.archive = 1..Len(job.archive)
            /\ Len(job.work) \in Nat /\ DOMAIN job.work = 1..Len(job.work)
        BY <1>2, <2>1, SequenceProperties DEF JobOK
      <4> QED BY <1>2, <2>1, <4>1 DEF JobOK
    <3> QED BY <1>2, <2>1, <3>1 DEF JobOK, UniquePaths
  <2> QED BY <1>2, <2>1
          DEF Inv, ZipOK, StoresOK, JobOK, TypeOK, UniqueLogicalPaths, ArchiveFollowsWork
<1> QED BY <1>1, <1>2

LEMMA InitInv == Init => Inv
<1> SUFFICES ASSUME Init PROVE Inv
  OBVIOUS
<1>1. ZipOK
  <2>1. <<>> \in Seq(Entries) /\ <<>> \in Seq(Filters) /\ DOMAIN <<>> = {}
    BY EmptySeq
  <2>2. make_zipper \in Zippers
    BY <2>1 DEF make_zipper, Zippers
  <2>3. UniquePaths(make_zipper.entries)
    BY <2>1 DEF make_zipper, UniquePaths
  <2> HIDE DEF make_zipper
  <2> QED BY <2>2, <2>3 DEF Init, ZipOK
<1>2. StoresOK
  BY DEF Init, StoresOK
<1>3. JobOK
  BY DEF Init, JobOK
<1> QED BY <1>1, <1>2, <1>3, InvParts

-----------------------------------------------------------------------------
(* The calls *)

\* A zipper with another value in one field is a zipper.
LEMMA FieldsKeepZipper ==
  ASSUME NEW z \in Zippers
  PROVE  /\ \A v \in {"stored"} \cup Codecs :
              /\ [z EXCEPT !.codec = v] \in Zippers
              /\ [z EXCEPT !.codec = v].entries = z.entries
         /\ \A v \in {""} \cup Destinations :
              /\ [z EXCEPT !.destination = v] \in Zippers
              /\ [z EXCEPT !.destination = v].entries = z.entries
         /\ \A v \in {"archive.mz"} \cup ArchiveNames :
              /\ [z EXCEPT !.archive_name = v] \in Zippers
              /\ [z EXCEPT !.archive_name = v].entries = z.entries
         /\ \A v \in Seq(Filters) :
              /\ [z EXCEPT !.filters = v] \in Zippers
              /\ [z EXCEPT !.filters = v].entries = z.entries
         /\ \A v \in Hooks \cup {Nothing} :
              /\ [z EXCEPT !.hook = v] \in Zippers
              /\ [z EXCEPT !.hook = v].entries = z.entries
         /\ \A v \in BOOLEAN :
              /\ [z EXCEPT !.sealed = v] \in Zippers
              /\ [z EXCEPT !.sealed = v].entries = z.entries
         /\ \A v \in Manifests \cup {Nothing} :
              /\ [z EXCEPT !.manifest = v] \in Zippers
              /\ [z EXCEPT !.manifest = v].entries = z.entries
         /\ \A v \in Seq(Entries) :
              /\ [z EXCEPT !.entries = v] \in Zippers
              /\ [z EXCEPT !.entries = v].entries = v
<1>1. /\ \A v \in {"stored"} \cup Codecs : [z EXCEPT !.codec = v] \in Zippers
      /\ \A v \in {""} \cup Destinations : [z EXCEPT !.destination = v] \in Zippers
  BY DEF Zippers
<1>2. /\ \A v \in {"archive.mz"} \cup ArchiveNames : [z EXCEPT !.archive_name = v] \in Zippers
      /\ \A v \in Seq(Filters) : [z EXCEPT !.filters = v] \in Zippers
  BY DEF Zippers
<1>3. /\ \A v \in Hooks \cup {Nothing} : [z EXCEPT !.hook = v] \in Zippers
      /\ \A v \in BOOLEAN : [z EXCEPT !.sealed = v] \in Zippers
  BY DEF Zippers
<1>4. /\ \A v \in Manifests \cup {Nothing} : [z EXCEPT !.manifest = v] \in Zippers
      /\ \A v \in Seq(Entries) : [z EXCEPT !.entries = v] \in Zippers
  BY DEF Zippers
<1>5. DOMAIN z = {"entries", "filters", "codec", "manifest", "destination",
                  "archive_name", "hook", "sealed"}
  BY DEF Zippers
<1> QED BY <1>1, <1>2, <1>3, <1>4, <1>5

LEMMA ZipAssigned ==
  ASSUME ZipOK, NEW h \in Handles, NEW z \in Zippers, UniquePaths(z.entries),
         zip' = [zip EXCEPT ![h] = z]
  PROVE  ZipOK'
<1> HIDE DEF Zippers, UniquePaths
<1> QED BY DEF ZipOK

LEMMA ConfigureInv ==
  ASSUME Inv, NEW h \in Handles, Configure(h)
  PROVE  Inv'
<1>1. ZipOK /\ StoresOK /\ JobOK
  BY InvParts
<1>2. UNCHANGED <<manifests, disk, stream, store, job>>
  BY DEF Configure, SetCodec, SetDestination, SetArchiveName, WithFilter, WithHook,
         Seal, Reopen, Copy
<1>3. StoresOK' /\ JobOK'
  BY <1>1, <1>2 DEF StoresOK, JobOK
<1>4. zip[h] \in Zippers /\ UniquePaths(zip[h].entries)
  BY <1>1 DEF ZipOK
<1>5. ASSUME NEW c \in Codecs, SetCodec(h, c) PROVE ZipOK'
  BY <1>1, <1>4, <1>5, FieldsKeepZipper, ZipAssigned DEF SetCodec
<1>6. ASSUME NEW d \in Destinations, SetDestination(h, d) PROVE ZipOK'
  BY <1>1, <1>4, <1>6, FieldsKeepZipper, ZipAssigned DEF SetDestination
<1>7. ASSUME NEW n \in ArchiveNames, SetArchiveName(h, n) PROVE ZipOK'
  BY <1>1, <1>4, <1>7, FieldsKeepZipper, ZipAssigned DEF SetArchiveName
<1>8. ASSUME NEW f \in Filters, WithFilter(h, f) PROVE ZipOK'
  <2>1. zip[h].filters \in Seq(Filters)
    BY <1>4 DEF Zippers
  <2>2. Append(zip[h].filters, f) \in Seq(Filters)
    BY <2>1
  <2> DEFINE filters == Append(zip[h].filters, f)
             z == [zip[h] EXCEPT !.filters = filters]
  <2>3. z \in Zippers /\ z.entries = zip[h].entries
    <3> HIDE DEF filters
    <3> QED BY <1>4, <2>2, FieldsKeepZipper DEF filters
  <2>4. zip' = [zip EXCEPT ![h] = z]
    BY <1>8 DEF WithFilter
  <2> HIDE DEF z
  <2> QED BY <1>1, <1>4, <2>3, <2>4, ZipAssigned
<1>9. ASSUME Seal(h) PROVE ZipOK'
  BY <1>1, <1>4, <1>9, FieldsKeepZipper, ZipAssigned DEF Seal
<1>10. ASSUME Reopen(h) PROVE ZipOK'
  BY <1>1, <1>4, <1>10, FieldsKeepZipper, ZipAssigned DEF Reopen
<1>11. ASSUME NEW g \in Handles \ {h}, Copy(h, g) PROVE ZipOK'
  <2> HIDE DEF Zippers
  <2> QED BY <1>1, <1>11 DEF Copy, ZipOK
<1>12. ASSUME NEW hook \in Hooks, WithHook(h, hook) PROVE ZipOK'
  BY <1>1, <1>4, <1>12, FieldsKeepZipper, ZipAssigned DEF WithHook
<1>13. ZipOK'
  BY <1>5, <1>6, <1>7, <1>8, <1>9, <1>10, <1>11, <1>12 DEF Configure
<1>14. ZipOK' /\ StoresOK' /\ JobOK' => Inv'
  BY InvParts, PTL
<1> QED BY <1>3, <1>13, <1>14

\* The invariant of the zippers says that their entries are lists.
LEMMA EntriesAreLists ==
  ASSUME Inv, NEW h \in Handles
  PROVE  zip[h].entries \in Lists(Entries)
<1>1. ZipOK
  BY InvParts
<1>2. zip[h].entries \in Seq(Entries) /\ UniquePaths(zip[h].entries)
  BY <1>1 DEF ZipOK, Zippers
<1> QED BY <1>2 DEF Lists

\* A call that makes a list the entries of a zipper keeps the invariant.
LEMMA PutInv ==
  ASSUME Inv, NEW h \in Handles, NEW entries \in Lists(Entries), Put(h, entries)
  PROVE  Inv'
<1>1. ZipOK /\ StoresOK /\ JobOK
  BY InvParts
<1>2. entries \in Seq(Entries) /\ UniquePaths(entries)
  BY DEF Lists
<1>3. zip' = [zip EXCEPT ![h].entries = entries]
      /\ UNCHANGED <<manifests, disk, stream, store, job>>
  BY DEF Put
<1>4. ZipOK'
  <2>1. zip[h] \in Zippers
    BY <1>1 DEF ZipOK
  <2>2. /\ [zip[h] EXCEPT !.entries = entries] \in Zippers
        /\ [zip[h] EXCEPT !.entries = entries].entries = entries
    BY <1>2, <2>1, FieldsKeepZipper
  <2> QED BY <1>1, <1>2, <1>3, <2>2, ZipAssigned
<1>5. StoresOK' /\ JobOK'
  BY <1>1, <1>3 DEF StoresOK, JobOK
<1>6. ZipOK' /\ StoresOK' /\ JobOK' => Inv'
  BY InvParts, PTL
<1> QED BY <1>4, <1>5, <1>6

LEMMA EditEntriesInv ==
  ASSUME Inv, NEW h \in Handles, EditEntries(h)
  PROVE  Inv'
<1> DEFINE s == zip[h].entries
<1>1. s \in Lists(Entries)
  BY EntriesAreLists
<1> HIDE DEF s
<1>2. PICK raw \in RawPaths :
        \/ \E host \in Hosts : AddFileAs(h, host, raw)
        \/ \E r \in BOOLEAN : AddDirectory(h, raw, r)
        \/ \E c \in Buffers : AddBytes(h, raw, c)
        \/ \E st \in Streams : AddStream(h, raw, st)
        \/ \E c \in Objects, e \in BOOLEAN : AddObject(h, raw, c, e)
        \/ RemoveItem(h, raw)
  BY DEF EditEntries
<1>3. raw \in Seq(Names \cup Skipped \cup {Up})
  BY NormalRawPath
<1>4. {"file", "directory", "generated", "object"} \subseteq Kinds
  BY DEF Kinds
<1>5. ASSUME NEW host \in Hosts, AddFileAs(h, host, raw) PROVE Inv'
  <2>1. FileEntry(host, raw) \in Entries
    <3>1. FileLoad(normalize_relative_path(host)) \in Loads
      BY NormalRawPath, LoadTypes
    <3> QED BY <1>3, <1>4, <3>1, EntryType DEF FileEntry
  <2>2. upsert_entry(s, FileEntry(host, raw)) \in Lists(Entries)
    BY <1>1, <2>1, UpsertKeepsLists
  <2> QED BY <1>5, <2>2, PutInv DEF AddFileAs, s
<1>6. ASSUME NEW r \in BOOLEAN, AddDirectory(h, raw, r) PROVE Inv'
  <2> DEFINE dir == normalize_relative_path(raw)
             root == upsert_entry(s, DirectoryEntry(raw))
  <2>1. root \in Lists(Entries)
    <3>1. DirectoryEntry(raw) \in Entries
      BY <1>3, <1>4, LoadTypes, EntryType DEF DirectoryEntry
    <3> QED BY <1>1, <3>1, UpsertKeepsLists
  <2> HIDE DEF root
  <2>2. CASE dir \notin Dirs
    <3>1. Put(h, root)
      BY <1>6, <2>2 DEF AddDirectory, root, s
    <3> QED BY <2>1, <3>1, PutInv
  <2>3. CASE dir \in Dirs
    <3>1. PICK order \in IterationOrder(Listing(dir, r)) : \E yielded \in 0..Len(order) :
            Put(h, UpsertAll(root, [i \in 1..yielded |-> Child(dir, order[i])]))
      BY <1>6, <2>3 DEF AddDirectory, root, s
    <3>2. PICK yielded \in 0..Len(order) :
            Put(h, UpsertAll(root, [i \in 1..yielded |-> Child(dir, order[i])]))
      BY <3>1
    <3>3. [i \in 1..yielded |-> Child(dir, order[i])] \in Seq(Entries)
      BY YieldedType
    <3>4. UpsertAll(root, [i \in 1..yielded |-> Child(dir, order[i])]) \in Lists(Entries)
      BY <2>1, <3>3, UpsertAllKeepsLists
    <3> QED BY <3>2, <3>4, PutInv
  <2> QED BY <2>2, <2>3
<1>7. ASSUME NEW c \in Buffers, AddBytes(h, raw, c) PROVE Inv'
  <2> DEFINE e == Entry(normalize_entry_path(raw, FALSE), "generated", BytesLoad(c))
  <2>1. e \in Entries
    BY <1>3, <1>4, LoadTypes, EntryType
  <2>2. upsert_entry(s, e) \in Lists(Entries)
    BY <1>1, <2>1, UpsertKeepsLists
  <2> QED BY <1>7, <2>2, PutInv DEF AddBytes, s
<1>8. ASSUME NEW st \in Streams, AddStream(h, raw, st) PROVE Inv'
  <2> DEFINE e == Entry(normalize_entry_path(raw, FALSE), "generated", StreamLoad(st))
  <2>1. e \in Entries
    BY <1>3, <1>4, LoadTypes, EntryType
  <2>2. upsert_entry(s, e) \in Lists(Entries)
    BY <1>1, <2>1, UpsertKeepsLists
  <2> QED BY <1>8, <2>2, PutInv DEF AddStream, s
<1>9. ASSUME NEW c \in Objects, NEW b \in BOOLEAN, AddObject(h, raw, c, b) PROVE Inv'
  <2> DEFINE e == Entry(normalize_entry_path(raw, FALSE), "object", ObjectLoad(c, b))
  <2>1. e \in Entries
    BY <1>3, <1>4, LoadTypes, EntryType
  <2>2. upsert_entry(s, e) \in Lists(Entries)
    BY <1>1, <2>1, UpsertKeepsLists
  <2> QED BY <1>9, <2>2, PutInv DEF AddObject, s
<1>10. CASE RemoveItem(h, raw)
  <2> DEFINE t == erase_exact(s, normalize_entry_path(raw, FALSE))
             u == erase_exact(t, normalize_entry_path(raw, TRUE))
  <2>1. t \in Lists(Entries)
    BY <1>1, EraseKeepsLists
  <2>2. u \in Lists(Entries)
    BY <2>1, EraseKeepsLists
  <2>3. Put(h, u)
    BY <1>10 DEF RemoveItem, s
  <2> QED BY <2>2, <2>3, PutInv
<1> QED BY <1>2, <1>5, <1>6, <1>7, <1>8, <1>9, <1>10

LEMMA EditManifestInv ==
  ASSUME Inv, NEW h \in Handles, EditManifest(h)
  PROVE  Inv'
<1>1. ZipOK /\ StoresOK /\ JobOK
  BY InvParts
<1>2. UNCHANGED <<disk, stream, store, job>>
  BY DEF EditManifest, CreateManifest, AddToManifest
<1>3. ASSUME NEW m \in Manifests, CreateManifest(h, m) PROVE ZipOK' /\ StoresOK'
  <2>1. zip[h] \in Zippers /\ UniquePaths(zip[h].entries)
    BY <1>1 DEF ZipOK
  <2> DEFINE z == [zip[h] EXCEPT !.manifest = m]
  <2>2. ZipOK'
    <3>1. z \in Zippers /\ z.entries = zip[h].entries
      BY <2>1, FieldsKeepZipper
    <3>2. zip' = [zip EXCEPT ![h] = z]
      BY <1>3 DEF CreateManifest
    <3> HIDE DEF z
    <3> QED BY <1>1, <2>1, <3>1, <3>2, ZipAssigned
  <2>3. StoresOK'
    BY <1>1, <1>2, <1>3 DEF CreateManifest, StoresOK
  <2> QED BY <2>2, <2>3
<1>4. ASSUME NEW cmd \in Commands, AddToManifest(h, cmd) PROVE ZipOK' /\ StoresOK'
  <2>1. ZipOK'
    BY <1>1, <1>4 DEF AddToManifest, ZipOK
  <2>2. DOMAIN manifests' = DOMAIN manifests
    BY <1>4 DEF AddToManifest
  <2>3. StoresOK'
    BY <1>1, <1>2, <2>2 DEF StoresOK
  <2> QED BY <2>1, <2>3
<1>5. JobOK'
  BY <1>1, <1>2 DEF JobOK
<1>6. ZipOK' /\ StoresOK' /\ JobOK' => Inv'
  BY InvParts, PTL
<1> QED BY <1>3, <1>4, <1>5, <1>6 DEF EditManifest

-----------------------------------------------------------------------------
(* Builds *)

\* The entries to build have distinct paths, with the manifest's among them.
LEMMA WorkingIsList ==
  ASSUME NEW z \in Zippers, UniquePaths(z.entries)
  PROVE  IsSequence(Working(z)) /\ UniquePaths(Working(z))
<1>1. z.entries \in Seq(Entries)
  BY DEF Zippers
<1>2. CASE z.manifest = Nothing
  <2>1. Working(z) = z.entries
    BY <1>2 DEF Working
  <2> QED BY <1>1, <2>1, SeqIsSequence
<1>3. CASE z.manifest # Nothing
  <2> DEFINE e == ManifestEntry(z)
             E == Entries \cup {e}
  <2>1. Working(z) = upsert_entry(z.entries, e)
    BY <1>3 DEF Working
  <2>2. z.entries \in Seq(E) /\ e \in E
    <3> HIDE DEF e
    <3> QED BY <1>1, SeqMonotonic
  <2> HIDE DEF e, E
  <2>3. upsert_entry(z.entries, e) \in Lists(E)
    BY <2>2, UpsertKeepsLists DEF Lists
  <2> QED BY <2>1, <2>3, SeqIsSequence DEF Lists
<1> QED BY <1>2, <1>3

LEMMA NewJobOK ==
  ASSUME Inv, NEW h \in Handles, NEW z \in Zippers, UniquePaths(z.entries),
         NEW sink \in Sinks \cup {"file"}, job' = NewJob(h, z, sink)
  PROVE  JobOK'
<1> DEFINE w == Working(z)
<1>1. IsSequence(w) /\ UniquePaths(w) /\ Len(w) \in Nat
  BY WorkingIsList, SequenceProperties
<1>2. IsSequence(<<>>) /\ Len(<<>>) = 0 /\ DOMAIN <<>> = {}
  <2>1. <<>> \in Seq({}) /\ Len(<<>>) = 0 /\ DOMAIN <<>> = {}
    BY EmptySeq
  <2> QED BY <2>1, SeqIsSequence
<1>3. /\ job'.owner = h /\ job'.sink = sink /\ job'.work = w
      /\ job'.archive = <<>> /\ job'.outcome = "running"
      /\ DOMAIN job' = {"owner", "sink", "work", "archive", "outcome",
                        "hooked", "asked", "wanted"}
  <2> HIDE DEF w
  <2>1. job' = [owner |-> h, sink |-> sink, work |-> w, archive |-> <<>>,
                outcome |-> "running", hooked |-> z.hook # Nothing,
                asked |-> PathsOf(z.entries),
                wanted |-> IF z.manifest = Nothing THEN {}
                           ELSE {serialize(manifests[z.manifest])}]
    BY DEF NewJob, w
  <2> QED BY <2>1
<1> HIDE DEF w
<1> QED BY <1>1, <1>2, <1>3 DEF JobOK

LEMMA StartBuildInv ==
  ASSUME Inv, NEW h \in Handles, StartBuild(h)
  PROVE  Inv'
<1>1. ZipOK /\ StoresOK /\ JobOK
  BY InvParts
<1>2. zip[h] \in Zippers /\ UniquePaths(zip[h].entries)
  BY <1>1 DEF ZipOK
<1>3. StoresOK'
  <2>1. UNCHANGED <<manifests, disk, stream, store>>
    BY DEF StartBuild, Build, BuildFile
  <2> QED BY <1>1, <2>1 DEF StoresOK
<1>4. ASSUME NEW sink \in Sinks, Build(h, sink) PROVE ZipOK' /\ JobOK'
  <2>1. JobOK'
    BY <1>2, <1>4, NewJobOK DEF Build
  <2>2. ZipOK'
    BY <1>1, <1>4 DEF Build, ZipOK
  <2> QED BY <2>1, <2>2
<1>5. ASSUME NEW d \in Destinations, NEW n \in ArchiveNames, BuildFile(h, d, n)
      PROVE  ZipOK' /\ JobOK'
  <2>1. JobOK'
    BY <1>2, <1>5, NewJobOK DEF BuildFile
  <2> DEFINE y == [zip[h] EXCEPT !.archive_name = n]
             z == [y EXCEPT !.destination = d]
  <2>2. y \in Zippers /\ y.entries = zip[h].entries
    BY <1>2, FieldsKeepZipper
  <2>3. z \in Zippers /\ z.entries = y.entries
    <3> HIDE DEF y
    <3> QED BY <2>2, FieldsKeepZipper
  <2>4. zip' = [zip EXCEPT ![h] = z]
    BY <1>1, <1>5 DEF BuildFile, ZipOK
  <2>5. ZipOK'
    <3> HIDE DEF y, z
    <3> QED BY <1>1, <1>2, <2>2, <2>3, <2>4, ZipAssigned
  <2> QED BY <2>1, <2>5
<1>6. ZipOK' /\ StoresOK' /\ JobOK' => Inv'
  BY InvParts, PTL
<1> QED BY <1>3, <1>4, <1>5, <1>6 DEF StartBuild

\* A step that only ends the build.
LEMMA OutcomeOK ==
  ASSUME Inv, job # Nothing, NEW o \in {"running", "ok", "failed"},
         job' = [job EXCEPT !.outcome = o]
  PROVE  JobOK'
<1>1. JobOK
  BY InvParts
<1>2. /\ DOMAIN job' = DOMAIN job /\ job'.outcome = o
      /\ job'.owner = job.owner /\ job'.sink = job.sink
      /\ job'.work = job.work /\ job'.archive = job.archive
  BY <1>1 DEF JobOK
<1> QED BY <1>1, <1>2 DEF JobOK

\* The next entry of the archive has the path of the next entry to build.
LEMMA EncodeOK ==
  ASSUME Inv, Encoding, NEW r, r.path = Current.path,
         job' = [job EXCEPT !.archive = Append(job.archive, r)]
  PROVE  JobOK'
<1> DEFINE a == job.archive
           b == Append(a, r)
<1>1. JobOK /\ job # Nothing /\ Len(a) < Len(job.work)
  BY InvParts DEF Encoding
<1>2. /\ IsSequence(b) /\ Len(b) = Len(a) + 1 /\ DOMAIN b = 1..(Len(a) + 1)
      /\ \A i \in 1..Len(a) : b[i] = a[i]
      /\ b[Len(a) + 1] = r
  BY <1>1, AppendSequence DEF JobOK
<1>3. /\ DOMAIN job' = DOMAIN job /\ job'.outcome = job.outcome
      /\ job'.owner = job.owner /\ job'.sink = job.sink
      /\ job'.work = job.work /\ job'.archive = b
  <2> HIDE DEF b
  <2>1. job' = [job EXCEPT !.archive = b]
    BY DEF b
  <2> QED BY <1>1, <2>1 DEF JobOK
<1>4. /\ Len(a) \in Nat /\ DOMAIN a = 1..Len(a) /\ Len(job.work) \in Nat
  BY <1>1, SequenceProperties DEF JobOK
<1>5. \A i \in DOMAIN b : b[i].path = job.work[i].path
  <2> SUFFICES ASSUME NEW i \in DOMAIN b PROVE b[i].path = job.work[i].path
    OBVIOUS
  <2>1. CASE i \in DOMAIN a
    BY <1>1, <1>2, <1>4, <2>1 DEF JobOK
  <2>2. CASE i = Len(a) + 1
    BY <1>2, <2>2 DEF Current
  <2> QED BY <1>2, <1>4, <2>1, <2>2
<1>6. Len(b) <= Len(job.work)
  BY <1>1, <1>2, <1>4
<1> HIDE DEF b
<1> QED BY ZenonT(30), <1>1, <1>2, <1>3, <1>5, <1>6 DEF JobOK

LEMMA DrainOK ==
  ASSUME Inv, NEW load, Drain(load), UNCHANGED <<manifests, disk, store>>
  PROVE  StoresOK'
<1>1. StoresOK
  BY InvParts
<1>2. stream' \in [Streams -> Contents \cup {Empty}]
  BY <1>1 DEF StoresOK, Drain
<1> QED BY <1>1, <1>2 DEF StoresOK

LEMMA RunBuildInv ==
  ASSUME Inv, RunBuild
  PROVE  Inv'
<1>1. ZipOK /\ StoresOK /\ JobOK
  BY InvParts
<1>2. UNCHANGED zip
  BY DEF RunBuild, BuildStep, EncodeEntry, CancelBuild, LoadFails, FilterFails, BuildBytes,
         NoTarget, WriteArchive, Return
<1>3. ZipOK'
  BY <1>1, <1>2 DEF ZipOK
<1>4. ASSUME UNCHANGED <<manifests, disk, stream, store>> PROVE StoresOK'
  BY <1>1, <1>4 DEF StoresOK
<1>5. ASSUME EncodeEntry PROVE StoresOK' /\ JobOK'
  <2> DEFINE r == [path |-> Current.path, kind |-> Current.kind,
                   codec |-> zip[job.owner].codec,
                   filters |-> zip[job.owner].filters,
                   payload |-> Payload(Current.load)]
  <2>1. Encoding /\ job' = [job EXCEPT !.archive = Append(job.archive, r)]
    BY <1>5 DEF EncodeEntry
  <2>2. r.path = Current.path
    OBVIOUS
  <2> HIDE DEF r
  <2>3. JobOK'
    BY <2>1, <2>2, EncodeOK
  <2>4. StoresOK'
    BY <1>5, DrainOK DEF EncodeEntry
  <2> QED BY <2>3, <2>4
<1>6. ASSUME CancelBuild PROVE StoresOK' /\ JobOK'
  BY <1>4, <1>6, OutcomeOK DEF CancelBuild, Encoding
<1>7. ASSUME LoadFails PROVE StoresOK' /\ JobOK'
  BY <1>4, <1>7, OutcomeOK DEF LoadFails, Encoding
<1>8. ASSUME FilterFails PROVE StoresOK' /\ JobOK'
  BY <1>8, OutcomeOK, DrainOK DEF FilterFails, Encoding
<1>9. ASSUME BuildBytes PROVE StoresOK' /\ JobOK'
  BY <1>4, <1>9, OutcomeOK DEF BuildBytes, Encoded
<1>10. ASSUME NoTarget PROVE StoresOK' /\ JobOK'
  BY <1>4, <1>10, OutcomeOK DEF NoTarget, Encoded
<1>11. ASSUME WriteArchive PROVE StoresOK' /\ JobOK'
  <2> DEFINE target == Target(zip[job.owner])
  <2>1. job # Nothing /\ UNCHANGED <<manifests, disk, stream>>
    BY <1>11 DEF WriteArchive, Encoded
  <2>2. PICK written \in WriteOutcomes(target) :
          /\ store' = [store EXCEPT ![target] = written.left]
          /\ job' = [job EXCEPT !.outcome = written.reports]
    BY <1>11 DEF WriteArchive
  <2>3. target \in Targets
    <3>1. zip[job.owner] \in Zippers
      BY <1>1, <2>1 DEF ZipOK, JobOK
    <3> QED BY <3>1 DEF Zippers, Targets, Target
  <2> HIDE DEF target
  <2>4. /\ written.left \in {"absent", "complete", "torn"}
        /\ written.reports \in {"running", "ok", "failed"}
    <3>1. store[target] \in {"absent", "complete", "torn"}
      BY <1>1, <2>3 DEF StoresOK
    <3> QED BY <3>1 DEF WriteOutcomes
  <2>5. JobOK'
    BY <2>1, <2>2, <2>4, OutcomeOK
  <2>6. store' \in [Targets -> {"absent", "complete", "torn"}]
    BY <1>1, <2>2, <2>3, <2>4 DEF StoresOK
  <2>7. StoresOK'
    BY <1>1, <2>1, <2>6 DEF StoresOK
  <2> QED BY <2>5, <2>7
<1>12. ASSUME Return PROVE StoresOK' /\ JobOK'
  <2>1. JobOK'
    BY <1>12 DEF Return, JobOK
  <2> QED BY <1>4, <1>12, <2>1 DEF Return
<1>13. StoresOK' /\ JobOK'
  BY <1>5, <1>6, <1>7, <1>8, <1>9, <1>10, <1>11, <1>12 DEF RunBuild, BuildStep
<1>14. ZipOK' /\ StoresOK' /\ JobOK' => Inv'
  BY InvParts, PTL
<1> QED BY <1>3, <1>13, <1>14

LEMMA EnvironmentInv ==
  ASSUME Inv, Environment
  PROVE  Inv'
<1>1. ZipOK /\ StoresOK /\ JobOK
  BY InvParts
<1>2. UNCHANGED <<zip, manifests, stream, store, job>>
  BY DEF Environment, WriteFile, RemoveFile
<1>3. disk' \in [Files -> Contents \cup {Nothing}]
  BY <1>1 DEF StoresOK, Environment, WriteFile, RemoveFile
<1>4. ZipOK' /\ StoresOK' /\ JobOK'
  BY <1>1, <1>2, <1>3 DEF ZipOK, StoresOK, JobOK
<1>5. ZipOK' /\ StoresOK' /\ JobOK' => Inv'
  BY InvParts, PTL
<1> QED BY <1>4, <1>5

-----------------------------------------------------------------------------
(* The theorems *)

LEMMA NextInv == Inv /\ [Next]_vars => Inv'
<1> SUFFICES ASSUME Inv, [Next]_vars PROVE Inv'
  OBVIOUS
<1>1. CASE Caller
  <2>1. PICK h \in Handles : Configure(h) \/ EditEntries(h)
                               \/ EditManifest(h) \/ StartBuild(h)
    BY <1>1 DEF Caller
  <2> QED BY <2>1, ConfigureInv, EditEntriesInv, EditManifestInv, StartBuildInv
<1>2. CASE RunBuild
  BY <1>2, RunBuildInv
<1>3. CASE Environment
  BY <1>3, EnvironmentInv
<1>4. CASE UNCHANGED vars
  <2>1. ZipOK' /\ StoresOK' /\ JobOK'
    BY <1>4, InvParts DEF vars, ZipOK, StoresOK, JobOK
  <2>2. ZipOK' /\ StoresOK' /\ JobOK' => Inv'
    BY InvParts, PTL
  <2> QED BY <2>1, <2>2
<1> QED BY <1>1, <1>2, <1>3, <1>4 DEF Next

THEOREM InvIsInvariant == Spec => []Inv
BY InitInv, NextInv, PTL DEF Spec

\* Every zipper, the files it reads, the archives it writes and the build in
\* progress keep their types, whatever the sizes of the constants.
THEOREM TypeCorrectness == Spec => []TypeOK
<1>1. Inv => TypeOK
  BY DEF Inv
<1> QED BY <1>1, InvIsInvariant, PTL

\* Entry replacement is collision-safe: no sequence of calls, callbacks and
\* builds gives a zipper or an archive two entries of one logical path.
THEOREM PathsAreUnique == Spec => []UniqueLogicalPaths
<1>1. Inv => UniqueLogicalPaths
  BY DEF Inv
<1> QED BY <1>1, InvIsInvariant, PTL

-----------------------------------------------------------------------------
(* Action properties *)

Frozen ==
  \A g \in Handles :
    zip[g].sealed /\ zip'[g].sealed /\ Sealable(zip'[g]) # Sealable(zip[g])
      => \E h \in Handles : zip'[g] = zip[h]

LEMMA NextFrozen == Inv /\ [Next]_vars => Frozen
<1> SUFFICES ASSUME Inv, [Next]_vars, NEW g \in Handles,
                    zip[g].sealed, zip'[g].sealed,
                    Sealable(zip'[g]) # Sealable(zip[g])
             PROVE  \E h \in Handles : zip'[g] = zip[h]
  BY DEF Frozen
<1>1. zip'[g] # zip[g]
  OBVIOUS
<1>2. zip \in [Handles -> Zippers]
  BY DEF Inv, TypeOK
<1>3. ASSUME NEW h \in Handles, ensure_mutable(h), NEW z,
             zip' = [zip EXCEPT ![h] = z]
      PROVE  FALSE
  <2>1. g # h
    BY <1>3 DEF ensure_mutable
  <2> QED BY <1>1, <1>2, <1>3, <2>1
<1>4. ASSUME NEW h \in Handles, Configure(h)
      PROVE  \E f \in Handles : zip'[g] = zip[f]
  <2>1. CASE \/ \E c \in Codecs : SetCodec(h, c)
             \/ \E d \in Destinations : SetDestination(h, d)
             \/ \E n \in ArchiveNames : SetArchiveName(h, n)
             \/ \E f \in Filters : WithFilter(h, f)
    BY <1>3, <2>1 DEF SetCodec, SetDestination, SetArchiveName, WithFilter
  <2>2. CASE Seal(h)
    <3>1. zip'[g] = IF g = h THEN [zip[g] EXCEPT !.sealed = TRUE] ELSE zip[g]
      BY <1>2, <2>2 DEF Seal
    <3>2. [zip[g] EXCEPT !.sealed = TRUE] = zip[g]
      BY <1>2 DEF Zippers
    <3> QED BY <1>1, <3>1, <3>2
  <2>3. CASE Reopen(h)
    <3>1. zip'[g] = IF g = h THEN [zip[g] EXCEPT !.sealed = FALSE] ELSE zip[g]
      BY <1>2, <2>3 DEF Reopen
    <3>2. [zip[g] EXCEPT !.sealed = FALSE].sealed = FALSE
      BY <1>2 DEF Zippers
    <3> QED BY <3>1, <3>2
  <2>4. ASSUME NEW f \in Handles \ {h}, Copy(h, f)
        PROVE  \E e \in Handles : zip'[g] = zip[e]
    BY <1>2, <2>4 DEF Copy
  <2>5. ASSUME NEW hook \in Hooks, WithHook(h, hook) PROVE FALSE
    <3>1. zip'[g] = IF g = h THEN [zip[g] EXCEPT !.hook = hook] ELSE zip[g]
      BY <1>2, <2>5 DEF WithHook
    <3>2. [[zip[g] EXCEPT !.hook = hook] EXCEPT !.hook = Nothing]
            = [zip[g] EXCEPT !.hook = Nothing]
      BY <1>2 DEF Zippers
    <3> QED BY <3>1, <3>2 DEF Sealable
  <2> QED BY <1>4, <2>1, <2>2, <2>3, <2>4, <2>5 DEF Configure
<1>5. ASSUME NEW h \in Handles, EditEntries(h) PROVE FALSE
  <2>1. PICK entries : Put(h, entries)
    BY <1>5 DEF EditEntries, AddFileAs, AddDirectory, AddBytes, AddStream,
                AddObject, RemoveItem
  <2> QED BY <1>3, <2>1 DEF Put
<1>6. ASSUME NEW h \in Handles, EditManifest(h) PROVE FALSE
  <2>1. CASE \E m \in Manifests : CreateManifest(h, m)
    BY <1>3, <2>1 DEF CreateManifest
  <2>2. CASE \E cmd \in Commands : AddToManifest(h, cmd)
    BY <1>1, <2>2 DEF AddToManifest
  <2> QED BY <1>6, <2>1, <2>2 DEF EditManifest
<1>7. ASSUME NEW h \in Handles, StartBuild(h) PROVE FALSE
  <2>1. CASE \E sink \in Sinks : Build(h, sink)
    BY <1>1, <2>1 DEF Build
  <2>2. CASE \E d \in Destinations, n \in ArchiveNames : BuildFile(h, d, n)
    <3>1. PICK d \in Destinations, n \in ArchiveNames : BuildFile(h, d, n)
      BY <2>2
    <3>2. g # h
      BY <3>1 DEF BuildFile, ensure_mutable
    <3> QED BY <1>1, <1>2, <3>1, <3>2 DEF BuildFile
  <2> QED BY <1>7, <2>1, <2>2 DEF StartBuild
<1>8. CASE Caller
  BY <1>4, <1>5, <1>6, <1>7, <1>8 DEF Caller
<1>9. CASE RunBuild \/ Environment \/ UNCHANGED vars
  <2>1. UNCHANGED zip
    BY <1>9 DEF RunBuild, BuildStep, EncodeEntry, CancelBuild, LoadFails, FilterFails,
       BuildBytes, NoTarget, WriteArchive, Return, Environment, WriteFile,
       RemoveFile, vars
  <2> QED BY <1>1, <2>1
<1> QED BY <1>8, <1>9 DEF Next

\* While a zipper stays sealed it is, but for its hook, what it was, or a copy of
\* another one.  with_hook is one of the steps: it changes a sealed zipper and
\* nothing of it that the seal protects.
THEOREM SealingFreezes == Spec => SealedIsFrozen
<1>1. Inv /\ [Next]_vars => Frozen
  BY NextFrozen
<1> QED BY <1>1, InvIsInvariant, PTL DEF Spec, SealedIsFrozen, Frozen

WritesWhole ==
  store' # store =>
    /\ job # Nothing
    /\ [i \in DOMAIN job.archive |-> job.archive[i].path]
         = [i \in DOMAIN job.work |-> job.work[i].path]

LEMMA NextWritesWhole == Inv /\ [Next]_vars => WritesWhole
<1> SUFFICES ASSUME Inv, [Next]_vars, store' # store PROVE WritesWhole
  BY DEF WritesWhole
<1>1. WriteArchive
  <2>1. ASSUME NEW h \in Handles, Configure(h) PROVE UNCHANGED store
    BY <2>1 DEF Configure, SetCodec, SetDestination, SetArchiveName, WithFilter,
                WithHook, Seal, Reopen, Copy
  <2>2. ASSUME NEW h \in Handles, EditEntries(h) PROVE UNCHANGED store
    <3>1. PICK entries : Put(h, entries)
      BY <2>2 DEF EditEntries, AddFileAs, AddDirectory, AddBytes, AddStream,
                  AddObject, RemoveItem
    <3> QED BY <3>1 DEF Put
  <2>3. ASSUME NEW h \in Handles, EditManifest(h) PROVE UNCHANGED store
    BY <2>3 DEF EditManifest, CreateManifest, AddToManifest
  <2>4. ASSUME NEW h \in Handles, StartBuild(h) PROVE UNCHANGED store
    BY <2>4 DEF StartBuild, Build, BuildFile
  <2>5. ~Caller
    BY <2>1, <2>2, <2>3, <2>4 DEF Caller
  <2>6. ~Environment /\ ~(UNCHANGED vars)
    BY DEF Environment, WriteFile, RemoveFile, vars
  <2>7. RunBuild
    BY <2>5, <2>6 DEF Next
  <2> QED BY <2>7 DEF RunBuild, BuildStep, EncodeEntry, CancelBuild, LoadFails, FilterFails,
                      BuildBytes, NoTarget, Return
<1>2. job # Nothing /\ Len(job.archive) = Len(job.work)
  BY <1>1 DEF WriteArchive, Encoded
<1>3. JobOK
  BY InvParts
<1>4. DOMAIN job.archive = DOMAIN job.work
  <2>1. /\ DOMAIN job.archive = 1..Len(job.archive)
        /\ DOMAIN job.work = 1..Len(job.work)
    BY <1>2, <1>3, SequenceProperties DEF JobOK
  <2> QED BY <1>2, <2>1
<1>5. \A i \in DOMAIN job.archive : job.archive[i].path = job.work[i].path
  BY <1>2, <1>3 DEF JobOK
<1> QED BY <1>2, <1>4, <1>5 DEF WritesWhole

\* No archive is touched before all entries of its build are encoded.
THEOREM FailedBuildsWriteNothing == Spec => FailedEncodeKeepsArchive
<1>1. Inv /\ [Next]_vars => WritesWhole
  BY NextWritesWhole
<1> QED BY <1>1, InvIsInvariant, PTL DEF Spec, FailedEncodeKeepsArchive, WritesWhole

-----------------------------------------------------------------------------
(* What a build holds *)

\* The entries to build are the paths asked for and the manifest; the archive
\* takes over their kinds, and the text of the manifest's entry as its payload.
\* An archive reported as built is that of the whole list.
ArchiveTellsCall ==
  job # Nothing =>
    /\ PathsOf(job.work)
         = job.asked \cup (IF job.wanted = {} THEN {} ELSE {ManifestPath})
    /\ \A text \in job.wanted :
         \E i \in DOMAIN job.work :
           job.work[i] = Entry(ManifestPath, "manifest", ManifestLoad(text))
    /\ \A i \in DOMAIN job.archive :
         /\ job.archive[i].kind = job.work[i].kind
         /\ job.work[i].load.from = "manifest"
              => job.archive[i].payload = job.work[i].load.text
    /\ job.outcome = "ok" => Len(job.archive) = Len(job.work)

LEMMA NewJobTells ==
  ASSUME Inv, NEW h \in Handles, NEW sink, job' = NewJob(h, zip[h], sink)
  PROVE  ArchiveTellsCall'
<1> DEFINE z == zip[h]
           w == Working(z)
           texts == IF z.manifest = Nothing THEN {} ELSE {serialize(manifests[z.manifest])}
<1>1. z.entries \in Lists(Entries)
  BY EntriesAreLists
<1>2. /\ job'.work = w /\ job'.archive = <<>> /\ job'.outcome = "running"
      /\ job'.asked = PathsOf(z.entries) /\ job'.wanted = texts
  <2> HIDE DEF w, texts
  <2>1. job' = [owner |-> h, sink |-> sink, work |-> w, archive |-> <<>>,
                outcome |-> "running", hooked |-> z.hook # Nothing,
                asked |-> PathsOf(z.entries),
                wanted |-> texts]
    BY DEF NewJob, w, texts
  <2> QED BY <2>1
<1>3. /\ PathsOf(w) = PathsOf(z.entries)
                         \cup (IF texts = {} THEN {} ELSE {ManifestPath})
      /\ \A text \in texts : \E i \in DOMAIN w :
           w[i] = Entry(ManifestPath, "manifest", ManifestLoad(text))
  <2>1. CASE z.manifest = Nothing
    BY <2>1 DEF Working
  <2>2. CASE z.manifest # Nothing
    <3> DEFINE text == serialize(manifests[z.manifest])
               e == Entry(ManifestPath, "manifest", ManifestLoad(text))
               E == Entries \cup {e}
    <3>1. w = upsert_entry(z.entries, e) /\ texts = {text}
      BY <2>2 DEF Working, ManifestEntry
    <3>2. e.path = ManifestPath
      BY DEF Entry
    <3> HIDE DEF e, text, w, texts
    <3>3. z.entries \in Lists(E) /\ e \in E
      BY <1>1, SeqMonotonic DEF Lists
    <3> HIDE DEF E
    <3>4. /\ PathsOf(w) = PathsOf(z.entries) \cup {e.path}
          /\ \E i \in DOMAIN w : w[i] = e
      BY <3>1, <3>3, UpsertHolds
    <3> QED BY <3>1, <3>2, <3>4 DEF e
  <2> QED BY <2>1, <2>2
<1>4. DOMAIN <<>> = {}
  BY EmptySeq
<1> HIDE DEF w, texts, z
<1> QED BY <1>2, <1>3, <1>4 DEF ArchiveTellsCall

\* A step that only ends the build, with success after the last entry.
LEMMA OutcomeTells ==
  ASSUME Inv, ArchiveTellsCall, job # Nothing, NEW o,
         job' = [job EXCEPT !.outcome = o],
         o = "ok" => Len(job.archive) = Len(job.work)
  PROVE  ArchiveTellsCall'
<1>1. JobOK
  BY InvParts
<1>2. /\ job'.outcome = o /\ job'.work = job.work /\ job'.archive = job.archive
      /\ job'.asked = job.asked /\ job'.wanted = job.wanted
  BY <1>1 DEF JobOK
<1> QED BY <1>2 DEF ArchiveTellsCall

LEMMA EncodeTells ==
  ASSUME Inv, ArchiveTellsCall, EncodeEntry
  PROVE  ArchiveTellsCall'
<1> DEFINE a == job.archive
           r == [path |-> Current.path, kind |-> Current.kind,
                 codec |-> zip[job.owner].codec,
                 filters |-> zip[job.owner].filters,
                 payload |-> Payload(Current.load)]
           b == Append(a, r)
<1>1. JobOK /\ job # Nothing /\ job.outcome = "running"
  BY InvParts DEF EncodeEntry, Encoding
<1>2. job' = [job EXCEPT !.archive = b]
  BY DEF EncodeEntry
<1>3. r.kind = Current.kind /\ r.payload = Payload(Current.load)
  OBVIOUS
<1> HIDE DEF r
<1>4. /\ DOMAIN b = 1..(Len(a) + 1) /\ b[Len(a) + 1] = r
      /\ \A i \in 1..Len(a) : b[i] = a[i]
      /\ DOMAIN a = 1..Len(a) /\ Len(a) \in Nat
  BY <1>1, AppendSequence, SequenceProperties DEF JobOK
<1> HIDE DEF b
<1>5. /\ job'.outcome = "running" /\ job'.work = job.work /\ job'.archive = b
      /\ job'.asked = job.asked /\ job'.wanted = job.wanted
  BY <1>1, <1>2 DEF JobOK
<1>6. ASSUME NEW i \in DOMAIN b
      PROVE  /\ b[i].kind = job.work[i].kind
             /\ job.work[i].load.from = "manifest"
                  => b[i].payload = job.work[i].load.text
  <2>1. CASE i \in DOMAIN a
    BY <1>1, <1>4, <2>1 DEF ArchiveTellsCall
  <2>2. CASE i = Len(a) + 1
    <3>1. b[i] = r /\ job.work[i] = Current
      BY <1>4, <2>2 DEF Current
    <3>2. Current.load.from = "manifest" => Payload(Current.load) = Current.load.text
      BY DEF Payload
    <3> QED BY <1>3, <3>1, <3>2
  <2> QED BY <1>4, <2>1, <2>2
<1> QED BY <1>1, <1>5, <1>6 DEF ArchiveTellsCall

LEMMA NextTells == Inv /\ ArchiveTellsCall /\ [Next]_vars => ArchiveTellsCall'
<1> SUFFICES ASSUME Inv, ArchiveTellsCall, [Next]_vars PROVE ArchiveTellsCall'
  OBVIOUS
<1>1. ASSUME UNCHANGED job PROVE ArchiveTellsCall'
  BY <1>1 DEF ArchiveTellsCall
<1>2. CASE Caller
  <2>1. PICK h \in Handles : Configure(h) \/ EditEntries(h)
                               \/ EditManifest(h) \/ StartBuild(h)
    BY <1>2 DEF Caller
  <2>2. CASE Configure(h)
    BY <1>1, <2>2 DEF Configure, SetCodec, SetDestination, SetArchiveName,
         WithFilter, WithHook, Seal, Reopen, Copy
  <2>3. CASE EditEntries(h)
    <3>1. PICK entries : Put(h, entries)
      BY <2>3 DEF EditEntries, AddFileAs, AddDirectory, AddBytes, AddStream,
                  AddObject, RemoveItem
    <3> QED BY <1>1, <3>1 DEF Put
  <2>4. CASE EditManifest(h)
    BY <1>1, <2>4 DEF EditManifest, CreateManifest, AddToManifest
  <2>5. CASE StartBuild(h)
    <3>1. PICK sink : job' = NewJob(h, zip[h], sink)
      BY <2>5 DEF StartBuild, Build, BuildFile
    <3> QED BY <3>1, NewJobTells
  <2> QED BY <2>1, <2>2, <2>3, <2>4, <2>5
<1>3. CASE RunBuild
  <2>1. CASE EncodeEntry
    BY <2>1, EncodeTells
  <2>2. CASE CancelBuild \/ LoadFails \/ FilterFails \/ NoTarget
    BY <2>2, OutcomeTells DEF CancelBuild, LoadFails, FilterFails, NoTarget,
         Encoding, Encoded
  <2>3. CASE BuildBytes
    BY <2>3, OutcomeTells DEF BuildBytes, Encoded
  <2>4. CASE WriteArchive
    <3>1. PICK o : job' = [job EXCEPT !.outcome = o]
      BY <2>4 DEF WriteArchive
    <3> QED BY <2>4, <3>1, OutcomeTells DEF WriteArchive, Encoded
  <2>5. CASE Return
    BY <2>5 DEF Return, ArchiveTellsCall
  <2> QED BY <1>3, <2>1, <2>2, <2>3, <2>4, <2>5 DEF RunBuild, BuildStep
<1>4. CASE Environment \/ UNCHANGED vars
  BY <1>1, <1>4 DEF Environment, WriteFile, RemoveFile, vars
<1> QED BY <1>2, <1>3, <1>4 DEF Next

LEMMA TellsIsInvariant == Spec => []ArchiveTellsCall
<1>1. Init => ArchiveTellsCall
  BY DEF Init, ArchiveTellsCall
<1> QED BY <1>1, NextTells, InvIsInvariant, PTL DEF Spec

\* The archive of a successful build has, entry by entry, the entries to build.
LEMMA BuiltIsWhole ==
  ASSUME Inv, ArchiveTellsCall, job # Nothing, job.outcome = "ok"
  PROVE  /\ DOMAIN job.archive = DOMAIN job.work
         /\ \A i \in DOMAIN job.work : job.archive[i].path = job.work[i].path
<1>1. JobOK
  BY InvParts
<1>2. DOMAIN job.archive = DOMAIN job.work
  BY <1>1, SequenceProperties DEF JobOK, ArchiveTellsCall
<1> QED BY <1>1, <1>2 DEF JobOK

\* Whatever callbacks do to a zipper while it is built, the archive has the
\* paths of the call.
THEOREM ArchivesAreSnapshots == Spec => []ArchiveIsSnapshot
<1>1. Inv /\ ArchiveTellsCall => ArchiveIsSnapshot
  <2> SUFFICES ASSUME Inv, ArchiveTellsCall, job # Nothing, job.outcome = "ok"
               PROVE  PathsOf(job.archive) = PathsOf(job.work)
    BY DEF ArchiveIsSnapshot, ArchiveTellsCall
  <2> QED BY BuiltIsWhole DEF PathsOf
<1> QED BY <1>1, InvIsInvariant, TellsIsInvariant, PTL

\* Whatever entries the caller put at the manifest's path, and whatever commands
\* the callbacks add, the archive has the manifest of the call.
THEOREM ManifestsAreFinal == Spec => []ManifestIsFinal
<1>1. Inv /\ ArchiveTellsCall => ManifestIsFinal
  <2> SUFFICES ASSUME Inv, ArchiveTellsCall, job # Nothing, job.outcome = "ok",
                      NEW text \in job.wanted
               PROVE  \E i \in DOMAIN job.archive :
                        /\ job.archive[i].path = ManifestPath
                        /\ job.archive[i].kind = "manifest"
                        /\ job.archive[i].payload = text
    BY DEF ManifestIsFinal
  <2>1. PICK i \in DOMAIN job.work :
          job.work[i] = Entry(ManifestPath, "manifest", ManifestLoad(text))
    BY DEF ArchiveTellsCall
  <2>2. /\ job.work[i].path = ManifestPath /\ job.work[i].kind = "manifest"
        /\ job.work[i].load.from = "manifest" /\ job.work[i].load.text = text
    BY <2>1 DEF Entry, ManifestLoad
  <2>3. /\ i \in DOMAIN job.archive
        /\ job.archive[i].path = job.work[i].path
    BY BuiltIsWhole
  <2> QED BY <2>2, <2>3 DEF ArchiveTellsCall
<1> QED BY <1>1, InvIsInvariant, TellsIsInvariant, PTL

-----------------------------------------------------------------------------
(* The list of entries implements the map *)

Content == [h \in Handles |-> EntryMap(zip[h].entries)]
SealedOnes == {h \in Handles : zip[h].sealed}

LEMMA SameMap ==
  ASSUME \A h \in Handles : /\ zip'[h].entries = zip[h].entries
                             /\ zip'[h].sealed = zip[h].sealed
  PROVE  UNCHANGED Map!vars
<1>1. Content' = Content /\ SealedOnes' = SealedOnes
  BY DEF Content, SealedOnes
<1> QED BY <1>1 DEF Map!vars, Content, SealedOnes

\* A call that changes the entries of one zipper edits one map.
LEMMA PutEdits ==
  ASSUME Inv, NEW h \in Handles, NEW entries, Put(h, entries)
  PROVE  /\ Map!Edit(h)
         /\ Content[h] = EntryMap(zip[h].entries)
         /\ Content'[h] = EntryMap(entries)
<1>1. zip \in [Handles -> Zippers]
  BY DEF Inv, TypeOK
<1>2. zip' = [zip EXCEPT ![h].entries = entries] /\ ~zip[h].sealed
  BY DEF Put, ensure_mutable
<1>3. /\ \A g \in Handles \ {h} : zip'[g] = zip[g]
      /\ zip'[h].entries = entries /\ zip'[h].sealed = zip[h].sealed
  BY <1>1, <1>2 DEF Zippers
<1>4. SealedOnes' = SealedOnes /\ h \notin SealedOnes
  BY <1>2, <1>3 DEF SealedOnes
<1>5. /\ DOMAIN Content' = Handles /\ Content'[h] = EntryMap(entries)
      /\ \A g \in Handles \ {h} : Content'[g] = Content[g]
      /\ Content[h] = EntryMap(zip[h].entries)
  BY <1>3 DEF Content
<1> QED BY <1>4, <1>5 DEF Map!Edit, Content, SealedOnes

\* Adding one entry touches one path.
LEMMA UpsertPuts ==
  ASSUME Inv, NEW h \in Handles, NEW e \in Entries,
         Put(h, upsert_entry(zip[h].entries, e))
  PROVE  Map!Put(h)
<1> DEFINE s == zip[h].entries
           t == upsert_entry(s, e)
<1>1. s \in Lists(Entries) /\ t \in Lists(Entries)
  BY EntriesAreLists, UpsertKeepsLists
<1>2. /\ Map!Edit(h) /\ Content[h] = EntryMap(s) /\ Content'[h] = EntryMap(t)
  BY PutEdits
<1>3. PathsOf(t) = PathsOf(s) \cup {e.path} /\ Elements(t) \subseteq Elements(s) \cup {e}
  BY <1>1, UpsertHolds, UpsertElements
<1> HIDE DEF s, t
<1>4. /\ DOMAIN EntryMap(s) = PathsOf(s) /\ DOMAIN EntryMap(t) = PathsOf(t)
      /\ PathsOf(t) = {x.path : x \in Elements(t)}
  BY <1>1, MapHolds
<1>5. ASSUME NEW q \in DOMAIN Content'[h] \ {e.path} PROVE Map!SameAt(h, q)
  <2>1. PICK x \in Elements(t) : q = x.path
    BY <1>2, <1>4
  <2>2. x \in Elements(s)
    BY <1>3, <2>1
  <2>3. /\ q \in DOMAIN EntryMap(s) /\ q \in DOMAIN EntryMap(t)
        /\ EntryMap(t)[q] = EntryMap(s)[q]
    BY <1>1, <2>1, <2>2, MapsAgree
  <2> QED BY <1>2, <2>3 DEF Map!SameAt, Content
<1>6. DOMAIN Content[h] \subseteq DOMAIN Content'[h] /\ e.path \in DOMAIN Content'[h]
  BY <1>2, <1>3, <1>4
<1> QED BY <1>2, <1>5, <1>6 DEF Map!Put, Content

\* Adding a directory loses no path and adds directories and files only.
LEMMA UpsertAllPutsTree ==
  ASSUME Inv, NEW h \in Handles, NEW root \in Entries, NEW new \in Seq(Entries),
         root.kind = "directory",
         \A e \in Elements(new) : e.kind \in {"file", "directory"},
         Put(h, UpsertAll(upsert_entry(zip[h].entries, root), new))
  PROVE  Map!PutTree(h)
<1> DEFINE s == zip[h].entries
           r == upsert_entry(s, root)
           t == UpsertAll(r, new)
<1>1. s \in Lists(Entries) /\ r \in Lists(Entries) /\ t \in Lists(Entries)
  BY EntriesAreLists, UpsertKeepsLists, UpsertAllKeepsLists
<1>2. /\ Map!Edit(h) /\ Content[h] = EntryMap(s) /\ Content'[h] = EntryMap(t)
  BY PutEdits
<1>3. /\ PathsOf(s) \subseteq PathsOf(r)
      /\ Elements(r) \subseteq Elements(s) \cup {root}
  BY <1>1, UpsertElements
<1>4. /\ PathsOf(r) \subseteq PathsOf(t)
      /\ Elements(t) \subseteq Elements(r) \cup Elements(new)
  <2> HIDE DEF r
  <2> QED BY <1>1, UpsertAllElements
<1> HIDE DEF s, r, t
<1>5. /\ DOMAIN EntryMap(s) = PathsOf(s) /\ DOMAIN EntryMap(t) = PathsOf(t)
      /\ PathsOf(t) = {x.path : x \in Elements(t)}
      /\ \A x \in Elements(t) : EntryMap(t)[x.path] = x
  BY <1>1, MapHolds
<1>6. ASSUME NEW p \in DOMAIN Content'[h]
      PROVE  Map!SameAt(h, p) \/ Content'[h][p].kind \in {"file", "directory"}
  <2>1. PICK x \in Elements(t) : p = x.path
    BY <1>2, <1>5
  <2>2. CASE x \in Elements(s)
    <3>1. /\ p \in DOMAIN EntryMap(s) /\ p \in DOMAIN EntryMap(t)
          /\ EntryMap(t)[p] = EntryMap(s)[p]
      BY <1>1, <2>1, <2>2, MapsAgree
    <3> QED BY <1>2, <3>1 DEF Map!SameAt, Content
  <2>3. CASE x \notin Elements(s)
    <3>1. x.kind \in {"file", "directory"}
      BY <1>3, <1>4, <2>3
    <3> QED BY <1>2, <1>5, <2>1, <3>1
  <2> QED BY <2>2, <2>3
<1>7. DOMAIN Content[h] \subseteq DOMAIN Content'[h]
  BY <1>2, <1>3, <1>4, <1>5
<1> QED BY <1>2, <1>6, <1>7 DEF Map!PutTree, Content

\* Removing an item takes its two paths away and nothing else.
LEMMA RemoveRemoves ==
  ASSUME Inv, NEW h \in Handles, NEW raw, RemoveItem(h, raw)
  PROVE  Map!Remove(h)
<1> DEFINE s == zip[h].entries
           p == normalize_entry_path(raw, FALSE)
           d == normalize_entry_path(raw, TRUE)
           r == erase_exact(s, p)
           t == erase_exact(r, d)
<1>1. s \in Lists(Entries) /\ r \in Lists(Entries) /\ t \in Lists(Entries)
  BY EntriesAreLists, EraseKeepsLists
<1>2. /\ Map!Edit(h) /\ Content[h] = EntryMap(s) /\ Content'[h] = EntryMap(t)
  BY PutEdits DEF RemoveItem
<1>3. Elements(r) = {e \in Elements(s) : e.path # p}
  <2> HIDE DEF s, p
  <2>1. s \in Seq(Entries)
    BY <1>1 DEF Lists
  <2> QED BY <2>1, EraseElements
<1>4. Elements(t) = {e \in Elements(r) : e.path # d}
  <2> HIDE DEF r, d
  <2>1. r \in Seq(Entries)
    BY <1>1 DEF Lists
  <2> QED BY <2>1, EraseElements
<1>5. p.parts = d.parts
  BY DEF normalize_entry_path
<1> HIDE DEF s, r, t, p, d
<1>6. /\ DOMAIN EntryMap(s) = {e.path : e \in Elements(s)}
      /\ DOMAIN EntryMap(t) = {e.path : e \in Elements(t)}
  BY <1>1, MapHolds
<1>7. ASSUME NEW q \in DOMAIN Content'[h] PROVE Map!SameAt(h, q)
  <2>1. PICK x \in Elements(t) : q = x.path
    BY <1>2, <1>6
  <2>2. x \in Elements(s)
    BY <1>3, <1>4, <2>1
  <2>3. /\ q \in DOMAIN EntryMap(s) /\ q \in DOMAIN EntryMap(t)
        /\ EntryMap(t)[q] = EntryMap(s)[q]
    BY <1>1, <2>1, <2>2, MapsAgree
  <2> QED BY <1>2, <2>3 DEF Map!SameAt, Content
<1>8. DOMAIN Content'[h] \subseteq DOMAIN Content[h]
  BY <1>2, <1>3, <1>4, <1>6
<1>9. DOMAIN Content[h] \ DOMAIN Content'[h] \subseteq {p, d}
  BY <1>2, <1>3, <1>4, <1>6
<1>10. \A x, y \in DOMAIN Content[h] \ DOMAIN Content'[h] : x.parts = y.parts
  BY <1>5, <1>9
<1> QED BY <1>2, <1>7, <1>8, <1>10 DEF Map!Remove, Content

LEMMA CopyAssigns ==
  ASSUME Inv, NEW h \in Handles, NEW g \in Handles, Copy(h, g)
  PROVE  Map!Assign(h, g)
<1>1. zip \in [Handles -> Zippers]
  BY DEF Inv, TypeOK
<1>2. \A f \in Handles : zip'[f] = IF f = g THEN zip[h] ELSE zip[f]
  BY <1>1 DEF Copy
<1>3. Content' = [Content EXCEPT ![g] = Content[h]]
  BY <1>2 DEF Content
<1>4. SealedOnes' = IF h \in SealedOnes THEN SealedOnes \cup {g} ELSE SealedOnes \ {g}
  BY <1>2 DEF SealedOnes
<1> QED BY <1>3, <1>4 DEF Map!Assign, Content, SealedOnes

LEMMA SealMaps ==
  ASSUME Inv, NEW h \in Handles
  PROVE  /\ Seal(h) => Map!Seal(h)
         /\ Reopen(h) => Map!Reopen(h)
<1>1. zip \in [Handles -> Zippers]
  BY DEF Inv, TypeOK
<1>2. ASSUME NEW b \in BOOLEAN, zip' = [zip EXCEPT ![h].sealed = b]
      PROVE  /\ Content' = Content
             /\ SealedOnes' = IF b THEN SealedOnes \cup {h} ELSE SealedOnes \ {h}
  <2>1. \A f \in Handles : /\ zip'[f].entries = zip[f].entries
                            /\ zip'[f].sealed = IF f = h THEN b ELSE zip[f].sealed
    BY <1>1, <1>2 DEF Zippers
  <2> QED BY <2>1 DEF Content, SealedOnes
<1>3. ASSUME Seal(h) PROVE Map!Seal(h)
  BY <1>2, <1>3 DEF Seal, Map!Seal, Content, SealedOnes
<1>4. ASSUME Reopen(h) PROVE Map!Reopen(h)
  BY <1>2, <1>4 DEF Reopen, Map!Reopen, Content, SealedOnes
<1> QED BY <1>3, <1>4

LEMMA ConfigureMaps ==
  ASSUME Inv, NEW h \in Handles, Configure(h)
  PROVE  Map!Next \/ UNCHANGED Map!vars
<1>1. zip \in [Handles -> Zippers]
  BY DEF Inv, TypeOK
<1>2. CASE \/ \E c \in Codecs : SetCodec(h, c)
           \/ \E d \in Destinations : SetDestination(h, d)
           \/ \E n \in ArchiveNames : SetArchiveName(h, n)
           \/ \E f \in Filters : WithFilter(h, f)
           \/ \E hook \in Hooks : WithHook(h, hook)
  <2> DEFINE Same == \A g \in Handles : /\ zip'[g].entries = zip[g].entries
                                        /\ zip'[g].sealed = zip[g].sealed
  <2>1. ASSUME NEW c \in Codecs, SetCodec(h, c) PROVE Same
    BY <1>1, <2>1 DEF SetCodec, Zippers
  <2>2. ASSUME NEW d \in Destinations, SetDestination(h, d) PROVE Same
    BY <1>1, <2>2 DEF SetDestination, Zippers
  <2>3. ASSUME NEW n \in ArchiveNames, SetArchiveName(h, n) PROVE Same
    BY <1>1, <2>3 DEF SetArchiveName, Zippers
  <2>4. ASSUME NEW f \in Filters, WithFilter(h, f) PROVE Same
    BY <1>1, <2>4 DEF WithFilter, Zippers
  <2>5. ASSUME NEW hook \in Hooks, WithHook(h, hook) PROVE Same
    BY <1>1, <2>5 DEF WithHook, Zippers
  <2>6. Same
    BY <1>2, <2>1, <2>2, <2>3, <2>4, <2>5
  <2> QED BY <2>6, SameMap
<1>3. CASE Seal(h) \/ Reopen(h)
  BY <1>3, SealMaps DEF Map!Next
<1>4. CASE \E g \in Handles \ {h} : Copy(h, g)
  BY <1>4, CopyAssigns DEF Map!Next
<1> QED BY <1>2, <1>3, <1>4 DEF Configure

LEMMA EditEntriesMaps ==
  ASSUME Inv, NEW h \in Handles, EditEntries(h)
  PROVE  Map!Next
<1>1. PICK raw \in RawPaths :
        \/ \E host \in Hosts : AddFileAs(h, host, raw)
        \/ \E r \in BOOLEAN : AddDirectory(h, raw, r)
        \/ \E c \in Buffers : AddBytes(h, raw, c)
        \/ \E st \in Streams : AddStream(h, raw, st)
        \/ \E c \in Objects, e \in BOOLEAN : AddObject(h, raw, c, e)
        \/ RemoveItem(h, raw)
  BY DEF EditEntries
<1>2. raw \in Seq(Names \cup Skipped \cup {Up})
  BY NormalRawPath
<1>3. {"file", "directory", "generated", "object"} \subseteq Kinds
  BY DEF Kinds
<1>4. DirectoryEntry(raw) \in Entries /\ DirectoryEntry(raw).kind = "directory"
  BY <1>2, <1>3, LoadTypes, EntryType DEF DirectoryEntry, Entry
<1>5. ASSUME NEW host \in Hosts, AddFileAs(h, host, raw) PROVE Map!Put(h)
  <2>1. FileEntry(host, raw) \in Entries
    <3>1. FileLoad(normalize_relative_path(host)) \in Loads
      BY NormalRawPath, LoadTypes
    <3> QED BY <1>2, <1>3, <3>1, EntryType DEF FileEntry
  <2> QED BY <1>5, <2>1, UpsertPuts DEF AddFileAs
<1>6. ASSUME NEW r \in BOOLEAN, AddDirectory(h, raw, r)
      PROVE  Map!Put(h) \/ Map!PutTree(h)
  <2> DEFINE dir == normalize_relative_path(raw)
  <2>1. CASE dir \notin Dirs
    BY <1>4, <1>6, <2>1, UpsertPuts DEF AddDirectory
  <2>2. CASE dir \in Dirs
    <3>1. PICK order \in IterationOrder(Listing(dir, r)) : \E yielded \in 0..Len(order) :
            Put(h, UpsertAll(upsert_entry(zip[h].entries, DirectoryEntry(raw)),
                             [i \in 1..yielded |-> Child(dir, order[i])]))
      BY <1>6, <2>2 DEF AddDirectory
    <3>2. PICK yielded \in 0..Len(order) :
            Put(h, UpsertAll(upsert_entry(zip[h].entries, DirectoryEntry(raw)),
                             [i \in 1..yielded |-> Child(dir, order[i])]))
      BY <3>1
    <3> DEFINE new == [i \in 1..yielded |-> Child(dir, order[i])]
    <3>3. new \in Seq(Entries)
      BY YieldedType
    <3>4. \A e \in Elements(new) : e.kind \in {"file", "directory"}
      <4>1. \A node : Child(dir, node).kind \in {"file", "directory"}
        BY DEF Child, DirectoryEntry, Entry
      <4>2. /\ DOMAIN new = 1..yielded
            /\ \A i \in 1..yielded : new[i] = Child(dir, order[i])
        OBVIOUS
      <4> HIDE DEF new, dir
      <4> QED BY <4>1, <4>2 DEF Elements
    <3> HIDE DEF new
    <3> QED BY <1>4, <3>2, <3>3, <3>4, UpsertAllPutsTree DEF new
  <2> QED BY <2>1, <2>2
<1>7. ASSUME NEW c \in Buffers, AddBytes(h, raw, c) PROVE Map!Put(h)
  <2>1. Entry(normalize_entry_path(raw, FALSE), "generated", BytesLoad(c)) \in Entries
    BY <1>2, <1>3, LoadTypes, EntryType
  <2> QED BY <1>7, <2>1, UpsertPuts DEF AddBytes
<1>8. ASSUME NEW st \in Streams, AddStream(h, raw, st) PROVE Map!Put(h)
  <2>1. Entry(normalize_entry_path(raw, FALSE), "generated", StreamLoad(st)) \in Entries
    BY <1>2, <1>3, LoadTypes, EntryType
  <2> QED BY <1>8, <2>1, UpsertPuts DEF AddStream
<1>9. ASSUME NEW c \in Objects, NEW b \in BOOLEAN, AddObject(h, raw, c, b) PROVE Map!Put(h)
  <2>1. Entry(normalize_entry_path(raw, FALSE), "object", ObjectLoad(c, b)) \in Entries
    BY <1>2, <1>3, LoadTypes, EntryType
  <2> QED BY <1>9, <2>1, UpsertPuts DEF AddObject
<1>10. ASSUME RemoveItem(h, raw) PROVE Map!Remove(h)
  BY <1>10, RemoveRemoves
<1> QED BY <1>1, <1>5, <1>6, <1>7, <1>8, <1>9, <1>10 DEF Map!Next

LEMMA NextMaps == Inv /\ [Next]_vars => [Map!Next]_(Map!vars)
<1> SUFFICES ASSUME Inv, [Next]_vars PROVE Map!Next \/ UNCHANGED Map!vars
  OBVIOUS
<1>1. zip \in [Handles -> Zippers]
  BY DEF Inv, TypeOK
<1>2. ASSUME UNCHANGED zip PROVE UNCHANGED Map!vars
  BY <1>2, SameMap
<1>3. CASE Caller
  <2>1. PICK h \in Handles : Configure(h) \/ EditEntries(h)
                               \/ EditManifest(h) \/ StartBuild(h)
    BY <1>3 DEF Caller
  <2>2. CASE EditManifest(h) \/ StartBuild(h)
    <3> DEFINE Same == \A g \in Handles : /\ zip'[g].entries = zip[g].entries
                                          /\ zip'[g].sealed = zip[g].sealed
    <3>1. ASSUME NEW m \in Manifests, CreateManifest(h, m) PROVE Same
      BY <1>1, <3>1 DEF CreateManifest, Zippers
    <3>2. ASSUME NEW cmd \in Commands, AddToManifest(h, cmd) PROVE Same
      BY <3>2 DEF AddToManifest
    <3>3. ASSUME NEW sink \in Sinks, Build(h, sink) PROVE Same
      BY <3>3 DEF Build
    <3>4. ASSUME NEW d \in Destinations, NEW n \in ArchiveNames, BuildFile(h, d, n)
          PROVE  Same
      BY <1>1, <3>4 DEF BuildFile, Zippers
    <3>5. Same
      BY <2>2, <3>1, <3>2, <3>3, <3>4 DEF EditManifest, StartBuild
    <3> QED BY <3>5, SameMap
  <2> QED BY <2>1, <2>2, ConfigureMaps, EditEntriesMaps
<1>4. CASE RunBuild \/ Environment \/ UNCHANGED vars
  <2>1. UNCHANGED zip
    BY <1>4 DEF RunBuild, BuildStep, EncodeEntry, CancelBuild, LoadFails, FilterFails,
       BuildBytes, NoTarget, WriteArchive, Return, Environment, WriteFile,
       RemoveFile, vars
  <2> QED BY <1>2, <2>1
<1> QED BY <1>3, <1>4 DEF Next

LEMMA InitMaps == Init => Map!Init
<1> SUFFICES ASSUME Init PROVE Map!Init
  OBVIOUS
<1>1. \A h \in Handles : zip[h].entries = <<>> /\ ~zip[h].sealed
  BY DEF Init, make_zipper
<1>2. DOMAIN <<>> = {}
  BY EmptySeq
<1>3. \A h \in Handles : DOMAIN EntryMap(zip[h].entries) = {}
  BY <1>1, <1>2 DEF EntryMap, PathsOf
<1> QED BY <1>1, <1>3 DEF Map!Init

\* Seen as a map from paths to entries, a zipper does only what ArchiveMap
\* promises, whatever calls, callbacks and builds it goes through.
THEOREM EntriesImplementMap == Spec => ImplementsMap
BY InitMaps, NextMaps, InvIsInvariant, PTL DEF Spec, ImplementsMap, Map!Spec

-----------------------------------------------------------------------------
(* A build returns *)

\* What the steps of a build, and the calls and changes around it, make of it.
Returned == job.outcome # "running" /\ job' = Nothing

Ended ==
  /\ job.outcome = "running"
  /\ job'.outcome \in {"ok", "failed"}
  /\ job'.work = job.work /\ job'.owner = job.owner

OneMoreEntry ==
  /\ job.outcome = "running" /\ job'.outcome = "running"
  /\ job'.work = job.work /\ job'.owner = job.owner
  /\ Len(job'.archive) = Len(job.archive) + 1
  /\ Len(job'.archive) <= Len(job.work)

LEMMA BuildAdvances ==
  ASSUME Inv, job # Nothing, RunBuild
  PROVE  Returned \/ Ended \/ OneMoreEntry
<1>0. JobOK
  BY InvParts
<1>1. ASSUME NEW o, job' = [job EXCEPT !.outcome = o], job.outcome = "running",
             o \in {"ok", "failed"}
      PROVE  Ended
  BY <1>0, <1>1 DEF JobOK, Ended
<1>2. CASE EncodeEntry
  <2> DEFINE z == zip[job.owner]
             r == [path |-> Current.path, kind |-> Current.kind, codec |-> z.codec,
                   filters |-> z.filters, payload |-> Payload(Current.load)]
  <2>1. /\ job' = [job EXCEPT !.archive = Append(@, r)]
        /\ job.outcome = "running" /\ Len(job.archive) < Len(job.work)
    BY <1>2 DEF EncodeEntry, Encoding
  <2> HIDE DEF r
  <2>2. /\ job'.outcome = job.outcome /\ job'.work = job.work /\ job'.owner = job.owner
        /\ job'.archive = Append(job.archive, r)
    BY <1>0, <2>1 DEF JobOK
  <2>3. IsSequence(job.archive) /\ IsSequence(job.work)
    BY <1>0 DEF JobOK
  <2>4. Len(job'.archive) = Len(job.archive) + 1
    BY <2>2, <2>3 DEF IsSequence
  <2>5. Len(job.archive) \in Nat /\ Len(job.work) \in Nat
    BY <2>3, SequenceProperties
  <2> QED BY <2>1, <2>2, <2>4, <2>5 DEF OneMoreEntry
<1>3. CASE CancelBuild \/ LoadFails \/ FilterFails
  BY <1>1, <1>3 DEF CancelBuild, LoadFails, FilterFails, Encoding
<1>4. CASE BuildBytes \/ NoTarget
  BY <1>1, <1>4 DEF BuildBytes, NoTarget, Encoded
<1>5. CASE WriteArchive
  <2>1. PICK written \in WriteOutcomes(Target(zip[job.owner])) :
          job' = [job EXCEPT !.outcome = written.reports]
    BY <1>5 DEF WriteArchive
  <2>2. written.reports \in {"ok", "failed"}
    BY DEF WriteOutcomes
  <2>3. job.outcome = "running"
    BY <1>5 DEF WriteArchive, Encoded
  <2> QED BY <1>1, <2>1, <2>2, <2>3
<1>6. CASE Return
  BY <1>6 DEF Return, Returned
<1> QED BY <1>2, <1>3, <1>4, <1>5, <1>6 DEF RunBuild, BuildStep

\* No other step has a part in a build: neither a call of the program, one that
\* a hook makes on the zipper being built included, nor a change on disk.
LEMMA OthersKeepBuild ==
  ASSUME job # Nothing, Caller \/ Environment
  PROVE  job' = job
<1>1. CASE Caller
  <2>1. PICK h \in Handles : Configure(h) \/ EditEntries(h)
                               \/ EditManifest(h) \/ StartBuild(h)
    BY <1>1 DEF Caller
  <2>2. CASE Configure(h)
    BY <2>2 DEF Configure, SetCodec, SetDestination, SetArchiveName,
         WithFilter, WithHook, Seal, Reopen, Copy
  <2>3. CASE EditEntries(h)
    <3>1. PICK entries : Put(h, entries)
      BY <2>3 DEF EditEntries, AddFileAs, AddDirectory, AddBytes, AddStream,
                  AddObject, RemoveItem
    <3> QED BY <3>1 DEF Put
  <2>4. CASE EditManifest(h)
    BY <2>4 DEF EditManifest, CreateManifest, AddToManifest
  <2>5. CASE StartBuild(h)
    BY <2>5 DEF StartBuild, Build, BuildFile
  <2> QED BY <2>1, <2>2, <2>3, <2>4, <2>5
<1>2. CASE Environment
  BY <1>2 DEF Environment, WriteFile, RemoveFile
<1> QED BY <1>1, <1>2

\* A build cannot go on for ever: each of its steps returns, ends it, or encodes
\* one more of the entries it began with, of which nothing that happens
\* meanwhile makes more.
THEOREM BuildsRunOut ==
  Spec => [][job # Nothing =>
               \/ job' = job /\ ~RunBuild
               \/ Returned \/ Ended \/ OneMoreEntry]_vars
<1>1. ASSUME Inv, Next, job # Nothing
      PROVE  \/ job' = job /\ ~RunBuild
             \/ Returned \/ Ended \/ OneMoreEntry
  BY <1>1, BuildAdvances, OthersKeepBuild DEF Next
<1> DEFINE Goes == \/ job' = job /\ ~RunBuild
                   \/ Returned \/ Ended \/ OneMoreEntry
<1>2. Inv /\ [Next]_vars => [job # Nothing => Goes]_vars
  BY <1>1
<1> HIDE DEF Goes
<1> QED BY <1>2, InvIsInvariant, PTL DEF Spec, Goes

\* A build is never stuck: there is an entry to encode, bytes to hand back, a
\* file to write, or the end of the call.
THEOREM BuildsGoOn ==
  Spec => [](job # Nothing =>
               \/ job.outcome # "running"
               \/ Encoding
               \/ Encoded /\ job.sink \in {"memory", "file"})
<1>1. ASSUME Inv, job # Nothing, job.outcome = "running"
      PROVE  Encoding \/ (Encoded /\ job.sink \in {"memory", "file"})
  <2>1. JobOK
    BY <1>1, InvParts
  <2>2. job.sink \in {"memory", "file"}
    BY <1>1, <2>1, SinksAssumption DEF JobOK
  <2>3. /\ Len(job.archive) \in Nat /\ Len(job.work) \in Nat
        /\ Len(job.archive) <= Len(job.work)
    BY <1>1, <2>1, SequenceProperties DEF JobOK
  <2> QED BY <1>1, <2>2, <2>3 DEF Encoding, Encoded
<1> DEFINE Goes == \/ job.outcome # "running"
                   \/ Encoding
                   \/ Encoded /\ job.sink \in {"memory", "file"}
<1>2. Inv => (job # Nothing => Goes)
  BY <1>1
<1> HIDE DEF Goes
<1> QED BY <1>2, InvIsInvariant, PTL DEF Goes

=============================================================================
