-------------------------- MODULE ExtractorProofs --------------------------
(***************************************************************************)
(* Proofs about Extractor, for every archive, every tree that was there    *)
(* before, every conflict policy and whatever other programs do at their   *)
(* own places.                                                             *)
(*                                                                         *)
(* While an extraction runs, all that changed under the destination lies   *)
(* at or above entries it has written, and the file it is about to write   *)
(* is one it may.                                                          *)
(***************************************************************************)
EXTENDS Extractor, FiniteSetTheorems, SequenceTheorems, TLAPS

\* A failed flush is the one error no one is told of.
ErrorsReported == "flush" \notin DiskErrors

Place(i) == records[i].path.parts

IsRun ==
  /\ DOMAIN run = {"phase", "at", "count", "wrote"}
  /\ run.phase \in {"entry", "write", "ok", "failed"}
  /\ run.at \in Nat /\ run.count \in Nat /\ run.wrote \subseteq Nat

RunOK ==
  \/ run = Idle
  \/ /\ IsRun
     /\ opened
     /\ run.at <= Len(records) + 1
     /\ run.phase # "failed" => run.at # 0
     /\ run.phase \in {"write", "failed"} => run.at <= Len(records)
     /\ run.phase = "ok" => run.at = Len(records) + 1
     /\ run.phase = "write" => record.kind # "directory"
     /\ run.wrote \subseteq 1..(run.at - 1)
     /\ IsFiniteSet(run.wrote) /\ run.count = Cardinality(run.wrote)

RecordsOK ==
  /\ archive \in Archives
  /\ records = IF opened THEN archive ELSE <<>>
  /\ DOMAIN fs = Places /\ DOMAIN before = Places

\* The write that was allowed by the test is still allowed.
WriteIsAllowed ==
  run.phase = "write" =>
    policy = "replace" \/ target \in Intruded \/ fs[target] = Absent

Changed(p) == p \in Places \ Intruded /\ fs[p] # before[p]

ChangesAreWritten ==
  run # Idle =>
    \A p \in Places : Changed(p) =>
      \/ \E i \in run.wrote : p \in Upto(Place(i))
      \/ run.phase = "failed" /\ run.at # 0 /\ p \in Upto(Place(run.at))

\* Of each entry come past: it was written, or there was something in its place.
EntriesAreHandled ==
  run # Idle /\ run.phase # "failed" =>
    \A i \in 1..(run.at - 1) :
      \/ i \in run.wrote
      \/ Place(i) \in Intruded
      \/ before[Place(i)] # Absent
      \/ \E j \in run.wrote : j < i /\ Place(i) \in Upto(Place(j))

WrittenIsInPlace ==
  run # Idle /\ ErrorsReported => \A i \in run.wrote : Own(i) => InPlace(i)

Inv ==
  /\ RecordsOK
  /\ RunOK
  /\ WriteIsAllowed
  /\ ChangesAreWritten
  /\ EntriesAreHandled
  /\ WrittenIsInPlace

-----------------------------------------------------------------------------
(* Places *)

LEMMA PlaceIsIts ==
  ASSUME NEW p \in Places
  PROVE  p \in Upto(p) /\ p \notin Above(p)
<1> DEFINE S == {p[i] : i \in DOMAIN p}
<1>1. p \in Seq(S)
  BY PlacesAssumption
<1> HIDE DEF S
<1>2. Len(p) \in Nat /\ DOMAIN p = 1..Len(p) /\ p = [i \in 1..Len(p) |-> p[i]]
  BY <1>1
<1>3. SubSeq(p, 1, Len(p)) = p
  BY <1>1, <1>2
<1> QED BY <1>2, <1>3 DEF Upto, Above

LEMMA RecordFacts ==
  ASSUME RecordsOK
  PROVE  /\ Len(records) \in Nat /\ DOMAIN records = 1..Len(records)
         /\ \A i \in DOMAIN records : Place(i) \in Places
         /\ \A i, j \in DOMAIN records :
              /\ records[i].kind # "directory" /\ records[j].kind # "directory"
              /\ Place(i) = Place(j)
              => i = j
<1>1. CASE opened
  BY <1>1, ArchivesAssumption DEF RecordsOK, Place
<1>2. CASE ~opened
  BY <1>2 DEF RecordsOK, Place
<1> QED BY <1>1, <1>2

LEMMA InvInit == Init => Inv
<1> SUFFICES ASSUME Init PROVE Inv
  OBVIOUS
<1>1. run = Idle /\ run.phase = "idle" /\ RecordsOK
  BY DEF Init, Idle, RecordsOK
<1> QED BY <1>1
        DEF Inv, RunOK, WriteIsAllowed, ChangesAreWritten, EntriesAreHandled, WrittenIsInPlace

-----------------------------------------------------------------------------
(* The steps *)

\* Entries come past are counted or skipped; the conjuncts about those before
\* carry over when nothing they speak of changed.
LEMMA OpenKeepsInv == Inv /\ Open => Inv'
<1> SUFFICES ASSUME Inv, Open PROVE Inv'
  OBVIOUS
<1>1. /\ ~opened /\ opened' /\ records' = archive
      /\ UNCHANGED <<archive, filters, policy, destination, fs, run, before>>
  BY DEF Open
<1>2. run = Idle /\ run.phase = "idle"
  BY <1>1 DEF Inv, RunOK, Idle
<1>3. RecordsOK'
  BY <1>1 DEF Inv, RecordsOK
<1> QED BY <1>1, <1>2, <1>3
        DEF Inv, RunOK, WriteIsAllowed, ChangesAreWritten, EntriesAreHandled, WrittenIsInPlace

LEMMA ConfigureKeepsInv == Inv /\ Configure => Inv'
<1> SUFFICES ASSUME Inv, Configure PROVE Inv'
  OBVIOUS
<1>1. run.phase # "write" /\ UNCHANGED <<archive, records, opened, fs, run, before>>
  BY DEF Configure, WithFilter, OnConflict, SetDestination
<1> QED BY <1>1
        DEF IsRun, Inv, RecordsOK, RunOK, WriteIsAllowed, ChangesAreWritten, Changed, EntriesAreHandled,
            WrittenIsInPlace, InPlace, Own, Place, record, target

LEMMA ExtractAllKeepsInv == Inv /\ ExtractAll => Inv'
<1> SUFFICES ASSUME Inv, ExtractAll PROVE Inv'
  OBVIOUS
<1>1. /\ opened /\ UNCHANGED <<archive, records, opened, filters, policy, destination, fs>>
      /\ run' \in {Begun, Refused}
      /\ before' = fs
  BY DEF ExtractAll
<1>2. RecordsOK'
  BY <1>1 DEF Inv, RecordsOK
<1>3. Len(records) \in Nat
  BY RecordFacts DEF Inv
<1>4. RunOK'
  <2>1. IsFiniteSet({}) /\ Cardinality({}) = 0 /\ {} \subseteq 1..(1 - 1) /\ {} \subseteq 1..(0 - 1)
    BY FS_EmptySet
  <2>2. CASE run' = Begun
    BY <1>1, <1>3, <2>1, <2>2 DEF IsRun, RunOK, Begun
  <2>3. CASE run' = Refused
    BY <1>1, <1>3, <2>1, <2>3 DEF IsRun, RunOK, Refused
  <2> QED BY <1>1, <2>2, <2>3
<1> QED BY <1>1, <1>2, <1>4
        DEF Begun, Refused, Inv, WriteIsAllowed, ChangesAreWritten, Changed, EntriesAreHandled, WrittenIsInPlace

\* Other programs keep to their places.
LEMMA IntrudeKeepsInv ==
  ASSUME Inv, NEW p \in Intruded, NEW node, Intrude(p, node)
  PROVE  Inv'
<1>1. /\ UNCHANGED <<archive, records, opened, filters, policy, destination, run, before>>
      /\ fs' = [fs EXCEPT ![p] = node]
  BY DEF Intrude
<1>2. \A q \in Places \ Intruded : fs'[q] = fs[q]
  BY <1>1 DEF Inv, RecordsOK
<1>3. RecordsOK' /\ RunOK'
  BY <1>1 DEF IsRun, Inv, RecordsOK, RunOK, record
<1>4. WriteIsAllowed'
  <2> SUFFICES ASSUME run.phase = "write", target \notin Intruded, policy # "replace"
               PROVE  fs'[target] = Absent
    BY <1>1 DEF WriteIsAllowed, target, record
  <2>1. fs[target] = Absent
    BY DEF Inv, WriteIsAllowed
  <2>2. run.at \in DOMAIN records
    <3>1. run # Idle
      BY DEF Idle
    <3> QED BY <3>1, RecordFacts DEF IsRun, Inv, RunOK
  <2>3. target \in Places
    BY <2>2, RecordFacts DEF Inv, Place, target, record
  <2> QED BY <1>2, <2>1, <2>3
<1>5. ChangesAreWritten' /\ EntriesAreHandled'
  BY <1>1, <1>2 DEF Inv, ChangesAreWritten, Changed, EntriesAreHandled, Place
<1>6. WrittenIsInPlace'
  <2> SUFFICES ASSUME run # Idle, ErrorsReported, NEW i \in run.wrote, Own(i)
               PROVE  InPlace(i)'
    BY <1>1 DEF WrittenIsInPlace, Own
  <2>1. InPlace(i)
    BY DEF Inv, WrittenIsInPlace
  <2>2. i \in DOMAIN records
    BY RecordFacts DEF IsRun, Inv, RunOK
  <2>3. Place(i) \in Places \ Intruded
    BY <2>2, RecordFacts DEF Own, Place, Inv
  <2> QED BY <1>1, <1>2, <2>1, <2>3 DEF InPlace, Place
<1> QED BY <1>3, <1>4, <1>5, <1>6 DEF Inv

LEMMA AtRecord ==
  ASSUME Inv, AtEntry \/ run.phase = "write"
  PROVE  /\ IsRun /\ run.phase \in {"entry", "write"}
         /\ run # Idle /\ opened
         /\ run.at \in DOMAIN records /\ target = Place(run.at) /\ target \in Places
         /\ run.wrote \subseteq 1..(run.at - 1) /\ run.wrote \subseteq DOMAIN records
         /\ IsFiniteSet(run.wrote) /\ run.count = Cardinality(run.wrote)
<1>1. run # Idle
  BY DEF Idle, AtEntry
<1>2. Len(records) \in Nat /\ DOMAIN records = 1..Len(records)
  BY RecordFacts DEF Inv
<1>3. IsRun
  BY <1>1 DEF Inv, RunOK
<1>4. run.at \in DOMAIN records /\ run.wrote \subseteq DOMAIN records
  BY <1>1, <1>2, <1>3 DEF IsRun, Inv, RunOK, AtEntry
<1>5. target = Place(run.at) /\ target \in Places
  BY <1>4, RecordFacts DEF Inv, Place, target, record
<1>6. IsRun /\ run.phase \in {"entry", "write"}
  BY <1>3 DEF AtEntry
<1> QED BY <1>1, <1>4, <1>5, <1>6 DEF Inv, RunOK

\* What a step may do to the tree: change it at and above its own target, and
\* nothing an earlier entry wrote.
StepsAtTarget ==
  /\ DOMAIN fs' = Places
  /\ \A p \in Places \ Intruded : fs'[p] # fs[p] => p \in Upto(target)
  /\ ErrorsReported => \A i \in run.wrote : Own(i) /\ InPlace(i) => InPlace(i)'

\* An entry is written and counted.
LEMMA CountedKeepsInv ==
  ASSUME Inv, AtEntry \/ run.phase = "write", StepsAtTarget, run' = Counted,
         UNCHANGED <<archive, records, opened, filters, policy, destination, before>>,
         \A i \in DOMAIN records : i = run.at /\ ErrorsReported /\ Own(i) => InPlace(i)'
  PROVE  Inv'
<1> DEFINE at == run.at
<1>1. /\ IsRun /\ run.phase \in {"entry", "write"}
      /\ run # Idle /\ opened
      /\ at \in DOMAIN records /\ target = Place(at) /\ target \in Places
      /\ run.wrote \subseteq 1..(at - 1) /\ run.wrote \subseteq DOMAIN records
      /\ IsFiniteSet(run.wrote) /\ run.count = Cardinality(run.wrote)
  BY AtRecord
<1>2. Len(records) \in Nat /\ DOMAIN records = 1..Len(records)
  BY RecordFacts DEF Inv
<1>3. /\ run'.phase = "entry" /\ run'.at = at + 1 /\ run'.count = run.count + 1
      /\ run'.wrote = run.wrote \cup {at}
      /\ IsRun'
  <2>1. /\ run'.phase = "entry" /\ run'.at = run.at + 1 /\ run'.count = run.count + 1
        /\ run'.wrote = run.wrote \cup {run.at} /\ DOMAIN run' = DOMAIN run
    BY <1>1 DEF Counted, IsRun
  <2>2. run.at + 1 \in Nat /\ run.count + 1 \in Nat /\ run.wrote \cup {run.at} \subseteq Nat
    BY <1>1 DEF IsRun
  <2> QED BY <1>1, <2>1, <2>2 DEF IsRun
<1>4. at \in Nat /\ 1 <= at /\ at \notin run.wrote /\ (at + 1) - 1 = at /\ at + 1 <= Len(records) + 1
  BY <1>1, <1>2
<1> HIDE DEF at
<1>5. RecordsOK'
  BY DEF Inv, RecordsOK, StepsAtTarget
<1>6. RunOK'
  <2>1. IsFiniteSet(run'.wrote) /\ Cardinality(run'.wrote) = Cardinality(run.wrote) + 1
    <3> DEFINE W == run.wrote
    <3>1. IsFiniteSet(W) /\ at \notin W /\ run'.wrote = W \cup {at}
      BY <1>1, <1>3, <1>4
    <3> HIDE DEF W
    <3>2. IsFiniteSet(W \cup {at}) /\ Cardinality(W \cup {at}) = Cardinality(W) + 1
      BY <3>1, FS_AddElement
    <3> QED BY <3>1, <3>2 DEF W
  <2>2. run'.wrote \subseteq 1..at
    BY <1>1, <1>3, <1>4
  <2> QED BY <1>1, <1>3, <1>4, <2>1, <2>2 DEF RunOK
<1>7. WriteIsAllowed'
  BY <1>3 DEF WriteIsAllowed
<1>8. ChangesAreWritten'
  <2> SUFFICES ASSUME NEW p \in Places, Changed(p)'
               PROVE  \E i \in run'.wrote : p \in Upto(Place(i))
    BY DEF ChangesAreWritten, Place
  <2>1. CASE fs'[p] # fs[p]
    BY <1>1, <1>3, <2>1 DEF StepsAtTarget, Changed
  <2>2. CASE fs'[p] = fs[p]
    <3>1. Changed(p)
      BY <2>2 DEF Changed
    <3> QED BY <1>1, <1>3, <3>1 DEF Inv, ChangesAreWritten
  <2> QED BY <2>1, <2>2
<1>9. EntriesAreHandled'
  <2> SUFFICES ASSUME NEW i \in 1..at
               PROVE  \/ i \in run'.wrote
                      \/ Place(i) \in Intruded
                      \/ before[Place(i)] # Absent
                      \/ \E j \in run'.wrote : j < i /\ Place(i) \in Upto(Place(j))
    BY <1>3, <1>4 DEF EntriesAreHandled, Place
  <2>1. CASE i = at
    BY <1>3, <2>1
  <2>2. CASE i # at
    <3>1. i \in 1..(at - 1)
      BY <1>4, <2>2
    <3> QED BY <1>1, <1>3, <3>1 DEF Inv, EntriesAreHandled, at
  <2> QED BY <2>1, <2>2
<1>10. WrittenIsInPlace'
  <2> SUFFICES ASSUME ErrorsReported, NEW i \in run'.wrote, Own(i)
               PROVE  InPlace(i)'
    BY DEF WrittenIsInPlace, Own
  <2>1. CASE i = at
    BY <1>1, <2>1 DEF at
  <2>2. CASE i \in run.wrote
    BY <1>1, <2>2 DEF Inv, WrittenIsInPlace, StepsAtTarget
  <2> QED BY <1>3, <2>1, <2>2
<1> QED BY <1>5, <1>6, <1>7, <1>8, <1>9, <1>10 DEF Inv

\* The extraction fails at an entry.
LEMMA FailedKeepsInv ==
  ASSUME Inv, AtEntry \/ run.phase = "write", StepsAtTarget, run' = Failed,
         UNCHANGED <<archive, records, opened, filters, policy, destination, before>>
  PROVE  Inv'
<1>1. /\ IsRun /\ run.phase \in {"entry", "write"}
      /\ run # Idle /\ opened
      /\ run.at \in DOMAIN records /\ target = Place(run.at) /\ target \in Places
      /\ run.wrote \subseteq 1..(run.at - 1) /\ run.wrote \subseteq DOMAIN records
      /\ IsFiniteSet(run.wrote) /\ run.count = Cardinality(run.wrote)
  BY AtRecord
<1>2. Len(records) \in Nat /\ DOMAIN records = 1..Len(records)
  BY RecordFacts DEF Inv
<1>3. /\ run'.phase = "failed" /\ run'.at = run.at /\ run'.count = run.count
      /\ run'.wrote = run.wrote
      /\ IsRun'
  BY <1>1 DEF Failed, IsRun
<1>4. run.at <= Len(records)
  BY <1>1, <1>2
<1>5. RecordsOK' /\ RunOK' /\ WriteIsAllowed' /\ EntriesAreHandled'
  BY <1>1, <1>2, <1>3, <1>4
     DEF Inv, RecordsOK, RunOK, WriteIsAllowed, EntriesAreHandled, StepsAtTarget
<1>6. ChangesAreWritten'
  <2> SUFFICES ASSUME NEW p \in Places, Changed(p)'
               PROVE  \/ \E i \in run.wrote : p \in Upto(Place(i))
                      \/ p \in Upto(target)
    <3>1. run.at # 0
      BY <1>1, <1>2
    <3> QED BY <1>1, <1>3, <3>1 DEF ChangesAreWritten, Place
  <2>1. CASE fs'[p] # fs[p]
    BY <2>1 DEF StepsAtTarget, Changed
  <2>2. CASE fs'[p] = fs[p]
    <3>1. Changed(p)
      BY <2>2 DEF Changed
    <3> QED BY <1>1, <3>1 DEF Inv, ChangesAreWritten
  <2> QED BY <2>1, <2>2
<1>7. WrittenIsInPlace'
  BY <1>1, <1>3 DEF Inv, WrittenIsInPlace, Own, StepsAtTarget
<1> QED BY <1>5, <1>6, <1>7 DEF Inv

\* A step that leaves the tree alone.
LEMMA SameTree ==
  ASSUME Inv, UNCHANGED <<fs, records>>
  PROVE  StepsAtTarget
BY DEF Inv, RecordsOK, StepsAtTarget, InPlace

\* Making directories turns nothing but absent places into directories.
LEMMA MadeFacts ==
  ASSUME NEW places \in {Upto(target), Above(target)}, CanMake(places)
  PROVE  /\ DOMAIN Made(places) = Places
         /\ \A p \in Places : Made(places)[p] # fs[p] =>
              /\ p \in places /\ fs[p] = Absent /\ Made(places)[p] = Dir
         /\ \A p \in Places : p \in places => Made(places)[p] = Dir
BY DEF CanMake, Made

LEMMA MakeDirectoryKeepsInv == Inv /\ MakeDirectory => Inv'
<1> SUFFICES ASSUME Inv, MakeDirectory PROVE Inv'
  OBVIOUS
<1>1. /\ AtEntry /\ record.kind = "directory"
      /\ UNCHANGED <<archive, records, opened, filters, policy, destination, before>>
  BY DEF MakeDirectory
<1>2. CASE CanMake(Upto(target)) /\ fs' = Made(Upto(target)) /\ run' = Counted
  <2>1. /\ DOMAIN fs' = Places
        /\ \A p \in Places : fs'[p] # fs[p] => p \in Upto(target) /\ fs[p] = Absent
        /\ \A p \in Places : p \in Upto(target) => fs'[p] = Dir
    BY <1>2, MadeFacts
  <2>2. /\ run.at \in DOMAIN records /\ target = Place(run.at) /\ target \in Places
        /\ run.wrote \subseteq DOMAIN records
    BY <1>1, AtRecord
  <2>3. ASSUME NEW i \in run.wrote, Own(i), InPlace(i) PROVE InPlace(i)'
    <3>1. Place(i) \in Places
      BY <2>2, RecordFacts DEF Inv
    <3>2. fs[Place(i)] # Absent
      BY <2>3 DEF InPlace, Place, Absent, Dir, File
    <3>3. fs'[Place(i)] = fs[Place(i)]
      BY <2>1, <3>1, <3>2
    <3> QED BY <1>1, <2>3, <3>3 DEF InPlace, Place
  <2>4. StepsAtTarget
    BY <2>1, <2>3 DEF StepsAtTarget
  <2>5. ASSUME NEW i \in DOMAIN records, i = run.at PROVE InPlace(i)'
    <3>1. fs'[target] = Dir
      BY <2>1, <2>2, PlaceIsIts
    <3>2. records[i].kind = "directory" /\ records[i].path.parts = target
      BY <1>1, <2>5 DEF record, target
    <3> QED BY <1>1, <3>1, <3>2 DEF InPlace
  <2> QED BY <1>1, <1>2, <2>4, <2>5, CountedKeepsInv
<1>3. CASE run' = Failed /\ UNCHANGED fs
  BY <1>1, <1>3, SameTree, FailedKeepsInv
<1> QED BY <1>2, <1>3 DEF MakeDirectory

LEMMA CheckTargetKeepsInv == Inv /\ CheckTarget => Inv'
<1> SUFFICES ASSUME Inv, CheckTarget PROVE Inv'
  OBVIOUS
<1>1. /\ AtEntry /\ record.kind # "directory"
      /\ UNCHANGED <<archive, records, opened, filters, policy, destination, fs, before>>
  BY DEF CheckTarget
<1>2. /\ IsRun /\ run.phase = "entry" /\ run # Idle /\ opened
      /\ run.at \in DOMAIN records /\ target = Place(run.at) /\ target \in Places
      /\ run.wrote \subseteq 1..(run.at - 1) /\ run.wrote \subseteq DOMAIN records
      /\ IsFiniteSet(run.wrote) /\ run.count = Cardinality(run.wrote)
  BY <1>1, AtRecord DEF AtEntry
<1>3. Len(records) \in Nat /\ DOMAIN records = 1..Len(records)
  BY RecordFacts DEF Inv
<1>4. RecordsOK'
  BY <1>1 DEF Inv, RecordsOK
<1>5. CASE /\ fs[target] = Absent \/ policy = "replace"
           /\ run' = [run EXCEPT !.phase = "write"]
  <2>1. /\ run'.phase = "write" /\ run'.at = run.at /\ run'.count = run.count
        /\ run'.wrote = run.wrote /\ IsRun' /\ run' # Idle
    BY <1>2, <1>5 DEF IsRun, Idle
  <2>2. RunOK'
    <3>1. run.at <= Len(records)
      BY <1>2, <1>3
    <3> QED BY <1>1, <1>2, <1>3, <2>1, <3>1 DEF RunOK, record
  <2>3. WriteIsAllowed'
    BY <1>1, <1>5, <2>1 DEF WriteIsAllowed, target, record
  <2>4. ChangesAreWritten'
    <3>1. \A p \in Places : Changed(p)' => Changed(p)
      BY <1>1 DEF Changed
    <3> QED BY <1>1, <1>2, <2>1, <3>1 DEF Inv, ChangesAreWritten, Place
  <2>5. EntriesAreHandled' /\ WrittenIsInPlace'
    BY <1>1, <1>2, <2>1 DEF Inv, EntriesAreHandled, WrittenIsInPlace, Place, Own, InPlace
  <2> QED BY <1>4, <2>2, <2>3, <2>4, <2>5 DEF Inv
<1>6. CASE fs[target] # Absent /\ run' = [run EXCEPT !.at = @ + 1]
  <2>1. /\ run'.phase = "entry" /\ run'.at = run.at + 1 /\ run'.count = run.count
        /\ run'.wrote = run.wrote /\ IsRun' /\ run' # Idle
    BY <1>2, <1>6 DEF IsRun, Idle
  <2>2. RunOK'
    <3>1. run.at + 1 <= Len(records) + 1 /\ run.wrote \subseteq 1..((run.at + 1) - 1)
      BY <1>2, <1>3
    <3> QED BY <1>1, <1>2, <2>1, <3>1 DEF RunOK
  <2>3. WriteIsAllowed'
    BY <2>1 DEF WriteIsAllowed
  <2>4. ChangesAreWritten'
    <3>1. \A p \in Places : Changed(p)' => Changed(p)
      BY <1>1 DEF Changed
    <3> QED BY <1>1, <1>2, <2>1, <3>1 DEF Inv, ChangesAreWritten, Place
  <2>5. EntriesAreHandled'
    <3> SUFFICES ASSUME NEW i \in 1..run.at
                 PROVE  \/ i \in run.wrote
                        \/ Place(i) \in Intruded
                        \/ before[Place(i)] # Absent
                        \/ \E j \in run.wrote : j < i /\ Place(i) \in Upto(Place(j))
      BY <1>1, <1>2, <2>1 DEF EntriesAreHandled, Place, IsRun
    <3>1. CASE i = run.at
      <4> SUFFICES ASSUME target \notin Intruded, before[target] = Absent
                   PROVE  \E j \in run.wrote : j < run.at /\ target \in Upto(Place(j))
        BY <1>2, <3>1
      <4>1. Changed(target)
        BY <1>2, <1>6 DEF Changed
      <4>2. PICK j \in run.wrote : target \in Upto(Place(j))
        BY <1>2, <4>1 DEF Inv, ChangesAreWritten
      <4>3. j < run.at
        BY <1>2 DEF IsRun
      <4> QED BY <4>2, <4>3
    <3>2. CASE i # run.at
      <4>1. i \in 1..(run.at - 1)
        BY <1>2, <3>2 DEF IsRun
      <4> QED BY <1>2, <4>1 DEF Inv, EntriesAreHandled
    <3> QED BY <3>1, <3>2
  <2>6. WrittenIsInPlace'
    BY <1>1, <1>2, <2>1 DEF Inv, WrittenIsInPlace, Own, InPlace
  <2> QED BY <1>4, <2>2, <2>3, <2>4, <2>5, <2>6 DEF Inv
<1>7. CASE run' = Failed
  BY <1>1, <1>7, SameTree, FailedKeepsInv
<1> QED BY <1>5, <1>6, <1>7 DEF CheckTarget

\* What the write of a file leaves and reports.
LEMMA WrittenFacts ==
  ASSUME NEW written \in Written
  PROVE  /\ written.run \in {Counted, Failed}
         /\ ErrorsReported /\ written.run = Counted /\ Counted # Failed
              => written.left = File(record.payload)
BY DEF Written, ErrorsReported

LEMMA WriteTargetKeepsInv == Inv /\ WriteTarget => Inv'
<1> SUFFICES ASSUME Inv, WriteTarget PROVE Inv'
  OBVIOUS
<1>1. /\ run.phase = "write"
      /\ UNCHANGED <<archive, records, opened, filters, policy, destination, before>>
  BY DEF WriteTarget
<1>2. /\ IsRun /\ run # Idle /\ opened
      /\ run.at \in DOMAIN records /\ target = Place(run.at) /\ target \in Places
      /\ run.wrote \subseteq 1..(run.at - 1) /\ run.wrote \subseteq DOMAIN records
  BY <1>1, AtRecord
<1>3. target \in Upto(target) /\ target \notin Above(target) /\ Above(target) \subseteq Upto(target)
  BY <1>2, PlaceIsIts DEF Above
<1>4. record.kind # "directory"
  BY <1>1, <1>2 DEF Inv, RunOK
<1>5. Counted # Failed
  <2>1. Counted.phase = "entry" /\ Failed.phase = "failed"
    BY <1>2 DEF Counted, Failed, IsRun
  <2> QED BY <2>1
<1>6. CASE /\ CanMake(Above(target)) /\ fs[target] # Dir
           /\ \E written \in Written :
                /\ fs' = [Made(Above(target)) EXCEPT ![target] = written.left]
                /\ run' = written.run
  <2>1. PICK written \in Written :
          /\ fs' = [Made(Above(target)) EXCEPT ![target] = written.left]
          /\ run' = written.run
    BY <1>6
  <2>2. /\ DOMAIN fs' = Places /\ fs'[target] = written.left
        /\ \A p \in Places : p # target /\ fs'[p] # fs[p] =>
             p \in Upto(target) /\ fs[p] = Absent
    BY <1>2, <1>3, <1>6, <2>1, MadeFacts
  <2>3. ASSUME NEW i \in run.wrote, Own(i), InPlace(i) PROVE InPlace(i)'
    <3>1. Place(i) \in Places /\ i \in DOMAIN records /\ i # run.at
      BY <1>2, RecordFacts DEF Inv, IsRun
    <3>2. fs[Place(i)] # Absent
      BY <2>3 DEF InPlace, Place, Absent, Dir, File
    <3>3. Place(i) # target
      <4> SUFFICES ASSUME Place(i) = target PROVE FALSE
        OBVIOUS
      <4>1. records[i].kind # "directory"
        BY <1>6, <2>3 DEF InPlace, Place
      <4> QED BY <1>2, <1>4, <3>1, <4>1, RecordFacts DEF Inv, record
    <3>4. fs'[Place(i)] = fs[Place(i)]
      BY <2>2, <3>1, <3>2, <3>3
    <3> QED BY <1>1, <2>3, <3>4 DEF InPlace, Place
  <2>4. StepsAtTarget
    BY <1>3, <2>2, <2>3 DEF StepsAtTarget
  <2>5. CASE run' = Counted
    <3>1. ErrorsReported => fs'[target] = File(record.payload)
      BY <1>5, <2>1, <2>2, <2>5, WrittenFacts
    <3>2. ASSUME NEW i \in DOMAIN records, i = run.at, ErrorsReported PROVE InPlace(i)'
      BY <1>1, <1>2, <1>4, <3>1, <3>2 DEF InPlace, Place, record
    <3> QED BY <1>1, <2>4, <2>5, <3>2, CountedKeepsInv
  <2>6. CASE run' = Failed
    BY <1>1, <2>4, <2>6, FailedKeepsInv
  <2> QED BY <2>1, <2>5, <2>6, WrittenFacts
<1>7. CASE CanMake(Above(target)) /\ fs' = Made(Above(target)) /\ run' = Failed
  <2>1. /\ DOMAIN fs' = Places
        /\ \A p \in Places : fs'[p] # fs[p] => p \in Upto(target) /\ fs[p] = Absent
    BY <1>3, <1>7, MadeFacts
  <2>2. ASSUME NEW i \in run.wrote, InPlace(i) PROVE InPlace(i)'
    <3>1. Place(i) \in Places
      BY <1>2, RecordFacts DEF Inv
    <3>2. fs[Place(i)] # Absent
      BY <2>2 DEF InPlace, Place, Absent, Dir, File
    <3>3. fs'[Place(i)] = fs[Place(i)]
      BY <2>1, <3>1, <3>2
    <3> QED BY <1>1, <2>2, <3>3 DEF InPlace, Place
  <2>3. StepsAtTarget
    BY <2>1, <2>2 DEF StepsAtTarget
  <2> QED BY <1>1, <1>7, <2>3, FailedKeepsInv
<1>8. CASE run' = Failed /\ UNCHANGED fs
  BY <1>1, <1>8, SameTree, FailedKeepsInv
<1> QED BY <1>6, <1>7, <1>8 DEF WriteTarget

LEMMA FinishKeepsInv == Inv /\ Finish => Inv'
<1> SUFFICES ASSUME Inv, Finish PROVE Inv'
  OBVIOUS
<1>1. /\ run.phase = "entry" /\ run.at = Len(records) + 1 /\ run' = [run EXCEPT !.phase = "ok"]
      /\ UNCHANGED <<archive, records, opened, filters, policy, destination, fs, before>>
  BY DEF Finish
<1>2. run # Idle
  BY <1>1 DEF Idle
<1>3. IsRun /\ opened
  BY <1>2 DEF Inv, RunOK
<1>4. /\ run'.phase = "ok" /\ run'.at = run.at /\ run'.count = run.count
      /\ run'.wrote = run.wrote /\ IsRun' /\ run' # Idle
  BY <1>1, <1>3 DEF IsRun, Idle
<1>5. RecordsOK' /\ WriteIsAllowed'
  BY <1>1, <1>4 DEF Inv, RecordsOK, WriteIsAllowed
<1>6. RunOK'
  BY <1>1, <1>2, <1>4 DEF Inv, RunOK
<1>7. ChangesAreWritten'
  <2>1. \A p \in Places : Changed(p)' => Changed(p)
    BY <1>1 DEF Changed
  <2> QED BY <1>1, <1>2, <1>4, <2>1 DEF Inv, ChangesAreWritten, Place
<1>8. EntriesAreHandled' /\ WrittenIsInPlace'
  BY <1>1, <1>2, <1>4 DEF Inv, EntriesAreHandled, WrittenIsInPlace, Place, Own, InPlace
<1> QED BY <1>5, <1>6, <1>7, <1>8 DEF Inv

LEMMA InvStep == Inv /\ [Next]_vars => Inv'
<1> SUFFICES ASSUME Inv, [Next]_vars PROVE Inv'
  OBVIOUS
<1>1. CASE UNCHANGED vars
  BY <1>1 DEF vars, Inv, RecordsOK, RunOK, IsRun, WriteIsAllowed, ChangesAreWritten, Changed,
              EntriesAreHandled, WrittenIsInPlace, InPlace, Own, Place, record, target
<1>2. CASE Open
  BY <1>2, OpenKeepsInv
<1>3. CASE Configure
  BY <1>3, ConfigureKeepsInv
<1>4. CASE Extract
  BY <1>4, ExtractAllKeepsInv, MakeDirectoryKeepsInv, CheckTargetKeepsInv, WriteTargetKeepsInv,
     FinishKeepsInv DEF Extract
<1>5. ASSUME NEW p \in Intruded, NEW node, Intrude(p, node) PROVE Inv'
  BY <1>5, IntrudeKeepsInv
<1> QED BY <1>1, <1>2, <1>3, <1>4, <1>5 DEF Next

\* The inductive invariant of the extraction.
THEOREM InvIsInvariant == Spec => []Inv
BY InvInit, InvStep, PTL DEF Spec

-----------------------------------------------------------------------------
(* What an extraction promises *)

\* What was written and counted is in place, and nothing else changed.
LEMMA InvIsPrefix == Inv /\ ErrorsReported => ExtractionIsPrefix
<1> SUFFICES ASSUME Inv, ErrorsReported, run # Idle
             PROVE  /\ \A i \in run.wrote : Own(i) => InPlace(i)
                    /\ run.count = Cardinality(run.wrote)
                    /\ \A p \in Places \ Intruded : fs[p] # before[p] =>
                         \E i \in DOMAIN records : i <= run.at /\ p \in Upto(records[i].path.parts)
  BY DEF ExtractionIsPrefix
<1>1. \A i \in run.wrote : Own(i) => InPlace(i)
  BY DEF Inv, WrittenIsInPlace
<1>2. /\ IsRun /\ run.count = Cardinality(run.wrote) /\ run.wrote \subseteq 1..(run.at - 1)
      /\ run.at <= Len(records) + 1
      /\ run.phase = "failed" => run.at <= Len(records)
  BY DEF Inv, RunOK
<1>3. Len(records) \in Nat /\ DOMAIN records = 1..Len(records)
  BY RecordFacts DEF Inv
<1>4. ASSUME NEW p \in Places \ Intruded, fs[p] # before[p]
      PROVE  \E i \in DOMAIN records : i <= run.at /\ p \in Upto(Place(i))
  <2>1. \/ \E i \in run.wrote : p \in Upto(Place(i))
        \/ run.phase = "failed" /\ run.at # 0 /\ p \in Upto(Place(run.at))
    BY <1>4 DEF Inv, ChangesAreWritten, Changed
  <2>2. \A i \in run.wrote : i \in DOMAIN records /\ i <= run.at
    BY <1>2, <1>3 DEF IsRun
  <2>3. run.phase = "failed" /\ run.at # 0 => run.at \in DOMAIN records
    BY <1>2, <1>3 DEF IsRun
  <2>4. run.at <= run.at
    BY <1>2 DEF IsRun
  <2> QED BY <2>1, <2>2, <2>3, <2>4
<1> QED BY <1>1, <1>2, <1>4 DEF Place

\* A step that is not of other programs overwrites no file of others unless it
\* may.
LEMMA StepKeepsFiles ==
  ASSUME Inv, Next, NEW p \in Places \ Intruded, fs[p] \notin {Absent, Dir}, fs'[p] # fs[p]
  PROVE  policy = "replace"
<1>1. ~Open /\ ~Configure /\ ~ExtractAll /\ ~CheckTarget /\ ~Finish
  BY DEF Open, Configure, WithFilter, OnConflict, SetDestination, ExtractAll, CheckTarget, Finish
<1>2. ~MakeDirectory
  <2> SUFFICES ASSUME MakeDirectory PROVE FALSE
    OBVIOUS
  <2>1. CanMake(Upto(target)) /\ fs' = Made(Upto(target))
    BY DEF MakeDirectory
  <2> QED BY <2>1, MadeFacts
<1>3. ASSUME NEW q \in Intruded, NEW node, Intrude(q, node) PROVE FALSE
  BY <1>3 DEF Intrude, Inv, RecordsOK
<1>4. WriteTarget
  BY <1>1, <1>2, <1>3 DEF Next, Extract
<1>5. p = target
  <2>1. /\ CanMake(Above(target))
        /\ \/ \E left : fs' = [Made(Above(target)) EXCEPT ![target] = left]
           \/ fs' = Made(Above(target))
    BY <1>4 DEF WriteTarget
  <2>2. p # target => fs'[p] = Made(Above(target))[p] \/ p = target
    BY <2>1, MadeFacts
  <2> SUFFICES ASSUME p # target PROVE FALSE
    OBVIOUS
  <2> QED BY <2>1, <2>2, MadeFacts
<1> QED BY <1>4, <1>5 DEF Inv, WriteIsAllowed, WriteTarget

\* Unless the policy is to replace, an extraction overwrites no file, torn or
\* whole, whoever wrote it: the test for a target still holds at the write.
THEOREM FilesAreKept == Spec => KeepsExistingFiles
<1>1. ASSUME Inv, [Next]_vars
      PROVE  [\A p \in Places \ Intruded :
                fs[p] \notin {Absent, Dir} /\ fs'[p] # fs[p] => policy = "replace"]_vars
  BY <1>1, StepKeepsFiles
<1> QED BY <1>1, InvIsInvariant, PTL DEF Spec, KeepsExistingFiles

\* Where every error is reported, an extraction leaves a prefix of the archive,
\* however it ends.
THEOREM ExtractionsArePrefixes ==
  ASSUME ErrorsReported
  PROVE  Spec => []ExtractionIsPrefix
<1>1. Inv => ExtractionIsPrefix
  BY InvIsPrefix
<1> QED BY <1>1, InvIsInvariant, PTL

\* A successful extraction of any archive is complete.
THEOREM SuccessesAreComplete ==
  ASSUME ErrorsReported
  PROVE  Spec => []SuccessIsComplete
<1>1. Inv => SuccessIsComplete
  <2> SUFFICES ASSUME Inv, run.phase = "ok", NEW i \in DOMAIN records
               PROVE  \/ ~Own(i)
                      \/ InPlace(i)
                      \/ before[Place(i)] # Absent
                      \/ \E j \in run.wrote : j < i /\ Place(i) \in Upto(Place(j))
    BY DEF SuccessIsComplete, Place
  <2>1. run # Idle
    BY DEF Idle
  <2>2. i \in 1..(run.at - 1)
    <3>1. Len(records) \in Nat /\ DOMAIN records = 1..Len(records)
      BY RecordFacts DEF Inv
    <3> QED BY <2>1, <3>1 DEF Inv, RunOK
  <2> QED BY <2>1, <2>2 DEF Inv, EntriesAreHandled, WrittenIsInPlace, Own, Place
<1> QED BY <1>1, InvIsInvariant, PTL

\* What is extracted of an archive that verify accepts is the content its
\* entries were built from.
THEOREM VerifiedIsExtracted ==
  ASSUME ErrorsReported
  PROVE  Spec => []VerifiedIsOriginal
<1>1. Inv => VerifiedIsOriginal
  <2> SUFFICES ASSUME Inv, run # Idle, Verifies, NEW i \in run.wrote, Own(i)
               PROVE  fs[records[i].path.parts] =
                        IF records[i].kind = "directory" THEN Dir
                        ELSE File(Payload(records[i].hash, <<>>))
    BY DEF VerifiedIsOriginal
  <2>1. InPlace(i)
    BY DEF Inv, WrittenIsInPlace
  <2>2. i \in DOMAIN records
    BY RecordFacts DEF Inv, RunOK, IsRun
  <2>3. records[i].kind # "directory" => records[i].payload = Payload(records[i].hash, <<>>)
    BY <2>2 DEF Verifies
  <2> QED BY <2>1, <2>3 DEF InPlace
<1> QED BY <1>1, InvIsInvariant, PTL
=============================================================================
