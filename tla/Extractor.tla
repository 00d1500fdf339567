----------------------------- MODULE Extractor -----------------------------
(***************************************************************************)
(* The archive reader of MiniZIP (minizip::api::extractor).                *)
(*                                                                         *)
(* open decodes the whole archive; extract_all then creates its entries    *)
(* under a destination, one after the other.  The progress hook runs       *)
(* between entries and other programs use the same file system, so the     *)
(* test whether a target exists and the write to it are separate steps.    *)
(*                                                                         *)
(* extract_all_to is extract_all of a copy with its own destination, which *)
(* nothing else reaches: an extract_all during which nobody configures.    *)
(* fs is the tree under whatever destination is set; a hook that sets      *)
(* another one while extract_all runs is left out.                         *)
(*                                                                         *)
(* An archive is the sequence of its stored entries.  A payload is the     *)
(* content an entry was given and the filters still applied to it.         *)
(***************************************************************************)
EXTENDS Naturals, Sequences, FiniteSets

CONSTANTS
  Archives,     \* archives that may be opened
  Filters,      \* payload filters
  Places,       \* locations under the destination, closed under parents
  Foreign,      \* contents other programs write
  Intruded,     \* locations other programs use during an extraction
  DiskErrors,   \* what may fail: "open", "write", "flush"
  MaxFilters    \* bound: filters given to the extractor

Root == <<>>

ASSUME PlacesAssumption ==
  /\ Root \in Places
  /\ \A p \in Places : p \in Seq({p[i] : i \in DOMAIN p})
  /\ \A p \in Places : p # Root => SubSeq(p, 1, Len(p) - 1) \in Places

\* No two files of an archive have one path, as the builder sees to.
ASSUME ArchivesAssumption ==
  \A a \in Archives :
    /\ Len(a) \in Nat /\ DOMAIN a = 1..Len(a)
    /\ \A i \in DOMAIN a : a[i].path.parts \in Places
    /\ \A i, j \in DOMAIN a :
         /\ a[i].kind # "directory" /\ a[j].kind # "directory"
         /\ a[i].path.parts = a[j].path.parts
         => i = j

ASSUME IntrudedAssumption == Intruded \subseteq Places \ {Root}

VARIABLES
  archive,      \* the archive's entries as stored
  records,      \* the entries as decoded by open
  opened,       \* whether open succeeded
  filters,      \* filters given to the extractor
  policy,       \* what to do with a target that exists
  destination,  \* where to extract to, Nowhere until it is set
  fs,           \* the file system under the destination
  run,          \* the extract_all in progress, or how the last one ended
  before        \* history: fs when it began

vars == <<archive, records, opened, filters, policy, destination, fs, run, before>>

-----------------------------------------------------------------------------
(* Stored entries *)

Payload(content, applied) == [content |-> content, filters |-> applied]

\* decodes: the payload decompresses; hash: that of the content it was given.
Stored(path, kind, payload, decodes) ==
  [path |-> path, kind |-> kind, payload |-> payload, hash |-> payload.content,
   decodes |-> decodes]

-----------------------------------------------------------------------------
(* The file system *)

Absent == [node |-> "absent"]
Dir    == [node |-> "dir"]
Torn   == [node |-> "torn"]
File(payload) == [node |-> "file", payload |-> payload]

\* p and the places above it.
Upto(p) == {SubSeq(p, 1, n) : n \in 0..Len(p)}

Above(p) == Upto(p) \ {p}

\* create_directories: the missing ones of these places become directories.
CanMake(places) == \A q \in places : fs[q] \in {Absent, Dir}

Made(places) == [q \in Places |-> IF q \in places THEN Dir ELSE fs[q]]

-----------------------------------------------------------------------------

Idle == [phase |-> "idle"]

Nowhere == ""

Init ==
  /\ archive \in Archives
  /\ records = <<>>
  /\ opened = FALSE
  /\ filters = <<>>
  /\ policy = "replace"
  /\ destination = Nowhere
  /\ fs \in [Places -> {Absent, Dir} \cup {File(Payload(c, <<>>)) : c \in Foreign}]
  /\ fs[Root] = Dir
  /\ \A p \in Places : fs[p] # Absent => \A q \in Above(p) : fs[q] = Dir
  /\ run = Idle
  /\ before = fs

\* The extractor is made here, so it has no filters yet: none is undone.
Open ==
  /\ ~opened
  /\ \A i \in DOMAIN archive : archive[i].decodes
  /\ opened' = TRUE
  /\ records' = archive
  /\ UNCHANGED <<archive, filters, policy, destination, fs, run, before>>

WithFilter(f) ==
  /\ opened
  /\ Len(filters) < MaxFilters
  /\ filters' = Append(filters, f)
  /\ UNCHANGED <<archive, records, opened, policy, destination, fs, run, before>>

OnConflict(p) ==
  /\ opened
  /\ policy' = p
  /\ UNCHANGED <<archive, records, opened, filters, destination, fs, run, before>>

\* A destination that is set may be taken away again.
SetDestination(place) ==
  /\ opened
  /\ run.phase \in {"idle", "ok", "failed"}
  /\ destination' = place
  /\ UNCHANGED <<archive, records, opened, filters, policy, fs, run, before>>

-----------------------------------------------------------------------------
(* extract_all: it never asks the hook whether to cancel *)

\* at: the entry in hand; count: what the call will report; wrote: history,
\* the entries it created.
Begun   == [phase |-> "entry", at |-> 1, count |-> 0, wrote |-> {}]
Refused == [phase |-> "failed", at |-> 0, count |-> 0, wrote |-> {}]

\* Without a destination the call fails before it looks at an entry.
ExtractAll ==
  /\ opened
  /\ run.phase \in {"idle", "ok", "failed"}
  /\ run' = IF destination = Nowhere THEN Refused ELSE Begun
  /\ before' = fs
  /\ UNCHANGED <<archive, records, opened, filters, policy, destination, fs>>

AtEntry == run.phase = "entry" /\ run.at <= Len(records)

record == records[run.at]

target == record.path.parts

Counted ==
  [run EXCEPT !.phase = "entry", !.at = @ + 1, !.count = @ + 1,
              !.wrote = @ \cup {run.at}]

\* Wrong variant: a failure goes on to the next entry.
FailedOnward == [run EXCEPT !.phase = "entry", !.at = @ + 1]

Failed == [run EXCEPT !.phase = "failed"]

MakeDirectory ==
  /\ AtEntry
  /\ record.kind = "directory"
  /\ \/ /\ CanMake(Upto(target))
        /\ fs' = Made(Upto(target))
        /\ run' = Counted
     \/ /\ ~CanMake(Upto(target)) \/ "open" \in DiskErrors
        /\ run' = Failed
        /\ UNCHANGED fs
  /\ UNCHANGED <<archive, records, opened, filters, policy, destination, before>>

\* Wrong variants: a skipped entry is counted, or is written.
Checks(skipped) ==
  /\ AtEntry
  /\ record.kind # "directory"
  /\ run' = IF fs[target] = Absent \/ policy = "replace"
            THEN [run EXCEPT !.phase = "write"]
            ELSE IF policy = "skip" THEN skipped
            ELSE Failed
  /\ UNCHANGED <<archive, records, opened, filters, policy, destination, fs, before>>

CheckTargetCounts  == Checks(Counted)
CheckTargetWrites  == Checks([run EXCEPT !.phase = "write"])

\* A target that exists is skipped, refused or, like a missing one, written.
CheckTarget ==
  /\ AtEntry
  /\ record.kind # "directory"
  /\ run' = IF fs[target] = Absent \/ policy = "replace"
            THEN [run EXCEPT !.phase = "write"]
            ELSE IF policy = "skip" THEN [run EXCEPT !.at = @ + 1]
            ELSE Failed
  /\ UNCHANGED <<archive, records, opened, filters, policy, destination, fs, before>>

\* What becomes of the file: it is truncated and written in place, so that a
\* failed write tears it.  A failed flush, when it is closed, is not reported.
Written ==
  {[left |-> File(record.payload), run |-> Counted]}
    \cup {[left |-> Torn, run |-> Failed] : e \in DiskErrors \cap {"write"}}
    \cup {[left |-> Torn, run |-> Counted] : e \in DiskErrors \cap {"flush"}}

\* write_file_bytes makes the parents first; a directory does not open.
WriteTarget ==
  /\ run.phase = "write"
  /\ \/ /\ CanMake(Above(target)) /\ fs[target] # Dir
        /\ \E written \in Written :
             /\ fs' = [Made(Above(target)) EXCEPT ![target] = written.left]
             /\ run' = written.run
     \/ /\ CanMake(Above(target))
        /\ fs[target] = Dir \/ "open" \in DiskErrors
        /\ fs' = Made(Above(target))
        /\ run' = Failed
     \/ /\ ~CanMake(Above(target))
        /\ run' = Failed
        /\ UNCHANGED fs
  /\ UNCHANGED <<archive, records, opened, filters, policy, destination, before>>

Finish ==
  /\ run.phase = "entry"
  /\ run.at = Len(records) + 1
  /\ run' = [run EXCEPT !.phase = "ok"]
  /\ UNCHANGED <<archive, records, opened, filters, policy, destination, fs, before>>

-----------------------------------------------------------------------------
(* Other programs *)

Intrude(p, node) ==
  /\ (node # Absent => \A q \in Above(p) : fs[q] = Dir)
  /\ fs[p] # Dir
  /\ fs' = [fs EXCEPT ![p] = node]
  /\ UNCHANGED <<archive, records, opened, filters, policy, destination, run, before>>

-----------------------------------------------------------------------------

Extract == ExtractAll \/ MakeDirectory \/ CheckTarget \/ WriteTarget \/ Finish

\* Callbacks run before an entry is begun, not between its test and its write.
Configure ==
  /\ run.phase # "write"
  /\ \/ \E f \in Filters : WithFilter(f)
     \/ \E p \in {"skip", "replace", "error"} : OnConflict(p)
     \/ \E place \in {Nowhere, "destination"} : SetDestination(place)

Next ==
  \/ Open
  \/ Configure
  \/ Extract
  \/ \E p \in Intruded : \/ Intrude(p, Absent)
                         \/ \E c \in Foreign : Intrude(p, File(Payload(c, <<>>)))

Spec == Init /\ [][Next]_vars

-----------------------------------------------------------------------------
(* verify *)

\* Wrong variant: hashes are not compared.
VerifiesPaths ==
  \A i \in DOMAIN records :
    /\ records[i].path.parts # Root
    /\ records[i].path.slash = (records[i].kind = "directory")

\* The decoded payload's hash is compared, not the sizes of the entry.
Verifies ==
  \A i \in DOMAIN records :
    LET r == records[i]
    IN  /\ r.path.parts # Root
        /\ r.path.slash = (r.kind = "directory")
        /\ r.kind # "directory" => r.payload = Payload(r.hash, <<>>)

-----------------------------------------------------------------------------
(* Properties *)

\* Entry i is on disk as it was decoded.
InPlace(i) ==
  fs[records[i].path.parts] =
    IF records[i].kind = "directory" THEN Dir ELSE File(records[i].payload)

\* Of the places other programs use during an extraction nothing is promised.
Own(i) == records[i].path.parts \notin Intruded

\* An extraction works through the archive front to back: the entries it
\* reports are all on disk, none undone by a later one, it reports as many as
\* it wrote, and nothing changed but at and above the entries begun so far.
\* This is what a failed or conflicting extraction leaves behind.
ExtractionIsPrefix ==
  run # Idle =>
    /\ \A i \in run.wrote : Own(i) => InPlace(i)
    /\ run.count = Cardinality(run.wrote)
    /\ \A p \in Places \ Intruded : fs[p] # before[p] =>
         \E i \in DOMAIN records : i <= run.at /\ p \in Upto(records[i].path.parts)

\* A successful extraction leaves every entry of the archive on disk, except
\* those skipped for what was there before it or for an earlier entry.
SuccessIsComplete ==
  run.phase = "ok" =>
    \A i \in DOMAIN records :
      \/ ~Own(i)
      \/ InPlace(i)
      \/ before[records[i].path.parts] # Absent
      \/ \E j \in run.wrote :
           j < i /\ records[i].path.parts \in Upto(records[j].path.parts)

\* What is extracted of an archive that verify accepts is what its entries were
\* built from: a payload with filters left on it, or another one, is noticed.
VerifiedIsOriginal ==
  run # Idle /\ Verifies =>
    \A i \in run.wrote : Own(i) =>
      fs[records[i].path.parts] =
        IF records[i].kind = "directory" THEN Dir ELSE File(Payload(records[i].hash, <<>>))

\* Unless the policy is to replace, no file is overwritten, neither one that was
\* there nor one an earlier entry created.
KeepsExistingFiles ==
  [][\A p \in Places \ Intruded :
       fs[p] \notin {Absent, Dir} /\ fs'[p] # fs[p] => policy = "replace"]_vars

=============================================================================
