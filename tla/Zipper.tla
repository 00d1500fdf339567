------------------------------ MODULE Zipper ------------------------------
(***************************************************************************)
(* The archive builder of MiniZIP (minizip::api::zipper).                  *)
(*                                                                         *)
(* Each zipper object is a record in zip.  Copying a zipper copies its     *)
(* entries, filters and settings, but the manifest is a shared_ptr: copies *)
(* point at one manifest object, kept here in manifests.  Payloads are     *)
(* providers, read only when the archive is built: a file is read from     *)
(* disk, a stream is drained, bytes and objects were captured when added.  *)
(*                                                                         *)
(* A build runs user callbacks (the progress hook, filters, streams and    *)
(* serializers) between its steps: a callback may call any operation of    *)
(* any zipper, the one being built included.  A call that throws before    *)
(* changing anything leaves every variable as it was and has no action.    *)
(*                                                                         *)
(* Fields the code sets and never reads while building (compression level, *)
(* overwrite policy, the deterministic flag, the default serializer) and   *)
(* the callbacks' own effects outside the library are left out.            *)
(***************************************************************************)
EXTENDS EntryPath, INIManifest, FiniteSets

CONSTANTS
  Names,          \* path components that are neither empty, "." nor ".."
  RawPaths,       \* paths as callers spell them
  Hosts,          \* the ones given to add_file
  Contents,       \* payloads of files and streams
  Buffers,        \* payloads given to add_bytes
  Objects,        \* values given to add_object
  Files,          \* disk locations (normalized) that may hold a file
  Dirs,           \* disk locations (normalized) that are directories
  Streams,        \* input streams handed to add_stream
  Commands,       \* manifest command lines
  Filters,        \* payload filters
  Hooks,          \* progress hooks, each of which may ask to cancel
  Destinations,   \* arguments of set_destination, "" for none
  ArchiveNames,   \* arguments of set_archive_name, "" included when asked for
  Codecs,         \* arguments of set_codec
  Sinks,          \* where builds go: "memory", "file"
  DiskErrors,     \* what may fail: "open", "write", "flush"
  Handles,        \* zipper objects
  Manifests,      \* manifest objects
  MaxEntries,     \* bound: entries of one zipper
  MaxFilters,     \* bound: filters of one zipper
  Nothing         \* no manifest, no content, no build

Empty == <<>>

ASSUME NamesAssumption == Names \cap (Skipped \cup {Up}) = {}

ASSUME PathsAssumption ==
  /\ RawPaths \cup Hosts \subseteq Seq(Names \cup Skipped \cup {Up})
  /\ Files \cup Dirs \subseteq Seq(Names)
  /\ IsFiniteSet(Files) /\ IsFiniteSet(Dirs)

ASSUME BoundsAssumption == MaxEntries \in Nat /\ MaxFilters \in Nat

ASSUME SinksAssumption == Sinks \subseteq {"memory", "file"}

ASSUME CommandsAssumption ==
  Commands \subseteq [op : {"section"}, name : STRING]
                \cup [op : {"kv"}, key : STRING, value : STRING]
                \cup [op : {"other"}]

ASSUME NothingAssumption ==
  /\ Nothing \notin Contents
  /\ Nothing \notin Manifests \cup Hooks
  /\ Empty \notin Contents

VARIABLES
  zip,        \* the zipper objects
  manifests,  \* the manifest objects the zippers point at
  disk,       \* what each file location holds, Nothing when there is no file
  stream,     \* what is left to read of each stream
  store,      \* what each archive location holds
  job         \* the build in progress, or Nothing

vars == <<zip, manifests, disk, stream, store, job>>

-----------------------------------------------------------------------------
(* Entries *)

\* Payload providers: how an entry gets its bytes when the archive is built.
FileLoad(file)      == [from |-> "filesystem", file |-> file]
BytesLoad(content)  == [from |-> "bytes", content |-> content]
StreamLoad(s)       == [from |-> "stream", stream |-> s]
ObjectLoad(c, able) == [from |-> "object", content |-> c, encodes |-> able]
EmptyLoad           == [from |-> "generated"]
ManifestLoad(text)  == [from |-> "manifest", text |-> text]

Loads ==
  [from : {"filesystem"}, file : Seq(Names)]
    \cup [from : {"bytes"}, content : Buffers]
    \cup [from : {"stream"}, stream : Streams]
    \cup [from : {"object"}, content : Objects, encodes : BOOLEAN]
    \cup [from : {"generated"}]

Kinds == {"file", "directory", "generated", "object"}

Entry(path, kind, load) == [path |-> path, kind |-> kind, load |-> load]

Entries == [path : LogicalPath(Names), kind : Kinds, load : Loads]

HasPath(entries, path) == \E i \in DOMAIN entries : entries[i].path = path

FirstAt(entries, path) ==
  CHOOSE i \in DOMAIN entries :
    /\ entries[i].path = path
    /\ \A j \in 1..(i - 1) : entries[j].path # path

\* Wrong variant: the path is not looked up.
insert_entry(entries, e) == Append(entries, e)

\* Replace the first entry with this path, or append.
upsert_entry(entries, e) ==
  IF HasPath(entries, e.path)
  THEN [entries EXCEPT ![FirstAt(entries, e.path)] = e]
  ELSE Append(entries, e)

UpsertAll(entries, new) ==
  LET Done[i \in 0..Len(new)] ==
        IF i = 0 THEN entries ELSE upsert_entry(Done[i - 1], new[i])
  IN  Done[Len(new)]

\* Wrong variant: what is inside a directory goes with it.
erase_tree(entries, path) ==
  LET Gone(e) == /\ Len(path.parts) <= Len(e.path.parts)
                 /\ SubSeq(e.path.parts, 1, Len(path.parts)) = path.parts
      Kept[i \in 0..Len(entries)] ==
        IF i = 0 THEN <<>>
        ELSE IF Gone(entries[i]) THEN Kept[i - 1]
        ELSE Append(Kept[i - 1], entries[i])
  IN  Kept[Len(entries)]

erase_exact(entries, path) ==
  LET Kept[i \in 0..Len(entries)] ==
        IF i = 0 THEN <<>>
        ELSE IF entries[i].path = path THEN Kept[i - 1]
        ELSE Append(Kept[i - 1], entries[i])
  IN  Kept[Len(entries)]

UniquePaths(entries) ==
  \A i, j \in DOMAIN entries : entries[i].path = entries[j].path => i = j

PathsOf(entries) == {entries[i].path : i \in DOMAIN entries}

-----------------------------------------------------------------------------
(* State *)

make_zipper ==
  [entries  |-> <<>>,    filters     |-> <<>>, codec        |-> "stored",
   manifest |-> Nothing, destination |-> "",   archive_name |-> "archive.mz",
   hook     |-> Nothing, sealed      |-> FALSE]

\* The manifest of every zipper has the same archive path.
ManifestPath == [parts |-> <<"meta", "package.ini">>, slash |-> FALSE]

Target(z) == <<z.destination, z.archive_name>>

Targets == ({""} \cup Destinations) \X ({"archive.mz"} \cup ArchiveNames)

Init ==
  /\ zip = [h \in Handles |-> make_zipper]
  /\ manifests = [m \in Manifests |-> EmptyManifest]
  /\ disk \in [Files -> Contents \cup {Nothing}]
  /\ stream \in [Streams -> Contents]
  /\ store = [t \in Targets |-> "absent"]
  /\ job = Nothing

ensure_mutable(h) == ~zip[h].sealed

Encoding == job # Nothing /\ job.outcome = "running" /\ Len(job.archive) < Len(job.work)

\* Wrong variant: the zipper's own entries are iterated, not the copy.
CurrentLive ==
  LET live == zip[job.owner].entries
      n    == Len(job.archive) + 1
  IN  IF n \in DOMAIN live THEN live[n] ELSE job.work[n]

Current == job.work[Len(job.archive) + 1]

\* Whether the caller's code runs inside the build: a filter of the zipper, the
\* stream or serializer of the entry in hand, or the hook of the call.
LoaderCallsBack ==
  Encoding /\ (zip[job.owner].filters # <<>> \/ Current.load.from \in {"stream", "object"})

CallsBack == job.outcome = "running" /\ (job.hooked \/ LoaderCallsBack)

-----------------------------------------------------------------------------
(* Settings *)

SetCodec(h, codec) ==
  /\ ensure_mutable(h)
  /\ zip' = [zip EXCEPT ![h].codec = codec]
  /\ UNCHANGED <<manifests, disk, stream, store, job>>

SetDestination(h, destination) ==
  /\ ensure_mutable(h)
  /\ zip' = [zip EXCEPT ![h].destination = destination]
  /\ UNCHANGED <<manifests, disk, stream, store, job>>

SetArchiveName(h, name) ==
  /\ ensure_mutable(h)
  /\ zip' = [zip EXCEPT ![h].archive_name = name]
  /\ UNCHANGED <<manifests, disk, stream, store, job>>

WithFilter(h, filter) ==
  /\ ensure_mutable(h)
  /\ Len(zip[h].filters) < MaxFilters
  /\ zip' = [zip EXCEPT ![h].filters = Append(@, filter)]
  /\ UNCHANGED <<manifests, disk, stream, store, job>>

\* The only setter that does not look at the seal.  The zipper being built has
\* its hook called through a pointer, so that hook's callbacks cannot replace
\* it; those of a filter or of an entry's loader can.
WithHook(h, hook) ==
  /\ job # Nothing => job.owner # h \/ ~job.hooked \/ LoaderCallsBack
  /\ zip' = [zip EXCEPT ![h].hook = hook]
  /\ UNCHANGED <<manifests, disk, stream, store, job>>

Seal(h) ==
  /\ zip' = [zip EXCEPT ![h].sealed = TRUE]
  /\ UNCHANGED <<manifests, disk, stream, store, job>>

Reopen(h) ==
  /\ zip' = [zip EXCEPT ![h].sealed = FALSE]
  /\ UNCHANGED <<manifests, disk, stream, store, job>>

\* Wrong variants: the copy does not take the seal, or keeps g's own entries.
CopyUnsealed(h, g) ==
  /\ job # Nothing => job.owner # g
  /\ zip' = [zip EXCEPT ![g] = [zip[h] EXCEPT !.sealed = zip[g].sealed]]
  /\ UNCHANGED <<manifests, disk, stream, store, job>>

CopyAdding(h, g) ==
  /\ job # Nothing => job.owner # g
  /\ zip' = [zip EXCEPT ![g] =
               [zip[h] EXCEPT !.entries = UpsertAll(zip[g].entries, @)]]
  /\ UNCHANGED <<manifests, disk, stream, store, job>>

\* Copy construction or assignment; pipelines pass zippers by value.  Not onto
\* the zipper being built, whose running callback the assignment would destroy.
Copy(h, g) ==
  /\ job # Nothing => job.owner # g
  /\ zip' = [zip EXCEPT ![g] = zip[h]]
  /\ UNCHANGED <<manifests, disk, stream, store, job>>

-----------------------------------------------------------------------------
(* Entries of a zipper *)

\* The entries of h become entries.
Put(h, entries) ==
  /\ ensure_mutable(h)
  /\ Len(entries) <= MaxEntries
  /\ zip' = [zip EXCEPT ![h].entries = entries]
  /\ UNCHANGED <<manifests, disk, stream, store, job>>

FileEntry(host, logical) ==
  Entry(normalize_entry_path(logical, FALSE), "file",
        FileLoad(normalize_relative_path(host)))

\* add_file(path) is add_file_as(path, path).
AddFileAs(h, host, logical) ==
  Put(h, upsert_entry(zip[h].entries, FileEntry(host, logical)))

AddBytes(h, logical, content) ==
  Put(h, upsert_entry(zip[h].entries,
           Entry(normalize_entry_path(logical, FALSE), "generated",
                 BytesLoad(content))))

AddStream(h, logical, s) ==
  Put(h, upsert_entry(zip[h].entries,
           Entry(normalize_entry_path(logical, FALSE), "generated",
                 StreamLoad(s))))

AddObject(h, logical, content, encodes) ==
  Put(h, upsert_entry(zip[h].entries,
           Entry(normalize_entry_path(logical, FALSE), "object",
                 ObjectLoad(content, encodes))))

\* Removes the file and the directory of that name, not what is inside it.
RemoveItem(h, logical) ==
  Put(h, erase_exact(erase_exact(zip[h].entries,
                                 normalize_entry_path(logical, FALSE)),
                     normalize_entry_path(logical, TRUE)))

DirectoryEntry(raw) ==
  Entry(normalize_entry_path(raw, TRUE), "directory", EmptyLoad)

Inside(dir, node) ==
  /\ Len(dir) < Len(node)
  /\ SubSeq(node, 1, Len(dir)) = dir

Relative(dir, node) == SubSeq(node, Len(dir) + 1, Len(node))

\* What an iteration over a directory yields.
Listing(dir, recursive) ==
  {node \in Dirs \cup {f \in Files : disk[f] # Nothing} :
     Inside(dir, node) /\ (recursive \/ Len(node) = Len(dir) + 1)}

\* A directory comes before what it holds and is followed by all of it at
\* once; otherwise the order is the file system's.
IterationOrder(nodes) ==
  {order \in [1..Cardinality(nodes) -> nodes] :
     /\ \A n \in nodes : \E i \in DOMAIN order : order[i] = n
     /\ \A i, j, k \in DOMAIN order :
          /\ Inside(order[i], order[k]) => i < k
          /\ i < j /\ j < k /\ Inside(order[i], order[k])
               => Inside(order[i], order[j])}

Child(dir, node) ==
  IF node \in Dirs
  THEN DirectoryEntry(Relative(dir, node))
  ELSE Entry(normalize_entry_path(Relative(dir, node), FALSE), "file",
             FileLoad(node))

\* The directory's own entry goes in first; then the call throws when there is
\* no such directory, or when the file system fails after yielded children.
\* What was added before the exception stays.
AddDirectory(h, raw, recursive) ==
  LET dir  == normalize_relative_path(raw)
      root == upsert_entry(zip[h].entries, DirectoryEntry(raw))
  IN  IF dir \notin Dirs
      THEN Put(h, root)
      ELSE \E order \in IterationOrder(Listing(dir, recursive)) :
             \E yielded \in 0..Len(order) :
               Put(h, UpsertAll(root,
                        [i \in 1..yielded |-> Child(dir, order[i])]))

-----------------------------------------------------------------------------
(* The manifest *)

\* make_shared: an object no zipper points at.
CreateManifest(h, m) ==
  /\ ensure_mutable(h)
  /\ \A g \in Handles : zip[g].manifest # m
  /\ zip' = [zip EXCEPT ![h].manifest = m]
  /\ manifests' = [manifests EXCEPT ![m] = EmptyManifest]
  /\ UNCHANGED <<disk, stream, store, job>>

AddToManifest(h, cmd) ==
  /\ ensure_mutable(h)
  /\ zip[h].manifest # Nothing
  /\ Accepts(cmd)
  /\ manifests' = [manifests EXCEPT
                     ![zip[h].manifest] = consume_command(@, cmd)]
  /\ UNCHANGED <<zip, disk, stream, store, job>>

-----------------------------------------------------------------------------
(* Building *)

ManifestEntry(z) ==
  Entry(ManifestPath, "manifest", ManifestLoad(serialize(manifests[z.manifest])))

\* Wrong variant: a caller's entry at the manifest's path is kept.
WorkingKeeps(z) ==
  IF z.manifest = Nothing \/ HasPath(z.entries, ManifestPath)
  THEN z.entries ELSE Append(z.entries, ManifestEntry(z))

\* The entries of the archive to be: a copy of the zipper's, with the manifest
\* replacing the first entry at its path or appended.
Working(z) ==
  IF z.manifest = Nothing THEN z.entries
  ELSE upsert_entry(z.entries, ManifestEntry(z))

\* asked and wanted record the call's zipper for the properties: its paths and
\* its manifest's text, if it has a manifest.  The code keeps neither.  Whether
\* there is a hook is decided here, once.
NewJob(h, z, sink) ==
  [owner |-> h, sink |-> sink, work |-> Working(z), archive |-> <<>>,
   outcome |-> "running", hooked |-> z.hook # Nothing, asked |-> PathsOf(z.entries),
   wanted |-> IF z.manifest = Nothing THEN {}
              ELSE {serialize(manifests[z.manifest])}]

\* build and build_archive_bytes may be called on a sealed zipper.
Build(h, sink) ==
  /\ job = Nothing
  /\ job' = NewJob(h, zip[h], sink)
  /\ UNCHANGED <<zip, manifests, disk, stream, store>>

\* build_file sets the name and the destination first, and keeps them.
BuildFile(h, destination, name) ==
  /\ job = Nothing
  /\ ensure_mutable(h)
  /\ zip' = [zip EXCEPT ![h].archive_name = name, ![h].destination = destination]
  /\ job' = NewJob(h, zip[h], "file")
  /\ UNCHANGED <<manifests, disk, stream, store>>

\* The loader succeeds.
Loadable(load) ==
  CASE load.from = "filesystem" -> load.file \in Files /\ disk[load.file] # Nothing
    [] load.from = "object"     -> load.encodes
    [] OTHER                    -> TRUE

Payload(load) ==
  CASE load.from = "filesystem"        -> disk[load.file]
    [] load.from \in {"bytes", "object"} -> load.content
    [] load.from = "stream"            -> stream[load.stream]
    [] load.from = "manifest"          -> load.text
    [] OTHER                           -> Empty

\* Reading a stream drains it, whatever happens to the build afterwards.
Drain(load) ==
  IF load.from = "stream"
  THEN stream' = [stream EXCEPT ![load.stream] = Empty]
  ELSE UNCHANGED stream

\* The filters and the codec are read through references to the zipper's own
\* members: they are those of the moment, not those of the call.
EncodeEntry ==
  /\ Encoding
  /\ Loadable(Current.load)
  /\ Drain(Current.load)
  /\ LET z == zip[job.owner]
     IN  job' = [job EXCEPT !.archive = Append(@,
                  [path |-> Current.path, kind |-> Current.kind,
                   codec |-> z.codec, filters |-> z.filters,
                   payload |-> Payload(Current.load)])]
  /\ UNCHANGED <<zip, manifests, disk, store>>

\* The hook asks to cancel, which is polled before the payload is read.
CancelBuild ==
  /\ Encoding
  /\ job.hooked
  /\ job' = [job EXCEPT !.outcome = "failed"]
  /\ UNCHANGED <<zip, manifests, disk, stream, store>>

\* Wrong variant: an entry that cannot be read is tried again.
LoadRetries == Encoding /\ ~Loadable(Current.load) /\ UNCHANGED vars

LoadFails ==
  /\ Encoding
  /\ ~Loadable(Current.load)
  /\ job' = [job EXCEPT !.outcome = "failed"]
  /\ UNCHANGED <<zip, manifests, disk, stream, store>>

\* A filter reports an error, after the payload was read.
FilterFails ==
  /\ Encoding
  /\ zip[job.owner].filters # <<>>
  /\ Loadable(Current.load)
  /\ Drain(Current.load)
  /\ job' = [job EXCEPT !.outcome = "failed"]
  /\ UNCHANGED <<zip, manifests, disk, store>>

Encoded == job # Nothing /\ job.outcome = "running" /\ Len(job.archive) = Len(job.work)

BuildBytes ==
  /\ Encoded
  /\ job.sink = "memory"
  /\ job' = [job EXCEPT !.outcome = "ok"]
  /\ UNCHANGED <<zip, manifests, disk, stream, store>>

\* Without a name there is nothing to write to: the path is empty, which is
\* checked only now, or it is the destination directory, which does not open.
NoTarget ==
  /\ Encoded
  /\ job.sink = "file"
  /\ zip[job.owner].archive_name = ""
  /\ job' = [job EXCEPT !.outcome = "failed"]
  /\ UNCHANGED <<zip, manifests, disk, stream, store>>

\* write_file_bytes opens the target for truncation and writes it in place:
\* when that fails in the middle, the target is torn.  The stream is flushed
\* only when it is destroyed, after the last check, so a failed flush tears the
\* target of a write that is reported as done.
WriteOutcomes(target) ==
  {[left |-> "complete", reports |-> "ok"]}
    \cup {[left |-> "torn", reports |-> "ok"] : e \in DiskErrors \cap {"flush"}}
    \cup {[left |-> "torn", reports |-> "failed"] : e \in DiskErrors \cap {"write"}}
    \cup {[left |-> store[target], reports |-> "failed"] :
             e \in DiskErrors \cap {"open"}}

\* Wrong variant: the archive is written as its entries are encoded.
WriteArchiveEarly ==
  /\ Encoding \/ Encoded
  /\ job.sink = "file"
  /\ zip[job.owner].archive_name # ""
  /\ LET target == Target(zip[job.owner])
     IN  \E written \in WriteOutcomes(target) :
           /\ store' = [store EXCEPT ![target] = written.left]
           /\ job' = [job EXCEPT !.outcome = written.reports]
  /\ UNCHANGED <<zip, manifests, disk, stream>>

WriteArchive ==
  /\ Encoded
  /\ job.sink = "file"
  /\ zip[job.owner].archive_name # ""
  /\ LET target == Target(zip[job.owner])
     IN  \E written \in WriteOutcomes(target) :
           /\ store' = [store EXCEPT ![target] = written.left]
           /\ job' = [job EXCEPT !.outcome = written.reports]
  /\ UNCHANGED <<zip, manifests, disk, stream>>

\* The call returns to its caller.
Return ==
  /\ job # Nothing
  /\ job.outcome # "running"
  /\ job' = Nothing
  /\ UNCHANGED <<zip, manifests, disk, stream, store>>

-----------------------------------------------------------------------------
(* Other programs change the files on disk. *)

WriteFile(f, content) ==
  /\ disk' = [disk EXCEPT ![f] = content]
  /\ UNCHANGED <<zip, manifests, stream, store, job>>

RemoveFile(f) ==
  /\ disk' = [disk EXCEPT ![f] = Nothing]
  /\ UNCHANGED <<zip, manifests, stream, store, job>>

-----------------------------------------------------------------------------

Configure(h) ==
  \/ \E c \in Codecs : SetCodec(h, c)
  \/ \E d \in Destinations : SetDestination(h, d)
  \/ \E n \in ArchiveNames : SetArchiveName(h, n)
  \/ \E f \in Filters : WithFilter(h, f)
  \/ \E hook \in Hooks : WithHook(h, hook)
  \/ Seal(h)
  \/ Reopen(h)
  \/ \E g \in Handles \ {h} : Copy(h, g)

EditEntries(h) ==
  \E raw \in RawPaths :
    \/ \E host \in Hosts : AddFileAs(h, host, raw)
    \/ \E r \in BOOLEAN : AddDirectory(h, raw, r)
    \/ \E c \in Buffers : AddBytes(h, raw, c)
    \/ \E s \in Streams : AddStream(h, raw, s)
    \/ \E c \in Objects, e \in BOOLEAN : AddObject(h, raw, c, e)
    \/ RemoveItem(h, raw)

EditManifest(h) ==
  \/ \E m \in Manifests : CreateManifest(h, m)
  \/ \E cmd \in Commands : AddToManifest(h, cmd)

StartBuild(h) ==
  \/ \E sink \in Sinks : Build(h, sink)
  \/ \E d \in Destinations, n \in ArchiveNames : BuildFile(h, d, n)

BuildStep ==
  \/ EncodeEntry
  \/ LoadFails
  \/ BuildBytes
  \/ NoTarget
  \/ WriteArchive
  \/ Return

RunBuild == BuildStep \/ CancelBuild \/ FilterFails

Environment ==
  \E f \in Files :
    \/ \E c \in Contents : WriteFile(f, c)
    \/ RemoveFile(f)

\* The caller between builds, a callback during one.
Caller ==
  /\ job # Nothing => CallsBack
  /\ \E h \in Handles : Configure(h) \/ EditEntries(h)
                         \/ EditManifest(h) \/ StartBuild(h)

Next ==
  \/ Caller
  \/ RunBuild
  \/ Environment

Spec == Init /\ [][Next]_vars

\* A build in progress goes on: it is a loop of its caller's thread, and the
\* callbacks it runs are assumed to return, but never to cancel or to fail.
FairSpec == Spec /\ WF_vars(BuildStep)

-----------------------------------------------------------------------------
(* Properties *)

Zippers ==
  [entries : Seq(Entries), filters : Seq(Filters),
   codec : {"stored"} \cup Codecs, manifest : Manifests \cup {Nothing},
   destination : {""} \cup Destinations,
   archive_name : {"archive.mz"} \cup ArchiveNames,
   hook : Hooks \cup {Nothing}, sealed : BOOLEAN]

IsSequence(s) == s \in Seq({s[i] : i \in DOMAIN s})

TypeOK ==
  /\ zip \in [Handles -> Zippers]
  /\ DOMAIN manifests = Manifests
  /\ disk \in [Files -> Contents \cup {Nothing}]
  /\ stream \in [Streams -> Contents \cup {Empty}]
  /\ store \in [Targets -> {"absent", "complete", "torn"}]
  /\ job # Nothing =>
       /\ DOMAIN job = {"owner", "sink", "work", "archive", "outcome",
                        "hooked", "asked", "wanted"}
       /\ job.owner \in Handles
       /\ job.sink \in Sinks \cup {"file"}
       /\ job.outcome \in {"running", "ok", "failed"}
       /\ IsSequence(job.work) /\ IsSequence(job.archive)
       /\ Len(job.archive) <= Len(job.work)

\* Entry replacement is collision-safe: neither a zipper, nor the archive it is
\* building, manifest included, ever has two entries of one logical path,
\* whatever mix of files, directory trees, buffers, removals and copies made it.
UniqueLogicalPaths ==
  /\ \A h \in Handles : UniquePaths(zip[h].entries)
  /\ job # Nothing => UniquePaths(job.work) /\ UniquePaths(job.archive)

\* An archive that is built holds the logical paths the zipper had when build
\* was called, and the manifest's if there was one, whatever the callbacks that
\* ran between its entries did to that zipper.
ArchiveIsSnapshot ==
  job # Nothing /\ job.outcome = "ok" =>
    PathsOf(job.archive) =
      job.asked \cup (IF job.wanted = {} THEN {} ELSE {ManifestPath})

\* A zipper with a manifest builds archives whose entry at the manifest's path
\* is the manifest as it was when build was called: a caller's own entry at
\* that path never shadows it, and a later command never gets in.
ManifestIsFinal ==
  job # Nothing /\ job.outcome = "ok" =>
    \A text \in job.wanted :
      \E i \in DOMAIN job.archive :
        /\ job.archive[i].path = ManifestPath
        /\ job.archive[i].kind = "manifest"
        /\ job.archive[i].payload = text

\* A zipper with any hook: what of it the seal is to protect.
Sealable(z) == [z EXCEPT !.hook = Nothing]

\* While a zipper stays sealed, nothing but an assignment to the whole object
\* changes its entries, filters, settings, which manifest it has, or where it
\* is written: not a build, not a callback of one.  Its hook is excepted:
\* with_hook does not look at the seal, and a build runs what it was given.
SealedIsFrozen ==
  [][\A g \in Handles :
       zip[g].sealed /\ zip'[g].sealed /\ Sealable(zip'[g]) # Sealable(zip[g])
         => \E h \in Handles : zip'[g] = zip[h]]_vars

\* Nothing is written before every entry has been encoded: a build that is
\* cancelled, cannot read an entry or is refused by a filter leaves the archive
\* of an earlier build as it was.
FailedEncodeKeepsArchive ==
  [][store' # store =>
       /\ job # Nothing
       /\ [i \in DOMAIN job.archive |-> job.archive[i].path]
            = [i \in DOMAIN job.work |-> job.work[i].path]]_vars

\* Every build returns, even when its callbacks keep editing the zipper.
BuildReturns == job # Nothing ~> job = Nothing

\* A build to the configured destination that reports success has left the
\* archive there, in full.
SuccessMeansWritten ==
  [][/\ job # Nothing /\ job.sink = "file" /\ job.outcome = "running"
     /\ job' # Nothing /\ job'.outcome = "ok"
     => store'[Target(zip[job.owner])] = "complete"]_vars

-----------------------------------------------------------------------------
(* The map a zipper implements *)

EntryMap(entries) == [p \in PathsOf(entries) |-> entries[FirstAt(entries, p)]]

Map == INSTANCE ArchiveMap
         WITH content <- [h \in Handles |-> EntryMap(zip[h].entries)],
              sealed  <- {h \in Handles : zip[h].sealed}

\* The entry list implements the map from paths to entries: whatever the code
\* does to its vector is, seen as a map, one of the map's own operations.
ImplementsMap == Map!Spec

=============================================================================
