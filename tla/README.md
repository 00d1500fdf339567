# SerdeTk and MiniZIP: specifications, checks and proofs

The repository holds two header-only C++ libraries and some plugins:

* **MiniZIP** (`include/MiniZIP.hpp`): builds archives from files, directories,
  buffers, streams and objects, reads and extracts them, and carries its own
  Zstandard encoder and decoder.
* **SerdeTk** (`include/SerdeTk.hpp`, `stdplugin/SerdeTk`): a document model with
  readers and writers for several formats, queries, validation, packages (a
  document in a MiniZIP archive), and plugins for semantic versions, schemas and
  XPath.

This directory models MiniZIP's builder, reader, paths, manifest, compression
backend and journals, and of SerdeTk the versions, the resolver and its graph,
the XPath plugin, five formats, the schema validator and packages.

Run `tlc -config <cfg> <MC module>` for a run and `tlapm <module>` for proofs;
`PROJECT.json` lists the runs with their properties, the source lines each
definition models, the hazards each property is for, and the wrong variants each
property must catch.

## 1. Inventory

### MiniZIP

| Component | State | Operations | What makes it correct |
|---|---|---|---|
| Entry paths (`detail::normalize_*`) | none | fold `.`, `..`, repeated slashes; mark directories with a trailing slash | the result is exactly the names no `..` takes back; normalizing again changes nothing |
| Builder (`api::zipper`) | list of entries with payload loaders, filters, hook, codec, manifest pointer, destination, name, seal | `add_*`, `remove_item`, setters, `seal`/`reopen`, copying, `build`, `build_file`, `build_archive_bytes` | one entry per logical path; a sealed zipper does not change, but for its hook; the archive is the zipper at the time of the call; nothing is written before everything is encoded |
| Manifest (`INIManifest`) | sections and the current one | `.section`, `.kv`, `serialize` | the archive's entry at its path is the manifest as of the call |
| Reader (`api::extractor`) | decoded records, filters, policy, destination, hook | `open`, `verify`, `list_entries`, `extract_all`, `extract_bytes`, `extract<T>` | the tree on disk is a prefix of the archive when it stops, all of it when it succeeds; conflict policies are kept |
| Backend (`backend::zstd_engine`) | position in the input, output | `compress`, `decompress`, `inspect_frame` | what is encoded is decoded; damaged input fails as a whole, sound input does not |
| Journal (`journal_archiver`) | text, commands, diagnostics, zipper | `lint`, `parse`, `validate`, `scaffold`, `build`, `save` in any order | nothing is saved from a journal with errors |
| Pipeline DSL | a zipper by value | operators that call the builder | copies stay independent |
| Plugin registry | id to plugin | `register_plugin`, `find`, `ids` | first registration of an id wins |

### SerdeTk

| Component | State | Operations | What makes it correct |
|---|---|---|---|
| Document model (`Value`, `Object`, `Array`) | trees with shared nodes | construction, copying, editing | aliasing is what a caller expects |
| Format registry | formats by name, extension | register, find | lookups agree with the registration order |
| JSON, YAML, XML, S-expression, CBOR, MessagePack, BSON | none | load, dump | a dumped document loads as itself, up to what the format cannot tell apart; a file cut off is refused where something closes the text: not a lone number of JSON, a lone atom of an S-expression, or the carriers' binaries |
| SKTL | none | parse, validate, compile a format description | a compiled format behaves as described |
| Queries, builders, printers, editor | a document | walks and edits | - |
| Validator | schema | validate | the verdict survives storing schema and document |
| Packages | - | create, extract through MiniZIP | a package extracts to what it was made of |
| Semantic versions | - | order, constraint matching, parsing | an order `std::sort` can use; ranges and constraints mean what their texts say |
| Storage, resolver, dependency graph | releases; edges | add, resolve, cycle test, topological order | a resolution satisfies every constraint and a refusal has none; a cycle is reported; the order lists dependencies first |
| Schema registry | schemas by identifier | put, find, resolve | the schema is that of the file |
| XPath | code DAG | tokenize, parse, normalize, validate, evaluate | the tree is the text; sharing subtrees changes nothing; a validated query fails by types only |
| Front end, CLI, REPL | - | dispatch commands | - |

`third_party` is vendored and `stdplugin/MiniZIP` holds empty files; neither is
modelled.

### How they interact, and what is hard

Everything runs on its caller's thread. What interleaves with an operation is
nevertheless plenty:

* **Callbacks.** A build calls the hook (`should_cancel`, `on_entry`, `on_progress`),
  streams, serializers and filters between and within entries. They are the caller's code and may call
  any operation of any zipper, the one being built included.
* **Late reading.** Files and streams are read when the archive is built, the
  manifest is serialized when the build starts, filters and codec are read anew
  for each entry. Files may change or go; streams are drained.
* **Other programs.** Extraction tests for a target and then writes it; others use
  the same directory.
* **Partial failure.** `add_directory` and `extract_all` work piecewise and keep what
  they did; files are truncated and written in place; the last flush happens in a
  destructor.
* **Sharing.** Zippers are values, but a copy shares the manifest object.
* **Two readers of one format.** `decompress` and `inspect_frame` parse the same
  headers.
* **Any order of calls.** A journal may be linted, parsed, scaffolded and saved in
  any order and again, over a file that is edited in between.
* **Recursion with marks.** The graph's searches end, and tell a diamond from a
  circle, by two sets of marks.
* **A solver's choice.** The resolver returns whatever assignment the SAT solver
  finds first: the formula has to be right for all of them.
* **Texts with more than one reading.** A `*` in XPath, a dash in a version, a line's
  end in a package's metadata.

`PROJECT.json` lists these hazards one by one at their lines.

## 2. Modules

    EntryPath  INIManifest     FrameContentSize   DependencyGraph  Versions
         \       /                   |                      \       /
          Zipper -> ArchiveMap      Zstd     Extractor      Resolver
             |
          Journal                   XPathSyntax        Texts
                                         |            /     \
                                    XPathQuery   Formats   Packages
                                                    |
                                                Validation

    Operators (EntryPath, Versions, Packages) -> MCFormats (and Formats, Validation)
                                              -> MCOperators
    MCZipper  MCJournal  MCExtractor  MCZstd  MCResolver  MCXPath

    FiniteRecursion (induction, for all)
    EntryPathProofs -> ZipperProofs -> JournalProofs      ZstdProofs
    EntryPathProofs -> OperatorProofs                     ExtractorProofs
    ResolverProofs (DependencyGraph and Resolver)

A line down is EXTENDS; `Zipper -> ArchiveMap` is the refinement. Definitions named
"wrong variant" are bugs that the checks must notice (the mutants); nothing else
uses them.

**EntryPath** has `normalize_relative_path` as a fold over the components of a
path. A raw path is a sequence of components, where `""` stands for what doubled,
leading and trailing slashes leave; a logical path is the normalized components and
a flag for the trailing slash. **INIManifest** has the two commands of the manifest
and its sections.

**Zipper** has a record per zipper object, with the fields that matter to a build,
and the shared manifest objects beside them. There is one action per public
operation. Payload loaders are data: where the bytes will come from. `build` is a
`job`: `Build` copies the entries (`Working`, with the manifest), `EncodeEntry`,
`LoadFails`, `FilterFails` and `CancelBuild` are one iteration of `encode_archive`,
`WriteArchive` is `write_file_bytes`. Between these steps any action of any zipper
may happen where the caller's code runs (`CallsBack`): in the hook, if the zipper had
one when the build was called (`job.hooked`), in its filters, and in the stream or
serializer of an entry. Only a hook cancels. `Environment` changes files at any time.
`add_directory` is one action, since no callback runs in it; it may stop after any
number of children, as when the iterator throws, and it takes children in any order
a recursive directory iterator may have (`IterationOrder`). A build started from a
callback of another build is not modelled. `job.asked` and `job.wanted` are history:
the paths and the manifest as of the call, which nothing reads but the properties.

**ArchiveMap** is what the builder promises: a map from logical paths to entries
per zipper, with a seal. `Zipper!ImplementsMap` is the refinement, with the map read
from the list of entries.

**Journal** puts the journal archiver on top of Zipper: `Own` is its zipper. A line
is a sequence of words, quoted texts and numbers (`ScriptsAssumption`: what the lexer
takes for an integer is one); `CommandsOf` is the parser, a loop over the lines.
What a list of commands means is said without their order where the order does not
matter, and by `Told`, the commands after the last manifest line, where it does. `lint`, `parse`, `validate`, `scaffold`, `save` are actions, possible in
any order; `scaffold` is one step per command (`ScaffoldStep`, or `ScaffoldThrows`),
each of which is an operation of the zipper. `EditScript` is whoever edits the file.
`stage` and `read` are history: how far the chain of the manual has come, and on
which text.

**FrameContentSize** is the arithmetic of the size field; `W1`, `W2`, `W4`, `W8` are
2^8, 2^16, 2^32 and 2^64 in the code. **Zstd** has the encoder as the operator
`compress`, the decoder as a step machine (header, block, end of frame), and
`inspect_frame` as an operator. An input is a sequence of frames whose last one may
be cut; window descriptor, dictionary id and checksum are read past by the code
and left out.

**Extractor** has `open` as one step and `extract_all` as one step per entry, or two
for a file: `CheckTarget` (the test for an existing target) and `WriteTarget`
(`write_file_bytes`), with other programs in between, at the places `Intruded`. The
file system is a function from places to absent, directory, file or torn file, under
whatever destination is set; without one `extract_all` is refused. `extract_all_to` is
`extract_all` of a copy with its own destination.

**Versions** has the order of versions, what a constraint matches and the parsers of
both, over texts already split at the characters the code splits at. A component is
below `NumberLimit` (2^32 in the code), and arithmetic on it wraps. The two loops of
`parse_constraint` are loops here: `read_clause` over the words of an alternative,
`read_alternatives` over the alternatives, each value so far a clause or constraint,
or the failure the code returns with.

**Operators** asks what normalization, the order and the readers are for. Its state
is one input, which grows a component or a word at a time where it is a sequence;
its constants are what inputs may be made of (`InputsAssumption`: any components of
paths, any versions, any texts of versions, any words, any contents of packages).
**MCFormats** adds documents and schemas as inputs and gives Packages the formats of
Formats, **MCOperators** the sample values.

**DependencyGraph** has `add_edge` and the two searches, `contains_cycle` and
`topological_order`, which asks the former. The recursion is an explicit stack of
labels and positions; `Visit`, `SkipVisited`, `FindCycle` and `Leave` are a call, the
early return, the cycle and the return. **Resolver** has `Storage::add`, which sorts,
and `resolve`, which collects the reachable packages, makes a set of clauses and
gives it to the solver: any satisfying assignment, or none if there is none. What
is selected becomes the graph, whose search for a cycle then runs step by step.

**XPathSyntax** is the static half of the XPath plugin (tokenizer, recursive-descent
parser, normalizer, validator), **XPathQuery** the dynamic one (a document seen as
items, the evaluator, `query`). Failure is a value: a parse carries how far it came,
an answer its error. A number is an exact decimal of up to three places; exponents and
the words `std::stod` takes for numbers do not occur. `div`, `idiv`, `mod` and the tree
printer are left out.

**Texts** has what the formats need below the level of documents: texts as sequences
of symbols, the strings of JSON (escaped and read back) and the heads of CBOR, with
the width `cbor_emit_len` chooses and the bytes `read_len` puts together again.
**Formats** has documents as tagged values and the dumper and loader of JSON,
S-expressions and CBOR, and the carriers named MessagePack and BSON (a marker and
JSON text, as in the code). A word or numeral is one symbol, and so is each thing a
file may end in that ends inside one. **Validation** is the schema validator, every keyword but
`pattern`. **Packages** is `create` and `extract` with the archive as the record of
its entries; the archive proper is Zipper's and Extractor's, and the formats are
parameters (`Registered`, `Serialize`, `Deserialize`), as a package only calls them.

## 3. Runs

| Run | What it shows | Bounds |
|---|---|---|
| `entries` | all edits of one zipper: well typed, paths unique, the list implements the map, and a seal holds | 4 entries; a directory with a file, reached as `f/../d/` and as `.`, beside a file; file, buffer, stream and directory entries |
| `build` | builds with callbacks that edit the zipper and its manifest: the archive and its manifest are those of the call, the build returns, and one that fails leaves the archive before it alone | 2 entries and a manifest whose path callers may use too; one filter, which may refuse; a hook, which may cancel; a file that comes and goes; to memory and to a file |
| `target` | two zippers copied onto each other and built to a target: no write before all is encoded, copies independent, seal copied, a sealed zipper frozen but for its hook | 2 entries each, objects that encode or not, a hook that cancels, two names (one empty), failing open and write |
| `written` | **violated**: a failed flush is reported as success | 1 entry |
| `zstd` | decoding of encoded payloads and of arbitrary sequences of frames; failures have a cause; inspection agrees; every call returns | widths 2, 4, 8, 64, block size 3, payloads up to 12 bytes, so all widths of the size field and several full and partial blocks; up to 2 frames of up to 2 blocks |
| `zstd_truncated` | **violated**: a short frame after another is accepted | as above |
| `extract` | extraction is a prefix, complete on success, keeps files unless told to replace; what a verified archive gives is the original | archives of up to 3 of: a directory, a file in it, one beside it, a file in the directory's place, in every order, and some with a root, filtered or undecodable entry; any sound tree before; failing open and write; a second program at one place |
| `journal` | the chain of the manual yields what one checked text says; scaffold does what its commands say | 7 texts: right, malformed in the middle, without an archive line, throwing, with colliding sources, two manifests, a filter; two files in one directory |
| `resolve` | resolutions are sound, refusals justified, circles reported, cycle and order right, searches end | 3 packages, 3 releases (two that only the build tells apart), stores of size 5 (releases and dependencies), own graphs of 4 edges |
| `xpath` | nothing of the text is lost, operators bind by rank, sharing keeps the tree, a validated query fails by type only, positions pick | expressions of up to 5 of 27 pieces (among them `[2]`, `[.][1.2]` and a literal that forges a signature), asked when of up to 4, of 5 documents |
| `xpath_unclosed` | **violated**: a last quote without partner is dropped | 5 pieces of quote, space, name, digit, `=` |
| `operators` | normalization against its definition, the order of versions, ranges, constraints; formats, schemas and packages keep what they are given | paths of 5 components of two names, `.`, `..`, empty; versions with up to two identifiers; texts of versions of up to 3 components and some that do not parse; constraints of 5 words and bars; `NumberLimit` = `IdentifierLimit` = 3; CBOR with `Base` 3 and one immediate value; the sets of MCFormats |

The bounds are small because the code treats entries, frames, blocks, releases and
tokens one at a time: what can go wrong needs two or three things of a kind (two
spellings of a path, two zippers, two frames, an entry before and one after a
callback, a diamond and a circle of three labels, two operators of different rank),
and each run has these. Widths are shrunk so that all their edges are met:
`FrameContentSize` at 2, 4, 8, 64, CBOR heads at powers of 3.

In every run that builds with `FailedEncodeKeepsArchive` among its properties a build
may fail after an entry was encoded and after an earlier build wrote the target: in
`build` because a file is gone, the filter refuses or the hook cancels, in `target`
because an object does not encode or the hook cancels. `target` uses symmetry of the two
zippers, which nothing tells apart and no liveness property is checked with.

Bounds in guards: `MaxEntries` and `MaxFilters` (a call that would exceed them is not
made). In MC modules: `MaxSize` and `MaxEdges` of MCResolver, whose `Fresh` lets a store
be filled first and resolved once, and own graphs be made only without a store,
since neither reads more than its own; MCJournal edits the file only between calls,
lets sources vanish only during `scaffold`, which reads them, and ends at the first
save that wrote; `Promising` of MCXPath does not continue an expression whose parse
failed before its last two tokens, and the fifth piece has to complete one.

The runs of `Zstd`, `Extractor`, `Journal`, `Resolver`, the XPath plugin and the
operators may stop (the call has returned, the archive did not open, the journal was
saved, the bound is reached, the input is whole) and do not check for deadlock. The
runs of `Zipper` do.

**Fairness.** `Zipper!FairSpec` is weak fairness of `BuildStep`, the steps of the
running build that are not a callback's choice: a build is a loop of one thread and
its callbacks are assumed to return. Cancelling and failing filters are never
required. `Zstd!FairSpec` is weak fairness of the loop of one call, and `Resolver!Spec`
of `SearchGraph`, the recursion of one call. Nothing requires a caller to start
anything. `Extractor` and `Journal` state no fairness: what they promise is about
what is there whenever they stop.

### Disagreements with comments and manuals

1. `decompress` compares the declared size of a frame with the output of all frames so
   far (`MiniZIP.hpp:692`), so truncated content passes after another frame:
   `zstd_truncated`.
2. `build` "Builds the archive to the configured destination" (`MiniZIP.hpp:1462`), but
   a failed flush at the end is not noticed: `written`. The extractor writes its files
   with the same function; `extract` therefore checks `open` and `write` errors only.
3. "Invalid tokens and grammar failures produce `ParseError`" (the manual's
   `xpath-plugin.rst:77`), but a quote that ends the source is dropped
   (`Tokenizer.cpp:65`): `xpath_unclosed`.

Met while modelling, part of the models as they are, without a run of their own:

* MiniZIP: `with_hook` (`:1296`) does not look at the seal, although the class is
  "mutation-friendly until `seal()` is called" (`:1278`), and a build runs the new hook;
  copies of a sealed zipper share its manifest; an extractor's
  filters arrive after decoding (`:925`); `extract_all` does not poll `should_cancel`
  (`:878`); `verify` compares no sizes (`:1615`); `add_directory(".")` is recorded under
  the empty path (`:1332`), which `verify` rejects; a journal's `exclude` is parsed and
  ignored, and a long `level` overflows.
* Versions: `1.0.0+a-b` is read with a prerelease; `^` and `~` wrap at the largest
  number; `=1.2.3-beta` ignores the prerelease; `resolve` refuses when a release it
  would never select depends on a package without releases.
* XPath: a literal loses its kind (`'1'` is a number, `'true'` a Boolean); `map { k: v }`
  fails, as the name takes the colon; `1+2` is one token; `a//b` is rejected; `count()`
  throws `out_of_range`; a position is cut to an integer, so `[1.5]` is `[1]`; subtrees
  are told apart by an unescaped text, so that in `?a[2] | ?'a[0:2]'` both paths become
  the left one (`CompileKeepsTree` therefore excepts texts with the characters that
  join a signature; without the exception TLC finds this expression's like).
* Formats: control characters are written raw to JSON and then refused; whole doubles
  come back as integers and others with six digits, so that `const`, `enum` and limits
  given as whole doubles change their meaning when stored; `uniqueItems` throws at
  numbers and ignores arrays; a binary that begins with the carriers' marker is read
  as a carrier; S-expressions do not escape, turn objects into lists and null into a
  word; of files that were cut off, `45` to `4` loads in JSON as the other number it is,
  and in S-expressions `nil` to `ni`, `true` to `tru` and `1.5` to `1.` load as words
  and numbers; a carrier's file cut off inside its marker, or of a binary, loads as a
  binary; metadata with a line's end or an equals sign forge lines; a package's schema is
  lost when its identifier and content are empty.

## 4. Proofs

The proofs hold for every value of the constants under the named assumptions of the
modules: names are not `.`, `..` or empty, sets of files are finite, payloads are
bytes and fit the largest size field, the widths are ordered as in the code, inputs
are sequences of well-formed frames and archives of well-formed entries, packages are
labels and labels are numbers, a build goes to memory or to a file, a byte has at
least two values, and the contents of a package have texts as keys and values, of
which there are finitely many.

* **FiniteRecursion**: a set of numbers closed under successor contains them all, and
  the function a loop computes exists and satisfies its equation; the folds of the
  code are such functions. `FlattenSeq` is shown to be a loop too, so that one part
  more is added behind those before it (`FlattenStep`, `FlattenSteps`).
* **EntryPathProofs**: `NormalPathIsNames` and `NormalPathIsStable`, for every raw path.
* **ZipperProofs**: first lemmas on lists of entries: `upsert_entry`, `UpsertAll` and
  `erase_exact` keep their paths distinct, and do to the map read from a list what
  `ArchiveMap` says. Then `Inv` = `TypeOK` /\ `UniqueLogicalPaths` /\ `ArchiveFollowsWork` is
  inductive. `UniqueLogicalPaths` alone is not: an archive under construction has
  distinct paths because it follows, entry by entry, a working list that has them.
  `ArchiveTellsCall` adds that the working list is the entries and the manifest of the
  call; it gives `ArchivesAreSnapshots` and `ManifestsAreFinal`. `FailedBuildsWriteNothing`
  and `SealingFreezes` go action by action; the latter is about all of a zipper but its
  hook. That a success is written is not proved: it is what `written` violates.
  `EntriesImplementMap` is the refinement: `Init` maps to `Init` and each action to a step
  of `ArchiveMap` or a stutter. `BuildsRunOut` and `BuildsGoOn`: what a build has left is
  the entries of its working list after the archive's last, and no call, hook or
  change on disk touches either list.
* **JournalProofs**: lemmas tell what one more command does to the last command of a
  kind, to what the manifest was told and to the entries its sources stand for, so
  that `Means` of a list and `Apply` of a command give `Means` of the longer list.
  `ScaffoldFollowsCommands` is then kept by each step of `scaffold`, but is not
  inductive alone: the zipper has to be one with distinct paths, the commands a list
  whose levels are numbers, and `scaffold` must not run on a text with diagnostics.
  `ChainMeansText` needs besides what each call of the chain leaves to the next
  (`ChainHolds`). `JournalInv` is all of this, kept also by `EditScript` and by calls in
  any other order: `CommandsAreFollowed`, `ChainsMeanTheirText`.
* **ExtractorProofs**: `Inv` says that all that changed lies at or above entries
  written, that every entry come past was written or met something in its place, that
  a write that was allowed at the test still is, and that what was written is still
  there. From it, for any archive, tree and policy: `FilesAreKept`,
  `ExtractionsArePrefixes`, `SuccessesAreComplete`, `VerifiedIsExtracted` (the last
  three assume `ErrorsReported`).
* **ZstdProofs**: `SizesSurvive`, by cases on the width. `Inv` says that the frames before
  `at` are sound and that, in the frame at hand, the header and the blocks before
  `block` were accepted; it gives `TypeCorrectness` and `SuccessIsSound`. `OutputInv`
  adds that the output is the contents of the frames before, then the bytes of the
  blocks before (`Decoded`), and that a failed call has met a reason in its frame
  (`Cause`); one block more appends its bytes.
  `EncodedFacts` sums up the encoder's blocks by induction over where they end. From
  these: `RoundTrip` (every payload, at every block size and width, comes back),
  `FailuresHaveCause` and `InspectionAgrees`. `CallsRunOut` and `CallsGoOn`: each step
  ends the call or goes forward in an input that has an end.
* **ResolverProofs**: of the graph, that the running visits are a path of it, that
  what has returned depends only on what has returned and is on no cycle, and that
  what is left is pending. A cycle reported is then one, and a search that comes to
  its end has seen all labels: `CyclesAreFound`, `OrdersAreTopological`. Of the resolver,
  that the assignments that satisfy the formula are the selections, in both
  directions: `ResolutionsAreSound`, `RefusalsAreJustified`. `CyclesAreReported` rests on
  `ResolveSearches`, that the graph being searched is that of the selection, and on
  the graph's invariant. `SearchesRunOut` and `SearchesGoOn`: `StepsLeft` counts the labels
  the loop has not come to, the visits not begun, the visits not over and the edges
  ahead. A step that goes past a label takes away from the first or the last, a visit
  that begins from the second, one that ends from the third, and no step adds to any:
  the edges of a visit that is over stay behind (`IsBehind`). The count exists because
  store and graph are finite (`StateIsFinite`, an invariant of its own).
* **OperatorProofs**: over `InputsAreWellFormed`, the invariant of `Operators!Spec`:
  - `VersionsAreOrdered`, from `CompareIsAntisymmetric` and `CompareIsTransitive`: two
    prereleases differ first at one place (`EveryPairSplits`), and of two pairs with a
    prerelease in common the earlier place decides.
  - `RangesKeepTheirPrefix`: the two bounds of a range, compared component by
    component, leave the releases that keep the prefix, unless counting up wraps.
  - `NormalPathIsSurvivors`: after each component the kept ones are those at an
    increasing list of places (`Places`), which are the names that survive so far. That
    is inductive only with the counts: the last of them has one name more than `..`
    after it, the one before it two more, and so on, which is why the next `..` takes
    back the last and no other.
  - `ConstraintsMeanTheirWords`: after each word the clause is what the words so far
    say (`ClauseSays`), after each alternative the constraint is what the alternatives
    so far say (`ConstraintSays`); in both, that it has failed, that it is empty, and
    what it allows.
  - `PackagesKeepTheirContents`: the text of metadata grows by a line at a time, and a
    line more tells one key more (`OneMoreLine`) while no later line changes what an
    earlier one told (`LaterLinesAdd`). So keys that are told apart come back with their
    texts; the format and the document come back whatever the metadata forge, since
    their lines are the first. This holds for every `Serialize` and `Deserialize`: a
    package keeps what its format keeps.
  - `HeadsComeBack`, `CutHeadsAreRefused`: in any file, at any place, a head of CBOR is
    read as the number it was written for, whichever width it took, and a file that
    ends within it is refused. The bytes are digits to the base `Base`, and reading
    them from the left restores the quotients (`BytesComeBack`). Both ask that the
    number has at most eight bytes, as every `uint64_t` has.
  - `JsonStringsComeBack`, `ControlsAreRefused`: in any file, at any place, `parse_string`
    reads what `emit_json_string` wrote and stops behind its quote; it refuses it when a
    control character without an escape is in it, which is a document that can be
    dumped and not read. By induction from the end of the text: what is read from a
    symbol on is that symbol and what is read behind its escape (`EscapeIsRead`,
    `PlacesOfParts`).

Only model-checked: `FormatsKeepDocuments` and `StorageKeepsVerdict` (whole documents and
schemas; the strings and heads they are made of are proved) and the five properties of
the XPath plugin, whose operators are recursive over data and so beyond an induction
the provers can instantiate; and all liveness (`BuildReturns`, `DecodeReturns`,
`WalkReturns`), which is beyond the prover, as is `ENABLED`. What liveness rests on is
proved, though, for every size of the input: each of the three loops has a step to take
as long as it runs (`...GoOn`, in terms of the guards), and its steps run out
(`...RunOut`). That fairness turns the two into the liveness property is what the runs
check. The theorems of OperatorProofs are about `Operators!Spec`; the run `operators`
adds documents and schemas to its inputs, on which these properties say nothing.

## 5. Not modelled, and what could follow

* **YAML, XML and SKTL**: line and character handling is all there is to them; a
  model would be the program again.
* **Queries, builders, printers, editor** and the aliasing of documents: what could go
  wrong is which nodes are shared and which pointers outlive them. A model with a
  heap of nodes would show it; documents here are values.
* **Schema, format and plugin registries**: maps with a lookup before an insertion.
  The schema cache never notices that a file changed, and nothing says it should.
* **Front end, command line and REPL**: input and output around the operations above.
* **Custom transports, `extract_bytes`, `extract<T>`, `list_entries`**: the caller's code,
  and look-ups that change nothing.
* **A hook that sets another destination while `extract_all` runs**: the rest of the
  archive then goes there; the tree in the model is that of one destination.
* **Settings no build reads** (compression level, overwrite policy, the deterministic
  flag, the default serializer).

Worth adding: a composition of `Zipper` and `Extractor` through one archive, as
packages use them; a heap for documents.
