------------------------------ MODULE Journal ------------------------------
(***************************************************************************)
(* The journal archiver of MiniZIP (minizip::api::journal_archiver): a     *)
(* text of commands, read from a string or from a file that others edit,   *)
(* turned into the operations of one zipper of its own.                    *)
(*                                                                         *)
(* lint, parse, validate, scaffold and save may be called in any order and *)
(* again.  scaffold is a loop over the commands, a step each, and ends     *)
(* where an operation of the zipper throws; what was done is kept.         *)
(***************************************************************************)
EXTENDS Zipper, SequencesExt

CONSTANTS
  Own,        \* the handle of the journal's zipper
  FromFile,   \* whether the source is a file's name or the text itself
  Scripts,    \* the texts the source may hold
  Missing     \* no file

ASSUME OwnAssumption == Own \in Handles

\* The lexer reads a text line by line and lexeme by lexeme; what it takes for
\* an integer is one (Huge when it does not fit).
ASSUME ScriptsAssumption ==
  \A s \in Scripts :
    /\ IsSequence(s)
    /\ \A i \in DOMAIN s :
         /\ IsSequence(s[i])
         /\ \A k \in DOMAIN s[i] : s[i][k][1] = "integer" => s[i][k][2] \in Int

VARIABLES
  script,       \* the text the source holds
  commands,     \* what parse kept
  diagnostics,  \* the kinds of the messages collected
  scaffolded,   \* whether there is a zipper
  at,           \* the command scaffold is at, 0 outside of scaffold
  stage,        \* history: how far the calls since lint followed the chain
  read          \* history: the text parse read last

journalVars == <<script, commands, diagnostics, scaffolded, at, stage, read>>

allVars == <<vars, journalVars>>

-----------------------------------------------------------------------------
(* The language.  A line is the sequence of its lexemes; the text of a      *)
(* quoted string is what its command makes of it: a path, a name or a       *)
(* manifest command.                                                        *)

Word(text)    == <<"word", text>>
Quoted(text)  == <<"quoted", text>>
Integer(n)    == <<"integer", n>>
Unclosed      == <<"unclosed">>       \* a string without its closing quote

\* Digits that do not fit an int: what they amount to is undefined.
Huge == -1

\* Blank lines, comments and the version line.
Ignored == {<<>>, <<<<"comment">>>>, <<Word("%MZJL-v1.0.0")>>}

Command(kind, text, recursive) == [kind |-> kind, text |-> text, recursive |-> recursive]

LineIs(line, keywords, kinds) ==
  /\ Len(line) = 1 + Len(kinds)
  /\ line[1] \in {Word(k) : k \in keywords}
  /\ \A i \in DOMAIN kinds : line[i + 1][1] = kinds[i]

SimpleLine(line) ==
  \/ LineIs(line, {"archive", "save_to", "manifest_cmd", "exclude", "source"}, <<"quoted">>)
  \/ LineIs(line, {"manifest", "filter"}, <<"word">>)
  \/ LineIs(line, {"level"}, <<"integer">>)

SourceWithMode(line) == LineIs(line, {"source"}, <<"quoted", "word">>)

Legal(line) == line \in Ignored \/ SimpleLine(line) \/ SourceWithMode(line)

\* Of a line that is a command.  A mode other than recursive is no mode.
parse_line(line) ==
  Command(line[1][2], line[2][2], SourceWithMode(line) /\ line[3] = Word("recursive"))

\* What the loop over the lines has kept after each of them.
CommandsOf(text) ==
  LET Kept[i \in 0..Len(text)] ==
        IF i = 0 THEN <<>>
        ELSE IF Legal(text[i]) /\ text[i] \notin Ignored
        THEN Append(Kept[i - 1], parse_line(text[i]))
        ELSE Kept[i - 1]
  IN  Kept[Len(text)]

\* The commands of one kind.
Of(list, kind) == {list[i] : i \in {i \in DOMAIN list : list[i].kind = kind}}

Malformed(text) == \E line \in ToSet(text) : ~Legal(line)

-----------------------------------------------------------------------------
JournalInit ==
  /\ Init
  /\ script \in Scripts
  /\ commands = <<>>
  /\ diagnostics = {}
  /\ scaffolded = FALSE
  /\ at = 0
  /\ stage = "none"
  /\ read = <<>>

\* Between the journal's own calls.
Idle == at = 0 /\ job = Nothing

\* A call that does not keep to the chain lint, parse, validate, scaffold
\* takes the chain back to none.
Follow(from, to) == stage' = IF stage = from THEN to ELSE "none"

lint ==
  /\ Idle
  /\ diagnostics' = IF FromFile /\ script = Missing THEN {"unreadable"} ELSE {}
  /\ stage' = "linted"
  /\ UNCHANGED <<vars, script, commands, scaffolded, at, read>>

\* Wrong variant: the commands of an earlier parse are kept.
parseAgain ==
  /\ Idle
  /\ IF diagnostics # {} \/ script = Missing
     THEN UNCHANGED <<commands, diagnostics, read>>
     ELSE /\ commands' = commands \o CommandsOf(script)
          /\ diagnostics' = IF Malformed(script) THEN {"malformed"} ELSE {}
          /\ read' = script
  /\ Follow("linted", "parsed")
  /\ UNCHANGED <<vars, script, scaffolded, at>>

\* A malformed line is reported and the lines after it are still read.  The
\* file is opened again, and a text that is gone by now is read all the same:
\* the string that is not there is taken for an empty one when the program
\* survives that.
parse ==
  /\ Idle
  /\ IF diagnostics # {}
     THEN commands' = <<>> /\ UNCHANGED <<diagnostics, read>>
     ELSE LET text == IF script = Missing THEN <<>> ELSE script
          IN  /\ commands' = CommandsOf(text)
              /\ diagnostics' = IF Malformed(text) THEN {"malformed"} ELSE {}
              /\ read' = script
  /\ Follow("linted", "parsed")
  /\ UNCHANGED <<vars, script, scaffolded, at>>

Has(kind) == Of(commands, kind) # {}

\* Wrong variant: a text without an archive line passes.
validateLoosely ==
  /\ Idle
  /\ diagnostics' = diagnostics \cup (IF Has("filter") THEN {"filter"} ELSE {})
  /\ Follow("parsed", "validated")
  /\ UNCHANGED <<vars, script, commands, scaffolded, at, read>>

validate ==
  /\ Idle
  /\ diagnostics' = diagnostics
       \cup (IF Has("archive") THEN {} ELSE {"no archive"})
       \cup (IF Has("filter") THEN {"filter"} ELSE {})
       \cup (IF \E c \in Of(commands, "manifest") : c.text # "INIManifest"
             THEN {"manifest"} ELSE {})
  /\ Follow("parsed", "validated")
  /\ UNCHANGED <<vars, script, commands, scaffolded, at, read>>

-----------------------------------------------------------------------------
(* scaffold *)

\* Wrong variant: the zipper of an earlier scaffold is used again.
scaffoldOver ==
  /\ Idle /\ diagnostics = {}
  /\ scaffolded' = TRUE
  /\ at' = 1
  /\ UNCHANGED <<vars, script, commands, diagnostics, stage, read>>

scaffold ==
  /\ Idle /\ diagnostics = {}
  /\ zip' = [zip EXCEPT ![Own] = make_zipper]
  /\ scaffolded' = TRUE
  /\ at' = 1
  /\ UNCHANGED <<manifests, disk, stream, store, job>>
  /\ UNCHANGED <<script, commands, diagnostics, stage, read>>

\* With diagnostics it does nothing, but the chain has been left.
ScaffoldRefuses ==
  /\ Idle /\ diagnostics # {}
  /\ stage' = "none"
  /\ UNCHANGED <<vars, script, commands, diagnostics, scaffolded, at, read>>

\* Everything the directory holds is in the zipper.
Expanded(raw, recursive) ==
  LET dir == normalize_relative_path(raw)
  IN  /\ dir \in Dirs
      /\ \A node \in Listing(dir, recursive) :
           HasPath(zip'[Own].entries, Child(dir, node).path)

\* The operation of a source: a directory named without a mode is added with
\* the files it holds, not its directories' own.
AddSource(c) ==
  IF c.recursive \/ normalize_relative_path(c.text) \in Dirs
  THEN AddDirectory(Own, c.text, c.recursive)
  ELSE AddFileAs(Own, c.text, c.text)

\* The operation of a command, when it returns.
Apply(c) ==
  CASE c.kind = "archive"  -> SetArchiveName(Own, c.text)
    [] c.kind = "save_to"  -> SetDestination(Own, c.text)
    [] c.kind = "level"    -> \E codec \in {"stored", "zstd"} :
                                /\ c.text # Huge => codec = IF c.text <= 3 THEN "stored" ELSE "zstd"
                                /\ SetCodec(Own, codec)
    [] c.kind = "source"   -> /\ AddSource(c)
                              /\ c.recursive \/ normalize_relative_path(c.text) \in Dirs
                                   => Expanded(c.text, c.recursive)
    [] c.kind = "manifest" -> IF c.text = "INIManifest"
                              THEN \E m \in Manifests : CreateManifest(Own, m)
                              ELSE UNCHANGED vars
    [] c.kind = "manifest_cmd" -> AddToManifest(Own, c.text)
    [] OTHER               -> UNCHANGED vars

\* A source that is not there or cannot be read to its end, and a command the
\* manifest is not there for or does not know.
Throw(c) ==
  \/ /\ c.kind = "source"
     /\ c.recursive \/ normalize_relative_path(c.text) \in Dirs
     /\ AddSource(c)
  \/ /\ c.kind = "manifest_cmd"
     /\ zip[Own].manifest = Nothing \/ ~Accepts(c.text)
     /\ UNCHANGED vars

ScaffoldStep ==
  /\ at \in DOMAIN commands
  /\ Apply(commands[at])
  /\ at' = at + 1
  /\ UNCHANGED <<script, commands, diagnostics, scaffolded, stage, read>>

\* The exception leaves scaffold; the zipper stays as far as it got.
ScaffoldThrows ==
  /\ at \in DOMAIN commands
  /\ Throw(commands[at])
  /\ at' = 0
  /\ stage' = "none"
  /\ UNCHANGED <<script, commands, diagnostics, scaffolded, read>>

ScaffoldReturns ==
  /\ at = Len(commands) + 1
  /\ at' = 0
  /\ Follow("validated", "scaffolded")
  /\ UNCHANGED <<vars, script, commands, diagnostics, scaffolded, read>>

-----------------------------------------------------------------------------
\* save is a build of the zipper, to the path given or to its own settings;
\* it refuses with diagnostics or without a zipper.
save ==
  /\ at = 0
  /\ diagnostics = {} /\ scaffolded
  /\ Build(Own, "file") \/ \E d \in Destinations, n \in ArchiveNames : BuildFile(Own, d, n)
  /\ stage' = "none"
  /\ UNCHANGED <<script, commands, diagnostics, scaffolded, at, read>>

\* The journal's file is edited or removed by others, at any time.
EditScript ==
  /\ FromFile
  /\ script' \in (Scripts \cup {Missing}) \ {script}
  /\ UNCHANGED <<vars, commands, diagnostics, scaffolded, at, stage, read>>

Surroundings == (BuildStep \/ Environment) /\ UNCHANGED journalVars

JournalNext ==
  \/ lint \/ parse \/ validate
  \/ scaffold \/ ScaffoldRefuses \/ ScaffoldStep \/ ScaffoldThrows \/ ScaffoldReturns
  \/ save
  \/ EditScript
  \/ Surroundings

JournalSpec == JournalInit /\ [][JournalNext]_allVars

-----------------------------------------------------------------------------
(* What a list of commands means, whatever the order they were applied in. *)

LastOf(list, kind, default) ==
  LET i == SelectLastInSeq(list, LAMBDA c : c.kind = kind)
  IN  IF i = 0 THEN default ELSE list[i].text

SourceEntries(c) ==
  LET dir == normalize_relative_path(c.text)
  IN  IF c.recursive \/ dir \in Dirs
      THEN {DirectoryEntry(c.text)}
             \cup {Child(dir, n) : n \in {n \in Files \cup Dirs : Inside(dir, n)}}
      ELSE {FileEntry(c.text, c.text)}

\* What the manifest the last manifest line made has been told.
Told(list) ==
  LET made == SelectLastInSeq(list, LAMBDA c : c.kind = "manifest")
      After[i \in 0..Len(list)] ==
        IF i <= made THEN EmptyManifest
        ELSE IF list[i].kind = "manifest_cmd"
        THEN consume_command(After[i - 1], list[i].text)
        ELSE After[i - 1]
  IN  After[Len(list)]

\* The last archive, save_to and level lines count.
SettingsMean(z, list) ==
  /\ z.archive_name = LastOf(list, "archive", "archive.mz")
  /\ z.destination = LastOf(list, "save_to", "")
  /\ LastOf(list, "level", 0) # Huge =>
       (z.codec = "zstd" <=> LastOf(list, "level", 0) > 3)

\* The manifest object is what the commands after its line make of it.
ManifestMeans(z, objects, list) ==
  /\ (z.manifest # Nothing) <=> Of(list, "manifest") # {}
  /\ z.manifest # Nothing => objects[z.manifest] = Told(list)

\* Every source is there and nothing else.
EntriesMean(z, list) ==
  /\ \A c \in Of(list, "source") :
       HasPath(z.entries, normalize_entry_path(c.text, DirectoryEntry(c.text) \in SourceEntries(c)))
  /\ ToSet(z.entries) \subseteq UNION {SourceEntries(c) : c \in Of(list, "source")}

Means(z, objects, list) ==
  SettingsMean(z, list) /\ ManifestMeans(z, objects, list) /\ EntriesMean(z, list)

\* After the chain of calls that the manual shows, the zipper is what one
\* version of the text says, and that text is one without a malformed line,
\* with an archive line and without the commands that are not carried out:
\* edits of the file between the calls, other calls before, and earlier texts
\* make no difference.
ChainMeansText ==
  stage = "scaffolded" /\ Idle =>
    LET text == IF read = Missing THEN <<>> ELSE read
        list == CommandsOf(text)
    IN  /\ ~Malformed(text)
        /\ Of(list, "archive") # {}
        /\ Of(list, "filter") = {}
        /\ Means(zip[Own], manifests, list)

\* scaffold starts from an empty zipper each time and, whatever was called
\* before, has carried out the commands it has come past, each in full.
ScaffoldFollowsCommands ==
  at # 0 /\ (\A c \in Of(commands, "manifest") : c.text = "INIManifest")
    => Means(zip[Own], manifests, SubSeq(commands, 1, at - 1))
=============================================================================
