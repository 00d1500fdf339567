----------------------------- MODULE MCJournal -----------------------------
(***************************************************************************)
(* A journal file that is edited between the calls: texts that are right,  *)
(* that are malformed in the middle, that lack the archive line, that hold *)
(* a command scaffold throws at, and ones whose sources collide.           *)
(***************************************************************************)
EXTENDS Journal

CONSTANTS h1, m1, m2, c1

JournalNames == {"d", "f"}
JournalFiles == {<<"f">>, <<"d", "f">>}
JournalDirs  == {<<"d">>}

Archive(name) == <<Word("archive"), Quoted(name)>>
SourceLine(path) == <<Word("source"), Quoted(path)>>
Tree(path) == Append(SourceLine(path), Word("recursive"))
ManifestLine == <<Word("manifest"), Word("INIManifest")>>
Tell(cmd) == <<Word("manifest_cmd"), Quoted(cmd)>>
Level(n) == <<Word("level"), Integer(n)>>
SaveTo(dir) == <<Word("save_to"), Quoted(dir)>>

JournalCommands == {SectionCmd("package"), KvCmd("name", "MiniZIP")}

JournalScripts ==
  { <<<<Word("%MZJL-v1.0.0")>>, Archive("a"), SourceLine(<<"f">>), SaveTo("dist")>>,
    <<Archive("b"), ManifestLine, Tell(KvCmd("name", "MiniZIP")), Level(9), Tree(<<"d">>)>>,
    <<Archive("a"), <<Word("source"), Unclosed>>, SourceLine(<<"d">>)>>,
    <<Tree(<<"f">>), Level(Huge)>>,
    <<Archive("a"), Tell(SectionCmd("package")), SourceLine(<<"f">>)>>,
    <<Archive("b"), SourceLine(<<"f">>), SourceLine(<<"d">>), Archive("a"),
      ManifestLine, Tell(SectionCmd("package")), ManifestLine, Level(1)>>,
    <<Archive("a"), <<Word("filter"), Word("aes")>>, <<Word("manifest"), Word("Other")>>>> }

\* The run ends with the first save that wrote: saving changes no more of the
\* journal, and the next scaffold starts afresh.  The journal's file is edited
\* while no call runs; sources may vanish during scaffold, which reads them.
MCNext ==
  /\ JournalNext
  /\ job = Nothing => \A t \in Targets : store[t] = "absent"
  /\ script' # script => job = Nothing /\ at = 0
  /\ disk' # disk => at # 0 /\ \E f \in Files : RemoveFile(f)

MCInit == JournalInit /\ \A f \in Files : disk[f] # Nothing

MCSpec == MCInit /\ [][MCNext]_allVars
=============================================================================
