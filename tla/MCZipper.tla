------------------------------ MODULE MCZipper ------------------------------
(* Small instances of Zipper for TLC. *)
EXTENDS Zipper, TLC

CONSTANTS c1, c2, s1, f1, k1, h1, h2, m1, m2

\* Entries: a file, a directory with a file in it, spelled in several ways.
EntryNames == {"d", "f"}
EntryPaths == {<<"f">>, <<"f", "..", "d", "">>, <<".">>}
EntryHosts == {<<"d", "f">>}
EntryFiles == {<<"d", "f">>}
EntryDirs  == {<<"d">>}

\* The manifest: a caller's entry may sit at the manifest's own path, and a
\* directory beside it.
ManifestNames == {"meta", "package.ini", "f"}
ManifestPaths == {<<"meta", "package.ini">>}
BuildFiles == {<<"f">>}
OnePath == {<<"f">>}
NoPaths == {}

ManifestCommands ==
  {SectionCmd("package"), KvCmd("name", "MiniZIP"), [op |-> "other"]}

\* Zippers differ by name only.
HandleSymmetry == Permutations(Handles)

=============================================================================
