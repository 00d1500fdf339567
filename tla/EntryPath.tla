----------------------------- MODULE EntryPath -----------------------------
(***************************************************************************)
(* Logical entry paths of a MiniZIP archive.                               *)
(*                                                                         *)
(* A path given to the library is a raw path: the sequence of components   *)
(* between its slashes.  A component is "" (a doubled, leading or trailing *)
(* slash), ".", ".." or a name.  A logical path is what the archive        *)
(* records: the normalized components and whether the text ends in "/",    *)
(* which is how an archive tells a directory entry from a file entry.      *)
(***************************************************************************)
EXTENDS Naturals, Sequences

Skipped == {"", ".", "/"}

Up == ".."

\* Wrong variants (used by no definition; they show what the properties catch):
\* ".." at the top is kept; an empty component is kept.
KeepPartWithUp(parts, c) ==
  IF c \in Skipped THEN parts
  ELSE IF c # Up \/ parts = <<>> THEN Append(parts, c)
  ELSE SubSeq(parts, 1, Len(parts) - 1)

KeepPartWithEmpty(parts, c) ==
  IF c = "." THEN parts
  ELSE IF c # Up THEN Append(parts, c)
  ELSE IF parts = <<>> THEN parts
  ELSE SubSeq(parts, 1, Len(parts) - 1)

\* One iteration of the loop over the components of the input: skip, drop the
\* last kept component (if any), or keep the component.
KeepPart(parts, c) ==
  IF c \in Skipped THEN parts
  ELSE IF c # Up THEN Append(parts, c)
  ELSE IF parts = <<>> THEN parts
  ELSE SubSeq(parts, 1, Len(parts) - 1)

normalize_relative_path(raw) ==
  LET Parts[i \in 0..Len(raw)] ==
        IF i = 0 THEN <<>> ELSE KeepPart(Parts[i - 1], raw[i])
  IN  Parts[Len(raw)]

\* The empty path never gets a trailing slash: "." and "d/.." as directories
\* normalize to the empty logical path.
normalize_entry_path(raw, directory_hint) ==
  LET parts == normalize_relative_path(raw)
  IN  [parts |-> parts, slash |-> directory_hint /\ parts # <<>>]

LogicalPath(Names) == [parts : Seq(Names), slash : BOOLEAN]

=============================================================================
