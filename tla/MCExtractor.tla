---------------------------- MODULE MCExtractor ----------------------------
(* Small instances of Extractor for TLC. *)
EXTENDS Extractor

CONSTANTS c1, c2, c3, f1

\* A directory, a file in it, one beside it, and a file where the directory
\* is: archives list them in any order, each path once.
Path(parts, slash) == [parts |-> parts, slash |-> slash]

DirEntry  == Stored(Path(<<"d">>, TRUE), "directory", Payload("", <<>>), TRUE)
InnerFile == Stored(Path(<<"d", "f">>, FALSE), "file", Payload(c1, <<>>), TRUE)
OuterFile == Stored(Path(<<"e">>, FALSE), "generated", Payload(c2, <<>>), TRUE)
FileAtDir == Stored(Path(<<"d">>, FALSE), "file", Payload(c2, <<>>), TRUE)
RootEntry == Stored(Path(<<>>, FALSE), "directory", Payload("", <<>>), TRUE)

EPlace == {<<"e">>}

MCPlaces == {<<>>, <<"d">>, <<"d", "f">>, <<"e">>}

Orders(entries) ==
  {s \in UNION {[1..n -> entries] : n \in 0..3} :
     \A i, j \in DOMAIN s : s[i] = s[j] => i = j}

PlainArchives ==
  Orders({DirEntry, InnerFile, OuterFile, FileAtDir})
    \cup {<<RootEntry>>, <<OuterFile, RootEntry>>, <<InnerFile, RootEntry>>}

\* Archives with a filtered payload, another payload, or one that does not
\* decode.
OddArchives ==
  {<<[InnerFile EXCEPT !.payload.filters = <<f1>>]>>,
   <<[InnerFile EXCEPT !.payload.content = c2]>>,
   <<OuterFile, [InnerFile EXCEPT !.decodes = FALSE]>>}

AllArchives == PlainArchives \cup OddArchives

=============================================================================
