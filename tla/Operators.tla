----------------------------- MODULE Operators -----------------------------
(***************************************************************************)
(* The normalization of paths, the order of versions, the reading of       *)
(* constraints and the packages, against what they are for.  A state is    *)
(* one input; paths and constraints grow one element at a time.            *)
(***************************************************************************)
EXTENDS EntryPath, Versions, Packages

CONSTANTS
  PathComponents, MaxLen,  \* the components of raw paths, and how many
  VersionsToOrder,         \* versions
  RangeTexts,              \* texts of versions, for ranges
  Words, MaxWords,         \* words of constraints, and how many
  PackageContents          \* contents of packages

Operator == {"^", "~", "", "=", "<", "<=", ">", ">="}

\* The number of components is the reader's to check.
VersionText ==
  [components : Seq(Nat \cup {Wildcard, Malformed}), prerelease : Seq(Identifier),
   plus : BOOLEAN, build : STRING, buildDash : Seq(Identifier)]

ASSUME InputsAssumption ==
  /\ VersionsToOrder \subseteq Version
  /\ RangeTexts \subseteq VersionText
  /\ Words \subseteq SkippedWords \cup [op : Operator, text : VersionText]
  /\ \A contents \in PackageContents : IsContents(contents)

VARIABLE input

-----------------------------------------------------------------------------
Init == input = [about |-> "nothing"]

GrowPath ==
  /\ input.about \in {"nothing", "path"}
  /\ LET raw == IF input.about = "path" THEN input.raw ELSE <<>>
     IN  /\ Len(raw) < MaxLen
         /\ \E c \in PathComponents : input' = [about |-> "path", raw |-> Append(raw, c)]

PickVersions ==
  /\ input.about = "nothing"
  /\ \E left, right \in VersionsToOrder :
       input' = [about |-> "versions", left |-> left, right |-> right]

PickRange ==
  /\ input.about = "nothing"
  /\ \E op \in {"^", "~", ""}, text \in RangeTexts :
       input' = [about |-> "range", word |-> [op |-> op, text |-> text]]

\* A constraint grows by a bar or by a word of its last alternative.
GrowConstraint ==
  /\ input.about \in {"nothing", "constraint"}
  /\ LET text == IF input.about = "constraint" THEN input.text ELSE <<<<>>>>
         size == FoldSeq(LAMBDA words, n : n + 1 + Len(words), 0, text)
     IN  /\ size < MaxWords
         /\ \E grown \in {Append(text, <<>>)} \cup
                         {[text EXCEPT ![Len(text)] = Append(@, w)] : w \in Words} :
              input' = [about |-> "constraint", text |-> grown]

PickContents ==
  /\ input.about = "nothing"
  /\ \E contents \in PackageContents :
       input' = [about |-> "package", contents |-> contents]

Next == GrowPath \/ PickVersions \/ PickRange \/ GrowConstraint \/ PickContents

Spec == Init /\ [][Next]_input

-----------------------------------------------------------------------------
(* Paths *)

IsName(c) == c \notin Skipped \cup {Up}

NamesIn(raw, i, j) == Cardinality({k \in i..j : IsName(raw[k])})
UpsIn(raw, i, j)   == Cardinality({k \in i..j : raw[k] = Up})

\* A name survives when no later point has seen as many ".." as names since.
Survives(raw, i) ==
  /\ IsName(raw[i])
  /\ \A j \in i..Len(raw) : NamesIn(raw, i, j) > UpsIn(raw, i, j)

\* The normalized path is the names that no ".." takes back, in order.
NormalIsSurvivors ==
  input.about = "path" =>
    LET raw    == input.raw
        normal == normalize_relative_path(raw)
        kept   == {i \in 1..Len(raw) : Survives(raw, i)}
    IN  /\ Len(normal) = Cardinality(kept)
        /\ \A i \in kept :
             normal[Cardinality({j \in kept : j <= i})] = raw[i]

-----------------------------------------------------------------------------
(* Versions *)

\* The order is one std::sort can use: antisymmetric, transitive, and the
\* versions it cannot tell apart (their builds, leading zeros or numbers that
\* do not fit differ) are interchangeable.  Storage::add sorts by it.
VersionOrderIsWeak ==
  input.about = "versions" =>
    LET left == input.left
        right == input.right
    IN  /\ Compare(right, left) = -Compare(left, right)
        /\ left = right => Compare(left, right) = 0
        /\ \A middle \in VersionsToOrder :
             Compare(left, middle) <= 0 /\ Compare(middle, right) <= 0
               => /\ Compare(left, right) <= 0
                  /\ Compare(left, right) = 0 => Compare(left, middle) = 0

\* The releases a range or a constraint is asked about: no prerelease.
Candidates == [major : Number, minor : Number, patch : Number,
               prerelease : {<<>>}, build : {""}]

\* ^base allows exactly the releases from base on that keep its components up
\* to the first that is not zero, and ~base those that keep major and minor,
\* unless the component counted up wraps.  A text without an operator allows
\* the releases with the components it gives.
RangesMeanTheirPrefix ==
  input.about = "range" /\ ReadWord(input.word).ok =>
    LET op     == input.word.op
        clause == ReadWord(input.word).value
        base   == parse_core(input.word.text, TRUE).value
        kept   == IF op = "" THEN Len(Given(input.word.text, TRUE))
                  ELSE IF op = "~" THEN 2
                  ELSE IF base.major > 0 THEN 1
                  ELSE IF base.minor > 0 THEN 2 ELSE 3
        Core(v) == SubSeq(<<v.major, v.minor, v.patch>>, 1, kept)
    IN  (op = "" \/ Core(base)[kept] < NumberLimit - 1) =>
          \A v \in Candidates :
            constraint_matches(<<clause>>, v)
              <=> (op = "" \/ Compare(v, base) >= 0) /\ Core(v) = Core(base)

\* A constraint's text allows what all the words of one of its alternatives
\* allow.  A text whose words were all skipped never becomes the constraint
\* that matches everything, save the star alone.
ConstraintMeansItsWords ==
  input.about = "constraint" =>
    LET text    == input.text
        Allows(word, v) == constraint_matches(<<ReadWord(word).value>>, v)
        Real(words) == {i \in DOMAIN words : words[i] \notin SkippedWords}
        written == {a \in DOMAIN text : text[a] # <<>>}
        result  == parse_constraint(text)
    IN  text \notin {<<<<Star>>>>, <<<<>>>>} =>
          /\ result.ok <=>
               /\ written # {}
               /\ \A a \in written :
                    /\ Real(text[a]) # {}
                    /\ \A i \in Real(text[a]) : ReadWord(text[a][i]).ok
          /\ result.ok => \A v \in Candidates :
               constraint_matches(result.value, v) <=>
                 \E a \in written : \A i \in Real(text[a]) : Allows(text[a][i], v)

-----------------------------------------------------------------------------
(* Packages *)

\* What is read back of a document that was written.
ReadBackRoot(format, root) ==
  LET written == Serialize(format, root)
  IN  IF written.ok THEN Deserialize(format, written.text) ELSE Refused

IsOneLine(text) == Newline \notin Range(text)

\* What is packed is unpacked.  A text with several lines can add to the
\* metadata, but never changes the format, the document, or a schema whose
\* own texts are of one line.  Metadata come back when no key can end early
\* and no text makes another line; of a schema, only one with neither an
\* identifier nor a source is lost.
PackageKeepsContents ==
  input.about = "package" =>
    LET contents == input.contents
        archive  == create(contents.format, contents)
        out      == extract(archive)
        root     == ReadBackRoot(contents.format, contents.root)
        given    == contents.schema # <<>>
        schema   == contents.schema[1]
        plain    == given => IsOneLine(schema.identifier) /\ IsOneLine(schema.language)
        clean    == \A key \in DOMAIN contents.metadata :
                      /\ IsOneLine(key) /\ Equal \notin Range(key)
                      /\ IsOneLine(contents.metadata[key])
    IN  archive.ok /\ root.ok =>
          /\ out.ok /\ out.format = contents.format /\ out.root = root.value
          /\ given /\ plain /\ (schema.identifier # <<>> \/ schema.content # <<>>)
               => out.schema = contents.schema
          /\ plain /\ clean => /\ out.metadata = contents.metadata
                               /\ ~given => out.schema = <<>>
=============================================================================
