------------------------------ MODULE Versions ------------------------------
(***************************************************************************)
(* Semantic versions and the constraints on them: how they are ordered,    *)
(* what a constraint matches, and how both are read from text.             *)
(*                                                                         *)
(* A component is an unsigned number below NumberLimit and arithmetic on   *)
(* it wraps.  An identifier of a prerelease is the record                  *)
(* [numeric, value]: a number (one of IdentifierLimit or more does not fit *)
(* the 64 bits it is read into) or a word, whose value is its place in the *)
(* order of words.  `zeros' tells apart texts of the same number.          *)
(***************************************************************************)
EXTENDS Integers, Sequences, FiniteSets, SequencesExt

CONSTANTS NumberLimit, IdentifierLimit

ASSUME LimitsArePositive ==
  /\ NumberLimit \in Nat \ {0}
  /\ IdentifierLimit \in Nat \ {0}

Number == 0 .. NumberLimit - 1

Identifier == [numeric : BOOLEAN, value : Nat, zeros : BOOLEAN]

Version == [major : Number, minor : Number, patch : Number,
            prerelease : Seq(Identifier), build : STRING]

-----------------------------------------------------------------------------
(***************************************************************************)
(* The order.  The results of <=> are -1, 0 and 1.                         *)
(***************************************************************************)
Sign(left, right) == IF left < right THEN -1 ELSE IF left > right THEN 1 ELSE 0

\* std::from_chars leaves the 0 it was given when the digits do not fit.
IdentifierNumber(id) == IF id.value < IdentifierLimit THEN id.value ELSE 0

compare_identifier(left, right) ==
  IF left.numeric /\ right.numeric
  THEN Sign(IdentifierNumber(left), IdentifierNumber(right))
  ELSE IF left.numeric # right.numeric THEN (IF left.numeric THEN -1 ELSE 1)
  ELSE Sign(left.value, right.value)

\* The first difference of two prereleases is at i.
DifferFirstAt(left, right, i) ==
  /\ i \in DOMAIN left \cap DOMAIN right
  /\ compare_identifier(left[i], right[i]) # 0
  /\ \A j \in 1 .. i - 1 : compare_identifier(left[j], right[j]) = 0

\* Wrong variant: the length of the prereleases is left out.
comparePrefixOnly(left, right) ==
  IF left = <<>> \/ right = <<>>
  THEN Sign(IF left = <<>> THEN 1 ELSE 0, IF right = <<>> THEN 1 ELSE 0)
  ELSE IF \E i \in DOMAIN left : DifferFirstAt(left, right, i)
  THEN LET i == CHOOSE i \in DOMAIN left : DifferFirstAt(left, right, i)
       IN  compare_identifier(left[i], right[i])
  ELSE 0

\* No prerelease comes after any; otherwise the first difference decides,
\* then the length.
compare_prerelease(left, right) ==
  IF left = <<>> \/ right = <<>>
  THEN Sign(IF left = <<>> THEN 1 ELSE 0, IF right = <<>> THEN 1 ELSE 0)
  ELSE IF \E i \in DOMAIN left : DifferFirstAt(left, right, i)
  THEN LET i == CHOOSE i \in DOMAIN left : DifferFirstAt(left, right, i)
       IN  compare_identifier(left[i], right[i])
  ELSE Sign(Len(left), Len(right))

\* operator<=>; the build plays no part in it.
Compare(left, right) ==
  IF left.major # right.major THEN Sign(left.major, right.major)
  ELSE IF left.minor # right.minor THEN Sign(left.minor, right.minor)
  ELSE IF left.patch # right.patch THEN Sign(left.patch, right.patch)
  ELSE compare_prerelease(left.prerelease, right.prerelease)

-----------------------------------------------------------------------------
(***************************************************************************)
(* Matching.  A predicate's precision is the number of components its text *)
(* gave, NoPrecision for the two predicates of a range.                    *)
(***************************************************************************)
NoPrecision == -1

predicate_matches(predicate, candidate) ==
  LET version == predicate.version
      order   == Compare(candidate, version)
  IN  IF predicate.precision # NoPrecision /\ predicate.comparator = "="
      THEN /\ predicate.precision >= 1 => candidate.major = version.major
           /\ predicate.precision >= 2 => candidate.minor = version.minor
           /\ predicate.precision >= 3 => candidate.patch = version.patch
      ELSE \/ predicate.comparator \in {"=", ">=", "<="} /\ order = 0
           \/ predicate.comparator \in {">", ">="} /\ order > 0
           \/ predicate.comparator \in {"<", "<="} /\ order < 0

\* A constraint is a sequence of alternatives, each a sequence of
\* predicates.  One without alternatives matches everything.
AnyVersion == <<>>

constraint_matches(constraint, candidate) ==
  \/ constraint = AnyVersion
  \/ \E a \in DOMAIN constraint : \A p \in DOMAIN constraint[a] :
       predicate_matches(constraint[a][p], candidate)

-----------------------------------------------------------------------------
(***************************************************************************)
(* Reading.  The text of a version is a record: its components (a number   *)
(* of any size, Wildcard for *, x or X, Malformed for anything else), its  *)
(* prerelease (<<>> without a dash; Blank is an empty identifier), whether *)
(* there is a plus, and the build after it with the identifiers that       *)
(* follow the build's own first dash.                                      *)
(***************************************************************************)
Wildcard  == -1
Malformed == -2
Blank     == [numeric |-> FALSE, value |-> 0, zeros |-> FALSE]

Failed(why) == [ok |-> FALSE, error |-> why]
Parsed(value) == [ok |-> TRUE, value |-> value]

\* The components before the first wildcard.
Given(text, allow_wildcard) ==
  SubSeq(text.components, 1,
         Cardinality({i \in DOMAIN text.components :
                        allow_wildcard => Wildcard \notin {text.components[j] : j \in 1 .. i}}))

\* The dash is searched for in the whole text, so without a prerelease the
\* one inside the build is taken.
DashTail(text) ==
  IF text.prerelease # <<>> THEN text.prerelease ELSE text.buildDash

parse_core(text, allow_wildcard) ==
  LET given == Given(text, allow_wildcard)
      Nth(i) == IF i <= Len(given) THEN given[i] ELSE 0
  IN  IF Len(text.components) \notin 1 .. 3 THEN Failed("one to three components")
      ELSE IF \E i \in DOMAIN given : given[i] \notin Number
           THEN Failed("invalid component")
      ELSE IF Blank \in Range(DashTail(text)) THEN Failed("invalid prerelease")
      ELSE IF text.plus /\ text.build = "" THEN Failed("empty build")
      ELSE Parsed([major |-> Nth(1), minor |-> Nth(2), patch |-> Nth(3),
                   prerelease |-> DashTail(text),
                   build |-> IF text.plus THEN text.build ELSE ""])

\* An operator, or none, before the text of a version.
predicate_for(op, text) ==
  LET version == parse_core(text, TRUE)
  IN  IF ~version.ok THEN version
      ELSE Parsed([comparator |-> IF op = "" THEN "=" ELSE op,
                   version    |-> version.value,
                   precision  |-> Len(Given(text, TRUE))])

Bump(n) == (n + 1) % NumberLimit

\* Wrong variant: ^ counts the major component up even when it is zero.
UpperOfMajor(op, base) ==
  IF op = "^"
  THEN [base EXCEPT !.major = Bump(@), !.minor = 0, !.patch = 0]
  ELSE [base EXCEPT !.minor = Bump(@), !.patch = 0]

\* The first version past ^base or ~base; its prerelease is the base's.
Upper(op, base) ==
  IF op = "^" /\ base.major > 0
  THEN [base EXCEPT !.major = Bump(@), !.minor = 0, !.patch = 0]
  ELSE IF op = "^" /\ base.minor = 0 THEN [base EXCEPT !.patch = Bump(@)]
  ELSE [base EXCEPT !.minor = Bump(@), !.patch = 0]

\* What a word of a constraint adds to its clause.
ReadWord(word) ==
  IF word.op \in {"^", "~"}
  THEN LET base == parse_core(word.text, TRUE)
           Bound(c, v) == [comparator |-> c, version |-> v, precision |-> NoPrecision]
       IN  IF ~base.ok THEN base
           ELSE Parsed(<<Bound(">=", base.value), Bound("<", Upper(word.op, base.value))>>)
  ELSE LET predicate == predicate_for(word.op, word.text)
       IN  IF predicate.ok THEN Parsed(<<predicate.value>>) ELSE predicate

\* A word of a constraint's text is [op, text]; a comma or a star standing
\* alone is skipped.
Comma   == [op |-> ","]
Star    == [op |-> "*"]
SkippedWords == {Comma, Star}

\* The text of a constraint is a sequence of alternatives, the texts between
\* the bars: sequences of words, <<>> for the empty text between two bars.
\* (One of blanks alone has no word either, and is as one of commas.)
\* Both loops stop at the first word that does not parse: what is read so far
\* is then that failure.
AddPredicates(clause, read) ==
  IF read.ok THEN Parsed(clause.value \o read.value) ELSE read

AddWord(clause, word) ==
  IF ~clause.ok \/ word \in SkippedWords THEN clause
  ELSE AddPredicates(clause, ReadWord(word))

\* The predicates of the words of one alternative.
read_clause(words) ==
  LET Clause[i \in 0 .. Len(words)] ==
        IF i = 0 THEN Parsed(<<>>) ELSE AddWord(Clause[i - 1], words[i])
  IN  Clause[Len(words)]

\* Wrong variant: an alternative without predicates is kept, and matches everything.
addAnyClause(constraint, clause) ==
  IF ~clause.ok THEN clause ELSE Parsed(Append(constraint.value, clause.value))

AddClause(constraint, clause) ==
  IF ~clause.ok THEN clause
  ELSE IF clause.value = <<>> THEN Failed("empty constraint alternative")
  ELSE Parsed(Append(constraint.value, clause.value))

AddAlternative(constraint, words) ==
  IF ~constraint.ok \/ words = <<>> THEN constraint
  ELSE AddClause(constraint, read_clause(words))

read_alternatives(text) ==
  LET Constraint[i \in 0 .. Len(text)] ==
        IF i = 0 THEN Parsed(AnyVersion) ELSE AddAlternative(Constraint[i - 1], text[i])
  IN  Constraint[Len(text)]

parse_constraint(text) ==
  IF text \in {<<<<>>>>, <<<<Star>>>>} THEN Parsed(AnyVersion)
  ELSE IF read_alternatives(text) = Parsed(AnyVersion) THEN Failed("invalid constraint")
  ELSE read_alternatives(text)
=============================================================================
