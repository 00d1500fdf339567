------------------------------- MODULE MCXPath -------------------------------
(***************************************************************************)
(* Queries of small documents.  An expression is written piece by piece;   *)
(* one whose parse has failed before its last two tokens, or that has more *)
(* open brackets than pieces left, fails however it goes on, and is not    *)
(* continued.  The last piece there is room for makes it one that is       *)
(* parsed: nothing is said here of the others.                             *)
(***************************************************************************)
EXTENDS XPathQuery, TLC

CONSTANTS Pieces, MaxPieces, MaxAsked

VARIABLES source, written, parse, document, answer

vars == <<source, written, parse, document, answer>>

WordsUsed == {"a", "count", "last", "bogus", "true", "and", "or", "map"}

\* The pieces of the two runs: of whole expressions, and of quoted texts.
ExpressionPieces ==
  {<<"a">>, <<"1">>, <<"*">>, <<"/">>, <<"@">>, <<"?">>,
   <<"[">>, <<"]">>, <<"(">>, <<")">>, <<"=">>, <<"|">>, <<"-">>, <<".">>,
   <<" ", "or">>, <<",">>, <<"(", ":", "a", ":", ")">>, <<"'", "a", "'">>,
   <<"count", "(">>, <<"last", "(", ")">>, <<"bogus", "(", ")">>,
   <<"map", "{">>, <<" ", ":">>, <<"}">>,
   <<"[", "2", "]">>, <<"[", ".", "]", "[", "1", ".", "2", "]">>,
   <<"?", "'", "a", "[", "0", ":", "2", "]", "'">>}
QuotedPieces == {<<"'">>, <<"a">>, <<"1">>, <<"=">>, <<" ">>}

Number(n) == <<"number", Whole(n)>>
Key(name) == <<name>>
AttributeKey(name) == <<"@", name>>
Leaf == <<"object", <<<<AttributeKey("a"), Number(2)>>, <<Key("a"), Number(1)>>>>>>
Documents == {<<"null">>, Number(2), Leaf,
              <<"array", <<Leaf, Number(1), <<"string", <<"a">>>>>>>>,
              <<"object", <<<<AttributeKey("a"), <<"string", <<>>>>>>,
                            <<Key("a"), <<"array", <<Leaf, Leaf>>>>>>>>>>}

Unasked == [error |-> "unasked", items |-> <<>>]

Init == /\ source = <<>>
        /\ written = 0
        /\ parse = Parse(tokenize(<<>>))
        /\ document = <<"null">>
        /\ answer = Unasked

Opened(tokens) ==
  Cardinality({i \in DOMAIN tokens : tokens[i].kind \in {"(", "[", "{"}})
    - Cardinality({i \in DOMAIN tokens : tokens[i].kind \in {")", "]", "}"}})

Promising ==
  LET tokens == tokenize(source)
  IN  /\ parse.ok \/ parse.at >= Len(tokens) - 1
      /\ Opened(tokens) <= MaxPieces - written

Write == /\ answer = Unasked
         /\ written < MaxPieces
         /\ Promising
         /\ \E piece \in Pieces :
              /\ source' = source \o piece
              /\ parse' = Parse(tokenize(source \o piece))
              /\ written + 1 = MaxPieces => parse'.ok
         /\ written' = written + 1
         /\ UNCHANGED <<document, answer>>

Ask == /\ answer = Unasked
       /\ parse.ok
       /\ written <= MaxAsked
       /\ \E d \in Documents : document' = d /\ answer' = query(source, d)
       /\ UNCHANGED <<source, written, parse>>

Next == Write \/ Ask

Spec == Init /\ [][Next]_vars

-----------------------------------------------------------------------------
(* The parse *)

\* The texts of a tree from left to right, and those of the tokens it is to
\* keep: all but the brackets, the separators and the slashes.
RECURSIVE Yield(_)
Yields(trees) == FlattenSeq([i \in DOMAIN trees |-> Yield(trees[i])])
MarksOf(step) == SetToSeq({m \in DOMAIN Marks : Marks[m].kind = step.kind})
Yield(tree) ==
  CASE tree.kind = "Binary" ->
         Yield(tree.children[1]) \o tree.text \o Yield(tree.children[2])
    [] tree.kind = "Path" ->
         FlattenSeq([i \in DOMAIN tree.steps |->
           MarksOf(tree.steps[i]) \o tree.steps[i].name
             \o Yields(tree.steps[i].predicates)])
    [] tree.kind = "ContextItem" -> <<".">>
    [] tree.kind = "MapConstructor" -> <<"map">> \o Yields(tree.entries)
    [] OTHER -> tree.text \o Yields(tree.children)

Separators == {"/", "(", ")", "[", "]", "{", "}", ",", ":", "End"}
Kept(tokens) ==
  FlattenSeq([i \in DOMAIN tokens |->
    CASE tokens[i].kind \in Separators -> <<>>
      [] tokens[i].kind = "//" -> <<"//">>
      [] OTHER -> tokens[i].text])

\* A parse that succeeds has put every token into its tree, in the order of
\* the source: no loop of the parser leaves early with a prefix of what was
\* written, and none reads a token twice.
NothingIsLost == parse.ok => Yield(parse.tree) = Kept(tokenize(source))

\* Whether the token at a position stands between two operands: it has a
\* rank and follows the last token of an operand.
RECURSIVE IsInfix(_, _)
IsInfix(tokens, at) ==
  /\ precedence(tokens[at].kind) > 0
  /\ at > 1
  /\ \/ tokens[at - 1].kind \in {"Name", "String", "Number", "."}
     \/ tokens[at - 1].kind = "*" /\ ~IsInfix(tokens, at - 1)

\* A bracketless expression is divided at its last operator of the least
\* rank, and each side is what it is on its own: precedence climbing groups
\* as the ranks say and operators of a rank to the left, although * is also a
\* step, and + and - are also signs.
OperatorsBindByRank ==
  LET tokens == tokenize(source)
      infix == {i \in DOMAIN tokens : IsInfix(tokens, i)}
      Rank(i) == precedence(tokens[i].kind)
      least == {i \in infix : \A j \in infix : Rank(i) <= Rank(j)}
      SideOf(from, to) == Parse(Append(SubSeq(tokens, from, to), Last(tokens)))
  IN  /\ parse.ok
      /\ \A i \in DOMAIN tokens : tokens[i].kind \notin Separators \ {"/", "End"}
      => IF infix = {} THEN parse.tree.kind # "Binary"
         ELSE LET at == Max(least)
              IN  /\ SideOf(1, at - 1).ok /\ SideOf(at + 1, Len(tokens) - 1).ok
                  /\ parse.tree = Inner("Binary", tokens[at].text,
                       <<SideOf(1, at - 1).tree, SideOf(at + 1, Len(tokens) - 1).tree>>)

\* The normalizer never replaces a subtree by another one, as long as no name
\* or literal holds a character that joins the parts of a signature: such a
\* text can forge the signature of another tree, and ?'a[0:2]' | ?a[2] is
\* compiled to the left path twice.
Joints == {"(", ")", "[", "]", "{", "}", "/", ":"}
CompileKeepsTree ==
  LET tokens == tokenize(source)
      HasJoint(token) == token.kind \in {"Name", "String"} /\ Range(token.text) \cap Joints # {}
  IN  parse.ok /\ (\A i \in DOMAIN tokens : ~HasJoint(tokens[i]))
        => compile(parse.tree) = parse.tree

-----------------------------------------------------------------------------
(* The answer *)

\* A query that the validator accepts meets no unknown function, operator or
\* absent document at any depth of its evaluation: it fails by the types of
\* its operands, or by an argument that is not there.
ValidatedFailsOnlyByType ==
  answer # Unasked /\ validate_expression(source) = <<>>
    => answer.error \in {"", "XPTY0004", "out_of_range"}

\* The position a filter asks for among so many items, if it is a number or
\* last(): a set of at most one.
PositionAsked(filter, size) ==
  CASE filter.kind = "Function" -> {n \in {size} : filter.text = <<"last">>}
    [] filter.kind = "Literal" ->
         {number.value \div Unit : number \in
            {m \in {Numeral(filter.text)} : m.exists /\ m.whole}}
    [] OTHER -> {}

ItemsAt(items, filter) ==
  SetToSeq({items[n] : n \in PositionAsked(filter, Len(items)) \cap DOMAIN items})

\* A path whose last predicate is a number, or last(), yields the item at
\* that position among those the path yields without the predicate, and
\* nothing where there is none.  The position of a number with a fraction is
\* the one below it: [1.2] is [1], and [.2] is none.
PositionsPick ==
  answer.error = "" /\ parse.tree.kind = "Path" =>
    LET step == Last(parse.tree.steps)
        WithFilters(filters) ==
          [parse.tree EXCEPT !.steps[Len(parse.tree.steps)].predicates = filters]
    IN  step.predicates # <<>> /\ PositionAsked(Last(step.predicates), 0) # {}
        => answer.items = ItemsAt(EvaluateTree(WithFilters(Front(step.predicates)), document).items,
                                  Last(step.predicates))

\* The manual: invalid tokens and grammar failures are parse errors.  A
\* source with an odd number of quotes leaves a literal unclosed.
UnclosedIsRejected ==
  parse.ok => Cardinality({i \in DOMAIN source : source[i] = "'"}) % 2 = 0
=============================================================================
