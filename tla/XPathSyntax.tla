----------------------------- MODULE XPathSyntax -----------------------------
(***************************************************************************)
(* The static half of the XPath plugin: the tokenizer, the recursive       *)
(* descent parser, the normalizer that shares equal subtrees and the       *)
(* validator.                                                              *)
(*                                                                         *)
(* An expression is a sequence of symbols.  A symbol of Words stands for a *)
(* run of letters, any other symbol is one character; a lexeme is the      *)
(* sequence of its symbols.  The kind of a punctuation or keyword token is *)
(* named by its text.                                                      *)
(***************************************************************************)
EXTENDS Integers, Sequences, SequencesExt

CONSTANT Words       \* the runs of letters that occur

-----------------------------------------------------------------------------
(* Tokens *)

Digit == {"0", "1", "2", "3", "4", "5", "6", "7", "8", "9"}
Quotes == {"'", "\""}
name_continue == Words \cup Digit \cup {"_", "-", ".", ":"}
NumberContinue == Digit \cup {".", "e", "E", "+", "-"}
Keywords == {"and", "or", "div", "idiv", "mod"}
Pairs == {"//", "..", "!=", "<=", ">=", ":="}
Singles == {"/", ".", "@", "?", "(", ")", "[", "]", "{", "}", ",", ":",
            "+", "-", "=", "<", ">", "|", "*"}

SymbolAt(source, at) == IF at \in 1..Len(source) THEN source[at] ELSE ""

RECURSIVE RunEnd(_, _, _)
RunEnd(source, at, class) ==
  IF SymbolAt(source, at) \in class THEN RunEnd(source, at + 1, class) ELSE at

Emit(kind, text, next) == [kind |-> kind, text |-> text, next |-> next]
Span(kind, source, from, next) ==
  Emit(kind, SubSeq(source, from, next - 1), next)
Skip(next) == Emit("Skip", <<>>, next)
Invalid == Emit("Invalid", <<>>, 0)

\* A doubled quote stands for itself.  The end of the source is noticed only
\* where its last character is not the quote.
RECURSIVE ReadQuoted(_, _, _, _)
ReadQuoted(source, at, quote, text) ==
  IF at > Len(source)
  THEN IF Last(source) = quote THEN Skip(at) ELSE Invalid
  ELSE IF source[at] # quote
  THEN ReadQuoted(source, at + 1, quote, Append(text, source[at]))
  ELSE IF SymbolAt(source, at + 1) = quote
  THEN ReadQuoted(source, at + 2, quote, Append(text, quote))
  ELSE Emit("String", text, at + 1)

SkipComment(source, at) ==
  LET ends == {j \in at..(Len(source) - 1) : source[j] = ":" /\ source[j + 1] = ")"}
  IN  IF ends = {} THEN Invalid ELSE Skip(Min(ends) + 2)

keyword_kind(text) ==
  IF Len(text) = 1 /\ text[1] \in Keywords THEN text[1] ELSE "Name"

ReadName(source, at) ==
  LET next == RunEnd(source, at + 1, name_continue)
  IN  Span(keyword_kind(SubSeq(source, at, next - 1)), source, at, next)

Scan(source, at) ==
  LET c == source[at]
      d == SymbolAt(source, at + 1)
  IN  IF c = " " THEN Skip(at + 1)
      ELSE IF c = "(" /\ d = ":" THEN SkipComment(source, at + 2)
      ELSE IF c \in Quotes THEN ReadQuoted(source, at + 1, c, <<>>)
      ELSE IF c \in Digit \/ (c = "." /\ d \in Digit)
      THEN Span("Number", source, at, RunEnd(source, at + 1, NumberContinue))
      ELSE IF c \in Words \cup {"_"} THEN ReadName(source, at)
      ELSE IF c \o d \in Pairs THEN Span(c \o d, source, at, at + 2)
      ELSE IF c \in Singles THEN Span(c, source, at, at + 1)
      ELSE Invalid

\* The tokens of the source from a position on; an error ends them with an
\* Invalid token in the place of the End.
RECURSIVE TokensFrom(_, _)
TokensFrom(source, at) ==
  IF at > Len(source) THEN <<Emit("End", <<>>, at)>>
  ELSE LET token == Scan(source, at)
       IN  IF token.kind = "Invalid" THEN <<token>>
           ELSE IF token.kind = "Skip" THEN TokensFrom(source, token.next)
           ELSE <<token>> \o TokensFrom(source, token.next)

tokenize(source) == TokensFrom(source, 1)

-----------------------------------------------------------------------------
(* Trees.  The entries of a map constructor are its keys and values in     *)
(* turn.                                                                   *)

Node(kind, text) == [kind |-> kind, text |-> text, children |-> <<>>,
                     steps |-> <<>>, entries |-> <<>>]
Inner(kind, text, children) == [Node(kind, text) EXCEPT !.children = children]
PathNode(origin, steps) == [Node("Path", <<origin>>) EXCEPT !.steps = steps]
Step(kind, name, predicates) ==
  [kind |-> kind, name |-> name, predicates |-> predicates]

-----------------------------------------------------------------------------
(* The parser.  A parse has read the tokens before "at", or has failed at  *)
(* the token it names.                                                     *)

Parsed(tree, at) == [ok |-> TRUE, tree |-> tree, at |-> at]
Unexpected(at) == [ok |-> FALSE, tree |-> <<>>, at |-> at]
Then(parse, Continue(_, _)) ==
  IF parse.ok THEN Continue(parse.tree, parse.at) ELSE parse
Expect(tokens, at, kind, tree) ==
  IF tokens[at].kind = kind THEN Parsed(tree, at + 1) ELSE Unexpected(at)

precedence(kind) ==
  CASE kind = "or" -> 1
    [] kind = "and" -> 2
    [] kind \in {"=", "!=", "<", "<=", ">", ">="} -> 3
    [] kind \in {"+", "-"} -> 4
    [] kind \in {"*", "div", "idiv", "mod"} -> 5
    [] kind = "|" -> 6
    [] OTHER -> 0

RECURSIVE binary(_, _, _), Operators(_, _, _, _), unary(_, _), primary(_, _),
          path(_, _, _, _), predicates(_, _, _), Listed(_, _, _, _),
          Mapped(_, _, _)

\* A wrong rank: the right operand takes operators of the same rank too.
SameRank(rank) == rank

RightRank(rank) == rank + 1

Operators(tokens, left, at, minimum) ==
  LET rank == precedence(tokens[at].kind)
  IN  IF rank < minimum THEN Parsed(left, at)
      ELSE Then(binary(tokens, at + 1, RightRank(rank)), LAMBDA right, next :
             Operators(tokens, Inner("Binary", tokens[at].text, <<left, right>>),
                       next, minimum))

binary(tokens, at, minimum) ==
  Then(unary(tokens, at), LAMBDA left, next : Operators(tokens, left, next, minimum))

expression(tokens, at) == binary(tokens, at, 1)

unary(tokens, at) ==
  IF tokens[at].kind \in {"+", "-"}
  THEN Then(unary(tokens, at + 1), LAMBDA operand, next :
         Parsed(Inner("Unary", tokens[at].text, <<operand>>), next))
  ELSE primary(tokens, at)

\* The steps a mark opens, each with the kinds of token that can name it.
Marks == [mark \in {"//", "@", "?"} |->
            CASE mark = "//" -> [kind |-> "Descendant", names |-> {"*", "Name"}]
              [] mark = "@" -> [kind |-> "Attribute", names |-> {"*", "Name"}]
              [] mark = "?" -> [kind |-> "Lookup",
                                names |-> {"*", "Number", "String", "Name"}]]

\* A step and its predicates.  The tree of the parse is the step.
StepAt(tokens, at) ==
  LET kind == tokens[at].kind
      Named(step, from) ==
        Then(predicates(tokens, from + 1, <<>>), LAMBDA filters, next :
          Parsed(Step(step, tokens[from].text, filters), next))
  IN  IF kind \in DOMAIN Marks
      THEN IF tokens[at + 1].kind \in Marks[kind].names
           THEN Named(Marks[kind].kind, at + 1)
           ELSE Unexpected(at + 1)
      ELSE IF kind = "*" THEN Named("Wildcard", at)
      ELSE IF kind = "Name" THEN Named("Child", at)
      ELSE Unexpected(at)

path(tokens, at, origin, steps) ==
  Then(StepAt(tokens, at), LAMBDA step, next :
    LET extended == Append(steps, step)
    IN  CASE tokens[next].kind = "/" -> path(tokens, next + 1, origin, extended)
          [] tokens[next].kind = "?" -> path(tokens, next, origin, extended)
          [] OTHER -> Parsed(PathNode(origin, extended), next))

predicates(tokens, at, read) ==
  IF tokens[at].kind # "[" THEN Parsed(read, at)
  ELSE Then(expression(tokens, at + 1), LAMBDA tree, next :
         Then(Expect(tokens, next, "]", tree), LAMBDA filter, after :
           predicates(tokens, after, Append(read, filter))))

\* Expressions between commas, up to the closing token.
Listed(tokens, at, close, read) ==
  Then(expression(tokens, at), LAMBDA tree, next :
    IF tokens[next].kind = ","
    THEN Listed(tokens, next + 1, close, Append(read, tree))
    ELSE Expect(tokens, next, close, Append(read, tree)))

ListOf(tokens, at, close) ==
  IF tokens[at].kind = close THEN Parsed(<<>>, at + 1)
  ELSE Listed(tokens, at, close, <<>>)

Mapped(tokens, at, read) ==
  Then(expression(tokens, at), LAMBDA key, next :
    Then(Expect(tokens, next, ":", key), LAMBDA same, after :
      Then(expression(tokens, after), LAMBDA value, end :
        IF tokens[end].kind = ","
        THEN Mapped(tokens, end + 1, read \o <<key, value>>)
        ELSE Expect(tokens, end, "}", read \o <<key, value>>))))

Constants == {<<"true">>, <<"false">>, <<"null">>}

NameAt(tokens, at) ==
  CASE tokens[at + 1].kind = "(" ->
         Then(ListOf(tokens, at + 2, ")"), LAMBDA arguments, next :
           Parsed(Inner("Function", tokens[at].text, arguments), next))
    [] tokens[at + 1].kind # "(" /\ tokens[at].text \in Constants ->
         Parsed(Node("Literal", tokens[at].text), at + 1)
    [] tokens[at + 1].kind = "{" /\ tokens[at].text = <<"map">> ->
         IF tokens[at + 2].kind = "}"
         THEN Parsed(Node("MapConstructor", <<>>), at + 3)
         ELSE Then(Mapped(tokens, at + 2, <<>>), LAMBDA entries, next :
                Parsed([Node("MapConstructor", <<>>) EXCEPT !.entries = entries], next))
    [] OTHER -> path(tokens, at, "relative", <<>>)

primary(tokens, at) ==
  LET token == tokens[at]
  IN  CASE token.kind = "/" ->
             IF tokens[at + 1].kind \in {"End", ")"}
             THEN Parsed(Node("Root", <<>>), at + 1)
             ELSE path(tokens, at + 1, "absolute", <<>>)
        [] token.kind = "//" ->
             Then(StepAt(tokens, at), LAMBDA step, next :
               Parsed(PathNode("absolute", <<step>>), next))
        [] token.kind = "Name" -> NameAt(tokens, at)
        [] token.kind \in {"String", "Number"} ->
             Parsed(Node("Literal", token.text), at + 1)
        [] token.kind = "." -> Parsed(Node("ContextItem", <<>>), at + 1)
        [] token.kind = "(" ->
             Then(expression(tokens, at + 1), LAMBDA tree, next :
               Expect(tokens, next, ")", tree))
        [] token.kind = "[" ->
             Then(ListOf(tokens, at + 1, "]"), LAMBDA items, next :
               Parsed(Inner("ArrayConstructor", <<>>, items), next))
        [] token.kind \in {"*", "@", "?"} -> path(tokens, at, "relative", <<>>)
        [] OTHER -> Unexpected(at)

\* A wrong end: whatever follows the expression is dropped.
Anywhere(tokens, tree, at) == Parsed(tree, at)

AtEnd(tokens, tree, at) ==
  IF tokens[at].kind = "End" THEN Parsed(tree, at) ELSE Unexpected(at)

Parse(tokens) ==
  IF Last(tokens).kind = "Invalid" THEN Unexpected(Len(tokens))
  ELSE Then(expression(tokens, 1), LAMBDA tree, at : AtEnd(tokens, tree, at))

-----------------------------------------------------------------------------
(* The normalizer: a subtree with the signature of an earlier one is       *)
(* replaced by it.                                                         *)

Joined(text) == FoldLeft(LAMBDA word, symbol : word \o symbol, "", text)

NodeNumber == [Literal |-> "0", ContextItem |-> "1", Root |-> "2", Path |-> "3", Unary |-> "4",
               Binary |-> "5", Function |-> "6", ArrayConstructor |-> "7", MapConstructor |-> "8"]
StepNumber == [Child |-> "0", Descendant |-> "1", Wildcard |-> "2", Attribute |-> "3", Lookup |-> "4"]

\* A wrong mark: the kind of the step is left out.
NameMark(step) == "/" \o Joined(step.name)

StepMark(step) == "/" \o StepNumber[step.kind] \o ":" \o Joined(step.name)

RECURSIVE signature(_)
Signatures(trees, open, close) ==
  FoldLeft(LAMBDA out, tree : out \o open \o signature(tree) \o close, "", trees)
signature(tree) ==
  NodeNumber[tree.kind] \o ":" \o Joined(tree.text)
  \o FoldLeft(LAMBDA out, step : out \o StepMark(step)
                                     \o Signatures(step.predicates, "[", "]"),
              "", tree.steps)
  \o Signatures(tree.children, "(", ")")
  \o FoldLeft(LAMBDA out, i : out \o "{" \o signature(tree.entries[2 * i - 1]) \o ":"
                                    \o signature(tree.entries[2 * i]) \o "}",
              "", [i \in 1..(Len(tree.entries) \div 2) |-> i])

\* "nodes" maps the signatures met so far to the trees kept for them.
RECURSIVE intern(_, _)

InternAll(trees, nodes) ==
  FoldLeft(LAMBDA done, tree :
             LET one == intern(tree, done.nodes)
             IN  [trees |-> Append(done.trees, one.tree), nodes |-> one.nodes],
           [trees |-> <<>>, nodes |-> nodes], trees)

InternSteps(steps, nodes) ==
  FoldLeft(LAMBDA done, step :
             LET filters == InternAll(step.predicates, done.nodes)
             IN  [steps |-> Append(done.steps,
                                   [step EXCEPT !.predicates = filters.trees]),
                  nodes |-> filters.nodes],
           [steps |-> <<>>, nodes |-> nodes], steps)

intern(tree, nodes) ==
  LET children == InternAll(tree.children, nodes)
      entries == InternAll(tree.entries, children.nodes)
      steps == InternSteps(tree.steps, entries.nodes)
      copy == [tree EXCEPT !.children = children.trees, !.entries = entries.trees,
                           !.steps = steps.steps]
      key == signature(copy)
  IN  IF key \in DOMAIN steps.nodes
      THEN [tree |-> steps.nodes[key], nodes |-> steps.nodes]
      ELSE [tree |-> copy, nodes |-> steps.nodes @@ (key :> copy)]

compile(tree) == intern(tree, <<>>).tree

-----------------------------------------------------------------------------
(* The validator *)

Functions == {<<f>> : f \in {"boolean", "count", "empty", "exists", "false",
                "last", "name", "not", "position", "string", "true"}}

\* A wrong walk: the predicates of the steps are not visited.
OutsideSteps(tree) == tree.children \o tree.entries

Subtrees(tree) == tree.children \o tree.entries
  \o FlattenSeq([i \in DOMAIN tree.steps |-> tree.steps[i].predicates])

\* The errors of a tree and its parts, in the order they are reported.
RECURSIVE validate_tree(_)
validate_tree(tree) ==
  (IF tree.kind = "Function" /\ tree.text \notin Functions
   THEN <<"XPST0017">> ELSE <<>>)
  \o (IF tree.kind = "Path" /\ tree.text = <<"relative">> /\ tree.steps = <<>>
      THEN <<"XPST0003">> ELSE <<>>)
  \o FlattenSeq([i \in DOMAIN Subtrees(tree) |-> validate_tree(Subtrees(tree)[i])])

=============================================================================
