------------------------------ MODULE XPathQuery ------------------------------
(***************************************************************************)
(* The dynamic half of the XPath plugin: the view of a document as items,  *)
(* the evaluator, and the plugin's query.                                  *)
(*                                                                         *)
(* A value is tagged with its kind; an object is the sequence of its       *)
(* fields, a pair each, in the order of their keys.  A number, of whatever *)
(* type, is an exact decimal with a few places, given in units of the      *)
(* last; a zero has no sign.  Division is left out.                        *)
(***************************************************************************)
EXTENDS XPathSyntax

Item(value, name, attribute) ==
  [value |-> value, name |-> name, attribute |-> attribute]
KindOf(item) == item.value[1]
Of(value) == <<Item(value, <<>>, FALSE)>>
boolean_item(b) == Of(<<"boolean", b>>)
number_item(n) == Of(<<"number", n>>)

-----------------------------------------------------------------------------
(* Numbers and their texts.  A text starts with a numeral, and may end     *)
(* with it.  No text here has an exponent or is one of the other numerals  *)
(* of stod, the words inf and nan among them, or more places than a        *)
(* number.                                                                 *)

MaxPlaces == 3
Unit == 10 ^ MaxPlaces
Whole(n) == n * Unit

DigitValue == [d \in Digit |-> CHOOSE n \in 0..9 : ToString(n) = d]

\* The number that digits make, the last of them behind the point.
Scaled(digits, places) ==
  FoldLeft(LAMBDA n, d : 10 * n + DigitValue[d], 0, digits) * 10 ^ (MaxPlaces - places)

\* Digits from "first" up to "point", and behind it places up to "next";
\* either may be empty, but not both.
Unsigned(text, first, point, next, sign) ==
  [exists |-> point > first \/ next > point + 1,
   whole |-> next > Len(text),
   value |-> sign * Scaled(SubSeq(text, first, point - 1) \o SubSeq(text, point + 1, next - 1),
                           IF next = point THEN 0 ELSE next - point - 1)]

Fraction(text, first, point, sign) ==
  Unsigned(text, first, point,
           IF SymbolAt(text, point) = "." THEN RunEnd(text, point + 1, Digit) ELSE point, sign)

DigitsFrom(text, first, sign) == Fraction(text, first, RunEnd(text, first, Digit), sign)

SignAt(text, at) ==
  CASE SymbolAt(text, at) = "-" -> DigitsFrom(text, at + 1, -1)
    [] SymbolAt(text, at) = "+" -> DigitsFrom(text, at + 1, 1)
    [] OTHER -> DigitsFrom(text, at, 1)

\* Blanks, a sign, digits and a fraction.
Numeral(text) == SignAt(text, RunEnd(text, 1, {" "}))

RECURSIVE Decimal(_)
Decimal(n) ==
  IF n < 0 THEN <<"-">> \o Decimal(-n)
  ELSE IF n < 10 THEN <<ToString(n)>>
  ELSE Append(Decimal(n \div 10), ToString(n % 10))

\* The places of a fraction, none of them a zero at the end.
RECURSIVE Places(_, _)
Places(rest, unit) ==
  IF rest = 0 THEN <<>>
  ELSE <<ToString(rest \div (unit \div 10))>> \o Places(rest % (unit \div 10), unit \div 10)

NumberText(n) ==
  LET size == IF n < 0 THEN -n ELSE n
  IN  (IF n < 0 THEN <<"-">> ELSE <<>>) \o Decimal(size \div Unit)
        \o (IF size % Unit = 0 THEN <<>> ELSE <<".">> \o Places(size % Unit, Unit))

string_value(item) ==
  CASE KindOf(item) = "boolean" -> <<IF item.value[2] THEN "true" ELSE "false">>
    [] KindOf(item) = "number" -> NumberText(item.value[2])
    [] KindOf(item) = "string" -> item.value[2]
    [] OTHER -> <<>>

\* The number of an item, if it has one: a sequence of at most one.
ValueIn(numeral) == IF numeral.exists THEN <<numeral.value>> ELSE <<>>
numeric_value(item) ==
  CASE KindOf(item) = "number" -> <<item.value[2]>>
    [] KindOf(item) = "boolean" -> <<IF item.value[2] THEN Whole(1) ELSE 0>>
    [] OTHER -> ValueIn(Numeral(string_value(item)))

effective_boolean_value(items) ==
  CASE items = <<>> -> FALSE
    [] Len(items) > 1 -> TRUE
    [] OTHER -> CASE KindOf(items[1]) = "null" -> FALSE
                  [] KindOf(items[1]) = "boolean" -> items[1].value[2]
                  [] KindOf(items[1]) = "string" -> items[1].value[2] # <<>>
                  [] KindOf(items[1]) = "number" -> items[1].value[2] # 0
                  [] OTHER -> TRUE

is_atomic(item) == KindOf(item) \notin {"object", "array"}

\* Numbers and booleans compare as such with their like, all others as texts.
atomically_equal(left, right) ==
  IF KindOf(left) = KindOf(right) /\ KindOf(left) \in {"number", "boolean"}
  THEN left.value[2] = right.value[2]
  ELSE string_value(left) = string_value(right)

-----------------------------------------------------------------------------
(* The view of a document *)

AnyName == <<"*">>
IsAttribute(key) == key # <<>> /\ key[1] = "@"
ElementItem(values, i) == Item(values[i], Decimal(i), FALSE)

Children(item, name, attributes) ==
  CASE KindOf(item) = "object" ->
         LET Bare(key) == IF attributes THEN Tail(key) ELSE key
             Wanted(field) == /\ IsAttribute(field[1]) = attributes
                              /\ name \in {AnyName, Bare(field[1])}
             fields == SelectSeq(item.value[2], Wanted)
         IN  [i \in DOMAIN fields |->
                Item(fields[i][2], Bare(fields[i][1]), attributes)]
    [] KindOf(item) = "array" /\ ~attributes ->
         SelectSeq([i \in DOMAIN item.value[2] |-> ElementItem(item.value[2], i)],
                   LAMBDA element : name \in {AnyName, element.name})
    [] OTHER -> <<>>

RECURSIVE Descendants(_, _)
Descendants(item, name) ==
  LET children == Children(item, AnyName, FALSE)
  IN  FlattenSeq([i \in DOMAIN children |->
        (IF name \in {AnyName, children[i].name} THEN <<children[i]>> ELSE <<>>)
        \o Descendants(children[i], name)])

\* Unlike a child, what is looked up in an object keeps its whole key, and
\* may be an attribute.
Lookup(item, key) ==
  CASE KindOf(item) = "object" ->
         LET fields == SelectSeq(item.value[2], LAMBDA f : key \in {AnyName, f[1]})
         IN  [i \in DOMAIN fields |-> Item(fields[i][2], fields[i][1], FALSE)]
    [] KindOf(item) = "array" ->
         SelectSeq([i \in DOMAIN item.value[2] |-> ElementItem(item.value[2], i)],
                   LAMBDA element : key \in {AnyName, element.name})
    [] OTHER -> <<>>

TakeStep(items, step) ==
  FlattenSeq([i \in DOMAIN items |->
    CASE step.kind = "Descendant" -> Descendants(items[i], step.name)
      [] step.kind = "Lookup" -> Lookup(items[i], step.name)
      [] OTHER -> Children(items[i], step.name, step.kind = "Attribute")])

-----------------------------------------------------------------------------
(* The evaluator.  An evaluation yields items or fails with an error.      *)

Answer(items) == [error |-> "", items |-> items]
Fails(error) == [error |-> error, items |-> <<>>]
Given(answer, Continue(_)) ==
  IF answer.error = "" THEN Continue(answer.items) ELSE answer

\* The outcome of one comparison.
Outcome(holds) == IF holds THEN "holds" ELSE "fails"
InOrder(x, y, operation) ==
  IF x = <<>> \/ y = <<>> THEN "XPTY0004"
  ELSE Outcome(CASE operation = "<" -> x[1] < y[1]
                 [] operation = "<=" -> x[1] <= y[1]
                 [] operation = ">" -> x[1] > y[1]
                 [] operation = ">=" -> x[1] >= y[1])

compare(left, right, operation) ==
  IF operation \in {"=", "!="}
  THEN IF ~is_atomic(left) \/ ~is_atomic(right) THEN "XPTY0004"
       ELSE Outcome(atomically_equal(left, right) = (operation = "="))
  ELSE InOrder(numeric_value(left), numeric_value(right), operation)

\* Every item of the one side with every item of the other, until one
\* comparison holds or cannot be made.
CompareAll(left, right, operation) ==
  LET outcomes == FlattenSeq([i \in DOMAIN left |->
                    [j \in DOMAIN right |-> compare(left[i], right[j], operation)]])
      decided == SelectSeq(outcomes, LAMBDA o : o # "fails")
  IN  IF decided = <<>> THEN Answer(boolean_item(FALSE))
      ELSE IF decided[1] = "holds" THEN Answer(boolean_item(TRUE))
      ELSE Fails(decided[1])

Calculated(x, y, operation) ==
  IF x = <<>> \/ y = <<>> THEN Fails("XPTY0004")
  ELSE CASE operation = "+" -> Answer(number_item(x[1] + y[1]))
         [] operation = "-" -> Answer(number_item(x[1] - y[1]))
         [] operation = "*" -> Answer(number_item((x[1] * y[1]) \div Unit))

Arithmetic(left, right, operation) ==
  Calculated(numeric_value(left), numeric_value(right), operation)

NumeralOrText(numeral, text) ==
  IF numeral.exists /\ numeral.whole THEN number_item(numeral.value)
  ELSE Of(<<"string", text>>)

LiteralItem(text) ==
  CASE text \in {<<"true">>, <<"false">>} -> boolean_item(text = <<"true">>)
    [] text = <<"null">> -> Of(<<"null">>)
    [] OTHER -> NumeralOrText(Numeral(text), text)

\* A list of values as an array; one that is not a single item is an array
\* of its own.
ValuesOf(items) == [i \in DOMAIN items |-> items[i].value]
Packed(items) ==
  IF Len(items) = 1 THEN items[1].value ELSE <<"array", ValuesOf(items)>>

SetField(fields, key, value) ==
  IF \E i \in DOMAIN fields : fields[i][1] = key
  THEN [i \in DOMAIN fields |-> IF fields[i][1] = key THEN <<key, value>> ELSE fields[i]]
  ELSE Append(fields, <<key, value>>)

\* A wrong position: counted from the items that have passed so far.
PositionAmongKept(index, kept) == Len(kept) + 1
PositionOf(index, kept) == index

RECURSIVE evaluate(_, _), FollowSteps(_, _, _, _), Filter(_, _, _, _, _),
          MapFrom(_, _, _)

\* The answers of several expressions, or the first error.
EvaluateAll(trees, context) ==
  FoldLeft(LAMBDA done, tree : Given(done, LAMBDA all :
             Given(evaluate(tree, context), LAMBDA items : Answer(Append(all, items)))),
           Answer(<<>>), trees)

\* static_cast<std::size_t> of a number: its fraction is dropped, so that 1.5
\* is the first position.  What it makes of a number of -1 or less is
\* undefined; a build makes it too large for a position.
IsPosition(n, position) == n \div Unit = position

Filter(input, index, filter, context, kept) ==
  IF index > Len(input) THEN Answer(kept)
  ELSE LET position == PositionOf(index, kept)
           condition == evaluate(filter, [context EXCEPT !.focus = <<input[index]>>,
                                    !.position = position, !.size = Len(input)])
           Keeps(items) ==
             IF Len(items) = 1 /\ KindOf(items[1]) = "number"
             THEN IsPosition(items[1].value[2], position)
             ELSE effective_boolean_value(items)
       IN  Given(condition, LAMBDA items :
             Filter(input, index + 1, filter, context,
                    IF Keeps(items) THEN Append(kept, input[index]) ELSE kept))

FollowSteps(steps, at, current, context) ==
  IF at > Len(steps) THEN Answer(current)
  ELSE Given(FoldLeft(LAMBDA answer, filter : Given(answer, LAMBDA items :
                        Filter(items, 1, filter, context, <<>>)),
                      Answer(TakeStep(current, steps[at])), steps[at].predicates),
             LAMBDA items : FollowSteps(steps, at + 1, items, context))

\* The second operand of a connective is evaluated only where it decides.
Connective(tree, left, context) ==
  IF effective_boolean_value(left) = (tree.text = <<"or">>)
  THEN Answer(boolean_item(tree.text = <<"or">>))
  ELSE Given(evaluate(tree.children[2], context), LAMBDA right :
         Answer(boolean_item(effective_boolean_value(right))))

Binary(tree, context) ==
  LET operation == Joined(tree.text)
      Combined(left, right) ==
        CASE operation = "|" -> Answer(left \o right)
          [] precedence(operation) = 3 -> CompareAll(left, right, operation)
          [] OTHER -> IF left = <<>> \/ right = <<>> THEN Answer(<<>>)
                      ELSE Arithmetic(left[1], right[1], operation)
  IN  Given(evaluate(tree.children[1], context), LAMBDA left :
        IF operation \in {"and", "or"} THEN Connective(tree, left, context)
        ELSE Given(evaluate(tree.children[2], context), LAMBDA right :
               Combined(left, right)))

\* Only the first argument is evaluated; a missing one is no query error.
Function(tree, context) ==
  LET f == Joined(tree.text)
      argument == IF tree.children = <<>> THEN Fails("out_of_range")
                  ELSE evaluate(tree.children[1], context)
      named == IF f = "name" /\ tree.children = <<>> THEN Answer(context.focus)
               ELSE argument
      Text(items) == CASE items = <<>> -> <<>>
                       [] items # <<>> /\ f = "name" -> items[1].name
                       [] OTHER -> string_value(items[1])
  IN  CASE f \in {"true", "false"} -> Answer(boolean_item(f = "true"))
        [] f = "position" -> Answer(number_item(Whole(context.position)))
        [] f = "last" -> Answer(number_item(Whole(context.size)))
        [] f \in {"count", "exists", "empty", "boolean", "not", "string", "name"} ->
             Given(named, LAMBDA items : Answer(
               CASE f = "count" -> number_item(Whole(Len(items)))
                 [] f = "exists" -> boolean_item(items # <<>>)
                 [] f = "empty" -> boolean_item(items = <<>>)
                 [] f = "boolean" -> boolean_item(effective_boolean_value(items))
                 [] f = "not" -> boolean_item(~effective_boolean_value(items))
                 [] OTHER -> Of(<<"string", Text(items)>>)))
        [] OTHER -> Fails("XPST0017")

\* The error of an entry whose key or value is not one item comes before any
\* of a later entry.
MapFrom(entries, fields, context) ==
  IF entries = <<>> THEN Answer(Of(<<"object", fields>>))
  ELSE Given(EvaluateAll(SubSeq(entries, 1, 2), context), LAMBDA pair :
         IF Len(pair[1]) # 1 \/ Len(pair[2]) # 1 THEN Fails("XPTY0004")
         ELSE MapFrom(SubSeq(entries, 3, Len(entries)),
                      SetField(fields, string_value(pair[1][1]), pair[2][1].value),
                      context))

evaluate(tree, context) ==
  CASE tree.kind = "Literal" -> Answer(LiteralItem(tree.text))
    [] tree.kind = "ContextItem" -> Answer(context.focus)
    [] tree.kind = "Root" -> Answer(context.root)
    [] tree.kind = "Path" ->
         FollowSteps(tree.steps, 1,
           IF tree.text = <<"absolute">> THEN context.root ELSE context.focus, context)
    [] tree.kind = "Unary" ->
         Given(evaluate(tree.children[1], context), LAMBDA items :
           CASE items = <<>> -> Answer(<<>>)
             [] OTHER -> Arithmetic(Of(<<"number", 0>>)[1], items[1], Joined(tree.text)))
    [] tree.kind = "Binary" -> Binary(tree, context)
    [] tree.kind = "Function" -> Function(tree, context)
    [] tree.kind = "ArrayConstructor" ->
         Given(EvaluateAll(tree.children, context), LAMBDA all :
           Answer(Of(<<"array", [i \in DOMAIN all |-> Packed(all[i])]>>)))
    [] tree.kind = "MapConstructor" -> MapFrom(tree.entries, <<>>, context)

-----------------------------------------------------------------------------
(* The plugin *)

Root(document) == <<Item(document, <<"root">>, FALSE)>>

EvaluateTree(tree, document) ==
  evaluate(tree, [root |-> Root(document), focus |-> Root(document),
                  position |-> 1, size |-> 1])

ErrorsOf(parse) == IF parse.ok THEN validate_tree(parse.tree) ELSE <<"XPST0003">>

validate_expression(source) == ErrorsOf(Parse(tokenize(source)))

Evaluated(parse, errors, document) ==
  IF errors # <<>> THEN Fails(errors[1])
  ELSE EvaluateTree(compile(parse.tree), document)

Prepared(parse, document) == Evaluated(parse, ErrorsOf(parse), document)

query(source, document) == Prepared(Parse(tokenize(source)), document)
=============================================================================
