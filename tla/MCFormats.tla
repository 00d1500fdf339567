------------------------------ MODULE MCFormats ------------------------------
(***************************************************************************)
(* Documents, schemas and packages for the formats, and what is promised   *)
(* of what was written and is read back.  Documents and schemas are inputs *)
(* beside those of Operators.                                              *)
(***************************************************************************)
EXTENDS Operators, Formats, Validation

-----------------------------------------------------------------------------
(* Documents *)

A == Letters("a")
B == Letters("b")

Strings == {<<>>, <<A>>, <<Quote, A>>, <<Backslash>>, <<A, Newline>>, <<Control>>, <<Space, Numeral(2)>>}

\* Numbers at the edges of the widths of CBOR and of the signed integers.
Numbers == {Signed(n) : n \in {-IntMax - 1, -10, -2, 0, 1, Base, IntMax}}
           \cup {Unsigned(n) : n \in {1, 2, Base ^ 2, IntMax + 1, Base ^ 8 - 1}}
           \cup {Double(h) : h \in {-3, 4, 5}}

Scalars == {Null, Bool(TRUE), Bool(FALSE), Binary(<<>>), Binary(<<A, Byte(1)>>)}
           \cup Numbers \cup {Str(text) : text \in Strings}

Some == {Null, Signed(-2), Unsigned(2), Double(4), Str(<<A>>), Str(<<Quote, A>>)}

Small == {Array(<<>>), Object(NoFields), Array(<<Signed(1), Str(<<B>>)>>),
          Object(<<A>> :> Unsigned(1)), Object(<<Control>> :> Null)}

Documents ==
  LET Leaves == Scalars \cup Small
  IN  Leaves \cup {Array(<<v>>) : v \in Leaves}
             \cup {Array(<<v, w, Null>>) : v, w \in Some \cup Small}
             \cup {Object(<<A>> :> v) : v \in Leaves}
             \cup {Object((<<A>> :> v) @@ (<<B>> :> w)) : v, w \in Some \cup Small}
             \cup {Object((<<>> :> v) @@ (<<Quote>> :> w)) : v, w \in Some}

\* Those a schema is tried on.
Judged ==
  Some \cup Small \cup {Array(<<v, w>>) : v, w \in Some \ {Null}}
       \cup {Object(<<A>> :> v) : v \in Some}
       \cup {Object((<<A>> :> Signed(1)) @@ (<<B>> :> v)) : v \in Some}
       \cup {Array(<<Array(<<Signed(-2)>>)>>), Str(<<A, B, A>>), Double(-3)}

PickDocument ==
  /\ input.about = "nothing"
  /\ \E root \in Documents : input' = [about |-> "document", root |-> root]

-----------------------------------------------------------------------------
(* Schemas *)

Says(name, v) == Key(name) :> v
Types == {Key("integer"), Key("number"), Key("string"), Key("array"), Key("null")}

Plain == {NoFields} \cup {Says("type", Str(t)) : t \in Types}
         \cup {Says(name, limit) : name \in {"minimum", "maximum"},
                                   limit \in {Signed(-2), Unsigned(2), Double(5)}}
         \cup {Says(name, limit) : name \in {"minItems", "maxItems", "minLength", "maxLength"},
                                   limit \in {Signed(-1), Signed(1), Unsigned(2), Null}}
         \cup {Says("uniqueItems", Bool(TRUE)), Says("type", Array(<<Null, Str(Key("null"))>>)),
               Says("const", Unsigned(1)), Says("enum", Array(<<Signed(-2), Signed(1), Str(<<A>>)>>))}

Schemas ==
  Plain \cup {Says("items", Object(s)) : s \in Plain}
        \cup {Says("properties", Object(<<A>> :> Object(s))) @@ extra :
                s \in Plain, extra \in {NoFields, Says("additionalProperties", Bool(FALSE))}}
        \cup {Says("allOf", Array(<<Object(s), Object(Says("type", Str(Key("integer"))))>>)) : s \in Plain}
        \cup {Says("items", Array(<<Object(s)>>)) @@ Says("maxItems", Unsigned(1)) : s \in Plain}
        \cup {Says("required", Array(<<Str(<<A>>), r>>)) : r \in {Str(<<B>>), Null}}

PickSchema ==
  /\ input.about = "nothing"
  /\ \E schema \in Schemas : input' = [about |-> "schema", schema |-> Object(schema)]

-----------------------------------------------------------------------------
(* Packages *)

\* Texts that make a second = or a second line, the latter with a key that
\* the package itself writes.
SingleLine == {<<>>, <<A>>, <<A, Equal, B>>}
Forged == {<<A, Newline>> \o Line(key, <<B>>) : key \in {FormatKey, IdentifierKey}}

MultiLine == <<A, Newline, B>>

SomeContents ==
  [format : FormatNames, root : {Null, Double(4), Array(<<Signed(-2)>>), Binary(<<Marker>>)},
   schema : {<<>>} \cup {<<source>> : source \in
     [identifier : SingleLine \cup {MultiLine}, language : {<<>>, <<B>>}, content : {<<>>, <<A, Newline>>}]},
   metadata : {(key :> text) @@ (<<B>> :> <<B>>) :
                 key \in {<<A>>, <<>>, <<A, Equal>>, MultiLine}, text \in SingleLine \cup Forged}]

-----------------------------------------------------------------------------
(* What is kept *)

\* The words of the formats, each of several letters.
FormatWords == {Letters(w) : w \in {"null", "true", "false", "nil", "<binary>"}} \cup {Marker}

\* No numeral has more digits.
MaxDigits == 4

\* What a numeral, given in halves, may be cut to: its sign, some of its first
\* digits, and for one with a fraction its whole part or that and the point.
\* (None is between -1 and 0, whose whole part is a minus and a zero.)
NumeralBeginnings(h) ==
  LET sign  == IF h < 0 THEN -1 ELSE 1
      whole == (sign * h) \div 2
      shorter == {whole \div 10 ^ k : k \in 1 .. MaxDigits} \ {0}
  IN  {Numeral(2 * sign * n) : n \in shorter}
      \cup (IF h % 2 = 1 THEN {Numeral(2 * sign * whole), Pointed(sign * whole)} ELSE {})
      \cup (IF h < 0 THEN {Minus} ELSE {})

Beginnings(c) ==
  CASE c \in FormatWords -> {BeginningOf(c[2])}
    [] c[1] = "numeral"  -> NumeralBeginnings(c[2])
    [] OTHER -> {}

\* A file that ends before or inside a symbol.
CutOff(text) ==
  LET Before(n) == SubSeq(text, 1, n - 1)
  IN  {Before(n) : n \in DOMAIN text}
      \cup UNION {{Append(Before(n), c) : c \in Beginnings(text[n])} : n \in DOMAIN text}

RECURSIVE HasControl(_)
HasControl(v) ==
  CASE Is(v, "string") -> Control \in Range(v[2])
    [] Is(v, "array")  -> \E i \in DOMAIN v[2] : HasControl(v[2][i])
    [] Is(v, "object") -> \E key \in DOMAIN v[2] : Control \in Range(key) \/ HasControl(v[2][key])
    [] OTHER -> FALSE

\* A number that is not negative is read back as unsigned, and a whole double
\* as an integer when it is written in digits.
RECURSIVE Kept(_, _)
Kept(v, digits) ==
  CASE Is(v, "int") -> IF v[2] >= 0 THEN Unsigned(v[2]) ELSE v
    [] Is(v, "double") -> IF digits /\ v[2] % 2 = 0 THEN Kept(Signed(v[2] \div 2), digits) ELSE v
    [] Is(v, "array")  -> Array([i \in DOMAIN v[2] |-> Kept(v[2][i], digits)])
    [] Is(v, "object") -> Object([key \in DOMAIN v[2] |-> Kept(v[2][key], digits)])
    [] OTHER -> v

\* An object becomes the list of its fields, and null a word.
RECURSIVE Listed(_)
Listed(v) ==
  CASE Is(v, "null")   -> Str(<<Letters("nil")>>)
    [] Is(v, "binary") -> Str(<<Letters("<binary>")>>)
    [] Is(v, "double") -> IF v[2] % 2 = 0 THEN Signed(v[2] \div 2) ELSE v
    [] IsWhole(v) -> IF v[2] > IntMax THEN Double(2 * v[2]) ELSE Signed(v[2])
    [] Is(v, "array")  -> Array([i \in DOMAIN v[2] |-> Listed(v[2][i])])
    [] Is(v, "object") ->
         LET keys == Keys(v[2])
         IN  Array([i \in DOMAIN keys |-> Array(<<Str(keys[i]), Listed(v[2][keys[i]])>>)])
    [] OTHER -> v

RECURSIVE IsBare(_)
IsBare(v) ==
  CASE Is(v, "string") -> Range(v[2]) \cap {Quote, Backslash} = {}
    [] Is(v, "array")  -> \A i \in DOMAIN v[2] : IsBare(v[2][i])
    [] Is(v, "object") -> \A key \in DOMAIN v[2] :
                            Len(key) = 1 /\ key # <<Quote>> /\ IsBare(v[2][key])
    [] OTHER -> TRUE

\* What JSON writes it reads back as the same document, up to the kinds of
\* numbers, unless a string holds a control character other than a line's end
\* or tab: those are written as they are, and then refused.
JsonKeeps(v) ==
  LET written == dump_json(v)
      loaded  == load_json(written.text)
  IN  written.ok => IF HasControl(v) THEN ~loaded.ok
                    ELSE loaded.ok /\ loaded.value = Kept(v, TRUE)

\* S-expressions keep the lists a document amounts to, when no string has a
\* quote or backslash, which are written as they are, and every key is a word.
SexprKeeps(v) ==
  LET loaded == load_sexpr(dump_sexpr(v).text)
  IN  IsBare(v) => loaded.ok /\ loaded.value = Listed(v)

\* CBOR keeps every document, at every width a number or length can take.
CborKeeps(v) ==
  LET loaded == load_cbor(dump_cbor(v).text)
  IN  loaded.ok /\ loaded.value = Kept(v, FALSE)

\* What the files that were cut off load as, those that are not refused.
CutOffValues(format, v) ==
  LET written == serialize(format, v)
      loaded  == {deserialize(format, part) :
                    part \in IF written.ok THEN CutOff(written.text) ELSE {}}
  IN  {l.value : l \in {k \in loaded : k.ok}}

\* Nothing closes the text of a number or word, so one cut off may be that of
\* another: 4.5 ends in 4, and nil in ni.
IsAtom(v) == KindOf(v) \notin {"string", "array", "object"}

\* Loading what was dumped gives the document back, up to what its format
\* cannot tell apart.  A file that was cut off, be it inside a word, numeral,
\* escape or length, is refused, but for two kinds of documents: in JSON a
\* lone number may load as another number, and in an S-expression a lone atom
\* without quotes as any other.
FormatsKeepDocuments ==
  input.about = "document" =>
    LET v == input.root
    IN  /\ JsonKeeps(v) /\ SexprKeeps(v) /\ CborKeeps(v)
        /\ CutOffValues("CBOR", v) = {}
        /\ \A w \in CutOffValues("JSON", v) : IsNumber(v) /\ IsNumber(w)
        /\ IsBare(v) /\ ~IsAtom(v) => CutOffValues("S-Expr", v) = {}

RECURSIVE HasWholeDouble(_), TellsKindsApart(_)
HasWholeDouble(v) ==
  CASE Is(v, "double") -> v[2] % 2 = 0
    [] Is(v, "array")  -> \E i \in DOMAIN v[2] : HasWholeDouble(v[2][i])
    [] Is(v, "object") -> \E key \in DOMAIN v[2] : HasWholeDouble(v[2][key])
    [] OTHER -> FALSE

TellsKindsApart(schema) ==
  CASE Is(schema, "object") ->
         \/ DOMAIN schema[2] \cap {Key("const"), Key("enum")} # {}
         \/ \E key \in DOMAIN schema[2] : TellsKindsApart(schema[2][key])
    [] Is(schema, "array") -> \E i \in DOMAIN schema[2] : TellsKindsApart(schema[2][i])
    [] OTHER -> FALSE

\* Writing a schema and a document to a format and reading them back changes
\* no verdict on the document, but for whole doubles, which JSON turns into
\* integers, and for const and enum, which tell the kinds of numbers apart:
\* those can only make an invalid document valid.  (No limit in these schemas
\* is a whole double: minItems ignores one until it was read back.)
StorageKeepsVerdict ==
  input.about = "schema" =>
    \A format \in {"JSON", "CBOR"}, root \in Judged :
      LET stored == Reload(format, root)
          before == validate(input.schema, root)
          after  == validate(Reload(format, input.schema).value, stored.value)
      IN  stored.ok =>
            \/ after = before
            \/ /\ before = "invalid" /\ after = "valid"
               /\ (format = "JSON" /\ HasWholeDouble(root)) \/ TellsKindsApart(input.schema)
=============================================================================
