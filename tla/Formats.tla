------------------------------ MODULE Formats ------------------------------
(***************************************************************************)
(* Documents of SerdeTk and what its formats make of them: the dumpers and *)
(* loaders of JSON, S-expressions and CBOR, and the carriers called        *)
(* MessagePack and BSON.                                                   *)
(*                                                                         *)
(* A string is a text.  Layout that a loader skips is left out.  A double  *)
(* is given in halves, like a numeral; doubles are below a million and     *)
(* have the six digits an ostream writes.                                  *)
(*                                                                         *)
(* Words and numerals are single symbols.  What is left of one when a file *)
(* ends inside it is a symbol too: the beginning of a word, a lone sign,   *)
(* a numeral up to its point, or a shorter numeral.                        *)
(***************************************************************************)
EXTENDS Texts, TLC

IntMax == (Base ^ 8) \div 2 - 1

\* A beginning of a word that is not all of it, and is itself no word.
BeginningOf(word) == <<"beginning", word>>

\* The numeral n with a point and nothing behind it.
Pointed(n) == <<"pointed", n>>

Minus == Char("-")

-----------------------------------------------------------------------------
(* Values *)

Null        == <<"null">>
Bool(b)     == <<"bool", b>>
Signed(n)      == <<"int", n>>
Unsigned(n)     == <<"uint", n>>
Double(h)   == <<"double", h>>
Str(text)   == <<"string", text>>
Binary(b)   == <<"binary", b>>
Array(s)    == <<"array", s>>
Object(f)   == <<"object", f>>

KindOf(v) == v[1]
Is(v, kind) == v[1] = kind

\* The keys of an object, in the order a std::map has: any fixed one.
Keys(fields) == SetToSeq(DOMAIN fields)

Put(fields, key, value) == (key :> value) @@ fields

NoFields == [key \in {} |-> Null]

-----------------------------------------------------------------------------
(* Reading and writing *)

\* All of the text has to be read.
Whole(read, text) == IF read.ok /\ read.next = Len(text) + 1 THEN read ELSE Refused

\* The text of a null, a bool or a number; null is named differently.
ScalarText(v, null) ==
  CASE KindOf(v) = "null"            -> null
    [] KindOf(v) = "bool"            -> Letters(IF v[2] THEN "true" ELSE "false")
    [] KindOf(v) \in {"int", "uint"} -> Numeral(2 * v[2])
    [] KindOf(v) = "double"          -> Numeral(v[2])

Between(parts, separator) ==
  FlattenSeq([i \in DOMAIN parts |->
                IF i = 1 THEN parts[i] ELSE <<separator>> \o parts[i]])

RECURSIVE HasBinary(_)
HasBinary(v) ==
  CASE KindOf(v) = "binary" -> TRUE
    [] KindOf(v) = "array"  -> \E i \in DOMAIN v[2] : HasBinary(v[2][i])
    [] KindOf(v) = "object" -> \E key \in DOMAIN v[2] : HasBinary(v[2][key])
    [] OTHER -> FALSE

-----------------------------------------------------------------------------
(* JSON *)

RECURSIVE emit_json_value(_)
emit_json_value(v) ==
  CASE Is(v, "string") -> emit_json_string(v[2])
    [] Is(v, "array") ->
         <<Char("[")>>
           \o Between([i \in DOMAIN v[2] |-> emit_json_value(v[2][i])], Char(","))
           \o <<Char("]")>>
    [] Is(v, "object") ->
         LET keys == Keys(v[2])
             Field(key) == emit_json_string(key) \o <<Char(":")>> \o emit_json_value(v[2][key])
         IN  <<Char("{")>>
               \o Between([i \in DOMAIN keys |-> Field(keys[i])], Char(","))
               \o <<Char("}")>>
    [] OTHER -> <<ScalarText(v, Letters("null"))>>

dump_json(v) ==
  IF HasBinary(v) THEN Refused ELSE [ok |-> TRUE, text |-> emit_json_value(v)]

\* Longer numerals are refused, unless they are read as doubles.
Fits(h) == h % 2 = 1 \/ h \div 2 \in -IntMax - 1 .. Base ^ 8 - 1

parse_json_number(h) ==
  IF h % 2 = 1 THEN Double(h)
  ELSE IF h < 0 THEN Signed(h \div 2) ELSE Unsigned(h \div 2)

\* A numeral that ends in its sign or its point is refused, and so is the
\* beginning of a word; one that ends after a digit is a number.
RECURSIVE parse_json_value(_, _), JsonItems(_, _, _), JsonFields(_, _, _)
parse_json_value(text, at) ==
  LET c == SymbolAt(text, at)
      string == parse_json_string(text, at + 1)
  IN  CASE c = Letters("null")  -> Accepted(Null, at + 1)
        [] c = Letters("true")  -> Accepted(Bool(TRUE), at + 1)
        [] c = Letters("false") -> Accepted(Bool(FALSE), at + 1)
        [] c[1] = "numeral"  ->
             IF Fits(c[2]) THEN Accepted(parse_json_number(c[2]), at + 1) ELSE Refused
        [] c = Quote ->
             IF string.ok THEN Accepted(Str(string.value), string.next) ELSE Refused
        [] c = Char("[") ->
             IF SymbolAt(text, at + 1) = Char("]")
             THEN Accepted(Array(<<>>), at + 2) ELSE JsonItems(text, at + 1, <<>>)
        [] c = Char("{") ->
             IF SymbolAt(text, at + 1) = Char("}")
             THEN Accepted(Object(NoFields), at + 2) ELSE JsonFields(text, at + 1, NoFields)
        [] OTHER -> Refused

JsonItems(text, at, items) ==
  LET item == parse_json_value(text, at)
      more == Append(items, item.value)
  IN  CASE ~item.ok -> Refused
        [] SymbolAt(text, item.next) = Char("]") -> Accepted(Array(more), item.next + 1)
        [] SymbolAt(text, item.next) = Char(",") -> JsonItems(text, item.next + 1, more)
        [] OTHER -> Refused

\* Behind a comma the key is looked for without asking whether the text has
\* ended.  Whatever byte is there, the text is refused: parse_string asks.
JsonFields(text, at, fields) ==
  LET key  == parse_json_string(text, at + 1)
      item == parse_json_value(text, key.next + 1)
      more == Put(fields, key.value, item.value)
  IN  CASE SymbolAt(text, at) # Quote -> Refused
        [] ~key.ok -> Refused
        [] SymbolAt(text, key.next) # Char(":") -> Refused
        [] ~item.ok -> Refused
        [] SymbolAt(text, item.next) = Char("}") -> Accepted(Object(more), item.next + 1)
        [] SymbolAt(text, item.next) = Char(",") -> JsonFields(text, item.next + 1, more)
        [] OTHER -> Refused

load_json(text) == Whole(parse_json_value(text, 1), text)

-----------------------------------------------------------------------------
(* S-expressions *)

\* Strings are written without escapes, keys without quotes.
RECURSIVE emit_sexpr_value(_)
emit_sexpr_value(v) ==
  LET List(parts) == <<Char("(")>> \o Between(parts, Space) \o <<Char(")")>>
  IN  CASE Is(v, "array") -> List([i \in DOMAIN v[2] |-> emit_sexpr_value(v[2][i])])
        [] Is(v, "object") ->
             LET keys == Keys(v[2])
             IN  List([i \in DOMAIN keys |-> List(<<keys[i], emit_sexpr_value(v[2][keys[i]])>>)])
        [] Is(v, "string") -> <<Quote>> \o v[2] \o <<Quote>>
        [] Is(v, "binary") -> <<Letters("<binary>")>>
        [] OTHER -> <<ScalarText(v, Letters("nil"))>>

dump_sexpr(v) == [ok |-> TRUE, text |-> emit_sexpr_value(v)]

\* A numeral too large for a signed integer is read as a double, and one
\* that ends in its point too.  A lone sign and the beginning of a word are
\* words.
parse_scalar_token(token) ==
  CASE token \in {<<Letters("null")>>, <<Char("~")>>} -> Null
    [] token = <<Letters("true")>>  -> Bool(TRUE)
    [] token = <<Letters("false")>> -> Bool(FALSE)
    [] Len(token) = 1 /\ token[1][1] = "numeral" ->
         IF token[1][2] % 2 = 1 \/ token[1][2] \div 2 > IntMax
         THEN Double(token[1][2]) ELSE Signed(token[1][2] \div 2)
    [] Len(token) = 1 /\ token[1][1] = "pointed" -> Double(2 * token[1][2])
    [] OTHER -> Str(token)

\* The escapes but for the slash.
SexprEscapes == DOMAIN JsonEscapes \ {Char("/")}

RECURSIVE parse_sexpr_string(_, _, _)
parse_sexpr_string(text, at, done) ==
  LET c == SymbolAt(text, at)
      escaped == SymbolAt(text, at + 1)
  IN  CASE c = Quote -> Accepted(Str(done), at + 1)
        [] c = Backslash ->
             IF escaped \in SexprEscapes
             THEN parse_sexpr_string(text, at + 2, Append(done, JsonEscapes[escaped]))
             ELSE Refused
        [] c = EndOfText -> Refused
        [] OTHER -> parse_sexpr_string(text, at + 1, Append(done, c))

Spaces == {Space, Newline}

RECURSIVE SkipSpaces(_, _), SkipComment(_, _), AtomEnd(_, _)
SkipSpaces(text, at) ==
  IF SymbolAt(text, at) \in Spaces THEN SkipSpaces(text, at + 1)
  ELSE IF SymbolAt(text, at) = Char(";") THEN SkipComment(text, at) ELSE at
SkipComment(text, at) ==
  IF SymbolAt(text, at) \in {Newline, EndOfText}
  THEN SkipSpaces(text, at) ELSE SkipComment(text, at + 1)
AtomEnd(text, at) ==
  IF SymbolAt(text, at) \in Spaces \cup {Char("("), Char(")"), Char(";"), EndOfText}
  THEN at ELSE AtomEnd(text, at + 1)

RECURSIVE parse_sexpr_value(_, _), SexprItems(_, _, _)
parse_sexpr_value(text, before) ==
  LET at == SkipSpaces(text, before)
      c  == SymbolAt(text, at)
  IN  CASE c = Char("(") -> SexprItems(text, SkipSpaces(text, at + 1), <<>>)
        [] c = Quote     -> parse_sexpr_string(text, at + 1, <<>>)
        [] c \in {EndOfText, Char(")")} -> Refused
        [] OTHER -> Accepted(parse_scalar_token(SubSeq(text, at, AtomEnd(text, at) - 1)),
                             AtomEnd(text, at))

SexprItems(text, at, items) ==
  LET item == parse_sexpr_value(text, at)
  IN  CASE SymbolAt(text, at) = Char(")") -> Accepted(Array(items), at + 1)
        [] SymbolAt(text, at) = EndOfText \/ ~item.ok -> Refused
        [] OTHER -> SexprItems(text, SkipSpaces(text, item.next), Append(items, item.value))

\* A text of several values is the array of them.
RECURSIVE SexprRoot(_, _, _)
SexprRoot(text, at, items) ==
  LET item == parse_sexpr_value(text, at)
  IN  CASE at > Len(text) ->
             IF items = <<>> THEN Refused
             ELSE Accepted(IF Len(items) = 1 THEN items[1] ELSE Array(items), at)
        [] at <= Len(text) /\ ~item.ok -> Refused
        [] OTHER -> SexprRoot(text, SkipSpaces(text, item.next), Append(items, item.value))

load_sexpr(text) == SexprRoot(text, SkipSpaces(text, 1), <<>>)

-----------------------------------------------------------------------------
(* CBOR *)

\* The simple values are the numbers of their heads, past those of lengths.
FalseAt == Immediate - 3
TrueAt  == Immediate - 2
NullAt  == Immediate - 1

\* A double is its bits, of which only the number of bytes matters.
Bits(h, width) == [i \in 1 .. width |-> <<"bits", h>>]

RECURSIVE cbor_emit_value(_)
cbor_emit_value(v) ==
  LET Blob(major, bytes) == cbor_emit_len(major, Len(bytes)) \o bytes
  IN  CASE Is(v, "null")   -> <<ItemHead(MajorOf.simple, NullAt)>>
        [] Is(v, "bool")   -> <<ItemHead(MajorOf.simple, IF v[2] THEN TrueAt ELSE FalseAt)>>
        [] KindOf(v) \in {"int", "uint"} /\ v[2] >= 0 -> cbor_emit_len(MajorOf.unsigned, v[2])
        [] Is(v, "int") /\ v[2] < 0 -> cbor_emit_len(MajorOf.negative, -1 - v[2])
        [] Is(v, "double") -> <<ItemHead(MajorOf.simple, Wide[8])>> \o Bits(v[2], 8)
        [] Is(v, "string") -> Blob(MajorOf.string, v[2])
        [] Is(v, "binary") -> Blob(MajorOf.binary, v[2])
        [] Is(v, "array")  ->
             cbor_emit_len(MajorOf.array, Len(v[2]))
               \o FlattenSeq([i \in DOMAIN v[2] |-> cbor_emit_value(v[2][i])])
        [] Is(v, "object") ->
             LET keys == Keys(v[2])
             IN  cbor_emit_len(MajorOf.object, Len(keys))
                   \o FlattenSeq([i \in DOMAIN keys |->
                        Blob(MajorOf.string, keys[i]) \o cbor_emit_value(v[2][keys[i]])])

parse_simple(bytes, at) ==
  LET ai == bytes[at][3]
      Float(w) == IF at + w > Len(bytes) THEN Refused
                  ELSE Accepted(Double(bytes[at + 1][2]), at + w + 1)
  IN  CASE ai = FalseAt -> Accepted(Bool(FALSE), at + 1)
        [] ai = TrueAt  -> Accepted(Bool(TRUE), at + 1)
        [] ai = NullAt  -> Accepted(Null, at + 1)
        [] ai \in {Wide[4], Wide[8]} -> Float(IF ai = Wide[4] THEN 4 ELSE 8)
        [] OTHER -> Refused

Bytes(bytes, at, size, kind) ==
  IF at + size - 1 > Len(bytes) THEN Refused
  ELSE Accepted(<<kind, SubSeq(bytes, at, at + size - 1)>>, at + size)

RECURSIVE parse_cbor_value(_, _), CborItems(_, _, _, _), CborFields(_, _, _, _)
parse_cbor_value(bytes, at) ==
  LET major == bytes[at][2]
      n     == read_len(bytes, at)
  IN  CASE at > Len(bytes) -> Refused
        [] at <= Len(bytes) /\ major = MajorOf.simple -> parse_simple(bytes, at)
        [] at <= Len(bytes) /\ major # MajorOf.simple ->
             IF ~n.ok THEN Refused
             ELSE CASE major = MajorOf.unsigned -> Accepted(Unsigned(n.value), n.next)
                    [] major = MajorOf.negative ->
                         IF n.value > IntMax THEN Refused ELSE Accepted(Signed(-1 - n.value), n.next)
                    [] major = MajorOf.binary -> Bytes(bytes, n.next, n.value, "binary")
                    [] major = MajorOf.string -> Bytes(bytes, n.next, n.value, "string")
                    [] major = MajorOf.array  -> CborItems(bytes, n.next, n.value, <<>>)
                    [] major = MajorOf.object -> CborFields(bytes, n.next, n.value, NoFields)

CborItems(bytes, at, left, items) ==
  LET item == parse_cbor_value(bytes, at)
  IN  IF left = 0 THEN Accepted(Array(items), at)
      ELSE IF item.ok THEN CborItems(bytes, item.next, left - 1, Append(items, item.value))
      ELSE Refused

CborFields(bytes, at, left, fields) ==
  LET key  == parse_cbor_value(bytes, at)
      item == parse_cbor_value(bytes, key.next)
  IN  IF left = 0 THEN Accepted(Object(fields), at)
      ELSE IF key.ok /\ Is(key.value, "string") /\ item.ok
      THEN CborFields(bytes, item.next, left - 1, Put(fields, key.value[2], item.value))
      ELSE Refused

dump_cbor(v) == [ok |-> TRUE, text |-> cbor_emit_value(v)]
load_cbor(bytes) == Whole(parse_cbor_value(bytes, 1), bytes)

-----------------------------------------------------------------------------
(* MessagePack and BSON carry a text of JSON behind a marker, or bytes.    *)

Marker == Letters("STKJ")

dump_carrier(v) ==
  LET json == dump_json(v)
  IN  IF Is(v, "binary") THEN [ok |-> TRUE, text |-> v[2]]
      ELSE IF json.ok THEN [ok |-> TRUE, text |-> <<Marker>> \o json.text] ELSE Refused

load_carrier(bytes) ==
  IF SymbolAt(bytes, 1) = Marker THEN load_json(Tail(bytes))
  ELSE Accepted(Binary(bytes), Len(bytes) + 1)

-----------------------------------------------------------------------------
(* The formats by name, as the registry has them.  Its YAML and XML are    *)
(* left out.                                                               *)

FormatNames == {"JSON", "S-Expr", "CBOR", "MessagePack", "BSON"}

serialize(format, v) ==
  CASE format = "JSON"   -> dump_json(v)
    [] format = "S-Expr" -> dump_sexpr(v)
    [] format = "CBOR"   -> dump_cbor(v)
    [] format \in {"MessagePack", "BSON"} -> dump_carrier(v)

deserialize(format, text) ==
  CASE format = "JSON"   -> load_json(text)
    [] format = "S-Expr" -> load_sexpr(text)
    [] format = "CBOR"   -> load_cbor(text)
    [] format \in {"MessagePack", "BSON"} -> load_carrier(text)

\* What is read back of a document that was written.
Reload(format, v) ==
  LET written == serialize(format, v)
  IN  IF written.ok THEN deserialize(format, written.text) ELSE Refused
=============================================================================
