------------------------------- MODULE Texts -------------------------------
(***************************************************************************)
(* Texts and files as sequences of symbols, and the parts of the formats   *)
(* that need no recursion over documents: the strings of JSON, and the     *)
(* heads of items of CBOR.                                                 *)
(*                                                                         *)
(* The symbols of a text are characters, words (runs of letters) and       *)
(* numerals.  A numeral is given in halves, so that an odd one has a       *)
(* fraction.  A file of bytes has bytes and item heads besides.            *)
(***************************************************************************)
EXTENDS Integers, Sequences, FiniteSets, SequencesExt

CONSTANTS
  Base,        \* values of a byte: 256 in the code
  Immediate    \* the largest number in the head of a CBOR item itself: 23 in the code

ASSUME BytesAssumption == Base \in Nat \ {0, 1} /\ Immediate \in Nat \ {0}

-----------------------------------------------------------------------------
(* Symbols, and what reading them gives *)

Char(c)    == <<"char", c>>
Letters(w) == <<"letters", w>>
Numeral(h) == <<"numeral", h>>
EndOfText  == <<"end">>

\* The symbols of texts.
Symbol == ({"char", "letters"} \X STRING) \cup ({"numeral"} \X Int)
Text   == Seq(Symbol)

Quote     == Char("\"")
Backslash == Char("\\")
Newline   == Char("newline")
Control   == Char("control")
Space     == Char(" ")

SymbolAt(text, at) == IF at \in DOMAIN text THEN text[at] ELSE EndOfText

Accepted(value, next) == [ok |-> TRUE, value |-> value, next |-> next]
Refused == [ok |-> FALSE]

-----------------------------------------------------------------------------
(* The strings of JSON *)

\* Other control characters are not escaped.
Escape(c) ==
  IF c \in {Quote, Backslash} THEN <<Backslash, c>>
  ELSE IF c = Newline THEN <<Backslash, Char("n")>> ELSE <<c>>

emit_json_string(text) ==
  <<Quote>> \o FlattenSeq([i \in DOMAIN text |-> Escape(text[i])]) \o <<Quote>>

\* The escapes by number, which no dump writes, are left out.
JsonEscapes ==
  [c \in {Quote, Backslash, Char("/"), Char("n"), Char("b")} |->
     CASE c = Char("n") -> Newline [] c = Char("b") -> Control [] OTHER -> c]

\* Puts a symbol before what is read after it.
Prepended(c, rest) ==
  IF rest.ok THEN Accepted(<<c>> \o rest.value, rest.next) ELSE Refused

\* What is read from a place on, given what is read from the places after it.
ReadAt(text, read, at) ==
  LET c == SymbolAt(text, at)
      escaped == SymbolAt(text, at + 1)
  IN  CASE c = Quote -> Accepted(<<>>, at + 1)
        [] c = Backslash /\ escaped \in DOMAIN JsonEscapes ->
             Prepended(JsonEscapes[escaped], read[at + 2])
        [] c \notin {Quote, Backslash, Newline, Control, EndOfText} ->
             Prepended(c, read[at + 1])
        [] OTHER -> Refused

\* The rest of a string from a place on, and where its quote ends.
parse_json_string(text, start) ==
  LET read[at \in 1 .. Len(text) + 2] == ReadAt(text, read, at)
  IN  read[start]

-----------------------------------------------------------------------------
(* The heads of CBOR.  A file is a sequence of bytes, among them the heads *)
(* of items, which have a major type and a number.  A symbol of a string   *)
(* is a byte.                                                              *)

Byte(b)         == <<"byte", b>>
ItemHead(m, ai) == <<"head", m, ai>>

MajorOf == [unsigned |-> 0, negative |-> 1, binary |-> 2, string |-> 3,
            array |-> 4, object |-> 5, simple |-> 7]

\* The numbers that say that so many bytes follow.
Wide == [n \in {1, 2, 4, 8} |->
           Immediate + CASE n = 1 -> 1 [] n = 2 -> 2 [] n = 4 -> 3 [] n = 8 -> 4]

\* The powers of the base.
Power[k \in 0 .. 8] == IF k = 0 THEN 1 ELSE Base * Power[k - 1]

\* n in so many bytes, the highest first.
BytesOf(n, width) ==
  [i \in 1 .. width |-> Byte((n \div Power[width - i]) % Base)]

\* Wrong variant: a number is written in one byte too few.
NarrowWidth(n) == CHOOSE w \in DOMAIN Wide :
                    n <= Power[w] /\ \A u \in DOMAIN Wide : n <= Power[u] => w <= u

WidthFor(n) == CHOOSE w \in DOMAIN Wide :
                 n < Power[w] /\ \A u \in DOMAIN Wide : n < Power[u] => w <= u

cbor_emit_len(major, n) ==
  IF n <= Immediate THEN <<ItemHead(major, n)>>
  ELSE <<ItemHead(major, Wide[WidthFor(n)])>> \o BytesOf(n, WidthFor(n))

NumberOf(bytes) ==
  LET n[i \in 0 .. Len(bytes)] == IF i = 0 THEN 0 ELSE n[i - 1] * Base + bytes[i][2]
  IN  n[Len(bytes)]

\* The number of a head, and where its bytes end.
read_len(bytes, at) ==
  LET ai == bytes[at][3]
      w  == CHOOSE n \in DOMAIN Wide : Wide[n] = ai
  IN  IF ai <= Immediate THEN Accepted(ai, at + 1)
      ELSE IF ai \notin Range(Wide) \/ at + w > Len(bytes) THEN Refused
      ELSE Accepted(NumberOf(SubSeq(bytes, at + 1, at + w)), at + w + 1)
=============================================================================
