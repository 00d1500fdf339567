------------------------------ MODULE Packages ------------------------------
(***************************************************************************)
(* Packages of SerdeTk: an archive with a document, a text of metadata and *)
(* the source of the document's schema, if it has one.  The archive is the *)
(* record of its entries.                                                  *)
(*                                                                         *)
(* Contents are [format, root, schema, metadata]: a format's name, a       *)
(* document, <<>> or <<a schema>>, and the texts of the metadata by their  *)
(* keys, which are texts too.  What the formats make of documents is a     *)
(* parameter.                                                              *)
(***************************************************************************)
EXTENDS Texts

CONSTANTS
  Registered,           \* the names of the formats in the registry
  Serialize(_, _),      \* what a format writes of a document, if it writes it
  Deserialize(_, _)     \* what a format reads of a text, if it reads it

SchemaSource == [identifier : Text, language : Text, content : Text]

IsContents(contents) ==
  /\ contents.format \in Registered
  /\ contents.schema \in Seq(SchemaSource) /\ Len(contents.schema) <= 1
  /\ contents.metadata \in [DOMAIN contents.metadata -> Text]
  /\ DOMAIN contents.metadata \subseteq Text /\ IsFiniteSet(DOMAIN contents.metadata)

Equal == Char("=")

Line(key, text) == key \o <<Equal>> \o text \o <<Newline>>

FormatKey     == <<Letters("format")>>
IdentifierKey == <<Letters("schema.identifier")>>
LanguageKey   == <<Letters("schema.language")>>
MetaPrefix    == Letters("meta.")

metadata_text(contents) ==
  LET keys == SetToSeq(DOMAIN contents.metadata)
  IN  Line(FormatKey, <<Letters(contents.format)>>)
        \o (IF contents.schema = <<>> THEN <<>>
            ELSE Line(IdentifierKey, contents.schema[1].identifier)
                   \o Line(LanguageKey, contents.schema[1].language))
        \o FlattenSeq([i \in DOMAIN keys |->
                         Line(<<MetaPrefix>> \o keys[i], contents.metadata[keys[i]])])

\* Where the line with a symbol begins, and where it ends.
LineStart(text, at) ==
  CHOOSE i \in 1 .. at : /\ i = 1 \/ text[i - 1] = Newline
                         /\ \A j \in i .. at - 1 : text[j] # Newline
LineEnd(text, at) ==
  CHOOSE i \in at .. Len(text) : text[i] = Newline /\ \A j \in at .. i - 1 : text[j] # Newline

\* The first = of each line; every line of a metadata text is ended.
Equals(text) ==
  {at \in DOMAIN text :
     text[at] = Equal /\ \A i \in LineStart(text, at) .. at - 1 : text[i] # Equal}

KeyAt(text, at) == SubSeq(text, LineStart(text, at), at - 1)

\* Wrong variant: a later line replaces an earlier one of the same key.
parseLast(text) ==
  [key \in {KeyAt(text, at) : at \in Equals(text)} |->
     LET last == CHOOSE at \in Equals(text) :
                   /\ KeyAt(text, at) = key
                   /\ \A other \in Equals(text) : KeyAt(text, other) = key => other <= at
     IN  SubSeq(text, last + 1, LineEnd(text, last) - 1)]

\* The first line of a key counts.
parse_metadata(text) ==
  [key \in {KeyAt(text, at) : at \in Equals(text)} |->
     LET first == CHOOSE at \in Equals(text) :
                    /\ KeyAt(text, at) = key
                    /\ \A other \in Equals(text) : KeyAt(text, other) = key => at <= other
     IN  SubSeq(text, first + 1, LineEnd(text, first) - 1)]

\* An empty source makes no entry.  The format that writes the document is
\* given apart from the contents, which name one too.
create(format, contents) ==
  LET written == Serialize(format, contents.root)
  IN  IF ~written.ok THEN Refused
      ELSE [ok |-> TRUE, payload |-> written.text, metadata |-> metadata_text(contents),
            source |-> IF contents.schema = <<>> THEN <<>> ELSE contents.schema[1].content]

extract(archive) ==
  LET fields == parse_metadata(archive.metadata)
      format == fields[FormatKey]
      Field(key) == IF key \in DOMAIN fields THEN fields[key] ELSE <<>>
      schema == [identifier |-> Field(IdentifierKey), language |-> Field(LanguageKey),
                 content |-> archive.source]
      Meta   == {key \in DOMAIN fields : key # <<>> /\ key[1] = MetaPrefix}
      name   == format[1][2]
      root   == Deserialize(name, archive.payload)
  IN  IF \/ FormatKey \notin DOMAIN fields
         \/ format \notin {<<Letters(id)>> : id \in Registered}
         \/ ~root.ok
      THEN Refused
      ELSE [ok |-> TRUE, format |-> name, root |-> root.value,
            schema |-> IF schema.identifier = <<>> /\ schema.content = <<>> THEN <<>> ELSE <<schema>>,
            metadata |-> [key \in {Tail(k) : k \in Meta} |-> fields[<<MetaPrefix>> \o key]]]
=============================================================================
