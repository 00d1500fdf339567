----------------------------- MODULE Validation -----------------------------
(***************************************************************************)
(* The validator of SerdeTk: what a schema, itself a document, finds wrong *)
(* with a document.  Patterns of strings are left out.                     *)
(***************************************************************************)
EXTENDS Formats

Key(name) == <<Letters(name)>>
Has(fields, name) == Key(name) \in DOMAIN fields
Get(fields, name) == fields[Key(name)]

IsWhole(v)  == KindOf(v) \in {"int", "uint"}
IsNumber(v) == IsWhole(v) \/ Is(v, "double")

\* In halves, as a double is.
Magnitude(v) == IF Is(v, "double") THEN v[2] ELSE 2 * v[2]

\* static_cast<std::size_t>
Size(v) == v[2] % Base ^ 8

\* Values are equal when their kinds are, so an int is no uint.
value_equals(a, b) == KindOf(a) = KindOf(b) /\ a = b

\* Wrong variant: integers are signed ones.
isTypeSigned(v, t) ==
  CASE t = Key("null")    -> Is(v, "null")
    [] t = Key("boolean") -> Is(v, "bool")
    [] t = Key("integer") -> Is(v, "int")
    [] t = Key("number")  -> IsNumber(v)
    [] t \in {Key("string"), Key("object"), Key("array")} -> t = Key(KindOf(v))
    [] OTHER -> FALSE

is_type(v, t) ==
  CASE t = Key("null")    -> Is(v, "null")
    [] t = Key("boolean") -> Is(v, "bool")
    [] t = Key("integer") -> IsWhole(v)
    [] t = Key("number")  -> IsNumber(v)
    [] t \in {Key("string"), Key("object"), Key("array")} -> t = Key(KindOf(v))
    [] OTHER -> FALSE

-----------------------------------------------------------------------------
(* What is found wrong with a node: "fail" for a message, "throw" for the  *)
(* exception that ends the validation.                                     *)

FailUnless(holds) == IF holds THEN {} ELSE {"fail"}

TypeFaults(schema, node) ==
  IF ~Has(schema, "type") THEN {}
  ELSE LET t == Get(schema, "type")
       IN  FailUnless(\/ Is(t, "string") /\ is_type(node, t[2])
                      \/ Is(t, "array") /\ \E i \in DOMAIN t[2] :
                           Is(t[2][i], "string") /\ is_type(node, t[2][i][2]))

ValueFaults(schema, node) ==
  FailUnless(/\ Has(schema, "enum") =>
                  /\ Is(Get(schema, "enum"), "array")
                  /\ \E i \in DOMAIN Get(schema, "enum")[2] :
                       value_equals(Get(schema, "enum")[2][i], node)
             /\ Has(schema, "const") => value_equals(Get(schema, "const"), node))

\* A limit counts when it is a number of the right kind, and is else ignored.
LengthFaults(schema, node, min, max) ==
  LET Counts(name) == Has(schema, name) /\ IsWhole(Get(schema, name))
  IN  FailUnless(/\ Counts(min) => Len(node[2]) >= Size(Get(schema, min))
                 /\ Counts(max) => Len(node[2]) <= Size(Get(schema, max)))

RangeFaults(schema, node) ==
  LET Counts(name) == Has(schema, name) /\ IsNumber(Get(schema, name))
  IN  FailUnless(/\ Counts("minimum") => Magnitude(node) >= Magnitude(Get(schema, "minimum"))
                 /\ Counts("maximum") => Magnitude(node) <= Magnitude(Get(schema, "maximum")))

\* The items of a node are compared when it is a number, which has none.
UniqueFaults(schema) ==
  IF Has(schema, "uniqueItems") /\ Get(schema, "uniqueItems") = Bool(TRUE) THEN {"throw"} ELSE {}

RequiredFaults(schema, node) ==
  FailUnless(Has(schema, "required") /\ Is(Get(schema, "required"), "array") =>
    \A i \in DOMAIN Get(schema, "required")[2] :
      LET name == Get(schema, "required")[2][i]
      IN  Is(name, "string") /\ name[2] \in DOMAIN node[2])

\* Properties beyond the schema's count only where the schema has properties.
AdditionalFaults(schema, node) ==
  FailUnless(/\ Has(schema, "properties") /\ Is(Get(schema, "properties"), "object")
             /\ Has(schema, "additionalProperties")
             /\ Get(schema, "additionalProperties") = Bool(FALSE)
             => DOMAIN node[2] \subseteq DOMAIN Get(schema, "properties")[2])

NodeFaults(schema, node) ==
  TypeFaults(schema, node) \cup ValueFaults(schema, node) \cup
  CASE Is(node, "string") -> LengthFaults(schema, node, "minLength", "maxLength")
    [] Is(node, "object") -> RequiredFaults(schema, node) \cup AdditionalFaults(schema, node)
    [] Is(node, "array")  -> LengthFaults(schema, node, "minItems", "maxItems")
    [] IsNumber(node)     -> RangeFaults(schema, node) \cup UniqueFaults(schema)
    [] OTHER -> {}

\* Which schema looks at which node below this one: the pairs of them.
Below(schema, node) ==
  LET properties == Get(schema, "properties")[2]
      items == Get(schema, "items")
  IN  (IF Is(node, "object") /\ Has(schema, "properties") /\ Is(Get(schema, "properties"), "object")
       THEN {<<properties[key], node[2][key]>> : key \in DOMAIN properties \cap DOMAIN node[2]}
       ELSE {})
      \cup
      (IF Is(node, "array") /\ Has(schema, "items")
       THEN IF Is(items, "object") THEN {<<items, node[2][i]>> : i \in DOMAIN node[2]}
            ELSE IF Is(items, "array")
            THEN {<<items[2][i], node[2][i]>> : i \in DOMAIN items[2] \cap DOMAIN node[2]}
            ELSE {}
       ELSE {})

\* The schemas of allOf look at the node again.
Beside(schema, node) ==
  IF Has(schema, "allOf") /\ Is(Get(schema, "allOf"), "array")
  THEN {<<Get(schema, "allOf")[2][i], node>> : i \in DOMAIN Get(schema, "allOf")[2]}
  ELSE {}

RECURSIVE validate_node(_, _)
validate_node(schema, node) ==
  NodeFaults(schema, node) \cup
  UNION {validate_node(pair[1][2], pair[2]) :
           pair \in {p \in Below(schema, node) \cup Beside(schema, node) : Is(p[1], "object")}}

\* An exception leaves no report, whatever failed before it.
validate(schema, root) ==
  IF ~Is(schema, "object") THEN "invalid"
  ELSE LET faults == validate_node(schema[2], root)
       IN  IF "throw" \in faults THEN "throws" ELSE IF faults = {} THEN "valid" ELSE "invalid"
=============================================================================
