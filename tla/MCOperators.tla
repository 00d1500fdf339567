---------------------------- MODULE MCOperators ----------------------------
(***************************************************************************)
(* The pure algorithms on small inputs: those of Operators, and documents, *)
(* schemas and packages.                                                   *)
(***************************************************************************)
EXTENDS MCFormats

\* Versions with every kind of prerelease.
Numeric(n) == [numeric |-> TRUE, value |-> n, zeros |-> FALSE]
Word(rank) == [numeric |-> FALSE, value |-> rank, zeros |-> FALSE]

Identifiers == {Numeric(1), Numeric(IdentifierLimit), Word(1),
                [numeric |-> TRUE, value |-> 1, zeros |-> TRUE]}
Prereleases == {<<>>} \cup {<<i>> : i \in Identifiers}
                      \cup {<<i, j>> : i, j \in Identifiers}
SomeVersions == [major : {0}, minor : 0..1, patch : {0, 1},
                 prerelease : Prereleases, build : {"", "b"}]

\* Texts of ranges, among them some that do not parse and one whose build has
\* a dash.
SomeTexts == [components : UNION {[1..n -> Number \cup {Wildcard}] : n \in 1..3}
                           \cup {<<>>, <<1, Malformed>>},
              prerelease : {<<>>, <<Numeric(1)>>}, plus : BOOLEAN,
              build : {"", "b"}, buildDash : {<<>>, <<Word(1)>>}]

\* Words of constraints, among them one that does not parse and a build
\* whose dash is taken for a prerelease.
OneComponent(n) == [components |-> <<n>>, prerelease |-> <<>>, plus |-> FALSE,
                    build |-> "", buildDash |-> <<>>]
SomeWords == {Star, Comma, [op |-> "^", text |-> OneComponent(1)],
              [op |-> "", text |-> OneComponent(Malformed)],
              [op |-> "<", text |-> OneComponent(2)],
              [op |-> ">=", text |-> [OneComponent(1) EXCEPT
                 !.plus = TRUE, !.build = "b", !.buildDash = <<Word(1)>>]]}

MCNext == Next \/ PickDocument \/ PickSchema

MCSpec == Init /\ [][MCNext]_input
=============================================================================
