----------------------------- MODULE MCResolver -----------------------------
(***************************************************************************)
(* Small instances of Resolver: every storage with at most MaxSize         *)
(* releases and dependencies together, and every graph the caller makes of *)
(* at most MaxEdges edges.                                                 *)
(***************************************************************************)
EXTENDS Resolver, FiniteSets

CONSTANTS MaxSize, MaxEdges

Release(n, build) == [major |-> n, minor |-> 0, patch |-> 0, prerelease |-> <<>>,
                      build |-> build]

\* Two versions that only == tells apart, and a later one.
MCVersions == {Release(1, ""), Release(1, "b"), Release(2, "")}

Bound(op, n) == <<<<[comparator |-> op, version |-> Release(n, ""),
                    precision |-> NoPrecision]>>>>

MCConstraints == {Bound(">=", 2), Bound("<", 2)}

Partial(D, R) == UNION {[S -> R] : S \in SUBSET D}

\* A release depends on at most one package, or on two in one way.
MCReleases ==
  {r \in [version : MCVersions, dependencies : Partial(Labels, MCConstraints)] :
     \/ r.dependencies = Nothing
     \/ r.version.build = "" /\ Cardinality(DOMAIN r.dependencies) = 1
     \/ /\ r.version = Release(2, "")
        /\ Cardinality(DOMAIN r.dependencies) = 2
        /\ \A d \in DOMAIN r.dependencies : r.dependencies[d] = Bound(">=", 2)}

\* Nothing, one package, or two that may come to disagree about the third.
MCRequirements == {Nothing} \cup [{2} -> {AnyVersion, Bound("<", 2)}]
                  \cup [{1, 3} -> {AnyVersion}]

Total(f, Size(_)) == FoldFunction(LAMBDA x, n : Size(x) + n, 0, f)

Size ==
  Total(releases, LAMBDA list :
          FoldSeq(LAMBDA r, n : n + 1 + Cardinality(DOMAIN r.dependencies), 0, list))

\* resolve and the searches read nothing but the storage and the graph, and
\* keep nothing: the storage is filled first, then resolved once; the caller's
\* own graphs are made without one, and searched until a search has an answer.
Fresh == asked = Nothing /\ order = <<>> /\ ~cyclic /\ ~resolution.satisfiable

MCNext ==
  \/ \E package \in Labels \cup {NoName}, release \in Releases :
       /\ Fresh /\ edges = NoEdges
       /\ Size + 1 + Cardinality(DOMAIN release.dependencies) <= MaxSize
       /\ add(package, release)
  \/ Fresh /\ \E requirements \in Requirements : resolve(requirements)
  \/ SearchGraph
  \/ Fresh /\ releases = Nothing /\ UseGraph /\ Total(edges', Len) <= MaxEdges

MCSpec == Init /\ [][MCNext]_vars /\ WF_vars(SearchGraph)
=============================================================================
