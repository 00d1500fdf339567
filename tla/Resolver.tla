------------------------------ MODULE Resolver ------------------------------
(***************************************************************************)
(* Storage and Resolver: the releases of each package, and the choice of   *)
(* one release of every package some requirement reaches, by a formula     *)
(* given to a SAT solver.  The solver is external: it answers with any     *)
(* satisfying assignment, or that there is none.  The resolution's graph   *)
(* is the graph of DependencyGraph, searched for a cycle step by step.     *)
(***************************************************************************)
EXTENDS DependencyGraph, Versions, FiniteSets

CONSTANTS Releases,      \* a release: its version and its dependencies'
                         \* constraints, by package
          Requirements   \* the constraints asked for, by package

ASSUME PackagesAreLabels ==
  /\ \A release \in Releases : /\ DOMAIN release.dependencies \subseteq Labels
                              /\ IsFiniteSet(DOMAIN release.dependencies)
  /\ \A requirements \in Requirements : DOMAIN requirements \subseteq Labels

VARIABLES
  releases,    \* the releases of each package, newest first
  asked,       \* the requirements of the last resolve
  resolution   \* its result, but for the graph

vars == <<graphVars, releases, asked, resolution>>

NoName == -1

\* Where no function is needed to be defined.
Nothing == [p \in {} |-> <<>>]

Init ==
  /\ GraphInit
  /\ releases = Nothing
  /\ asked = Nothing
  /\ resolution = [satisfiable |-> FALSE, selected |-> Nothing, diagnostics |-> {}]

find(package) == IF package \in DOMAIN releases THEN releases[package] ELSE <<>>

-----------------------------------------------------------------------------
(* Storage *)

\* The list is sorted again, newest first; std::sort may give the releases it
\* cannot tell apart in any order.
Sorted(list) ==
  \A i, j \in DOMAIN list : i < j => Compare(list[i].version, list[j].version) >= 0

add(package, release) ==
  /\ phase = "idle"
  /\ package # NoName
  /\ \A existing \in ToSet(find(package)) : existing.version # release.version
  /\ \E list \in SetToSeqs(ToSet(find(package)) \cup {release}) :
       /\ Sorted(list)
       /\ releases' = [p \in DOMAIN releases \cup {package} |->
                         IF p = package THEN list ELSE releases[p]]
  /\ UNCHANGED <<graphVars, asked, resolution>>

-----------------------------------------------------------------------------
(* The formula *)

DependenciesOf(package) ==
  UNION {DOMAIN release.dependencies : release \in ToSet(find(package))}

\* The least set with the packages required and, of each of its packages, the
\* dependencies of every release.
reachable_packages(requirements) ==
  LET Closed == {S \in SUBSET Labels :
                   /\ DOMAIN requirements \subseteq S
                   /\ \A p \in S : DependenciesOf(p) \subseteq S}
  IN  {p \in Labels : \A S \in Closed : p \in S}

\* A variable says that the release of that number is chosen; a literal is a
\* variable and the value it must have.
Variable(package) == {<<package, i>> : i \in DOMAIN find(package)}
Variables(packages) == UNION {Variable(p) : p \in packages}

Is(v)  == [variable |-> v, value |-> TRUE]
Not(v) == [variable |-> v, value |-> FALSE]

\* The releases of a package that a constraint matches.
Accepted(package, constraint) ==
  {v \in Variable(package) : constraint_matches(constraint, find(package)[v[2]].version)}

AtLeastOne(package) == {{Is(v) : v \in Variable(package)}}

\* Wrong variant: the second loop starts where the first one is.
AtMostOneFromSame(package) ==
  UNION {{{Not(v), Not(w)} : w \in {w \in Variable(package) : v[2] <= w[2]}}
           : v \in Variable(package)}

AtMostOne(package) ==
  UNION {{{Not(v), Not(w)} : w \in {w \in Variable(package) : v[2] < w[2]}}
           : v \in Variable(package)}

Root(requirements) ==
  {{Is(v) : v \in Accepted(p, requirements[p])} : p \in DOMAIN requirements}

\* A release is not chosen, or one it accepts of each dependency is.
Implication(v, dependency) ==
  LET constraint == find(v[1])[v[2]].dependencies[dependency]
  IN  {Not(v)} \cup {Is(w) : w \in Accepted(dependency, constraint)}

Implications(package) ==
  UNION {{Implication(v, d) : d \in DOMAIN find(package)[v[2]].dependencies}
           : v \in Variable(package)}

\* Wrong variant: the releases of one package are not kept apart.
FormulaOfMany(packages, requirements) ==
  Root(requirements) \cup UNION {AtLeastOne(p) \cup Implications(p) : p \in packages}

Formula(packages, requirements) ==
  Root(requirements) \cup
  UNION {AtLeastOne(p) \cup AtMostOne(p) \cup Implications(p) : p \in packages}

Satisfies(assignment, formula) ==
  \A clause \in formula : \E literal \in clause :
    literal.value = (literal.variable \in assignment)

-----------------------------------------------------------------------------
(* Resolver::resolve *)

\* A diagnostic about a package, about one of its releases (0 for none) or
\* about the whole (NoName stands for "resolver").
Diagnostic(package, release, message) ==
  [package |-> package, release |-> release, message |-> message]

Cyclic == Diagnostic(NoName, 0, "cycle")

Refuse(diagnostic, others) ==
  /\ resolution' = [satisfiable |-> FALSE, selected |-> Nothing,
                    diagnostics |-> {diagnostic} \cup others]
  /\ edges' = NoEdges
  /\ UNCHANGED <<phase, caller, pending, stack, visiting, visited, result, cyclic, order>>

\* The first package of the loop that breaks off.
First(packages) == CHOOSE p \in packages : \A q \in packages : p <= q

Missing(packages) == {p \in packages : find(p) = <<>>}

Rejected(requirements) ==
  {p \in DOMAIN requirements : Accepted(p, requirements[p]) = {}}

\* The releases none of whose choices satisfies some dependency.
Unsatisfied(packages) ==
  {Diagnostic(v[1], v[2], "unsatisfied dependency") : v \in
     {v \in Variables(packages) : \E d \in DOMAIN find(v[1])[v[2]].dependencies :
        Accepted(d, find(v[1])[v[2]].dependencies[d]) = {}}}

\* The first release of the package that the assignment chooses.
Selected(packages, assignment) ==
  [p \in {p \in packages : Variable(p) \cap assignment # {}} |->
     LET i == CHOOSE i \in DOMAIN find(p) :
                /\ <<p, i>> \in assignment
                /\ \A j \in 1 .. i - 1 : <<p, j>> \notin assignment
     IN  find(p)[i]]

\* The packages of a set, in the order of the names.
Ascending(packages) ==
  CHOOSE list \in [1 .. Cardinality(packages) -> packages] :
    /\ \A i, j \in DOMAIN list : i < j => list[i] < list[j]
    /\ \A p \in packages : \E i \in DOMAIN list : list[i] = p

\* Wrong variant: a release that depends on its own package is no edge.
SelectedEdgesToOthers(selected) ==
  LET To(p) == (DOMAIN selected[p].dependencies \cap DOMAIN selected) \ {p}
  IN  [p \in {p \in DOMAIN selected : To(p) # {}} |-> Ascending(To(p))]

\* The graph has an edge for every dependency between selected packages; a
\* package without any has no entry.
SelectedEdges(selected) ==
  LET To(p) == DOMAIN selected[p].dependencies \cap DOMAIN selected
  IN  [p \in {p \in DOMAIN selected : To(p) # {}} |-> Ascending(To(p))]

ResolveWithoutReleases(requirements) ==
  LET missing == Missing(reachable_packages(requirements))
  IN  /\ missing # {}
      /\ Refuse(Diagnostic(First(missing), 0, "no releases are available"), {})

ResolveRejectedRoot(requirements) ==
  /\ Missing(reachable_packages(requirements)) = {}
  /\ Rejected(requirements) # {}
  /\ Refuse(Diagnostic(First(Rejected(requirements)), 0,
                         "no release satisfies root constraint"), {})

Assignments(requirements) ==
  LET packages == reachable_packages(requirements)
      formula  == Formula(packages, requirements)
  IN  {a \in SUBSET Variables(packages) : Satisfies(a, formula)}

ResolveUnsatisfiable(requirements) ==
  LET packages == reachable_packages(requirements)
  IN  /\ Missing(packages) = {} /\ Rejected(requirements) = {}
      /\ Assignments(requirements) = {}
      /\ Refuse(Diagnostic(NoName, 0, "unsatisfiable"), Unsatisfied(packages))

\* What the selection leaves to do is the search of its graph.
ResolveSelected(requirements) ==
  LET packages == reachable_packages(requirements)
  IN  /\ Missing(packages) = {} /\ Rejected(requirements) = {}
      /\ \E assignment \in Assignments(requirements) :
           LET selected == Selected(packages, assignment)
           IN  /\ resolution' = [satisfiable |-> TRUE, selected |-> selected,
                                 diagnostics |-> Unsatisfied(packages)]
               /\ edges' = SelectedEdges(selected)
               /\ Begin("cycle", nodes')
      /\ caller' = "resolve"
      /\ UNCHANGED <<result, cyclic, order>>

resolve(requirements) ==
  /\ phase = "idle"
  /\ asked' = requirements
  /\ \/ ResolveWithoutReleases(requirements)
     \/ ResolveRejectedRoot(requirements)
     \/ ResolveUnsatisfiable(requirements)
     \/ ResolveSelected(requirements)
  /\ UNCHANGED releases

\* A step of the search; resolve returns with it and reports what it found.
SearchGraph ==
  /\ WalkStep
  /\ resolution' = IF caller = "resolve" /\ phase' = "idle" /\ cyclic'
                   THEN [resolution EXCEPT !.diagnostics = @ \cup {Cyclic}]
                   ELSE resolution
  /\ UNCHANGED <<releases, asked>>

\* The caller's own use of the graph it was given.
UseGraph ==
  /\ \/ \E dependent, dependency \in Labels : add_edge(dependent, dependency)
     \/ Ask("contains_cycle")
     \/ Ask("topological_order")
  /\ UNCHANGED <<releases, asked, resolution>>

Next ==
  \/ \E package \in Labels \cup {NoName}, release \in Releases : add(package, release)
  \/ \E requirements \in Requirements : resolve(requirements)
  \/ SearchGraph
  \/ UseGraph

Spec == Init /\ [][Next]_vars /\ WF_vars(SearchGraph)

-----------------------------------------------------------------------------
\* One release of each package, as the requirements and the chosen releases
\* themselves demand.
IsSelection(selection, requirements) ==
  /\ \A p \in DOMAIN requirements :
       p \in DOMAIN selection /\ constraint_matches(requirements[p], selection[p].version)
  /\ \A p \in DOMAIN selection : \A d \in DOMAIN selection[p].dependencies :
       /\ d \in DOMAIN selection
       /\ constraint_matches(selection[p].dependencies[d], selection[d].version)

\* What resolve calls satisfiable is a selection.
ResolutionIsSound ==
  resolution.satisfiable => IsSelection(resolution.selected, asked)

\* resolve refuses only when no selection takes a release of every package
\* that is reachable at all.
Selections(packages) ==
  {s \in [packages -> UNION {ToSet(find(p)) : p \in packages}] :
     \A p \in packages : s[p] \in ToSet(find(p))}

RefusalIsJustified ==
  [][<<asked, resolution>>' # <<asked, resolution>> /\ ~resolution'.satisfiable
       => \A s \in Selections(reachable_packages(asked')) : ~IsSelection(s, asked')]_vars

\* A resolution that is returned says whether the releases it selected depend
\* on each other in a circle.
CycleIsReported ==
  LET selected == resolution.selected
  IN  (phase = "idle" \/ caller # "resolve") /\ resolution.satisfiable =>
        (Cyclic \in resolution.diagnostics <=>
           \E S \in (SUBSET DOMAIN selected) \ {{}} : \A p \in S :
             S \cap DOMAIN selected[p].dependencies # {})
=============================================================================
