-------------------------- MODULE DependencyGraph --------------------------
(***************************************************************************)
(* The graph of a resolution and its two questions: is there a cycle, and  *)
(* in which order do dependencies come first.  Both are depth-first        *)
(* searches that call themselves; here the calls are an explicit stack and *)
(* each visit of a label is a step.                                        *)
(*                                                                         *)
(* edges[l] is the list of the dependencies of l, in the order they were   *)
(* added; a label that only others depend on has no entry.  Labels are     *)
(* numbers in the order std::map keeps the names.                          *)
(***************************************************************************)
EXTENDS Integers, Sequences, SequencesExt

CONSTANT Labels

ASSUME LabelsAreOrdered == Labels \subseteq Nat

VARIABLES
  edges,      \* the graph
  phase,      \* "idle", or which search is running: "cycle" or "order"
  caller,     \* who asked: "contains_cycle", "topological_order", "resolve"
  pending,    \* the labels the outer loop has not come to
  stack,      \* the running visits: [label, next], next the edge to follow
  visiting,   \* contains_cycle's first set
  visited,    \* the labels some visit was begun for
  result,     \* topological_order's list so far
  cyclic,     \* what contains_cycle last returned
  order       \* what topological_order last returned

graphVars == <<edges, phase, caller, pending, stack, visiting, visited, result,
               cyclic, order>>

-----------------------------------------------------------------------------
Frame == [label : Labels, next : Nat \ {0}]

Targets(l) == IF l \in DOMAIN edges THEN edges[l] ELSE <<>>

\* What populate_graph makes nodes of.
nodes == DOMAIN edges \cup UNION {ToSet(edges[l]) : l \in DOMAIN edges}

GraphTypeOK ==
  /\ DOMAIN edges \subseteq Labels
  /\ \A l \in DOMAIN edges : edges[l] \in Seq(Labels)
  /\ phase \in {"idle", "cycle", "order"}
  /\ caller \in {"contains_cycle", "topological_order", "resolve"}
  /\ pending \subseteq Labels
  /\ stack \in Seq(Frame)
  /\ visiting \subseteq Labels
  /\ visited \subseteq Labels
  /\ result \in Seq(Labels)
  /\ cyclic \in BOOLEAN
  /\ order \in Seq(Labels)

NoEdges == [l \in {} |-> <<>>]

GraphInit ==
  /\ edges = NoEdges
  /\ phase = "idle"
  /\ caller = "contains_cycle"
  /\ pending = {} /\ stack = <<>> /\ visiting = {} /\ visited = {}
  /\ result = <<>>
  /\ cyclic = FALSE
  /\ order = <<>>

-----------------------------------------------------------------------------
add_edge(dependent, dependency) ==
  /\ phase = "idle"
  /\ edges' = [l \in DOMAIN edges \cup {dependent} |->
                 IF l = dependent /\ dependency \notin ToSet(Targets(l))
                 THEN Append(Targets(l), dependency) ELSE Targets(l)]
  /\ UNCHANGED <<phase, caller, pending, stack, visiting, visited, result, cyclic, order>>

\* The searches begin with their sets empty.  Both callers ask for a cycle
\* first.
Begin(search, loop) ==
  /\ phase' = search
  /\ pending' = loop
  /\ stack' = <<>>
  /\ visiting' = {}
  /\ visited' = {}

Ask(who) ==
  /\ phase = "idle"
  /\ caller' = who
  /\ Begin("cycle", nodes)
  /\ UNCHANGED <<edges, result, cyclic, order>>

-----------------------------------------------------------------------------
Top == stack[Len(stack)]

\* The label to be visited next: the next edge of the running visit or, when
\* none is running, the first label the loop has not come to.
Calls(label) ==
  IF stack = <<>>
  THEN label \in pending /\ \A other \in pending : label <= other
  ELSE Top.next \in DOMAIN Targets(Top.label) /\ label = Targets(Top.label)[Top.next]

\* The caller of the visit goes on to its next edge or label.
Advanced == IF stack = <<>> THEN stack ELSE [stack EXCEPT ![Len(stack)].next = @ + 1]
Loop(label) == IF stack = <<>> THEN pending \ {label} ELSE pending

\* The search returns, and its sets are gone.
Return ==
  /\ phase' = "idle"
  /\ pending' = {} /\ stack' = <<>> /\ visiting' = {} /\ visited' = {}
  /\ result' = <<>>

\* A label whose visit is running: the answer of every running visit is true,
\* and topological_order returns the empty list.
FindCycle(label) ==
  /\ phase = "cycle" /\ Calls(label) /\ label \in visiting
  /\ Return
  /\ cyclic' = TRUE
  /\ order' = IF caller = "topological_order" THEN <<>> ELSE order
  /\ UNCHANGED <<edges, caller>>

\* Wrong variant: the loop does not go on after a label visited before.
SkipInPlace(label) ==
  /\ phase # "idle" /\ Calls(label)
  /\ phase = "cycle" => label \notin visiting
  /\ label \in visited
  /\ UNCHANGED graphVars

SkipVisited(label) ==
  /\ phase # "idle" /\ Calls(label)
  /\ phase = "cycle" => label \notin visiting
  /\ label \in visited
  /\ stack' = Advanced
  /\ pending' = Loop(label)
  /\ UNCHANGED <<edges, phase, caller, visiting, visited, result, cyclic, order>>

Visit(label) ==
  /\ phase # "idle" /\ Calls(label)
  /\ phase = "cycle" => label \notin visiting
  /\ label \notin visited
  /\ stack' = Append(Advanced, [label |-> label, next |-> 1])
  /\ pending' = Loop(label)
  /\ visited' = visited \cup {label}
  /\ visiting' = IF phase = "cycle" THEN visiting \cup {label} ELSE visiting
  /\ UNCHANGED <<edges, phase, caller, result, cyclic, order>>

\* Wrong variant: the label is listed before what it depends on.
LeaveFirst ==
  /\ phase # "idle" /\ stack # <<>>
  /\ Top.next \notin DOMAIN Targets(Top.label)
  /\ stack' = SubSeq(stack, 1, Len(stack) - 1)
  /\ visiting' = visiting \ {Top.label}
  /\ result' = IF phase = "order" THEN <<Top.label>> \o result ELSE result
  /\ UNCHANGED <<edges, phase, caller, pending, visited, cyclic, order>>

\* Wrong variant: a label stays marked when its visit returns.
LeaveMarked ==
  /\ phase # "idle" /\ stack # <<>>
  /\ Top.next \notin DOMAIN Targets(Top.label)
  /\ stack' = SubSeq(stack, 1, Len(stack) - 1)
  /\ result' = IF phase = "order" THEN Append(result, Top.label) ELSE result
  /\ UNCHANGED <<edges, phase, caller, pending, visiting, visited, cyclic, order>>

Leave ==
  /\ phase # "idle" /\ stack # <<>>
  /\ Top.next \notin DOMAIN Targets(Top.label)
  /\ stack' = SubSeq(stack, 1, Len(stack) - 1)
  /\ visiting' = visiting \ {Top.label}
  /\ result' = IF phase = "order" THEN Append(result, Top.label) ELSE result
  /\ UNCHANGED <<edges, phase, caller, pending, visited, cyclic, order>>

\* The loop is over without a cycle.
FindNoCycle ==
  /\ phase = "cycle" /\ stack = <<>> /\ pending = {}
  /\ cyclic' = FALSE
  /\ IF caller = "topological_order"
     THEN Begin("order", nodes) /\ UNCHANGED result
     ELSE Return
  /\ UNCHANGED <<edges, caller, order>>

ReturnOrder ==
  /\ phase = "order" /\ stack = <<>> /\ pending = {}
  /\ Return
  /\ order' = result
  /\ UNCHANGED <<edges, caller, cyclic>>

WalkStep ==
  \/ \E label \in Labels : FindCycle(label) \/ SkipVisited(label) \/ Visit(label)
  \/ Leave
  \/ FindNoCycle
  \/ ReturnOrder

GraphNext ==
  \/ \E dependent, dependency \in Labels : add_edge(dependent, dependency)
  \/ Ask("contains_cycle")
  \/ Ask("topological_order")
  \/ WalkStep

GraphSpec == GraphInit /\ [][GraphNext]_graphVars

-----------------------------------------------------------------------------
\* A set of labels each of which depends on one of the set: there is one
\* exactly when the graph has a cycle.
Cycles == {S \in SUBSET nodes : /\ S # {}
                                /\ \A l \in S : S \cap ToSet(Targets(l)) # {}}

\* contains_cycle answers whether the graph has a cycle, whatever the order of
\* the labels and of the edges.
CycleVerdict ==
  [][phase = "cycle" /\ phase' # "cycle" => (cyclic' <=> Cycles # {})]_graphVars

\* topological_order returns every label once, each after all it depends on;
\* the empty list when there is a cycle.
ListsDependenciesFirst(list) ==
  /\ IsInjective(list)
  /\ ToSet(list) = nodes
  /\ \A i \in DOMAIN list : ToSet(Targets(list[i])) \subseteq ToSet(SubSeq(list, 1, i - 1))

OrderIsTopological ==
  [][caller = "topological_order" /\ phase # "idle" /\ phase' = "idle"
       => IF Cycles = {} THEN ListsDependenciesFirst(order') ELSE order' = <<>>]_graphVars

\* Both searches return: the marks keep a visit from starting twice.
WalkReturns == (phase # "idle") ~> (phase = "idle")
=============================================================================
