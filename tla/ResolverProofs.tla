--------------------------- MODULE ResolverProofs ---------------------------
(***************************************************************************)
(* Proofs about DependencyGraph, for every set of labels and every graph,  *)
(* and about Resolver, which searches such a graph, for every set of       *)
(* packages, releases and requirements and every assignment the solver may *)
(* pick: what resolve selects is a selection, what it refuses has none,    *)
(* and a circle in the selection is reported.                              *)
(*                                                                         *)
(* The graph comes first.  A label is done when its visit has returned.    *)
(* The running visits are a path of the graph; what they have passed by is *)
(* done, what is done depends only on what is done, and nothing done is on *)
(* a cycle.                                                                *)
(***************************************************************************)
EXTENDS Resolver, FiniteRecursion, SequenceTheorems, FiniteSetTheorems

OnStack == {stack[i].label : i \in 1 .. Len(stack)}
Done == visited \ OnStack

Depends(l) == ToSet(Targets(l))

\* A running visit: each of the edges before the next one led to a label that
\* is done, but the last, which leads to the visit above.
FrameIsOpen(i) ==
  /\ stack[i].label \in visited
  /\ stack[i].next <= Len(Targets(stack[i].label)) + 1
  /\ \A j \in 1 .. Len(stack) : stack[j].label = stack[i].label => j = i
  /\ \A k \in 1 .. stack[i].next - 1 :
       \/ Targets(stack[i].label)[k] \in Done
       \/ i < Len(stack) /\ k = stack[i].next - 1
  /\ i < Len(stack) =>
       /\ stack[i].next >= 2
       /\ Targets(stack[i].label)[stack[i].next - 1] = stack[i + 1].label

StackIsPath == \A i \in 1 .. Len(stack) : FrameIsOpen(i)

DoneIsClosed == \A l \in Done : Depends(l) \subseteq Done

DoneIsAcyclic ==
  \A S \in SUBSET Done : S # {} => \E l \in S : S \cap Depends(l) = {}

\* The list so far: all that is done, each after all it depends on.
ResultListsDone ==
  /\ \A i, j \in 1 .. Len(result) : result[i] = result[j] => i = j
  /\ {result[i] : i \in 1 .. Len(result)} = Done
  /\ \A i \in 1 .. Len(result) :
       \A l \in Depends(result[i]) : \E j \in 1 .. i - 1 : result[j] = l

SearchInv ==
  /\ phase # "order" => result = <<>>
  /\ phase = "cycle" => visiting = OnStack
  /\ phase = "order" =>
       caller = "topological_order" /\ Cycles = {} /\ ResultListsDone
  /\ phase # "idle" =>
       /\ visited \subseteq nodes /\ nodes \subseteq visited \cup pending
       /\ pending \subseteq nodes
       /\ StackIsPath /\ DoneIsClosed /\ DoneIsAcyclic

GraphInv == GraphTypeOK /\ SearchInv

-----------------------------------------------------------------------------
(* Types *)

LEMMA TargetsType ==
  ASSUME GraphTypeOK, NEW l
  PROVE  /\ Targets(l) \in Seq(Labels)
         /\ Depends(l) \subseteq nodes
         /\ Depends(l) = {Targets(l)[k] : k \in 1 .. Len(Targets(l))}
<1>1. Targets(l) \in Seq(Labels)
  BY DEF GraphTypeOK, Targets
<1>2. DOMAIN Targets(l) = 1 .. Len(Targets(l))
  BY <1>1
<1>3. Depends(l) \subseteq nodes
  <2>1. CASE l \in DOMAIN edges
    BY <2>1 DEF Depends, nodes, Targets
  <2>2. CASE l \notin DOMAIN edges
    BY <2>2 DEF Depends, ToSet, Targets
  <2> QED BY <2>1, <2>2
<1> QED BY <1>1, <1>2, <1>3 DEF Depends, ToSet

LEMMA NodesAreLabels ==
  ASSUME GraphTypeOK
  PROVE  nodes \subseteq Labels
BY DEF GraphTypeOK, nodes, ToSet

LEMMA TypeInit == GraphInit => GraphTypeOK
<1> SUFFICES ASSUME GraphInit PROVE GraphTypeOK
  OBVIOUS
<1>1. DOMAIN edges = {}
  BY DEF GraphInit, NoEdges
<1>2. <<>> \in Seq(Frame) /\ <<>> \in Seq(Labels)
  OBVIOUS
<1> QED BY <1>1, <1>2 DEF GraphInit, GraphTypeOK

\* The steps of the searches keep the types.
LEMMA TypeWalk ==
  ASSUME GraphTypeOK, WalkStep
  PROVE  GraphTypeOK'
<1> USE DEF GraphTypeOK
<1>0. <<>> \in Seq(Frame) /\ <<>> \in Seq(Labels)
  OBVIOUS
<1>1. ASSUME stack # <<>>
      PROVE  Len(stack) \in 1 .. Len(stack) /\ Top \in Frame
  BY <1>1 DEF Top
<1>2. Advanced \in Seq(Frame)
  <2>1. CASE stack = <<>>
    BY <2>1 DEF Advanced
  <2>2. CASE stack # <<>>
    <3> DEFINE n == Len(stack)
    <3>0. stack \in Seq(Frame)
      OBVIOUS
    <3> HIDE DEF GraphTypeOK
    <3>1. n \in DOMAIN stack /\ stack[n] \in Frame
      BY <1>1, <2>2, <3>0 DEF Top
    <3>2. [stack[n] EXCEPT !.next = @ + 1] \in Frame
      BY <3>1 DEF Frame
    <3> DEFINE top == [stack[n] EXCEPT !.next = @ + 1]
    <3>3. Advanced = [stack EXCEPT ![n] = top]
      BY <2>2 DEF Advanced
    <3> HIDE DEF top, n
    <3>4. top \in Frame /\ stack \in Seq(Frame) /\ n \in DOMAIN stack
      BY <3>0, <3>1, <3>2 DEF top
    <3> QED BY <3>3, <3>4
  <2> QED BY <2>1, <2>2
<1>3. ASSUME NEW label \in Labels, FindCycle(label) PROVE GraphTypeOK'
  BY <1>3 DEF FindCycle, Return
<1>4. ASSUME NEW label \in Labels, SkipVisited(label) PROVE GraphTypeOK'
  BY <1>2, <1>4 DEF SkipVisited, Loop
<1>5. ASSUME NEW label \in Labels, Visit(label) PROVE GraphTypeOK'
  <2>1. [label |-> label, next |-> 1] \in Frame
    BY DEF Frame
  <2> QED BY <1>2, <1>5, <2>1 DEF Visit, Loop
<1>6. CASE Leave
  <2>1. stack' \in Seq(Frame)
    BY <1>6 DEF Leave
  <2>2. Top.label \in Labels
    BY <1>1, <1>6 DEF Leave, Frame
  <2> QED BY <1>6, <2>1, <2>2 DEF Leave
<1>7. CASE FindNoCycle
  <2>1. nodes \subseteq Labels
    BY NodesAreLabels
  <2>2. CASE caller = "topological_order"
    <3>1. /\ phase' = "order" /\ pending' = nodes /\ stack' = <<>>
          /\ visiting' = {} /\ visited' = {} /\ cyclic' = FALSE
          /\ UNCHANGED <<edges, caller, order, result>>
      BY <1>7, <2>2 DEF FindNoCycle, Begin
    <3> QED BY <1>0, <2>1, <3>1
  <2>3. CASE caller # "topological_order"
    <3>1. Return /\ cyclic' = FALSE /\ UNCHANGED <<edges, caller, order>>
      BY <1>7, <2>3 DEF FindNoCycle
    <3> QED BY <1>0, <3>1 DEF Return
  <2> QED BY <2>2, <2>3
<1>8. CASE ReturnOrder
  BY <1>8 DEF ReturnOrder, Return
<1> QED BY <1>3, <1>4, <1>5, <1>6, <1>7, <1>8 DEF WalkStep

-----------------------------------------------------------------------------
(* The stack *)

\* The top of the stack and its next edge, where there is one.
LEMMA TopFacts ==
  ASSUME GraphTypeOK, stack # <<>>
  PROVE  /\ Len(stack) \in Nat \ {0}
         /\ Top = stack[Len(stack)]
         /\ \A i \in 1 .. Len(stack) :
              stack[i].label \in Labels /\ stack[i].next \in Nat \ {0}
         /\ \A label : Calls(label) =>
              /\ stack[Len(stack)].next <= Len(Targets(Top.label))
              /\ label = Targets(Top.label)[stack[Len(stack)].next]
              /\ label \in Depends(Top.label)
<1>1. stack \in Seq(Frame) /\ Len(stack) \in Nat \ {0}
  BY DEF GraphTypeOK
<1>2. \A i \in 1 .. Len(stack) : stack[i] \in Frame
  BY <1>1
<1>3. DOMAIN Targets(Top.label) = 1 .. Len(Targets(Top.label))
  BY TargetsType
<1>4. ASSUME NEW label, Calls(label)
      PROVE  /\ stack[Len(stack)].next <= Len(Targets(Top.label))
             /\ label = Targets(Top.label)[stack[Len(stack)].next]
             /\ label \in Depends(Top.label)
  <2>1. Top.next \in DOMAIN Targets(Top.label) /\ label = Targets(Top.label)[Top.next]
    BY <1>4 DEF Calls
  <2>2. Top.next <= Len(Targets(Top.label))
    BY <1>3, <2>1
  <2> QED BY <2>1, <2>2 DEF Top, Depends, ToSet
<1> QED BY <1>1, <1>2, <1>4 DEF Top, Frame

\* The path from a label on the stack to the top, and an edge back from there,
\* are a cycle.
LEMMA BackEdge ==
  ASSUME GraphTypeOK, StackIsPath, visited \subseteq nodes, stack # <<>>,
         NEW label, Calls(label), label \in OnStack
  PROVE  Cycles # {}
<1> DEFINE n == Len(stack)
<1>1. n \in Nat \ {0} /\ label \in Depends(stack[n].label)
  BY TopFacts
<1>2. PICK j \in 1 .. n : stack[j].label = label
  BY DEF OnStack
<1> DEFINE S == {stack[i].label : i \in j .. n}
<1>3. S \subseteq nodes /\ label \in S
  BY <1>1, <1>2 DEF StackIsPath, FrameIsOpen
<1>4. ASSUME NEW i \in j .. n PROVE S \cap Depends(stack[i].label) # {}
  <2>1. CASE i = n
    BY <1>1, <1>3, <2>1
  <2>2. CASE i # n
    <3>1. i \in 1 .. n /\ i < n /\ i + 1 \in j .. n
      BY <1>1, <1>2, <2>2
    <3>2. /\ stack[i].next >= 2 /\ stack[i].next <= Len(Targets(stack[i].label)) + 1
          /\ Targets(stack[i].label)[stack[i].next - 1] = stack[i + 1].label
      BY <3>1 DEF StackIsPath, FrameIsOpen
    <3>3. stack[i].next - 1 \in 1 .. Len(Targets(stack[i].label))
      <4>1. stack[i].next \in Nat /\ Len(Targets(stack[i].label)) \in Nat
        BY <3>1, TopFacts, TargetsType
      <4> QED BY <3>2, <4>1
    <3>4. stack[i + 1].label \in Depends(stack[i].label)
      BY <3>2, <3>3, TargetsType
    <3> QED BY <3>1, <3>4
  <2> QED BY <2>1, <2>2
<1>5. \A l \in S : S \cap ToSet(Targets(l)) # {}
  BY <1>4 DEF Depends
<1> QED BY <1>3, <1>5 DEF Cycles

\* The stack of an advanced search: only the next edge of its top is another.
LEMMA AdvancedFacts ==
  ASSUME GraphTypeOK
  PROVE  /\ Advanced \in Seq(Frame) /\ Len(Advanced) = Len(stack)
         /\ \A i \in 1 .. Len(stack) :
              /\ Advanced[i].label = stack[i].label
              /\ Advanced[i].next = IF i = Len(stack) THEN stack[i].next + 1 ELSE stack[i].next
<1> DEFINE n == Len(stack)
           top == [stack[n] EXCEPT !.next = @ + 1]
<1>1. CASE stack = <<>>
  BY <1>1 DEF Advanced, GraphTypeOK
<1>2. CASE stack # <<>>
  <2>1. stack \in Seq(Frame) /\ n \in 1 .. n /\ \A i \in 1 .. n : stack[i] \in Frame
    BY <1>2 DEF GraphTypeOK
  <2>2. Advanced = [stack EXCEPT ![n] = top]
    BY <1>2 DEF Advanced
  <2>3. top \in Frame /\ top.label = stack[n].label /\ top.next = stack[n].next + 1
    BY <2>1 DEF Frame
  <2> HIDE DEF top
  <2>4. Advanced \in Seq(Frame) /\ Len(Advanced) = n
    BY <2>1, <2>2, <2>3
  <2>5. \A i \in 1 .. n : Advanced[i] = IF i = n THEN top ELSE stack[i]
    BY <2>1, <2>2
  <2> QED BY <2>3, <2>4, <2>5
<1> QED BY <1>1, <1>2

-----------------------------------------------------------------------------
(* The steps of a search *)

LEMMA SameGraph ==
  ASSUME edges' = edges
  PROVE  /\ nodes' = nodes /\ Cycles' = Cycles
         /\ \A l : Targets(l)' = Targets(l) /\ Depends(l)' = Depends(l)
<1>1. \A l : Targets(l)' = Targets(l)
  BY DEF Targets
<1>2. nodes' = nodes
  BY DEF nodes
<1>3. Cycles' = Cycles
  BY <1>1, <1>2 DEF Cycles
<1> QED BY <1>1, <1>2, <1>3 DEF Depends

LEMMA SameDone ==
  ASSUME edges' = edges, Done' = Done, result' = result
  PROVE  /\ DoneIsClosed => DoneIsClosed'
         /\ DoneIsAcyclic => DoneIsAcyclic'
         /\ ResultListsDone => ResultListsDone'
<1>1. (DoneIsClosed => DoneIsClosed') /\ (DoneIsAcyclic => DoneIsAcyclic')
  BY SameGraph DEF DoneIsClosed, DoneIsAcyclic
<1>2. ASSUME ResultListsDone PROVE ResultListsDone'
  <2>1. \A i : Depends(result[i])' = Depends(result[i])
    BY DEF Depends, Targets
  <2>2. \A i \in 1 .. Len(result') :
          \A l \in Depends(result[i])' : \E j \in 1 .. i - 1 : result'[j] = l
    BY <1>2, <2>1 DEF ResultListsDone
  <2>3. {result'[i] : i \in 1 .. Len(result')} = Done'
    BY <1>2 DEF ResultListsDone
  <2>4. \A i, j \in 1 .. Len(result') : result'[i] = result'[j] => i = j
    BY <1>2 DEF ResultListsDone
  <2> QED BY <2>2, <2>3, <2>4 DEF ResultListsDone
<1> QED BY <1>1, <1>2

LEMMA SkipKeepsInv ==
  ASSUME GraphInv, NEW label \in Labels, SkipVisited(label)
  PROVE  SearchInv'
<1>0. /\ GraphTypeOK /\ SearchInv /\ phase # "idle" /\ Calls(label) /\ label \in visited
      /\ phase = "cycle" => label \notin visiting
      /\ stack' = Advanced /\ pending' = Loop(label)
      /\ UNCHANGED <<edges, phase, caller, visiting, visited, result, cyclic, order>>
  BY DEF GraphInv, SkipVisited
<1>1. /\ visited \subseteq nodes /\ nodes \subseteq visited \cup pending
      /\ pending \subseteq nodes /\ StackIsPath /\ DoneIsClosed /\ DoneIsAcyclic
  BY <1>0 DEF SearchInv
<1>2. /\ nodes' = nodes /\ Cycles' = Cycles
      /\ \A l : Targets(l)' = Targets(l) /\ Depends(l)' = Depends(l)
  BY <1>0, SameGraph
<1>3. OnStack' = OnStack /\ StackIsPath'
  <2>1. CASE stack = <<>>
    BY <1>0, <1>1, <2>1 DEF Advanced, OnStack, StackIsPath
  <2>2. CASE stack # <<>>
    <3> DEFINE n == Len(stack)
    <3>1. /\ Len(stack') = n /\ n \in Nat \ {0}
          /\ \A i \in 1 .. n :
               /\ stack'[i].label = stack[i].label
               /\ stack'[i].next = IF i = n THEN stack[i].next + 1 ELSE stack[i].next
      BY <1>0, <2>2, AdvancedFacts, TopFacts
    <3>2. OnStack' = OnStack
      BY <3>1 DEF OnStack
    <3>3. label \notin OnStack
      BY <1>0, <1>1, <2>2, BackEdge DEF SearchInv, GraphTypeOK
    <3>4. label \in Done /\ Done' = Done
      BY <1>0, <3>2, <3>3 DEF Done
    <3>5. ASSUME NEW i \in 1 .. n PROVE FrameIsOpen(i)'
      <4> DEFINE targets == Targets(stack[i].label)
      <4>1. FrameIsOpen(i) /\ stack[i].next \in Nat \ {0} /\ Len(targets) \in Nat
        BY <1>0, <1>1, <2>2, TopFacts, TargetsType DEF StackIsPath
      <4>2. Targets(stack[i].label)' = targets
        BY <1>2, <3>1
      <4>3. CASE i = n
        <5>1. stack[i].next <= Len(targets) /\ targets[stack[i].next] = label
          BY <1>0, <2>2, <4>3, TopFacts
        <5>2. stack'[i].next = stack[i].next + 1
          BY <3>1, <4>3
        <5>3. \A k \in 1 .. stack'[i].next - 1 : targets[k] \in Done
          BY <3>4, <4>1, <4>3, <5>1, <5>2 DEF FrameIsOpen
        <5>4. stack'[i].next <= Len(targets) + 1
          BY <4>1, <5>1, <5>2
        <5>5. /\ stack'[i].label \in visited'
              /\ \A j \in 1 .. Len(stack') : stack'[j].label = stack'[i].label => j = i
              /\ stack'[i].next <= Len(Targets(stack[i].label)') + 1
          BY <1>0, <3>1, <4>1, <4>2, <5>4 DEF FrameIsOpen
        <5>6. \A k \in 1 .. stack'[i].next - 1 : Targets(stack[i].label)'[k] \in Done'
          BY <3>4, <4>2, <5>3
        <5>7. ~(i < Len(stack'))
          BY <3>1, <4>3
        <5> QED BY <5>5, <5>6, <5>7 DEF FrameIsOpen
      <4>4. CASE i # n
        <5>1. i < n /\ i + 1 \in 1 .. n /\ stack'[i].next = stack[i].next
          BY <3>1, <4>4
        <5>2. stack'[i + 1].label = stack[i + 1].label
          BY <3>1, <5>1
        <5>3. /\ stack'[i].label \in visited'
              /\ \A j \in 1 .. Len(stack') : stack'[j].label = stack'[i].label => j = i
              /\ stack'[i].next <= Len(Targets(stack[i].label)') + 1
          BY <1>0, <3>1, <4>1, <4>2, <5>1 DEF FrameIsOpen
        <5>4. \A k \in 1 .. stack'[i].next - 1 :
                \/ Targets(stack[i].label)'[k] \in Done'
                \/ k = stack'[i].next - 1
          BY <3>4, <4>1, <4>2, <5>1 DEF FrameIsOpen
        <5>5. /\ stack'[i].next >= 2
              /\ Targets(stack[i].label)'[stack'[i].next - 1] = stack'[i + 1].label
          BY <4>1, <4>2, <5>1, <5>2 DEF FrameIsOpen
        <5> QED BY <3>1, <5>1, <5>3, <5>4, <5>5 DEF FrameIsOpen
      <4> QED BY <4>3, <4>4
    <3> QED BY <3>1, <3>2, <3>5 DEF StackIsPath
  <2> QED BY <2>1, <2>2
<1>4. Done' = Done
  BY <1>0, <1>3 DEF Done
<1>5. DoneIsClosed' /\ DoneIsAcyclic' /\ (ResultListsDone => ResultListsDone')
  BY <1>0, <1>1, <1>4, SameDone
<1>6. pending' \subseteq nodes /\ nodes \subseteq visited \cup pending'
  BY <1>0, <1>1 DEF Loop
<1> QED BY <1>0, <1>1, <1>2, <1>3, <1>5, <1>6 DEF SearchInv

LEMMA VisitKeepsInv ==
  ASSUME GraphInv, NEW label \in Labels, Visit(label)
  PROVE  SearchInv'
<1> DEFINE n == Len(stack)
<1>0. /\ GraphTypeOK /\ SearchInv /\ phase # "idle" /\ Calls(label) /\ label \notin visited
      /\ stack' = Append(Advanced, [label |-> label, next |-> 1])
      /\ pending' = Loop(label) /\ visited' = visited \cup {label}
      /\ visiting' = IF phase = "cycle" THEN visiting \cup {label} ELSE visiting
      /\ UNCHANGED <<edges, phase, caller, result, cyclic, order>>
  BY DEF GraphInv, Visit
<1>1. /\ visited \subseteq nodes /\ nodes \subseteq visited \cup pending
      /\ pending \subseteq nodes /\ StackIsPath /\ DoneIsClosed /\ DoneIsAcyclic
  BY <1>0 DEF SearchInv
<1>2. /\ nodes' = nodes /\ Cycles' = Cycles
      /\ \A l : Targets(l)' = Targets(l) /\ Depends(l)' = Depends(l)
  BY <1>0, SameGraph
<1>3. /\ n \in Nat /\ Len(stack') = n + 1
      /\ stack'[n + 1].label = label /\ stack'[n + 1].next = 1
      /\ \A i \in 1 .. n :
           /\ stack'[i].label = stack[i].label
           /\ stack'[i].next = IF i = n THEN stack[i].next + 1 ELSE stack[i].next
  <2>1. stack \in Seq(Frame) /\ [label |-> label, next |-> 1] \in Frame
    BY <1>0 DEF GraphTypeOK, Frame
  <2> QED BY <1>0, <2>1, AdvancedFacts
<1>4. \A i \in 1 .. n : stack[i].label \in visited /\ stack[i].label # label
  BY <1>0, <1>1 DEF StackIsPath, FrameIsOpen
<1>5. OnStack' = OnStack \cup {label}
  <2>1. \A i \in 1 .. n + 1 : stack'[i].label \in OnStack \cup {label}
    BY <1>3 DEF OnStack
  <2>2. \A i \in 1 .. n : i \in 1 .. n + 1 /\ stack'[i].label = stack[i].label
    BY <1>3
  <2>3. n + 1 \in 1 .. n + 1
    BY <1>3
  <2> QED BY <1>3, <2>1, <2>2, <2>3 DEF OnStack
<1>6. Done' = Done
  BY <1>0, <1>5 DEF Done
<1>7. ASSUME NEW i \in 1 .. n + 1 PROVE FrameIsOpen(i)'
  <2> DEFINE targets == Targets(stack[i].label)
  <2>1. CASE i = n + 1
    <3>1. /\ stack'[i].label = label /\ stack'[i].next = 1 /\ label \in visited'
          /\ \A j \in 1 .. n + 1 : stack'[j].label = label => j = i
          /\ ~(i < Len(stack'))
      BY <1>0, <1>3, <1>4, <2>1
    <3>2. Len(Targets(stack[i].label)') \in Nat
      BY <1>0, <1>2, TargetsType
    <3> QED BY <1>3, <3>1, <3>2 DEF FrameIsOpen
  <2>2. CASE i \in 1 .. n
    <3>1. stack # <<>> /\ FrameIsOpen(i) /\ stack[i].next \in Nat \ {0} /\ Len(targets) \in Nat
      BY <1>0, <1>1, <2>2, TopFacts, TargetsType DEF StackIsPath
    <3>2. Targets(stack[i].label)' = targets
      BY <1>2, <1>3, <2>2
    <3>3. stack'[i].label = stack[i].label /\ i < Len(stack') /\ i + 1 \in 1 .. n + 1
      BY <1>3, <2>2
    <3>4. /\ stack'[i].label \in visited'
          /\ \A j \in 1 .. Len(stack') : stack'[j].label = stack'[i].label => j = i
      <4>1. stack[i].label \in visited' /\ stack[i].label # label
        BY <1>0, <1>4, <2>2
      <4>2. \A j \in 1 .. n : stack[j].label = stack[i].label => j = i
        BY <3>1 DEF FrameIsOpen
      <4>3. \A j \in 1 .. n + 1 : stack'[j].label = stack[i].label => j = i
        BY <1>3, <4>1, <4>2
      <4> QED BY <1>3, <3>3, <4>1, <4>3
    <3>5. CASE i = n
      <4>1. stack[i].next <= Len(targets) /\ targets[stack[i].next] = label
        BY <1>0, <3>1, <3>5, TopFacts
      <4>2. stack'[i].next = stack[i].next + 1 /\ stack'[i + 1].label = label
        BY <1>3, <2>2, <3>5
      <4>3. /\ stack'[i].next >= 2 /\ stack'[i].next <= Len(targets) + 1
            /\ targets[stack'[i].next - 1] = stack'[i + 1].label
        BY <3>1, <4>1, <4>2
      <4>4. \A k \in 1 .. stack'[i].next - 1 : targets[k] \in Done' \/ k = stack'[i].next - 1
        BY <1>6, <3>1, <3>5, <4>2 DEF FrameIsOpen
      <4> QED BY <3>2, <3>3, <3>4, <4>3, <4>4 DEF FrameIsOpen
    <3>6. CASE i # n
      <4>1. i < n /\ stack'[i].next = stack[i].next /\ stack'[i + 1].label = stack[i + 1].label
        BY <1>3, <2>2, <3>6
      <4>2. /\ stack'[i].next >= 2 /\ stack'[i].next <= Len(targets) + 1
            /\ targets[stack'[i].next - 1] = stack'[i + 1].label
        BY <3>1, <4>1 DEF FrameIsOpen
      <4>3. \A k \in 1 .. stack'[i].next - 1 : targets[k] \in Done' \/ k = stack'[i].next - 1
        BY <1>6, <3>1, <4>1 DEF FrameIsOpen
      <4> QED BY <3>2, <3>3, <3>4, <4>2, <4>3 DEF FrameIsOpen
    <3> QED BY <3>5, <3>6
  <2> QED BY <1>3, <2>1, <2>2
<1>8. StackIsPath'
  BY <1>3, <1>7 DEF StackIsPath
<1>9. DoneIsClosed' /\ DoneIsAcyclic' /\ (ResultListsDone => ResultListsDone')
  BY <1>0, <1>1, <1>6, SameDone
<1>10. label \in nodes
  <2>1. CASE stack = <<>>
    BY <1>0, <1>1, <2>1 DEF Calls
  <2>2. CASE stack # <<>>
    BY <1>0, <2>2, TopFacts, TargetsType
  <2> QED BY <2>1, <2>2
<1>11. visited' \subseteq nodes /\ pending' \subseteq nodes /\ nodes \subseteq visited' \cup pending'
  BY <1>0, <1>1, <1>10 DEF Loop
<1> QED BY <1>0, <1>2, <1>5, <1>8, <1>9, <1>11 DEF SearchInv

LEMMA FrontFacts ==
  ASSUME NEW S, NEW s \in Seq(S), s # <<>>
  PROVE  /\ Len(SubSeq(s, 1, Len(s) - 1)) = Len(s) - 1
         /\ \A i \in 1 .. Len(s) - 1 : SubSeq(s, 1, Len(s) - 1)[i] = s[i]
<1> DEFINE m == Len(s) - 1
<1>1. m \in Nat /\ m + 1 = Len(s) /\ \A i \in 1 .. m : s[i] \in S
  OBVIOUS
<1> HIDE DEF m
<1>2. /\ Len(SubSeq(s, 1, m)) = IF 1 <= m THEN m - 1 + 1 ELSE 0
      /\ \A i \in 1 .. m - 1 + 1 : SubSeq(s, 1, m)[i] = s[1 + i - 1]
  BY <1>1, SubSeqProperties
<1> QED BY <1>1, <1>2 DEF m

LEMMA LeaveKeepsInv ==
  ASSUME GraphInv, Leave
  PROVE  SearchInv'
<1> DEFINE n == Len(stack)
           t == stack[n].label
<1>0. /\ GraphTypeOK /\ SearchInv /\ phase # "idle" /\ stack # <<>>
      /\ Top.next \notin DOMAIN Targets(Top.label)
      /\ stack' = SubSeq(stack, 1, n - 1)
      /\ visiting' = visiting \ {Top.label}
      /\ result' = IF phase = "order" THEN Append(result, Top.label) ELSE result
      /\ UNCHANGED <<edges, phase, caller, pending, visited, cyclic, order>>
  BY DEF GraphInv, Leave
<1>1. /\ visited \subseteq nodes /\ nodes \subseteq visited \cup pending
      /\ pending \subseteq nodes /\ StackIsPath /\ DoneIsClosed /\ DoneIsAcyclic
  BY <1>0 DEF SearchInv
<1>2. /\ nodes' = nodes /\ Cycles' = Cycles
      /\ \A l : Targets(l)' = Targets(l) /\ Depends(l)' = Depends(l)
  BY <1>0, SameGraph
<1>3. /\ n \in Nat \ {0} /\ Len(stack') = n - 1 /\ Top.label = t /\ t \in Labels
      /\ \A i \in 1 .. n - 1 : stack'[i] = stack[i]
  <2>1. stack \in Seq(Frame)
    BY <1>0 DEF GraphTypeOK
  <2>2. n \in Nat \ {0} /\ Top.label = t /\ t \in Labels
    BY <1>0, TopFacts
  <2>3. Len(stack') = n - 1 /\ \A i \in 1 .. n - 1 : stack'[i] = stack[i]
    BY <1>0, <2>1, <2>2, FrontFacts
  <2> QED BY <2>2, <2>3
<1>4. FrameIsOpen(n) /\ \A i \in 1 .. n - 1 : FrameIsOpen(i) /\ stack[i].label # t
  <2>1. n \in 1 .. n /\ \A i \in 1 .. n - 1 : i \in 1 .. n /\ i # n
    BY <1>3
  <2>2. \A i \in 1 .. n : FrameIsOpen(i)
    BY <1>1 DEF StackIsPath
  <2>3. \A i \in 1 .. n : stack[i].label = t => i = n
    <3>1. FrameIsOpen(n)
      BY <2>1, <2>2
    <3>2. \A j \in 1 .. Len(stack) : stack[j].label = stack[n].label => j = n
      BY <3>1 DEF FrameIsOpen
    <3> QED BY <3>2
  <2> HIDE DEF n, t
  <2> QED BY <2>1, <2>2, <2>3
<1>5. OnStack = OnStack' \cup {t} /\ t \notin OnStack'
  <2>1. \A i \in 1 .. n - 1 : stack'[i].label = stack[i].label /\ i \in 1 .. n
    BY <1>3
  <2>2. n \in 1 .. n /\ \A i \in 1 .. n : i = n \/ i \in 1 .. n - 1
    BY <1>3
  <2> HIDE DEF n
  <2>3. OnStack' = {stack'[i].label : i \in 1 .. n - 1} /\ OnStack = {stack[i].label : i \in 1 .. n}
    BY <1>3 DEF OnStack, n
  <2> QED BY <1>4, <2>1, <2>2, <2>3
<1>6. Done' = Done \cup {t} /\ t \notin Done
  <2>1. t \in visited
    BY <1>4 DEF FrameIsOpen
  <2> QED BY <1>0, <1>5, <2>1 DEF Done
<1>7. Depends(t) \subseteq Done
  <2>1. Len(Targets(t)) \in Nat /\ DOMAIN Targets(t) = 1 .. Len(Targets(t))
    BY <1>0, TargetsType
  <2>2. stack[n].next \in Nat \ {0} /\ stack[n].next = Len(Targets(t)) + 1
    BY <1>0, <1>3, <1>4, <2>1, TopFacts DEF FrameIsOpen
  <2>3. \A k \in 1 .. Len(Targets(t)) : Targets(t)[k] \in Done
    BY <1>3, <1>4, <2>1, <2>2 DEF FrameIsOpen
  <2> QED BY <1>0, <2>3, TargetsType
<1>8. ASSUME NEW i \in 1 .. n - 1 PROVE FrameIsOpen(i)'
  <2> DEFINE targets == Targets(stack[i].label)
  <2>1. FrameIsOpen(i) /\ stack[i].next \in Nat \ {0} /\ Len(targets) \in Nat
    BY <1>0, <1>3, <1>4, TopFacts, TargetsType
  <2>2. stack'[i] = stack[i] /\ Targets(stack[i].label)' = targets /\ i < n
    BY <1>2, <1>3
  <2>3. /\ stack'[i].label \in visited' /\ stack'[i].next <= Len(targets) + 1
        /\ \A j \in 1 .. Len(stack') : stack'[j].label = stack'[i].label => j = i
    BY <1>0, <1>3, <2>1, <2>2 DEF FrameIsOpen
  <2>4. stack[i].next >= 2 /\ targets[stack[i].next - 1] = stack[i + 1].label
    BY <2>1, <2>2 DEF FrameIsOpen
  <2>5. CASE i = n - 1
    <3>1. \A k \in 1 .. stack[i].next - 1 : targets[k] \in Done'
      BY <1>3, <1>6, <2>1, <2>2, <2>4, <2>5 DEF FrameIsOpen
    <3>2. ~(i < Len(stack'))
      BY <1>3, <2>5
    <3> QED BY <2>2, <2>3, <3>1, <3>2 DEF FrameIsOpen
  <2>6. CASE i # n - 1
    <3>1. i < Len(stack') /\ stack'[i + 1] = stack[i + 1]
      BY <1>3, <2>6
    <3>2. \A k \in 1 .. stack[i].next - 1 : targets[k] \in Done' \/ k = stack[i].next - 1
      BY <1>6, <2>1 DEF FrameIsOpen
    <3> QED BY <2>2, <2>3, <2>4, <3>1, <3>2 DEF FrameIsOpen
  <2> QED BY <2>5, <2>6
<1>9. StackIsPath'
  BY <1>3, <1>8 DEF StackIsPath
<1>10. DoneIsClosed'
  BY <1>1, <1>2, <1>6, <1>7 DEF DoneIsClosed
<1>11. DoneIsAcyclic'
  <2> SUFFICES ASSUME NEW S \in SUBSET Done', S # {}
               PROVE  \E l \in S : S \cap Depends(l) = {}
    BY <1>2 DEF DoneIsAcyclic
  <2>1. CASE S \subseteq {t}
    BY <1>6, <1>7, <2>1
  <2>2. CASE ~(S \subseteq {t})
    <3>1. S \ {t} \in SUBSET Done /\ S \ {t} # {}
      BY <1>6, <2>2
    <3>2. PICK l \in S \ {t} : (S \ {t}) \cap Depends(l) = {}
      BY <1>1, <3>1 DEF DoneIsAcyclic
    <3>3. t \notin Depends(l)
      BY <1>1, <1>6, <3>1 DEF DoneIsClosed
    <3> QED BY <3>2, <3>3
  <2> QED BY <2>1, <2>2
<1>12. ASSUME phase = "order", ResultListsDone PROVE ResultListsDone'
  <2> DEFINE m == Len(result)
  <2>1. /\ m \in Nat /\ Len(result') = m + 1 /\ result'[m + 1] = t
        /\ \A i \in 1 .. m : result'[i] = result[i]
    <3>1. result \in Seq(Labels) /\ result' = Append(result, t)
      BY <1>0, <1>3, <1>12 DEF GraphTypeOK
    <3> QED BY <1>3, <3>1
  <2>2. {result[i] : i \in 1 .. m} = Done
    BY <1>12 DEF ResultListsDone
  <2>3. {result'[i] : i \in 1 .. m + 1} = Done'
    <3>1. \A i \in 1 .. m + 1 : result'[i] \in Done \cup {t}
      BY <2>1, <2>2
    <3>2. \A i \in 1 .. m : i \in 1 .. m + 1 /\ result'[i] = result[i]
      BY <2>1
    <3>3. m + 1 \in 1 .. m + 1
      BY <2>1
    <3> QED BY <1>6, <2>1, <2>2, <3>1, <3>2, <3>3
  <2>4. \A i, j \in 1 .. m + 1 : result'[i] = result'[j] => i = j
    <3>1. \A i \in 1 .. m : result[i] # t
      BY <1>6, <2>2
    <3>2. \A i, j \in 1 .. m : result[i] = result[j] => i = j
      BY <1>12 DEF ResultListsDone
    <3> QED BY <2>1, <3>1, <3>2
  <2>5. ASSUME NEW i \in 1 .. m + 1, NEW l \in Depends(result[i])'
        PROVE  \E j \in 1 .. i - 1 : result'[j] = l
    <3>1. CASE i = m + 1
      <4>1. Depends(result[i])' = Depends(t)
        BY <1>2, <2>1, <3>1
      <4>2. l \in {result[j] : j \in 1 .. m}
        BY <1>7, <2>2, <4>1
      <4> QED BY <2>1, <3>1, <4>2
    <3>2. CASE i \in 1 .. m
      <4>1. Depends(result[i])' = Depends(result[i])
        BY <1>2, <2>1, <3>2
      <4>2. PICK j \in 1 .. i - 1 : result[j] = l
        BY <1>12, <3>2, <4>1 DEF ResultListsDone
      <4>3. j \in 1 .. m
        BY <2>1, <3>2
      <4> QED BY <2>1, <4>2, <4>3
    <3> QED BY <2>1, <3>1, <3>2
  <2> QED BY <2>1, <2>3, <2>4, <2>5 DEF ResultListsDone
<1>13. phase # "order" => result' = result
  BY <1>0
<1>14. phase = "cycle" => visiting' = OnStack'
  BY <1>0, <1>3, <1>5 DEF SearchInv
<1> QED BY <1>0, <1>1, <1>2, <1>9, <1>10, <1>11, <1>12, <1>13, <1>14 DEF SearchInv

-----------------------------------------------------------------------------
(* The invariant *)

LEMMA InitInv == GraphInit => GraphInv
BY TypeInit DEF GraphInit, GraphInv, SearchInv

\* At the end of the loop everything is done.
LEMMA LoopIsOver ==
  ASSUME GraphTypeOK, SearchInv, phase # "idle", stack = <<>>, pending = {}
  PROVE  Done = nodes /\ DoneIsAcyclic
BY DEF SearchInv, Done, OnStack

LEMMA NothingBegun ==
  ASSUME NEW search, NEW loop, Begin(search, loop), loop = nodes'
  PROVE  /\ visited' \subseteq nodes' /\ nodes' \subseteq visited' \cup pending'
         /\ pending' \subseteq nodes' /\ StackIsPath' /\ DoneIsClosed' /\ DoneIsAcyclic'
         /\ OnStack' = {} /\ Done' = {} /\ visiting' = {}
<1>1. stack' = <<>> /\ visited' = {} /\ pending' = nodes' /\ visiting' = {}
  BY DEF Begin
<1>2. OnStack' = {} /\ Done' = {}
  BY <1>1 DEF OnStack, Done
<1>3. StackIsPath'
  BY <1>1 DEF StackIsPath
<1>4. DoneIsClosed' /\ DoneIsAcyclic'
  BY <1>2 DEF DoneIsClosed, DoneIsAcyclic
<1> QED BY <1>1, <1>2, <1>3, <1>4

\* A search begins with its sets empty.
LEMMA BeginInv ==
  ASSUME phase = "idle", SearchInv, Begin("cycle", nodes'), result' = result
  PROVE  SearchInv'
BY NothingBegun DEF SearchInv, Begin

\* The searches keep the invariant.
LEMMA WalkInv ==
  ASSUME GraphInv, WalkStep
  PROVE  GraphInv'
<1>1. SUFFICES SearchInv'
  BY TypeWalk DEF GraphInv
<1>2. ASSUME NEW label \in Labels, FindCycle(label) PROVE SearchInv'
  BY <1>2 DEF FindCycle, Return, SearchInv
<1>3. ASSUME NEW label \in Labels, SkipVisited(label) PROVE SearchInv'
  BY <1>3, SkipKeepsInv
<1>4. ASSUME NEW label \in Labels, Visit(label) PROVE SearchInv'
  BY <1>4, VisitKeepsInv
<1>5. CASE Leave
  BY <1>5, LeaveKeepsInv
<1>6. CASE FindNoCycle
  <2>1. CASE caller = "topological_order"
    <3>1. /\ Begin("order", nodes) /\ phase = "cycle" /\ stack = <<>> /\ pending = {}
          /\ UNCHANGED <<edges, caller, order, result>>
      BY <1>6, <2>1 DEF FindNoCycle
    <3>2. nodes' = nodes /\ Cycles' = Cycles
      BY <3>1, SameGraph
    <3>3. Cycles = {}
      <4>1. Done = nodes /\ DoneIsAcyclic
        BY <3>1, LoopIsOver DEF GraphInv
      <4> QED BY <4>1 DEF DoneIsAcyclic, Cycles, Depends
    <3>4. result' = <<>> /\ phase' = "order" /\ caller' = "topological_order"
      BY <2>1, <3>1 DEF GraphInv, SearchInv, Begin
    <3>5. /\ visited' \subseteq nodes' /\ nodes' \subseteq visited' \cup pending'
          /\ pending' \subseteq nodes' /\ StackIsPath' /\ DoneIsClosed' /\ DoneIsAcyclic'
          /\ Done' = {}
      BY <3>1, <3>2, NothingBegun
    <3>6. ResultListsDone'
      <4>1. Len(result') = 0
        BY <3>4
      <4> QED BY <3>5, <4>1 DEF ResultListsDone
    <3> QED BY <3>2, <3>3, <3>4, <3>5, <3>6 DEF SearchInv
  <2>2. CASE caller # "topological_order"
    BY <1>6, <2>2 DEF FindNoCycle, Return, SearchInv
  <2> QED BY <2>1, <2>2
<1>7. CASE ReturnOrder
  BY <1>7 DEF ReturnOrder, Return, SearchInv
<1> QED BY <1>2, <1>3, <1>4, <1>5, <1>6, <1>7 DEF WalkStep

LEMMA AddEdgeInv ==
  ASSUME GraphInv, NEW dependent \in Labels, NEW dependency \in Labels,
         add_edge(dependent, dependency)
  PROVE  GraphInv'
<1>1. DOMAIN edges' = DOMAIN edges \cup {dependent}
  BY DEF add_edge
<1>2. ASSUME NEW l \in DOMAIN edges' PROVE edges'[l] \in Seq(Labels)
  <2>1. Targets(l) \in Seq(Labels) /\ Append(Targets(l), dependency) \in Seq(Labels)
    BY TargetsType DEF GraphInv
  <2>2. edges'[l] = Targets(l) \/ edges'[l] = Append(Targets(l), dependency)
    BY <1>1, <1>2 DEF add_edge
  <2> QED BY <2>1, <2>2
<1>3. GraphTypeOK'
  BY <1>1, <1>2 DEF add_edge, GraphInv, GraphTypeOK
<1>4. SearchInv'
  BY DEF add_edge, GraphInv, SearchInv
<1> QED BY <1>3, <1>4 DEF GraphInv

LEMMA AskInv ==
  ASSUME GraphInv, NEW who \in {"contains_cycle", "topological_order"}, Ask(who)
  PROVE  GraphInv'
<1>1. /\ phase = "idle" /\ caller' = who /\ Begin("cycle", nodes)
      /\ UNCHANGED <<edges, result, cyclic, order>>
  BY DEF Ask
<1>2. nodes' = nodes /\ nodes \subseteq Labels
  BY <1>1, SameGraph, NodesAreLabels DEF GraphInv
<1>3. SearchInv'
  BY <1>1, <1>2, BeginInv DEF GraphInv
<1>4. <<>> \in Seq(Frame)
  OBVIOUS
<1>5. GraphTypeOK'
  BY <1>1, <1>2, <1>4 DEF GraphInv, GraphTypeOK, Begin
<1> QED BY <1>3, <1>5 DEF GraphInv

LEMMA StutterInv ==
  ASSUME GraphInv, UNCHANGED graphVars
  PROVE  GraphInv'
<1>1. UNCHANGED <<edges, phase, caller, pending, stack, visiting, visited, result,
                  cyclic, order>>
  BY DEF graphVars
<1>2. GraphTypeOK'
  BY <1>1 DEF GraphInv, GraphTypeOK
<1>3. /\ nodes' = nodes /\ Cycles' = Cycles
      /\ \A l : Targets(l)' = Targets(l)
  BY <1>1, SameGraph
<1>4. OnStack' = OnStack /\ Done' = Done
  BY <1>1 DEF OnStack, Done
<1>5. StackIsPath => StackIsPath'
  BY <1>1, <1>4 DEF StackIsPath, FrameIsOpen, Targets
<1> QED BY <1>1, <1>2, <1>3, <1>4, <1>5, SameDone DEF GraphInv, SearchInv

LEMMA NextInv ==
  ASSUME GraphInv, [GraphNext]_graphVars
  PROVE  GraphInv'
BY AddEdgeInv, AskInv, WalkInv, StutterInv DEF GraphNext

\* The inductive invariant of the searches.
THEOREM GraphInvIsInvariant == GraphSpec => []GraphInv
BY InitInv, NextInv, PTL DEF GraphSpec

-----------------------------------------------------------------------------
(* What the searches return *)

\* The step that ends the search for a cycle knows whether there is one.
LEMMA VerdictStep ==
  ASSUME GraphInv, WalkStep, phase = "cycle", phase' # "cycle"
  PROVE  cyclic' <=> Cycles # {}
<1>0. GraphTypeOK /\ SearchInv
  BY DEF GraphInv
<1>1. ASSUME NEW label \in Labels, FindCycle(label) PROVE cyclic' /\ Cycles # {}
  <2>1. /\ StackIsPath /\ visited \subseteq nodes /\ Calls(label)
        /\ label \in OnStack /\ cyclic' = TRUE
    BY <1>0, <1>1 DEF FindCycle, SearchInv
  <2>2. stack # <<>>
    BY <2>1 DEF OnStack
  <2> QED BY <1>0, <2>1, <2>2, BackEdge
<1>2. CASE FindNoCycle
  <2>1. Done = nodes /\ DoneIsAcyclic /\ cyclic' = FALSE
    BY <1>0, <1>2, LoopIsOver DEF FindNoCycle
  <2>2. Cycles = {}
    BY <2>1 DEF DoneIsAcyclic, Cycles, Depends
  <2> QED BY <2>1, <2>2
<1> QED BY <1>1, <1>2 DEF WalkStep, SkipVisited, Visit, Leave, ReturnOrder

\* contains_cycle finds a cycle exactly when there is one, in every graph.
THEOREM CyclesAreFound == GraphSpec => CycleVerdict
<1>1. GraphInv /\ [GraphNext]_graphVars =>
        [phase = "cycle" /\ phase' # "cycle" => (cyclic' <=> Cycles # {})]_graphVars
  <2> SUFFICES ASSUME GraphInv, GraphNext, phase = "cycle", phase' # "cycle"
               PROVE  cyclic' <=> Cycles # {}
    OBVIOUS
  <2>1. WalkStep
    BY DEF GraphNext, add_edge, Ask
  <2> QED BY <2>1, VerdictStep
<1> QED BY <1>1, GraphInvIsInvariant, PTL DEF GraphSpec, CycleVerdict

\* When the loop of topological_order is over, its list is the order.
LEMMA ResultIsOrder ==
  ASSUME GraphInv, phase = "order", stack = <<>>, pending = {}
  PROVE  ListsDependenciesFirst(result)
<1> DEFINE m == Len(result)
<1>1. ResultListsDone /\ Done = nodes /\ result \in Seq(Labels)
  BY LoopIsOver DEF GraphInv, SearchInv, GraphTypeOK
<1>2. m \in Nat /\ DOMAIN result = 1 .. m
  BY <1>1
<1>3. IsInjective(result) /\ ToSet(result) = nodes
  BY <1>1, <1>2 DEF ResultListsDone, IsInjective, ToSet
<1>4. ASSUME NEW i \in DOMAIN result, NEW l \in ToSet(Targets(result[i]))
      PROVE  l \in ToSet(SubSeq(result, 1, i - 1))
  <2>1. PICK j \in 1 .. i - 1 : result[j] = l
    BY <1>1, <1>2, <1>4 DEF ResultListsDone, Depends
  <2>2. /\ SubSeq(result, 1, i - 1) \in Seq(Labels)
        /\ Len(SubSeq(result, 1, i - 1)) = IF 1 <= i - 1 THEN (i - 1) - 1 + 1 ELSE 0
        /\ \A k \in 1 .. (i - 1) - 1 + 1 : SubSeq(result, 1, i - 1)[k] = result[1 + k - 1]
    <3>1. i - 1 \in Int /\ 1 \in Int /\ \A k \in 1 .. i - 1 : result[k] \in Labels
      BY <1>1, <1>2
    <3> QED BY <3>1, SubSeqProperties
  <2>3. j \in DOMAIN SubSeq(result, 1, i - 1) /\ SubSeq(result, 1, i - 1)[j] = l
    BY <1>2, <2>1, <2>2
  <2> QED BY <2>3 DEF ToSet
<1> QED BY <1>3, <1>4 DEF ListsDependenciesFirst

\* topological_order lists every label of a graph without cycles, each after
\* all it depends on, and nothing of a graph with one.
THEOREM OrdersAreTopological == GraphSpec => OrderIsTopological
<1>1. GraphInv /\ [GraphNext]_graphVars =>
        [caller = "topological_order" /\ phase # "idle" /\ phase' = "idle"
           => IF Cycles = {} THEN ListsDependenciesFirst(order') ELSE order' = <<>>]_graphVars
  <2> SUFFICES ASSUME GraphInv, GraphNext, caller = "topological_order",
                      phase # "idle", phase' = "idle"
               PROVE  IF Cycles = {} THEN ListsDependenciesFirst(order') ELSE order' = <<>>
    OBVIOUS
  <2>1. WalkStep
    BY DEF GraphNext, add_edge, Ask
  <2>2. ASSUME NEW label \in Labels, FindCycle(label) PROVE order' = <<>> /\ Cycles # {}
    <3>1. order' = <<>> /\ phase = "cycle" /\ phase' # "cycle" /\ cyclic' = TRUE
      BY <2>2 DEF FindCycle, Return
    <3> QED BY <2>1, <3>1, VerdictStep
  <2>3. CASE ReturnOrder
    <3>1. order' = result /\ Cycles = {}
      BY <2>3 DEF ReturnOrder, GraphInv, SearchInv
    <3>2. ListsDependenciesFirst(result)
      BY <2>3, ResultIsOrder DEF ReturnOrder
    <3> QED BY <3>1, <3>2
  <2> QED BY <2>1, <2>2, <2>3
          DEF WalkStep, SkipVisited, Visit, Leave, FindNoCycle, Begin
<1> QED BY <1>1, GraphInvIsInvariant, PTL DEF GraphSpec, OrderIsTopological

-----------------------------------------------------------------------------
(* The resolver *)

\* Each list of the store is a sequence of releases.
StorageOK ==
  \A p \in DOMAIN releases : \E n \in Nat : releases[p] \in [1 .. n -> Releases]

LEMMA FindType ==
  ASSUME StorageOK, NEW p
  PROVE  /\ \E n \in Nat : DOMAIN find(p) = 1 .. n
         /\ \A i \in DOMAIN find(p) : find(p)[i] \in Releases
<1>1. CASE p \in DOMAIN releases
  BY <1>1 DEF StorageOK, find
<1>2. CASE p \notin DOMAIN releases
  <2>1. DOMAIN find(p) = 1 .. 0
    BY <1>2 DEF find
  <2> QED BY <2>1
<1> QED BY <1>1, <1>2

-----------------------------------------------------------------------------
(* The packages in reach *)

LEMMA ReachIsClosed ==
  ASSUME StorageOK, NEW requirements \in Requirements
  PROVE  /\ reachable_packages(requirements) \subseteq Labels
         /\ DOMAIN requirements \subseteq reachable_packages(requirements)
         /\ \A p \in reachable_packages(requirements) :
              DependenciesOf(p) \subseteq reachable_packages(requirements)
<1>1. DOMAIN requirements \subseteq Labels
  BY PackagesAreLabels
<1>2. \A p : DependenciesOf(p) \subseteq Labels
  BY FindType, PackagesAreLabels DEF DependenciesOf, ToSet
<1> QED BY <1>1, <1>2 DEF reachable_packages

LEMMA DependenciesInReach ==
  ASSUME StorageOK, NEW p, NEW i \in DOMAIN find(p)
  PROVE  DOMAIN find(p)[i].dependencies \subseteq DependenciesOf(p)
BY DEF DependenciesOf, ToSet

-----------------------------------------------------------------------------
(* The formula *)

LEMMA Literals ==
  ASSUME NEW v, NEW a
  PROVE  /\ Is(v).value = (Is(v).variable \in a) <=> v \in a
         /\ Not(v).value = (Not(v).variable \in a) <=> v \notin a
<1>1. Is(v).value = TRUE /\ Is(v).variable = v
  BY DEF Is
<1>2. Not(v).value = FALSE /\ Not(v).variable = v
  BY DEF Not
<1>3. (TRUE = (v \in a)) <=> v \in a
  OBVIOUS
<1>4. (FALSE = (v \in a)) <=> v \notin a
  OBVIOUS
<1>5. Is(v).value = (Is(v).variable \in a) <=> v \in a
  BY <1>1, <1>3
<1>6. Not(v).value = (Not(v).variable \in a) <=> v \notin a
  BY <1>2, <1>4
<1> QED BY <1>5, <1>6

LEMMA Clauses ==
  ASSUME NEW packages, NEW requirements
  PROVE  /\ Root(requirements) \subseteq Formula(packages, requirements)
         /\ \A p \in packages :
              /\ AtLeastOne(p) \subseteq Formula(packages, requirements)
              /\ AtMostOne(p) \subseteq Formula(packages, requirements)
              /\ Implications(p) \subseteq Formula(packages, requirements)
<1>1. Root(requirements) \subseteq Formula(packages, requirements)
  BY DEF Formula
<1>2. ASSUME NEW p \in packages
      PROVE  AtLeastOne(p) \cup AtMostOne(p) \cup Implications(p)
               \subseteq Formula(packages, requirements)
  BY DEF Formula
<1> QED BY <1>1, <1>2

-----------------------------------------------------------------------------
(* A satisfying assignment is a selection. *)

\* Of each package the assignment chooses one release.
LEMMA OneOfEach ==
  ASSUME StorageOK, NEW packages, NEW requirements,
         NEW a \in SUBSET Variables(packages),
         Satisfies(a, Formula(packages, requirements)),
         NEW p, NEW i, <<p, i>> \in a
  PROVE  /\ p \in packages /\ i \in DOMAIN find(p)
         /\ p \in DOMAIN Selected(packages, a)
         /\ Selected(packages, a)[p] = find(p)[i]
<1>1. p \in packages /\ i \in DOMAIN find(p) /\ <<p, i>> \in Variable(p)
  BY DEF Variables, Variable
<1>2. PICK n \in Nat : DOMAIN find(p) = 1 .. n
  BY FindType
<1>3. ASSUME NEW j \in DOMAIN find(p), NEW k \in DOMAIN find(p), j < k,
             <<p, j>> \in a, <<p, k>> \in a
      PROVE  FALSE
  <2> DEFINE clause == {Not(<<p, j>>), Not(<<p, k>>)}
  <2>1. clause \in AtMostOne(p)
    BY <1>3 DEF AtMostOne, Variable
  <2>2. clause \in Formula(packages, requirements)
    BY <1>1, <2>1, Clauses
  <2>3. PICK literal \in clause : literal.value = (literal.variable \in a)
    BY <2>2 DEF Satisfies
  <2> QED BY <1>3, <2>3, Literals
<1> DEFINE First1(k) == /\ <<p, k>> \in a
                        /\ \A j \in 1 .. k - 1 : <<p, j>> \notin a
<1>4. First1(i)
  <2>1. ASSUME NEW j \in 1 .. i - 1, <<p, j>> \in a PROVE FALSE
    <3>1. j \in DOMAIN find(p) /\ j < i
      BY <1>1, <1>2
    <3> QED BY <1>1, <1>3, <2>1, <3>1
  <2> QED BY <2>1
<1>5. \A k \in DOMAIN find(p) : First1(k) => k = i
  <2> SUFFICES ASSUME NEW k \in DOMAIN find(p), <<p, k>> \in a, k # i PROVE FALSE
    OBVIOUS
  <2>1. k < i \/ i < k
    BY <1>1, <1>2
  <2> QED BY <1>1, <1>3, <2>1
<1>6. p \in DOMAIN Selected(packages, a)
  BY <1>1 DEF Selected
<1>7. Selected(packages, a)[p] = find(p)[CHOOSE k \in DOMAIN find(p) : First1(k)]
  BY <1>6 DEF Selected
<1>8. (CHOOSE k \in DOMAIN find(p) : First1(k)) = i
  <2> HIDE DEF First1
  <2> QED BY <1>1, <1>4, <1>5
<1> QED BY <1>1, <1>6, <1>7, <1>8

LEMMA SelectionIsSound ==
  ASSUME StorageOK, NEW requirements \in Requirements,
         NEW a \in Assignments(requirements)
  PROVE  LET selected == Selected(reachable_packages(requirements), a)
         IN  /\ IsSelection(selected, requirements)
             /\ DOMAIN selected \subseteq Labels
             /\ \A p \in DOMAIN selected : selected[p] \in Releases
<1> DEFINE packages == reachable_packages(requirements)
           selected == Selected(packages, a)
           formula  == Formula(packages, requirements)
<1>1. a \in SUBSET Variables(packages) /\ Satisfies(a, formula)
  BY DEF Assignments
<1>2. /\ packages \subseteq Labels /\ DOMAIN requirements \subseteq packages
      /\ \A p \in packages : DependenciesOf(p) \subseteq packages
  BY ReachIsClosed
<1> HIDE DEF packages
<1>3. ASSUME NEW p, NEW i, <<p, i>> \in a
      PROVE  /\ p \in packages /\ i \in DOMAIN find(p)
             /\ p \in DOMAIN selected /\ selected[p] = find(p)[i]
  BY <1>1, <1>3, OneOfEach
<1>4. ASSUME NEW p \in DOMAIN selected
      PROVE  \E i \in DOMAIN find(p) : <<p, i>> \in a /\ p \in packages
  BY DEF Selected, Variable
<1> HIDE DEF selected
<1>5. ASSUME NEW p \in DOMAIN requirements
      PROVE  p \in DOMAIN selected /\ constraint_matches(requirements[p], selected[p].version)
  <2> DEFINE clause == {Is(v) : v \in Accepted(p, requirements[p])}
  <2>1. clause \in Root(requirements)
    BY <1>5 DEF Root
  <2>2. PICK literal \in clause : literal.value = (literal.variable \in a)
    BY <1>1, <2>1, Clauses DEF Satisfies
  <2>3. PICK v \in Accepted(p, requirements[p]) : v \in a
    BY <2>2, Literals
  <2>4. PICK i \in DOMAIN find(p) :
          v = <<p, i>> /\ constraint_matches(requirements[p], find(p)[i].version)
    BY <2>3 DEF Accepted, Variable
  <2> QED BY <1>3, <2>3, <2>4
<1>6. ASSUME NEW p \in DOMAIN selected, NEW d \in DOMAIN selected[p].dependencies
      PROVE  /\ d \in DOMAIN selected
             /\ constraint_matches(selected[p].dependencies[d], selected[d].version)
  <2>1. PICK i \in DOMAIN find(p) : <<p, i>> \in a /\ p \in packages
    BY <1>4
  <2>2. selected[p] = find(p)[i]
    BY <1>3, <2>1
  <2> DEFINE constraint == find(p)[i].dependencies[d]
             clause == {Not(<<p, i>>)} \cup {Is(w) : w \in Accepted(d, constraint)}
  <2>3. clause = Implication(<<p, i>>, d)
    BY DEF Implication
  <2>4. clause \in Implications(p)
    BY <1>6, <2>1, <2>2, <2>3 DEF Implications, Variable
  <2>5. clause \in formula
    BY <2>1, <2>4, Clauses
  <2>6. PICK literal \in clause : literal.value = (literal.variable \in a)
    BY <1>1, <2>5 DEF Satisfies
  <2>7. literal # Not(<<p, i>>)
    BY <2>1, <2>6, Literals
  <2>8. PICK w \in Accepted(d, constraint) : w \in a
    BY <2>6, <2>7, Literals
  <2>9. PICK k \in DOMAIN find(d) :
          w = <<d, k>> /\ constraint_matches(constraint, find(d)[k].version)
    BY <2>8 DEF Accepted, Variable
  <2> QED BY <1>3, <2>2, <2>8, <2>9
<1>7. ASSUME NEW p \in DOMAIN selected PROVE p \in Labels /\ selected[p] \in Releases
  BY <1>2, <1>3, <1>4, FindType
<1> QED BY <1>5, <1>6, <1>7 DEF IsSelection, packages, selected

-----------------------------------------------------------------------------
(* A selection is a satisfying assignment. *)

LEMMA AcceptedIndex ==
  ASSUME NEW p, NEW i \in DOMAIN find(p), NEW constraint,
         constraint_matches(constraint, find(p)[i].version)
  PROVE  <<p, i>> \in Accepted(p, constraint)
BY DEF Accepted, Variable

LEMMA SelectionIsAssignment ==
  ASSUME StorageOK, NEW requirements \in Requirements,
         NEW s \in Selections(reachable_packages(requirements)),
         IsSelection(s, requirements)
  PROVE  Assignments(requirements) # {}
<1> DEFINE packages == reachable_packages(requirements)
           formula  == Formula(packages, requirements)
           chosen   == [p \in packages |-> CHOOSE i \in DOMAIN find(p) : find(p)[i] = s[p]]
           a        == {<<p, chosen[p]>> : p \in packages}
<1>1. /\ DOMAIN s = packages /\ \A p \in packages : s[p] \in ToSet(find(p))
  BY DEF Selections
<1>2. DOMAIN requirements \subseteq packages
  BY ReachIsClosed
<1> HIDE DEF packages
<1>3. ASSUME NEW p \in packages
      PROVE  chosen[p] \in DOMAIN find(p) /\ find(p)[chosen[p]] = s[p]
  BY <1>1 DEF ToSet
<1> HIDE DEF chosen
<1>4. \A p \in packages : <<p, chosen[p]>> \in a
  OBVIOUS
<1>5. \A p, i : <<p, i>> \in a => p \in packages /\ i = chosen[p]
  OBVIOUS
<1>6. a \in SUBSET Variables(packages)
  BY <1>3 DEF Variables, Variable
<1> HIDE DEF a
<1>7. ASSUME NEW clause \in Root(requirements)
      PROVE  \E literal \in clause : literal.value = (literal.variable \in a)
  <2>1. PICK p \in DOMAIN requirements : clause = {Is(v) : v \in Accepted(p, requirements[p])}
    BY DEF Root
  <2>2. <<p, chosen[p]>> \in Accepted(p, requirements[p])
    BY <1>2, <1>3, AcceptedIndex DEF IsSelection
  <2>3. Is(<<p, chosen[p]>>) \in clause
    BY <2>1, <2>2
  <2>4. <<p, chosen[p]>> \in a
    BY <1>2, <1>4
  <2> QED BY <2>3, <2>4, Literals
<1>8. ASSUME NEW p \in packages, NEW clause \in AtLeastOne(p)
      PROVE  \E literal \in clause : literal.value = (literal.variable \in a)
  <2>1. Is(<<p, chosen[p]>>) \in clause
    BY <1>3 DEF AtLeastOne, Variable
  <2> QED BY <1>4, <2>1, Literals
<1>9. ASSUME NEW p \in packages, NEW clause \in AtMostOne(p)
      PROVE  \E literal \in clause : literal.value = (literal.variable \in a)
  <2>1. PICK i \in DOMAIN find(p), j \in DOMAIN find(p) :
          i < j /\ clause = {Not(<<p, i>>), Not(<<p, j>>)}
    BY DEF AtMostOne, Variable
  <2>2. PICK n \in Nat : DOMAIN find(p) = 1 .. n
    BY FindType
  <2>3. i # j
    BY <2>1, <2>2
  <2>4. <<p, i>> \notin a \/ <<p, j>> \notin a
    BY <1>5, <2>3
  <2>5. \A v : v \notin a => Not(v).value = (Not(v).variable \in a)
    BY Literals
  <2>6. Not(<<p, i>>) \in clause /\ Not(<<p, j>>) \in clause
    BY <2>1
  <2> QED BY <2>4, <2>5, <2>6
<1>10. ASSUME NEW p \in packages, NEW clause \in Implications(p)
       PROVE  \E literal \in clause : literal.value = (literal.variable \in a)
  <2>1. PICK i \in DOMAIN find(p) :
          \E d \in DOMAIN find(p)[i].dependencies : clause = Implication(<<p, i>>, d)
    BY DEF Implications, Variable
  <2>2. PICK d \in DOMAIN find(p)[i].dependencies : clause = Implication(<<p, i>>, d)
    BY <2>1
  <2> DEFINE constraint == find(p)[i].dependencies[d]
  <2>3. clause = {Not(<<p, i>>)} \cup {Is(w) : w \in Accepted(d, constraint)}
    BY <2>2 DEF Implication
  <2>4. CASE <<p, i>> \notin a
    BY <2>3, <2>4, Literals
  <2>5. CASE <<p, i>> \in a
    <3>1. find(p)[i] = s[p]
      BY <1>3, <1>5, <2>5
    <3>2. d \in packages /\ constraint_matches(constraint, s[d].version)
      BY <1>1, <2>2, <3>1 DEF IsSelection
    <3>3. <<d, chosen[d]>> \in Accepted(d, constraint)
      BY <1>3, <3>2, AcceptedIndex
    <3> QED BY <1>4, <2>3, <3>2, <3>3, Literals
  <2> QED BY <2>4, <2>5
<1>11. Satisfies(a, formula)
  BY <1>7, <1>8, <1>9, <1>10 DEF Satisfies, Formula
<1> QED BY <1>6, <1>11 DEF Assignments, packages

\* What resolve refuses has no selection.
LEMMA RefusalStep ==
  ASSUME StorageOK, NEW requirements \in Requirements,
         \/ ResolveWithoutReleases(requirements)
         \/ ResolveRejectedRoot(requirements)
         \/ ResolveUnsatisfiable(requirements),
         NEW s \in Selections(reachable_packages(requirements))
  PROVE  ~IsSelection(s, requirements)
<1> DEFINE packages == reachable_packages(requirements)
<1>0. DOMAIN s = packages /\ \A p \in packages : s[p] \in ToSet(find(p))
  BY DEF Selections
<1>1. CASE ResolveWithoutReleases(requirements)
  <2>1. PICK p \in packages : find(p) = <<>>
    BY <1>1 DEF ResolveWithoutReleases, Missing
  <2> QED BY <1>0, <2>1 DEF ToSet
<1>2. CASE ResolveRejectedRoot(requirements)
  <2> SUFFICES ASSUME IsSelection(s, requirements) PROVE FALSE
    OBVIOUS
  <2>1. PICK p \in DOMAIN requirements : Accepted(p, requirements[p]) = {}
    BY <1>2 DEF ResolveRejectedRoot, Rejected
  <2>2. p \in packages /\ constraint_matches(requirements[p], s[p].version)
    BY <1>0 DEF IsSelection
  <2>3. PICK i \in DOMAIN find(p) : find(p)[i] = s[p]
    BY <1>0, <2>2 DEF ToSet
  <2> QED BY <2>1, <2>2, <2>3, AcceptedIndex
<1>3. CASE ResolveUnsatisfiable(requirements)
  BY <1>3, SelectionIsAssignment DEF ResolveUnsatisfiable
<1> QED BY <1>1, <1>2, <1>3

-----------------------------------------------------------------------------
(* The graph of a selection *)

LEMMA LeastOf ==
  ASSUME NEW T \in SUBSET Nat, T # {}
  PROVE  \E m \in T : \A x \in T : m <= x
<1>1. PICK m \in T : \A x \in T : ~(<<x, m>> \in OpToRel(<, Nat))
  BY WFMin, NatLessThanWellFounded
<1>2. \A x \in T : ~(x < m)
  BY <1>1 DEF OpToRel
<1> QED BY <1>2

Lists(T, n, list) ==
  /\ list \in [1 .. n -> T]
  /\ \A i, j \in 1 .. n : i < j => list[i] < list[j]
  /\ \A x \in T : \E i \in 1 .. n : list[i] = x

\* Every finite set of numbers has a list in their order.
LEMMA AscendingExists ==
  \A T \in SUBSET Nat : IsFiniteSet(T) => \E list : Lists(T, Cardinality(T), list)
<1> DEFINE Sizes == {n \in Nat : \A T \in SUBSET Nat :
                       IsFiniteSet(T) /\ Cardinality(T) = n => \E list : Lists(T, n, list)}
<1>1. 0 \in Sizes
  <2> SUFFICES ASSUME NEW T \in SUBSET Nat, IsFiniteSet(T), Cardinality(T) = 0
               PROVE  \E list : Lists(T, 0, list)
    OBVIOUS
  <2>1. T = {}
    BY FS_EmptySet
  <2>2. Lists(T, 0, [i \in 1 .. 0 |-> 0])
    BY <2>1 DEF Lists
  <2> QED BY <2>2
<1>2. ASSUME NEW n \in Nat, n \in Sizes PROVE n + 1 \in Sizes
  <2> SUFFICES ASSUME NEW T \in SUBSET Nat, IsFiniteSet(T), Cardinality(T) = n + 1
               PROVE  \E list : Lists(T, n + 1, list)
    OBVIOUS
  <2>1. T # {}
    BY FS_EmptySet
  <2>2. PICK m \in T : \A x \in T : m <= x
    BY <2>1, LeastOf
  <2>3. T \ {m} \in SUBSET Nat /\ IsFiniteSet(T \ {m}) /\ Cardinality(T \ {m}) = n
    BY FS_RemoveElement
  <2>4. PICK rest : Lists(T \ {m}, n, rest)
    BY <1>2, <2>3
  <2> DEFINE list == [i \in 1 .. n + 1 |-> IF i = 1 THEN m ELSE rest[i - 1]]
  <2>5. \A i \in 1 .. n + 1 : i # 1 => i - 1 \in 1 .. n /\ rest[i - 1] \in T \ {m}
    BY <2>4 DEF Lists
  <2>6. list \in [1 .. n + 1 -> T]
    BY <2>5
  <2>7. ASSUME NEW i \in 1 .. n + 1, NEW j \in 1 .. n + 1, i < j
        PROVE  list[i] < list[j]
    <3>1. j # 1 /\ rest[j - 1] \in T \ {m} /\ list[j] = rest[j - 1]
      BY <2>5, <2>7
    <3>2. CASE i = 1
      <4>1. m \in Nat /\ rest[j - 1] \in Nat /\ m <= rest[j - 1] /\ m # rest[j - 1]
        BY <2>2, <3>1
      <4> QED BY <3>1, <3>2, <4>1
    <3>3. CASE i # 1
      <4>1. i - 1 \in 1 .. n /\ j - 1 \in 1 .. n /\ i - 1 < j - 1
        BY <2>5, <2>7, <3>1, <3>3
      <4>2. rest[i - 1] < rest[j - 1]
        BY <2>4, <4>1 DEF Lists
      <4> QED BY <3>1, <3>3, <4>2
    <3> QED BY <3>2, <3>3
  <2>8. ASSUME NEW x \in T PROVE \E i \in 1 .. n + 1 : list[i] = x
    <3>1. CASE x = m
      <4>1. 1 \in 1 .. n + 1 /\ list[1] = m
        OBVIOUS
      <4> QED BY <3>1, <4>1
    <3>2. CASE x # m
      <4>1. PICK i \in 1 .. n : rest[i] = x
        BY <2>4, <3>2 DEF Lists
      <4>2. i + 1 \in 1 .. n + 1 /\ i + 1 # 1 /\ (i + 1) - 1 = i
        OBVIOUS
      <4>3. list[i + 1] = x
        BY <4>1, <4>2
      <4> QED BY <4>2, <4>3
    <3> QED BY <3>1, <3>2
  <2> HIDE DEF list
  <2>9. Lists(T, n + 1, list)
    BY <2>6, <2>7, <2>8 DEF Lists
  <2> QED BY <2>9
<1> HIDE DEF Sizes
<1>3. Nat \subseteq Sizes
  BY <1>1, <1>2, NatSetInduction
<1>4. ASSUME NEW T \in SUBSET Nat, IsFiniteSet(T)
      PROVE  \E list : Lists(T, Cardinality(T), list)
  <2>1. Cardinality(T) \in Nat
    BY <1>4, FS_CardinalityType
  <2> QED BY <1>3, <1>4, <2>1 DEF Sizes
<1> QED BY <1>4

LEMMA AscendingLists ==
  ASSUME NEW T \in SUBSET Labels, IsFiniteSet(T)
  PROVE  Ascending(T) \in Seq(T) /\ ToSet(Ascending(T)) = T
<1> DEFINE n == Cardinality(T)
<1>1. n \in Nat /\ T \in SUBSET Nat
  BY FS_CardinalityType, LabelsAreOrdered
<1>2. PICK list : Lists(T, n, list)
  BY <1>1, AscendingExists
<1>3. /\ Ascending(T) \in [1 .. n -> T]
      /\ \A x \in T : \E i \in DOMAIN Ascending(T) : Ascending(T)[i] = x
  BY <1>2 DEF Ascending, Lists
<1>4. Ascending(T) \in Seq(T)
  BY <1>1, <1>3
<1> QED BY <1>3, <1>4 DEF ToSet

\* What is selected among the dependencies of a selected package.
Needs(selected, p) == DOMAIN selected[p].dependencies \cap DOMAIN selected

LEMMA SelectedEdgesFacts ==
  ASSUME NEW selected, DOMAIN selected \subseteq Labels,
         \A p \in DOMAIN selected : selected[p] \in Releases
  PROVE  LET graph == SelectedEdges(selected)
         IN  /\ DOMAIN graph = {p \in DOMAIN selected : Needs(selected, p) # {}}
             /\ \A p \in DOMAIN graph :
                  graph[p] \in Seq(Labels) /\ ToSet(graph[p]) = Needs(selected, p)
<1> DEFINE graph == SelectedEdges(selected)
<1>1. graph = [p \in {p \in DOMAIN selected : Needs(selected, p) # {}} |->
                 Ascending(Needs(selected, p))]
  BY DEF SelectedEdges, Needs
<1>2. ASSUME NEW p \in DOMAIN selected
      PROVE  Needs(selected, p) \in SUBSET Labels /\ IsFiniteSet(Needs(selected, p))
  <2>1. IsFiniteSet(DOMAIN selected[p].dependencies)
    BY PackagesAreLabels
  <2>2. Needs(selected, p) \in SUBSET DOMAIN selected[p].dependencies
    BY DEF Needs
  <2>3. IsFiniteSet(Needs(selected, p))
    BY <2>1, <2>2, FS_Subset
  <2> QED BY <2>3 DEF Needs
<1> HIDE DEF graph
<1>3. ASSUME NEW p \in DOMAIN graph
      PROVE  graph[p] \in Seq(Labels) /\ ToSet(graph[p]) = Needs(selected, p)
  <2>1. p \in DOMAIN selected /\ graph[p] = Ascending(Needs(selected, p))
    BY <1>1
  <2>2. /\ Ascending(Needs(selected, p)) \in Seq(Needs(selected, p))
        /\ ToSet(Ascending(Needs(selected, p))) = Needs(selected, p)
    BY <1>2, <2>1, AscendingLists
  <2>3. Ascending(Needs(selected, p)) \in Seq(Labels)
    BY <1>2, <2>1, <2>2
  <2> QED BY <2>1, <2>2, <2>3
<1> QED BY <1>1, <1>3 DEF graph

\* The graph has a cycle exactly when selected packages depend on each other
\* in a circle.
Circles(selected) ==
  {S \in (SUBSET DOMAIN selected) \ {{}} :
     \A p \in S : S \cap DOMAIN selected[p].dependencies # {}}

LEMMA CyclesAreCircles ==
  ASSUME NEW selected, DOMAIN selected \subseteq Labels,
         \A p \in DOMAIN selected : selected[p] \in Releases,
         edges = SelectedEdges(selected)
  PROVE  Cycles # {} <=> Circles(selected) # {}
<1>1. /\ DOMAIN edges = {p \in DOMAIN selected : Needs(selected, p) # {}}
      /\ \A p \in DOMAIN edges : ToSet(edges[p]) = Needs(selected, p)
  BY SelectedEdgesFacts
<1>2. /\ \A p \in DOMAIN edges : ToSet(Targets(p)) = Needs(selected, p)
      /\ \A p : p \notin DOMAIN edges => ToSet(Targets(p)) = {}
  <2>1. ToSet(<<>>) = {}
    BY DEF ToSet
  <2> QED BY <1>1, <2>1 DEF Targets
<1>3. ASSUME NEW S \in Cycles PROVE S \in Circles(selected)
  <2>1. S # {} /\ \A p \in S : S \cap ToSet(Targets(p)) # {}
    BY DEF Cycles
  <2>2. \A p \in S : p \in DOMAIN edges
    BY <1>2, <2>1
  <2>3. \A p \in S : p \in DOMAIN selected /\ S \cap Needs(selected, p) # {}
    BY <1>1, <1>2, <2>1, <2>2
  <2> QED BY <2>1, <2>3 DEF Circles, Needs
<1>4. ASSUME NEW S \in Circles(selected) PROVE S \in Cycles
  <2>1. S # {} /\ \A p \in S : p \in DOMAIN selected /\ S \cap Needs(selected, p) # {}
    BY DEF Circles, Needs
  <2>2. \A p \in S : p \in DOMAIN edges
    BY <1>1, <2>1
  <2>3. \A p \in S : S \cap ToSet(Targets(p)) # {}
    BY <1>2, <2>1, <2>2
  <2> QED BY <2>1, <2>2, <2>3 DEF Cycles, nodes
<1> QED BY <1>3, <1>4

-----------------------------------------------------------------------------
(* The invariant *)

IsResolution ==
  resolution = [satisfiable |-> resolution.satisfiable, selected |-> resolution.selected,
                diagnostics |-> resolution.diagnostics]

\* While resolve searches its graph, that is the graph of its selection.
ResolveSearches ==
  phase # "idle" /\ caller = "resolve" =>
    /\ phase = "cycle"
    /\ resolution.satisfiable /\ Cyclic \notin resolution.diagnostics
    /\ DOMAIN resolution.selected \subseteq Labels
    /\ \A p \in DOMAIN resolution.selected : resolution.selected[p] \in Releases
    /\ edges = SelectedEdges(resolution.selected)

ResolverInv ==
  /\ GraphInv
  /\ StorageOK
  /\ IsResolution
  /\ ResolveSearches
  /\ ResolutionIsSound
  /\ CycleIsReported

LEMMA ResolverInit == Init => ResolverInv
<1> SUFFICES ASSUME Init PROVE ResolverInv
  OBVIOUS
<1>1. GraphInv /\ phase = "idle"
  BY InitInv DEF Init, GraphInit
<1>2. StorageOK
  BY DEF Init, StorageOK, Nothing
<1>3. resolution.satisfiable = FALSE /\ IsResolution
  BY DEF Init, IsResolution
<1> QED BY <1>1, <1>2, <1>3
        DEF ResolverInv, ResolveSearches, ResolutionIsSound, CycleIsReported

LEMMA AddKeepsInv ==
  ASSUME ResolverInv, NEW package \in Labels \cup {NoName}, NEW release \in Releases,
         add(package, release)
  PROVE  ResolverInv'
<1>0. /\ UNCHANGED <<graphVars, asked, resolution>>
      /\ phase = "idle"
  BY DEF add
<1>1. PICK list \in SetToSeqs(ToSet(find(package)) \cup {release}) :
        releases' = [p \in DOMAIN releases \cup {package} |->
                       IF p = package THEN list ELSE releases[p]]
  BY DEF add
<1>2. \E n \in Nat : list \in [1 .. n -> Releases]
  <2> DEFINE old == find(package)
             all == ToSet(old) \cup {release}
  <2>1. PICK m \in Nat : DOMAIN old = 1 .. m
    BY FindType DEF ResolverInv
  <2>2. ToSet(old) \subseteq Releases
    BY FindType DEF ResolverInv, ToSet
  <2>3. old \in Surjection(1 .. m, ToSet(old))
    <3>1. old \in [1 .. m -> ToSet(old)]
      <4>1. old = [i \in 1 .. m |-> old[i]]
        BY <2>1 DEF ResolverInv, StorageOK, find
      <4>2. \A i \in 1 .. m : old[i] \in ToSet(old)
        BY <2>1 DEF ToSet
      <4> HIDE DEF old
      <4> QED BY <4>1, <4>2
    <3> QED BY <2>1, <3>1 DEF Surjection, ToSet
  <2>4. IsFiniteSet(1 .. m)
    BY <2>1, FS_Interval
  <2>5. IsFiniteSet(ToSet(old))
    BY <2>3, <2>4, FS_Surjection
  <2>6. IsFiniteSet(all) /\ Cardinality(all) \in Nat
    <3> HIDE DEF old
    <3>1. IsFiniteSet(all)
      BY <2>5, FS_AddElement
    <3> QED BY <3>1, FS_CardinalityType
  <2>7. list \in [1 .. Cardinality(all) -> all]
    BY <1>1 DEF SetToSeqs
  <2> QED BY <2>2, <2>6, <2>7
<1>3. StorageOK'
  BY <1>1, <1>2 DEF StorageOK, ResolverInv
<1>4. GraphInv' /\ phase' = "idle"
  BY <1>0, StutterInv DEF ResolverInv, graphVars
<1>5. IsResolution' /\ ResolutionIsSound' /\ CycleIsReported'
  BY <1>0 DEF ResolverInv, IsResolution, ResolutionIsSound, CycleIsReported, graphVars,
              IsSelection
<1> QED BY <1>3, <1>4, <1>5 DEF ResolverInv, ResolveSearches

\* A refusal leaves no search running.
LEMMA RefuseKeepsInv ==
  ASSUME ResolverInv, phase = "idle", UNCHANGED releases,
         NEW diagnostic, NEW others, Refuse(diagnostic, others)
  PROVE  ResolverInv'
<1>1. /\ resolution' = [satisfiable |-> FALSE, selected |-> Nothing,
                        diagnostics |-> {diagnostic} \cup others]
      /\ edges' = NoEdges
      /\ UNCHANGED <<phase, caller, pending, stack, visiting, visited, result, cyclic, order>>
  BY DEF Refuse
<1>2. GraphTypeOK'
  <2>1. DOMAIN edges' = {}
    BY <1>1 DEF NoEdges
  <2> QED BY <1>1, <2>1 DEF ResolverInv, GraphInv, GraphTypeOK
<1>3. SearchInv'
  BY <1>1 DEF ResolverInv, GraphInv, SearchInv
<1>4. StorageOK'
  BY DEF ResolverInv, StorageOK
<1>5. ~resolution'.satisfiable /\ IsResolution'
  BY <1>1 DEF IsResolution
<1> QED BY <1>1, <1>2, <1>3, <1>4, <1>5
        DEF ResolverInv, GraphInv, ResolveSearches, ResolutionIsSound, CycleIsReported

\* A selection leaves the search of its graph to do.
LEMMA SelectKeepsInv ==
  ASSUME ResolverInv, phase = "idle", UNCHANGED releases,
         NEW requirements \in Requirements, asked' = requirements,
         ResolveSelected(requirements)
  PROVE  ResolverInv'
<1> DEFINE packages == reachable_packages(requirements)
<1>0. StorageOK /\ GraphTypeOK /\ SearchInv
  BY DEF ResolverInv, GraphInv
<1>1. PICK a \in Assignments(requirements) :
        /\ resolution' = [satisfiable |-> TRUE, selected |-> Selected(packages, a),
                          diagnostics |-> Unsatisfied(packages)]
        /\ edges' = SelectedEdges(Selected(packages, a))
        /\ Begin("cycle", nodes')
        /\ caller' = "resolve"
        /\ UNCHANGED <<result, cyclic, order>>
  BY DEF ResolveSelected
<1> DEFINE selected == Selected(packages, a)
<1>2. /\ IsSelection(selected, requirements)
      /\ DOMAIN selected \subseteq Labels
      /\ \A p \in DOMAIN selected : selected[p] \in Releases
  BY <1>0, SelectionIsSound
<1>3. Cyclic \notin Unsatisfied(packages)
  <2>1. ASSUME NEW d \in Unsatisfied(packages) PROVE d.message = "unsatisfied dependency"
    <3>1. \E v : d = Diagnostic(v[1], v[2], "unsatisfied dependency")
      BY DEF Unsatisfied
    <3>2. \A package, release, message :
            Diagnostic(package, release, message).message = message
      BY DEF Diagnostic
    <3>3. PICK v : d = Diagnostic(v[1], v[2], "unsatisfied dependency")
      BY <3>1
    <3>4. Diagnostic(v[1], v[2], "unsatisfied dependency").message = "unsatisfied dependency"
      BY <3>2
    <3> QED BY <3>3, <3>4
  <2>2. Cyclic.message = "cycle"
    BY DEF Cyclic, Diagnostic
  <2> QED BY <2>1, <2>2
<1> DEFINE diagnostics == Unsatisfied(packages)
<1>4. /\ resolution' = [satisfiable |-> TRUE, selected |-> selected,
                        diagnostics |-> diagnostics]
      /\ edges' = SelectedEdges(selected)
  BY <1>1
<1> HIDE DEF selected, diagnostics
<1>5. /\ resolution'.satisfiable = TRUE /\ resolution'.selected = selected
      /\ resolution'.diagnostics = diagnostics /\ IsResolution'
  BY <1>4 DEF IsResolution
<1>6. /\ DOMAIN edges' \subseteq Labels
      /\ \A l \in DOMAIN edges' : edges'[l] \in Seq(Labels)
  <2>1. /\ DOMAIN SelectedEdges(selected)
             = {p \in DOMAIN selected : Needs(selected, p) # {}}
        /\ \A p \in DOMAIN SelectedEdges(selected) :
             SelectedEdges(selected)[p] \in Seq(Labels)
    BY <1>2, SelectedEdgesFacts
  <2> QED BY <1>2, <1>4, <2>1
<1>7. nodes' \subseteq Labels
  BY <1>6 DEF nodes, ToSet
<1>8. /\ phase' = "cycle" /\ caller' = "resolve" /\ pending' = nodes'
      /\ stack' = <<>> /\ visiting' = {} /\ visited' = {}
      /\ UNCHANGED <<result, cyclic, order>>
  BY <1>1 DEF Begin
<1>9. GraphTypeOK'
  <2>1. <<>> \in Seq(Frame)
    OBVIOUS
  <2> QED BY <1>0, <1>6, <1>7, <1>8, <2>1 DEF GraphTypeOK
<1>10. SearchInv'
  BY <1>0, <1>1, <1>8, BeginInv
<1>11. StorageOK'
  BY <1>0 DEF StorageOK
<1>12. ResolveSearches'
  BY <1>2, <1>3, <1>4, <1>5, <1>8 DEF ResolveSearches, diagnostics
<1>13. ResolutionIsSound'
  BY <1>2, <1>5 DEF ResolutionIsSound, IsSelection
<1>14. CycleIsReported'
  BY <1>8 DEF CycleIsReported
<1> QED BY <1>5, <1>9, <1>10, <1>11, <1>12, <1>13, <1>14 DEF ResolverInv, GraphInv

LEMMA ResolveKeepsInv ==
  ASSUME ResolverInv, NEW requirements \in Requirements, resolve(requirements)
  PROVE  ResolverInv'
<1>0. phase = "idle" /\ UNCHANGED releases /\ asked' = requirements
  BY DEF resolve
<1>1. CASE ResolveWithoutReleases(requirements)
  BY <1>0, <1>1, RefuseKeepsInv DEF ResolveWithoutReleases
<1>2. CASE ResolveRejectedRoot(requirements)
  BY <1>0, <1>2, RefuseKeepsInv DEF ResolveRejectedRoot
<1>3. CASE ResolveUnsatisfiable(requirements)
  BY <1>0, <1>3, RefuseKeepsInv DEF ResolveUnsatisfiable
<1>4. CASE ResolveSelected(requirements)
  BY <1>0, <1>4, SelectKeepsInv
<1> QED BY <1>1, <1>2, <1>3, <1>4 DEF resolve

\* A step of a search changes neither the graph nor who asked; it goes from
\* the search for a cycle to an order only for topological_order.
LEMMA WalkFacts ==
  ASSUME GraphInv, WalkStep
  PROVE  /\ phase # "idle" /\ edges' = edges /\ caller' = caller
         /\ phase = "cycle" /\ caller = "resolve" => phase' \in {"idle", "cycle"}
<1>1. ASSUME NEW label \in Labels, FindCycle(label) \/ SkipVisited(label) \/ Visit(label)
      PROVE  /\ phase # "idle" /\ edges' = edges /\ caller' = caller
             /\ phase' \in {"idle", phase}
  BY <1>1 DEF FindCycle, SkipVisited, Visit, Return
<1>2. CASE Leave
  BY <1>2 DEF Leave
<1>3. CASE FindNoCycle
  BY <1>3 DEF FindNoCycle, Begin, Return
<1>4. CASE ReturnOrder
  BY <1>4 DEF ReturnOrder, Return
<1> QED BY <1>1, <1>2, <1>3, <1>4 DEF WalkStep

LEMMA SearchKeepsInv ==
  ASSUME ResolverInv, SearchGraph
  PROVE  ResolverInv'
<1>0. /\ GraphInv /\ WalkStep /\ UNCHANGED <<releases, asked>>
      /\ phase # "idle" /\ edges' = edges /\ caller' = caller
      /\ phase = "cycle" /\ caller = "resolve" => phase' \in {"idle", "cycle"}
  BY WalkFacts DEF ResolverInv, SearchGraph
<1>1. GraphInv' /\ StorageOK'
  BY <1>0, WalkInv DEF ResolverInv, StorageOK
<1>2. ResolutionIsSound /\ IsResolution /\ ResolveSearches
  BY DEF ResolverInv
<1>3. CASE caller # "resolve"
  <2>1. resolution' = resolution
    BY <1>3 DEF SearchGraph
  <2> QED BY <1>0, <1>1, <1>2, <1>3, <2>1
          DEF ResolverInv, IsResolution, ResolveSearches, ResolutionIsSound, IsSelection,
              CycleIsReported
<1>4. CASE caller = "resolve" /\ phase' # "idle"
  <2>1. resolution' = resolution /\ phase' = "cycle" /\ phase = "cycle"
    BY <1>0, <1>2, <1>4 DEF SearchGraph, ResolveSearches
  <2>2. ResolveSearches'
    <3>1. edges' = SelectedEdges(resolution.selected)
      BY <1>0, <1>2, <1>4, <2>1 DEF ResolveSearches
    <3> QED BY <1>2, <1>4, <1>0, <2>1, <3>1 DEF ResolveSearches
  <2>3. ResolutionIsSound' /\ IsResolution' /\ CycleIsReported'
    BY <1>0, <1>2, <1>4, <2>1
       DEF ResolutionIsSound, IsResolution, CycleIsReported, IsSelection
  <2> QED BY <1>1, <2>2, <2>3 DEF ResolverInv
<1>5. CASE caller = "resolve" /\ phase' = "idle"
  <2> DEFINE selected == resolution.selected
  <2>1. /\ phase = "cycle" /\ Cyclic \notin resolution.diagnostics
        /\ DOMAIN selected \subseteq Labels
        /\ \A p \in DOMAIN selected : selected[p] \in Releases
        /\ edges = SelectedEdges(selected)
    BY <1>0, <1>2, <1>5 DEF ResolveSearches
  <2>2. cyclic' <=> Circles(selected) # {}
    BY <1>0, <1>5, <2>1, VerdictStep, CyclesAreCircles
  <2>3. /\ resolution'.satisfiable = resolution.satisfiable
        /\ resolution'.selected = selected
        /\ Cyclic \in resolution'.diagnostics <=> cyclic'
        /\ IsResolution'
    <3>1. CASE cyclic'
      BY <1>2, <1>5, <3>1 DEF SearchGraph, IsResolution
    <3>2. CASE ~cyclic'
      BY <1>2, <1>5, <2>1, <3>2 DEF SearchGraph, IsResolution
    <3> QED BY <3>1, <3>2
  <2>4. CycleIsReported'
    BY <2>2, <2>3 DEF CycleIsReported, Circles
  <2>5. ResolutionIsSound'
    BY <1>0, <1>2, <2>3 DEF ResolutionIsSound, IsSelection
  <2> QED BY <1>1, <1>5, <2>3, <2>4, <2>5 DEF ResolverInv, ResolveSearches
<1> QED BY <1>3, <1>4, <1>5

LEMMA UseKeepsInv ==
  ASSUME ResolverInv, UseGraph
  PROVE  ResolverInv'
<1>0. GraphInv /\ UNCHANGED <<releases, asked, resolution>>
  BY DEF ResolverInv, UseGraph
<1>1. /\ GraphInv' /\ phase = "idle"
      /\ phase' = "idle" \/ caller' # "resolve"
  <2>1. ASSUME NEW l \in Labels, NEW m \in Labels, add_edge(l, m)
        PROVE  GraphInv' /\ phase = "idle" /\ phase' = "idle"
    BY <1>0, <2>1, AddEdgeInv DEF add_edge
  <2>2. ASSUME NEW who \in {"contains_cycle", "topological_order"}, Ask(who)
        PROVE  GraphInv' /\ phase = "idle" /\ caller' # "resolve"
    BY <1>0, <2>2, AskInv DEF Ask
  <2> QED BY <2>1, <2>2 DEF UseGraph
<1>2. StorageOK' /\ IsResolution' /\ ResolutionIsSound'
  BY <1>0 DEF ResolverInv, StorageOK, IsResolution, ResolutionIsSound, IsSelection
<1>3. CycleIsReported'
  BY <1>0, <1>1 DEF ResolverInv, CycleIsReported
<1> QED BY <1>1, <1>2, <1>3 DEF ResolverInv, ResolveSearches

LEMMA NextKeepsInv ==
  ASSUME ResolverInv, [Next]_vars
  PROVE  ResolverInv'
<1>1. CASE UNCHANGED vars
  <2>1. UNCHANGED <<graphVars, releases, asked, resolution>>
    BY <1>1 DEF vars
  <2>2. GraphInv' /\ UNCHANGED <<phase, caller, edges>>
    BY <2>1, StutterInv DEF ResolverInv, graphVars
  <2> QED BY <2>1, <2>2
          DEF ResolverInv, StorageOK, IsResolution, ResolveSearches, ResolutionIsSound,
              CycleIsReported, IsSelection
<1>2. CASE Next
  BY <1>2, AddKeepsInv, ResolveKeepsInv, SearchKeepsInv, UseKeepsInv DEF Next
<1> QED BY <1>1, <1>2

\* The inductive invariant of the resolver and its graph.
THEOREM ResolverInvIsInvariant == Spec => []ResolverInv
BY ResolverInit, NextKeepsInv, PTL DEF Spec

-----------------------------------------------------------------------------
(* What resolve promises *)

\* What resolve calls satisfiable has one release of each package, as the
\* requirements and the releases chosen demand.
THEOREM ResolutionsAreSound == Spec => []ResolutionIsSound
<1>1. ResolverInv => ResolutionIsSound
  BY DEF ResolverInv
<1> QED BY <1>1, ResolverInvIsInvariant, PTL

\* A resolution that is returned has the cycle's diagnostic exactly when the
\* releases it selected depend on each other in a circle.
THEOREM CyclesAreReported == Spec => []CycleIsReported
<1>1. ResolverInv => CycleIsReported
  BY DEF ResolverInv
<1> QED BY <1>1, ResolverInvIsInvariant, PTL

\* resolve refuses only what no choice of releases satisfies: nothing the
\* formula leaves out or adds makes it miss a selection.
THEOREM RefusalsAreJustified == Spec => RefusalIsJustified
<1> DEFINE Refused == <<asked, resolution>>' # <<asked, resolution>> /\ ~resolution'.satisfiable
           Justified == \A s \in Selections(reachable_packages(asked')) : ~IsSelection(s, asked')
<1>1. ASSUME ResolverInv, Next, Refused
      PROVE  Justified
  <2>1. ASSUME NEW package \in Labels \cup {NoName}, NEW release \in Releases,
               add(package, release)
        PROVE  FALSE
    BY <1>1, <2>1 DEF add
  <2>2. ASSUME NEW requirements \in Requirements, resolve(requirements)
        PROVE  Justified
    <3>1. asked' = requirements
      BY <2>2 DEF resolve
    <3>2. ~ResolveSelected(requirements)
      BY <1>1 DEF ResolveSelected
    <3>3. \/ ResolveWithoutReleases(requirements)
          \/ ResolveRejectedRoot(requirements)
          \/ ResolveUnsatisfiable(requirements)
      BY <2>2, <3>2 DEF resolve
    <3>4. StorageOK
      BY <1>1 DEF ResolverInv
    <3> QED BY <3>1, <3>3, <3>4, RefusalStep
  <2>3. CASE SearchGraph
    <3>1. phase # "idle" /\ asked' = asked
      BY <1>1, <2>3, WalkFacts DEF SearchGraph, ResolverInv
    <3>2. CASE caller = "resolve"
      BY <1>1, <2>3, <3>1, <3>2 DEF SearchGraph, ResolverInv, ResolveSearches, IsResolution
    <3>3. CASE caller # "resolve"
      BY <1>1, <2>3, <3>1, <3>3 DEF SearchGraph
    <3> QED BY <3>2, <3>3
  <2>4. CASE UseGraph
    BY <1>1, <2>4 DEF UseGraph
  <2> QED BY <1>1, <2>1, <2>2, <2>3, <2>4 DEF Next
<1>2. ResolverInv /\ [Next]_vars => [Refused => Justified]_vars
  BY <1>1
<1> QED BY <1>2, ResolverInvIsInvariant, PTL DEF Spec, RefusalIsJustified

-----------------------------------------------------------------------------
(* A search ends: the steps it has left *)

\* The search has gone past an edge, or has left the label it begins at.
IsBehind(l, k) ==
  \/ l \in Done
  \/ \E i \in 1 .. Len(stack) : stack[i].label = l /\ k < stack[i].next

EdgesOf(l) == {l} \X (1 .. Len(Targets(l)))
AllEdges == UNION {EdgesOf(l) : l \in DOMAIN edges}
EdgesLeft == {e \in AllEdges : ~IsBehind(e[1], e[2])}

\* The labels the loop has not come to, the visits not begun and not over, and
\* the edges ahead.
StepsLeft ==
  Cardinality(pending) + Cardinality(nodes \ visited) + Cardinality(nodes \ Done)
    + Cardinality(EdgesLeft)

\* An edge is one of AllEdges; edges that stay leave both as they are.
LEMMA EdgeFacts ==
  ASSUME GraphTypeOK
  PROVE  /\ \A l : \A k \in 1 .. Len(Targets(l)) : <<l, k>> \in AllEdges
         /\ edges' = edges => AllEdges' = AllEdges
<1>1. ASSUME NEW l, NEW k \in 1 .. Len(Targets(l)) PROVE <<l, k>> \in AllEdges
  <2>1. l \in DOMAIN edges
    BY <1>1 DEF Targets
  <2>2. <<l, k>> \in EdgesOf(l)
    BY DEF EdgesOf
  <2> QED BY <2>1, <2>2 DEF AllEdges
<1>2. ASSUME edges' = edges PROVE AllEdges' = AllEdges
  BY <1>2 DEF AllEdges, EdgesOf, Targets
<1> QED BY <1>1, <1>2

\* A label passed by, in the loop or as a target.
LEMMA SkipShrinks ==
  ASSUME GraphInv, NEW label \in Labels, SkipVisited(label)
  PROVE  /\ nodes' = nodes /\ pending' \subseteq pending /\ visited' = visited
         /\ Done' = Done /\ EdgesLeft' \subseteq EdgesLeft
         /\ pending' # pending \/ EdgesLeft' # EdgesLeft
<1>0. /\ GraphTypeOK /\ SearchInv /\ phase # "idle" /\ Calls(label)
      /\ stack' = Advanced /\ pending' = Loop(label)
      /\ edges' = edges /\ visited' = visited
  BY DEF GraphInv, SkipVisited
<1>1. StackIsPath
  BY <1>0 DEF SearchInv
<1>2. nodes' = nodes /\ AllEdges' = AllEdges
  BY <1>0, SameGraph, EdgeFacts
<1>3. CASE stack = <<>>
  <2>1. stack' = stack /\ pending' = pending \ {label} /\ label \in pending
    BY <1>0, <1>3 DEF Advanced, Loop, Calls
  <2>2. Done' = Done
    BY <1>0, <2>1 DEF Done, OnStack
  <2>3. \A l, k : IsBehind(l, k)' = IsBehind(l, k)
    BY <2>1, <2>2 DEF IsBehind
  <2>4. EdgesLeft' = EdgesLeft
    BY <1>2, <2>3 DEF EdgesLeft
  <2> QED BY <1>0, <1>2, <2>1, <2>2, <2>4
<1>4. CASE stack # <<>>
  <2> DEFINE n == Len(stack)
  <2>1. /\ n \in Nat \ {0} /\ Len(stack') = n /\ pending' = pending
        /\ \A i \in 1 .. n :
             /\ stack[i].next \in Nat
             /\ stack'[i].label = stack[i].label
             /\ stack'[i].next = IF i = n THEN stack[i].next + 1 ELSE stack[i].next
    BY <1>0, <1>4, AdvancedFacts, TopFacts DEF Loop
  <2>2. PICK t \in Labels, k0 \in Nat :
          t = stack[n].label /\ k0 = stack[n].next /\ k0 \in 1 .. Len(Targets(t))
    <3>1. stack[n].label \in Labels /\ stack[n].next \in 1 .. Len(Targets(stack[n].label))
      BY <1>0, <1>4, TopFacts, TargetsType
    <3> QED BY <3>1
  <2> HIDE DEF n
  <2>3. Done' = Done
    <3>1. OnStack' = OnStack
      BY <2>1 DEF OnStack, n
    <3> QED BY <1>0, <3>1 DEF Done
  <2>4. \A l : \A k \in Nat : IsBehind(l, k) => IsBehind(l, k)'
    BY <2>1, <2>3 DEF IsBehind, n
  <2>5. IsBehind(t, k0)'
    <3>1. n \in 1 .. Len(stack') /\ stack'[n].label = t /\ k0 < stack'[n].next
      BY <2>1, <2>2
    <3> QED BY <3>1 DEF IsBehind
  <2>6. ~IsBehind(t, k0)
    <3>1. n \in 1 .. n /\ FrameIsOpen(n)
      BY <1>1, <2>1 DEF StackIsPath, n
    <3>2. \A i \in 1 .. n : stack[i].label = t => i = n
      BY <2>2, <3>1 DEF FrameIsOpen, n
    <3>3. t \notin Done
      BY <2>2, <3>1 DEF Done, OnStack, n
    <3>4. ~(k0 < stack[n].next)
      BY <2>2
    <3> QED BY <3>2, <3>3, <3>4 DEF IsBehind, n
  <2>7. <<t, k0>> \in EdgesLeft /\ <<t, k0>> \notin EdgesLeft'
    BY <1>0, <2>2, <2>5, <2>6, EdgeFacts DEF EdgesLeft
  <2>8. EdgesLeft' \subseteq EdgesLeft
    <3>1. \A e \in AllEdges : e[2] \in Nat
      BY DEF AllEdges, EdgesOf
    <3> QED BY <1>2, <2>4, <3>1 DEF EdgesLeft
  <2> QED BY <1>0, <1>2, <2>1, <2>3, <2>7, <2>8
<1> QED BY <1>3, <1>4

\* A visit that begins.
LEMMA VisitShrinks ==
  ASSUME GraphInv, NEW label \in Labels, Visit(label)
  PROVE  /\ nodes' = nodes /\ pending' \subseteq pending
         /\ visited' = visited \cup {label} /\ label \in nodes \ visited
         /\ Done' = Done /\ EdgesLeft' \subseteq EdgesLeft
<1> DEFINE n == Len(stack)
<1>0. /\ GraphTypeOK /\ SearchInv /\ phase # "idle" /\ Calls(label) /\ label \notin visited
      /\ stack' = Append(Advanced, [label |-> label, next |-> 1])
      /\ pending' = Loop(label) /\ visited' = visited \cup {label} /\ edges' = edges
  BY DEF GraphInv, Visit
<1>1. StackIsPath /\ pending \subseteq nodes
  BY <1>0 DEF SearchInv
<1>2. nodes' = nodes /\ AllEdges' = AllEdges
  BY <1>0, SameGraph, EdgeFacts
<1>3. label \in nodes
  <2>1. CASE stack = <<>>
    BY <1>0, <1>1, <2>1 DEF Calls
  <2>2. CASE stack # <<>>
    BY <1>0, <2>2, TopFacts, TargetsType
  <2> QED BY <2>1, <2>2
<1>4. /\ n \in Nat /\ Len(stack') = n + 1 /\ stack'[n + 1].label = label
      /\ \A i \in 1 .. n :
           /\ stack[i].next \in Nat
           /\ stack'[i].label = stack[i].label
           /\ stack'[i].next = IF i = n THEN stack[i].next + 1 ELSE stack[i].next
  <2>1. /\ Advanced \in Seq(Frame) /\ Len(Advanced) = n
        /\ \A i \in 1 .. n :
             /\ Advanced[i].label = stack[i].label
             /\ Advanced[i].next = IF i = n THEN stack[i].next + 1 ELSE stack[i].next
    BY <1>0, AdvancedFacts
  <2>2. n \in Nat /\ \A i \in 1 .. n : stack[i].next \in Nat
    <3>1. stack \in Seq(Frame)
      BY <1>0 DEF GraphTypeOK
    <3>2. n \in Nat /\ \A i \in 1 .. n : stack[i] \in Frame
      BY <3>1
    <3> QED BY <3>2 DEF Frame
  <2> QED BY <1>0, <2>1, <2>2
<1> HIDE DEF n
<1>5. Done' = Done
  <2>1. OnStack' = OnStack \cup {label}
    <3>1. \A i \in 1 .. n + 1 : i = n + 1 \/ i \in 1 .. n
      BY <1>4
    <3>2. n + 1 \in 1 .. n + 1 /\ \A i \in 1 .. n : i \in 1 .. n + 1
      BY <1>4
    <3> QED BY <1>4, <3>1, <3>2 DEF OnStack, n
  <2> QED BY <1>0, <2>1 DEF Done
<1>6. \A l : \A k \in Nat : IsBehind(l, k) => IsBehind(l, k)'
  <2> SUFFICES ASSUME NEW l, NEW k \in Nat, IsBehind(l, k) PROVE IsBehind(l, k)'
    OBVIOUS
  <2>1. CASE l \in Done
    BY <1>5, <2>1 DEF IsBehind
  <2>2. CASE l \notin Done
    <3>1. PICK i \in 1 .. n : stack[i].label = l /\ k < stack[i].next
      BY <2>2 DEF IsBehind, n
    <3>2. i \in 1 .. Len(stack') /\ stack'[i].label = l /\ k < stack'[i].next
      BY <1>4, <3>1
    <3> QED BY <3>2 DEF IsBehind
  <2> QED BY <2>1, <2>2
<1>7. EdgesLeft' \subseteq EdgesLeft
  <2>1. \A e \in AllEdges : e[2] \in Nat
    BY DEF AllEdges, EdgesOf
  <2> QED BY <1>2, <1>6, <2>1 DEF EdgesLeft
<1> QED BY <1>0, <1>2, <1>3, <1>5, <1>7 DEF Loop

\* A visit that is over.
LEMMA LeaveShrinks ==
  ASSUME GraphInv, Leave
  PROVE  /\ nodes' = nodes /\ pending' = pending /\ visited' = visited
         /\ \E t \in nodes \ Done : Done' = Done \cup {t}
         /\ EdgesLeft' \subseteq EdgesLeft
<1> DEFINE n == Len(stack)
           t == stack[n].label
<1>0. /\ GraphTypeOK /\ SearchInv /\ phase # "idle" /\ stack # <<>>
      /\ stack' = SubSeq(stack, 1, n - 1)
      /\ edges' = edges /\ pending' = pending /\ visited' = visited
  BY DEF GraphInv, Leave
<1>1. visited \subseteq nodes /\ StackIsPath
  BY <1>0 DEF SearchInv
<1>2. nodes' = nodes /\ AllEdges' = AllEdges
  BY <1>0, SameGraph, EdgeFacts
<1>3. /\ n \in Nat \ {0} /\ Len(stack') = n - 1
      /\ \A i \in 1 .. n - 1 : stack'[i] = stack[i]
  <2>1. stack \in Seq(Frame) /\ n \in Nat \ {0}
    BY <1>0, TopFacts DEF GraphTypeOK
  <2> QED BY <1>0, <2>1, FrontFacts
<1> HIDE DEF n, t
<1>4. t \in visited /\ t \in OnStack /\ \A i \in 1 .. n : stack[i].label = t => i = n
  <2>1. n \in 1 .. n /\ FrameIsOpen(n)
    BY <1>1, <1>3 DEF StackIsPath, n
  <2> QED BY <2>1 DEF FrameIsOpen, OnStack, n, t
<1>5. \A i \in 1 .. n : i = n \/ i \in 1 .. n - 1
  BY <1>3
<1>6. OnStack' = OnStack \ {t}
  <2>1. \A i \in 1 .. n - 1 : i \in 1 .. n /\ i # n
    BY <1>3
  <2>2. OnStack' = {stack[i].label : i \in 1 .. n - 1}
    BY <1>3 DEF OnStack
  <2>3. OnStack = {stack[i].label : i \in 1 .. n}
    BY DEF OnStack, n
  <2> QED BY <1>4, <1>5, <2>1, <2>2, <2>3 DEF t
<1>7. Done' = Done \cup {t} /\ t \notin Done
  BY <1>0, <1>4, <1>6 DEF Done
<1>8. \A l, k : IsBehind(l, k) => IsBehind(l, k)'
  <2> SUFFICES ASSUME NEW l, NEW k, IsBehind(l, k), l \notin Done' PROVE IsBehind(l, k)'
    BY DEF IsBehind
  <2>1. l \notin Done /\ l # t
    BY <1>7
  <2>2. PICK i \in 1 .. n : stack[i].label = l /\ k < stack[i].next
    BY <2>1 DEF IsBehind, n
  <2>3. i \in 1 .. n - 1
    BY <1>5, <2>1, <2>2 DEF t
  <2> QED BY <1>3, <2>2, <2>3 DEF IsBehind
<1>9. EdgesLeft' \subseteq EdgesLeft
  BY <1>2, <1>8 DEF EdgesLeft
<1> QED BY <1>0, <1>1, <1>2, <1>4, <1>7, <1>9

\* What a set loses, its size loses.
LEMMA SmallerSet ==
  ASSUME NEW S, IsFiniteSet(S), NEW T \in SUBSET S
  PROVE  /\ Cardinality(T) \in Nat /\ Cardinality(S) \in Nat
         /\ Cardinality(T) <= Cardinality(S)
         /\ T # S => Cardinality(T) < Cardinality(S)
<1>1. /\ IsFiniteSet(T) /\ Cardinality(T) <= Cardinality(S)
      /\ Cardinality(S) = Cardinality(T) => S = T
  BY FS_Subset
<1>2. Cardinality(T) \in Nat /\ Cardinality(S) \in Nat
  BY <1>1, FS_CardinalityType
<1> QED BY <1>1, <1>2

LEMMA FiniteRange ==
  ASSUME NEW D, IsFiniteSet(D), NEW g, DOMAIN g = D, g = [x \in D |-> g[x]]
  PROVE  IsFiniteSet({g[x] : x \in D})
<1> DEFINE T == {g[x] : x \in D}
<1>1. g \in Surjection(D, T)
  <2>1. \A x \in D : g[x] \in T
    OBVIOUS
  <2>2. \A y \in T : \E x \in D : g[x] = y
    OBVIOUS
  <2> HIDE DEF T
  <2>3. g \in [D -> T]
    BY <2>1
  <2> QED BY <2>2, <2>3 DEF Surjection
<1> HIDE DEF T
<1> QED BY <1>1, FS_Surjection DEF T

\* A graph with finitely many entries has finitely many nodes and edges.
LEMMA GraphIsFinite ==
  ASSUME GraphTypeOK, IsFiniteSet(DOMAIN edges)
  PROVE  IsFiniteSet(nodes) /\ IsFiniteSet(AllEdges)
<1> DEFINE D == DOMAIN edges
           lists == [l \in D |-> ToSet(edges[l])]
           heads == [l \in D |-> EdgesOf(l)]
<1>1. ASSUME NEW l \in D
      PROVE  IsFiniteSet(ToSet(edges[l])) /\ IsFiniteSet(EdgesOf(l))
  <2> DEFINE m == Len(edges[l])
             list == edges[l]
  <2>1. list \in Seq(Labels) /\ m \in Nat /\ DOMAIN list = 1 .. m
    BY DEF GraphTypeOK
  <2>2. IsFiniteSet(1 .. m)
    BY <2>1, FS_Interval
  <2>3. list = [i \in 1 .. m |-> list[i]]
    BY <2>1
  <2>4. ToSet(list) = {list[i] : i \in 1 .. m}
    BY <2>1 DEF ToSet
  <2> HIDE DEF list, m
  <2>5. IsFiniteSet(ToSet(list))
    BY <2>1, <2>2, <2>3, <2>4, FiniteRange
  <2>6. EdgesOf(l) = {l} \X (1 .. m)
    BY <1>1 DEF EdgesOf, Targets, m
  <2>7. IsFiniteSet({l})
    BY FS_Singleton
  <2>8. IsFiniteSet({l} \X (1 .. m))
    BY <2>2, <2>7, FS_Product
  <2> QED BY <2>5, <2>6, <2>8 DEF list
<1>2. IsFiniteSet({lists[l] : l \in D}) /\ IsFiniteSet({heads[l] : l \in D})
  <2>1. /\ DOMAIN lists = D /\ lists = [l \in D |-> lists[l]]
        /\ DOMAIN heads = D /\ heads = [l \in D |-> heads[l]]
    OBVIOUS
  <2> HIDE DEF lists, heads, D
  <2> QED BY <2>1, FiniteRange DEF D
<1>3. IsFiniteSet(UNION {lists[l] : l \in D}) /\ IsFiniteSet(UNION {heads[l] : l \in D})
  <2> DEFINE L == {lists[l] : l \in D}
             H == {heads[l] : l \in D}
  <2>1. (\A T \in L : IsFiniteSet(T)) /\ (\A T \in H : IsFiniteSet(T))
    BY <1>1
  <2>2. IsFiniteSet(L) /\ IsFiniteSet(H)
    BY <1>2
  <2> HIDE DEF L, H
  <2>3. IsFiniteSet(UNION L) /\ IsFiniteSet(UNION H)
    BY <2>1, <2>2, FS_UNION
  <2> QED BY <2>3 DEF L, H
<1>4. UNION {lists[l] : l \in D} = UNION {ToSet(edges[l]) : l \in DOMAIN edges}
  OBVIOUS
<1>5. UNION {heads[l] : l \in D} = AllEdges
  BY DEF AllEdges
<1> HIDE DEF lists, heads
<1>6. IsFiniteSet(D \cup UNION {ToSet(edges[l]) : l \in DOMAIN edges})
  BY <1>3, <1>4, FS_Union
<1> QED BY <1>3, <1>5, <1>6 DEF nodes

\* A step of a search that leaves it running takes one of the steps left.
LEMMA StepsRunOut ==
  ASSUME GraphInv, IsFiniteSet(DOMAIN edges), WalkStep, phase' = phase
  PROVE  StepsLeft \in Nat /\ StepsLeft' \in Nat /\ StepsLeft' < StepsLeft
<1>0. GraphTypeOK /\ SearchInv /\ phase # "idle"
  BY WalkFacts DEF GraphInv
<1>1. /\ nodes' = nodes /\ pending' \subseteq pending
      /\ (nodes \ visited)' \subseteq nodes \ visited
      /\ (nodes \ Done)' \subseteq nodes \ Done
      /\ EdgesLeft' \subseteq EdgesLeft
      /\ \/ pending' # pending \/ EdgesLeft' # EdgesLeft
         \/ (nodes \ visited)' # nodes \ visited \/ (nodes \ Done)' # nodes \ Done
  <2>1. ASSUME NEW label \in Labels, FindCycle(label) PROVE FALSE
    BY <1>0, <2>1 DEF FindCycle, Return
  <2>2. CASE FindNoCycle \/ ReturnOrder
    BY <1>0, <2>2 DEF FindNoCycle, ReturnOrder, Begin, Return
  <2>3. CASE \E label \in Labels : SkipVisited(label)
    BY <2>3, SkipShrinks
  <2>4. CASE \E label \in Labels : Visit(label)
    BY <2>4, VisitShrinks
  <2>5. CASE Leave
    BY <2>5, LeaveShrinks
  <2> QED BY <2>1, <2>2, <2>3, <2>4, <2>5 DEF WalkStep
<1>2. /\ IsFiniteSet(pending) /\ IsFiniteSet(nodes \ visited)
      /\ IsFiniteSet(nodes \ Done) /\ IsFiniteSet(EdgesLeft)
  <2>1. pending \subseteq nodes /\ EdgesLeft \subseteq AllEdges
    BY <1>0 DEF SearchInv, EdgesLeft
  <2>2. IsFiniteSet(nodes) /\ IsFiniteSet(AllEdges)
    BY <1>0, GraphIsFinite
  <2> QED BY <2>1, <2>2, FS_Subset, FS_Difference
<1> DEFINE a == Cardinality(pending)
           b == Cardinality(nodes \ visited)
           c == Cardinality(nodes \ Done)
           d == Cardinality(EdgesLeft)
<1>3. /\ a \in Nat /\ a' \in Nat /\ a' <= a /\ (pending' # pending => a' < a)
      /\ d \in Nat /\ d' \in Nat /\ d' <= d /\ (EdgesLeft' # EdgesLeft => d' < d)
  BY <1>1, <1>2, SmallerSet
<1>4. /\ b \in Nat /\ b' \in Nat /\ b' <= b
      /\ (nodes \ visited)' # nodes \ visited => b' < b
  BY <1>1, <1>2, SmallerSet
<1>5. /\ c \in Nat /\ c' \in Nat /\ c' <= c
      /\ (nodes \ Done)' # nodes \ Done => c' < c
  BY <1>1, <1>2, SmallerSet
<1>6. StepsLeft = a + b + c + d /\ StepsLeft' = a' + b' + c' + d'
  BY DEF StepsLeft
<1>7. a' < a \/ b' < b \/ c' < c \/ d' < d
  BY <1>1, <1>3, <1>4, <1>5
<1>8. \A i, j, k, l, m, n, o, p \in Nat :
        /\ j <= i /\ l <= k /\ n <= m /\ p <= o
        /\ j < i \/ l < k \/ n < m \/ p < o
        => /\ i + k + m + o \in Nat /\ j + l + n + p \in Nat
           /\ j + l + n + p < i + k + m + o
  OBVIOUS
<1> HIDE DEF a, b, c, d
<1>9. /\ a + b + c + d \in Nat /\ a' + b' + c' + d' \in Nat
      /\ a' + b' + c' + d' < a + b + c + d
  BY <1>3, <1>4, <1>5, <1>7, <1>8
<1> QED BY <1>6, <1>9

\* The packages of the store and the entries of the graph are finitely many.
StateIsFinite == IsFiniteSet(DOMAIN edges) /\ IsFiniteSet(DOMAIN releases)

LEMMA FiniteStep ==
  ASSUME StateIsFinite, [Next]_vars
  PROVE  StateIsFinite'
<1>1. ASSUME NEW package, NEW release, add(package, release) PROVE StateIsFinite'
  <2>1. edges' = edges /\ DOMAIN releases' = DOMAIN releases \cup {package}
    BY <1>1 DEF add, graphVars
  <2> QED BY <2>1, FS_AddElement DEF StateIsFinite
<1>2. ASSUME NEW requirements, resolve(requirements) PROVE StateIsFinite'
  <2>1. releases' = releases
    BY <1>2 DEF resolve
  <2>2. CASE \/ ResolveWithoutReleases(requirements)
             \/ ResolveRejectedRoot(requirements)
             \/ ResolveUnsatisfiable(requirements)
    <3>1. edges' = NoEdges
      BY <2>2 DEF ResolveWithoutReleases, ResolveRejectedRoot, ResolveUnsatisfiable, Refuse
    <3>2. DOMAIN edges' = {}
      BY <3>1 DEF NoEdges
    <3> QED BY <2>1, <3>2, FS_EmptySet DEF StateIsFinite
  <2>3. CASE ResolveSelected(requirements)
    <3> DEFINE packages == reachable_packages(requirements)
    <3>1. PICK a : edges' = SelectedEdges(Selected(packages, a))
      BY <2>3 DEF ResolveSelected
    <3>2. DOMAIN edges' \subseteq DOMAIN Selected(packages, a)
      BY <3>1 DEF SelectedEdges
    <3>3. DOMAIN Selected(packages, a) \subseteq DOMAIN releases
      <4>1. \A p : p \notin DOMAIN releases => Variable(p) = {}
        BY DEF Variable, find
      <4>2. DOMAIN Selected(packages, a) = {p \in packages : Variable(p) \cap a # {}}
        BY DEF Selected
      <4> QED BY <4>1, <4>2
    <3> QED BY <2>1, <3>2, <3>3, FS_Subset DEF StateIsFinite
  <2> QED BY <1>2, <2>2, <2>3 DEF resolve
<1>3. CASE SearchGraph
  <2>1. edges' = edges /\ releases' = releases
    BY <1>3 DEF SearchGraph, WalkStep, FindCycle, SkipVisited, Visit, Leave, FindNoCycle,
                ReturnOrder
  <2> QED BY <2>1 DEF StateIsFinite
<1>4. CASE UseGraph
  <2>1. ASSUME NEW l \in Labels, NEW m \in Labels, add_edge(l, m)
        PROVE  DOMAIN edges' = DOMAIN edges \cup {l}
    BY <2>1 DEF add_edge
  <2>2. \/ edges' = edges
        \/ \E l \in Labels : DOMAIN edges' = DOMAIN edges \cup {l}
    BY <1>4, <2>1 DEF UseGraph, Ask
  <2>3. releases' = releases
    BY <1>4 DEF UseGraph
  <2> QED BY <2>2, <2>3, FS_AddElement DEF StateIsFinite
<1>5. CASE UNCHANGED vars
  BY <1>5 DEF vars, graphVars, StateIsFinite
<1> QED BY <1>1, <1>2, <1>3, <1>4, <1>5 DEF Next

LEMMA FinitelyInvariant == Spec => [](ResolverInv /\ StateIsFinite)
<1>1. Init => StateIsFinite
  <2>1. ASSUME Init PROVE DOMAIN edges = {} /\ DOMAIN releases = {}
    BY <2>1 DEF Init, GraphInit, NoEdges, Nothing
  <2> QED BY <2>1, FS_EmptySet DEF StateIsFinite
<1>2. StateIsFinite /\ [Next]_vars => StateIsFinite'
  BY FiniteStep
<1> QED BY <1>1, <1>2, ResolverInvIsInvariant, PTL DEF Spec

\* A search cannot go on for ever, whatever the graph: each of its steps
\* returns, or begins the second search of topological_order, or leaves it
\* fewer steps than before.
THEOREM SearchesRunOut ==
  Spec => [][phase # "idle" =>
               \/ phase' = "idle"
               \/ phase = "cycle" /\ phase' = "order"
               \/ phase' = phase /\ StepsLeft' \in Nat /\ StepsLeft' < StepsLeft]_vars
<1> DEFINE Advances == \/ phase' = "idle"
                       \/ phase = "cycle" /\ phase' = "order"
                       \/ phase' = phase /\ StepsLeft' \in Nat /\ StepsLeft' < StepsLeft
<1>1. ASSUME ResolverInv, StateIsFinite, Next, phase # "idle" PROVE Advances
  <2>1. GraphInv /\ WalkStep
    BY <1>1 DEF ResolverInv, Next, add, resolve, UseGraph, add_edge, Ask, SearchGraph
  <2>2. CASE phase' = phase
    BY <1>1, <2>1, <2>2, StepsRunOut DEF StateIsFinite
  <2>3. CASE phase' # phase
    BY <2>1, <2>3 DEF WalkStep, FindCycle, SkipVisited, Visit, Leave, FindNoCycle,
                      ReturnOrder, Return, Begin
  <2> QED BY <2>2, <2>3
<1>2. ResolverInv /\ StateIsFinite /\ [Next]_vars => [phase # "idle" => Advances]_vars
  BY <1>1
<1> HIDE DEF Advances
<1> QED BY <1>2, FinitelyInvariant, PTL DEF Spec, Advances

\* A search is never stuck: the loop is over, or the running visit has passed
\* its last edge, or there is a label to visit next.
THEOREM SearchesGoOn ==
  Spec => [](phase # "idle" =>
               \/ stack = <<>> /\ pending = {}
               \/ stack # <<>> /\ Top.next \notin DOMAIN Targets(Top.label)
               \/ \E label \in Labels : Calls(label))
<1>1. ASSUME ResolverInv, phase # "idle",
             ~(stack = <<>> /\ pending = {}),
             ~(stack # <<>> /\ Top.next \notin DOMAIN Targets(Top.label))
      PROVE  \E label \in Labels : Calls(label)
  <2>1. GraphTypeOK
    BY <1>1 DEF ResolverInv, GraphInv
  <2>2. CASE stack = <<>>
    <3>1. pending \subseteq Labels /\ pending \in SUBSET Nat /\ pending # {}
      BY <1>1, <2>1, <2>2, LabelsAreOrdered DEF GraphTypeOK
    <3>2. PICK label \in pending : \A other \in pending : label <= other
      BY <3>1, LeastOf
    <3> QED BY <2>2, <3>1, <3>2 DEF Calls
  <2>3. CASE stack # <<>>
    <3>1. Top.next \in DOMAIN Targets(Top.label)
      BY <1>1, <2>3
    <3>2. Targets(Top.label) \in Seq(Labels)
      BY <2>1, TargetsType
    <3>3. Targets(Top.label)[Top.next] \in Labels
      BY <3>1, <3>2
    <3> QED BY <2>3, <3>1, <3>3 DEF Calls
  <2> QED BY <2>2, <2>3
<1> QED BY <1>1, ResolverInvIsInvariant, PTL
=============================================================================
