---------------------------------- MODULE SCC ----------------------------------
(***************************************************************************)
(* graph::SCCProcessor (fztooltempl/graph.hpp): find_scc() looks for the   *)
(* strongly connected components of a graph, "basically Tarjan's           *)
(* algorithm", and hands each one over as soon as it is found.             *)
(***************************************************************************)
EXTENDS Integers, Sequences, FiniteSets, SequencesExt

CONSTANTS Nodes,     \* whatever a graph may consist of
          Graphs     \* the graphs looked at: a node's neighbours, per node

ASSUME NodesAssumption == IsFiniteSet(Nodes)
ASSUME GraphsAssumption ==
  \A g \in Graphs : DOMAIN g \subseteq Nodes /\ \A n \in DOMAIN g : g[n] \subseteq DOMAIN g

VARIABLES graph,
          values,       \* 0: not visited; above the number of nodes: done
          nodestack,
          frames,       \* the running calls of scc_visit()
          components    \* history: the components and their nodes, as handed over

vars == <<graph, values, nodestack, frames, components>>

MaxNodes == Cardinality(DOMAIN graph)
Done == MaxNodes + 1

(* find_scc() of g begins. *)
Prepare(g) == [graph |-> g, values |-> [n \in DOMAIN g |-> 0]]

Init == /\ graph \in Graphs
        /\ values = Prepare(graph).values
        /\ nodestack = <<>>
        /\ frames = <<>>
        /\ components = <<>>

-----------------------------------------------------------------------------
(* scc_visit(node,id) is called; the frame of its caller is the last of    *)
(* callers.  The order of the neighbours is left open.                     *)
Visit(callers, node, id) ==
  /\ values' = [values EXCEPT ![node] = id + 1]
  /\ nodestack' = Append(nodestack, node)
  /\ frames' = Append(callers, [node |-> node, id |-> id + 1, min |-> id + 1, todo |-> graph[node]])

(* Variant: only nodes that have neighbours are begun with. *)
Start_Sources(n) ==
  /\ frames = <<>>
  /\ values[n] = 0 /\ graph[n] # {}
  /\ Visit(<<>>, n, 0)
  /\ UNCHANGED <<graph, components>>

(* The loop of find_scc() meets a node that has not been visited. *)
Start(n) ==
  /\ frames = <<>>
  /\ values[n] = 0
  /\ Visit(<<>>, n, 0)
  /\ UNCHANGED <<graph, components>>

Top == frames[Len(frames)]

(* The call on top returns m, or finds m at a neighbour. *)
Lower(callers, m) ==
  IF callers = <<>> THEN callers
  ELSE [callers EXCEPT ![Len(callers)].min = IF m < @ THEN m ELSE @]

(* The neighbours of a node that have not been visited all get the number  *)
(* after its own: id is passed by value.                                   *)
Look(n) ==
  /\ frames # <<>> /\ n \in Top.todo
  /\ LET seen == [frames EXCEPT ![Len(frames)].todo = @ \ {n}]
     IN  IF values[n] = 0
         THEN Visit(seen, n, Top.id)
         ELSE frames' = Lower(seen, values[n]) /\ UNCHANGED <<values, nodestack>>
  /\ UNCHANGED <<graph, components>>

(* The nodes on the stack from node on, the last one first. *)
Popped(node) == Reverse(SubSeq(nodestack, SelectLastInSeq(nodestack, LAMBDA n : n = node), Len(nodestack)))

(* Variant: the nodes handed over keep their numbers. *)
Leave_KeepsValues ==
  /\ frames # <<>> /\ Top.todo = {}
  /\ IF Top.min = values[Top.node]
     THEN LET comp == Popped(Top.node)
          IN  /\ components' = Append(components, comp)
              /\ nodestack' = SubSeq(nodestack, 1, Len(nodestack) - Len(comp))
              /\ UNCHANGED values
     ELSE UNCHANGED <<components, nodestack, values>>
  /\ frames' = Lower(Front(frames), Top.min)
  /\ UNCHANGED graph

Leave ==
  /\ frames # <<>> /\ Top.todo = {}
  /\ IF Top.min = values[Top.node]
     THEN LET comp == Popped(Top.node)
          IN  /\ components' = Append(components, comp)
              /\ nodestack' = SubSeq(nodestack, 1, Len(nodestack) - Len(comp))
              /\ values' = [n \in DOMAIN values |-> IF n \in ToSet(comp) THEN Done ELSE values[n]]
     ELSE UNCHANGED <<components, nodestack, values>>
  /\ frames' = Lower(Front(frames), Top.min)
  /\ UNCHANGED graph

Step == Leave \/ \E n \in DOMAIN graph : Start(n) \/ Look(n)

Found == frames = <<>> /\ \A n \in DOMAIN graph : values[n] # 0

Next == Step

Spec == Init /\ [][Next]_vars
FairSpec == Spec /\ WF_vars(Next)

-----------------------------------------------------------------------------
(* What can be reached from n: what is in every set of nodes that n is in  *)
(* and that no edge leads out of.                                          *)
Closed(g, S) == \A m \in S : g[m] \subseteq S
Reach(g, n) == {m \in DOMAIN g : \A S \in SUBSET DOMAIN g : n \in S /\ Closed(g, S) => m \in S}

Connected(g, m, n) == n \in Reach(g, m) /\ m \in Reach(g, n)

(* No node is handed over twice, none that is still on the stack, and in   *)
(* the end every one has been.                                             *)
EachNodeOnce ==
  /\ \A n \in DOMAIN graph :
       Cardinality({i \in DOMAIN components : n \in ToSet(components[i])})
         = IF values[n] = Done THEN 1 ELSE 0
  /\ Found => nodestack = <<>>

(* The nodes of a component can be reached from each other. *)
ComponentsAreConnected ==
  \A i \in DOMAIN components : \A m, n \in ToSet(components[i]) : Connected(graph, m, n)

(* What the processor is given is disjoint sets of connected nodes, and    *)
(* every node in the end.                                                  *)
ComponentsAreRight == EachNodeOnce /\ ComponentsAreConnected

(* graph.hpp:231 "finds strongly connected components": nodes that can be  *)
(* reached from each other are in the same one.                            *)
ComponentsAreMaximal ==
  Found => \A i, j \in DOMAIN components : \A m \in ToSet(components[i]), n \in ToSet(components[j]) :
             Connected(graph, m, n) => i = j
=============================================================================
