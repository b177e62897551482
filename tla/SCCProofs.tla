------------------------------- MODULE SCCProofs -------------------------------
(***************************************************************************)
(* What graph::SCCProcessor hands over (module SCC), for every graph.      *)
(*                                                                         *)
(* A node is numbered with the depth of its visit, so that numbers are not *)
(* unique and the usual argument about the order of visits is of no use.   *)
(* What holds instead: everything on the stack above the node of a running *)
(* call has a greater number and can be reached from that node (Above),    *)
(* and from everything on the stack the node of a running call below can   *)
(* be reached whose number is not greater (Leads).                         *)
(***************************************************************************)
EXTENDS SCC, TLAPS, SequenceTheorems, FiniteSetTheorems

Calls == [node : DOMAIN graph, id : Nat, min : Nat, todo : SUBSET DOMAIN graph]

TypeOK ==
  /\ graph \in Graphs
  /\ values \in [DOMAIN graph -> 0..Done]
  /\ nodestack \in Seq(DOMAIN graph)
  /\ frames \in Seq(Calls)
  /\ components \in Seq(Seq(DOMAIN graph))

Reaches(m, n) == n \in Reach(graph, m)

OnStack == 1..Len(nodestack)
Running == 1..Len(frames)

(* The stack holds those that are visited and not yet done, once each.     *)
StackHolds ==
  /\ \A a, b \in OnStack : nodestack[a] = nodestack[b] => a = b
  /\ \A n \in DOMAIN graph : values[n] \in 1..MaxNodes <=> \E a \in OnStack : nodestack[a] = n

CallsNumbered ==
  /\ Len(frames) <= MaxNodes
  /\ \A i \in Running :
       /\ frames[i].id = i /\ values[frames[i].node] = i
       /\ frames[i].min \in 1..i
       /\ frames[i].todo \subseteq graph[frames[i].node]

Above ==
  \A i \in Running, a, b \in OnStack :
    nodestack[a] = frames[i].node /\ a < b =>
      i < values[nodestack[b]] /\ Reaches(frames[i].node, nodestack[b])

Leads ==
  \A a \in OnStack : \E i \in Running, b \in OnStack :
    /\ b <= a /\ nodestack[b] = frames[i].node
    /\ i <= values[nodestack[a]] /\ Reaches(nodestack[a], frames[i].node)

(* The minimum of a call is the number of a node on the stack that can be  *)
(* reached from its own.                                                   *)
MinimumIsReached ==
  \A i \in Running : \E a \in OnStack :
    values[nodestack[a]] = frames[i].min /\ Reaches(frames[i].node, nodestack[a])

IsIn(n, i) == n \in ToSet(components[i])

HandedOver ==
  \A n \in DOMAIN graph :
    IF values[n] = Done
    THEN \E i \in DOMAIN components : \A j \in DOMAIN components : IsIn(n, j) <=> j = i
    ELSE \A j \in DOMAIN components : ~IsIn(n, j)

IInv ==
  /\ TypeOK
  /\ StackHolds
  /\ CallsNumbered
  /\ Above
  /\ Leads
  /\ MinimumIsReached
  /\ HandedOver
  /\ ComponentsAreConnected

-----------------------------------------------------------------------------
(* Reaching.                                                               *)

LEMMA ReachItself == ASSUME NEW n \in DOMAIN graph PROVE Reaches(n, n)
BY DEF Reaches, Reach

LEMMA ReachNeighbour ==
  ASSUME NEW n \in DOMAIN graph, NEW m \in graph[n], m \in DOMAIN graph
  PROVE  Reaches(n, m)
BY DEF Reaches, Reach, Closed

LEMMA ReachOn == ASSUME NEW l, NEW m, NEW n, Reaches(l, m), Reaches(m, n) PROVE Reaches(l, n)
BY DEF Reaches, Reach

LEMMA GraphProperties ==
  ASSUME graph \in Graphs
  PROVE  /\ IsFiniteSet(DOMAIN graph) /\ MaxNodes \in Nat
         /\ \A n \in DOMAIN graph : graph[n] \subseteq DOMAIN graph
<1>1. DOMAIN graph \in SUBSET Nodes /\ \A n \in DOMAIN graph : graph[n] \subseteq DOMAIN graph
  BY GraphsAssumption
<1>2. IsFiniteSet(DOMAIN graph)
  BY <1>1, NodesAssumption, FS_Subset
<1> QED
  BY <1>1, <1>2, FS_CardinalityType DEF MaxNodes
-----------------------------------------------------------------------------
(* The sequences.                                                          *)

LEMMA FirstOnes ==
  ASSUME NEW S, NEW s \in Seq(S), NEW k \in 0..Len(s)
  PROVE  /\ SubSeq(s, 1, k) \in Seq(S)
         /\ Len(SubSeq(s, 1, k)) = k
         /\ \A i \in 1..k : SubSeq(s, 1, k)[i] = s[i]
<1> DEFINE t == SubSeq(s, 1, k)
<1>1. k \in Nat /\ \A i \in 1..k : s[i] \in S
  BY LenProperties, ElementOfSeq
<1>2. /\ t \in Seq(S)
      /\ Len(t) = IF 1 <= k THEN k - 1 + 1 ELSE 0
      /\ \A i \in 1..(k - 1 + 1) : t[i] = s[1 + i - 1]
  BY ONLY <1>1, SubSeqProperties, Z3
<1> HIDE DEF t
<1>3. Len(t) = k /\ \A i \in 1..k : t[i] = s[i]
  BY ONLY <1>1, <1>2
<1> QED
  BY <1>2, <1>3 DEF t

(* A call is told a number, its own minimum may become less. *)
Lowered(fs, callers, m) ==
  /\ fs \in Seq(Calls) /\ Len(fs) = Len(callers)
  /\ \A i \in 1..Len(callers) :
       /\ fs[i].node = callers[i].node /\ fs[i].id = callers[i].id /\ fs[i].todo = callers[i].todo
       /\ fs[i].min = IF i = Len(callers) /\ m < callers[i].min THEN m ELSE callers[i].min

LEMMA LowerLowers ==
  ASSUME NEW callers \in Seq(Calls), NEW m \in Nat
  PROVE  Lowered(Lower(callers, m), callers, m)
<1> DEFINE k == Len(callers)
<1>1. k \in Nat /\ \A i \in 1..k : callers[i] \in Calls
  BY LenProperties, ElementOfSeq
<1>2. CASE callers = <<>>
  <2>1. k = 0 /\ Lower(callers, m) = callers
    BY <1>2 DEF Lower
  <2> QED
    BY <2>1 DEF Lowered
<1>3. CASE callers # <<>>
  <2> DEFINE top == callers[k]
             least == IF m < top.min THEN m ELSE top.min
             new == [node |-> top.node, id |-> top.id, min |-> least, todo |-> top.todo]
             fs == [callers EXCEPT ![k] = new]
  <2>1. k \in 1..k
    BY <1>1, <1>3, EmptySeq
  <2>2. top \in Calls
    BY <1>1, <2>1
  <2>3. new = [top EXCEPT !.min = least] /\ new \in Calls
    BY <2>2 DEF Calls
  <2>4. Lower(callers, m) = fs
    BY <1>3, <2>3 DEF Lower
  <2> HIDE DEF new
  <2>5. /\ fs \in Seq(Calls) /\ Len(fs) = k
        /\ \A i \in 1..k : fs[i] = IF i = k THEN new ELSE callers[i]
    BY <1>1, <2>1, <2>3, ExceptSeq
  <2>6. new.node = top.node /\ new.id = top.id /\ new.todo = top.todo /\ new.min = least
    BY DEF new
  <2> HIDE DEF fs
  <2>7. Lowered(fs, callers, m)
    BY <1>1, <2>5, <2>6 DEF Lowered
  <2> QED
    BY <2>4, <2>7
<1> QED
  BY <1>2, <1>3

(* A component is what is on the stack from its node on. *)
LEMMA PoppedIs ==
  ASSUME TypeOK, StackHolds, NEW p \in OnStack
  PROVE  /\ Popped(nodestack[p]) \in Seq(DOMAIN graph)
         /\ Len(Popped(nodestack[p])) = Len(nodestack) - p + 1
         /\ ToSet(Popped(nodestack[p])) = {nodestack[a] : a \in p..Len(nodestack)}
<1> DEFINE k == Len(nodestack)
           s == SubSeq(nodestack, p, k)
           t == Reverse(s)
<1>1. /\ k \in Nat /\ p \in Nat /\ 1 <= p /\ p <= k
      /\ \A a \in 1..k : nodestack[a] \in DOMAIN graph
  BY LenProperties, ElementOfSeq DEF TypeOK, OnStack
<1>2. {i \in 1..k : nodestack[i] = nodestack[p]} = {p}
  BY DEF StackHolds, OnStack
<1>3. SelectLastInSeq(nodestack, LAMBDA n : n = nodestack[p]) = p
  <2>1. Max({p}) = p
    BY <1>1 DEF Max
  <2> QED
    BY <1>2, <2>1 DEF SelectLastInSeq
<1>4. Popped(nodestack[p]) = t
  BY <1>3 DEF Popped
<1>5. /\ s \in Seq(DOMAIN graph)
      /\ Len(s) = k - p + 1
      /\ \A i \in 1..(k - p + 1) : s[i] = nodestack[p + i - 1]
  <2>1. \A a \in p..k : nodestack[a] \in DOMAIN graph
    BY <1>1
  <2> HIDE DEF k
  <2>2. /\ s \in Seq(DOMAIN graph)
        /\ Len(s) = IF p <= k THEN k - p + 1 ELSE 0
        /\ \A i \in 1..(k - p + 1) : s[i] = nodestack[p + i - 1]
    BY ONLY <1>1, <2>1, SubSeqProperties, Z3
  <2> QED
    BY <1>1, <2>2
<1> HIDE DEF s
<1>6. t = [i \in 1..Len(s) |-> s[(Len(s) - i) + 1]]
  BY DEF Reverse
<1>7. \A i \in 1..Len(s) : s[(Len(s) - i) + 1] \in DOMAIN graph
  BY <1>1, <1>5, ElementOfSeq
<1>8. Len(s) \in Nat
  BY <1>1, <1>5
<1>9. t \in Seq(DOMAIN graph) /\ Len(t) = Len(s) /\ DOMAIN t = 1..Len(s)
  BY <1>6, <1>7, <1>8, IsASeq
<1>10. ToSet(t) \subseteq {nodestack[a] : a \in p..k}
  <2>1. ASSUME NEW i \in 1..Len(s)
        PROVE  t[i] \in {nodestack[a] : a \in p..k}
    <3>1. t[i] = nodestack[p + (Len(s) - i)]
      BY <1>1, <1>5, <1>6, <2>1
    <3>2. p + (Len(s) - i) \in p..k
      BY <1>1, <1>5, <2>1
    <3> QED
      BY <3>1, <3>2
  <2> HIDE DEF t
  <2> QED
    BY <1>9, <2>1 DEF ToSet
<1>11. {nodestack[a] : a \in p..k} \subseteq ToSet(t)
  <2>1. ASSUME NEW a \in p..k
        PROVE  nodestack[a] \in ToSet(t)
    <3>1. (k - a) + 1 \in 1..Len(s)
      BY <1>1, <1>5, <2>1
    <3>2. t[(k - a) + 1] = s[(a - p) + 1]
      BY <1>1, <1>5, <1>6, <3>1
    <3>3. s[(a - p) + 1] = nodestack[a]
      BY <1>1, <1>5, <2>1
    <3> HIDE DEF t
    <3> QED
      BY <1>9, <3>1, <3>2, <3>3 DEF ToSet
  <2> QED
    BY <2>1
<1> HIDE DEF t
<1> QED
  BY <1>4, <1>5, <1>9, <1>10, <1>11

(* The calls and the stack, and where the node of a call is found.         *)
LEMMA CallProperties ==
  ASSUME TypeOK, CallsNumbered, StackHolds, NEW i \in Running
  PROVE  /\ i \in Nat /\ 1 <= i /\ i <= Len(frames) /\ i <= MaxNodes
         /\ frames[i] \in Calls
         /\ frames[i].node \in DOMAIN graph
         /\ values[frames[i].node] = i
         /\ \E a \in OnStack : nodestack[a] = frames[i].node
<1>1. Len(frames) \in Nat /\ frames[i] \in Calls
  BY LenProperties, ElementOfSeq DEF TypeOK, Running
<1>2. MaxNodes \in Nat
  BY GraphProperties DEF TypeOK
<1>3. i \in Nat /\ 1 <= i /\ i <= Len(frames) /\ i <= MaxNodes
  BY <1>1, <1>2 DEF CallsNumbered, Running
<1>4. frames[i].node \in DOMAIN graph /\ values[frames[i].node] = i
  BY <1>1 DEF Calls, CallsNumbered
<1> QED
  BY <1>1, <1>2, <1>3, <1>4 DEF StackHolds

LEMMA StackProperties ==
  ASSUME TypeOK, StackHolds
  PROVE  /\ Len(nodestack) \in Nat /\ Len(frames) \in Nat /\ MaxNodes \in Nat
         /\ \A a \in OnStack : /\ nodestack[a] \in DOMAIN graph
                               /\ values[nodestack[a]] \in 1..MaxNodes
                               /\ values[nodestack[a]] # Done
<1>1. Len(nodestack) \in Nat /\ Len(frames) \in Nat /\ MaxNodes \in Nat
  BY LenProperties, GraphProperties DEF TypeOK
<1>2. \A a \in OnStack : nodestack[a] \in DOMAIN graph
  BY ElementOfSeq DEF TypeOK, OnStack
<1>3. \A a \in OnStack : values[nodestack[a]] \in 1..MaxNodes
  BY <1>2 DEF StackHolds
<1> QED
  BY <1>1, <1>2, <1>3 DEF Done

(* A call's node lies below those of the calls it has made, and reaches    *)
(* them.                                                                   *)
LEMMA CallsReach ==
  ASSUME TypeOK, StackHolds, CallsNumbered, Above,
         NEW i \in Running, NEW j \in Running, i <= j
  PROVE  /\ Reaches(frames[i].node, frames[j].node)
         /\ \A a, b \in OnStack : nodestack[a] = frames[i].node /\ nodestack[b] = frames[j].node => a <= b
<1>1. /\ i \in Nat /\ j \in Nat
      /\ frames[i].node \in DOMAIN graph
      /\ values[frames[i].node] = i /\ values[frames[j].node] = j
      /\ \E a \in OnStack : nodestack[a] = frames[i].node
      /\ \E a \in OnStack : nodestack[a] = frames[j].node
  BY CallProperties
<1>2. ASSUME NEW a \in OnStack, NEW b \in OnStack,
             nodestack[a] = frames[i].node, nodestack[b] = frames[j].node
      PROVE  a <= b /\ (i # j => a < b)
  <2>1. a \in Nat /\ b \in Nat
    BY StackProperties DEF OnStack
  <2>2. b < a => j < i
    BY <1>1, <1>2 DEF Above
  <2>3. a = b => i = j
    BY <1>1, <1>2
  <2> QED
    BY <1>1, <2>1, <2>2, <2>3
<1>3. CASE i = j
  BY <1>1, <1>2, <1>3, ReachItself
<1>4. CASE i # j
  BY <1>1, <1>2, <1>4 DEF Above
<1> QED
  BY <1>2, <1>3, <1>4
-----------------------------------------------------------------------------
(* A node is visited.                                                      *)

SameCalls(cs) ==
  /\ cs \in Seq(Calls) /\ Len(cs) = Len(frames)
  /\ \A i \in Running :
       /\ cs[i].node = frames[i].node /\ cs[i].id = frames[i].id /\ cs[i].min = frames[i].min
       /\ cs[i].todo \subseteq frames[i].todo

(* Calls are about different nodes, all of them visited: so there is a     *)
(* number left for one that is not.                                        *)
LEMMA NumberLeft ==
  ASSUME TypeOK, StackHolds, CallsNumbered, NEW n \in DOMAIN graph, values[n] = 0
  PROVE  Len(frames) + 1 <= MaxNodes
<1> DEFINE k == Len(frames)
           f == [i \in 1..(k + 1) |-> IF i \in 1..k THEN frames[i].node ELSE n]
<1>1. k \in Nat /\ IsFiniteSet(DOMAIN graph)
  BY StackProperties, GraphProperties DEF TypeOK
<1>2. ASSUME NEW i \in 1..k
      PROVE  i \in Nat /\ 1 <= i /\ frames[i].node \in DOMAIN graph /\ values[frames[i].node] = i
  BY <1>2, CallProperties DEF Running
<1>3. f \in [1..(k + 1) -> DOMAIN graph]
  BY <1>2
<1>4. ASSUME NEW i \in 1..(k + 1), NEW j \in 1..(k + 1), f[i] = f[j]
      PROVE  i = j
  <2>1. CASE i \in 1..k /\ j \in 1..k
    <3>1. f[i] = frames[i].node /\ f[j] = frames[j].node
      BY <2>1
    <3> QED
      BY <1>2, <1>4, <2>1, <3>1
  <2>2. CASE i \in 1..k /\ j \notin 1..k
    <3>1. f[i] = frames[i].node /\ f[j] = n
      BY <2>2
    <3> QED
      BY <1>2, <1>4, <2>2, <3>1
  <2>3. CASE i \notin 1..k /\ j \in 1..k
    <3>1. f[i] = n /\ f[j] = frames[j].node
      BY <2>3
    <3> QED
      BY <1>2, <1>4, <2>3, <3>1
  <2>4. CASE i \notin 1..k /\ j \notin 1..k
    BY <1>1, <2>4
  <2> QED
    BY <2>1, <2>2, <2>3, <2>4
<1>5. f \in Injection(1..(k + 1), DOMAIN graph)
  BY <1>3, <1>4 DEF Injection, IsInjective
<1>6. Cardinality(1..(k + 1)) <= Cardinality(DOMAIN graph)
  BY <1>1, <1>5, FS_Injection
<1>7. Cardinality(1..(k + 1)) = k + 1
  BY <1>1, FS_Interval
<1> QED
  BY <1>6, <1>7 DEF MaxNodes

LEMMA Visited ==
  ASSUME IInv, NEW n \in DOMAIN graph, values[n] = 0,
         NEW callers, SameCalls(callers),
         Len(frames) # 0 => n \in graph[frames[Len(frames)].node],
         Visit(callers, n, Len(frames)), UNCHANGED <<graph, components>>
  PROVE  IInv'
<1> DEFINE k == Len(frames)
           l == Len(nodestack)
           new == [node |-> n, id |-> k + 1, min |-> k + 1, todo |-> graph[n]]
<1> USE DEF OnStack, Running
<1>1. /\ TypeOK /\ StackHolds /\ CallsNumbered /\ Above /\ Leads
      /\ MinimumIsReached /\ HandedOver /\ ComponentsAreConnected
  BY DEF IInv
<1>2. /\ k \in Nat /\ l \in Nat /\ MaxNodes \in Nat
      /\ k + 1 <= MaxNodes
      /\ Done = MaxNodes + 1
  BY <1>1, StackProperties, NumberLeft DEF Done
<1>3. /\ nodestack' \in Seq(DOMAIN graph)
      /\ Len(nodestack') = l + 1
      /\ \A a \in 1..l : nodestack'[a] = nodestack[a]
      /\ nodestack'[l + 1] = n
  BY <1>1, AppendProperties DEF TypeOK, Visit
<1>4. new \in Calls
  BY <1>1, <1>2, GraphProperties DEF Calls, TypeOK
<1>5. /\ frames' \in Seq(Calls)
      /\ Len(frames') = k + 1
      /\ \A i \in 1..k : frames'[i] = callers[i]
      /\ frames'[k + 1] = new
  <2>1. callers \in Seq(Calls) /\ Len(callers) = k
    BY DEF SameCalls
  <2>2. frames' = Append(callers, new)
    BY DEF Visit
  <2> HIDE DEF new
  <2> QED
    BY <1>4, <2>1, <2>2, AppendProperties
<1>6. ASSUME NEW i \in 1..k
      PROVE  /\ frames'[i].node = frames[i].node /\ frames'[i].id = frames[i].id
             /\ frames'[i].min = frames[i].min /\ frames'[i].todo \subseteq frames[i].todo
             /\ frames[i].node \in DOMAIN graph /\ values[frames[i].node] = i
             /\ i \in Nat /\ 1 <= i
  BY <1>1, <1>5, CallProperties DEF SameCalls
<1>7. /\ frames'[k + 1].node = n /\ frames'[k + 1].id = k + 1
      /\ frames'[k + 1].min = k + 1 /\ frames'[k + 1].todo = graph[n]
  BY <1>5
<1> HIDE DEF new
<1>8. /\ MaxNodes' = MaxNodes /\ Done' = Done
      /\ \A x, y : Reaches(x, y)' <=> Reaches(x, y)
  BY DEF MaxNodes, Done, Reaches
<1>9. /\ values' \in [DOMAIN graph -> 0..Done]
      /\ values'[n] = k + 1
      /\ \A m \in DOMAIN graph \ {n} : values'[m] = values[m]
  BY <1>1, <1>2 DEF Visit, TypeOK
<1>10. TypeOK'
  BY <1>1, <1>3, <1>5, <1>8, <1>9 DEF TypeOK, Calls
<1>11. ASSUME NEW a \in 1..l
       PROVE  /\ a \in Nat /\ a <= l
              /\ nodestack[a] \in DOMAIN graph /\ nodestack[a] # n
              /\ nodestack'[a] = nodestack[a]
              /\ values'[nodestack[a]] = values[nodestack[a]]
  BY <1>1, <1>2, <1>3, <1>9, StackProperties
<1>12. StackHolds'
  <2>1. \A a, b \in 1..(l + 1) : nodestack'[a] = nodestack'[b] => a = b
    <3>1. \A a \in 1..(l + 1) : a \in 1..l \/ a = l + 1
      BY <1>2
    <3>2. \A a, b \in 1..l : nodestack'[a] = nodestack'[b] => a = b
      BY <1>1, <1>3 DEF StackHolds
    <3> QED
      BY <1>3, <1>11, <3>1, <3>2
  <2>2. ASSUME NEW m \in DOMAIN graph
        PROVE  values'[m] \in 1..MaxNodes <=> \E a \in 1..(l + 1) : nodestack'[a] = m
    <3>1. CASE m = n
      BY <1>2, <1>3, <1>9, <3>1
    <3>2. CASE m # n
      <4>1. values'[m] \in 1..MaxNodes <=> \E a \in 1..l : nodestack[a] = m
        BY <1>1, <1>9, <3>2 DEF StackHolds
      <4>2. (\E a \in 1..l : nodestack[a] = m) <=> \E a \in 1..(l + 1) : nodestack'[a] = m
        <5>1. \A a \in 1..(l + 1) : a \in 1..l \/ a = l + 1
          BY <1>2
        <5>2. \A a \in 1..l : a \in 1..(l + 1)
          BY <1>2
        <5> QED
          BY <1>3, <3>2, <5>1, <5>2
      <4> QED
        BY <4>1, <4>2
    <3> QED
      BY <3>1, <3>2
  <2> QED
    BY <1>3, <1>8, <2>1, <2>2 DEF StackHolds
<1>13. CallsNumbered'
  <2>1. ASSUME NEW i \in 1..(k + 1)
        PROVE  /\ frames'[i].id = i /\ values'[frames'[i].node] = i
               /\ frames'[i].min \in 1..i
               /\ frames'[i].todo \subseteq graph[frames'[i].node]
    <3>1. CASE i = k + 1
      BY <1>2, <1>7, <1>9, <3>1
    <3>2. CASE i \in 1..k
      <4>1. frames[i].node # n
        BY <1>6, <3>2
      <4>2. /\ frames[i].id = i /\ frames[i].min \in 1..i
            /\ frames[i].todo \subseteq graph[frames[i].node]
        BY <1>1, <3>2 DEF CallsNumbered
      <4> QED
        BY <1>6, <1>9, <3>2, <4>1, <4>2
    <3> QED
      BY <1>2, <3>1, <3>2
  <2> QED
    BY <1>2, <1>5, <1>8, <2>1 DEF CallsNumbered
<1>14. ASSUME NEW i \in 1..k
       PROVE  Reaches(frames[i].node, n)
  <2>1. k \in 1..k /\ i <= k
    BY <1>2, <1>6
  <2>2. Reaches(frames[i].node, frames[k].node)
    BY <1>1, <2>1, CallsReach
  <2>3. Reaches(frames[k].node, n)
    BY <1>2, <1>6, <2>1, ReachNeighbour
  <2> QED
    BY <2>2, <2>3, ReachOn
<1>15. Above'
  <2>1. ASSUME NEW i \in 1..(k + 1), NEW a \in 1..(l + 1), NEW b \in 1..(l + 1),
               nodestack'[a] = frames'[i].node, a < b
        PROVE  i < values'[nodestack'[b]] /\ Reaches(frames'[i].node, nodestack'[b])
    <3>1. a \in 1..l
      BY <1>2, <2>1
    <3>2. i \in 1..k
      BY <1>2, <1>7, <1>11, <2>1, <3>1
    <3>3. frames'[i].node = frames[i].node /\ nodestack[a] = frames[i].node
      BY <1>6, <1>11, <2>1, <3>1, <3>2
    <3>4. CASE b = l + 1
      BY <1>2, <1>3, <1>6, <1>9, <1>14, <3>2, <3>3, <3>4
    <3>5. CASE b \in 1..l
      <4>1. i < values[nodestack[b]] /\ Reaches(frames[i].node, nodestack[b])
        BY <1>1, <2>1, <3>1, <3>2, <3>3, <3>5 DEF Above
      <4> QED
        BY <1>11, <3>3, <3>5, <4>1
    <3> QED
      BY <1>2, <3>4, <3>5
  <2> QED
    BY <1>3, <1>5, <1>8, <2>1 DEF Above
<1>16. Leads'
  <2>1. ASSUME NEW a \in 1..(l + 1)
        PROVE  \E i \in 1..(k + 1), b \in 1..(l + 1) :
                 /\ b <= a /\ nodestack'[b] = frames'[i].node
                 /\ i <= values'[nodestack'[a]] /\ Reaches(nodestack'[a], frames'[i].node)
    <3>1. CASE a = l + 1
      <4>1. k + 1 \in 1..(k + 1) /\ l + 1 \in 1..(l + 1)
        BY <1>2
      <4>2. Reaches(n, n)
        BY ReachItself
      <4>3. /\ l + 1 <= a /\ nodestack'[l + 1] = frames'[k + 1].node
            /\ k + 1 <= values'[nodestack'[a]] /\ Reaches(nodestack'[a], frames'[k + 1].node)
        BY <1>2, <1>3, <1>7, <1>9, <3>1, <4>2
      <4> QED
        BY <4>1, <4>3
    <3>2. CASE a \in 1..l
      <4>1. PICK i \in 1..k, b \in 1..l :
              /\ b <= a /\ nodestack[b] = frames[i].node
              /\ i <= values[nodestack[a]] /\ Reaches(nodestack[a], frames[i].node)
        BY <1>1, <3>2 DEF Leads
      <4>2. i \in 1..(k + 1) /\ b \in 1..(l + 1)
        BY <1>2
      <4>3. /\ nodestack'[b] = frames'[i].node
            /\ i <= values'[nodestack'[a]] /\ Reaches(nodestack'[a], frames'[i].node)
        BY <1>6, <1>11, <3>2, <4>1
      <4> QED
        BY <4>1, <4>2, <4>3
    <3> QED
      BY <1>2, <3>1, <3>2
  <2> QED
    BY <1>3, <1>5, <1>8, <2>1 DEF Leads
<1>17. MinimumIsReached'
  <2>1. ASSUME NEW i \in 1..(k + 1)
        PROVE  \E a \in 1..(l + 1) :
                 values'[nodestack'[a]] = frames'[i].min /\ Reaches(frames'[i].node, nodestack'[a])
    <3>1. CASE i = k + 1
      <4>1. l + 1 \in 1..(l + 1)
        BY <1>2
      <4>2. Reaches(n, n)
        BY ReachItself
      <4> QED
        BY <1>3, <1>7, <1>9, <3>1, <4>1, <4>2
    <3>2. CASE i \in 1..k
      <4>1. PICK a \in 1..l :
              values[nodestack[a]] = frames[i].min /\ Reaches(frames[i].node, nodestack[a])
        BY <1>1, <3>2 DEF MinimumIsReached
      <4>2. a \in 1..(l + 1)
        BY <1>2
      <4>3. values'[nodestack'[a]] = frames'[i].min /\ Reaches(frames'[i].node, nodestack'[a])
        BY <1>6, <1>11, <3>2, <4>1
      <4> QED
        BY <4>2, <4>3
    <3> QED
      BY <1>2, <3>1, <3>2
  <2> QED
    BY <1>3, <1>5, <1>8, <2>1 DEF MinimumIsReached
<1>18. HandedOver'
  <2>1. \A m \in DOMAIN graph : values'[m] = Done <=> values[m] = Done
    BY <1>2, <1>9
  <2> QED
    BY <1>1, <1>8, <2>1 DEF HandedOver, IsIn
<1>19. ComponentsAreConnected'
  BY <1>1 DEF ComponentsAreConnected
<1> QED
  BY <1>10, <1>12, <1>13, <1>15, <1>16, <1>17, <1>18, <1>19 DEF IInv
-----------------------------------------------------------------------------
(* A minimum is lowered, and a call ends that hands nothing over.          *)

ReachedMinimum(i, m) ==
  m \in 1..i /\ \E a \in OnStack : values[nodestack[a]] = m /\ Reaches(frames[i].node, nodestack[a])

LEMMA CallsChange ==
  ASSUME IInv, frames' \in Seq(Calls), Len(frames') <= Len(frames),
         \A i \in 1..Len(frames') :
           /\ frames'[i].node = frames[i].node /\ frames'[i].id = frames[i].id
           /\ frames'[i].todo \subseteq frames[i].todo
           /\ ReachedMinimum(i, frames'[i].min),
         UNCHANGED <<graph, values, nodestack, components>>,
         Leads'
  PROVE  IInv'
<1>1. /\ TypeOK /\ StackHolds /\ CallsNumbered /\ Above /\ Leads
      /\ MinimumIsReached /\ HandedOver /\ ComponentsAreConnected
  BY DEF IInv
<1>2. /\ MaxNodes' = MaxNodes /\ Done' = Done
      /\ \A x, y : Reaches(x, y)' <=> Reaches(x, y)
      /\ OnStack' = OnStack
  BY DEF MaxNodes, Done, Reaches, OnStack
<1>3. Len(frames) \in Nat /\ Len(frames') \in Nat /\ MaxNodes \in Nat
  BY <1>1, StackProperties, LenProperties
<1>4. Running' \subseteq Running
  BY <1>3 DEF Running
<1>5. TypeOK'
  BY <1>1, <1>2 DEF TypeOK, Calls
<1>6. StackHolds'
  BY <1>1, <1>2 DEF StackHolds
<1>7. CallsNumbered'
  <2>1. ASSUME NEW i \in Running'
        PROVE  /\ frames'[i].id = i /\ values'[frames'[i].node] = i
               /\ frames'[i].min \in 1..i
               /\ frames'[i].todo \subseteq graph[frames'[i].node]
    <3>1. /\ frames[i].id = i /\ values[frames[i].node] = i
          /\ frames[i].todo \subseteq graph[frames[i].node]
      BY <1>1, <1>4 DEF CallsNumbered
    <3>2. /\ frames'[i].node = frames[i].node /\ frames'[i].id = frames[i].id
          /\ frames'[i].todo \subseteq frames[i].todo
          /\ ReachedMinimum(i, frames'[i].min)
      BY DEF Running
    <3> QED
      BY <3>1, <3>2 DEF ReachedMinimum
  <2>2. Len(frames') <= MaxNodes
    BY <1>1, <1>3 DEF CallsNumbered
  <2> QED
    BY <1>2, <2>1, <2>2 DEF CallsNumbered
<1>8. Above'
  <2>1. \A i \in Running' : frames'[i].node = frames[i].node
    BY DEF Running
  <2> QED
    BY <1>1, <1>2, <1>4, <2>1 DEF Above
<1>9. MinimumIsReached'
  <2>1. ASSUME NEW i \in Running'
        PROVE  \E a \in OnStack : values[nodestack[a]] = frames'[i].min /\ Reaches(frames'[i].node, nodestack[a])
    <3>1. frames'[i].node = frames[i].node /\ ReachedMinimum(i, frames'[i].min)
      BY DEF Running
    <3> QED
      BY <3>1 DEF ReachedMinimum
  <2> QED
    BY <1>2, <2>1 DEF MinimumIsReached
<1>10. HandedOver' /\ ComponentsAreConnected'
  BY <1>1, <1>2 DEF HandedOver, IsIn, ComponentsAreConnected
<1> QED
  BY <1>5, <1>6, <1>7, <1>8, <1>9, <1>10 DEF IInv

LEMMA KeptMinimum ==
  ASSUME CallsNumbered, MinimumIsReached, NEW i \in Running
  PROVE  ReachedMinimum(i, frames[i].min)
BY DEF CallsNumbered, MinimumIsReached, ReachedMinimum

(* A neighbour has been visited before. *)
LEMMA Looked ==
  ASSUME IInv, Len(frames) # 0, NEW n \in graph[frames[Len(frames)].node], values[n] # 0,
         NEW callers, SameCalls(callers),
         Lowered(frames', callers, values[n]),
         UNCHANGED <<graph, values, nodestack, components>>
  PROVE  IInv'
<1> DEFINE k == Len(frames)
<1>1. /\ TypeOK /\ StackHolds /\ CallsNumbered /\ Above /\ Leads /\ MinimumIsReached
  BY DEF IInv
<1>2. k \in Nat /\ MaxNodes \in Nat /\ k \in Running
  BY <1>1, StackProperties DEF Running
<1>3. frames[k].node \in DOMAIN graph /\ values[frames[k].node] = k /\ k <= MaxNodes
  BY <1>1, <1>2, CallProperties
<1>4. n \in DOMAIN graph /\ Reaches(frames[k].node, n)
  <2>1. n \in DOMAIN graph
    BY <1>1, <1>3, GraphProperties DEF TypeOK
  <2> QED
    BY <1>3, <2>1, ReachNeighbour
<1>5. values[n] \in 0..Done
  BY <1>1, <1>4 DEF TypeOK
<1>6. /\ frames' \in Seq(Calls) /\ Len(frames') = k
      /\ \A i \in Running :
           /\ frames'[i].node = frames[i].node /\ frames'[i].id = frames[i].id
           /\ frames'[i].todo \subseteq frames[i].todo
           /\ frames'[i].min = IF i = k /\ values[n] < frames[i].min THEN values[n] ELSE frames[i].min
  BY DEF Lowered, SameCalls, Running
<1>7. ASSUME NEW i \in Running
      PROVE  ReachedMinimum(i, frames'[i].min)
  <2>1. CASE i = k /\ values[n] < frames[i].min
    <3>1. frames[k].min \in 1..k
      BY <1>1, <1>2 DEF CallsNumbered
    <3>2. values[n] \in 1..k /\ values[n] \in 1..MaxNodes
      BY <1>2, <1>3, <1>5, <2>1, <3>1 DEF Done
    <3>3. PICK a \in OnStack : nodestack[a] = n
      BY <1>1, <1>4, <3>2 DEF StackHolds
    <3> QED
      BY <1>4, <1>6, <2>1, <3>2, <3>3 DEF ReachedMinimum
  <2>2. CASE ~(i = k /\ values[n] < frames[i].min)
    BY <1>1, <1>6, <2>2, KeptMinimum
  <2> QED
    BY <2>1, <2>2
<1>8. Leads'
  <2>1. Running' = Running /\ OnStack' = OnStack /\ \A x, y : Reaches(x, y)' <=> Reaches(x, y)
    BY <1>6 DEF Running, OnStack, Reaches
  <2> QED
    BY <1>1, <1>6, <2>1 DEF Leads
<1> QED
  BY <1>2, <1>6, <1>7, <1>8, CallsChange DEF Running

(* The node of the call stays on the stack: its minimum belongs to a node  *)
(* that leads to a call below.                                             *)
LEMMA LeftOnStack ==
  ASSUME IInv, Len(frames) # 0, frames[Len(frames)].min # Len(frames),
         NEW callers, callers = SubSeq(frames, 1, Len(frames) - 1),
         Lowered(frames', callers, frames[Len(frames)].min),
         UNCHANGED <<graph, values, nodestack, components>>
  PROVE  IInv'
<1> DEFINE k == Len(frames)
           m == frames[k].min
<1>1. /\ TypeOK /\ StackHolds /\ CallsNumbered /\ Above /\ Leads /\ MinimumIsReached
  BY DEF IInv
<1>2. k \in Nat /\ k \in Running /\ k - 1 \in 0..k
  BY <1>1, StackProperties DEF Running
<1>3. m \in 1..(k - 1)
  BY <1>1, <1>2 DEF CallsNumbered
<1>4. Len(callers) = k - 1 /\ \A i \in 1..(k - 1) : callers[i] = frames[i]
  BY <1>1, <1>2, FirstOnes DEF TypeOK
<1>5. /\ frames' \in Seq(Calls) /\ Len(frames') = k - 1
      /\ \A i \in 1..(k - 1) :
           /\ i \in Running
           /\ frames'[i].node = frames[i].node /\ frames'[i].id = frames[i].id
           /\ frames'[i].todo = frames[i].todo
           /\ frames'[i].min = IF i = k - 1 /\ m < frames[i].min THEN m ELSE frames[i].min
  BY <1>2, <1>4 DEF Lowered, Running
<1>6. PICK u \in OnStack : values[nodestack[u]] = m /\ Reaches(frames[k].node, nodestack[u])
  BY <1>1, <1>2 DEF MinimumIsReached
<1>7. ASSUME NEW i \in 1..(k - 1)
      PROVE  ReachedMinimum(i, frames'[i].min)
  <2>1. CASE i = k - 1 /\ m < frames[i].min
    <3>1. Reaches(frames[i].node, frames[k].node)
      BY <1>1, <1>2, <1>5, CallsReach
    <3>2. Reaches(frames[i].node, nodestack[u])
      BY <1>6, <3>1, ReachOn
    <3> QED
      BY <1>3, <1>5, <1>6, <2>1, <3>2 DEF ReachedMinimum
  <2>2. CASE ~(i = k - 1 /\ m < frames[i].min)
    <3>1. i \in Running /\ frames'[i].min = frames[i].min
      BY <1>5, <2>2
    <3> QED
      BY <1>1, <3>1, KeptMinimum
  <2> QED
    BY <2>1, <2>2
<1>8. Leads'
  <2>1. /\ Running' = 1..(k - 1) /\ OnStack' = OnStack
        /\ \A x, y : Reaches(x, y)' <=> Reaches(x, y)
    BY <1>5 DEF Running, OnStack, Reaches
  <2>2. PICK i2 \in Running, b2 \in OnStack :
          /\ b2 <= u /\ nodestack[b2] = frames[i2].node
          /\ i2 <= m /\ Reaches(nodestack[u], frames[i2].node)
    BY <1>1, <1>6 DEF Leads
  <2>3. i2 \in 1..(k - 1) /\ i2 <= k
    BY <1>2, <1>3, <2>2 DEF Running
  <2>4. ASSUME NEW a \in OnStack
        PROVE  \E i \in 1..(k - 1), b \in OnStack :
                 /\ b <= a /\ nodestack[b] = frames[i].node
                 /\ i <= values[nodestack[a]] /\ Reaches(nodestack[a], frames[i].node)
    <3>1. PICK i \in Running, b \in OnStack :
            /\ b <= a /\ nodestack[b] = frames[i].node
            /\ i <= values[nodestack[a]] /\ Reaches(nodestack[a], frames[i].node)
      BY <1>1 DEF Leads
    <3>2. CASE i = k
      <4>1. Reaches(nodestack[a], frames[i2].node)
        BY <1>6, <2>2, <3>1, <3>2, ReachOn
      <4>2. b2 <= b
        BY <1>1, <1>2, <2>2, <2>3, <3>1, <3>2, CallsReach
      <4>3. b2 <= a /\ i2 <= values[nodestack[a]]
        <5>1. /\ a \in Nat /\ b \in Nat /\ b2 \in Nat /\ i2 \in Nat
              /\ values[nodestack[a]] \in Nat
          BY <1>1, <2>3, StackProperties DEF OnStack
        <5> QED
          BY <1>2, <2>3, <3>1, <3>2, <4>2, <5>1
      <4> QED
        BY <2>2, <2>3, <4>1, <4>3
    <3>3. CASE i # k
      <4>1. i \in 1..(k - 1)
        BY <1>2, <3>3 DEF Running
      <4> QED
        BY <3>1, <4>1
    <3> QED
      BY <3>2, <3>3
  <2>5. \A i \in 1..(k - 1) : frames'[i].node = frames[i].node
    BY <1>5
  <2> QED
    BY <2>1, <2>4, <2>5 DEF Leads
<1> QED
  BY <1>2, <1>5, <1>7, <1>8, CallsChange
-----------------------------------------------------------------------------
(* A component is handed over.                                             *)

LEMMA Collected ==
  ASSUME TypeOK, NEW comp \in Seq(DOMAIN graph), components' = Append(components, comp)
  PROVE  /\ components' \in Seq(Seq(DOMAIN graph))
         /\ Len(components) \in Nat /\ DOMAIN components = 1..Len(components)
         /\ DOMAIN components' = 1..(Len(components) + 1)
         /\ \A i \in 1..Len(components) : components'[i] = components[i]
         /\ components'[Len(components) + 1] = comp
BY AppendProperties, LenProperties DEF TypeOK

(* The call on top ends: comp comes off the stack, and the caller is told  *)
(* the minimum m.                                                          *)
HandsOver(comp) ==
  /\ components' = Append(components, comp)
  /\ nodestack' = SubSeq(nodestack, 1, Len(nodestack) - Len(comp))
  /\ values' = [n \in DOMAIN values |-> IF n \in ToSet(comp) THEN Done ELSE values[n]]

Tells(m) == Lowered(frames', SubSeq(frames, 1, Len(frames) - 1), m)

LEMMA CallEnds ==
  ASSUME TypeOK, CallsNumbered, Len(frames) # 0, Tells(Len(frames))
  PROVE  /\ frames' \in Seq(Calls) /\ Len(frames') = Len(frames) - 1
         /\ \A i \in 1..(Len(frames) - 1) :
              /\ frames'[i].node = frames[i].node /\ frames'[i].id = frames[i].id
              /\ frames'[i].todo = frames[i].todo
              /\ frames'[i].min = frames[i].min
<1> DEFINE k == Len(frames)
           callers == SubSeq(frames, 1, k - 1)
<1>1. k \in Nat /\ k - 1 \in 0..k
  BY LenProperties DEF TypeOK
<1>2. Len(callers) = k - 1 /\ \A i \in 1..(k - 1) : callers[i] = frames[i]
  BY <1>1, FirstOnes DEF TypeOK
<1>3. \A i \in 1..(k - 1) : i < k /\ frames[i].min <= i /\ frames[i].min \in Nat
  BY <1>1 DEF CallsNumbered, Running
<1>4. Lowered(frames', callers, k)
  BY DEF Tells
<1> HIDE DEF callers
<1>5. /\ frames' \in Seq(Calls) /\ Len(frames') = k - 1
      /\ \A i \in 1..(k - 1) :
           /\ frames'[i].node = frames[i].node /\ frames'[i].id = frames[i].id
           /\ frames'[i].todo = frames[i].todo
           /\ frames'[i].min = IF i = k - 1 /\ k < frames[i].min THEN k ELSE frames[i].min
  BY <1>2, <1>4 DEF Lowered
<1> QED
  BY <1>1, <1>3, <1>5

LEMMA ComponentFound ==
  ASSUME IInv, Len(frames) # 0, frames[Len(frames)].min = Len(frames),
         NEW comp, comp = Popped(frames[Len(frames)].node),
         HandsOver(comp), Tells(Len(frames)), UNCHANGED graph
  PROVE  IInv'
<1> DEFINE k == Len(frames)
           l == Len(nodestack)
           root == frames[k].node
<1> USE DEF OnStack, Running
<1>1. /\ TypeOK /\ StackHolds /\ CallsNumbered /\ Above /\ Leads
      /\ MinimumIsReached /\ HandedOver /\ ComponentsAreConnected
  BY DEF IInv
<1>2. /\ k \in Nat /\ k \in 1..k /\ k - 1 \in 0..k
      /\ l \in Nat /\ MaxNodes \in Nat /\ Done = MaxNodes + 1 /\ k <= MaxNodes
  BY <1>1, StackProperties, CallProperties DEF Done
<1>3. root \in DOMAIN graph /\ values[root] = k
  BY <1>1, <1>2, CallProperties
<1>4. PICK p \in 1..l : nodestack[p] = root
  BY <1>1, <1>2, CallProperties
<1>5. /\ comp \in Seq(DOMAIN graph)
      /\ Len(comp) = l - p + 1
      /\ ToSet(comp) = {nodestack[a] : a \in p..l}
  BY <1>1, <1>4, PoppedIs
<1>6. p \in Nat /\ 1 <= p /\ p <= l /\ p - 1 \in 0..l
  BY <1>2
<1>7. /\ nodestack' \in Seq(DOMAIN graph)
      /\ Len(nodestack') = p - 1
      /\ \A a \in 1..(p - 1) : nodestack'[a] = nodestack[a]
  <2>1. PICK q \in 0..l : q = l - Len(comp) /\ q = p - 1
    BY <1>2, <1>5, <1>6
  <2>2. nodestack' = SubSeq(nodestack, 1, q)
    BY <2>1 DEF HandsOver
  <2>3. /\ nodestack' \in Seq(DOMAIN graph)
        /\ Len(nodestack') = q
        /\ \A a \in 1..q : nodestack'[a] = nodestack[a]
    BY <1>1, <2>2, FirstOnes DEF TypeOK
  <2> QED
    BY <2>1, <2>3
<1>8. /\ MaxNodes' = MaxNodes /\ Done' = Done
      /\ \A x, y : Reaches(x, y)' <=> Reaches(x, y)
  BY DEF MaxNodes, Done, Reaches
<1>9. /\ values' \in [DOMAIN graph -> 0..Done]
      /\ \A n \in DOMAIN graph : values'[n] = IF n \in ToSet(comp) THEN Done ELSE values[n]
  BY <1>1, <1>2 DEF TypeOK, HandsOver
(* What is left on the stack, and what comes off it. *)
<1>10. ASSUME NEW a \in 1..(p - 1)
       PROVE  /\ a \in 1..l /\ a < p
              /\ nodestack[a] \in DOMAIN graph /\ nodestack[a] \notin ToSet(comp)
              /\ values'[nodestack[a]] = values[nodestack[a]]
  <2>1. a \in 1..l /\ a < p
    BY <1>6
  <2>2. nodestack[a] \notin ToSet(comp)
    <3>1. ASSUME NEW b \in p..l PROVE nodestack[a] # nodestack[b]
      BY <1>1, <1>6, <2>1 DEF StackHolds
    <3> QED
      BY <1>5, <3>1
  <2>3. nodestack[a] \in DOMAIN graph
    BY <1>1, <2>1, StackProperties
  <2> QED
    BY <1>9, <2>1, <2>2, <2>3
<1>11. ASSUME NEW n \in ToSet(comp)
       PROVE  /\ n \in DOMAIN graph /\ values[n] \in 1..MaxNodes /\ k <= values[n]
              /\ Reaches(root, n) /\ Reaches(n, root)
  <2>1. PICK b \in p..l : nodestack[b] = n
    BY <1>5
  <2>2. b \in 1..l /\ (b = p \/ p < b)
    BY <1>6, <2>1
  <2>3. n \in DOMAIN graph /\ values[n] \in 1..MaxNodes
    BY <1>1, <2>1, <2>2, StackProperties
  <2>4. k <= values[n] /\ Reaches(root, n)
    <3>1. CASE b = p
      BY <1>2, <1>3, <1>4, <2>1, <3>1, ReachItself
    <3>2. CASE p < b
      <4>1. k < values[n] /\ Reaches(root, n)
        BY <1>1, <1>2, <1>4, <2>1, <2>2, <3>2 DEF Above
      <4> QED
        BY <1>2, <2>3, <4>1
    <3> QED
      BY <2>2, <3>1, <3>2
  <2>5. PICK i \in 1..k : Reaches(n, frames[i].node)
    BY <1>1, <2>1, <2>2 DEF Leads
  <2>6. Reaches(frames[i].node, root)
    BY <1>1, <1>2, CallsReach
  <2> QED
    BY <2>3, <2>4, <2>5, <2>6, ReachOn
<1>12. /\ frames' \in Seq(Calls) /\ Len(frames') = k - 1
       /\ \A i \in 1..(k - 1) :
            /\ frames'[i].node = frames[i].node /\ frames'[i].id = frames[i].id
            /\ frames'[i].todo = frames[i].todo
            /\ frames'[i].min = frames[i].min
  BY <1>1, CallEnds
<1>13. ASSUME NEW i \in 1..(k - 1)
       PROVE  /\ i \in 1..k /\ i < k
              /\ frames[i].node \in DOMAIN graph
              /\ values[frames[i].node] = i /\ values'[frames[i].node] = i
  <2>1. i \in 1..k /\ i < k
    BY <1>2
  <2>2. frames[i].node \in DOMAIN graph /\ values[frames[i].node] = i
    BY <1>1, <2>1, CallProperties
  <2>3. frames[i].node \notin ToSet(comp)
    BY <1>2, <1>11, <2>1, <2>2
  <2> QED
    BY <1>9, <2>1, <2>2, <2>3
<1>14. PICK c : c = Len(components) + 1
  OBVIOUS
<1>15. /\ components' \in Seq(Seq(DOMAIN graph))
       /\ Len(components) \in Nat /\ DOMAIN components = 1..Len(components)
       /\ DOMAIN components' = 1..c
       /\ \A i \in DOMAIN components : components'[i] = components[i]
       /\ components'[c] = comp
  BY <1>1, <1>5, <1>14, Collected DEF HandsOver
<1>16. /\ c \in DOMAIN components' /\ c \notin DOMAIN components
       /\ \A i \in DOMAIN components' : i = c \/ i \in DOMAIN components
       /\ \A i \in DOMAIN components : i \in DOMAIN components'
  BY <1>14, <1>15
<1> HIDE DEF root
<1>17. TypeOK'
  BY <1>1, <1>7, <1>8, <1>9, <1>12, <1>15 DEF TypeOK, Calls
<1>18. StackHolds'
  <2>1. ASSUME NEW a \in 1..(p - 1), NEW b \in 1..(p - 1), nodestack'[a] = nodestack'[b]
        PROVE  a = b
    <3>1. a \in 1..l /\ b \in 1..l /\ nodestack[a] = nodestack[b]
      BY <1>7, <1>10, <2>1
    <3> QED
      BY <1>1, <3>1 DEF StackHolds
  <2>2. ASSUME NEW n \in DOMAIN graph
        PROVE  values'[n] \in 1..MaxNodes <=> \E a \in 1..(p - 1) : nodestack'[a] = n
    <3>1. CASE n \in ToSet(comp)
      <4>1. ~ (values'[n] \in 1..MaxNodes)
        BY <1>2, <1>9, <3>1
      <4>2. ~ \E a \in 1..(p - 1) : nodestack'[a] = n
        BY <1>7, <1>10, <3>1
      <4> QED
        BY <4>1, <4>2
    <3>2. CASE n \notin ToSet(comp)
      <4>1. values'[n] \in 1..MaxNodes <=> \E a \in 1..l : nodestack[a] = n
        BY <1>1, <1>9, <3>2 DEF StackHolds
      <4>2. \A a \in 1..l : nodestack[a] = n => a \in 1..(p - 1)
        <5>1. \A a \in 1..l : a \in 1..(p - 1) \/ a \in p..l
          BY <1>2, <1>6
        <5> QED
          BY <1>5, <3>2, <5>1
      <4> QED
        BY <1>7, <1>10, <4>1, <4>2
    <3> QED
      BY <3>1, <3>2
  <2> QED
    BY <1>7, <1>8, <2>1, <2>2 DEF StackHolds
<1>19. CallsNumbered'
  <2>1. ASSUME NEW i \in 1..(k - 1)
        PROVE  /\ frames'[i].id = i /\ values'[frames'[i].node] = i
               /\ frames'[i].min \in 1..i
               /\ frames'[i].todo \subseteq graph[frames'[i].node]
    <3>1. i \in 1..k /\ values'[frames[i].node] = i
      BY <1>13
    <3>2. /\ frames[i].id = i /\ frames[i].min \in 1..i
          /\ frames[i].todo \subseteq graph[frames[i].node]
      BY <1>1, <3>1 DEF CallsNumbered
    <3> QED
      BY <1>12, <3>1, <3>2
  <2>2. k - 1 <= MaxNodes
    BY <1>2
  <2> QED
    BY <1>8, <1>12, <2>1, <2>2 DEF CallsNumbered
<1>20. Above'
  <2>1. ASSUME NEW i \in 1..(k - 1), NEW a \in 1..(p - 1), NEW b \in 1..(p - 1),
               nodestack'[a] = frames'[i].node, a < b
        PROVE  i < values'[nodestack'[b]] /\ Reaches(frames'[i].node, nodestack'[b])
    <3>1. /\ i \in 1..k /\ a \in 1..l /\ b \in 1..l
          /\ nodestack[a] = frames[i].node
      BY <1>7, <1>10, <1>12, <1>13, <2>1
    <3>2. i < values[nodestack[b]] /\ Reaches(frames[i].node, nodestack[b])
      BY <1>1, <2>1, <3>1 DEF Above
    <3> QED
      BY <1>7, <1>10, <1>12, <3>2
  <2>2. Running' = 1..(k - 1) /\ OnStack' = 1..(p - 1)
    BY <1>7, <1>12
  <2> QED
    BY <1>8, <2>1, <2>2 DEF Above
<1>21. Leads'
  <2>1. ASSUME NEW a \in 1..(p - 1)
        PROVE  \E i \in 1..(k - 1), b \in 1..(p - 1) :
                 /\ b <= a /\ nodestack[b] = frames[i].node
                 /\ i <= values'[nodestack[a]] /\ Reaches(nodestack[a], frames[i].node)
    <3>1. PICK i \in 1..k, b \in 1..l :
            /\ b <= a /\ nodestack[b] = frames[i].node
            /\ i <= values[nodestack[a]] /\ Reaches(nodestack[a], frames[i].node)
      BY <1>1, <1>10 DEF Leads
    <3>2. a < p /\ a \in Nat
      BY <1>6, <1>10
    <3>3. b < p /\ b \in 1..(p - 1)
      BY <1>6, <3>1, <3>2
    <3>4. i # k
      <4>1. nodestack[b] # nodestack[p]
        BY <1>1, <1>6, <3>1, <3>3 DEF StackHolds
      <4> QED
        BY <1>4, <3>1, <4>1 DEF root
    <3>5. i \in 1..(k - 1)
      BY <1>2, <3>4
    <3> QED
      BY <1>10, <3>1, <3>3, <3>5
  <2> QED
    BY <1>7, <1>8, <1>12, <2>1 DEF Leads
<1>22. MinimumIsReached'
  <2>1. ASSUME NEW i \in 1..(k - 1)
        PROVE  \E a \in 1..(p - 1) :
                 values'[nodestack[a]] = frames[i].min /\ Reaches(frames[i].node, nodestack[a])
    <3>1. PICK a \in 1..l :
            values[nodestack[a]] = frames[i].min /\ Reaches(frames[i].node, nodestack[a])
      BY <1>1, <1>13 DEF MinimumIsReached
    <3>2. frames[i].min < k
      <4>1. frames[i].min \in 1..i
        BY <1>1, <1>13 DEF CallsNumbered
      <4> QED
        BY <1>2, <1>13, <4>1
    <3>3. a \notin p..l
      <4>1. nodestack[a] \notin ToSet(comp)
        BY <1>2, <1>11, <3>1, <3>2
      <4> QED
        BY <1>5, <4>1
    <3>4. a \in 1..(p - 1)
      BY <1>2, <1>6, <3>3
    <3> QED
      BY <1>10, <3>1, <3>4
  <2> QED
    BY <1>7, <1>8, <1>12, <2>1 DEF MinimumIsReached
<1>23. HandedOver'
  <2>1. \A n : IsIn(n, c)' <=> n \in ToSet(comp)
    BY <1>15 DEF IsIn
  <2>2. \A n : \A i \in DOMAIN components : IsIn(n, i)' <=> IsIn(n, i)
    BY <1>15 DEF IsIn
  <2>3. ASSUME NEW n \in DOMAIN graph
        PROVE  IF values'[n] = Done
               THEN \E i \in DOMAIN components' : \A j \in DOMAIN components' : IsIn(n, j)' <=> j = i
               ELSE \A j \in DOMAIN components' : ~IsIn(n, j)'
    <3>1. CASE n \in ToSet(comp)
      <4>1. values[n] # Done
        BY <1>2, <1>11, <3>1
      <4>2. \A j \in DOMAIN components : ~IsIn(n, j)
        BY <1>1, <4>1 DEF HandedOver
      <4>3. \A j \in DOMAIN components' : IsIn(n, j)' <=> j = c
        BY <1>16, <2>1, <2>2, <3>1, <4>2
      <4> QED
        BY <1>9, <1>16, <3>1, <4>3
    <3>2. CASE n \notin ToSet(comp)
      <4>1. values'[n] = values[n] /\ ~IsIn(n, c)'
        BY <1>9, <2>1, <3>2
      <4>2. CASE values[n] = Done
        <5>1. PICK i \in DOMAIN components : \A j \in DOMAIN components : IsIn(n, j) <=> j = i
          BY <1>1, <4>2 DEF HandedOver
        <5>2. \A j \in DOMAIN components' : IsIn(n, j)' <=> j = i
          BY <1>16, <2>2, <4>1, <5>1
        <5> QED
          BY <1>16, <4>1, <4>2, <5>2
      <4>3. CASE values[n] # Done
        <5>1. \A j \in DOMAIN components : ~IsIn(n, j)
          BY <1>1, <4>3 DEF HandedOver
        <5>2. \A j \in DOMAIN components' : ~IsIn(n, j)'
          BY <1>16, <2>2, <4>1, <5>1
        <5> QED
          BY <4>1, <4>3, <5>2
      <4> QED
        BY <4>2, <4>3
    <3> QED
      BY <3>1, <3>2
  <2> QED
    BY <1>8, <2>3 DEF HandedOver
<1>24. ComponentsAreConnected'
  <2>1. ASSUME NEW m \in ToSet(comp), NEW n \in ToSet(comp)
        PROVE  Connected(graph, m, n)
    <3>1. Reaches(m, n) /\ Reaches(n, m)
      BY <1>11, ReachOn
    <3> QED
      BY <3>1 DEF Connected, Reaches
  <2>2. ASSUME NEW i \in DOMAIN components', NEW m \in ToSet(components'[i]), NEW n \in ToSet(components'[i])
        PROVE  Connected(graph, m, n)
    <3>1. CASE i = c
      BY <1>15, <2>1, <2>2, <3>1
    <3>2. CASE i \in DOMAIN components
      BY <1>1, <1>15, <2>2, <3>2 DEF ComponentsAreConnected
    <3> QED
      BY <1>16, <3>1, <3>2
  <2> QED
    BY <2>2 DEF ComponentsAreConnected
<1> QED
  BY <1>17, <1>18, <1>19, <1>20, <1>21, <1>22, <1>23, <1>24 DEF IInv

-----------------------------------------------------------------------------
LEMMA InitInv == Init => IInv
<1> SUFFICES ASSUME Init PROVE IInv
  OBVIOUS
<1>1. /\ graph \in Graphs /\ nodestack = <<>> /\ frames = <<>> /\ components = <<>>
      /\ Len(nodestack) = 0 /\ Len(frames) = 0 /\ DOMAIN components = {}
      /\ OnStack = {} /\ Running = {}
  BY DEF Init, OnStack, Running
<1>2. MaxNodes \in Nat /\ Done = MaxNodes + 1
  BY <1>1, GraphProperties DEF Done
<1>3. values \in [DOMAIN graph -> 0..Done] /\ \A n \in DOMAIN graph : values[n] = 0
  BY <1>2 DEF Init, Prepare
<1>4. TypeOK
  BY <1>1, <1>3 DEF TypeOK
<1>5. StackHolds /\ CallsNumbered /\ Above /\ Leads /\ MinimumIsReached
  BY <1>1, <1>2, <1>3 DEF StackHolds, CallsNumbered, Above, Leads, MinimumIsReached
<1>6. HandedOver /\ ComponentsAreConnected
  BY <1>1, <1>2, <1>3 DEF HandedOver, ComponentsAreConnected
<1> QED
  BY <1>4, <1>5, <1>6 DEF IInv

LEMMA NextInv == IInv /\ [Next]_vars => IInv'
<1> SUFFICES ASSUME IInv, [Next]_vars PROVE IInv'
  OBVIOUS
<1>1. TypeOK /\ StackHolds /\ CallsNumbered
  BY DEF IInv
<1>2. Len(frames) \in Nat /\ (frames = <<>> <=> Len(frames) = 0)
  BY <1>1, LenProperties, EmptySeq DEF TypeOK
<1>3. ASSUME NEW n \in DOMAIN graph, Start(n)
      PROVE  IInv'
  <2>1. SameCalls(<<>>) /\ Len(frames) = 0
    BY <1>2, <1>3 DEF Start, SameCalls, Running
  <2> QED
    BY <1>3, <2>1, Visited DEF Start
<1>4. frames # <<>> => /\ Len(frames) \in Running
                       /\ Top = frames[Len(frames)] /\ Top \in Calls
                       /\ Top.id = Len(frames) /\ values[Top.node] = Len(frames)
                       /\ Top.min \in Nat /\ Top.todo \subseteq graph[Top.node]
  <2>1. frames # <<>> => Len(frames) \in Running
    BY <1>2 DEF Running
  <2>2. frames # <<>> => frames[Len(frames)] \in Calls
    BY <1>1, <2>1, CallProperties
  <2> QED
    BY <1>1, <2>1, <2>2 DEF CallsNumbered, Top, Calls
<1>5. ASSUME NEW n \in DOMAIN graph, Look(n)
      PROVE  IInv'
  <2> DEFINE k == Len(frames)
             top == frames[k]
             new == [node |-> top.node, id |-> top.id, min |-> top.min, todo |-> top.todo \ {n}]
             seen == [frames EXCEPT ![k] = new]
  <2>1. /\ k \in Running /\ k \in 1..k /\ k # 0 /\ top \in Calls /\ top.id = k
        /\ n \in top.todo /\ n \in graph[top.node]
    BY <1>2, <1>4, <1>5 DEF Look, Running
  <2>2. new \in Calls /\ new = [top EXCEPT !.todo = top.todo \ {n}]
    <3> HIDE DEF top, k
    <3>1. PICK x \in DOMAIN graph, i \in Nat, m \in Nat, t \in SUBSET DOMAIN graph :
            top = [node |-> x, id |-> i, min |-> m, todo |-> t]
      BY <2>1 DEF Calls
    <3> QED
      BY <3>1 DEF Calls
  <2>3. seen = [frames EXCEPT ![Len(frames)].todo = @ \ {n}]
    BY <2>2
  <2> HIDE DEF new
  <2>4. /\ seen \in Seq(Calls) /\ Len(seen) = k
        /\ \A i \in 1..k : seen[i] = IF i = k THEN new ELSE frames[i]
    BY <1>1, <1>2, <2>1, <2>2, ExceptSeq DEF TypeOK
  <2>5. /\ new.node = top.node /\ new.id = top.id /\ new.min = top.min
        /\ new.todo \subseteq top.todo
    BY DEF new
  <2>6. SameCalls(seen)
    <3> HIDE DEF seen
    <3> QED
      BY <2>4, <2>5 DEF SameCalls, Running
  <2>7. CASE values[n] = 0
    <3>1. Visit(seen, n, k) /\ UNCHANGED <<graph, components>>
      BY <1>4, <1>5, <2>1, <2>3, <2>7 DEF Look
    <3> HIDE DEF seen
    <3> QED
      BY <2>1, <2>6, <2>7, <3>1, Visited
  <2>8. CASE values[n] # 0
    <3>1. frames' = Lower(seen, values[n]) /\ UNCHANGED <<graph, values, nodestack, components>>
      BY <1>5, <2>3, <2>8 DEF Look
    <3>2. values[n] \in Nat
      <4>1. Done \in Nat
        BY <1>1, StackProperties DEF Done
      <4> QED
        BY <1>1, <4>1 DEF TypeOK
    <3> HIDE DEF seen
    <3>3. Lowered(frames', seen, values[n])
      BY <2>4, <3>1, <3>2, LowerLowers
    <3> QED
      BY <2>1, <2>6, <2>8, <3>1, <3>3, Looked
  <2> QED
    BY <2>7, <2>8
<1>6. CASE Leave
  <2> DEFINE callers == SubSeq(frames, 1, Len(frames) - 1)
             comp == Popped(Top.node)
  <2>1. /\ Len(frames) # 0 /\ Len(frames) - 1 \in 0..Len(frames)
        /\ frames' = Lower(callers, Top.min) /\ UNCHANGED graph
    BY <1>2, <1>6 DEF Leave, Front
  <2>2. callers \in Seq(Calls)
    BY <1>1, <2>1, FirstOnes DEF TypeOK
  <2> HIDE DEF callers
  <2>3. Lowered(frames', callers, Top.min)
    BY <1>2, <1>4, <2>1, <2>2, LowerLowers
  <2>4. CASE Top.min = values[Top.node]
    <3>1. HandsOver(comp)
      BY <1>6, <2>4 DEF Leave, HandsOver
    <3>2. frames[Len(frames)].min = Len(frames) /\ Tells(Len(frames))
      BY <1>2, <1>4, <2>1, <2>3, <2>4 DEF Tells, callers
    <3>3. comp = Popped(frames[Len(frames)].node)
      BY DEF Top
    <3> HIDE DEF comp
    <3> QED
      BY <2>1, <3>1, <3>2, <3>3, ComponentFound
  <2>5. CASE Top.min # values[Top.node]
    <3>1. UNCHANGED <<components, nodestack, values>>
      BY <1>6, <2>5 DEF Leave
    <3>2. frames[Len(frames)].min # Len(frames) /\ Lowered(frames', callers, frames[Len(frames)].min)
      BY <1>2, <1>4, <2>1, <2>3, <2>5
    <3> QED
      BY <2>1, <3>1, <3>2, LeftOnStack DEF callers
  <2> QED
    BY <2>4, <2>5
<1>7. CASE UNCHANGED vars
  <2>1. UNCHANGED <<graph, values, nodestack, frames, components>>
    BY <1>7 DEF vars
  <2>2. UNCHANGED <<TypeOK, StackHolds, CallsNumbered>>
    BY <2>1 DEF TypeOK, Calls, Done, MaxNodes, StackHolds, OnStack, CallsNumbered, Running
  <2>3. UNCHANGED <<Above, Leads, MinimumIsReached>>
    BY <2>1 DEF Above, Leads, MinimumIsReached, OnStack, Running, Reaches
  <2>4. UNCHANGED <<HandedOver, ComponentsAreConnected>>
    BY <2>1 DEF HandedOver, IsIn, Done, MaxNodes, ComponentsAreConnected
  <2> QED
    BY <2>2, <2>3, <2>4 DEF IInv
<1> QED
  BY <1>3, <1>5, <1>6, <1>7 DEF Next, Step

LEMMA Invariant == Spec => []IInv
BY InitInv, NextInv, PTL DEF Spec

(* The variables of SCCProcessor::find_scc() (graph.hpp) keep their types: *)
(* the numbers of the nodes never exceed the one that means done.          *)
THEOREM TypeIsKept == Spec => []TypeOK
<1>1. IInv => TypeOK
  BY DEF IInv
<1> QED
  BY <1>1, Invariant, PTL

(* What SCCProcessor hands to the user of find_scc() (graph.hpp:343) is    *)
(* disjoint sets of nodes that can be reached from each other, and in the  *)
(* end all nodes have been handed over: for every graph, although the      *)
(* numbers of the nodes are depths of calls and not unique.                *)
THEOREM HandsOverComponents == Spec => []ComponentsAreRight
<1>1. ASSUME IInv PROVE ComponentsAreRight
  <2>1. TypeOK /\ StackHolds /\ Leads /\ HandedOver /\ ComponentsAreConnected
    BY <1>1 DEF IInv
  <2>2. ASSUME NEW n \in DOMAIN graph
        PROVE  Cardinality({i \in DOMAIN components : n \in ToSet(components[i])})
                 = IF values[n] = Done THEN 1 ELSE 0
    <3> DEFINE S == {i \in DOMAIN components : n \in ToSet(components[i])}
    <3>1. CASE values[n] = Done
      <4>1. PICK i \in DOMAIN components : \A j \in DOMAIN components : IsIn(n, j) <=> j = i
        BY <2>1, <3>1 DEF HandedOver
      <4>2. S = {i}
        BY <4>1 DEF IsIn
      <4> QED
        BY <3>1, <4>2, FS_Singleton
    <3>2. CASE values[n] # Done
      <4>1. S = {}
        BY <2>1, <3>2 DEF HandedOver, IsIn
      <4> QED
        BY <3>2, <4>1, FS_EmptySet
    <3> QED
      BY <3>1, <3>2
  <2>3. Found => nodestack = <<>>
    <3>1. ASSUME frames = <<>> PROVE nodestack = <<>>
      <4>1. Running = {}
        BY <3>1 DEF Running
      <4>2. OnStack = {}
        BY <2>1, <4>1 DEF Leads
      <4>3. Len(nodestack) = 0
        BY <2>1, <4>2, StackProperties DEF OnStack
      <4> QED
        BY <2>1, <4>3, EmptySeq DEF TypeOK
    <3> QED
      BY <3>1 DEF Found
  <2> QED
    BY <2>1, <2>2, <2>3 DEF ComponentsAreRight, EachNodeOnce
<1> QED
  BY <1>1, Invariant, PTL
=============================================================================
