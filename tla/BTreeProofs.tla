------------------------------ MODULE BTreeProofs ------------------------------
(***************************************************************************)
(* Proofs about BTree, for any keys and any number of nodes: whatever is   *)
(* inserted and erased, the links follow the tree, an iterator keeps its   *)
(* place, and the tree is a sorted bag.                                    *)
(*                                                                         *)
(* The inductive invariant is TreeInv: for some functions sub (the nodes   *)
(* below a node), comp (the nodes of its tree) and pos (its place in the   *)
(* order) all fields of all nodes are right.  Between two steps there is   *)
(* one tree; while erase() works there are several, a Forest, and each     *)
(* thing that it does (Cut, Concat) takes a forest to another.             *)
(***************************************************************************)
EXTENDS BTree, TLAPS, SequenceTheorems, FiniteSetTheorems, NaturalsInduction, WellFoundedInduction

-----------------------------------------------------------------------------
(* Loops.                                                                  *)

(* Of some ranked elements, one has the smallest rank.                     *)
LEMMA LeastRank ==
  ASSUME NEW D, NEW rank \in [D -> Nat], NEW W \in SUBSET D, W # {}
  PROVE  \E m \in W : \A x \in W : rank[m] <= rank[x]
<1> DEFINE S == {rank[m] : m \in W}
<1>1. S \subseteq Nat /\ S # {}
  OBVIOUS
<1> HIDE DEF S
<1>2. PICK i \in S : \A j \in S : ~ (<<j, i>> \in OpToRel(<, Nat))
  BY <1>1, NatLessThanWellFounded, WFMin
<1>3. \A j \in S : i <= j
  <2> TAKE j \in S
  <2>1. i \in Nat /\ j \in Nat
    BY <1>1
  <2>2. ~ (j < i)
    BY <1>2, <2>1, Zenon DEF OpToRel
  <2> QED
    BY <2>1, <2>2
<1>4. PICK m \in W : i = rank[m]
  BY DEF S
<1>5. \A x \in W : rank[x] \in S
  BY DEF S
<1> QED
  BY <1>3, <1>4, <1>5

(* f gives the end of a loop from each of its elements on.                 *)
IsLoop(f, D, Stop, g) == f = [m \in D |-> IF m \in Stop THEN m ELSE f[g[m]]]

(* A loop that is at a smaller rank in every round has an end.             *)
LEMMA LoopExists ==
  ASSUME NEW D, NEW Stop, NEW g, NEW rank \in [D -> Nat],
         \A m \in D \ Stop : g[m] \in D /\ rank[g[m]] < rank[m]
  PROVE  \E f : IsLoop(f, D, Stop, g)
<1> DEFINE To(f, m) == IF m \in Stop THEN m ELSE f[g[m]]
           Low(n) == {m \in D : rank[m] < n}
           Done(f, n) == \A m \in Low(n) : f[m] = To(f, m)
           None == {n \in Nat : \A f : ~ Done(f, n)}
<1>1. None = {}
  <2> SUFFICES ASSUME None # {} PROVE FALSE
    OBVIOUS
  <2> DEFINE id == [n \in Nat |-> n]
  <2>1. id \in [Nat -> Nat] /\ None \in SUBSET Nat /\ \A n \in Nat : id[n] = n
    OBVIOUS
  <2> HIDE DEF None, id
  <2>2. PICK n \in None : \A y \in None : id[n] <= id[y]
    BY <2>1, LeastRank
  <2>3. n \in Nat /\ \A y \in None : n <= y
    BY <2>1, <2>2
  <2>4. \A f : ~ Done(f, n)
    BY DEF None
  <2>5. CASE n = 0
    <3>1. Low(n) = {}
      BY <2>5
    <3> QED
      BY <2>4, <3>1
  <2>6. CASE n # 0
    <3>1. PICK k \in Nat : n = k + 1
      BY <2>3, <2>6
    <3>2. k \notin None
      BY <2>3, <3>1
    <3>3. PICK f : Done(f, k)
      BY <3>2 DEF None
    <3> DEFINE e == [m \in D |-> To(f, m)]
    <3>4. \A m \in Low(k) : e[m] = f[m]
      BY <3>3
    <3>5. ASSUME NEW m \in Low(n) PROVE e[m] = To(e, m)
      <4>1. CASE m \in Stop
        BY <4>1
      <4>2. CASE m \notin Stop
        <5>1. g[m] \in Low(k)
          BY <3>1, <4>2
        <5>2. e[g[m]] = f[g[m]]
          BY <3>4, <5>1
        <5> QED
          BY <4>2, <5>2
      <4> QED
        BY <4>1, <4>2
    <3> QED
      BY <2>4, <3>5
  <2> QED
    BY <2>5, <2>6
<1>2. \A n \in Nat : \E f : Done(f, n)
  BY <1>1
<1> DEFINE at == [m \in D |-> (CHOOSE f : Done(f, rank[m] + 1))[m]]
<1>3. ASSUME NEW n \in Nat, NEW f, Done(f, n), NEW e, Done(e, n) PROVE \A m \in Low(n) : f[m] = e[m]
  <2> DEFINE W == {m \in Low(n) : f[m] # e[m]}
  <2> SUFFICES ASSUME W # {} PROVE FALSE
    OBVIOUS
  <2>1. W \in SUBSET D
    OBVIOUS
  <2>2. PICK m \in W : \A x \in W : rank[m] <= rank[x]
    BY <2>1, LeastRank
  <2>3. m \in Low(n) /\ f[m] = To(f, m) /\ e[m] = To(e, m)
    BY <1>3
  <2>4. m \notin Stop
    BY <2>3
  <2>5. g[m] \in Low(n) /\ rank[g[m]] < rank[m]
    BY <2>3, <2>4
  <2>6. g[m] \notin W
    BY <2>2, <2>5
  <2> QED
    BY <2>3, <2>4, <2>5, <2>6
<1>4. ASSUME NEW m \in D PROVE at[m] = To(at, m)
  <2> DEFINE f == CHOOSE f : Done(f, rank[m] + 1)
  <2>1. Done(f, rank[m] + 1)
    <3>1. rank[m] + 1 \in Nat
      OBVIOUS
    <3> HIDE DEF Done
    <3> QED
      BY <1>2, <3>1
  <2>2. at[m] = f[m] /\ m \in Low(rank[m] + 1)
    OBVIOUS
  <2> HIDE DEF f, at
  <2>3. f[m] = To(f, m)
    BY <2>1, <2>2
  <2>4. CASE m \in Stop
    BY <2>2, <2>3, <2>4
  <2>5. CASE m \notin Stop
    <3> DEFINE q == g[m]
    <3>1. q \in D /\ rank[q] < rank[m]
      BY <2>5
    <3> HIDE DEF q
    <3> DEFINE e == CHOOSE e : Done(e, rank[q] + 1)
    <3>2. Done(e, rank[q] + 1)
      <4>1. rank[q] + 1 \in Nat
        BY <3>1
      <4> HIDE DEF Done
      <4> QED
        BY <1>2, <4>1
    <3>3. at[q] = e[q]
      BY <3>1 DEF at
    <3> HIDE DEF e
    <3>4. Done(f, rank[q] + 1)
      BY <2>1, <3>1
    <3>5. q \in Low(rank[q] + 1) /\ rank[q] + 1 \in Nat
      BY <3>1
    <3>6. f[q] = e[q]
      <4> HIDE DEF Done, Low
      <4> QED
        BY <1>3, <3>2, <3>4, <3>5
    <3> QED
      BY <2>2, <2>3, <2>5, <3>3, <3>6 DEF q
  <2> QED
    BY <2>4, <2>5
<1>5. IsLoop(at, D, Stop, g)
  <2>1. at = [m \in D |-> at[m]]
    OBVIOUS
  <2>2. at = [m \in D |-> To(at, m)]
    <3> HIDE DEF at, To
    <3> QED
      BY <1>4, <2>1
  <2> QED
    BY <2>2 DEF IsLoop
<1> QED
  BY <1>5

(* It stays where it goes, and stops there.                                *)
LEMMA LoopEnds ==
  ASSUME NEW D, NEW Stop, NEW g, NEW rank \in [D -> Nat],
         \A m \in D \ Stop : g[m] \in D /\ rank[g[m]] < rank[m],
         NEW f, IsLoop(f, D, Stop, g),
         NEW T \in SUBSET D, \A m \in T \ Stop : g[m] \in T,
         NEW x \in T
  PROVE  f[x] \in T /\ f[x] \in Stop
<1> DEFINE W == {m \in T : ~ (f[m] \in T /\ f[m] \in Stop)}
<1> SUFFICES ASSUME W # {} PROVE FALSE
  OBVIOUS
<1>1. W \in SUBSET D
  OBVIOUS
<1>2. PICK m \in W : \A y \in W : rank[m] <= rank[y]
  <2> HIDE DEF W
  <2> QED
    BY <1>1, LeastRank
<1>3. \A y \in D : f[y] = IF y \in Stop THEN y ELSE f[g[y]]
  BY DEF IsLoop
<1>4. m \in T /\ m \in D /\ m \notin Stop
  BY <1>3
<1>5. g[m] \in T /\ rank[g[m]] < rank[m]
  BY <1>4
<1>6. g[m] \notin W
  <2> HIDE DEF W
  <2> QED
    BY <1>1, <1>2, <1>4, <1>5
<1> QED
  BY <1>3, <1>4, <1>5, <1>6

(* Along(), Place() and GetBranch() stay in a set that is closed under     *)
(* their rounds, and end for the reason that they look for.                *)
LEMMA AlongEnds ==
  ASSUME NEW h, NEW field, NEW rank \in [DOMAIN h -> Nat],
         \A m \in DOMAIN h : h[m][field] # NULL => h[m][field] \in DOMAIN h /\ rank[h[m][field]] < rank[m],
         NEW T \in SUBSET DOMAIN h, \A m \in T : h[m][field] # NULL => h[m][field] \in T,
         NEW n \in T
  PROVE  Along(h, n, field) \in T /\ h[Along(h, n, field)][field] = NULL
<1> DEFINE D == DOMAIN h
           Stop == {m \in D : h[m][field] = NULL}
           g == [m \in D |-> h[m][field]]
           f == CHOOSE f : f = [m \in D |-> IF h[m][field] = NULL THEN m ELSE f[h[m][field]]]
<1>1. \A m \in D \ Stop : g[m] \in D /\ rank[g[m]] < rank[m]
  OBVIOUS
<1>2. \A m \in T \ Stop : g[m] \in T
  OBVIOUS
<1>3. ASSUME NEW e PROVE IsLoop(e, D, Stop, g) <=> e = [m \in D |-> IF h[m][field] = NULL THEN m ELSE e[h[m][field]]]
  BY DEF IsLoop
<1>4. Along(h, n, field) = f[n]
  BY Zenon DEF Along
<1>5. rank \in [D -> Nat] /\ T \in SUBSET D
  OBVIOUS
<1>6. f[n] \in Stop => h[f[n]][field] = NULL
  <2> HIDE DEF f
  <2> QED
    OBVIOUS
<1> HIDE DEF Stop, g, D
<1>7. \E e : IsLoop(e, D, Stop, g)
  BY <1>1, <1>5, LoopExists
<1>8. \E e : e = [m \in D |-> IF h[m][field] = NULL THEN m ELSE e[h[m][field]]]
  BY <1>3, <1>7, Zenon
<1>9. f = [m \in D |-> IF h[m][field] = NULL THEN m ELSE f[h[m][field]]]
  BY <1>8, Zenon
<1> HIDE DEF f
<1>10. IsLoop(f, D, Stop, g)
  BY <1>3, <1>9, Zenon
<1>11. f[n] \in T /\ f[n] \in Stop
  BY <1>1, <1>2, <1>5, <1>10, LoopEnds
<1> QED
  BY <1>4, <1>6, <1>11

LEMMA PlaceEnds ==
  ASSUME NEW h, NEW k, NEW rank \in [DOMAIN h -> Nat],
         \A m \in DOMAIN h : h[m][Side(k, h, m)] # NULL =>
           h[m][Side(k, h, m)] \in DOMAIN h /\ rank[h[m][Side(k, h, m)]] < rank[m],
         NEW T \in SUBSET DOMAIN h,
         \A m \in T : h[m][Side(k, h, m)] # NULL => h[m][Side(k, h, m)] \in T,
         NEW n \in T
  PROVE  Place(h, n, k) \in T /\ h[Place(h, n, k)][Side(k, h, Place(h, n, k))] = NULL
<1> DEFINE D == DOMAIN h
           Down(m) == h[m][Side(k, h, m)]
           Stop == {m \in D : Down(m) = NULL}
           g == [m \in D |-> Down(m)]
           f == CHOOSE f : f = [m \in D |-> IF Down(m) = NULL THEN m ELSE f[Down(m)]]
<1>4. Place(h, n, k) = f[n]
  BY Zenon DEF Place
<1>5. /\ rank \in [D -> Nat] /\ T \in SUBSET D
      /\ \A m \in D : Down(m) # NULL => Down(m) \in D /\ rank[Down(m)] < rank[m]
      /\ \A m \in T : Down(m) # NULL => Down(m) \in T
  OBVIOUS
<1>6. h[f[n]][Side(k, h, f[n])] = Down(f[n])
  OBVIOUS
<1> HIDE DEF Down, D
<1>1. \A m \in D \ Stop : g[m] \in D /\ rank[g[m]] < rank[m]
  BY <1>5
<1>2. \A m \in T \ Stop : g[m] \in T
  BY <1>5
<1>3. ASSUME NEW e PROVE IsLoop(e, D, Stop, g) <=> e = [m \in D |-> IF Down(m) = NULL THEN m ELSE e[Down(m)]]
  BY DEF IsLoop
<1>61. f[n] \in Stop => Down(f[n]) = NULL
  <2> HIDE DEF f
  <2> QED
    OBVIOUS
<1> HIDE DEF Stop, g
<1>7. \E e : IsLoop(e, D, Stop, g)
  BY <1>1, <1>5, LoopExists
<1>8. \E e : e = [m \in D |-> IF Down(m) = NULL THEN m ELSE e[Down(m)]]
  BY <1>3, <1>7, Zenon
<1>9. f = [m \in D |-> IF Down(m) = NULL THEN m ELSE f[Down(m)]]
  BY <1>8, Zenon
<1> HIDE DEF f
<1>10. IsLoop(f, D, Stop, g)
  BY <1>3, <1>9, Zenon
<1>11. f[n] \in T /\ f[n] \in Stop
  BY <1>1, <1>2, <1>5, <1>10, LoopEnds
<1> QED
  BY <1>4, <1>6, <1>61, <1>11

LEMMA GetBranchEnds ==
  ASSUME NEW h, NULL \notin DOMAIN h, NEW k, NEW rank \in [DOMAIN h -> Nat],
         \A m \in DOMAIN h : h[m][Side(k, h, m)] # NULL =>
           h[m][Side(k, h, m)] \in DOMAIN h /\ rank[h[m][Side(k, h, m)]] < rank[m],
         NEW n \in DOMAIN h, GetBranch(h, n, k) # NULL
  PROVE  GetBranch(h, n, k) \in DOMAIN h /\ h[GetBranch(h, n, k)].key = k
<1> DEFINE D == DOMAIN h \cup {NULL}
           Down(m) == h[m][Side(k, h, m)]
           Found(m) == m = NULL \/ h[m].key = k
           Stop == {m \in D : Found(m)}
           g == [m \in D |-> Down(m)]
           higher == [m \in D |-> IF m = NULL THEN 0 ELSE rank[m] + 1]
           f == CHOOSE f : f = [m \in D |-> IF Found(m) THEN m ELSE f[Down(m)]]
<1>4. GetBranch(h, n, k) = f[n]
  BY Zenon DEF GetBranch
<1>5. /\ higher \in [D -> Nat] /\ D \in SUBSET D
      /\ \A m \in D \ {NULL} : Down(m) \in D /\ higher[Down(m)] < higher[m]
      /\ Found(NULL)
  OBVIOUS
<1>6. Found(f[n]) => f[n] = NULL \/ h[f[n]].key = k
  OBVIOUS
<1>62. n \in D /\ \A m \in D : m = NULL \/ m \in DOMAIN h
  OBVIOUS
<1> HIDE DEF Down, D, higher, Found
<1>1. \A m \in D \ Stop : g[m] \in D /\ higher[g[m]] < higher[m]
  BY <1>5
<1>2. \A m \in D \ Stop : g[m] \in D
  BY <1>1
<1>3. ASSUME NEW e PROVE IsLoop(e, D, Stop, g) <=> e = [m \in D |-> IF Found(m) THEN m ELSE e[Down(m)]]
  BY DEF IsLoop
<1>61. f[n] \in Stop => Found(f[n])
  <2> HIDE DEF f
  <2> QED
    OBVIOUS
<1> HIDE DEF Stop, g
<1>7. \E e : IsLoop(e, D, Stop, g)
  BY <1>1, <1>5, LoopExists
<1>8. \E e : e = [m \in D |-> IF Found(m) THEN m ELSE e[Down(m)]]
  BY <1>3, <1>7, Zenon
<1>9. f = [m \in D |-> IF Found(m) THEN m ELSE f[Down(m)]]
  BY <1>8, Zenon
<1> HIDE DEF f
<1>10. IsLoop(f, D, Stop, g)
  BY <1>3, <1>9, Zenon
<1>11. f[n] \in D /\ f[n] \in Stop
  <2>1. PICK T \in SUBSET D : T = D
    BY <1>5
  <2>2. \A m \in T \ Stop : g[m] \in T
    BY <1>2, <2>1
  <2>3. n \in T /\ higher \in [D -> Nat]
    BY <1>5, <1>62, <2>1
  <2>4. f[n] \in T /\ f[n] \in Stop
    BY <1>1, <1>10, <2>2, <2>3, LoopEnds
  <2> QED
    BY <2>1, <2>4
<1> QED
  BY <1>4, <1>6, <1>61, <1>62, <1>11

-----------------------------------------------------------------------------
(* Forests.  A heap holds one tree or several: sub[n] are the nodes of the *)
(* branch n, comp[n] those of its whole tree, and pos is a position of     *)
(* each node in an order from left to right.                               *)

Fields == {"key", "left", "right", "parent", "next", "prev"}
Sides  == {"left", "right"}

Link(s)         == IF s = "left" THEN "prev" ELSE "next"
Other(s)        == IF s = "left" THEN "right" ELSE "left"
Beyond(s, i, j) == IF s = "left" THEN i < j ELSE j < i

IsHeap(h) == /\ IsFiniteSet(DOMAIN h) /\ DOMAIN h \subseteq Nodes
             /\ h \in [DOMAIN h -> [Fields -> Int \cup Nodes \cup {NULL}]]
             /\ \A m \in DOMAIN h : h[m]["key"] \in Int

IsPlaced(h, pos) == /\ pos \in [DOMAIN h -> Int]
                    /\ \A m, x \in DOMAIN h : pos[m] = pos[x] => m = x

IsNested(D, sub, comp) ==
  /\ sub \in [D -> SUBSET D] /\ comp \in [D -> SUBSET D]
  /\ \A m \in D : m \in sub[m] /\ sub[m] \subseteq comp[m]
  /\ \A m \in D : \A x \in comp[m] : comp[x] = comp[m]
  /\ \A m \in D : \A x \in sub[m] : sub[x] \subseteq sub[m]
  /\ \A m, q \in D : sub[m] \cap sub[q] # {} => m \in sub[q] \/ q \in sub[m]

(* The root of a tree has no parent; a branch is inside of all around it.  *)
ParentsRight(h, sub, comp) ==
  \A m \in DOMAIN h :
    IF sub[m] = comp[m] THEN h[m]["parent"] = NULL
    ELSE /\ h[m]["parent"] \in DOMAIN h
         /\ \E s \in Sides : h[h[m]["parent"]][s] = m
         /\ \A x \in DOMAIN h : m \in sub[x] /\ x # m => h[m]["parent"] \in sub[x]

(* What lies on side s of a node in its branch is its branch on that side. *)
BranchesRight(h, sub, pos, s) ==
  \A m \in DOMAIN h :
    LET c == h[m][s]
    IN  IF c = NULL THEN \A x \in sub[m] : ~ Beyond(s, pos[x], pos[m])
        ELSE /\ c \in DOMAIN h /\ h[c]["parent"] = m
             /\ \A x \in DOMAIN h : x \in sub[c] <=> x \in sub[m] /\ Beyond(s, pos[x], pos[m])

(* The neighbour on side s is the nearest node of the tree on that side.   *)
LinksRight(h, comp, pos, s) ==
  \A m \in DOMAIN h :
    LET l == h[m][Link(s)]
    IN  IF l = NULL THEN \A x \in comp[m] : ~ Beyond(s, pos[x], pos[m])
        ELSE /\ l \in comp[m] /\ Beyond(s, pos[l], pos[m])
             /\ \A x \in comp[m] : Beyond(s, pos[x], pos[m]) => x = l \/ Beyond(s, pos[x], pos[l])

KeysRight(h, sub, comp, pos) ==
  \A m \in DOMAIN h :
    /\ \A x \in sub[m] : pos[x] < pos[m] => h[x]["key"] < h[m]["key"]
    /\ \A x \in comp[m] : pos[x] < pos[m] => h[x]["key"] <= h[m]["key"]

(* A branch has no gap.                                                    *)
NoGaps(D, sub, comp, pos) ==
  \A m \in D : \A x, z \in sub[m], y \in comp[m] : pos[x] < pos[y] /\ pos[y] < pos[z] => y \in sub[m]

Forest(h, sub, comp, pos) ==
  /\ IsHeap(h) /\ IsPlaced(h, pos) /\ IsNested(DOMAIN h, sub, comp) /\ ParentsRight(h, sub, comp)
  /\ \A s \in Sides : BranchesRight(h, sub, pos, s) /\ LinksRight(h, comp, pos, s)
  /\ KeysRight(h, sub, comp, pos) /\ NoGaps(DOMAIN h, sub, comp, pos)

LEMMA SmallerSubset ==
  ASSUME NEW S, IsFiniteSet(S), NEW T, T \subseteq S, T # S
  PROVE  Cardinality(T) < Cardinality(S)
<1>1. T \in SUBSET S
  OBVIOUS
<1>2. IsFiniteSet(T) /\ Cardinality(T) <= Cardinality(S) /\ Cardinality(S) # Cardinality(T)
  BY <1>1, FS_Subset
<1>3. Cardinality(T) \in Nat /\ Cardinality(S) \in Nat
  BY <1>2, FS_CardinalityType
<1> QED
  BY <1>2, <1>3

(* The rank of a node is the size of its branch, or how many nodes there   *)
(* are beyond it.                                                          *)
LEMMA BranchRank ==
  ASSUME NEW h, NEW sub, NEW comp, NEW pos, Forest(h, sub, comp, pos)
  PROVE  \E rank \in [DOMAIN h -> Nat] : \A m \in DOMAIN h, s \in Sides :
           h[m][s] # NULL => h[m][s] \in DOMAIN h /\ rank[h[m][s]] < rank[m]
<1> DEFINE D == DOMAIN h
           rank == [m \in D |-> Cardinality(sub[m])]
<1>1. IsFiniteSet(D) /\ sub \in [D -> SUBSET D] /\ \A m \in D : m \in sub[m]
  BY DEF Forest, IsHeap, IsNested
<1>2. \A m \in D : IsFiniteSet(sub[m])
  BY <1>1, FS_Subset
<1>3. rank \in [D -> Nat]
  BY <1>2, FS_CardinalityType
<1>4. ASSUME NEW m \in D, NEW s \in Sides, h[m][s] # NULL PROVE h[m][s] \in D /\ rank[h[m][s]] < rank[m]
  <2> DEFINE c == h[m][s]
  <2>1. c \in D /\ \A x \in D : x \in sub[c] <=> x \in sub[m] /\ Beyond(s, pos[x], pos[m])
    BY <1>4 DEF Forest, BranchesRight
  <2>2. ~ Beyond(s, pos[m], pos[m])
    BY DEF Forest, IsPlaced, Beyond
  <2>3. sub[c] \subseteq sub[m] /\ sub[c] # sub[m]
    BY <1>1, <2>1, <2>2
  <2>4. Cardinality(sub[c]) < Cardinality(sub[m])
    BY <1>2, <2>3, SmallerSubset
  <2> QED
    BY <2>1, <2>4
<1> QED
  BY <1>3, <1>4

LEMMA LinkRank ==
  ASSUME NEW h, NEW sub, NEW comp, NEW pos, Forest(h, sub, comp, pos), NEW s \in Sides
  PROVE  \E rank \in [DOMAIN h -> Nat] : \A m \in DOMAIN h :
           h[m][Link(s)] # NULL => h[m][Link(s)] \in DOMAIN h /\ rank[h[m][Link(s)]] < rank[m]
<1> DEFINE D == DOMAIN h
           Beyonds(m) == {x \in comp[m] : Beyond(s, pos[x], pos[m])}
           rank == [m \in D |-> Cardinality(Beyonds(m))]
<1>1. IsFiniteSet(D) /\ comp \in [D -> SUBSET D] /\ pos \in [D -> Int]
  BY DEF Forest, IsHeap, IsNested, IsPlaced
<1>2. \A m \in D : IsFiniteSet(Beyonds(m))
  <2> TAKE m \in D
  <2>1. Beyonds(m) \subseteq D
    BY <1>1
  <2> QED
    BY <1>1, <2>1, FS_Subset
<1>3. rank \in [D -> Nat]
  BY <1>2, FS_CardinalityType
<1>4. ASSUME NEW m \in D, h[m][Link(s)] # NULL PROVE h[m][Link(s)] \in D /\ rank[h[m][Link(s)]] < rank[m]
  <2> DEFINE c == h[m][Link(s)]
  <2>1. c \in comp[m] /\ Beyond(s, pos[c], pos[m])
    BY <1>4 DEF Forest, LinksRight
  <2>2. c \in D /\ comp[c] = comp[m]
    BY <1>1, <2>1 DEF Forest, IsNested
  <2> HIDE DEF c
  <2>3. c \in Beyonds(m) /\ c \notin Beyonds(c)
    BY <1>1, <2>1, <2>2 DEF Beyond
  <2>4. Beyonds(c) \subseteq Beyonds(m)
    BY <1>1, <2>1, <2>2 DEF Beyond
  <2>5. Cardinality(Beyonds(c)) < Cardinality(Beyonds(m))
    <3>1. IsFiniteSet(Beyonds(m)) /\ Beyonds(c) # Beyonds(m)
      BY <1>2, <2>3
    <3> HIDE DEF Beyonds
    <3> QED
      BY <2>4, <3>1, SmallerSubset
  <2> QED
    BY <2>2, <2>5 DEF c
<1> QED
  BY <1>3, <1>4

(* The end of a branch, and of a tree, on side s.                          *)
LEMMA BranchEnd ==
  ASSUME NEW h, NEW sub, NEW comp, NEW pos, Forest(h, sub, comp, pos), NEW s \in Sides, NEW b \in DOMAIN h
  PROVE  /\ Along(h, b, s) \in sub[b]
         /\ \A x \in sub[b] : ~ Beyond(s, pos[x], pos[Along(h, b, s)])
<1> DEFINE D == DOMAIN h
           T == {m \in sub[b] : \A x \in sub[b] : Beyond(s, pos[x], pos[m]) => x \in sub[m]}
           e == Along(h, b, s)
<1>1. /\ sub \in [D -> SUBSET D] /\ pos \in [D -> Int]
      /\ \A m \in D : m \in sub[m] /\ \A x \in sub[m] : sub[x] \subseteq sub[m]
  BY DEF Forest, IsNested, IsPlaced
<1>2. PICK rank \in [D -> Nat] : \A m \in D : h[m][s] # NULL => h[m][s] \in D /\ rank[h[m][s]] < rank[m]
  BY BranchRank
<1>3. T \in SUBSET D /\ b \in T
  BY <1>1
<1>4. ASSUME NEW m \in T, h[m][s] # NULL PROVE h[m][s] \in T
  <2> DEFINE c == h[m][s]
  <2>1. c \in D /\ \A x \in D : x \in sub[c] <=> x \in sub[m] /\ Beyond(s, pos[x], pos[m])
    BY <1>1, <1>4 DEF Forest, BranchesRight
  <2> HIDE DEF c
  <2>2. c \in sub[m] /\ c \in sub[b] /\ Beyond(s, pos[c], pos[m])
    BY <1>1, <2>1
  <2>3. ASSUME NEW x \in sub[b], Beyond(s, pos[x], pos[c]) PROVE x \in sub[c]
    <3>1. Beyond(s, pos[x], pos[m])
      BY <1>1, <2>1, <2>2, <2>3 DEF Beyond
    <3> QED
      BY <1>1, <2>1, <3>1
  <2> QED
    BY <2>2, <2>3 DEF c
<1> HIDE DEF T
<1>5. e \in T /\ h[e][s] = NULL
  BY <1>2, <1>3, <1>4, AlongEnds
<1>6. \A x \in sub[e] : ~ Beyond(s, pos[x], pos[e])
  BY <1>3, <1>5 DEF Forest, BranchesRight
<1> QED
  BY <1>5, <1>6 DEF T

LEMMA LinkEnd ==
  ASSUME NEW h, NEW sub, NEW comp, NEW pos, Forest(h, sub, comp, pos), NEW s \in Sides, NEW b \in DOMAIN h
  PROVE  /\ Along(h, b, Link(s)) \in comp[b]
         /\ \A x \in comp[b] : ~ Beyond(s, pos[x], pos[Along(h, b, Link(s))])
<1> DEFINE D == DOMAIN h
           e == Along(h, b, Link(s))
<1>1. comp \in [D -> SUBSET D] /\ \A m \in comp[b] : comp[m] = comp[b] /\ b \in comp[b]
  BY DEF Forest, IsNested
<1>2. PICK rank \in [D -> Nat] : \A m \in D : h[m][Link(s)] # NULL => h[m][Link(s)] \in D /\ rank[h[m][Link(s)]] < rank[m]
  BY LinkRank
<1>3. ASSUME NEW m \in comp[b], h[m][Link(s)] # NULL PROVE h[m][Link(s)] \in comp[b]
  <2>1. h[m][Link(s)] \in comp[m]
    BY <1>1, <1>3 DEF Forest, LinksRight
  <2> QED
    BY <1>1, <2>1
<1>4. b \in comp[b] /\ comp[b] \in SUBSET D
  BY <1>1 DEF Forest, IsNested
<1>5. e \in comp[b] /\ h[e][Link(s)] = NULL
  BY <1>2, <1>3, <1>4, AlongEnds
<1> QED
  BY <1>1, <1>5 DEF Forest, LinksRight

(* Under the node that Place() finds, the key comes behind all those that  *)
(* are not greater, and before the others.                                 *)
LEMMA PlaceFits ==
  ASSUME NEW h, NEW sub, NEW comp, NEW pos, Forest(h, sub, comp, pos), NEW n \in DOMAIN h, NEW k \in Int,
         NEW p, p = Place(h, n, k)
  PROVE  /\ p \in sub[n] /\ h[p][Side(k, h, p)] = NULL /\ Side(k, h, p) \in Sides
         /\ \A x \in sub[n] : k < h[x]["key"] <=> pos[p] < pos[x] \/ (x = p /\ Side(k, h, p) = "left")
<1> DEFINE D == DOMAIN h
           T == {m \in sub[n] : \A x \in sub[n] \ sub[m] : k < h[x]["key"] <=> pos[m] < pos[x]}
<1>1. /\ sub \in [D -> SUBSET D] /\ comp \in [D -> SUBSET D]
      /\ pos \in [D -> Int] /\ \A m, x \in D : pos[m] = pos[x] => m = x
      /\ \A m \in D : m \in sub[m] /\ sub[m] \subseteq comp[m] /\ \A x \in sub[m] : sub[x] \subseteq sub[m]
      /\ \A m \in D : \A x \in comp[m] : comp[x] = comp[m]
      /\ \A m \in D : h[m]["key"] \in Int
  BY DEF Forest, IsNested, IsPlaced, IsHeap
<1>2. \A m \in D : /\ Side(k, h, m) \in Sides
                   /\ Side(k, h, m) = "left" <=> k < h[m]["key"]
  BY DEF Side, Sides
<1>3. ASSUME NEW m \in D, NEW x \in sub[m]
      PROVE  /\ pos[x] < pos[m] => h[x]["key"] < h[m]["key"]
             /\ pos[m] < pos[x] => h[m]["key"] <= h[x]["key"]
  <2>1. x \in D /\ m \in comp[x]
    BY <1>1
  <2> QED
    BY <2>1 DEF Forest, KeysRight
<1>4. PICK rank \in [D -> Nat] : \A m \in D : \A s \in Sides :
        h[m][s] # NULL => h[m][s] \in D /\ rank[h[m][s]] < rank[m]
  BY BranchRank
<1>5. T \in SUBSET D /\ n \in T
  BY <1>1
<1>6. ASSUME NEW m \in T, h[m][Side(k, h, m)] # NULL PROVE h[m][Side(k, h, m)] \in T
  <2> DEFINE s == Side(k, h, m)
             c == h[m][s]
  <2>1. m \in D /\ m \in sub[n] /\ s \in Sides /\ (s = "left" <=> k < h[m]["key"])
    BY <1>1, <1>2
  <2>11. \A x \in sub[n] \ sub[m] : k < h[x]["key"] <=> pos[m] < pos[x]
    OBVIOUS
  <2>2. c \in D /\ \A x \in D : x \in sub[c] <=> x \in sub[m] /\ Beyond(s, pos[x], pos[m])
    BY <1>6, <2>1 DEF Forest, BranchesRight
  <2> HIDE DEF c, s, T
  <2>3. c \in sub[m] /\ c \in sub[n] /\ Beyond(s, pos[c], pos[m])
    BY <1>1, <2>1, <2>2
  <2>4. ASSUME NEW x \in sub[n], x \notin sub[c] PROVE k < h[x]["key"] <=> pos[c] < pos[x]
    <3>1. x \in D /\ pos[x] \in Int /\ pos[c] \in Int /\ pos[m] \in Int /\ h[x]["key"] \in Int /\ h[m]["key"] \in Int
      BY <1>1, <2>1, <2>2
    <3>2. CASE x \in sub[m]
      <4>1. ~ Beyond(s, pos[x], pos[m])
        BY <2>2, <2>4, <3>1, <3>2
      <4>2. x # m => pos[x] # pos[m]
        BY <1>1, <2>1, <3>1
      <4>3. /\ pos[x] < pos[m] => h[x]["key"] < h[m]["key"]
            /\ pos[m] < pos[x] => h[m]["key"] <= h[x]["key"]
        BY <1>3, <2>1, <3>2
      <4> QED
        BY <2>1, <2>3, <3>1, <4>1, <4>2, <4>3 DEF Beyond
    <3>3. CASE x \notin sub[m]
      <4>1. k < h[x]["key"] <=> pos[m] < pos[x]
        BY <2>11, <3>3
      <4>2. x \in comp[m]
        BY <1>1, <2>1
      <4>3. ~ (pos[c] < pos[x] /\ pos[x] < pos[m]) /\ ~ (pos[m] < pos[x] /\ pos[x] < pos[c])
        BY <1>1, <2>1, <2>3, <3>3, <4>2 DEF Forest, NoGaps
      <4>4. pos[x] # pos[m] /\ pos[x] # pos[c]
        BY <1>1, <2>1, <2>2, <2>4, <3>1, <3>3
      <4> QED
        BY <3>1, <4>1, <4>3, <4>4
    <3> QED
      BY <3>2, <3>3
  <2> QED
    BY <2>3, <2>4 DEF c, s, T
<1> HIDE DEF T
<1>61. \A m \in D : h[m][Side(k, h, m)] # NULL => h[m][Side(k, h, m)] \in D /\ rank[h[m][Side(k, h, m)]] < rank[m]
  BY <1>2, <1>4
<1>7. p \in T /\ h[p][Side(k, h, p)] = NULL
  BY <1>5, <1>6, <1>61, PlaceEnds
<1> DEFINE s == Side(k, h, p)
<1>8. p \in D /\ p \in sub[n] /\ s \in Sides /\ (s = "left" <=> k < h[p]["key"])
  BY <1>1, <1>2, <1>7 DEF T
<1>9. \A x \in sub[p] : ~ Beyond(s, pos[x], pos[p])
  BY <1>7, <1>8 DEF Forest, BranchesRight
<1>11. s \in Sides => s = "left" \/ s = "right"
  BY DEF Sides
<1> HIDE DEF s
<1>10. ASSUME NEW x \in sub[n] PROVE k < h[x]["key"] <=> pos[p] < pos[x] \/ (x = p /\ s = "left")
  <2>1. x \in D /\ pos[x] \in Int /\ pos[p] \in Int /\ h[x]["key"] \in Int /\ h[p]["key"] \in Int
    BY <1>1, <1>8
  <2>2. CASE x \notin sub[p]
    <3>1. x # p
      BY <1>1, <1>8, <2>2
    <3> QED
      BY <1>7, <2>2, <3>1 DEF T
  <2>3. CASE x = p
    BY <1>8, <2>1, <2>3
  <2>4. CASE x \in sub[p] /\ x # p
    <3>1. pos[x] # pos[p]
      BY <1>1, <1>8, <2>1, <2>4
    <3>2. /\ pos[x] < pos[p] => h[x]["key"] < h[p]["key"]
          /\ pos[p] < pos[x] => h[p]["key"] <= h[x]["key"]
      BY <1>3, <1>8, <2>4
    <3>3. ~ Beyond(s, pos[x], pos[p])
      BY <1>9, <2>4
    <3> QED
      BY <1>8, <1>11, <2>1, <2>4, <3>1, <3>2, <3>3 DEF Beyond
  <2> QED
    BY <2>2, <2>3, <2>4
<1> QED
  BY <1>7, <1>8, <1>10 DEF s

-----------------------------------------------------------------------------
(* Beyond(s, ...) is an order of the nodes, and the one of the other side  *)
(* is its inverse.                                                         *)
LEMMA BeyondOrder ==
  ASSUME NEW D, NEW pos \in [D -> Int], \A m, x \in D : pos[m] = pos[x] => m = x, NEW s \in Sides
  PROVE  /\ \A x, y, z \in D : Beyond(s, pos[x], pos[y]) /\ Beyond(s, pos[y], pos[z]) => Beyond(s, pos[x], pos[z])
         /\ \A x, y \in D : x = y \/ Beyond(s, pos[x], pos[y]) \/ Beyond(s, pos[y], pos[x])
         /\ \A x, y \in D : ~ (Beyond(s, pos[x], pos[y]) /\ Beyond(s, pos[y], pos[x]))
         /\ \A x \in D : ~ Beyond(s, pos[x], pos[x])
         /\ \A x, y \in D : Beyond(Other(s), pos[x], pos[y]) <=> Beyond(s, pos[y], pos[x])
BY DEF Beyond, Other, Sides

LEMMA SidesProperties ==
  ASSUME NEW s \in Sides
  PROVE  Other(s) \in Sides /\ Other(s) # s /\ Link(Other(s)) # Link(s) /\ Other(Other(s)) = s
         /\ \A q \in Sides : q = s \/ q = Other(s)
BY DEF Sides, Other, Link

(* Two branches are not inside of each other.                              *)
LEMMA BranchesInside ==
  ASSUME NEW h, NEW sub, NEW comp, NEW pos, Forest(h, sub, comp, pos),
         NEW m \in DOMAIN h, NEW x \in sub[m], m \in sub[x]
  PROVE  x = m
<1> SUFFICES ASSUME x # m PROVE FALSE
  OBVIOUS
<1>1. x \in DOMAIN h /\ \A y \in DOMAIN h : \A z \in sub[y] : sub[z] \subseteq sub[y]
  BY DEF Forest, IsNested
<1>2. pos[x] \in Int /\ pos[m] \in Int /\ pos[x] # pos[m]
  BY <1>1 DEF Forest, IsPlaced
<1>3. PICK s \in Sides : Beyond(s, pos[x], pos[m])
  BY <1>2 DEF Beyond, Sides
<1>4. ~ Beyond(s, pos[m], pos[m])
  BY <1>2 DEF Beyond
<1> DEFINE c == h[m][s]
<1>5. c \in DOMAIN h /\ x \in sub[c] /\ m \notin sub[c]
  BY <1>1, <1>3, <1>4 DEF Forest, BranchesRight
<1> QED
  BY <1>1, <1>5

(* g is h with the tree b hung under node p, on its side s.                *)
Joined(h, g, p, s, b, near, far) ==
  /\ g \in [DOMAIN h -> [Fields -> Int \cup Nodes \cup {NULL}]]
  /\ \A m \in DOMAIN h :
       /\ g[m]["key"] = h[m]["key"]
       /\ g[m]["parent"] = IF m = b THEN p ELSE h[m]["parent"]
       /\ \A q \in Sides : g[m][q] = IF m = p /\ q = s THEN b ELSE h[m][q]
       /\ g[m][Link(s)] = IF m = p THEN near ELSE IF m = far THEN h[p][Link(s)] ELSE h[m][Link(s)]
       /\ g[m][Link(Other(s))] = IF m = near THEN p ELSE IF m = h[p][Link(s)] THEN far ELSE h[m][Link(Other(s))]

SubJoined(D, sub, p, b)   == [m \in D |-> IF p \in sub[m] THEN sub[m] \cup sub[b] ELSE sub[m]]
CompJoined(D, comp, p, b) == [m \in D |-> IF m \in comp[p] \cup comp[b] THEN comp[p] \cup comp[b] ELSE comp[m]]

(* The tree b fits there: its nodes are next to p, and their keys fit.     *)
Fits(h, sub, comp, pos, p, s, b) ==
  /\ h[p][s] = NULL /\ sub[b] = comp[b] /\ b \notin comp[p]
  /\ \A u \in sub[b] : Beyond(s, pos[u], pos[p])
  /\ \A u \in sub[b], x \in comp[p] : Beyond(s, pos[x], pos[p]) => Beyond(s, pos[x], pos[u])
  /\ \A u \in sub[b], x \in comp[p] : /\ pos[u] < pos[x] => h[u]["key"] <= h[x]["key"]
                                      /\ pos[x] < pos[u] => h[x]["key"] <= h[u]["key"]
  /\ \A u \in sub[b], m \in DOMAIN h : p \in sub[m] /\ pos[u] < pos[m] => h[u]["key"] < h[m]["key"]

IsEnd(T, pos, s, e) == e \in T /\ \A x \in T : ~ Beyond(s, pos[x], pos[e])

LEMMA JoinForest ==
  ASSUME NEW h, NEW sub, NEW comp, NEW pos, Forest(h, sub, comp, pos), NEW s \in Sides,
         NEW p \in DOMAIN h, NEW b \in DOMAIN h, Fits(h, sub, comp, pos, p, s, b),
         NEW near, IsEnd(sub[b], pos, Other(s), near), NEW far, IsEnd(sub[b], pos, s, far),
         NEW g, Joined(h, g, p, s, b, near, far)
  PROVE  Forest(g, SubJoined(DOMAIN h, sub, p, b), CompJoined(DOMAIN h, comp, p, b), pos)
<1> DEFINE D == DOMAIN h
           o == Other(s)
           U == sub[b]
           C == comp[p]
           sub2 == SubJoined(D, sub, p, b)
           comp2 == CompJoined(D, comp, p, b)
           By(x, y) == Beyond(s, pos[x], pos[y])
<1>1. /\ sub \in [D -> SUBSET D] /\ comp \in [D -> SUBSET D]
      /\ \A m \in D : m \in sub[m] /\ sub[m] \subseteq comp[m]
      /\ \A m \in D : \A x \in comp[m] : comp[x] = comp[m]
      /\ \A m \in D : \A x \in sub[m] : sub[x] \subseteq sub[m]
      /\ \A m, q \in D : sub[m] \cap sub[q] # {} => m \in sub[q] \/ q \in sub[m]
  BY DEF Forest, IsNested
<1>2. pos \in [D -> Int] /\ \A m, x \in D : pos[m] = pos[x] => m = x
  BY DEF Forest, IsPlaced
<1>3. /\ \A x, y, z \in D : By(x, y) /\ By(y, z) => By(x, z)
      /\ \A x, y \in D : x = y \/ By(x, y) \/ By(y, x)
      /\ \A x, y \in D : ~ (By(x, y) /\ By(y, x))
      /\ \A x \in D : ~ By(x, x)
      /\ \A x, y \in D : Beyond(o, pos[x], pos[y]) <=> By(y, x)
  BY <1>2, BeyondOrder
<1>4. h[p][s] = NULL /\ p \in D /\ b \in D /\ comp[p] = C /\ sub[b] = U /\ comp[b] = U /\ b \notin C /\ U \subseteq D /\ C \subseteq D /\ p \in C /\ b \in U
  BY <1>1 DEF Fits
<1>5. U \cap C = {} /\ p \notin U
  BY <1>1, <1>4
<1>6. /\ \A u \in U : By(u, p)
      /\ \A u \in U, x \in C : By(x, p) => By(x, u)
  BY DEF Fits
<1>7. /\ near \in U /\ \A x \in U : x = near \/ By(x, near)
      /\ far \in U /\ \A x \in U : x = far \/ By(far, x)
  BY <1>3, <1>4 DEF IsEnd
<1>8. \A m \in C, u \in U : m # p => (By(u, m) <=> By(p, m)) /\ (By(m, u) <=> By(m, p))
  <2> TAKE m \in C, u \in U
  <2>1. m \in D /\ u \in D /\ p \in D /\ m # u
    BY <1>4, <1>5
  <2>2. By(u, p) /\ (By(m, p) => By(m, u))
    BY <1>6
  <2> HIDE DEF By
  <2> QED
    BY <1>3, <2>1, <2>2
<1>9. /\ DOMAIN sub2 = D /\ \A m \in D : sub2[m] = IF p \in sub[m] THEN sub[m] \cup U ELSE sub[m]
      /\ DOMAIN comp2 = D /\ \A m \in D : comp2[m] = IF m \in C \cup U THEN C \cup U ELSE comp[m]
  BY <1>4 DEF SubJoined, CompJoined
<1>10. /\ \A m \in D : p \in sub[m] => m \in C
       /\ \A m \in D : m \in C <=> comp[m] = C
       /\ \A m \in D : m \in U <=> comp[m] = U
       /\ \A m \in U : p \notin sub[m] /\ sub[m] \subseteq U
  BY <1>1, <1>4, <1>5
<1>11. o \in Sides /\ o # s /\ (\A q \in Sides : q = s \/ q = o)
  BY SidesProperties
<1>12. /\ DOMAIN g = D
       /\ \A m \in D : g[m]["key"] = h[m]["key"]
       /\ \A m \in D : g[m]["parent"] = IF m = b THEN p ELSE h[m]["parent"]
       /\ \A m \in D : \A q \in Sides : g[m][q] = IF m = p /\ q = s THEN b ELSE h[m][q]
       /\ \A m \in D : g[m][Link(s)] = IF m = p THEN near ELSE IF m = far THEN h[p][Link(s)] ELSE h[m][Link(s)]
       /\ \A m \in D : g[m][Link(o)] = IF m = near THEN p ELSE IF m = h[p][Link(s)] THEN far ELSE h[m][Link(o)]
  BY DEF Joined
<1>13. NULL \notin D
  BY NodesAssumption DEF Forest, IsHeap
<1>14. ASSUME NEW m \in D, NEW x \in sub[m], m \in sub[x] PROVE x = m
  BY <1>14, BranchesInside
<1>20. IsHeap(g) /\ IsPlaced(g, pos)
  BY <1>12 DEF Forest, IsHeap, IsPlaced, Joined
<1> HIDE DEF D, o, U, C, sub2, comp2, By
<1>21. IsNested(D, sub2, comp2)
  <2>1. sub2 \in [D -> SUBSET D] /\ comp2 \in [D -> SUBSET D]
    <3>1. \A m \in D : sub2[m] \in SUBSET D /\ comp2[m] \in SUBSET D
      BY <1>1, <1>4, <1>9
    <3>2. sub2 = [m \in D |-> sub2[m]] /\ comp2 = [m \in D |-> comp2[m]]
      BY DEF sub2, comp2, SubJoined, CompJoined
    <3> QED
      BY <3>1, <3>2
  <2>2. \A m \in D : m \in sub2[m] /\ sub2[m] \subseteq comp2[m]
    BY <1>1, <1>4, <1>9, <1>10
  <2>3. ASSUME NEW m \in D, NEW x \in comp2[m] PROVE comp2[x] = comp2[m]
    <3>1. CASE m \in C \cup U
      BY <1>4, <1>9, <3>1
    <3>2. CASE m \notin C \cup U
      <4>1. comp2[m] = comp[m] /\ x \in D /\ comp[x] = comp[m]
        BY <1>1, <1>9, <3>2
      <4>2. x \notin C \cup U
        BY <1>10, <3>2, <4>1
      <4> QED
        BY <1>9, <4>1, <4>2
    <3> QED
      BY <3>1, <3>2
  <2>4. \A m \in D : \A x \in sub2[m] : sub2[x] \subseteq sub2[m]
    BY <1>1, <1>4, <1>9, <1>10
  <2>5. ASSUME NEW m \in D, NEW q \in D, NEW z, z \in sub2[m], z \in sub2[q]
        PROVE  m \in sub2[q] \/ q \in sub2[m]
    <3>1. CASE z \in sub[m] /\ z \in sub[q]
      BY <1>1, <1>9, <3>1
    <3>2. CASE p \in sub[m] /\ p \in sub[q]
      BY <1>1, <1>9, <3>2
    <3>3. ASSUME NEW v \in D, NEW w \in D, p \in sub[v], z \in U, z \in sub[w] PROVE w \in sub2[v]
      <4>1. comp[w] = comp[z] /\ comp[z] = U
        BY <1>1, <1>4, <1>10, <3>3
      <4>2. w \in U
        BY <1>1, <4>1
      <4> QED
        BY <1>9, <3>3, <4>2
    <3> QED
      BY <1>9, <2>5, <3>1, <3>2, <3>3
  <2> QED
    BY <2>1, <2>2, <2>3, <2>4, <2>5 DEF IsNested
<1>22. ParentsRight(g, sub2, comp2)
  <2> SUFFICES ASSUME NEW m \in D
               PROVE IF sub2[m] = comp2[m] THEN g[m]["parent"] = NULL
                     ELSE /\ g[m]["parent"] \in D
                          /\ \E q \in Sides : g[g[m]["parent"]][q] = m
                          /\ \A x \in D : m \in sub2[x] /\ x # m => g[m]["parent"] \in sub2[x]
    BY <1>12 DEF ParentsRight
  <2> DEFINE par == h[m]["parent"]
  <2>0. IF sub[m] = comp[m] THEN par = NULL
        ELSE /\ par \in D /\ \E q \in Sides : h[par][q] = m
             /\ \A x \in D : m \in sub[x] /\ x # m => par \in sub[x]
    BY DEF Forest, ParentsRight, D
  <2> HIDE DEF par
  <2>1. CASE m = b
    <3>1. sub2[m] # comp2[m] /\ g[m]["parent"] = p /\ p \in D
      BY <1>4, <1>5, <1>9, <1>12, <2>1
    <3>2. g[p][s] = b
      BY <1>12, <3>1
    <3>3. ASSUME NEW x \in D, b \in sub2[x], x # b PROVE p \in sub2[x]
      <4>1. CASE p \in sub[x]
        BY <1>9, <4>1
      <4>2. CASE p \notin sub[x]
        <5>1. b \in sub[x]
          BY <1>9, <3>3, <4>2
        <5>2. x \in U
          BY <1>1, <1>4, <1>10, <5>1
        <5> QED
          BY <1>1, <1>4, <1>14, <3>3, <5>1, <5>2 DEF U
      <4> QED
        BY <4>1, <4>2
    <3> QED
      BY <2>1, <3>1, <3>2, <3>3
  <2>2. CASE m \in U /\ m # b
    <3>1. sub[m] # comp[m]
      BY <1>1, <1>4, <1>10, <1>14, <2>2 DEF U
    <3>2. sub2[m] # comp2[m]
      BY <1>4, <1>5, <1>9, <1>10, <2>2
    <3>3. g[m]["parent"] = par /\ par \in D /\ \A x \in D : m \in sub[x] /\ x # m => par \in sub[x]
      BY <1>12, <2>0, <2>2, <3>1 DEF par
    <3>4. par \in U
      BY <2>2, <3>3 DEF U, D
    <3>5. \E q \in Sides : g[par][q] = m
      BY <1>5, <1>12, <2>0, <3>1, <3>4
    <3>6. \A x \in D : m \in sub2[x] /\ x # m => par \in sub2[x]
      BY <1>9, <3>3, <3>4
    <3> QED
      BY <3>2, <3>3, <3>5, <3>6
  <2>3. CASE m \notin U
    <3>1. m # b /\ g[m]["parent"] = par
      BY <1>4, <1>12, <2>3 DEF par
    <3>2. sub2[m] = comp2[m] <=> sub[m] = comp[m]
      <4>1. CASE p \in sub[m]
        <5>1. sub2[m] = sub[m] \cup U /\ comp2[m] = C \cup U /\ comp[m] = C
          BY <1>9, <1>10, <4>1
        <5>2. sub[m] \subseteq C
          BY <1>1, <5>1
        <5> QED
          BY <1>5, <5>1, <5>2
      <4>2. CASE p \notin sub[m] /\ m \in C
        BY <1>4, <1>9, <1>10, <4>2
      <4>3. CASE m \notin C
        BY <1>9, <1>10, <2>3, <4>3
      <4> QED
        BY <4>1, <4>2, <4>3
    <3>3. CASE sub[m] = comp[m]
      BY <2>0, <3>1, <3>2, <3>3
    <3>4. CASE sub[m] # comp[m]
      <4>1. par \in D /\ \A x \in D : m \in sub[x] /\ x # m => par \in sub[x]
        BY <2>0, <3>4
      <4>2. PICK q \in Sides : h[par][q] = m
        BY <2>0, <3>4
      <4>3. g[par][q] = m
        BY <1>4, <1>12, <1>13, <4>1, <4>2
      <4>4. \A x \in D : m \in sub2[x] /\ x # m => par \in sub2[x]
        BY <1>9, <2>3, <4>1
      <4> QED
        BY <3>1, <3>2, <3>4, <4>1, <4>3, <4>4
    <3> QED
      BY <3>3, <3>4
  <2> QED
    BY <2>1, <2>2, <2>3
<1>23. ASSUME NEW q \in Sides PROVE BranchesRight(g, sub2, pos, q)
  <2> SUFFICES ASSUME NEW m \in D
               PROVE IF g[m][q] = NULL THEN \A x \in sub2[m] : ~ Beyond(q, pos[x], pos[m])
                     ELSE /\ g[m][q] \in D /\ g[g[m][q]]["parent"] = m
                          /\ \A x \in D : x \in sub2[g[m][q]] <=> x \in sub2[m] /\ Beyond(q, pos[x], pos[m])
    BY <1>12 DEF BranchesRight
  <2> DEFINE Bq(x, y) == Beyond(q, pos[x], pos[y])
             c == h[m][q]
  <2>1. IF q = s THEN \A x, y \in D : Bq(x, y) <=> By(x, y) ELSE \A x, y \in D : Bq(x, y) <=> By(y, x)
    BY <1>3, <1>11 DEF By
  <2>2. IF c = NULL THEN \A x \in sub[m] : ~ Bq(x, m)
        ELSE /\ c \in D /\ h[c]["parent"] = m
             /\ \A x \in D : x \in sub[c] <=> x \in sub[m] /\ Bq(x, m)
    BY DEF Forest, BranchesRight, D
  <2>3. ASSUME m # p \/ q # s, p \in sub[m], NEW u \in U PROVE Bq(u, m) <=> Bq(p, m)
    <3>1. m \in C /\ u \in D
      BY <1>4, <1>10, <2>3
    <3> HIDE DEF Bq
    <3> QED
      BY <1>3, <1>4, <1>6, <1>8, <2>1, <2>3, <3>1
  <2> HIDE DEF Bq, c
  <2>4. CASE m = p /\ q = s
    <3>1. g[m][q] = b /\ g[b]["parent"] = p /\ b \in D /\ sub2[b] = U /\ sub2[p] = sub[p] \cup U
      BY <1>1, <1>4, <1>9, <1>10, <1>12, <2>4 DEF D
    <3>2. \A x \in sub[p] : ~ Bq(x, p)
      BY <1>4, <2>2, <2>4 DEF c
    <3>3. \A x \in U : Bq(x, p)
      BY <1>4, <1>6, <2>1, <2>4
    <3> QED
      BY <1>13, <2>4, <3>1, <3>2, <3>3 DEF Bq
  <2>5. CASE (m # p \/ q # s) /\ c = NULL
    <3>1. g[m][q] = NULL
      BY <1>12, <2>5 DEF c
    <3>2. \A x \in sub[m] : ~ Bq(x, m)
      BY <2>2, <2>5
    <3> QED
      BY <1>9, <2>3, <2>5, <3>1, <3>2 DEF Bq
  <2>6. CASE (m # p \/ q # s) /\ c # NULL
    <3>1. g[m][q] = c /\ c \in D /\ h[c]["parent"] = m
      BY <1>12, <2>2, <2>6 DEF c
    <3>2. h[b]["parent"] = NULL
      BY <1>4 DEF Forest, ParentsRight, U
    <3>3. g[c]["parent"] = m
      BY <1>12, <1>13, <3>1, <3>2
    <3>4. \A x \in D : x \in sub[c] <=> x \in sub[m] /\ Bq(x, m)
      BY <2>2, <2>6
    <3>5. ASSUME NEW x \in D PROVE x \in sub2[c] <=> x \in sub2[m] /\ Bq(x, m)
      <4>1. p \in sub[c] <=> p \in sub[m] /\ Bq(p, m)
        BY <3>4 DEF D
      <4>2. CASE p \in sub[m] /\ x \in U
        <5>1. Bq(x, m) <=> Bq(p, m)
          BY <2>3, <2>6, <4>2
        <5>2. x \notin sub[m]
          <6>1. comp[m] = C
            BY <1>10, <4>2
          <6> QED
            BY <1>1, <1>5, <4>2, <6>1
        <5>3. x \in sub2[m] /\ (x \in sub2[c] <=> p \in sub[c])
          BY <1>9, <3>1, <3>4, <4>2, <5>2
        <5> QED
          BY <4>1, <4>2, <5>1, <5>3
      <4>3. CASE p \in sub[m] /\ x \notin U
        BY <1>9, <3>1, <3>4, <4>3
      <4>4. CASE p \notin sub[m]
        BY <1>9, <3>1, <3>4, <4>1, <4>4
      <4> QED
        BY <4>2, <4>3, <4>4
    <3> QED
      BY <2>6, <3>1, <3>3, <3>5 DEF Bq
  <2> QED
    BY <2>4, <2>5, <2>6
<1>24. LinksRight(g, comp2, pos, s)
  <2> SUFFICES ASSUME NEW m \in D
               PROVE IF g[m][Link(s)] = NULL THEN \A x \in comp2[m] : ~ By(x, m)
                     ELSE /\ g[m][Link(s)] \in comp2[m] /\ By(g[m][Link(s)], m)
                          /\ \A x \in comp2[m] : By(x, m) => x = g[m][Link(s)] \/ By(x, g[m][Link(s)])
    BY <1>12 DEF LinksRight, By
  <2>1. \A n \in D : IF h[n][Link(s)] = NULL THEN \A x \in comp[n] : ~ By(x, n)
                     ELSE /\ h[n][Link(s)] \in comp[n] /\ By(h[n][Link(s)], n)
                          /\ \A x \in comp[n] : By(x, n) => x = h[n][Link(s)] \/ By(x, h[n][Link(s)])
    BY DEF Forest, LinksRight, By, D
  <2> DEFINE l == h[m][Link(s)]
             y == h[p][Link(s)]
  <2>2. IF l = NULL THEN \A x \in comp[m] : ~ By(x, m)
        ELSE /\ l \in comp[m] /\ By(l, m) /\ \A x \in comp[m] : By(x, m) => x = l \/ By(x, l)
    BY <2>1
  <2>3. IF y = NULL THEN \A x \in C : ~ By(x, p)
        ELSE /\ y \in C /\ By(y, p) /\ \A x \in C : By(x, p) => x = y \/ By(x, y)
    BY <1>4, <2>1
  <2>4. g[m][Link(s)] = IF m = p THEN near ELSE IF m = far THEN y ELSE l
    BY <1>12
  <2> HIDE DEF l, y
  <2>5. m \in C \cup U => comp2[m] = C \cup U /\ \A x \in C \cup U : x \in D
    BY <1>4, <1>9
  <2>6. CASE m = p
    <3>1. g[m][Link(s)] = near /\ near \in D
      BY <1>4, <1>7, <2>4, <2>6
    <3>2. ASSUME NEW x \in C \cup U, By(x, p) PROVE x = near \/ By(x, near)
      BY <1>6, <1>7, <3>2
    <3>3. near # NULL /\ By(near, p)
      BY <1>6, <1>7, <1>13, <3>1
    <3> QED
      BY <1>4, <1>7, <2>5, <2>6, <3>1, <3>2, <3>3
  <2>7. CASE m = far
    <3>1. m # p /\ g[m][Link(s)] = y /\ comp2[m] = C \cup U /\ m \in U /\ By(m, p)
      BY <1>5, <1>6, <1>7, <2>4, <2>5, <2>7
    <3>2. ASSUME NEW x \in C \cup U, By(x, m) PROVE x \in C /\ By(x, p) /\ x \in D
      <4>1. x \in D
        BY <2>5, <3>1
      <4>2. x \notin U
        BY <1>3, <1>7, <2>7, <3>2, <4>1
      <4> QED
        BY <1>3, <1>4, <3>1, <3>2, <4>1, <4>2
    <3>3. y # NULL => By(y, m)
      BY <1>6, <2>3, <3>1
    <3> QED
      BY <2>3, <3>1, <3>2, <3>3
  <2>8. CASE m \in U /\ m # far
    <3>1. g[m][Link(s)] = l /\ comp2[m] = C \cup U /\ comp[m] = U
      BY <1>5, <1>10, <2>4, <2>5, <2>8
    <3>2. l # NULL
      BY <1>3, <1>4, <1>7, <2>2, <2>8, <3>1
    <3>3. l \in U /\ By(l, m) /\ \A x \in U : By(x, m) => x = l \/ By(x, l)
      BY <2>2, <3>1, <3>2
    <3>4. ASSUME NEW x \in C, By(x, m) PROVE By(x, l)
      <4>1. By(x, p)
        BY <1>3, <1>4, <1>6, <2>8, <3>4
      <4> QED
        BY <1>6, <3>3, <4>1
    <3> QED
      BY <3>1, <3>2, <3>3, <3>4
  <2>9. CASE m \in C /\ m # p
    <3>1. g[m][Link(s)] = l /\ comp2[m] = C \cup U /\ comp[m] = C
      BY <1>5, <1>7, <1>10, <2>4, <2>5, <2>9
    <3>2. CASE l = NULL
      <4>1. \A x \in C : ~ By(x, m)
        BY <2>2, <3>1, <3>2
      <4>2. \A x \in U : ~ By(x, m)
        BY <1>4, <1>8, <2>9, <4>1
      <4> QED
        BY <3>1, <3>2, <4>1, <4>2
    <3>3. CASE l # NULL
      <4>1. l \in C /\ By(l, m) /\ \A x \in C : By(x, m) => x = l \/ By(x, l)
        BY <2>2, <3>1, <3>3
      <4>2. ASSUME NEW x \in U, By(x, m) PROVE By(x, l)
        <5>1. By(p, m)
          BY <1>8, <2>9, <4>2
        <5>2. p = l \/ By(p, l)
          BY <1>4, <4>1, <5>1
        <5> QED
          BY <1>6, <1>8, <4>1, <5>2
      <4> QED
        BY <3>1, <3>3, <4>1, <4>2
    <3> QED
      BY <3>2, <3>3
  <2>10. CASE m \notin C \cup U
    <3>1. g[m][Link(s)] = l /\ comp2[m] = comp[m]
      BY <1>4, <1>7, <1>9, <2>4, <2>10
    <3> QED
      BY <2>2, <3>1
  <2> QED
    BY <2>6, <2>7, <2>8, <2>9, <2>10
<1>25. LinksRight(g, comp2, pos, o)
  <2> SUFFICES ASSUME NEW m \in D
               PROVE IF g[m][Link(o)] = NULL THEN \A x \in comp2[m] : ~ By(m, x)
                     ELSE /\ g[m][Link(o)] \in comp2[m] /\ By(m, g[m][Link(o)])
                          /\ \A x \in comp2[m] : By(m, x) => x = g[m][Link(o)] \/ By(g[m][Link(o)], x)
    <3>1. \A x, z \in D : Beyond(o, pos[x], pos[z]) <=> By(z, x)
      BY <1>3
    <3>2. \A n \in D : comp2[n] \subseteq D
      BY <1>21 DEF IsNested
    <3> QED
      BY <1>12, <3>1, <3>2 DEF LinksRight
  <2> DEFINE l == h[m][Link(o)]
             y == h[p][Link(s)]
  <2>2. IF l = NULL THEN \A x \in comp[m] : ~ By(m, x)
        ELSE /\ l \in comp[m] /\ By(m, l) /\ \A x \in comp[m] : By(m, x) => x = l \/ By(l, x)
    <3>1. IF l = NULL THEN \A x \in comp[m] : ~ Beyond(o, pos[x], pos[m])
          ELSE /\ l \in comp[m] /\ Beyond(o, pos[l], pos[m])
               /\ \A x \in comp[m] : Beyond(o, pos[x], pos[m]) => x = l \/ Beyond(o, pos[x], pos[l])
      BY <1>11 DEF Forest, LinksRight, D
    <3> HIDE DEF l
    <3>2. \A x \in comp[m] : x \in D
      BY <1>1
    <3> QED
      BY <1>3, <3>1, <3>2
  <2>3. IF y = NULL THEN \A x \in C : ~ By(x, p)
        ELSE /\ y \in C /\ By(y, p) /\ \A x \in C : By(x, p) => x = y \/ By(x, y)
    BY <1>4 DEF Forest, LinksRight, By, D
  <2>4. g[m][Link(o)] = IF m = near THEN p ELSE IF m = y THEN far ELSE l
    BY <1>12
  <2> HIDE DEF l, y
  <2>5. m \in C \cup U => comp2[m] = C \cup U /\ \A x \in C \cup U : x \in D
    BY <1>4, <1>9
  <2>51. near \in D /\ far \in D /\ near \notin C /\ far \notin C /\ p # NULL /\ far # NULL
    BY <1>4, <1>5, <1>7, <1>13
  <2>6. CASE m = near
    <3>1. g[m][Link(o)] = p /\ comp2[m] = C \cup U /\ By(m, p) /\ m \in U
      BY <1>6, <1>7, <2>4, <2>5, <2>6
    <3>2. ASSUME NEW x \in C \cup U, By(m, x) PROVE x = p \/ By(p, x)
      <4>1. x \in D
        BY <2>5, <3>1
      <4>2. x \in C
        BY <1>3, <1>7, <2>6, <3>2, <4>1
      <4>3. ~ By(x, p)
        BY <1>3, <1>6, <3>1, <3>2, <4>1, <4>2
      <4> QED
        BY <1>3, <1>4, <4>1, <4>3
    <3> QED
      BY <1>4, <2>51, <3>1, <3>2
  <2>7. CASE m = y
    <3>1. y # NULL /\ y \in C /\ By(y, p) /\ \A x \in C : By(x, p) => x = y \/ By(x, y)
      BY <1>13, <2>3, <2>7
    <3>2. g[m][Link(o)] = far /\ comp2[m] = C \cup U /\ By(m, far)
      BY <1>6, <1>7, <2>4, <2>5, <2>51, <2>7, <3>1
    <3>3. ASSUME NEW x \in C \cup U, By(m, x) PROVE x = far \/ By(far, x)
      <4>1. x \in D
        BY <2>5, <2>7, <3>1
      <4>2. CASE x \in U
        BY <1>7, <4>2
      <4>3. CASE x \in C
        <5>1. ~ By(x, p)
          BY <1>3, <2>7, <3>1, <3>3, <4>1, <4>3
        <5>2. x = p \/ By(p, x)
          BY <1>3, <1>4, <4>1, <5>1
        <5>3. By(far, p)
          BY <1>6, <1>7
        <5> QED
          BY <1>3, <1>4, <2>51, <4>1, <5>2, <5>3
      <4> QED
        BY <4>2, <4>3
    <3> QED
      BY <1>7, <2>51, <3>2, <3>3
  <2>8. CASE m \in U /\ m # near
    <3>1. m # y
      BY <1>5, <1>13, <2>3, <2>8
    <3>2. g[m][Link(o)] = l /\ comp2[m] = C \cup U /\ comp[m] = U
      BY <1>10, <2>4, <2>5, <2>8, <3>1
    <3>3. l # NULL
      BY <1>3, <1>4, <1>7, <2>2, <2>8, <3>2
    <3>4. l \in U /\ By(m, l) /\ \A x \in U : By(m, x) => x = l \/ By(l, x)
      BY <2>2, <3>2, <3>3
    <3>5. ASSUME NEW x \in C, By(m, x) PROVE By(l, x)
      <4>1. x \in D /\ l \in D
        BY <1>4, <3>4
      <4>2. ~ By(x, p)
        BY <1>3, <1>6, <2>8, <3>5, <4>1
      <4>3. x = p \/ By(p, x)
        BY <1>3, <1>4, <4>1, <4>2
      <4>4. By(l, p)
        BY <1>6, <3>4
      <4> QED
        BY <1>3, <1>4, <4>1, <4>3, <4>4
    <3> QED
      BY <3>2, <3>3, <3>4, <3>5
  <2>9. CASE m \in C /\ m # y
    <3>1. g[m][Link(o)] = l /\ comp2[m] = C \cup U /\ comp[m] = C
      BY <1>5, <1>7, <1>10, <2>4, <2>5, <2>9
    <3>2. ASSUME NEW x \in U, By(m, x) PROVE m # p /\ By(m, p)
      <4>1. m # p
        BY <1>3, <1>4, <1>6, <3>2
      <4> QED
        BY <1>8, <2>9, <3>2, <4>1
    <3>3. CASE l = NULL
      <4>1. \A x \in C : ~ By(m, x)
        BY <2>2, <3>1, <3>3
      <4> QED
        BY <1>4, <3>1, <3>2, <3>3, <4>1
    <3>4. CASE l # NULL
      <4>1. l \in C /\ By(m, l) /\ \A x \in C : By(m, x) => x = l \/ By(l, x)
        BY <2>2, <3>1, <3>4
      <4>2. ASSUME NEW x \in U, By(m, x) PROVE By(l, x)
        <5>1. m # p /\ By(m, p)
          BY <3>2, <4>2
        <5>2. m \in D /\ l \in D /\ x \in D
          BY <1>4, <4>1
        <5>3. y # NULL /\ y \in C /\ By(y, p) /\ By(m, y) /\ y \in D
          BY <1>4, <2>3, <2>9, <5>1
        <5>4. l # p
          BY <1>3, <1>4, <4>1, <5>2, <5>3
        <5>5. By(l, p)
          BY <1>4, <4>1, <5>1, <5>4
        <5> QED
          BY <1>6, <4>1, <5>5
      <4> QED
        BY <3>1, <3>4, <4>1, <4>2
    <3> QED
      BY <3>3, <3>4
  <2>10. CASE m \notin C \cup U
    <3>1. m # y
      BY <1>13, <2>3, <2>10
    <3>2. g[m][Link(o)] = l /\ comp2[m] = comp[m]
      BY <1>7, <1>9, <2>4, <2>10, <3>1
    <3> QED
      BY <2>2, <3>2
  <2> QED
    BY <2>6, <2>7, <2>8, <2>9, <2>10
<1>26. KeysRight(g, sub2, comp2, pos)
  <2>1. /\ \A m \in D : \A x \in sub[m] : pos[x] < pos[m] => h[x]["key"] < h[m]["key"]
        /\ \A m \in D : \A x \in comp[m] : pos[x] < pos[m] => h[x]["key"] <= h[m]["key"]
    BY DEF Forest, KeysRight, D
  <2>2. /\ \A u \in U, x \in C : pos[u] < pos[x] => h[u]["key"] <= h[x]["key"]
        /\ \A u \in U, x \in C : pos[x] < pos[u] => h[x]["key"] <= h[u]["key"]
        /\ \A u \in U, m \in D : p \in sub[m] /\ pos[u] < pos[m] => h[u]["key"] < h[m]["key"]
    BY DEF Fits, U, C, D
  <2>3. ASSUME NEW m \in D, NEW x \in sub2[m], pos[x] < pos[m] PROVE h[x]["key"] < h[m]["key"]
    BY <1>9, <2>1, <2>2, <2>3
  <2>4. ASSUME NEW m \in D, NEW x \in comp2[m], pos[x] < pos[m] PROVE h[x]["key"] <= h[m]["key"]
    BY <1>9, <1>10, <2>1, <2>2, <2>4
  <2>5. \A m \in D : sub2[m] \subseteq D /\ comp2[m] \subseteq D
    BY <1>21 DEF IsNested
  <2> QED
    BY <1>12, <2>3, <2>4, <2>5 DEF KeysRight
<1>27. NoGaps(D, sub2, comp2, pos)
  <2>1. \A m \in D : \A x, z \in sub[m], y \in comp[m] : pos[x] < pos[y] /\ pos[y] < pos[z] => y \in sub[m]
    BY DEF Forest, NoGaps, D
  <2>2. \A x, y \in D : pos[x] < pos[y] <=> IF s = "left" THEN By(x, y) ELSE By(y, x)
    BY DEF By, Beyond
  <2> DEFINE Mid(x, y, z) == By(x, y) /\ By(y, z)
  <2>3. ASSUME NEW m \in D, NEW x \in sub[m], NEW z \in sub[m], NEW y \in comp[m], Mid(x, y, z) PROVE y \in sub[m]
    <3>1. x \in D /\ y \in D /\ z \in D
      BY <1>1
    <3> QED
      BY <2>1, <2>2, <2>3, <3>1
  <2> HIDE DEF Mid
  <2>4. ASSUME NEW m \in D, NEW x \in sub2[m], NEW z \in sub2[m], NEW y \in comp2[m], Mid(x, y, z)
        PROVE  y \in sub2[m]
    <3>0. x \in D /\ y \in D /\ z \in D
      BY <1>21 DEF IsNested
    <3>01. By(x, y) /\ By(y, z)
      BY <2>4 DEF Mid
    <3>1. CASE p \in sub[m]
      <4>1. comp[m] = C /\ m \in C /\ sub2[m] = sub[m] \cup U /\ comp2[m] = C \cup U
        BY <1>9, <1>10, <3>1
      <4>2. CASE y \in U
        BY <4>1, <4>2
      <4>3. CASE y \in C /\ y # p
        <5>1. ASSUME NEW v \in sub2[m] PROVE \E w \in sub[m] : (By(v, y) => By(w, y)) /\ (By(y, v) => By(y, w))
          <6>1. CASE v \in sub[m]
            BY <6>1
          <6>2. CASE v \in U
            BY <1>8, <3>1, <4>3, <6>2
          <6> QED
            BY <4>1, <6>1, <6>2
        <5>2. PICK v \in sub[m] : By(v, y)
          BY <3>01, <5>1
        <5>3. PICK w \in sub[m] : By(y, w)
          BY <3>01, <5>1
        <5> QED
          BY <2>3, <4>1, <4>3, <5>2, <5>3 DEF Mid
      <4>4. CASE y = p
        BY <3>1, <4>1, <4>4
      <4> QED
        BY <4>1, <4>2, <4>3, <4>4
    <3>2. CASE p \notin sub[m] /\ m \in C
      <4>1. comp[m] = C /\ sub2[m] = sub[m] /\ comp2[m] = C \cup U /\ sub[m] \subseteq C
        BY <1>1, <1>9, <1>10, <3>2
      <4>2. CASE y \in C
        BY <2>3, <2>4, <4>1, <4>2
      <4>3. CASE y \in U
        <5>1. x # p /\ z # p /\ x \in C /\ z \in C
          BY <3>2, <4>1
        <5>2. By(x, p) /\ By(p, z)
          BY <1>8, <3>01, <4>3, <5>1
        <5> QED
          BY <1>4, <2>3, <3>2, <4>1, <5>2 DEF Mid
      <4> QED
        BY <4>1, <4>2, <4>3
    <3>3. CASE m \in U
      <4>1. comp[m] = U /\ sub2[m] = sub[m] /\ comp2[m] = C \cup U /\ sub[m] \subseteq U
        BY <1>1, <1>9, <1>10, <3>3
      <4>2. y \notin C
        <5>1. SUFFICES ASSUME y \in C PROVE FALSE
          OBVIOUS
        <5>2. x \in U /\ z \in U
          BY <4>1
        <5>3. y # p
          BY <1>3, <1>4, <1>6, <3>0, <3>01, <5>2
        <5>4. By(p, y) /\ By(y, p)
          BY <1>8, <3>01, <5>1, <5>2, <5>3
        <5> QED
          BY <1>3, <1>4, <3>0, <5>4
      <4> QED
        BY <2>3, <2>4, <4>1, <4>2
    <3>4. CASE m \notin C \cup U
      BY <1>9, <1>10, <2>3, <2>4, <3>4
    <3> QED
      BY <3>1, <3>2, <3>3, <3>4
  <2>5. ASSUME NEW m \in D, NEW x \in sub2[m], NEW z \in sub2[m], NEW y \in comp2[m], pos[x] < pos[y], pos[y] < pos[z]
        PROVE  y \in sub2[m]
    <3>1. x \in D /\ y \in D /\ z \in D
      BY <1>21 DEF IsNested
    <3>2. Mid(x, y, z) \/ Mid(z, y, x)
      BY <2>2, <2>5, <3>1 DEF Mid
    <3> QED
      BY <2>4, <3>2
  <2> QED
    BY <2>5 DEF NoGaps
<1> QED
  BY <1>11, <1>12, <1>20, <1>21, <1>22, <1>23, <1>24, <1>25, <1>26, <1>27 DEF Forest, D, sub2, comp2

(* g is h without the branch b, which was at node n, on its side s.        *)
Severed(h, g, n, s, b, near, far) ==
  /\ g \in [DOMAIN h -> [Fields -> Int \cup Nodes \cup {NULL}]]
  /\ \A m \in DOMAIN h :
       /\ g[m]["key"] = h[m]["key"]
       /\ g[m]["parent"] = IF m = b THEN NULL ELSE h[m]["parent"]
       /\ \A q \in Sides : g[m][q] = IF m = n /\ q = s THEN NULL ELSE h[m][q]
       /\ g[m][Link(s)] = IF m = n THEN h[far][Link(s)] ELSE IF m = far THEN NULL ELSE h[m][Link(s)]
       /\ g[m][Link(Other(s))] = IF m = near THEN NULL ELSE IF m = h[far][Link(s)] THEN n ELSE h[m][Link(Other(s))]

SubCut(D, sub, n, b)        == [m \in D |-> IF n \in sub[m] THEN sub[m] \ sub[b] ELSE sub[m]]
CompCut(D, sub, comp, n, b) ==
  [m \in D |-> IF m \in sub[b] THEN sub[b] ELSE IF m \in comp[n] THEN comp[n] \ sub[b] ELSE comp[m]]

(* Where a branch is in the order.                                         *)
LEMMA BranchPlace ==
  ASSUME NEW h, NEW sub, NEW comp, NEW pos, Forest(h, sub, comp, pos), NEW s \in Sides,
         NEW n \in DOMAIN h, NEW b, b = h[n][s], b # NULL
  PROVE  /\ b \in DOMAIN h /\ b \in sub[b] /\ sub[b] \subseteq comp[n] /\ n \in comp[n] /\ n \notin sub[b]
         /\ h[b]["parent"] = n /\ sub[b] # comp[b] /\ b \in sub[n] /\ comp[b] = comp[n]
         /\ \A u \in sub[b] : comp[u] = comp[n]
         /\ \A x \in DOMAIN h : x \in sub[b] <=> x \in sub[n] /\ Beyond(s, pos[x], pos[n])
         /\ \A x \in comp[n] \ sub[b], u \in sub[b] : Beyond(s, pos[x], pos[n]) => Beyond(s, pos[x], pos[u])
<1> DEFINE D == DOMAIN h
<1>1. /\ sub \in [D -> SUBSET D] /\ comp \in [D -> SUBSET D]
      /\ \A m \in D : m \in sub[m] /\ sub[m] \subseteq comp[m]
      /\ \A m \in D : \A x \in comp[m] : comp[x] = comp[m]
      /\ pos \in [D -> Int] /\ \A m, x \in D : pos[m] = pos[x] => m = x
  BY DEF Forest, IsNested, IsPlaced
<1>2. /\ b \in D /\ h[b]["parent"] = n
      /\ \A x \in D : x \in sub[b] <=> x \in sub[n] /\ Beyond(s, pos[x], pos[n])
  BY DEF Forest, BranchesRight
<1>3. n # NULL
  BY NodesAssumption DEF Forest, IsHeap
<1>4. sub[b] # comp[b]
  BY <1>2, <1>3 DEF Forest, ParentsRight
<1>5. ~ Beyond(s, pos[n], pos[n])
  BY <1>1 DEF Beyond
<1>6. b \in sub[n] /\ n \notin sub[b] /\ sub[b] \subseteq sub[n] /\ sub[n] \subseteq comp[n] /\ n \in comp[n]
  BY <1>1, <1>2, <1>5
<1>7. \A u \in sub[b] : comp[u] = comp[n]
  BY <1>1, <1>6
<1>8. ASSUME NEW x \in comp[n] \ sub[b], NEW u \in sub[b], Beyond(s, pos[x], pos[n]) PROVE Beyond(s, pos[x], pos[u])
  <2>1. x \in D /\ u \in D /\ x # u /\ u \in sub[n] /\ n \in sub[n]
    BY <1>1, <1>6
  <2>2. x \notin sub[n]
    BY <1>2, <1>8, <2>1
  <2>3. ~ (pos[n] < pos[x] /\ pos[x] < pos[u]) /\ ~ (pos[u] < pos[x] /\ pos[x] < pos[n])
    BY <2>1, <2>2 DEF Forest, NoGaps
  <2>4. pos[x] \in Int /\ pos[u] \in Int /\ pos[n] \in Int /\ pos[x] # pos[u]
    BY <1>1, <2>1
  <2> QED
    BY <1>8, <2>3, <2>4 DEF Beyond, Sides
<1> QED
  BY <1>1, <1>2, <1>4, <1>6, <1>7, <1>8

LEMMA CutForest ==
  ASSUME NEW h, NEW sub, NEW comp, NEW pos, Forest(h, sub, comp, pos), NEW s \in Sides,
         NEW n \in DOMAIN h, NEW b, b = h[n][s], b # NULL,
         NEW near, IsEnd(sub[b], pos, Other(s), near), NEW far, IsEnd(sub[b], pos, s, far),
         NEW g, Severed(h, g, n, s, b, near, far)
  PROVE  Forest(g, SubCut(DOMAIN h, sub, n, b), CompCut(DOMAIN h, sub, comp, n, b), pos)
<1> DEFINE D == DOMAIN h
           o == Other(s)
           U == sub[b]
           C == comp[n]
           sub2 == SubCut(D, sub, n, b)
           comp2 == CompCut(D, sub, comp, n, b)
           By(x, y) == Beyond(s, pos[x], pos[y])
<1>1. /\ sub \in [D -> SUBSET D] /\ comp \in [D -> SUBSET D]
      /\ \A m \in D : m \in sub[m] /\ sub[m] \subseteq comp[m]
      /\ \A m \in D : \A x \in comp[m] : comp[x] = comp[m]
      /\ \A m \in D : \A x \in sub[m] : sub[x] \subseteq sub[m]
      /\ \A m, q \in D : sub[m] \cap sub[q] # {} => m \in sub[q] \/ q \in sub[m]
  BY DEF Forest, IsNested
<1>2. pos \in [D -> Int] /\ \A m, x \in D : pos[m] = pos[x] => m = x
  BY DEF Forest, IsPlaced
<1>3. /\ \A x, y, z \in D : By(x, y) /\ By(y, z) => By(x, z)
      /\ \A x, y \in D : x = y \/ By(x, y) \/ By(y, x)
      /\ \A x, y \in D : ~ (By(x, y) /\ By(y, x))
      /\ \A x \in D : ~ By(x, x)
      /\ \A x, y \in D : Beyond(o, pos[x], pos[y]) <=> By(y, x)
  BY <1>2, BeyondOrder
<1>4. /\ n \in D /\ n \in C /\ n \notin U /\ b \in D /\ b \in U /\ b \in sub[n] /\ sub[b] = U /\ comp[n] = C /\ comp[b] = C
      /\ U # C /\ U \subseteq C /\ C \subseteq D /\ U \subseteq D /\ h[n][s] = b /\ h[b]["parent"] = n
      /\ \A u \in U : comp[u] = C
      /\ \A x \in D : x \in U <=> x \in sub[n] /\ By(x, n)
      /\ \A x \in C \ U, u \in U : By(x, n) => By(x, u)
  BY <1>1, BranchPlace
<1>5. \A u \in U : By(u, n)
  BY <1>4
<1>7. /\ near \in U /\ \A x \in U : x = near \/ By(x, near)
      /\ far \in U /\ \A x \in U : x = far \/ By(far, x)
  BY <1>3, <1>4 DEF IsEnd
<1>8. \A m \in C \ U, u \in U : m # n => (By(u, m) <=> By(n, m)) /\ (By(m, u) <=> By(m, n))
  <2> TAKE m \in C \ U, u \in U
  <2>1. m \in D /\ u \in D /\ n \in D /\ m # u /\ m \in C \ U
    BY <1>4
  <2>2. By(u, n) /\ (By(m, n) => By(m, u))
    BY <1>4
  <2> HIDE DEF By, C, U
  <2> QED
    BY <1>3, <2>1, <2>2
<1>9. h[b]["parent"] # NULL /\ NULL \notin D
  BY <1>4, NodesAssumption DEF Forest, IsHeap
<1>10. ASSUME NEW m \in U, m # b PROVE h[m]["parent"] \in U
  <2>1. sub[m] # comp[m]
    <3>1. comp[m] = comp[b] /\ m \in sub[b] /\ m \in D
      BY <1>4, <1>10
    <3>2. b \in sub[m] => b = m
      BY <3>1, BranchesInside
    <3> QED
      BY <1>1, <1>4, <1>10, <3>1, <3>2
  <2> QED
    BY <1>4, <1>10, <2>1 DEF Forest, ParentsRight
<1>11. o \in Sides /\ o # s /\ (\A q \in Sides : q = s \/ q = o)
  BY SidesProperties
<1>12. /\ DOMAIN g = D
       /\ \A m \in D : g[m]["key"] = h[m]["key"]
       /\ \A m \in D : g[m]["parent"] = IF m = b THEN NULL ELSE h[m]["parent"]
       /\ \A m \in D : \A q \in Sides : g[m][q] = IF m = n /\ q = s THEN NULL ELSE h[m][q]
       /\ \A m \in D : g[m][Link(s)] = IF m = n THEN h[far][Link(s)] ELSE IF m = far THEN NULL ELSE h[m][Link(s)]
       /\ \A m \in D : g[m][Link(o)] = IF m = near THEN NULL ELSE IF m = h[far][Link(s)] THEN n ELSE h[m][Link(o)]
  BY DEF Severed
<1>14. ASSUME NEW m \in D, NEW x \in sub[m], m \in sub[x] PROVE x = m
  BY <1>14, BranchesInside
<1>15. ASSUME NEW m \in D, m \notin U, n \notin sub[m] PROVE sub[m] \cap U = {}
  <2>1. SUFFICES ASSUME sub[m] \cap U # {} PROVE FALSE
    OBVIOUS
  <2>2. b \in sub[m] /\ b # m
    BY <1>1, <1>4, <1>15, <2>1
  <2>3. h[b]["parent"] \in sub[m]
    BY <1>4, <2>2 DEF Forest, ParentsRight
  <2> QED
    BY <1>4, <1>15, <2>3
<1>20. IsHeap(g) /\ IsPlaced(g, pos)
  BY <1>12 DEF Forest, IsHeap, IsPlaced, Severed
<1>90. /\ DOMAIN sub2 = D /\ \A m \in D : sub2[m] = IF n \in sub[m] THEN sub[m] \ U ELSE sub[m]
       /\ DOMAIN comp2 = D /\ \A m \in D : comp2[m] = IF m \in U THEN U ELSE IF m \in C THEN C \ U ELSE comp[m]
  BY DEF SubCut, CompCut
<1> HIDE DEF D, o, U, C, sub2, comp2, By
<1>16. /\ \A m \in D : m \in C <=> comp[m] = C
       /\ \A m \in U : sub[m] \subseteq U /\ n \notin sub[m]
       /\ \A m \in D : n \in sub[m] => m \notin U /\ m \in C /\ U \subseteq sub[m]
  BY <1>1, <1>4
<1>9a. \A m \in U : sub2[m] = sub[m] /\ comp2[m] = U
  BY <1>4, <1>16, <1>90
<1>9b. ASSUME NEW m \in D, m \notin U PROVE sub2[m] = sub[m] \ U /\ comp2[m] = comp[m] \ U
  <2>1. sub2[m] = sub[m] \ U
    BY <1>9b, <1>15, <1>90
  <2>2. CASE m \in C
    BY <1>9b, <1>16, <1>90, <2>1, <2>2
  <2>3. CASE m \notin C
    <3>1. comp[m] \cap U = {}
      BY <1>1, <1>4, <1>16, <2>3
    <3> QED
      BY <1>9b, <1>90, <2>1, <2>3, <3>1
  <2> QED
    BY <2>2, <2>3
<1>21. IsNested(D, sub2, comp2)
  <2>0. \A m \in D : sub2[m] \subseteq sub[m] /\ comp2[m] \subseteq comp[m]
    BY <1>4, <1>9a, <1>9b
  <2>1. sub2 \in [D -> SUBSET D] /\ comp2 \in [D -> SUBSET D]
    <3>1. \A m \in D : sub2[m] \in SUBSET D /\ comp2[m] \in SUBSET D
      BY <1>1, <2>0
    <3>2. sub2 = [m \in D |-> sub2[m]] /\ comp2 = [m \in D |-> comp2[m]]
      BY DEF sub2, comp2, SubCut, CompCut
    <3> QED
      BY <3>1, <3>2
  <2>2. \A m \in D : m \in sub2[m] /\ sub2[m] \subseteq comp2[m]
    BY <1>1, <1>9a, <1>9b, <1>16
  <2>3. ASSUME NEW m \in D, NEW x \in comp2[m] PROVE comp2[x] = comp2[m]
    <3>1. CASE m \in U
      BY <1>9a, <3>1
    <3>2. CASE m \notin U
      <4>1. x \in comp[m] /\ x \notin U /\ x \in D /\ comp[x] = comp[m]
        BY <1>1, <1>9b, <3>2
      <4> QED
        BY <1>9b, <3>2, <4>1
    <3> QED
      BY <3>1, <3>2
  <2>4. ASSUME NEW m \in D, NEW x \in sub2[m] PROVE sub2[x] \subseteq sub2[m]
    <3>1. x \in sub[m] /\ x \in D /\ sub[x] \subseteq sub[m]
      BY <1>1, <2>0
    <3>2. x \in U <=> m \in U
      BY <1>9a, <1>9b, <1>16, <3>1
    <3> QED
      BY <1>9a, <1>9b, <3>1, <3>2
  <2>5. ASSUME NEW m \in D, NEW q \in D, NEW z, z \in sub2[m], z \in sub2[q]
        PROVE  m \in sub2[q] \/ q \in sub2[m]
    <3>1. m \in sub[q] \/ q \in sub[m]
      BY <1>1, <2>0, <2>5
    <3>2. (z \in U <=> m \in U) /\ (z \in U <=> q \in U)
      BY <1>9a, <1>9b, <1>16, <2>5
    <3> QED
      BY <1>9a, <1>9b, <3>1, <3>2
  <2> QED
    BY <2>1, <2>2, <2>3, <2>4, <2>5 DEF IsNested
<1>22. ParentsRight(g, sub2, comp2)
  <2> SUFFICES ASSUME NEW m \in D
               PROVE IF sub2[m] = comp2[m] THEN g[m]["parent"] = NULL
                     ELSE /\ g[m]["parent"] \in D
                          /\ \E q \in Sides : g[g[m]["parent"]][q] = m
                          /\ \A x \in D : m \in sub2[x] /\ x # m => g[m]["parent"] \in sub2[x]
    BY <1>12 DEF ParentsRight
  <2> DEFINE par == h[m]["parent"]
  <2>0. IF sub[m] = comp[m] THEN par = NULL
        ELSE /\ par \in D /\ \E q \in Sides : h[par][q] = m
             /\ \A x \in D : m \in sub[x] /\ x # m => par \in sub[x]
    BY DEF Forest, ParentsRight, D
  <2>01. m \in U /\ m # b => par \in U
    BY <1>10
  <2>02. m # b => g[m]["parent"] = par
    BY <1>12
  <2> HIDE DEF par
  <2>1. CASE m = b
    BY <1>4, <1>9a, <1>12, <2>1
  <2>2. CASE m \in U /\ m # b
    <3>1. sub[m] # U
      BY <1>4, <1>14, <2>2
    <3>2. sub[m] # comp[m]
      BY <1>4, <1>16, <2>2
    <3>3. par \in U /\ par \in D /\ g[m]["parent"] = par /\ \A x \in D : m \in sub[x] /\ x # m => par \in sub[x]
      BY <2>0, <2>01, <2>02, <2>2, <3>2
    <3>4. \E q \in Sides : g[par][q] = m
      BY <1>4, <1>12, <2>0, <3>2, <3>3
    <3>5. \A x \in D : m \in sub2[x] /\ x # m => par \in sub2[x]
      BY <1>9a, <1>9b, <2>2, <3>3
    <3> QED
      BY <1>9a, <2>2, <3>1, <3>3, <3>4, <3>5
  <2>3. CASE m \notin U
    <3>1. m # b /\ g[m]["parent"] = par
      BY <1>4, <2>02, <2>3
    <3>2. sub2[m] = comp2[m] => sub[m] = comp[m]
      <4>0. /\ sub2[m] = sub[m] \ U /\ comp2[m] = comp[m] \ U /\ sub[m] \subseteq comp[m]
            /\ n \in sub[m] => U \subseteq sub[m]
        BY <1>1, <1>9b, <1>16, <2>3
      <4>1. CASE n \in sub[m]
        <5>1. \A x \in comp[m] : sub2[m] = comp2[m] => x \in sub[m]
          BY <4>0, <4>1
        <5> QED
          BY <4>0, <5>1
      <4>2. CASE n \notin sub[m] /\ m \in C
        BY <1>4, <1>9b, <1>16, <2>3, <4>2
      <4>3. CASE m \notin C
        <5>1. comp[m] \cap U = {}
          BY <1>1, <1>4, <1>16, <4>3
        <5> QED
          <6>1. \A x \in comp[m] : sub2[m] = comp2[m] => x \in sub[m]
            BY <4>0, <5>1
          <6> QED
            BY <4>0, <6>1
      <4> QED
        BY <4>1, <4>2, <4>3
    <3>3. CASE sub[m] = comp[m]
      BY <1>9b, <2>0, <2>3, <3>1, <3>3
    <3>4. CASE sub[m] # comp[m]
      <4>1. par \in D /\ \A x \in D : m \in sub[x] /\ x # m => par \in sub[x]
        BY <2>0, <3>4
      <4>2. PICK q \in Sides : h[par][q] = m
        BY <2>0, <3>4
      <4>3. m \in sub[par]
        <5>1. m # NULL
          BY <1>9
        <5>2. \A x \in D : x \in sub[m] => x \in sub[par]
          BY <4>1, <4>2, <5>1 DEF Forest, BranchesRight, D
        <5> QED
          BY <1>1, <5>2
      <4>4. par \notin U
        BY <1>16, <2>3, <4>3
      <4>5. g[par][q] = m
        BY <1>4, <1>12, <2>3, <4>1, <4>2
      <4>6. ASSUME NEW x \in D, m \in sub2[x], x # m PROVE par \in sub2[x]
        <5>1. x \notin U
          BY <1>9a, <1>16, <2>3, <4>6
        <5> QED
          BY <1>9b, <4>1, <4>4, <4>6, <5>1
      <4> QED
        BY <3>1, <3>2, <3>4, <4>1, <4>5, <4>6
    <3> QED
      BY <3>3, <3>4
  <2> QED
    BY <2>1, <2>2, <2>3
<1>23. ASSUME NEW q \in Sides PROVE BranchesRight(g, sub2, pos, q)
  <2> SUFFICES ASSUME NEW m \in D
               PROVE IF g[m][q] = NULL THEN \A x \in sub2[m] : ~ Beyond(q, pos[x], pos[m])
                     ELSE /\ g[m][q] \in D /\ g[g[m][q]]["parent"] = m
                          /\ \A x \in D : x \in sub2[g[m][q]] <=> x \in sub2[m] /\ Beyond(q, pos[x], pos[m])
    BY <1>12 DEF BranchesRight
  <2> DEFINE Bq(x, y) == Beyond(q, pos[x], pos[y])
             c == h[m][q]
  <2>1. IF q = s THEN \A x, y \in D : Bq(x, y) <=> By(x, y) ELSE \A x, y \in D : Bq(x, y) <=> By(y, x)
    BY <1>3, <1>11 DEF By
  <2>2. IF c = NULL THEN \A x \in sub[m] : ~ Bq(x, m)
        ELSE /\ c \in D /\ h[c]["parent"] = m
             /\ \A x \in D : x \in sub[c] <=> x \in sub[m] /\ Bq(x, m)
    BY DEF Forest, BranchesRight, D
  <2>3. \A x \in sub2[m] : x \in sub[m] /\ x \in D
    BY <1>1, <1>9a, <1>9b
  <2>31. c \in U /\ c # b => h[c]["parent"] \in U
    BY <1>10
  <2> HIDE DEF Bq, c
  <2>4. CASE m = n /\ q = s
    <3>1. g[m][q] = NULL /\ sub2[m] = sub[m] \ U
      BY <1>4, <1>9b, <1>12, <2>4
    <3>2. \A x \in sub2[m] : ~ By(x, m)
      BY <1>4, <2>3, <2>4, <3>1
    <3> QED
      BY <2>1, <2>3, <2>4, <3>1, <3>2 DEF Bq
  <2>5. CASE (m # n \/ q # s) /\ c = NULL
    BY <1>12, <2>2, <2>3, <2>5 DEF Bq, c
  <2>6. CASE (m # n \/ q # s) /\ c # NULL
    <3>1. g[m][q] = c /\ c \in D /\ h[c]["parent"] = m /\ \A x \in D : x \in sub[c] <=> x \in sub[m] /\ Bq(x, m)
      BY <1>12, <2>2, <2>6 DEF c
    <3>2. c # b
      <4>1. SUFFICES ASSUME c = b PROVE FALSE
        OBVIOUS
      <4>2. m = n /\ q # s /\ Bq(b, n)
        BY <1>1, <1>4, <2>6, <3>1, <4>1
      <4> QED
        BY <1>3, <1>4, <1>5, <2>1, <4>2
    <3>3. g[c]["parent"] = m
      BY <1>12, <3>1, <3>2
    <3>4. c \in U <=> m \in U
      <4>1. m \in U => c \in U
        BY <1>1, <1>16, <3>1
      <4> QED
        BY <2>31, <3>1, <3>2, <4>1
    <3>5. \A x \in D : x \in sub2[c] <=> x \in sub2[m] /\ Bq(x, m)
      BY <1>9a, <1>9b, <3>1, <3>4
    <3>6. g[m][q] # NULL
      BY <2>6, <3>1
    <3> QED
      BY <3>1, <3>3, <3>5, <3>6 DEF Bq
  <2> QED
    BY <2>4, <2>5, <2>6
<1>24. LinksRight(g, comp2, pos, s)
  <2> SUFFICES ASSUME NEW m \in D
               PROVE IF g[m][Link(s)] = NULL THEN \A x \in comp2[m] : ~ By(x, m)
                     ELSE /\ g[m][Link(s)] \in comp2[m] /\ By(g[m][Link(s)], m)
                          /\ \A x \in comp2[m] : By(x, m) => x = g[m][Link(s)] \/ By(x, g[m][Link(s)])
    BY <1>12 DEF LinksRight, By
  <2>1. \A k \in D : IF h[k][Link(s)] = NULL THEN \A x \in comp[k] : ~ By(x, k)
                     ELSE /\ h[k][Link(s)] \in comp[k] /\ By(h[k][Link(s)], k)
                          /\ \A x \in comp[k] : By(x, k) => x = h[k][Link(s)] \/ By(x, h[k][Link(s)])
    BY DEF Forest, LinksRight, By, D
  <2> DEFINE l == h[m][Link(s)]
             y == h[far][Link(s)]
  <2>2. IF l = NULL THEN \A x \in comp[m] : ~ By(x, m)
        ELSE /\ l \in comp[m] /\ By(l, m) /\ \A x \in comp[m] : By(x, m) => x = l \/ By(x, l)
    BY <2>1
  <2>3. IF y = NULL THEN \A x \in C : ~ By(x, far)
        ELSE /\ y \in C /\ By(y, far) /\ \A x \in C : By(x, far) => x = y \/ By(x, y)
    BY <1>4, <1>7, <2>1
  <2>4. g[m][Link(s)] = IF m = n THEN y ELSE IF m = far THEN NULL ELSE l
    BY <1>12
  <2> HIDE DEF l, y
  <2>5. comp[m] \subseteq D /\ far \in D
    BY <1>1, <1>4, <1>7
  <2>6. CASE m = n
    <3>1. g[m][Link(s)] = y /\ comp2[m] = C \ U
      BY <1>4, <1>9b, <2>4, <2>6
    <3>2. \A x \in C \ U : By(x, m) => By(x, far)
      BY <1>4, <1>7, <2>6
    <3>3. y # NULL => y \in D /\ y \notin U /\ By(y, m)
      BY <1>3, <1>4, <1>5, <1>7, <2>3, <2>5, <2>6
    <3> QED
      BY <2>3, <3>1, <3>2, <3>3
  <2>7. CASE m = far
    BY <1>3, <1>4, <1>7, <1>9a, <2>4, <2>5, <2>7
  <2>8. CASE m \in U /\ m # far
    <3>1. g[m][Link(s)] = l /\ comp2[m] = U /\ comp[m] = C
      BY <1>4, <1>9a, <2>4, <2>8
    <3>2. l # NULL
      BY <1>4, <1>7, <2>2, <2>8, <3>1
    <3>3. l \in C /\ l \in D /\ By(l, m) /\ \A x \in C : By(x, m) => x = l \/ By(x, l)
      BY <1>4, <2>2, <3>1, <3>2
    <3>4. l \in U
      <4>1. SUFFICES ASSUME l \notin U PROVE FALSE
        OBVIOUS
      <4>2. By(l, n)
        BY <1>3, <1>4, <1>5, <2>8, <3>3
      <4>3. By(l, far)
        BY <1>4, <1>7, <3>3, <4>1, <4>2
      <4>4. By(far, m)
        BY <1>7, <2>8
      <4>5. far = l \/ By(far, l)
        BY <1>4, <1>7, <3>3, <4>4
      <4> QED
        BY <1>3, <1>7, <2>5, <3>3, <4>1, <4>3, <4>5
    <3> QED
      BY <1>4, <3>1, <3>2, <3>3, <3>4
  <2>9. CASE m \in C \ U /\ m # n
    <3>1. g[m][Link(s)] = l /\ comp2[m] = C \ U /\ comp[m] = C
      BY <1>7, <1>9b, <1>16, <2>4, <2>9
    <3>2. l # NULL => l \notin U
      <4>1. SUFFICES ASSUME l # NULL, l \in U PROVE FALSE
        OBVIOUS
      <4>2. By(l, m) /\ \A x \in C : By(x, m) => x = l \/ By(x, l)
        BY <2>2, <3>1, <4>1
      <4>3. n = l \/ By(n, l)
        BY <1>4, <1>8, <2>9, <4>1, <4>2
      <4>4. l \in D /\ By(l, n)
        BY <1>4, <1>5, <4>1
      <4> QED
        BY <1>3, <1>4, <4>3, <4>4
    <3> QED
      BY <2>2, <3>1, <3>2
  <2>10. CASE m \notin C
    <3>1. g[m][Link(s)] = l /\ comp2[m] = comp[m]
      BY <1>4, <1>7, <1>90, <2>4, <2>10
    <3> QED
      BY <2>2, <3>1
  <2> QED
    BY <1>4, <2>6, <2>7, <2>8, <2>9, <2>10
<1>25. LinksRight(g, comp2, pos, o)
  <2> SUFFICES ASSUME NEW m \in D
               PROVE IF g[m][Link(o)] = NULL THEN \A x \in comp2[m] : ~ By(m, x)
                     ELSE /\ g[m][Link(o)] \in comp2[m] /\ By(m, g[m][Link(o)])
                          /\ \A x \in comp2[m] : By(m, x) => x = g[m][Link(o)] \/ By(g[m][Link(o)], x)
    <3>1. \A x, z \in D : Beyond(o, pos[x], pos[z]) <=> By(z, x)
      BY <1>3
    <3>2. \A k \in D : comp2[k] \subseteq D
      BY <1>21 DEF IsNested
    <3> QED
      BY <1>12, <3>1, <3>2 DEF LinksRight
  <2> DEFINE l == h[m][Link(o)]
             y == h[far][Link(s)]
  <2>2. IF l = NULL THEN \A x \in comp[m] : ~ By(m, x)
        ELSE /\ l \in comp[m] /\ By(m, l) /\ \A x \in comp[m] : By(m, x) => x = l \/ By(l, x)
    <3>1. IF l = NULL THEN \A x \in comp[m] : ~ Beyond(o, pos[x], pos[m])
          ELSE /\ l \in comp[m] /\ Beyond(o, pos[l], pos[m])
               /\ \A x \in comp[m] : Beyond(o, pos[x], pos[m]) => x = l \/ Beyond(o, pos[x], pos[l])
      BY <1>11 DEF Forest, LinksRight, D
    <3> HIDE DEF l
    <3>2. \A x \in comp[m] : x \in D
      BY <1>1
    <3> QED
      BY <1>3, <3>1, <3>2
  <2>3. IF y = NULL THEN \A x \in C : ~ By(x, far)
        ELSE /\ y \in C /\ By(y, far) /\ \A x \in C : By(x, far) => x = y \/ By(x, y)
    <3>1. far \in D /\ comp[far] = C
      BY <1>4, <1>7
    <3> QED
      BY <3>1 DEF Forest, LinksRight, By, D
  <2>4. g[m][Link(o)] = IF m = near THEN NULL ELSE IF m = y THEN n ELSE l
    BY <1>12
  <2> HIDE DEF l, y
  <2>5. comp[m] \subseteq D /\ far \in D /\ near \in D
    BY <1>1, <1>4, <1>7
  <2>51. y # NULL => y \in D /\ y \notin U /\ By(y, n)
    BY <1>3, <1>4, <1>5, <1>7, <2>3, <2>5
  <2>6. CASE m = near
    <3>1. g[m][Link(o)] = NULL /\ comp2[m] = U
      BY <1>7, <1>9a, <2>4, <2>6
    <3>2. \A x \in U : ~ By(near, x)
      BY <1>3, <1>4, <1>7
    <3> QED
      BY <2>6, <3>1, <3>2
  <2>7. CASE m = y
    <3>1. y # NULL /\ y \in C /\ By(y, far) /\ By(y, n) /\ y \notin U /\ \A x \in C : By(x, far) => x = y \/ By(x, y)
      BY <1>9, <2>3, <2>51, <2>7
    <3>2. g[m][Link(o)] = n /\ comp2[m] = C \ U
      BY <1>7, <1>9b, <1>16, <2>4, <2>7, <3>1
    <3>3. ASSUME NEW x \in C \ U, By(m, x) PROVE x = n \/ By(n, x)
      <4>1. x \in D
        BY <1>4
      <4>2. ~ By(x, n)
        BY <1>3, <1>4, <1>7, <2>7, <3>1, <3>3, <4>1
      <4> QED
        BY <1>3, <1>4, <4>1, <4>2
    <3> QED
      BY <1>4, <1>9, <2>7, <3>1, <3>2, <3>3
  <2>8. CASE m \in U /\ m # near
    <3>1. g[m][Link(o)] = l /\ comp2[m] = U /\ comp[m] = C
      BY <1>4, <1>9, <1>9a, <2>4, <2>51, <2>8
    <3>2. By(m, near)
      BY <1>7, <2>8
    <3>3. l # NULL
      BY <1>4, <1>7, <2>2, <3>1, <3>2
    <3>4. l \in C /\ l \in D /\ By(m, l) /\ \A x \in C : By(m, x) => x = l \/ By(l, x)
      BY <1>4, <2>2, <3>1, <3>3
    <3>5. l \in U
      <4>1. SUFFICES ASSUME l \notin U PROVE FALSE
        OBVIOUS
      <4>2. By(l, near)
        BY <1>4, <1>7, <3>2, <3>4, <4>1
      <4>3. By(near, n)
        BY <1>5, <1>7
      <4>4. By(l, n)
        BY <1>3, <1>4, <2>5, <3>4, <4>2, <4>3
      <4>5. By(l, m)
        BY <1>4, <2>8, <3>4, <4>1, <4>4
      <4> QED
        BY <1>3, <3>4, <4>5
    <3> QED
      BY <1>4, <3>1, <3>3, <3>4, <3>5
  <2>9. CASE m \in C \ U /\ m # y
    <3>1. g[m][Link(o)] = l /\ comp2[m] = C \ U /\ comp[m] = C
      BY <1>7, <1>9b, <1>16, <2>4, <2>9
    <3>2. l # NULL => l \notin U
      <4>1. SUFFICES ASSUME l # NULL, l \in U PROVE FALSE
        OBVIOUS
      <4>2. By(m, l) /\ \A x \in C : By(m, x) => x = l \/ By(l, x)
        BY <2>2, <3>1, <4>1
      <4>3. l \in D /\ By(l, n)
        BY <1>4, <1>5, <4>1
      <4>4. m # n
        BY <1>3, <1>4, <4>2, <4>3
      <4>5. By(m, far)
        BY <1>7, <1>8, <2>9, <4>1, <4>2, <4>4
      <4>6. y # NULL /\ y \in C /\ y \in D /\ y \notin U /\ By(y, far) /\ By(m, y)
        BY <1>4, <2>3, <2>9, <2>51, <4>5
      <4>7. By(l, y)
        BY <4>1, <4>2, <4>6
      <4>8. l = far \/ By(far, l)
        BY <1>7, <4>1
      <4>9. By(y, l)
        BY <1>3, <2>5, <4>3, <4>6, <4>8
      <4> QED
        BY <1>3, <4>3, <4>6, <4>7, <4>9
    <3> QED
      BY <2>2, <3>1, <3>2
  <2>10. CASE m \notin C
    <3>1. m # y
      BY <1>9, <2>3, <2>10
    <3>2. g[m][Link(o)] = l /\ comp2[m] = comp[m]
      BY <1>4, <1>7, <1>90, <2>4, <2>10, <3>1
    <3> QED
      BY <2>2, <3>2
  <2> QED
    BY <1>4, <2>6, <2>7, <2>8, <2>9, <2>10
<1>28. \A m \in D : sub2[m] \subseteq sub[m] /\ comp2[m] \subseteq comp[m]
  BY <1>4, <1>9a, <1>9b
<1>26. KeysRight(g, sub2, comp2, pos)
  <2>1. /\ \A m \in D : \A x \in sub[m] : pos[x] < pos[m] => h[x]["key"] < h[m]["key"]
        /\ \A m \in D : \A x \in comp[m] : pos[x] < pos[m] => h[x]["key"] <= h[m]["key"]
    BY DEF Forest, KeysRight, D
  <2>5. \A m \in D : sub2[m] \subseteq D /\ comp2[m] \subseteq D
    BY <1>21 DEF IsNested
  <2> QED
    BY <1>12, <1>28, <2>1, <2>5 DEF KeysRight
<1>27. NoGaps(D, sub2, comp2, pos)
  <2>1. \A m \in D : \A x, z \in sub[m], y \in comp[m] : pos[x] < pos[y] /\ pos[y] < pos[z] => y \in sub[m]
    BY DEF Forest, NoGaps, D
  <2>2. ASSUME NEW m \in D, NEW x \in sub2[m], NEW z \in sub2[m], NEW y \in comp2[m], pos[x] < pos[y], pos[y] < pos[z]
        PROVE  y \in sub2[m]
    <3>1. y \in sub[m]
      BY <1>28, <2>1, <2>2
    <3> QED
      BY <1>9a, <1>9b, <2>2, <3>1
  <2> QED
    BY <2>2 DEF NoGaps
<1> QED
  BY <1>11, <1>12, <1>20, <1>21, <1>22, <1>23, <1>24, <1>25, <1>26, <1>27 DEF Forest, D, sub2, comp2


-----------------------------------------------------------------------------
(* What the tree's operations write.                                       *)
Cells      == Int \cup Nodes \cup {NULL}
IsStore(h) == h \in [DOMAIN h -> [Fields -> Cells]]

(* h with x in the place of node n.                                        *)
Put(h, n, x) == [m \in DOMAIN h |-> IF m = n THEN x ELSE h[m]]
IsFunction(h) == h = [m \in DOMAIN h |-> h[m]]

LEMMA PutProperties ==
  ASSUME NEW h, NEW n \in DOMAIN h, NEW x
  PROVE  /\ DOMAIN Put(h, n, x) = DOMAIN h /\ IsFunction(Put(h, n, x))
         /\ Put(h, n, x)[n] = x
         /\ \A m \in DOMAIN h : m # n => Put(h, n, x)[m] = h[m]
BY DEF Put, IsFunction

LEMMA PutTwice ==
  ASSUME NEW h, NEW n \in DOMAIN h, NEW x, NEW y
  PROVE  Put(Put(h, n, x), n, y) = Put(h, n, y)
BY DEF Put

LEMMA PutsSwap ==
  ASSUME NEW h, NEW n \in DOMAIN h, NEW m \in DOMAIN h, n # m, NEW x, NEW y
  PROVE  Put(Put(h, n, x), m, y) = Put(Put(h, m, y), n, x)
BY DEF Put

LEMMA WriteIsPut ==
  ASSUME NEW h, IsFunction(h), NEW n \in DOMAIN h, NEW f, NEW v
  PROVE  Write(h, n, f, v) = Put(h, n, [h[n] EXCEPT ![f] = v])
<1> DEFINE x == [h[n] EXCEPT ![f] = v]
<1>1. Write(h, n, f, v) = [h EXCEPT ![n] = x]
  <2>1. Write(h, n, f, v) = [h EXCEPT ![n][f] = v]
    BY Zenon DEF Write
  <2> QED
    BY <2>1
<1> HIDE DEF x
<1>2. [h EXCEPT ![n] = x] = [m \in DOMAIN h |-> IF m = n THEN x ELSE h[m]]
  BY DEF IsFunction
<1> QED
  BY <1>1, <1>2 DEF Put, x

LEMMA StoreIsFunction ==
  ASSUME NEW h, IsStore(h)
  PROVE  IsFunction(h) /\ \A n \in DOMAIN h : h[n] \in [Fields -> Cells]
BY DEF IsStore, IsFunction

LEMMA WriteProperties ==
  ASSUME NEW h, IsStore(h), NEW n \in DOMAIN h, NEW f \in Fields, NEW v \in Cells
  PROVE  /\ IsStore(Write(h, n, f, v)) /\ DOMAIN Write(h, n, f, v) = DOMAIN h
         /\ \A m \in DOMAIN h, q \in Fields : Write(h, n, f, v)[m][q] = IF m = n /\ q = f THEN v ELSE h[m][q]
<1> DEFINE r == h[n]
           x == [r EXCEPT ![f] = v]
           g == Put(h, n, x)
<1>1. Write(h, n, f, v) = g
  BY StoreIsFunction, WriteIsPut
<1>2. r \in [Fields -> Cells] /\ IsFunction(h) /\ \A m \in DOMAIN h : h[m] \in [Fields -> Cells]
  BY StoreIsFunction
<1> HIDE DEF r
<1>3. x \in [Fields -> Cells] /\ \A q \in Fields : x[q] = IF q = f THEN v ELSE r[q]
  BY <1>2
<1> HIDE DEF x
<1>4. DOMAIN g = DOMAIN h /\ IsFunction(g) /\ g[n] = x /\ \A m \in DOMAIN h : m # n => g[m] = h[m]
  BY PutProperties
<1> HIDE DEF g
<1>5. \A m \in DOMAIN g : g[m] \in [Fields -> Cells]
  BY <1>2, <1>3, <1>4
<1>6. IsStore(g)
  BY <1>4, <1>5 DEF IsStore, IsFunction
<1>7. \A m \in DOMAIN h, q \in Fields : g[m][q] = IF m = n /\ q = f THEN v ELSE h[m][q]
  BY <1>3, <1>4 DEF r
<1> QED
  BY <1>1, <1>4, <1>6, <1>7

(* The same in one word.                                                   *)
IsWritten(g, h, n, f, v) ==
  /\ IsStore(g) /\ DOMAIN g = DOMAIN h
  /\ \A m \in DOMAIN h, q \in Fields : g[m][q] = IF m = n /\ q = f THEN v ELSE h[m][q]

LEMMA WriteWrites ==
  ASSUME NEW h, IsStore(h), NEW n \in DOMAIN h, NEW f \in Fields, NEW v \in Cells
  PROVE  IsWritten(Write(h, n, f, v), h, n, f, v)
BY WriteProperties DEF IsWritten

LEMMA WriteIfProperties ==
  ASSUME NEW h, IsStore(h), NEW n \in DOMAIN h \cup {NULL}, NULL \notin DOMAIN h,
         NEW f \in Fields, NEW v \in Cells
  PROVE  /\ IsStore(WriteIf(h, n, f, v)) /\ DOMAIN WriteIf(h, n, f, v) = DOMAIN h
         /\ \A m \in DOMAIN h, q \in Fields : WriteIf(h, n, f, v)[m][q] = IF m = n /\ q = f THEN v ELSE h[m][q]
<1>1. CASE n = NULL
  BY <1>1 DEF WriteIf
<1>2. CASE n # NULL
  BY <1>2, WriteProperties DEF WriteIf
<1> QED
  BY <1>1, <1>2

LEMMA WritesSwap ==
  ASSUME NEW h, IsStore(h), NEW n \in DOMAIN h, NEW f \in Fields, NEW q \in Fields, f # q, NEW v, NEW w
  PROVE  Write(Write(h, n, f, v), n, q, w) = Write(Write(h, n, q, w), n, f, v)
<1> DEFINE r == h[n]
           a == [r EXCEPT ![f] = v]
           b == [r EXCEPT ![q] = w]
<1>1. r \in [Fields -> Cells] /\ IsFunction(h)
  BY StoreIsFunction
<1>2. Write(h, n, f, v) = Put(h, n, a) /\ Write(h, n, q, w) = Put(h, n, b)
  BY <1>1, WriteIsPut
<1> HIDE DEF r
<1>3. [a EXCEPT ![q] = w] = [b EXCEPT ![f] = v]
  BY <1>1
<1> HIDE DEF a, b
<1>4. Write(Put(h, n, a), n, q, w) = Put(Put(h, n, a), n, [a EXCEPT ![q] = w])
  <2>1. IsFunction(Put(h, n, a)) /\ n \in DOMAIN Put(h, n, a) /\ Put(h, n, a)[n] = a
    BY PutProperties
  <2> QED
    BY <2>1, WriteIsPut
<1>5. Write(Put(h, n, b), n, f, v) = Put(Put(h, n, b), n, [b EXCEPT ![f] = v])
  <2>1. IsFunction(Put(h, n, b)) /\ n \in DOMAIN Put(h, n, b) /\ Put(h, n, b)[n] = b
    BY PutProperties
  <2> QED
    BY <2>1, WriteIsPut
<1> QED
  BY <1>2, <1>3, <1>4, <1>5, PutTwice

LEMMA WritesSwap2 ==
  ASSUME NEW h, IsStore(h), NEW n \in DOMAIN h, NEW m \in DOMAIN h, n # m, NEW f \in Fields, NEW q \in Fields, NEW v, NEW w
  PROVE  Write(Write(h, n, f, v), m, q, w) = Write(Write(h, m, q, w), n, f, v)
<1> DEFINE a == [h[n] EXCEPT ![f] = v]
           b == [h[m] EXCEPT ![q] = w]
<1>1. IsFunction(h)
  BY StoreIsFunction
<1>2. Write(h, n, f, v) = Put(h, n, a) /\ Write(h, m, q, w) = Put(h, m, b)
  BY <1>1, WriteIsPut
<1>3. Write(Put(h, n, a), m, q, w) = Put(Put(h, n, a), m, b)
  <2> HIDE DEF a
  <2>1. IsFunction(Put(h, n, a)) /\ m \in DOMAIN Put(h, n, a) /\ Put(h, n, a)[m] = h[m]
    BY PutProperties
  <2> QED
    BY <2>1, WriteIsPut
<1>4. Write(Put(h, m, b), n, f, v) = Put(Put(h, m, b), n, a)
  <2> HIDE DEF b
  <2>1. IsFunction(Put(h, m, b)) /\ n \in DOMAIN Put(h, m, b) /\ Put(h, m, b)[n] = h[n]
    BY PutProperties
  <2> QED
    BY <2>1, WriteIsPut
<1> HIDE DEF a, b
<1> QED
  BY <1>2, <1>3, <1>4, PutsSwap

(* What a forest says of its nodes' pointers.                              *)
LEMMA ForestPointers ==
  ASSUME NEW h, NEW sub, NEW comp, NEW pos, Forest(h, sub, comp, pos)
  PROVE  /\ IsStore(h) /\ NULL \notin DOMAIN h /\ DOMAIN h \subseteq Cells /\ NULL \in Cells
         /\ \A m \in DOMAIN h, s \in Sides :
              /\ h[m][s] \in DOMAIN h \cup {NULL}
              /\ h[m][Link(s)] \in comp[m] \cup {NULL} /\ comp[m] \subseteq DOMAIN h
              /\ h[m][Link(s)] # m
<1>1. IsStore(h) /\ NULL \notin DOMAIN h /\ DOMAIN h \subseteq Cells /\ NULL \in Cells
  BY NodesAssumption DEF Forest, IsHeap, IsStore, Cells
<1>2. ASSUME NEW m \in DOMAIN h, NEW s \in Sides PROVE h[m][s] \in DOMAIN h \cup {NULL}
  BY DEF Forest, BranchesRight
<1>3. ASSUME NEW m \in DOMAIN h, NEW s \in Sides
      PROVE h[m][Link(s)] \in comp[m] \cup {NULL} /\ comp[m] \subseteq DOMAIN h /\ h[m][Link(s)] # m
  <2>1. comp[m] \subseteq DOMAIN h /\ pos[m] \in Int
    BY DEF Forest, IsNested, IsPlaced
  <2>2. ~ Beyond(s, pos[m], pos[m])
    BY <2>1 DEF Beyond
  <2>3. h[m][Link(s)] # NULL => h[m][Link(s)] \in comp[m] /\ Beyond(s, pos[h[m][Link(s)]], pos[m])
    BY DEF Forest, LinksRight
  <2> QED
    BY <1>1, <2>1, <2>2, <2>3
<1> QED
  BY <1>1, <1>2, <1>3

LEMMA AttachJoins ==
  ASSUME NEW h, NEW sub, NEW comp, NEW pos, Forest(h, sub, comp, pos),
         NEW p \in DOMAIN h, NEW new \in DOMAIN h, new \notin comp[p],
         h[new]["next"] = NULL, h[new]["prev"] = NULL,
         NEW s, s = Side(h[new]["key"], h, p), h[p][s] = NULL
  PROVE  Joined(h, Attach(h, new, p), p, s, new, new, new)
<1> DEFINE D == DOMAIN h
           link == h[p][Link(s)]
           back == Link(Other(s))
           h0 == Write(h, p, s, new)
           h1 == Write(h0, new, "parent", p)
           h2 == Write(h1, new, back, p)
           h3 == Write(h2, new, Link(s), link)
           h4 == WriteIf(h3, link, back, new)
           g == Write(h4, p, Link(s), new)
<1>1. s \in Sides /\ (s = "left" \/ s = "right")
  BY DEF Side, Sides
<1>2. /\ IsStore(h) /\ NULL \notin D /\ D \subseteq Cells /\ NULL \in Cells
      /\ link \in comp[p] \cup {NULL} /\ comp[p] \subseteq D /\ link # p
  BY <1>1, ForestPointers
<1>3. link # new /\ p # new /\ link \in D \cup {NULL}
  <2>1. p \in comp[p]
    BY DEF Forest, IsNested
  <2> QED
    BY <1>2, <2>1
<1>4. /\ s \in Fields /\ "parent" \in Fields /\ Link(s) \in Fields /\ back \in Fields /\ "key" \in Fields /\ Sides \subseteq Fields
      /\ Link(s) # back /\ Link(s) \notin Sides /\ back \notin Sides /\ "parent" \notin Sides /\ "key" \notin Sides
      /\ "parent" # back /\ "parent" # Link(s) /\ "key" # back /\ "key" # Link(s) /\ "key" # "parent"
  BY <1>1 DEF Fields, Sides, Link, Other
<1>6. h[new][Link(s)] = NULL /\ h[new][back] = NULL
  BY <1>1 DEF Link, Other
<1>20. p \in D /\ new \in D /\ p \in Cells /\ new \in Cells /\ link \in Cells /\ NULL \notin D /\ link \in D \cup {NULL}
  BY <1>2, <1>3
<1> HIDE DEF link, back
<1>19. IsStore(h) /\ DOMAIN h = D
  BY <1>2
<1> HIDE DEF D
<1> HIDE DEF h0, h1, h2, h3, h4, g
<1>11. IsStore(h0) /\ DOMAIN h0 = D /\ \A m \in D, q \in Fields : h0[m][q] = IF m = p /\ q = s THEN new ELSE h[m][q]
  <2>1. IsStore(h) /\ DOMAIN h = D /\ p \in DOMAIN h /\ s \in Fields /\ new \in Cells
    BY <1>4, <1>20, <1>19
  <2>2. h0 = Write(h, p, s, new)
    BY DEF h0
  <2>3. IsWritten(Write(h, p, s, new), h, p, s, new)
    BY <2>1, WriteWrites
  <2> QED
    BY <2>1, <2>2, <2>3 DEF IsWritten
<1>12. IsStore(h1) /\ DOMAIN h1 = D /\ \A m \in D, q \in Fields : h1[m][q] = IF m = new /\ q = "parent" THEN p ELSE h0[m][q]
  <2>1. IsStore(h0) /\ DOMAIN h0 = D /\ new \in DOMAIN h0 /\ "parent" \in Fields /\ p \in Cells
    BY <1>4, <1>20, <1>11
  <2> QED
    BY <2>1, WriteProperties DEF h1
<1>13. IsStore(h2) /\ DOMAIN h2 = D /\ \A m \in D, q \in Fields : h2[m][q] = IF m = new /\ q = back THEN p ELSE h1[m][q]
  <2>1. IsStore(h1) /\ DOMAIN h1 = D /\ new \in DOMAIN h1 /\ back \in Fields /\ p \in Cells
    BY <1>4, <1>20, <1>12
  <2> QED
    BY <2>1, WriteProperties DEF h2
<1>14. IsStore(h3) /\ DOMAIN h3 = D /\ \A m \in D, q \in Fields : h3[m][q] = IF m = new /\ q = Link(s) THEN link ELSE h2[m][q]
  <2>1. IsStore(h2) /\ DOMAIN h2 = D /\ new \in DOMAIN h2 /\ Link(s) \in Fields /\ link \in Cells
    BY <1>4, <1>20, <1>13
  <2> QED
    BY <2>1, WriteProperties DEF h3
<1>15. IsStore(h4) /\ DOMAIN h4 = D /\ \A m \in D, q \in Fields : h4[m][q] = IF m = link /\ q = back THEN new ELSE h3[m][q]
  <2>1. IsStore(h3) /\ DOMAIN h3 = D /\ link \in DOMAIN h3 \cup {NULL} /\ NULL \notin DOMAIN h3 /\ back \in Fields /\ new \in Cells
    BY <1>4, <1>20, <1>14
  <2> QED
    BY <2>1, WriteIfProperties DEF h4
<1>16. IsStore(g) /\ DOMAIN g = D /\ \A m \in D, q \in Fields : g[m][q] = IF m = p /\ q = Link(s) THEN new ELSE h4[m][q]
  <2>1. IsStore(h4) /\ DOMAIN h4 = D /\ p \in DOMAIN h4 /\ Link(s) \in Fields /\ new \in Cells
    BY <1>4, <1>20, <1>15
  <2> QED
    BY <2>1, WriteProperties DEF g
<1>5. Attach(h, new, p) = g
  <2>1. h[new].key = h[new]["key"] /\ h[p].prev = h[p]["prev"] /\ h[p].next = h[p]["next"]
    OBVIOUS
  <2>2. CASE s = "left"
    <3>1. Link(s) = "prev" /\ back = "next" /\ link = h[p].prev
      BY <2>1, <2>2 DEF Link, Other, back, link
    <3> QED
      BY <2>1, <2>2, <3>1 DEF Attach, h0, h1, h2, h3, h4, g
  <2>3. CASE s = "right"
    <3>1. Link(s) = "next" /\ back = "prev" /\ link = h[p].next
      BY <2>1, <2>3 DEF Link, Other, back, link
    <3>2. Attach(h, new, p) = Write(WriteIf(Write(Write(h1, new, "next", link), new, "prev", p), link, "prev", new), p, "next", new)
      BY <2>1, <2>3, <3>1 DEF Attach, h0, h1
    <3>3. Write(Write(h1, new, "next", link), new, "prev", p) = h3
      BY <1>4, <1>12, <1>20, <3>1, WritesSwap DEF h2, h3
    <3> QED
      BY <3>1, <3>2, <3>3 DEF h4, g
  <2> QED
    BY <1>1, <2>2, <2>3
<1>21. \A m \in D : g[m]["key"] = h[m]["key"]
  BY <1>1, <1>4, <1>11, <1>12, <1>13, <1>14, <1>15, <1>16
<1>22. \A m \in D : g[m]["parent"] = IF m = new THEN p ELSE h[m]["parent"]
  BY <1>1, <1>4, <1>11, <1>12, <1>13, <1>14, <1>15, <1>16
<1>23. \A m \in D, q \in Sides : g[m][q] = IF m = p /\ q = s THEN new ELSE h[m][q]
  BY <1>1, <1>4, <1>11, <1>12, <1>13, <1>14, <1>15, <1>16
<1>24. \A m \in D : g[m][Link(s)] = IF m = p THEN new ELSE IF m = new THEN link ELSE h[m][Link(s)]
  BY <1>1, <1>4, <1>11, <1>12, <1>13, <1>14, <1>15, <1>16
<1>25. \A m \in D : g[m][back] = IF m = new THEN p ELSE IF m = link THEN new ELSE h[m][back]
  BY <1>1, <1>3, <1>4, <1>11, <1>12, <1>13, <1>14, <1>15, <1>16
<1> QED
  BY <1>5, <1>16, <1>21, <1>22, <1>23, <1>24, <1>25 DEF Joined, IsStore, Cells, D, back, link

(* A branch ends, on the side of its node, next to it.                     *)
LEMMA BranchNeighbour ==
  ASSUME NEW h, NEW sub, NEW comp, NEW pos, Forest(h, sub, comp, pos), NEW s \in Sides,
         NEW n \in DOMAIN h, NEW b, b = h[n][s], b # NULL, NEW near, IsEnd(sub[b], pos, Other(s), near)
  PROVE  h[near][Link(Other(s))] = n
<1> DEFINE D == DOMAIN h
           o == Other(s)
           l == h[near][Link(o)]
           By(x, y) == Beyond(s, pos[x], pos[y])
<1>1. /\ b \in D /\ n \in comp[n] /\ sub[b] \subseteq comp[n] /\ comp[n] \subseteq D
      /\ \A u \in sub[b] : comp[u] = comp[n]
      /\ \A x \in D : x \in sub[b] <=> x \in sub[n] /\ By(x, n)
      /\ \A x \in comp[n] \ sub[b], u \in sub[b] : By(x, n) => By(x, u)
  BY BranchPlace, ForestPointers
<1>2. near \in sub[b] /\ near \in D /\ comp[near] = comp[n]
  BY <1>1 DEF IsEnd
<1>3. /\ \A x, y \in D : x = y \/ By(x, y) \/ By(y, x)
      /\ \A x, y \in D : ~ (By(x, y) /\ By(y, x))
      /\ \A x, y \in D : Beyond(o, pos[x], pos[y]) <=> By(y, x)
  BY BeyondOrder DEF Forest, IsPlaced
<1>4. IF l = NULL THEN \A x \in comp[near] : ~ Beyond(o, pos[x], pos[near])
      ELSE /\ l \in comp[near] /\ Beyond(o, pos[l], pos[near])
           /\ \A x \in comp[near] : Beyond(o, pos[x], pos[near]) => x = l \/ Beyond(o, pos[x], pos[l])
  BY <1>2, SidesProperties DEF Forest, LinksRight
<1>5. \A x \in sub[b] : ~ Beyond(o, pos[x], pos[near])
  BY DEF IsEnd
<1> HIDE DEF o, l
<1>6. By(near, n)
  BY <1>1, <1>2
<1>7. l # NULL /\ l \in D /\ l \in comp[n] /\ By(near, l) /\ (n = l \/ By(l, n))
  BY <1>1, <1>2, <1>3, <1>4, <1>6
<1>8. l \notin sub[b]
  BY <1>2, <1>3, <1>5, <1>7
<1> QED
  BY <1>1, <1>2, <1>3, <1>7, <1>8 DEF l, o

LEMMA CutSevers ==
  ASSUME NEW h, NEW sub, NEW comp, NEW pos, Forest(h, sub, comp, pos), NEW s \in Sides,
         NEW n \in DOMAIN h, NEW b, b = h[n][s], b # NULL
  PROVE  \E near, far : /\ IsEnd(sub[b], pos, Other(s), near) /\ IsEnd(sub[b], pos, s, far)
                        /\ Severed(h, Cut(h, n, s), n, s, b, near, far)
<1> DEFINE D == DOMAIN h
           o == Other(s)
           near == Along(h, b, o)
           far == Along(h, b, s)
           link == h[far][Link(s)]
           h0 == Write(h, n, Link(s), link)
           h1 == WriteIf(h0, link, Link(o), n)
           h2 == Write(h1, near, Link(o), NULL)
           h3 == Write(h2, far, Link(s), NULL)
           h4 == Write(h3, b, "parent", NULL)
           g == Write(h4, n, s, NULL)
<1>1. o \in Sides /\ b \in D /\ (s = "left" \/ s = "right") /\ sub[b] \subseteq comp[n] /\ n \notin sub[b] /\ b \in sub[b]
      /\ h[b]["parent"] = n
  BY BranchPlace, SidesProperties DEF Sides
<1>2. IsEnd(sub[b], pos, o, near) /\ IsEnd(sub[b], pos, s, far)
  BY <1>1, BranchEnd DEF IsEnd
<1> HIDE DEF near, far
<1>3. h[near][Link(o)] = n
  BY <1>2, BranchNeighbour
<1>4. /\ IsStore(h) /\ NULL \notin D /\ D \subseteq Cells /\ NULL \in Cells /\ comp[n] \subseteq D
  BY ForestPointers
<1>5. near \in sub[b] /\ far \in sub[b] /\ near \in D /\ far \in D
  BY <1>1, <1>2, <1>4 DEF IsEnd
<1>6. link \in D \cup {NULL} /\ link # far
  BY <1>5, ForestPointers
<1>7. link # NULL => link \notin sub[b]
  <2>1. link # NULL => Beyond(s, pos[link], pos[far])
    BY <1>5 DEF Forest, LinksRight
  <2> QED
    BY <1>2, <2>1 DEF IsEnd
<1>8. /\ s \in Fields /\ "parent" \in Fields /\ Link(s) \in Fields /\ Link(o) \in Fields /\ "key" \in Fields /\ Sides \subseteq Fields
      /\ Link(s) # Link(o) /\ Link(s) \notin Sides /\ Link(o) \notin Sides /\ "parent" \notin Sides /\ "key" \notin Sides
      /\ "parent" # Link(o) /\ "parent" # Link(s) /\ "key" # Link(o) /\ "key" # Link(s) /\ "key" # "parent"
  BY <1>1 DEF Fields, Sides, Link, Other
<1>20. n \in D /\ n \in Cells /\ link \in Cells /\ NULL \in Cells /\ link \in D \cup {NULL} /\ NULL \notin D /\ IsStore(h) /\ DOMAIN h = D
       /\ b \in D /\ near \in D /\ far \in D
  BY <1>1, <1>4, <1>5, <1>6
<1> HIDE DEF link, D, o
<1> HIDE DEF h0, h1, h2, h3, h4, g
<1>10. IsStore(h0) /\ DOMAIN h0 = D /\ \A m \in D, q \in Fields : h0[m][q] = IF m = n /\ q = Link(s) THEN link ELSE h[m][q]
  <2>1. IsStore(h) /\ DOMAIN h = D /\ n \in DOMAIN h /\ Link(s) \in Fields /\ link \in Cells
    BY <1>8, <1>20
  <2> QED
    BY <2>1, WriteProperties DEF h0
<1>11. IsStore(h1) /\ DOMAIN h1 = D /\ \A m \in D, q \in Fields : h1[m][q] = IF m = link /\ q = Link(o) THEN n ELSE h0[m][q]
  <2>1. IsStore(h0) /\ DOMAIN h0 = D /\ link \in DOMAIN h0 \cup {NULL} /\ NULL \notin DOMAIN h0 /\ Link(o) \in Fields /\ n \in Cells
    BY <1>8, <1>20, <1>10
  <2> QED
    BY <2>1, WriteIfProperties DEF h1
<1>12. IsStore(h2) /\ DOMAIN h2 = D /\ \A m \in D, q \in Fields : h2[m][q] = IF m = near /\ q = Link(o) THEN NULL ELSE h1[m][q]
  <2>1. IsStore(h1) /\ DOMAIN h1 = D /\ near \in DOMAIN h1 /\ Link(o) \in Fields /\ NULL \in Cells
    BY <1>8, <1>20, <1>11
  <2> QED
    BY <2>1, WriteProperties DEF h2
<1>13. IsStore(h3) /\ DOMAIN h3 = D /\ \A m \in D, q \in Fields : h3[m][q] = IF m = far /\ q = Link(s) THEN NULL ELSE h2[m][q]
  <2>1. IsStore(h2) /\ DOMAIN h2 = D /\ far \in DOMAIN h2 /\ Link(s) \in Fields /\ NULL \in Cells
    BY <1>8, <1>20, <1>12
  <2> QED
    BY <2>1, WriteProperties DEF h3
<1>14. IsStore(h4) /\ DOMAIN h4 = D /\ \A m \in D, q \in Fields : h4[m][q] = IF m = b /\ q = "parent" THEN NULL ELSE h3[m][q]
  <2>1. IsStore(h3) /\ DOMAIN h3 = D /\ b \in DOMAIN h3 /\ "parent" \in Fields /\ NULL \in Cells
    BY <1>8, <1>20, <1>13
  <2> QED
    BY <2>1, WriteProperties DEF h4
<1>15. IsStore(g) /\ DOMAIN g = D /\ \A m \in D, q \in Fields : g[m][q] = IF m = n /\ q = s THEN NULL ELSE h4[m][q]
  <2>1. IsStore(h4) /\ DOMAIN h4 = D /\ n \in DOMAIN h4 /\ s \in Fields /\ NULL \in Cells
    BY <1>8, <1>20, <1>14
  <2> QED
    BY <2>1, WriteProperties DEF g
<1>16. Cut(h, n, s) = g
  <2>1. CASE s = "left"
    <3>1. Link(s) = "prev" /\ Link(o) = "next" /\ o = "right"
      BY <2>1 DEF Link, Other, o
    <3>2. Leftmost(h, b) = far /\ Rightmost(h, b) = near
      BY <2>1, <3>1 DEF Leftmost, Rightmost, near, far
    <3>3. h[far].prev = link /\ h[near].next = n
      BY <1>3, <3>1 DEF link
    <3>4. BreakLeft(h, b) = Write(Write(h1, near, "next", NULL), far, "prev", NULL)
      BY <3>1, <3>2, <3>3 DEF BreakLeft, h0, h1
    <3> QED
      BY <2>1, <3>1, <3>4 DEF Cut, h2, h3, h4, g
  <2>2. CASE s = "right"
    <3>1. Link(s) = "next" /\ Link(o) = "prev" /\ o = "left"
      BY <2>2 DEF Link, Other, o
    <3>2. Leftmost(h, b) = near /\ Rightmost(h, b) = far
      BY <2>2, <3>1 DEF Leftmost, Rightmost, near, far
    <3>3. h[far].next = link /\ h[near].prev = n
      BY <1>3, <3>1 DEF link
    <3>4. BreakRight(h, b) = Write(Write(h1, far, "next", NULL), near, "prev", NULL)
      BY <3>1, <3>2, <3>3 DEF BreakRight, h0, h1
    <3>5. Write(Write(h1, far, "next", NULL), near, "prev", NULL) = h3
      <4>1. CASE near = far
        BY <1>8, <1>11, <1>20, <3>1, <4>1, WritesSwap DEF h2, h3
      <4>2. CASE near # far
        BY <1>8, <1>11, <1>20, <3>1, <4>2, WritesSwap2 DEF h2, h3
      <4> QED
        BY <4>1, <4>2
    <3> QED
      BY <2>2, <3>1, <3>4, <3>5 DEF Cut, h4, g
  <2> QED
    BY <1>1, <2>1, <2>2
<1>21. \A m \in D : g[m]["key"] = h[m]["key"]
  BY <1>1, <1>8, <1>10, <1>11, <1>12, <1>13, <1>14, <1>15
<1>22. \A m \in D : g[m]["parent"] = IF m = b THEN NULL ELSE h[m]["parent"]
  BY <1>1, <1>8, <1>10, <1>11, <1>12, <1>13, <1>14, <1>15
<1>23. \A m \in D, q \in Sides : g[m][q] = IF m = n /\ q = s THEN NULL ELSE h[m][q]
  BY <1>1, <1>8, <1>10, <1>11, <1>12, <1>13, <1>14, <1>15
<1>24. \A m \in D : g[m][Link(s)] = IF m = n THEN link ELSE IF m = far THEN NULL ELSE h[m][Link(s)]
  BY <1>1, <1>5, <1>8, <1>10, <1>11, <1>12, <1>13, <1>14, <1>15
<1>25. \A m \in D : g[m][Link(o)] = IF m = near THEN NULL ELSE IF m = link THEN n ELSE h[m][Link(o)]
  BY <1>1, <1>5, <1>7, <1>8, <1>10, <1>11, <1>12, <1>13, <1>14, <1>15
<1>26. Severed(h, g, n, s, b, near, far)
  BY <1>15, <1>21, <1>22, <1>23, <1>24, <1>25 DEF Severed, IsStore, Cells, D, o, link
<1> QED
  BY <1>2, <1>16, <1>26 DEF o

LEMMA ConcatJoins ==
  ASSUME NEW h, NEW sub, NEW comp, NEW pos, Forest(h, sub, comp, pos), NEW n, NEW b \in DOMAIN h,
         NEW p \in DOMAIN h, p = Place(h, n, h[b]["key"]), NEW s, s = Side(h[b]["key"], h, p),
         h[p][s] = NULL, b \notin comp[p]
  PROVE  \E near, far : /\ IsEnd(comp[b], pos, Other(s), near) /\ IsEnd(comp[b], pos, s, far)
                        /\ Joined(h, Concat(h, n, b), p, s, b, near, far)
<1> DEFINE D == DOMAIN h
           o == Other(s)
           link == h[p][Link(s)]
           h0 == Write(h, p, s, b)
           h1 == Write(h0, b, "parent", p)
           near == Along(h1, b, Link(o))
           far == Along(h1, b, Link(s))
           h2 == Write(h1, link, Link(o), far)
           h3 == Write(h2, far, Link(s), link)
           h4 == IF link = NULL THEN h1 ELSE h3
           h5 == Write(h4, p, Link(s), near)
           g == Write(h5, near, Link(o), p)
<1>1. s \in Sides /\ (s = "left" \/ s = "right")
  BY DEF Side, Sides
<1>2. o \in Sides /\ comp \in [D -> SUBSET D] /\ (\A m \in D : m \in comp[m] /\ \A x \in comp[m] : comp[x] = comp[m])
  BY <1>1, SidesProperties DEF Forest, IsNested
<1>4. /\ IsStore(h) /\ NULL \notin D /\ D \subseteq Cells /\ NULL \in Cells
      /\ link \in comp[p] \cup {NULL} /\ link # p
  BY <1>1, ForestPointers
<1>8. /\ s \in Fields /\ "parent" \in Fields /\ Link(s) \in Fields /\ Link(o) \in Fields /\ "key" \in Fields /\ Sides \subseteq Fields
      /\ Link(s) # Link(o) /\ Link(s) \notin Sides /\ Link(o) \notin Sides /\ "parent" \notin Sides /\ "key" \notin Sides
      /\ "parent" # Link(o) /\ "parent" # Link(s) /\ "key" # Link(o) /\ "key" # Link(s) /\ "key" # "parent"
  BY <1>1 DEF Fields, Sides, Link, Other
<1>20. p \in D /\ b \in D /\ p \in Cells /\ b \in Cells /\ NULL \in Cells /\ NULL \notin D /\ IsStore(h) /\ DOMAIN h = D
  BY <1>4
<1> HIDE DEF h0, h1, h2, h3, h4, h5, g, near, far
<1>10. IsStore(h0) /\ DOMAIN h0 = D /\ \A m \in D, q \in Fields : h0[m][q] = IF m = p /\ q = s THEN b ELSE h[m][q]
  <2>1. IsStore(h) /\ DOMAIN h = D /\ p \in DOMAIN h /\ s \in Fields /\ b \in Cells
    BY <1>8, <1>20
  <2>2. h0 = Write(h, p, s, b)
    BY DEF h0
  <2>3. IsWritten(Write(h, p, s, b), h, p, s, b)
    BY <2>1, WriteWrites
  <2> QED
    BY <2>1, <2>2, <2>3 DEF IsWritten
<1>11. IsStore(h1) /\ DOMAIN h1 = D /\ \A m \in D, q \in Fields : h1[m][q] = IF m = b /\ q = "parent" THEN p ELSE h0[m][q]
  <2>1. IsStore(h0) /\ DOMAIN h0 = D /\ b \in DOMAIN h0 /\ "parent" \in Fields /\ p \in Cells
    BY <1>8, <1>20, <1>10
  <2>2. h1 = Write(h0, b, "parent", p)
    BY DEF h1
  <2>3. IsWritten(Write(h0, b, "parent", p), h0, b, "parent", p)
    BY <2>1, WriteWrites
  <2> QED
    BY <2>1, <2>2, <2>3 DEF IsWritten
<1>12. ASSUME NEW q \in Sides PROVE IsEnd(comp[b], pos, q, Along(h1, b, Link(q)))
  <2> DEFINE e == Along(h1, b, Link(q))
  <2>1. \A m \in D : h1[m][Link(q)] = h[m][Link(q)]
    <3>1. Link(q) \in Fields /\ Link(q) # s /\ Link(q) # "parent"
      BY <1>1 DEF Link, Fields
    <3> QED
      BY <1>10, <1>11, <3>1
  <2>2. PICK rank \in [D -> Nat] : \A m \in D : h[m][Link(q)] # NULL => h[m][Link(q)] \in D /\ rank[h[m][Link(q)]] < rank[m]
    BY LinkRank
  <2>3. comp[b] \in SUBSET DOMAIN h1 /\ b \in comp[b] /\ rank \in [DOMAIN h1 -> Nat]
    BY <1>2, <1>11
  <2>4. ASSUME NEW m \in comp[b] PROVE h[m][Link(q)] # NULL => h[m][Link(q)] \in comp[b]
    BY <1>2, ForestPointers
  <2>41. \A m \in DOMAIN h1 : h1[m][Link(q)] # NULL => h1[m][Link(q)] \in DOMAIN h1 /\ rank[h1[m][Link(q)]] < rank[m]
    BY <1>11, <2>1, <2>2
  <2>42. \A m \in comp[b] : h1[m][Link(q)] # NULL => h1[m][Link(q)] \in comp[b]
    BY <1>2, <2>1, <2>4
  <2>5. e \in comp[b] /\ h1[e][Link(q)] = NULL
    BY <2>3, <2>41, <2>42, AlongEnds
  <2> HIDE DEF e
  <2>6. e \in D /\ h[e][Link(q)] = NULL /\ comp[e] = comp[b]
    BY <1>2, <2>1, <2>5
  <2> QED
    BY <2>5, <2>6 DEF Forest, LinksRight, IsEnd, e
<1>13. IsEnd(comp[b], pos, o, near) /\ IsEnd(comp[b], pos, s, far)
  BY <1>1, <1>2, <1>12 DEF near, far
<1>14. /\ near \in comp[b] /\ far \in comp[b] /\ near \in D /\ far \in D /\ near \in Cells /\ far \in Cells
       /\ link \in D \cup {NULL} /\ link \in Cells /\ (link # NULL => link \in D)
  BY <1>2, <1>4, <1>13 DEF IsEnd
<1>15. near # p /\ far # p /\ near # link /\ far # link
  <2>1. \A m \in comp[b] : m \notin comp[p] /\ m # NULL
    BY <1>2, <1>4
  <2> QED
    BY <1>2, <1>4, <1>14, <2>1
<1>16. h[far][Link(s)] = NULL
  <2>1. far \in D /\ comp[far] = comp[b] /\ comp[b] \subseteq D
    BY <1>2, <1>14
  <2>2. h[far][Link(s)] # NULL => h[far][Link(s)] \in comp[far] /\ Beyond(s, pos[h[far][Link(s)]], pos[far])
    BY <1>1, <2>1 DEF Forest, LinksRight
  <2> QED
    BY <1>13, <2>1, <2>2 DEF IsEnd
<1> HIDE DEF link, D, o
<1>21. ASSUME link # NULL
       PROVE  IsStore(h2) /\ DOMAIN h2 = D /\ \A m \in D, q \in Fields : h2[m][q] = IF m = link /\ q = Link(o) THEN far ELSE h1[m][q]
  <2>1. IsStore(h1) /\ DOMAIN h1 = D /\ link \in DOMAIN h1 /\ Link(o) \in Fields /\ far \in Cells
    BY <1>8, <1>11, <1>14, <1>21
  <2> QED
    BY <2>1, WriteProperties DEF h2
<1>22. ASSUME link # NULL
       PROVE  IsStore(h3) /\ DOMAIN h3 = D /\ \A m \in D, q \in Fields : h3[m][q] = IF m = far /\ q = Link(s) THEN link ELSE h2[m][q]
  <2>1. IsStore(h2) /\ DOMAIN h2 = D /\ far \in DOMAIN h2 /\ Link(s) \in Fields /\ link \in Cells
    BY <1>8, <1>14, <1>21, <1>22
  <2> QED
    BY <2>1, WriteProperties DEF h3
<1>23. /\ IsStore(h4) /\ DOMAIN h4 = D
       /\ \A m \in D, q \in Fields : h4[m][q] = IF m = far /\ q = Link(s) /\ link # NULL THEN link
                                                ELSE IF m = link /\ q = Link(o) THEN far ELSE h1[m][q]
  <2>1. CASE link = NULL
    BY <1>11, <1>20, <2>1 DEF h4
  <2>2. CASE link # NULL
    BY <1>21, <1>22, <2>2 DEF h4
  <2> QED
    BY <2>1, <2>2
<1>24. IsStore(h5) /\ DOMAIN h5 = D /\ \A m \in D, q \in Fields : h5[m][q] = IF m = p /\ q = Link(s) THEN near ELSE h4[m][q]
  <2>1. IsStore(h4) /\ DOMAIN h4 = D /\ p \in DOMAIN h4 /\ Link(s) \in Fields /\ near \in Cells
    BY <1>8, <1>14, <1>20, <1>23
  <2> QED
    BY <2>1, WriteProperties DEF h5
<1>25. IsStore(g) /\ DOMAIN g = D /\ \A m \in D, q \in Fields : g[m][q] = IF m = near /\ q = Link(o) THEN p ELSE h5[m][q]
  <2>1. IsStore(h5) /\ DOMAIN h5 = D /\ near \in DOMAIN h5 /\ Link(o) \in Fields /\ p \in Cells
    BY <1>8, <1>14, <1>20, <1>24
  <2> QED
    BY <2>1, WriteProperties DEF g
<1>30. Concat(h, n, b) = g
  <2>0. h[b].key = h[b]["key"] /\ b # NULL /\ h[p].prev = h[p]["prev"] /\ h[p].next = h[p]["next"]
    BY <1>20
  <2>1. CASE s = "left"
    <3>1. Link(s) = "prev" /\ Link(o) = "next" /\ link = h[p].prev
      BY <2>0, <2>1 DEF Link, Other, o, link
    <3>2. GetFirst(h1, b) = far /\ GetLast(h1, b) = near
      BY <3>1 DEF GetFirst, GetLast, near, far
    <3>3. h4 = IF h[p].prev = NULL THEN h1 ELSE Write(Write(h1, h[p].prev, "next", far), far, "prev", h[p].prev)
      BY <3>1 DEF h4, h3, h2
    <3>4. g = Write(Write(h4, p, "prev", near), near, "next", p)
      BY <3>1 DEF g, h5
    <3>5. Concat(h, n, b) = LET ff == GetFirst(h1, b)
                                ll == GetLast(h1, b)
                                le == IF h[p].prev = NULL THEN h1 ELSE Write(Write(h1, h[p].prev, "next", ff), ff, "prev", h[p].prev)
                            IN  Write(Write(le, p, "prev", ll), ll, "next", p)
      BY <2>0, <2>1 DEF Concat, h0, h1
    <3> QED
      BY <3>2, <3>3, <3>4, <3>5
  <2>2. CASE s = "right"
    <3>1. Link(s) = "next" /\ Link(o) = "prev" /\ link = h[p].next
      BY <2>0, <2>2 DEF Link, Other, o, link
    <3>2. GetFirst(h1, b) = near /\ GetLast(h1, b) = far
      BY <3>1 DEF GetFirst, GetLast, near, far
    <3>3. h4 = IF h[p].next = NULL THEN h1 ELSE Write(Write(h1, h[p].next, "prev", far), far, "next", h[p].next)
      BY <3>1 DEF h4, h3, h2
    <3>4. g = Write(Write(h4, p, "next", near), near, "prev", p)
      BY <3>1 DEF g, h5
    <3>5. Concat(h, n, b) = LET ff == GetFirst(h1, b)
                                ll == GetLast(h1, b)
                                ri == IF h[p].next = NULL THEN h1 ELSE Write(Write(h1, h[p].next, "prev", ll), ll, "next", h[p].next)
                            IN  Write(Write(ri, p, "next", ff), ff, "prev", p)
      BY <2>0, <2>2 DEF Concat, h0, h1
    <3> QED
      BY <3>2, <3>3, <3>4, <3>5
  <2> QED
    BY <1>1, <2>1, <2>2
<1>31. \A m \in D : g[m]["key"] = h[m]["key"]
  BY <1>1, <1>8, <1>10, <1>11, <1>23, <1>24, <1>25
<1>32. \A m \in D : g[m]["parent"] = IF m = b THEN p ELSE h[m]["parent"]
  BY <1>1, <1>8, <1>10, <1>11, <1>23, <1>24, <1>25
<1>33. \A m \in D, q \in Sides : g[m][q] = IF m = p /\ q = s THEN b ELSE h[m][q]
  BY <1>1, <1>8, <1>10, <1>11, <1>23, <1>24, <1>25
<1>34. \A m \in D : g[m][Link(s)] = IF m = p THEN near ELSE IF m = far THEN link ELSE h[m][Link(s)]
  <2>1. Link(s) # s /\ h[far][Link(s)] = NULL
    BY <1>1, <1>8, <1>16
  <2> QED
    BY <1>8, <1>10, <1>11, <1>14, <1>15, <1>23, <1>24, <1>25, <2>1
<1>35. \A m \in D : g[m][Link(o)] = IF m = near THEN p ELSE IF m = link THEN far ELSE h[m][Link(o)]
  <2>1. Link(o) # s
    BY <1>1, <1>8
  <2> QED
    BY <1>8, <1>10, <1>11, <1>14, <1>15, <1>23, <1>24, <1>25, <2>1
<1>36. Joined(h, g, p, s, b, near, far)
  BY <1>25, <1>31, <1>32, <1>33, <1>34, <1>35 DEF Joined, IsStore, Cells, D, o, link
<1> QED
  BY <1>13, <1>30, <1>36 DEF o

-----------------------------------------------------------------------------
(* What the tree's operations make of a forest.                            *)
LEMMA ConcatForest ==
  ASSUME NEW h, NEW sub, NEW comp, NEW pos, Forest(h, sub, comp, pos), NEW n, NEW b \in DOMAIN h,
         NEW p \in DOMAIN h, p = Place(h, n, h[b]["key"]), NEW s, s = Side(h[b]["key"], h, p),
         Fits(h, sub, comp, pos, p, s, b)
  PROVE  /\ Forest(Concat(h, n, b), SubJoined(DOMAIN h, sub, p, b), CompJoined(DOMAIN h, comp, p, b), pos)
         /\ DOMAIN Concat(h, n, b) = DOMAIN h /\ \A m \in DOMAIN h : Concat(h, n, b)[m]["key"] = h[m]["key"]
<1>1. h[p][s] = NULL /\ sub[b] = comp[b] /\ b \notin comp[p]
  BY DEF Fits
<1>2. s \in Sides
  BY DEF Side, Sides
<1>3. PICK near, far : /\ IsEnd(sub[b], pos, Other(s), near) /\ IsEnd(sub[b], pos, s, far)
                       /\ Joined(h, Concat(h, n, b), p, s, b, near, far)
  BY <1>1, ConcatJoins
<1>4. Forest(Concat(h, n, b), SubJoined(DOMAIN h, sub, p, b), CompJoined(DOMAIN h, comp, p, b), pos)
  BY <1>2, <1>3, JoinForest
<1> QED
  BY <1>3, <1>4 DEF Joined

(* g is the forest h without U, a branch of n on its side s, or without    *)
(* nothing.                                                                *)
IsCut(h, sub, comp, pos, n, s, U, g, sub2, comp2) ==
  /\ Forest(g, sub2, comp2, pos) /\ DOMAIN g = DOMAIN h
  /\ \A m \in DOMAIN h :
       /\ g[m]["key"] = h[m]["key"]
       /\ \A q \in Sides : g[m][q] = IF m = n /\ q = s THEN NULL ELSE h[m][q]
       /\ sub2[m] = IF n \in sub[m] THEN sub[m] \ U ELSE sub[m]
       /\ comp2[m] = IF m \in U THEN U ELSE IF m \in comp[n] THEN comp[n] \ U ELSE comp[m]

LEMMA CutTree ==
  ASSUME NEW h, NEW sub, NEW comp, NEW pos, Forest(h, sub, comp, pos), NEW n \in DOMAIN h, NEW s \in Sides,
         NEW U, U = IF h[n][s] = NULL THEN {} ELSE sub[h[n][s]]
  PROVE  \E sub2, comp2 : IsCut(h, sub, comp, pos, n, s, U, Cut(h, n, s), sub2, comp2)
<1> DEFINE b == h[n][s]
           g == Cut(h, n, s)
<1>1. CASE b = NULL
  <2>1. g = h
    BY <1>1 DEF Cut
  <2>2. \A m \in DOMAIN h : m \in comp[n] => comp[m] = comp[n]
    BY DEF Forest, IsNested
  <2>3. U = {}
    BY <1>1
  <2>4. /\ \A m \in DOMAIN h : sub[m] = IF n \in sub[m] THEN sub[m] \ U ELSE sub[m]
        /\ \A m \in DOMAIN h : comp[m] = IF m \in U THEN U ELSE IF m \in comp[n] THEN comp[n] \ U ELSE comp[m]
        /\ \A m \in DOMAIN h, q \in Sides : h[m][q] = IF m = n /\ q = s THEN NULL ELSE h[m][q]
    BY <1>1, <2>2, <2>3
  <2>5. IsCut(h, sub, comp, pos, n, s, U, g, sub, comp)
    BY <2>1, <2>4 DEF IsCut
  <2> QED
    BY <2>5
<1>2. CASE b # NULL
  <2> DEFINE subA == SubCut(DOMAIN h, sub, n, b)
             compA == CompCut(DOMAIN h, sub, comp, n, b)
  <2>1. PICK near, far : /\ IsEnd(sub[b], pos, Other(s), near) /\ IsEnd(sub[b], pos, s, far)
                         /\ Severed(h, g, n, s, b, near, far)
    BY <1>2, CutSevers
  <2> HIDE DEF g
  <2>2. Forest(g, subA, compA, pos)
    <3> HIDE DEF subA, compA
    <3> QED
      BY <1>2, <2>1, CutForest DEF subA, compA
  <2>3. DOMAIN g = DOMAIN h /\ \A m \in DOMAIN h : /\ g[m]["key"] = h[m]["key"]
                                                   /\ \A q \in Sides : g[m][q] = IF m = n /\ q = s THEN NULL ELSE h[m][q]
    BY <2>1 DEF Severed
  <2>4. U = sub[b]
    BY <1>2
  <2> HIDE DEF b
  <2>5. \A m \in DOMAIN h : /\ subA[m] = IF n \in sub[m] THEN sub[m] \ U ELSE sub[m]
                            /\ compA[m] = IF m \in U THEN U ELSE IF m \in comp[n] THEN comp[n] \ U ELSE comp[m]
    BY <2>4 DEF SubCut, CompCut
  <2> HIDE DEF subA, compA
  <2>6. IsCut(h, sub, comp, pos, n, s, U, g, subA, compA)
    BY <2>2, <2>3, <2>5 DEF IsCut
  <2> QED
    BY <2>6 DEF g
<1> QED
  BY <1>1, <1>2

(* A function with one argument more, or less.                             *)
With(f, n, v) == [m \in DOMAIN f \cup {n} |-> IF m = n THEN v ELSE f[m]]
Less(f, n)    == [m \in DOMAIN f \ {n} |-> f[m]]

(* A new node is a tree of its own.                                        *)
LEMMA GrownForest ==
  ASSUME NEW h, NEW sub, NEW comp, NEW pos, Forest(h, sub, comp, pos), NEW k \in Int,
         NEW new \in Nodes, new \notin DOMAIN h,
         NEW g, DOMAIN g = DOMAIN h \cup {new}, g = [m \in DOMAIN g |-> g[m]],
         g[new] = Node(k), \A m \in DOMAIN h : g[m] = h[m],
         NEW sub2, DOMAIN sub2 = DOMAIN h \cup {new}, sub2 = [m \in DOMAIN sub2 |-> sub2[m]],
         sub2[new] = {new}, \A m \in DOMAIN h : sub2[m] = sub[m],
         NEW comp2, DOMAIN comp2 = DOMAIN h \cup {new}, comp2 = [m \in DOMAIN comp2 |-> comp2[m]],
         comp2[new] = {new}, \A m \in DOMAIN h : comp2[m] = comp[m],
         NEW pos2 \in [DOMAIN h \cup {new} -> Int],
         \A m, x \in DOMAIN h \cup {new} : pos2[m] = pos2[x] => m = x,
         \A m, x \in DOMAIN h : pos2[m] < pos2[x] <=> pos[m] < pos[x]
  PROVE  Forest(g, sub2, comp2, pos2)
<1> DEFINE D == DOMAIN h
           E == D \cup {new}
<1>1. /\ sub \in [D -> SUBSET D] /\ comp \in [D -> SUBSET D] /\ IsStore(h) /\ IsFiniteSet(D) /\ D \subseteq Nodes /\ new \notin D
      /\ \A m \in D : m \in sub[m] /\ sub[m] \subseteq comp[m]
      /\ \A m \in D : \A x \in comp[m] : comp[x] = comp[m]
      /\ \A m \in D : \A x \in sub[m] : sub[x] \subseteq sub[m]
      /\ \A m, q \in D : sub[m] \cap sub[q] # {} => m \in sub[q] \/ q \in sub[m]
      /\ \A m \in D : h[m]["key"] \in Int
  BY DEF Forest, IsHeap, IsNested, IsStore, Cells
<1>2. /\ DOMAIN g = E /\ DOMAIN sub2 = E /\ DOMAIN comp2 = E /\ new \in E /\ D \subseteq E /\ E \subseteq Nodes
      /\ \A m \in D : m # new /\ m \in E /\ g[m] = h[m] /\ sub2[m] = sub[m] /\ comp2[m] = comp[m]
      /\ g[new] = Node(k) /\ sub2[new] = {new} /\ comp2[new] = {new}
      /\ \A m \in E : m = new \/ m \in D
  BY <1>1
<1>3. /\ pos2 \in [E -> Int] /\ \A m, x \in D : pos2[m] < pos2[x] <=> pos[m] < pos[x]
      /\ \A m, x \in E : pos2[m] = pos2[x] => m = x
  OBVIOUS
<1>4. NULL \notin E
  BY <1>2, NodesAssumption
<1>5. Node(k) \in [Fields -> Cells] /\ Node(k)["key"] = k /\ Node(k)["parent"] = NULL /\ k \in Int
      /\ \A s \in Sides : Node(k)[s] = NULL /\ Node(k)[Link(s)] = NULL
  BY DEF Node, Fields, Cells, Sides, Link
<1>6. IsFiniteSet(E)
  BY <1>1, FS_AddElement
<1>7. g = [m \in E |-> g[m]] /\ sub2 = [m \in E |-> sub2[m]] /\ comp2 = [m \in E |-> comp2[m]]
  OBVIOUS
<1> HIDE DEF D, E
<1>10. IsHeap(g)
  <2>1. \A m \in E : g[m] \in [Fields -> Cells] /\ g[m]["key"] \in Int
    BY <1>1, <1>2, <1>5 DEF IsStore, D
  <2> QED
    BY <1>2, <1>6, <1>7, <2>1 DEF IsHeap, Cells
<1>11. IsPlaced(g, pos2)
  BY <1>2, <1>3 DEF IsPlaced
<1>12. IsNested(E, sub2, comp2)
  <2>1. \A m \in E : sub2[m] \in SUBSET E /\ comp2[m] \in SUBSET E
    BY <1>1, <1>2
  <2>2. sub2 \in [E -> SUBSET E] /\ comp2 \in [E -> SUBSET E]
    BY <1>7, <2>1
  <2>3. \A m \in E : m \in sub2[m] /\ sub2[m] \subseteq comp2[m]
    BY <1>1, <1>2
  <2>4. \A m \in E : \A x \in comp2[m] : comp2[x] = comp2[m]
    BY <1>1, <1>2
  <2>5. \A m \in E : \A x \in sub2[m] : sub2[x] \subseteq sub2[m]
    BY <1>1, <1>2
  <2>6. ASSUME NEW m \in E, NEW q \in E, NEW z, z \in sub2[m], z \in sub2[q] PROVE m \in sub2[q] \/ q \in sub2[m]
    BY <1>1, <1>2, <2>6
  <2> QED
    BY <2>2, <2>3, <2>4, <2>5, <2>6 DEF IsNested
<1>13. ParentsRight(g, sub2, comp2)
  <2>1. ASSUME NEW m \in D
        PROVE IF sub[m] = comp[m] THEN h[m]["parent"] = NULL
              ELSE /\ h[m]["parent"] \in D /\ \E s \in Sides : h[h[m]["parent"]][s] = m
                   /\ \A x \in D : m \in sub[x] /\ x # m => h[m]["parent"] \in sub[x]
    BY DEF Forest, ParentsRight, D
  <2>2. ASSUME NEW m \in E
        PROVE IF sub2[m] = comp2[m] THEN g[m]["parent"] = NULL
              ELSE /\ g[m]["parent"] \in E /\ \E s \in Sides : g[g[m]["parent"]][s] = m
                   /\ \A x \in E : m \in sub2[x] /\ x # m => g[m]["parent"] \in sub2[x]
    <3>1. CASE m = new
      BY <1>2, <1>5, <3>1
    <3>2. CASE m \in D
      BY <1>1, <1>2, <2>1, <3>2
    <3> QED
      BY <1>2, <3>1, <3>2
  <2> QED
    BY <1>2, <2>2 DEF ParentsRight
<1>14. ASSUME NEW s \in Sides PROVE BranchesRight(g, sub2, pos2, s)
  <2>0. \A m, x \in D : Beyond(s, pos2[x], pos2[m]) <=> Beyond(s, pos[x], pos[m])
    BY <1>3 DEF Beyond
  <2>1. ASSUME NEW m \in D
        PROVE IF h[m][s] = NULL THEN \A x \in sub[m] : ~ Beyond(s, pos[x], pos[m])
              ELSE /\ h[m][s] \in D /\ h[h[m][s]]["parent"] = m
                   /\ \A x \in D : x \in sub[h[m][s]] <=> x \in sub[m] /\ Beyond(s, pos[x], pos[m])
    BY DEF Forest, BranchesRight, D
  <2>2. ASSUME NEW m \in E
        PROVE IF g[m][s] = NULL THEN \A x \in sub2[m] : ~ Beyond(s, pos2[x], pos2[m])
              ELSE /\ g[m][s] \in E /\ g[g[m][s]]["parent"] = m
                   /\ \A x \in E : x \in sub2[g[m][s]] <=> x \in sub2[m] /\ Beyond(s, pos2[x], pos2[m])
    <3>1. CASE m = new
      BY <1>2, <1>3, <1>5, <3>1 DEF Beyond
    <3>2. CASE m \in D
      <4>1. \A x \in sub[m] : x \in D
        BY <1>1, <3>2
      <4>2. CASE h[m][s] = NULL
        BY <1>2, <2>0, <2>1, <3>2, <4>1, <4>2
      <4>3. CASE h[m][s] # NULL
        <5>1. h[m][s] \in D /\ \A x \in sub[h[m][s]] : x \in D
          BY <1>1, <2>1, <3>2, <4>3
        <5>2. g[m][s] = h[m][s] /\ sub2[h[m][s]] = sub[h[m][s]] /\ sub2[m] = sub[m] /\ g[h[m][s]] = h[h[m][s]]
          BY <1>2, <3>2, <5>1
        <5>3. \A x \in E : x \in sub[h[m][s]] <=> x \in sub[m] /\ Beyond(s, pos2[x], pos2[m])
          BY <1>2, <2>0, <2>1, <3>2, <4>1, <4>3, <5>1
        <5> QED
          BY <1>2, <2>1, <3>2, <4>3, <5>1, <5>2, <5>3
      <4> QED
        BY <4>2, <4>3
    <3> QED
      BY <1>2, <3>1, <3>2
  <2> QED
    BY <1>2, <2>2 DEF BranchesRight
<1>15. ASSUME NEW s \in Sides PROVE LinksRight(g, comp2, pos2, s)
  <2>0. \A m, x \in D : Beyond(s, pos2[x], pos2[m]) <=> Beyond(s, pos[x], pos[m])
    BY <1>3 DEF Beyond
  <2>1. ASSUME NEW m \in D
        PROVE IF h[m][Link(s)] = NULL THEN \A x \in comp[m] : ~ Beyond(s, pos[x], pos[m])
              ELSE /\ h[m][Link(s)] \in comp[m] /\ Beyond(s, pos[h[m][Link(s)]], pos[m])
                   /\ \A x \in comp[m] : Beyond(s, pos[x], pos[m]) => x = h[m][Link(s)] \/ Beyond(s, pos[x], pos[h[m][Link(s)]])
    BY DEF Forest, LinksRight, D
  <2>2. ASSUME NEW m \in E
        PROVE IF g[m][Link(s)] = NULL THEN \A x \in comp2[m] : ~ Beyond(s, pos2[x], pos2[m])
              ELSE /\ g[m][Link(s)] \in comp2[m] /\ Beyond(s, pos2[g[m][Link(s)]], pos2[m])
                   /\ \A x \in comp2[m] : Beyond(s, pos2[x], pos2[m]) => x = g[m][Link(s)] \/ Beyond(s, pos2[x], pos2[g[m][Link(s)]])
    <3>1. CASE m = new
      BY <1>2, <1>3, <1>5, <3>1 DEF Beyond
    <3>2. CASE m \in D
      <4>1. (\A x \in comp[m] : x \in D) /\ g[m] = h[m] /\ comp2[m] = comp[m]
        BY <1>1, <1>2, <3>2
      <4> QED
        BY <2>0, <2>1, <3>2, <4>1
    <3> QED
      BY <1>2, <3>1, <3>2
  <2> QED
    BY <1>2, <2>2 DEF LinksRight
<1>16. KeysRight(g, sub2, comp2, pos2)
  <2>1. \A m \in D : /\ \A x \in sub[m] : pos[x] < pos[m] => h[x]["key"] < h[m]["key"]
                     /\ \A x \in comp[m] : pos[x] < pos[m] => h[x]["key"] <= h[m]["key"]
    BY DEF Forest, KeysRight, D
  <2>2. ~ (pos2[new] < pos2[new])
    BY <1>2, <1>3
  <2>3. \A m \in D : \A x \in sub[m] : x \in D
    BY <1>1
  <2>4. \A m \in D : \A x \in comp[m] : x \in D
    BY <1>1
  <2>5. g[new]["key"] \in Int
    BY <1>2, <1>5
  <2>6. ASSUME NEW m \in E
        PROVE /\ \A x \in sub2[m] : pos2[x] < pos2[m] => g[x]["key"] < g[m]["key"]
              /\ \A x \in comp2[m] : pos2[x] < pos2[m] => g[x]["key"] <= g[m]["key"]
    <3>1. CASE m = new
      BY <1>2, <2>2, <3>1
    <3>2. CASE m \in D
      <4>1. /\ \A x \in sub[m] : x \in D
            /\ \A x \in comp[m] : x \in D
            /\ sub2[m] = sub[m] /\ comp2[m] = comp[m] /\ g[m] = h[m]
        BY <1>2, <2>3, <2>4, <3>2
      <4> QED
        BY <1>2, <1>3, <2>1, <3>2, <4>1
    <3> QED
      BY <1>2, <3>1, <3>2
  <2> QED
    BY <1>2, <2>6 DEF KeysRight
<1>17. NoGaps(E, sub2, comp2, pos2)
  <2>1. \A m \in D : \A x, z \in sub[m], y \in comp[m] : pos[x] < pos[y] /\ pos[y] < pos[z] => y \in sub[m]
    BY DEF Forest, NoGaps, D
  <2>3. \A m \in D : \A x \in sub[m] : x \in D
    BY <1>1
  <2>4. \A m \in D : \A x \in comp[m] : x \in D
    BY <1>1
  <2>5. ASSUME NEW m \in E, NEW x \in sub2[m], NEW z \in sub2[m], NEW y \in comp2[m], pos2[x] < pos2[y], pos2[y] < pos2[z]
        PROVE y \in sub2[m]
    <3>1. CASE m = new
      BY <1>2, <2>5, <3>1
    <3>2. CASE m \in D
      <4>1. x \in sub[m] /\ z \in sub[m] /\ y \in comp[m] /\ x \in D /\ y \in D /\ z \in D /\ sub2[m] = sub[m]
        BY <1>2, <2>3, <2>4, <3>2
      <4>2. pos[x] < pos[y] /\ pos[y] < pos[z]
        BY <1>3, <2>5, <4>1
      <4> QED
        BY <2>1, <3>2, <4>1, <4>2
    <3> QED
      BY <1>2, <3>1, <3>2
  <2> QED
    BY <2>5 DEF NoGaps
<1> QED
  BY <1>2, <1>10, <1>11, <1>12, <1>13, <1>14, <1>15, <1>16, <1>17 DEF Forest

LEMMA AddForest ==
  ASSUME NEW h, NEW sub, NEW comp, NEW pos, Forest(h, sub, comp, pos), NEW k \in Int,
         NEW new \in Nodes, new \notin DOMAIN h, NEW pos2 \in [DOMAIN h \cup {new} -> Int],
         \A m, x \in DOMAIN h \cup {new} : pos2[m] = pos2[x] => m = x,
         \A m, x \in DOMAIN h : pos2[m] < pos2[x] <=> pos[m] < pos[x]
  PROVE  Forest(With(h, new, Node(k)), With(sub, new, {new}), With(comp, new, {new}), pos2)
<1> DEFINE g == With(h, new, Node(k))
           s2 == With(sub, new, {new})
           c2 == With(comp, new, {new})
<1>1. /\ g = [m \in DOMAIN h \cup {new} |-> IF m = new THEN Node(k) ELSE h[m]]
      /\ s2 = [m \in DOMAIN h \cup {new} |-> IF m = new THEN {new} ELSE sub[m]]
      /\ c2 = [m \in DOMAIN h \cup {new} |-> IF m = new THEN {new} ELSE comp[m]]
  BY DEF With, Forest, IsNested
<1>3. /\ DOMAIN g = DOMAIN h \cup {new} /\ g = [m \in DOMAIN g |-> g[m]] /\ g[new] = Node(k) /\ \A m \in DOMAIN h : g[m] = h[m]
      /\ DOMAIN s2 = DOMAIN h \cup {new} /\ s2 = [m \in DOMAIN s2 |-> s2[m]] /\ s2[new] = {new} /\ \A m \in DOMAIN h : s2[m] = sub[m]
      /\ DOMAIN c2 = DOMAIN h \cup {new} /\ c2 = [m \in DOMAIN c2 |-> c2[m]] /\ c2[new] = {new} /\ \A m \in DOMAIN h : c2[m] = comp[m]
  <2> HIDE DEF g, s2, c2
  <2> QED
    BY <1>1
<1> HIDE DEF g, s2, c2
<1>2. Forest(g, s2, c2, pos2)
  BY <1>3, GrownForest
<1> QED
  BY <1>2 DEF g, s2, c2

(* A tree of one node goes.                                                *)
LEMMA ShrunkForest ==
  ASSUME NEW h, NEW sub, NEW comp, NEW pos, Forest(h, sub, comp, pos),
         NEW n \in DOMAIN h, comp[n] = {n},
         NEW g, g = [m \in DOMAIN h \ {n} |-> h[m]],
         NEW sub2, sub2 = [m \in DOMAIN h \ {n} |-> sub[m]],
         NEW comp2, comp2 = [m \in DOMAIN h \ {n} |-> comp[m]],
         NEW pos2 \in [DOMAIN h \ {n} -> Int],
         \A m, x \in DOMAIN h \ {n} : pos2[m] < pos2[x] <=> pos[m] < pos[x]
  PROVE  Forest(g, sub2, comp2, pos2)
<1> DEFINE D == DOMAIN h
           E == D \ {n}
<1>1. /\ sub \in [D -> SUBSET D] /\ comp \in [D -> SUBSET D] /\ IsStore(h) /\ IsFiniteSet(D) /\ D \subseteq Nodes /\ n \in D
      /\ \A m \in D : m \in sub[m] /\ sub[m] \subseteq comp[m]
      /\ \A m \in D : \A x \in comp[m] : comp[x] = comp[m]
      /\ \A m \in D : \A x \in sub[m] : sub[x] \subseteq sub[m]
      /\ \A m, q \in D : sub[m] \cap sub[q] # {} => m \in sub[q] \/ q \in sub[m]
      /\ \A m \in D : h[m]["key"] \in Int
      /\ pos \in [D -> Int] /\ \A m, x \in D : pos[m] = pos[x] => m = x
  BY DEF Forest, IsHeap, IsNested, IsStore, Cells, IsPlaced
<1>2. /\ DOMAIN g = E /\ DOMAIN sub2 = E /\ DOMAIN comp2 = E /\ n \notin E /\ E \subseteq D
      /\ \A m \in E : m # n /\ m \in D /\ g[m] = h[m] /\ sub2[m] = sub[m] /\ comp2[m] = comp[m]
      /\ \A m \in D : m = n \/ m \in E
  OBVIOUS
<1>3. pos2 \in [E -> Int] /\ \A m, x \in E : pos2[m] < pos2[x] <=> pos[m] < pos[x]
  OBVIOUS
<1>6. IsFiniteSet(E)
  BY <1>1, <1>2, FS_Subset
<1>7. g = [m \in E |-> g[m]] /\ sub2 = [m \in E |-> sub2[m]] /\ comp2 = [m \in E |-> comp2[m]]
  OBVIOUS
<1> HIDE DEF D, E
<1>8. \A m \in E : n \notin comp[m] /\ comp[m] \subseteq E /\ sub[m] \subseteq E
  <2> TAKE m \in E
  <2>1. n \in comp[m] => comp[m] = {n}
    BY <1>1, <1>2
  <2>2. m \in comp[m] /\ m # n /\ comp[m] \subseteq D /\ sub[m] \subseteq comp[m]
    BY <1>1, <1>2
  <2>3. n \notin comp[m]
    BY <2>1, <2>2
  <2> QED
    BY <1>2, <2>2, <2>3
<1>10. IsHeap(g)
  <2>1. \A m \in E : g[m] \in [Fields -> Cells] /\ g[m]["key"] \in Int
    BY <1>1, <1>2 DEF IsStore, D
  <2>2. E \subseteq Nodes
    BY <1>1, <1>2
  <2> QED
    BY <1>2, <1>6, <1>7, <2>1, <2>2 DEF IsHeap, Cells
<1>11. IsPlaced(g, pos2)
  <2>1. ASSUME NEW m \in E, NEW x \in E, pos2[m] = pos2[x] PROVE m = x
    <3>1. ~ (pos2[m] < pos2[x]) /\ ~ (pos2[x] < pos2[m])
      BY <1>3, <2>1
    <3>2. ~ (pos[m] < pos[x]) /\ ~ (pos[x] < pos[m]) /\ pos[m] \in Int /\ pos[x] \in Int
      BY <1>1, <1>2, <1>3, <3>1
    <3>3. pos[m] = pos[x] /\ m \in D /\ x \in D
      BY <1>2, <3>2
    <3> QED
      BY <1>1, <3>3
  <2> QED
    BY <1>2, <1>3, <2>1 DEF IsPlaced
<1>12. IsNested(E, sub2, comp2)
  <2>1. \A m \in E : sub2[m] \in SUBSET E /\ comp2[m] \in SUBSET E
    BY <1>2, <1>8
  <2>2. sub2 \in [E -> SUBSET E] /\ comp2 \in [E -> SUBSET E]
    BY <1>7, <2>1
  <2>3. \A m \in E : m \in sub2[m] /\ sub2[m] \subseteq comp2[m]
    BY <1>1, <1>2
  <2>4. \A m \in E : \A x \in comp2[m] : comp2[x] = comp2[m]
    BY <1>1, <1>2, <1>8
  <2>5. \A m \in E : \A x \in sub2[m] : sub2[x] \subseteq sub2[m]
    BY <1>1, <1>2, <1>8
  <2>6. ASSUME NEW m \in E, NEW q \in E, NEW z, z \in sub2[m], z \in sub2[q] PROVE m \in sub2[q] \/ q \in sub2[m]
    BY <1>1, <1>2, <2>6
  <2> QED
    BY <2>2, <2>3, <2>4, <2>5, <2>6 DEF IsNested
<1>13. ParentsRight(g, sub2, comp2)
  <2>1. ASSUME NEW m \in D
        PROVE IF sub[m] = comp[m] THEN h[m]["parent"] = NULL
              ELSE /\ h[m]["parent"] \in D /\ \E s \in Sides : h[h[m]["parent"]][s] = m
                   /\ \A x \in D : m \in sub[x] /\ x # m => h[m]["parent"] \in sub[x]
    BY DEF Forest, ParentsRight, D
  <2>2. ASSUME NEW m \in E
        PROVE IF sub2[m] = comp2[m] THEN g[m]["parent"] = NULL
              ELSE /\ g[m]["parent"] \in E /\ \E s \in Sides : g[g[m]["parent"]][s] = m
                   /\ \A x \in E : m \in sub2[x] /\ x # m => g[m]["parent"] \in sub2[x]
    <3> DEFINE p == h[m]["parent"]
    <3>1. CASE sub[m] = comp[m]
      BY <1>2, <2>1, <3>1
    <3>2. CASE sub[m] # comp[m]
      <4>1. p \in D /\ \A x \in D : m \in sub[x] /\ x # m => p \in sub[x]
        BY <1>2, <2>1, <3>2
      <4>2. PICK s \in Sides : h[p][s] = m
        BY <1>2, <2>1, <3>2
      <4>3. \A x \in D : x \in sub[m] => x \in sub[p]
        <5>1. m # NULL /\ m \in D
          BY <1>1, <1>2, NodesAssumption
        <5> QED
          BY <4>1, <4>2, <5>1 DEF Forest, BranchesRight, D
      <4>4. m \in comp[p] /\ comp[m] = comp[p] /\ p \in comp[p]
        BY <1>1, <1>2, <4>1, <4>3
      <4>5. p # n
        BY <1>8, <4>4
      <4> HIDE DEF p
      <4>6. p \in E /\ g[m]["parent"] = p /\ g[p][s] = m
        BY <1>2, <4>1, <4>2, <4>5 DEF p
      <4> QED
        BY <1>2, <3>2, <4>1, <4>6
    <3> QED
      BY <3>1, <3>2
  <2> QED
    BY <1>2, <2>2 DEF ParentsRight
<1>14. ASSUME NEW s \in Sides PROVE BranchesRight(g, sub2, pos2, s)
  <2>0. \A m, x \in E : Beyond(s, pos2[x], pos2[m]) <=> Beyond(s, pos[x], pos[m])
    BY <1>3 DEF Beyond
  <2>1. ASSUME NEW m \in D
        PROVE IF h[m][s] = NULL THEN \A x \in sub[m] : ~ Beyond(s, pos[x], pos[m])
              ELSE /\ h[m][s] \in D /\ h[h[m][s]]["parent"] = m
                   /\ \A x \in D : x \in sub[h[m][s]] <=> x \in sub[m] /\ Beyond(s, pos[x], pos[m])
    BY DEF Forest, BranchesRight, D
  <2>2. ASSUME NEW m \in E
        PROVE IF g[m][s] = NULL THEN \A x \in sub2[m] : ~ Beyond(s, pos2[x], pos2[m])
              ELSE /\ g[m][s] \in E /\ g[g[m][s]]["parent"] = m
                   /\ \A x \in E : x \in sub2[g[m][s]] <=> x \in sub2[m] /\ Beyond(s, pos2[x], pos2[m])
    <3>1. CASE h[m][s] = NULL
      BY <1>2, <1>8, <2>0, <2>1, <3>1
    <3>2. CASE h[m][s] # NULL
      <4>1. h[m][s] \in D /\ h[m][s] \in sub[h[m][s]]
        BY <1>1, <1>2, <2>1, <3>2
      <4>2. h[m][s] \in E
        BY <1>2, <1>8, <2>1, <3>2, <4>1
      <4> QED
        BY <1>2, <2>0, <2>1, <3>2, <4>2
    <3> QED
      BY <3>1, <3>2
  <2> QED
    BY <1>2, <2>2 DEF BranchesRight
<1>15. ASSUME NEW s \in Sides PROVE LinksRight(g, comp2, pos2, s)
  <2>0. \A m, x \in E : Beyond(s, pos2[x], pos2[m]) <=> Beyond(s, pos[x], pos[m])
    BY <1>3 DEF Beyond
  <2>1. ASSUME NEW m \in D
        PROVE IF h[m][Link(s)] = NULL THEN \A x \in comp[m] : ~ Beyond(s, pos[x], pos[m])
              ELSE /\ h[m][Link(s)] \in comp[m] /\ Beyond(s, pos[h[m][Link(s)]], pos[m])
                   /\ \A x \in comp[m] : Beyond(s, pos[x], pos[m]) => x = h[m][Link(s)] \/ Beyond(s, pos[x], pos[h[m][Link(s)]])
    BY DEF Forest, LinksRight, D
  <2>2. ASSUME NEW m \in E
        PROVE IF g[m][Link(s)] = NULL THEN \A x \in comp2[m] : ~ Beyond(s, pos2[x], pos2[m])
              ELSE /\ g[m][Link(s)] \in comp2[m] /\ Beyond(s, pos2[g[m][Link(s)]], pos2[m])
                   /\ \A x \in comp2[m] : Beyond(s, pos2[x], pos2[m]) => x = g[m][Link(s)] \/ Beyond(s, pos2[x], pos2[g[m][Link(s)]])
    <3>1. (\A x \in comp[m] : x \in E) /\ g[m] = h[m] /\ comp2[m] = comp[m] /\ m \in D
      BY <1>2, <1>8
    <3> QED
      BY <2>0, <2>1, <3>1
  <2> QED
    BY <1>2, <2>2 DEF LinksRight
<1>16. KeysRight(g, sub2, comp2, pos2)
  <2>1. \A m \in D : /\ \A x \in sub[m] : pos[x] < pos[m] => h[x]["key"] < h[m]["key"]
                     /\ \A x \in comp[m] : pos[x] < pos[m] => h[x]["key"] <= h[m]["key"]
    BY DEF Forest, KeysRight, D
  <2>3. \A m \in E : (\A x \in sub[m] : x \in E) /\ (\A x \in comp[m] : x \in E)
    BY <1>8
  <2> QED
    BY <1>2, <1>3, <2>1, <2>3 DEF KeysRight
<1>17. NoGaps(E, sub2, comp2, pos2)
  <2>1. \A m \in D : \A x, z \in sub[m], y \in comp[m] : pos[x] < pos[y] /\ pos[y] < pos[z] => y \in sub[m]
    BY DEF Forest, NoGaps, D
  <2> SUFFICES ASSUME NEW m \in E, NEW x \in sub2[m], NEW z \in sub2[m], NEW y \in comp2[m],
                      pos2[x] < pos2[y], pos2[y] < pos2[z]
               PROVE  y \in sub2[m]
    BY Zenon DEF NoGaps
  <2>5. y \in sub2[m]
    <3>1. x \in sub[m] /\ z \in sub[m] /\ y \in comp[m] /\ x \in E /\ y \in E /\ z \in E /\ sub2[m] = sub[m] /\ m \in D
      BY <1>2, <1>8
    <3>2. pos[x] < pos[y] /\ pos[y] < pos[z]
      BY <1>3, <3>1
    <3> QED
      BY <2>1, <3>1, <3>2
  <2> QED
    BY <2>5
<1> QED
  BY <1>2, <1>10, <1>11, <1>12, <1>13, <1>14, <1>15, <1>16, <1>17 DEF Forest

LEMMA DropForest ==
  ASSUME NEW h, NEW sub, NEW comp, NEW pos, Forest(h, sub, comp, pos),
         NEW n \in DOMAIN h, comp[n] = {n}, NEW pos2 \in [DOMAIN h \ {n} -> Int],
         \A m, x \in DOMAIN h \ {n} : pos2[m] < pos2[x] <=> pos[m] < pos[x]
  PROVE  Forest(Less(h, n), Less(sub, n), Less(comp, n), pos2)
<1> DEFINE g == Less(h, n)
           s2 == Less(sub, n)
           c2 == Less(comp, n)
<1>1. /\ g = [m \in DOMAIN h \ {n} |-> h[m]]
      /\ s2 = [m \in DOMAIN h \ {n} |-> sub[m]]
      /\ c2 = [m \in DOMAIN h \ {n} |-> comp[m]]
  BY DEF Less, Forest, IsNested
<1> HIDE DEF g, s2, c2
<1>2. Forest(g, s2, c2, pos2)
  BY <1>1, ShrunkForest
<1> QED
  BY <1>2 DEF g, s2, c2

-----------------------------------------------------------------------------
(* The invariant.  All nodes are one tree; pos counts them from the left.  *)
IsTree(h, sub, comp, pos, r, f, c) ==
  /\ Forest(h, sub, comp, pos)
  /\ c \in Nat /\ pos \in [DOMAIN h -> 1..c] /\ \A i \in 1..c : \E m \in DOMAIN h : pos[m] = i
  /\ IF c = 0 THEN r = NULL /\ f = NULL
     ELSE r \in DOMAIN h /\ sub[r] = DOMAIN h /\ f \in DOMAIN h /\ pos[f] = 1

KeepsPlace(D, pos) ==
  IF current = NULL THEN ahead = {}
  ELSE /\ current \in D /\ passed \subseteq D /\ ahead \subseteq D
       /\ \A n \in passed : pos[n] < pos[current]
       /\ \A n \in ahead : pos[current] < pos[n]

TreeInv == \E sub, comp, pos : IsTree(heap, sub, comp, pos, root, firstNode, count) /\ KeepsPlace(DOMAIN heap, pos)

(* The order of some nodes is the same with pos as with pos2.              *)
SameOrder(D, pos, pos2) == \A m, x \in D : pos2[m] < pos2[x] <=> pos[m] < pos[x]

LEMMA TreeProperties ==
  ASSUME NEW h, NEW sub, NEW comp, NEW pos, NEW r, NEW f, NEW c, IsTree(h, sub, comp, pos, r, f, c)
  PROVE  /\ \A m \in DOMAIN h : comp[m] = DOMAIN h /\ pos[m] \in Int
         /\ c = 0 <=> DOMAIN h = {}
         /\ c = 0 <=> r = NULL
         /\ c = 0 <=> f = NULL
         /\ NULL \notin DOMAIN h
<1> DEFINE D == DOMAIN h
<1>1. /\ sub \in [D -> SUBSET D] /\ comp \in [D -> SUBSET D]
      /\ \A m \in D : m \in sub[m] /\ sub[m] \subseteq comp[m]
      /\ \A m \in D : \A x \in comp[m] : comp[x] = comp[m]
      /\ pos \in [D -> Int] /\ NULL \notin D
  BY ForestPointers DEF IsTree, Forest, IsNested, IsPlaced
<1>2. c = 0 <=> D = {}
  <2>1. CASE c = 0
    BY <2>1 DEF IsTree
  <2>2. CASE c # 0
    BY <2>2 DEF IsTree
  <2> QED
    BY <2>1, <2>2
<1>3. c # 0 => r \in D /\ f \in D /\ comp[r] = D
  BY <1>1 DEF IsTree
<1>4. \A m \in D : comp[m] = D
  BY <1>1, <1>2, <1>3
<1> QED
  BY <1>1, <1>2, <1>3, <1>4 DEF IsTree

(* g is h with a new node, in the order behind the keys that are not       *)
(* greater than its own; or without node n.                                *)
IsInserted(h, pos, c, k, new, g, pos2) ==
  /\ DOMAIN g = DOMAIN h \cup {new} /\ g[new]["key"] = k /\ pos2[new] \in 1..(c + 1)
  /\ \A m \in DOMAIN h : /\ g[m]["key"] = h[m]["key"]
                         /\ pos2[m] = IF pos[m] >= pos2[new] THEN pos[m] + 1 ELSE pos[m]
                         /\ k < h[m]["key"] <=> pos2[new] < pos2[m]

IsErased(h, pos, n, g, pos2) ==
  /\ DOMAIN g = DOMAIN h \ {n}
  /\ \A m \in DOMAIN h \ {n} : /\ g[m]["key"] = h[m]["key"]
                               /\ pos2[m] = IF pos[m] > pos[n] THEN pos[m] - 1 ELSE pos[m]

LEMMA InsertTree ==
  ASSUME NEW h, NEW sub, NEW comp, NEW pos, NEW r, NEW f, NEW c, IsTree(h, sub, comp, pos, r, f, c),
         NEW k \in Int, NEW new \in Nodes, new \notin DOMAIN h,
         NEW h1, h1 = With(h, new, Node(k)),
         NEW g, g = IF c = 0 THEN h1 ELSE Attach(h1, new, Place(h, r, k)),
         NEW f2, f2 = IF c = 0 THEN new ELSE IF g[f]["left"] # NULL THEN g[f]["left"] ELSE f
  PROVE  \E sub2, comp2, pos2 : /\ IsTree(g, sub2, comp2, pos2, IF c = 0 THEN new ELSE r, f2, c + 1)
                                /\ SameOrder(DOMAIN h, pos, pos2) /\ IsInserted(h, pos, c, k, new, g, pos2)
<1> DEFINE D == DOMAIN h
           E == D \cup {new}
           sub1 == With(sub, new, {new})
           comp1 == With(comp, new, {new})
<1>1. /\ Forest(h, sub, comp, pos) /\ c \in Nat /\ pos \in [D -> 1..c] /\ \A i \in 1..c : \E m \in D : pos[m] = i
      /\ \A m, x \in D : pos[m] = pos[x] => m = x
      /\ \A m \in D : h[m]["key"] \in Int
  BY DEF IsTree, Forest, IsPlaced, IsHeap
<1>2. DOMAIN h1 = E /\ (\A m \in D : h1[m] = h[m]) /\ h1[new] = Node(k) /\ new \in E /\ new # NULL
      /\ DOMAIN sub = D /\ DOMAIN comp = D
  BY NodesAssumption DEF With, IsTree, Forest, IsNested
<1>3. CASE c = 0
  <2> DEFINE pos2 == [m \in E |-> 1]
  <2>1. D = {} /\ E = {new}
    BY <1>3, TreeProperties
  <2>2. Forest(h1, sub1, comp1, pos2)
    <3>1. pos2 \in [E -> Int] /\ (\A m, x \in E : pos2[m] = pos2[x] => m = x) /\ \A m, x \in D : pos2[m] < pos2[x] <=> pos[m] < pos[x]
      BY <2>1
    <3> HIDE DEF pos2, sub1, comp1
    <3> QED
      BY <1>1, <3>1, AddForest DEF sub1, comp1
  <2>3. sub1[new] = E /\ pos2[new] = 1 /\ pos2 \in [E -> 1..1] /\ \A i \in 1..1 : \E m \in E : pos2[m] = i
    BY <2>1, <1>2 DEF With
  <2>4. c + 1 = 1 /\ g = h1 /\ f2 = new
    BY <1>3
  <2> HIDE DEF sub1, comp1, pos2, E, D
  <2>5. IsTree(g, sub1, comp1, pos2, new, new, 1)
    BY <1>2, <2>2, <2>3, <2>4 DEF IsTree
  <2>6. SameOrder(D, pos, pos2)
    BY <2>1 DEF SameOrder
  <2>7. IsInserted(h, pos, c, k, new, g, pos2)
    <3>1. DOMAIN g = {new} /\ g[new]["key"] = k /\ pos2[new] = 1 /\ DOMAIN h = {} /\ c + 1 = 1
      BY <1>2, <1>3, <2>1, <2>3, <2>4 DEF Node, D
    <3> QED
      BY <3>1 DEF IsInserted
  <2> QED
    BY <1>3, <2>4, <2>5, <2>6, <2>7 DEF D
<1>4. CASE c # 0
  <2> DEFINE p == Place(h, r, k)
             s == Side(k, h, p)
             i == IF s = "left" THEN pos[p] ELSE pos[p] + 1
             pos2 == [m \in E |-> IF m = new THEN i ELSE IF pos[m] >= i THEN pos[m] + 1 ELSE pos[m]]
             sub2 == SubJoined(E, sub1, p, new)
             comp2 == CompJoined(E, comp1, p, new)
  <2>1. r \in D /\ sub[r] = D /\ f \in D /\ pos[f] = 1 /\ \A m \in D : comp[m] = D
    <3>1. \A m \in D : comp[m] = D
      BY TreeProperties
    <3> QED
      BY <1>4, <3>1 DEF IsTree
  <2>2. /\ p \in D /\ h[p][s] = NULL /\ s \in Sides
        /\ \A x \in D : k < h[x]["key"] <=> pos[p] < pos[x] \/ (x = p /\ s = "left")
    <3> HIDE DEF p
    <3>1. p = Place(h, r, k) /\ r \in DOMAIN h
      BY <2>1 DEF p
    <3>2. /\ p \in sub[r] /\ h[p][Side(k, h, p)] = NULL /\ Side(k, h, p) \in Sides
          /\ \A x \in sub[r] : k < h[x]["key"] <=> pos[p] < pos[x] \/ (x = p /\ Side(k, h, p) = "left")
      BY <1>1, <3>1, PlaceFits
    <3> QED
      BY <2>1, <3>2
  <2> HIDE DEF p, s
  <2>3. i \in 1..(c + 1) /\ pos[p] \in 1..c
    BY <1>1, <2>2
  <2>4. \A x \in D : pos[p] < pos[x] \/ (x = p /\ s = "left") <=> pos[x] >= i
    BY <1>1, <2>2, <2>3 DEF Sides
  <2> HIDE DEF i
  <2>5. /\ pos2 \in [E -> 1..(c + 1)] /\ pos2[new] = i
        /\ \A m \in D : pos2[m] = IF pos[m] >= i THEN pos[m] + 1 ELSE pos[m]
    BY <1>1, <1>2, <2>3
  <2> HIDE DEF pos2
  <2>6. \A m, x \in D : pos2[m] < pos2[x] <=> pos[m] < pos[x]
    BY <1>1, <2>3, <2>5
  <2>7. \A m \in D : pos2[m] # i /\ (pos2[m] > i <=> pos[m] >= i)
    BY <1>1, <2>3, <2>5
  <2>8. \A m, x \in E : pos2[m] = pos2[x] => m = x
    BY <1>1, <2>3, <2>5, <2>7
  <2>9. pos2 \in [E -> Int]
    BY <2>3, <2>5
  <2>10. Forest(h1, sub1, comp1, pos2)
    <3>1. pos2 \in [D \cup {new} -> Int] /\ \A m, x \in D \cup {new} : pos2[m] = pos2[x] => m = x
      BY <2>8, <2>9
    <3>2. \A m, x \in DOMAIN h : pos2[m] < pos2[x] <=> pos[m] < pos[x]
      BY <2>6
    <3> HIDE DEF E
    <3> QED
      BY <1>1, <3>1, <3>2, AddForest
  <2>11. /\ p \in E /\ p # new /\ sub1[p] = sub[p] /\ comp1[p] = D /\ sub1[new] = {new} /\ comp1[new] = {new}
         /\ DOMAIN sub1 = E /\ \A m \in D : sub1[m] = sub[m] /\ comp1[m] = D
    BY <1>2, <2>1, <2>2 DEF With
  <2>12. h1[new]["key"] = k /\ h1[new]["next"] = NULL /\ h1[new]["prev"] = NULL /\ s = Side(k, h1, p) /\ h1[p][s] = NULL
    BY <1>2, <2>2 DEF Node, Side, s
  <2> HIDE DEF sub1, comp1, E, D
  <2>13. Joined(h1, g, p, s, new, new, new)
    <3>1. Joined(h1, Attach(h1, new, p), p, s, new, new, new)
      <4>1. new \notin comp1[p]
        BY <2>11 DEF D
      <4> QED
        BY <1>2, <2>10, <2>11, <2>12, <4>1, AttachJoins
    <3> QED
      BY <1>4, <3>1 DEF p
  <2>14. Fits(h1, sub1, comp1, pos2, p, s, new)
    <3>1. Beyond(s, pos2[new], pos2[p])
      BY <1>1, <2>2, <2>3, <2>4, <2>5, <2>7 DEF Beyond, Sides, i
    <3>2. ASSUME NEW x \in D, Beyond(s, pos2[x], pos2[p]) PROVE Beyond(s, pos2[x], pos2[new])
      <4>1. pos2[x] \in Int /\ pos2[p] \in Int /\ pos2[new] = i /\ i \in Int /\ pos2[x] # i /\ pos[x] \in Int /\ pos[p] \in Int
        BY <1>1, <2>2, <2>3, <2>5, <2>7
      <4>2. CASE s = "left"
        BY <2>2, <2>5, <3>2, <4>1, <4>2 DEF Beyond, i
      <4>3. CASE s = "right"
        BY <2>2, <2>5, <3>2, <4>1, <4>3 DEF Beyond, i
      <4> QED
        BY <2>2, <4>2, <4>3 DEF Sides
    <3>3. ASSUME NEW x \in D
          PROVE /\ pos2[new] < pos2[x] => k < h1[x]["key"]
                /\ pos2[x] < pos2[new] => h1[x]["key"] <= k
      <4>1. k < h[x]["key"] <=> pos2[x] > i
        BY <2>2, <2>4, <2>7
      <4>2. pos2[x] \in Int /\ pos2[new] = i /\ i \in Int /\ h[x]["key"] \in Int /\ h1[x] = h[x]
        BY <1>1, <1>2, <2>3, <2>5 DEF D
      <4> QED
        BY <4>1, <4>2
    <3>4. \A m \in E : p \in sub1[m] => m \in D
      BY <2>11 DEF E
    <3>41. pos2[new] \in Int
      BY <2>3, <2>5
    <3>5. \A x \in D : pos2[new] < pos2[x] => k <= h1[x]["key"]
      <4> TAKE x \in D
      <4>1. h1[x]["key"] \in Int
        BY <1>1, <1>2 DEF D
      <4> QED
        BY <3>3, <4>1
    <3>6. ASSUME NEW u \in sub1[new], NEW x \in comp1[p]
          PROVE  /\ Beyond(s, pos2[x], pos2[p]) => Beyond(s, pos2[x], pos2[u])
                 /\ pos2[u] < pos2[x] => h1[u]["key"] <= h1[x]["key"]
                 /\ pos2[x] < pos2[u] => h1[x]["key"] <= h1[u]["key"]
      BY <2>11, <2>12, <3>2, <3>3, <3>5
    <3>7. ASSUME NEW u \in sub1[new], NEW m \in E, p \in sub1[m], pos2[u] < pos2[m] PROVE h1[u]["key"] < h1[m]["key"]
      BY <2>11, <2>12, <3>3, <3>4, <3>7
    <3>8. new \notin comp1[p]
      BY <2>11 DEF D
    <3>9. \A u \in sub1[new] : Beyond(s, pos2[u], pos2[p])
      BY <2>11, <3>1
    <3> QED
      BY <1>2, <2>11, <2>12, <3>6, <3>7, <3>8, <3>9 DEF Fits
  <2>15. \A q \in Sides : IsEnd(sub1[new], pos2, q, new)
    BY <2>3, <2>5, <2>11 DEF IsEnd, Beyond
  <2>16. Forest(g, sub2, comp2, pos2)
    <3>1. p \in DOMAIN h1 /\ new \in DOMAIN h1 /\ Other(s) \in Sides
      BY <1>2, <2>2, <2>11, SidesProperties
    <3> QED
      BY <1>2, <2>2, <2>10, <2>13, <2>14, <2>15, <3>1, JoinForest
  <2>17. DOMAIN g = E
    BY <1>2, <2>13 DEF Joined
  <2>18. r \in E /\ sub2[r] = E
    BY <2>1, <2>2, <2>11 DEF SubJoined, E
  <2>19. \A j \in 1..(c + 1) : \E m \in E : pos2[m] = j
    <3> TAKE j \in 1..(c + 1)
    <3>1. CASE j = i
      BY <1>2, <2>5, <3>1
    <3>2. CASE j < i
      <4>1. j \in 1..c
        BY <2>3, <3>2, <1>1
      <4>2. PICK m \in D : pos[m] = j
        BY <1>1, <4>1
      <4> QED
        BY <2>3, <2>5, <3>2, <4>1, <4>2 DEF E
    <3>3. CASE j > i
      <4>1. j - 1 \in 1..c
        BY <2>3, <3>3, <1>1
      <4>2. PICK m \in D : pos[m] = j - 1
        BY <1>1, <4>1
      <4> QED
        BY <2>3, <2>5, <3>3, <4>1, <4>2 DEF E
    <3> QED
      BY <2>3, <3>1, <3>2, <3>3
  <2>20. f2 \in E /\ pos2[f2] = 1
    <3>1. \A m \in E : pos2[m] \in 1..(c + 1)
      BY <2>5
    <3>2. CASE i = 1
      <4>1. p = f /\ s = "left"
        <5>1. s # "left" => i >= 2
          BY <2>3 DEF i
        <5>2. s = "left" /\ pos[p] = 1
          BY <3>2, <5>1 DEF i
        <5> QED
          BY <1>1, <2>1, <2>2, <5>2 DEF D
      <4>2. g[f]["left"] = new
        BY <1>2, <2>2, <2>11, <2>13, <4>1 DEF Joined
      <4> QED
        BY <1>2, <1>4, <2>5, <3>2, <4>2
    <3>3. CASE i # 1
      <4>1. pos2[f] = 1 /\ f \in E
        BY <2>1, <2>3, <2>5, <3>3 DEF E
      <4>2. g[f]["left"] = NULL
        <5>1. SUFFICES ASSUME g[f]["left"] # NULL PROVE FALSE
          OBVIOUS
        <5> DEFINE l == g[f]["left"]
        <5>2. l \in E /\ \A x \in E : x \in sub2[l] <=> x \in sub2[f] /\ Beyond("left", pos2[x], pos2[f])
          BY <2>16, <2>17, <4>1, <5>1 DEF Forest, BranchesRight, Sides
        <5> HIDE DEF l
        <5>3. l \in sub2[l]
          BY <2>16, <2>17, <5>2 DEF Forest, IsNested
        <5>4. pos2[l] < 1
          BY <4>1, <5>2, <5>3 DEF Beyond
        <5> QED
          BY <1>1, <3>1, <5>2, <5>4
      <4> QED
        BY <1>4, <4>1, <4>2
    <3> QED
      BY <3>2, <3>3
  <2>21. IsTree(g, sub2, comp2, pos2, r, f2, c + 1)
    <3>1. c + 1 \in Nat /\ c + 1 # 0
      BY <1>1
    <3> HIDE DEF sub2, comp2
    <3> QED
      BY <2>5, <2>16, <2>17, <2>18, <2>19, <2>20, <3>1 DEF IsTree
  <2>22. SameOrder(D, pos, pos2)
    BY <2>6 DEF SameOrder
  <2>23. IsInserted(h, pos, c, k, new, g, pos2)
    <3>1. DOMAIN g = DOMAIN h \cup {new} /\ g[new]["key"] = k /\ pos2[new] \in 1..(c + 1)
      BY <1>2, <2>3, <2>5, <2>12, <2>13, <2>17 DEF Joined, E, D
    <3>2. \A m \in DOMAIN h : g[m]["key"] = h[m]["key"]
      BY <1>2, <2>13 DEF Joined, E, D
    <3>3. \A m \in DOMAIN h : pos2[m] = IF pos[m] >= pos2[new] THEN pos[m] + 1 ELSE pos[m]
      BY <2>5 DEF D
    <3>4. \A m \in DOMAIN h : k < h[m]["key"] <=> pos2[new] < pos2[m]
      <4> TAKE m \in DOMAIN h
      <4>1. k < h[m]["key"] <=> pos2[m] > i
        BY <2>2, <2>4, <2>7 DEF D
      <4>2. pos2[m] \in Int /\ pos2[new] = i /\ i \in Int
        BY <2>3, <2>5 DEF D, E
      <4> QED
        BY <4>1, <4>2
    <3> QED
      BY <3>1, <3>2, <3>3, <3>4 DEF IsInserted
  <2> HIDE DEF sub2, comp2
  <2> QED
    BY <1>4, <2>21, <2>22, <2>23 DEF D
<1> QED
  BY <1>3, <1>4

-----------------------------------------------------------------------------
(* Erasing a node.                                                         *)
Branch(h, sub, n, s) == IF h[n][s] = NULL THEN {} ELSE sub[h[n][s]]

LEMMA BranchesSplit ==
  ASSUME NEW h, NEW sub, NEW comp, NEW pos, Forest(h, sub, comp, pos), NEW n \in DOMAIN h,
         NEW L, L = Branch(h, sub, n, "left"), NEW R, R = Branch(h, sub, n, "right")
  PROVE  /\ \A x \in DOMAIN h : (x \in L <=> x \in sub[n] /\ pos[x] < pos[n]) /\ (x \in R <=> x \in sub[n] /\ pos[n] < pos[x])
         /\ sub[n] = {n} \cup L \cup R /\ L \cap R = {} /\ n \notin L /\ n \notin R /\ sub[n] \subseteq DOMAIN h
<1> DEFINE D == DOMAIN h
<1>1. /\ sub \in [D -> SUBSET D] /\ (\A m \in D : m \in sub[m])
      /\ pos \in [D -> Int] /\ \A m, x \in D : pos[m] = pos[x] => m = x
  BY DEF Forest, IsNested, IsPlaced
<1>2. ASSUME NEW s \in Sides, NEW U, U = Branch(h, sub, n, s)
      PROVE U \subseteq D /\ \A x \in D : x \in U <=> x \in sub[n] /\ Beyond(s, pos[x], pos[n])
  <2>1. CASE h[n][s] = NULL
    <3>1. \A x \in sub[n] : ~ Beyond(s, pos[x], pos[n])
      BY <2>1 DEF Forest, BranchesRight
    <3> QED
      BY <1>2, <2>1, <3>1 DEF Branch
  <2>2. CASE h[n][s] # NULL
    <3> DEFINE b == h[n][s]
    <3>1. b \in D /\ \A x \in D : x \in sub[b] <=> x \in sub[n] /\ Beyond(s, pos[x], pos[n])
      BY <2>2 DEF Forest, BranchesRight
    <3>2. U = sub[b]
      BY <1>2, <2>2 DEF Branch
    <3> QED
      BY <1>1, <3>1, <3>2
  <2> QED
    BY <2>1, <2>2
<1>3. L \subseteq D /\ \A x \in D : x \in L <=> x \in sub[n] /\ pos[x] < pos[n]
  BY <1>2 DEF Sides, Beyond
<1>4. R \subseteq D /\ \A x \in D : x \in R <=> x \in sub[n] /\ pos[n] < pos[x]
  BY <1>2 DEF Sides, Beyond
<1>5. \A x \in D : pos[x] \in Int /\ (x # n => pos[x] # pos[n])
  BY <1>1
<1>6. sub[n] \subseteq D /\ n \in sub[n]
  BY <1>1
<1>7. n \notin L /\ n \notin R /\ L \cap R = {}
  BY <1>3, <1>4, <1>5
<1>8. ASSUME NEW x \in D PROVE x \in sub[n] <=> x \in {n} \cup L \cup R
  BY <1>3, <1>4, <1>5, <1>6
<1>9. sub[n] = {n} \cup L \cup R
  BY <1>3, <1>4, <1>6, <1>8
<1> QED
  BY <1>3, <1>4, <1>6, <1>7, <1>9

(* g is the tree h after node n, with its branch V, was taken out of it;   *)
(* its other branch U has come to its place.                               *)
IsOut(h, sub, pos, n, U, V, g, sub2, comp2) ==
  /\ Forest(g, sub2, comp2, pos) /\ DOMAIN g = DOMAIN h
  /\ \A m \in DOMAIN h :
       /\ g[m]["key"] = h[m]["key"]
       /\ sub2[m] = IF m = n THEN {n} ELSE IF n \in sub[m] THEN (sub[m] \ sub[n]) \cup U ELSE sub[m]
       /\ comp2[m] = IF m = n THEN {n} ELSE IF m \in V THEN V ELSE (DOMAIN h \ sub[n]) \cup U

(* The same before any branch is put back.                                 *)
IsApart(h, sub, pos, n, L, R, g, sub2, comp2) ==
  /\ Forest(g, sub2, comp2, pos) /\ DOMAIN g = DOMAIN h
  /\ \A m \in DOMAIN h :
       /\ g[m]["key"] = h[m]["key"]
       /\ sub2[m] = IF m = n THEN {n} ELSE IF n \in sub[m] THEN sub[m] \ sub[n] ELSE sub[m]
       /\ comp2[m] = IF m = n THEN {n} ELSE IF m \in L THEN L ELSE IF m \in R THEN R ELSE DOMAIN h \ sub[n]

(* g is the tree h without the branches L and R of node n.                 *)
IsPruned(h, sub, pos, n, L, R, g, sub2, comp2) ==
  /\ Forest(g, sub2, comp2, pos) /\ DOMAIN g = DOMAIN h
  /\ \A m \in DOMAIN h :
       /\ g[m]["key"] = h[m]["key"]
       /\ m # n => \A q \in Sides : g[m][q] = h[m][q]
       /\ sub2[m] = IF m = n THEN {n} ELSE IF n \in sub[m] THEN sub[m] \ (L \cup R) ELSE sub[m]
       /\ comp2[m] = IF m \in L THEN L ELSE IF m \in R THEN R ELSE DOMAIN h \ (L \cup R)

LEMMA BranchesCut ==
  ASSUME NEW h, NEW sub, NEW comp, NEW pos, Forest(h, sub, comp, pos), \A m \in DOMAIN h : comp[m] = DOMAIN h,
         NEW n \in DOMAIN h, NEW L, L = Branch(h, sub, n, "left"), NEW R, R = Branch(h, sub, n, "right"),
         NEW g, g = Cut(Cut(h, n, "left"), n, "right")
  PROVE  \E sub2, comp2 : IsPruned(h, sub, pos, n, L, R, g, sub2, comp2)
<1> DEFINE D == DOMAIN h
           g1 == Cut(h, n, "left")
<1>1. /\ sub[n] = {n} \cup L \cup R /\ L \cap R = {} /\ n \notin L /\ n \notin R /\ sub[n] \subseteq D
      /\ \A m \in D : comp[m] = D
  BY BranchesSplit
<1>2. "left" \in Sides /\ "right" \in Sides /\ "left" # "right"
  BY DEF Sides
<1>3. L = IF h[n]["left"] = NULL THEN {} ELSE sub[h[n]["left"]]
  BY DEF Branch
<1>4. PICK subA, compA : IsCut(h, sub, comp, pos, n, "left", L, g1, subA, compA)
  BY <1>2, <1>3, CutTree
<1> HIDE DEF g1
<1>5. Forest(g1, subA, compA, pos) /\ DOMAIN g1 = D
  BY <1>4 DEF IsCut
<1>51. \A m \in D : /\ g1[m]["key"] = h[m]["key"]
                    /\ \A q \in Sides : g1[m][q] = IF m = n /\ q = "left" THEN NULL ELSE h[m][q]
  BY <1>4 DEF IsCut
<1>52. \A m \in D : subA[m] = IF n \in sub[m] THEN sub[m] \ L ELSE sub[m]
  BY <1>4 DEF IsCut
<1>53. \A m \in D : compA[m] = IF m \in L THEN L ELSE D \ L
  <2>1. \A m \in D : compA[m] = IF m \in L THEN L ELSE IF m \in comp[n] THEN comp[n] \ L ELSE comp[m]
    BY <1>4 DEF IsCut
  <2>2. comp[n] = D
    OBVIOUS
  <2> QED
    BY <2>1, <2>2
<1>6. R = IF g1[n]["right"] = NULL THEN {} ELSE subA[g1[n]["right"]]
  <2>1. g1[n]["right"] = h[n]["right"]
    BY <1>2, <1>51
  <2>2. CASE h[n]["right"] = NULL
    BY <2>1, <2>2 DEF Branch
  <2>3. CASE h[n]["right"] # NULL
    <3>1. h[n]["right"] \in D /\ R = sub[h[n]["right"]]
      BY <1>2, <2>3, ForestPointers DEF Branch
    <3>2. subA[h[n]["right"]] = R
      BY <1>1, <1>52, <3>1
    <3> QED
      BY <2>1, <2>3, <3>2
  <2> QED
    BY <2>2, <2>3
<1>7. PICK subB, compB : IsCut(g1, subA, compA, pos, n, "right", R, g, subB, compB)
  <2>1. n \in DOMAIN g1 /\ g = Cut(g1, n, "right")
    BY <1>5 DEF g1
  <2> QED
    BY <1>2, <1>5, <1>6, <2>1, CutTree
<1>8. Forest(g, subB, compB, pos) /\ DOMAIN g = D
  BY <1>5, <1>7 DEF IsCut
<1>81. \A m \in D : /\ g[m]["key"] = g1[m]["key"]
                    /\ \A q \in Sides : g[m][q] = IF m = n /\ q = "right" THEN NULL ELSE g1[m][q]
  BY <1>5, <1>7 DEF IsCut
<1>82. \A m \in D : subB[m] = IF n \in subA[m] THEN subA[m] \ R ELSE subA[m]
  BY <1>5, <1>7 DEF IsCut
<1>83. \A m \in D : compB[m] = IF m \in R THEN R ELSE IF m \in compA[n] THEN compA[n] \ R ELSE compA[m]
  BY <1>5, <1>7 DEF IsCut
<1>9. ASSUME NEW m \in D
      PROVE  /\ g[m]["key"] = h[m]["key"] /\ (m # n => \A q \in Sides : g[m][q] = h[m][q])
             /\ subB[m] = IF m = n THEN {n} ELSE IF n \in sub[m] THEN sub[m] \ (L \cup R) ELSE sub[m]
             /\ compB[m] = IF m \in L THEN L ELSE IF m \in R THEN R ELSE D \ (L \cup R)
  <2>1. g[m]["key"] = h[m]["key"] /\ (m # n => \A q \in Sides : g[m][q] = h[m][q])
    BY <1>51, <1>81
  <2>2. subB[m] = IF n \in sub[m] THEN (sub[m] \ L) \ R ELSE sub[m]
    <3>1. n \in subA[m] <=> n \in sub[m]
      BY <1>1, <1>52
    <3> QED
      BY <1>52, <1>82, <3>1
  <2>3. (sub[m] \ L) \ R = sub[m] \ (L \cup R)
    OBVIOUS
  <2>4. m = n => n \in sub[m] /\ sub[m] \ (L \cup R) = {n}
    BY <1>1
  <2>5. compB[m] = IF m \in R THEN R ELSE IF m \in L THEN L ELSE (D \ L) \ R
    <3>1. compA[n] = D \ L
      BY <1>1, <1>53
    <3>2. m \in D \ L <=> m \notin L
      OBVIOUS
    <3> QED
      BY <1>53, <1>83, <3>1, <3>2
  <2>6. (D \ L) \ R = D \ (L \cup R)
    OBVIOUS
  <2>7. ~ (m \in L /\ m \in R)
    BY <1>1
  <2>8. subB[m] = IF m = n THEN {n} ELSE IF n \in sub[m] THEN sub[m] \ (L \cup R) ELSE sub[m]
    BY <2>2, <2>3, <2>4
  <2>9. compB[m] = IF m \in L THEN L ELSE IF m \in R THEN R ELSE D \ (L \cup R)
    BY <2>5, <2>6, <2>7
  <2> QED
    BY <2>1, <2>8, <2>9
<1>10. IsPruned(h, sub, pos, n, L, R, g, subB, compB)
  BY <1>8, <1>9 DEF IsPruned
<1> QED
  BY <1>10

LEMMA NodeCut ==
  ASSUME NEW h, NEW sub, NEW comp, NEW pos, Forest(h, sub, comp, pos), \A m \in DOMAIN h : comp[m] = DOMAIN h,
         NEW n \in DOMAIN h, NEW L, L = Branch(h, sub, n, "left"), NEW R, R = Branch(h, sub, n, "right"),
         NEW p, p = h[n]["parent"],
         NEW g1, g1 = Cut(Cut(h, n, "left"), n, "right"),
         NEW g, g = IF p = NULL THEN g1 ELSE Cut(g1, p, IF h[p]["right"] = n THEN "right" ELSE "left")
  PROVE  \E sub2, comp2 : IsApart(h, sub, pos, n, L, R, g, sub2, comp2)
<1> DEFINE D == DOMAIN h
<1>1. /\ sub[n] = {n} \cup L \cup R /\ L \cap R = {} /\ n \notin L /\ n \notin R /\ sub[n] \subseteq D
      /\ (\A m \in D : comp[m] = D) /\ sub \in [D -> SUBSET D] /\ (\A m \in D : \A x \in sub[m] : sub[x] \subseteq sub[m])
  BY BranchesSplit DEF Forest, IsNested
<1>2. PICK subB, compB : IsPruned(h, sub, pos, n, L, R, g1, subB, compB)
  BY BranchesCut
<1>21. Forest(g1, subB, compB, pos) /\ DOMAIN g1 = D
  BY <1>2 DEF IsPruned
<1>22. \A m \in D : g1[m]["key"] = h[m]["key"] /\ (m # n => \A q \in Sides : g1[m][q] = h[m][q])
  BY <1>2 DEF IsPruned
<1>23. \A m \in D : subB[m] = IF m = n THEN {n} ELSE IF n \in sub[m] THEN sub[m] \ (L \cup R) ELSE sub[m]
  BY <1>2 DEF IsPruned
<1>24. \A m \in D : compB[m] = IF m \in L THEN L ELSE IF m \in R THEN R ELSE D \ (L \cup R)
  BY <1>2 DEF IsPruned
<1>3. p = NULL \/ p \in D
  BY DEF Forest, ParentsRight
<1>4. NULL \notin D
  BY ForestPointers
<1>5. CASE p = NULL
  <2>1. sub[n] = D
    <3>1. comp[n] = D /\ h[n]["parent"] \notin D
      BY <1>4, <1>5
    <3> QED
      BY <3>1 DEF Forest, ParentsRight
  <2>2. \A m \in D : m # n => n \notin sub[m]
    BY <2>1, BranchesInside
  <2>3. D \ (L \cup R) = {n} /\ D \ sub[n] = {} /\ \A m \in D : m \in L \/ m \in R \/ m = n
    BY <1>1, <2>1
  <2>4. ASSUME NEW m \in D
        PROVE  /\ subB[m] = IF m = n THEN {n} ELSE IF n \in sub[m] THEN sub[m] \ sub[n] ELSE sub[m]
               /\ compB[m] = IF m = n THEN {n} ELSE IF m \in L THEN L ELSE IF m \in R THEN R ELSE D \ sub[n]
    BY <1>1, <1>23, <1>24, <2>2, <2>3
  <2> HIDE DEF D
  <2>5. IsApart(h, sub, pos, n, L, R, g1, subB, compB)
    BY <1>21, <1>22, <2>4 DEF IsApart, D
  <2> QED
    BY <1>5, <2>5
<1>6. CASE p # NULL
  <2> DEFINE s == IF h[p]["right"] = n THEN "right" ELSE "left"
  <2>1. s \in Sides /\ h[p][s] = n /\ n # NULL /\ p \in D
    <3>1. \E q \in Sides : h[p][q] = n
      BY <1>1, <1>6 DEF Forest, ParentsRight
    <3> QED
      BY <1>3, <1>4, <1>6, <3>1 DEF Sides
  <2>2. g = Cut(g1, p, s)
    BY <1>6
  <2> HIDE DEF s
  <2>3. p \notin sub[n] /\ n \in sub[p] /\ p # n /\ p \notin L /\ p \notin R
    BY <1>1, <2>1, BranchPlace
  <2>4. g1[p][s] = n /\ subB[n] = {n}
    BY <1>22, <1>23, <2>1, <2>3
  <2>5. PICK subC, compC : IsCut(g1, subB, compB, pos, p, s, {n}, g, subC, compC)
    <3> DEFINE U == {n}
    <3>1. U = IF g1[p][s] = NULL THEN {} ELSE subB[g1[p][s]]
      BY <2>1, <2>4
    <3>2. p \in DOMAIN g1
      BY <1>21, <2>1
    <3>3. Forest(g1, subB, compB, pos) /\ s \in Sides
      BY <1>21, <2>1
    <3> HIDE DEF U
    <3>4. \E subC, compC : IsCut(g1, subB, compB, pos, p, s, U, Cut(g1, p, s), subC, compC)
      BY <3>1, <3>2, <3>3, CutTree
    <3> QED
      BY <2>2, <3>4 DEF U
  <2>6. Forest(g, subC, compC, pos) /\ DOMAIN g = D /\ \A m \in D : g[m]["key"] = h[m]["key"]
    <3>1. DOMAIN g = DOMAIN g1 /\ \A m \in DOMAIN g1 : g[m]["key"] = g1[m]["key"]
      BY <2>5 DEF IsCut
    <3>2. Forest(g, subC, compC, pos)
      BY <2>5 DEF IsCut
    <3> HIDE DEF D
    <3> QED
      BY <1>21, <1>22, <3>1, <3>2
  <2>61. \A m \in D : subC[m] = IF p \in subB[m] THEN subB[m] \ {n} ELSE subB[m]
    BY <1>21, <2>5 DEF IsCut
  <2>62. \A m \in D : compC[m] = IF m \in {n} THEN {n} ELSE IF m \in compB[p] THEN compB[p] \ {n} ELSE compB[m]
    BY <1>21, <2>5 DEF IsCut
  <2>7. compB[p] = D \ (L \cup R)
    BY <1>24, <2>1, <2>3
  <2>8. ASSUME NEW m \in D PROVE subC[m] = IF m = n THEN {n} ELSE IF n \in sub[m] THEN sub[m] \ sub[n] ELSE sub[m]
    <3>1. CASE m = n
      <4>1. p \notin subB[n] /\ subB[n] = {n}
        BY <2>3, <2>4
      <4> QED
        BY <2>61, <3>1, <4>1
    <3>2. CASE m # n /\ n \in sub[m]
      <4>1. p \in sub[m]
        BY <1>6, <3>2 DEF Forest, ParentsRight
      <4>21. subB[m] = sub[m] \ (L \cup R)
        BY <1>23, <3>2
      <4>2. subB[m] = sub[m] \ (L \cup R) /\ p \in subB[m]
        BY <2>3, <4>1, <4>21
      <4>3. (sub[m] \ (L \cup R)) \ {n} = sub[m] \ sub[n]
        BY <1>1
      <4> QED
        BY <2>61, <3>2, <4>2, <4>3
    <3>3. CASE m # n /\ n \notin sub[m]
      <4>1. subB[m] = sub[m]
        BY <1>23, <3>3
      <4>2. p \notin sub[m]
        BY <1>1, <2>3, <3>3
      <4> QED
        BY <2>61, <3>3, <4>1, <4>2
    <3> QED
      BY <3>1, <3>2, <3>3
  <2>9. ASSUME NEW m \in D
        PROVE compC[m] = IF m = n THEN {n} ELSE IF m \in L THEN L ELSE IF m \in R THEN R ELSE D \ sub[n]
    <3>1. (D \ (L \cup R)) \ {n} = D \ sub[n]
      BY <1>1
    <3>2. compC[m] = IF m = n THEN {n} ELSE IF m \in D \ (L \cup R) THEN D \ sub[n] ELSE compB[m]
      BY <2>62, <2>7, <3>1
    <3>3. compB[m] = IF m \in L THEN L ELSE IF m \in R THEN R ELSE D \ (L \cup R)
      BY <1>24
    <3> QED
      BY <1>1, <3>2, <3>3
  <2> HIDE DEF D
  <2>10. IsApart(h, sub, pos, n, L, R, g, subC, compC)
    BY <2>6, <2>8, <2>9 DEF IsApart, D
  <2> QED
    BY <2>10
<1> QED
  BY <1>5, <1>6

(* A branch of n comes to its place under its parent.                      *)
LEMMA BranchPutUp ==
  ASSUME NEW h, NEW sub, NEW comp, NEW pos, Forest(h, sub, comp, pos), \A m \in DOMAIN h : comp[m] = DOMAIN h,
         NEW n \in DOMAIN h, NEW L, L = Branch(h, sub, n, "left"), NEW R, R = Branch(h, sub, n, "right"),
         NEW p, p = h[n]["parent"], p # NULL,
         NEW q \in Sides, NEW U, U = Branch(h, sub, n, q), NEW V, V = Branch(h, sub, n, Other(q)),
         NEW up, up = h[n][q], up # NULL,
         NEW g, NEW sub2, NEW comp2, IsApart(h, sub, pos, n, L, R, g, sub2, comp2)
  PROVE  \E sub3, comp3 : IsOut(h, sub, pos, n, U, V, Concat(g, p, up), sub3, comp3)
<1> DEFINE D == DOMAIN h
           k == h[up]["key"]
           place == Place(g, p, k)
           g2 == Concat(g, p, up)
<1>1. /\ sub[n] = {n} \cup L \cup R /\ L \cap R = {} /\ n \notin L /\ n \notin R /\ sub[n] \subseteq D
      /\ (\A m \in D : comp[m] = D) /\ sub \in [D -> SUBSET D] /\ (\A m \in D : \A x \in sub[m] : sub[x] \subseteq sub[m])
      /\ \A m \in D : m \in sub[m]
  BY BranchesSplit DEF Forest, IsNested
<1>2. (U = L /\ V = R) \/ (U = R /\ V = L)
  BY DEF Sides, Other
<1>3. pos \in [D -> Int] /\ (\A m, x \in D : pos[m] = pos[x] => m = x) /\ (\A m \in D : h[m]["key"] \in Int)
      /\ NULL \notin D
  BY ForestPointers DEF Forest, IsPlaced, IsHeap
<1>4. PICK s \in Sides : p \in D /\ h[p][s] = n /\ n # NULL
  BY <1>3 DEF Forest, ParentsRight
<1>5. up \in D /\ up \in sub[n] /\ U = sub[up] /\ n \notin sub[up] /\ up \in U
  BY BranchPlace DEF Branch
<1>6. /\ p \notin sub[n] /\ n \in sub[p] /\ p # n
      /\ \A x \in D : x \in sub[n] <=> x \in sub[p] /\ Beyond(s, pos[x], pos[p])
      /\ \A x \in D \ sub[n], u \in sub[n] : Beyond(s, pos[x], pos[p]) => Beyond(s, pos[x], pos[u])
  <2>1. p \notin sub[n] /\ n \in sub[p]
    BY <1>4, BranchPlace
  <2>2. \A x \in D : x \in sub[n] <=> x \in sub[p] /\ Beyond(s, pos[x], pos[p])
    BY <1>4, BranchPlace
  <2>3. \A x \in comp[p] \ sub[n], u \in sub[n] : Beyond(s, pos[x], pos[p]) => Beyond(s, pos[x], pos[u])
    BY <1>4, BranchPlace
  <2>4. comp[p] = D
    BY <1>4
  <2> QED
    BY <1>1, <2>1, <2>2, <2>3, <2>4
<1>7. /\ Forest(g, sub2, comp2, pos) /\ DOMAIN g = D
      /\ \A m \in D : g[m]["key"] = h[m]["key"]
  BY DEF IsApart
<1>71. \A m \in D : sub2[m] = IF m = n THEN {n} ELSE IF n \in sub[m] THEN sub[m] \ sub[n] ELSE sub[m]
  BY DEF IsApart
<1>72. \A m \in D : comp2[m] = IF m = n THEN {n} ELSE IF m \in L THEN L ELSE IF m \in R THEN R ELSE D \ sub[n]
  BY DEF IsApart
<1>8. /\ \A m \in D : \A x \in sub[m] : pos[x] < pos[m] => h[x]["key"] < h[m]["key"]
      /\ \A m \in D : \A x \in D : pos[x] < pos[m] => h[x]["key"] <= h[m]["key"]
  BY DEF Forest, KeysRight
<1>9. sub2[p] = sub[p] \ sub[n] /\ sub2[up] = U /\ comp2[up] = U /\ comp2[p] = D \ sub[n]
  <2>1. sub2[p] = sub[p] \ sub[n] /\ up # n
    BY <1>1, <1>4, <1>5, <1>6, <1>71
  <2>2. sub2[up] = U
    BY <1>5, <1>71, <2>1
  <2>3. p \notin L /\ p \notin R
    BY <1>1, <1>6
  <2>4. comp2[p] = D \ sub[n]
    BY <1>4, <1>6, <1>72, <2>3
  <2>5. comp2[up] = U
    BY <1>1, <1>2, <1>5, <1>72, <2>1
  <2> QED
    BY <2>1, <2>2, <2>4, <2>5
<1>10. place = p /\ Side(k, g, place) = s /\ g[p][s] = NULL
  <2>1. k \in Int /\ p \in DOMAIN g
    BY <1>3, <1>4, <1>5, <1>7
  <2> DEFINE t == Side(k, g, place)
  <2>2. /\ place \in sub2[p] /\ g[place][t] = NULL /\ t \in Sides
        /\ \A x \in sub2[p] : k < g[x]["key"] <=> pos[place] < pos[x] \/ (x = place /\ t = "left")
    <3> HIDE DEF k
    <3> QED
      BY <1>7, <2>1, PlaceFits
  <2> HIDE DEF t, place, k
  <2>3. p \in sub2[p] /\ place \in D /\ place \in sub[p] /\ place \notin sub[n] /\ pos[place] \in Int /\ pos[p] \in Int
        /\ pos[up] \in Int /\ h[p]["key"] \in Int /\ g[p]["key"] = h[p]["key"] /\ (pos[place] = pos[p] => place = p)
    BY <1>1, <1>3, <1>4, <1>5, <1>6, <1>7, <1>9, <2>2
  <2>4. ~ Beyond(s, pos[place], pos[p]) /\ Beyond(s, pos[up], pos[p]) /\ up \in sub[p]
    BY <1>5, <1>6, <2>3
  <2>5. k < h[p]["key"] <=> pos[place] < pos[p] \/ (p = place /\ t = "left")
    BY <2>2, <2>3
  <2>6. CASE s = "left"
    <3>1. k < h[p]["key"]
      BY <1>4, <1>8, <2>4, <2>6 DEF Beyond, k
    <3>2. place = p /\ t = "left"
      BY <2>3, <2>4, <2>5, <2>6, <3>1 DEF Beyond
    <3> QED
      BY <2>2, <2>6, <3>2 DEF t
  <2>7. CASE s = "right"
    <3>1. h[p]["key"] <= k
      BY <1>4, <1>5, <1>8, <2>4, <2>7 DEF Beyond, k
    <3>2. ~ (k < h[p]["key"])
      BY <2>1, <2>3, <3>1
    <3>3. place = p /\ t # "left"
      BY <2>3, <2>4, <2>5, <2>7, <3>2 DEF Beyond
    <3> QED
      BY <2>2, <2>7, <3>3 DEF t, Sides
  <2> QED
    BY <1>4, <2>6, <2>7 DEF Sides
<1>11. Fits(g, sub2, comp2, pos, p, s, up)
  <2>1. up \notin comp2[p]
    BY <1>5, <1>9
  <2>2. U \subseteq sub[n] /\ U \subseteq D
    BY <1>1, <1>2
  <2>3. ASSUME NEW u \in sub2[up], NEW x \in comp2[p]
        PROVE  /\ Beyond(s, pos[u], pos[p])
               /\ Beyond(s, pos[x], pos[p]) => Beyond(s, pos[x], pos[u])
               /\ pos[u] < pos[x] => g[u]["key"] <= g[x]["key"]
               /\ pos[x] < pos[u] => g[x]["key"] <= g[u]["key"]
    <3>1. u \in sub[n] /\ u \in D /\ x \in D \ sub[n]
      BY <1>9, <2>2
    <3>2. g[u]["key"] = h[u]["key"] /\ g[x]["key"] = h[x]["key"]
      BY <1>7, <3>1
    <3>3. Beyond(s, pos[u], pos[p]) /\ (Beyond(s, pos[x], pos[p]) => Beyond(s, pos[x], pos[u]))
      BY <1>6, <3>1
    <3> QED
      BY <1>8, <3>1, <3>2, <3>3
  <2>4. ASSUME NEW u \in sub2[up], NEW m \in D, p \in sub2[m], pos[u] < pos[m] PROVE g[u]["key"] < g[m]["key"]
    <3>0. sub2[m] = {n} \/ sub2[m] = sub[m] \ sub[n] \/ sub2[m] = sub[m]
      BY <1>71
    <3>1. p \in sub[m]
      BY <1>6, <2>4, <3>0
    <3>2. u \in D /\ u \in sub[n] /\ u \in sub[p]
      BY <1>1, <1>4, <1>6, <1>9, <2>2
    <3>3. u \in sub[m]
      BY <1>1, <3>1, <3>2
    <3> QED
      BY <1>7, <1>8, <2>4, <3>2, <3>3
  <2>5. \A u \in sub2[up] : Beyond(s, pos[u], pos[p])
    BY <1>6, <1>9, <2>2
  <2> QED
    BY <1>7, <1>9, <1>10, <2>1, <2>3, <2>4, <2>5 DEF Fits
<1> DEFINE sub3 == SubJoined(D, sub2, p, up)
           comp3 == CompJoined(D, comp2, p, up)
<1>12. Forest(g2, sub3, comp3, pos) /\ DOMAIN g2 = D /\ \A m \in D : g2[m]["key"] = h[m]["key"]
  <2>1. /\ Forest(g2, SubJoined(DOMAIN g, sub2, p, up), CompJoined(DOMAIN g, comp2, p, up), pos)
        /\ DOMAIN g2 = DOMAIN g /\ \A m \in DOMAIN g : g2[m]["key"] = g[m]["key"]
    <3>1. up \in DOMAIN g /\ p \in DOMAIN g /\ p = Place(g, p, g[up]["key"]) /\ s = Side(g[up]["key"], g, p)
      BY <1>4, <1>5, <1>7, <1>10
    <3> QED
      BY <1>7, <1>11, <3>1, ConcatForest
  <2> QED
    BY <1>7, <2>1
<1> HIDE DEF g2
<1>13. ASSUME NEW m \in D
       PROVE  sub3[m] = IF m = n THEN {n} ELSE IF n \in sub[m] THEN (sub[m] \ sub[n]) \cup U ELSE sub[m]
  <2>1. sub3[m] = IF p \in sub2[m] THEN sub2[m] \cup U ELSE sub2[m]
    BY <1>9 DEF SubJoined
  <2>2. CASE m = n
    <3>1. sub2[n] = {n} /\ p \notin {n}
      BY <1>6, <1>71
    <3> QED
      BY <2>1, <2>2, <3>1
  <2>3. CASE m # n /\ n \in sub[m]
    <3>1. p \in sub[m]
      BY <2>3 DEF Forest, ParentsRight
    <3>2. sub2[m] = sub[m] \ sub[n]
      BY <1>71, <2>3
    <3> QED
      BY <1>6, <2>1, <2>3, <3>1, <3>2
  <2>4. CASE m # n /\ n \notin sub[m]
    <3>1. sub2[m] = sub[m]
      BY <1>71, <2>4
    <3>2. p \notin sub[m]
      BY <1>1, <1>6, <2>4
    <3> QED
      BY <2>1, <2>4, <3>1, <3>2
  <2> QED
    BY <2>2, <2>3, <2>4
<1>14. ASSUME NEW m \in D
       PROVE  comp3[m] = IF m = n THEN {n} ELSE IF m \in V THEN V ELSE (D \ sub[n]) \cup U
  <2>1. comp3[m] = IF m \in (D \ sub[n]) \cup U THEN (D \ sub[n]) \cup U ELSE comp2[m]
    BY <1>9 DEF CompJoined
  <2>2. CASE m = n
    <3>1. m \notin (D \ sub[n]) \cup U
      BY <1>1, <1>2, <2>2
    <3> QED
      BY <1>72, <2>1, <2>2, <3>1
  <2>3. CASE m \in V
    <3>1. m \notin (D \ sub[n]) \cup U /\ m # n
      BY <1>1, <1>2, <2>3
    <3>2. comp2[m] = V
      BY <1>1, <1>2, <1>72, <2>3, <3>1
    <3> QED
      BY <2>1, <2>3, <3>1, <3>2
  <2>4. CASE m # n /\ m \notin V
    <3>1. m \in (D \ sub[n]) \cup U
      BY <1>1, <1>2, <2>4
    <3> QED
      BY <2>1, <2>4, <3>1
  <2> QED
    BY <2>2, <2>3, <2>4
<1> HIDE DEF sub3, comp3, D
<1>15. IsOut(h, sub, pos, n, U, V, g2, sub3, comp3)
  BY <1>12, <1>13, <1>14 DEF IsOut, D
<1> QED
  BY <1>15 DEF g2

(* Node n is alone, and the others are one tree; up has come to its place. *)
IsGone(h, sub, pos, n, up, g, sub2, comp2) ==
  /\ Forest(g, sub2, comp2, pos) /\ DOMAIN g = DOMAIN h /\ comp2[n] = {n}
  /\ \A m \in DOMAIN h : g[m]["key"] = h[m]["key"]
  /\ \A m \in DOMAIN h \ {n} : comp2[m] = DOMAIN h \ {n}
  /\ \A m \in DOMAIN h \ {n} : n \in sub[m] => sub2[m] = sub[m] \ {n}
  /\ up # NULL => sub2[up] = sub[n] \ {n}

LEMMA BranchPutBeside ==
  ASSUME NEW h, NEW sub, NEW comp, NEW pos, Forest(h, sub, comp, pos), \A m \in DOMAIN h : comp[m] = DOMAIN h,
         NEW n \in DOMAIN h, NEW L, L = Branch(h, sub, n, "left"), NEW R, R = Branch(h, sub, n, "right"),
         NEW l, l = h[n]["left"], l # NULL, NEW r, r = h[n]["right"], r # NULL,
         NEW g, NEW sub2, NEW comp2, IsOut(h, sub, pos, n, L, R, g, sub2, comp2)
  PROVE  \E sub3, comp3 : IsGone(h, sub, pos, n, l, Concat(g, l, r), sub3, comp3)
<1> DEFINE D == DOMAIN h
           k == h[r]["key"]
           p == Place(g, l, k)
           g2 == Concat(g, l, r)
           C == (D \ sub[n]) \cup L
<1>1. /\ sub[n] = {n} \cup L \cup R /\ L \cap R = {} /\ n \notin L /\ n \notin R /\ sub[n] \subseteq D
      /\ (\A m \in D : comp[m] = D) /\ sub \in [D -> SUBSET D] /\ (\A m \in D : \A x \in sub[m] : sub[x] \subseteq sub[m])
      /\ \A m \in D : m \in sub[m]
  BY BranchesSplit DEF Forest, IsNested
<1>2. \A x \in D : (x \in L <=> x \in sub[n] /\ pos[x] < pos[n]) /\ (x \in R <=> x \in sub[n] /\ pos[n] < pos[x])
  BY BranchesSplit
<1>3. pos \in [D -> Int] /\ (\A m, x \in D : pos[m] = pos[x] => m = x) /\ (\A m \in D : h[m]["key"] \in Int)
      /\ NULL \notin D
  BY ForestPointers DEF Forest, IsPlaced, IsHeap
<1>4. "left" \in Sides /\ "right" \in Sides /\ "left" # "right"
  BY DEF Sides
<1>5. l \in D /\ L = sub[l] /\ l \in L /\ r \in D /\ R = sub[r] /\ r \in R /\ l # n /\ r # n
  <2>1. l \in D /\ l \in sub[l] /\ L = sub[l]
    BY <1>4, BranchPlace DEF Branch
  <2>2. r \in D /\ r \in sub[r] /\ R = sub[r]
    BY <1>4, BranchPlace DEF Branch
  <2> QED
    BY <1>1, <2>1, <2>2
<1>7. /\ Forest(g, sub2, comp2, pos) /\ DOMAIN g = D
      /\ \A m \in D : g[m]["key"] = h[m]["key"]
  BY DEF IsOut
<1>71. \A m \in D : sub2[m] = IF m = n THEN {n} ELSE IF n \in sub[m] THEN (sub[m] \ sub[n]) \cup L ELSE sub[m]
  BY DEF IsOut
<1>72. \A m \in D : comp2[m] = IF m = n THEN {n} ELSE IF m \in R THEN R ELSE C
  BY DEF IsOut
<1>8. /\ \A m \in D : \A x \in sub[m] : pos[x] < pos[m] => h[x]["key"] < h[m]["key"]
      /\ \A m \in D : \A x \in D : pos[x] < pos[m] => h[x]["key"] <= h[m]["key"]
  BY DEF Forest, KeysRight
<1>9. sub2[l] = L /\ sub2[r] = R /\ comp2[r] = R
  BY <1>1, <1>5, <1>71, <1>72
<1>91. k \in Int /\ l \in DOMAIN g /\ r \in DOMAIN g /\ g[r]["key"] = k
  BY <1>3, <1>5, <1>7
<1>10. p \in L /\ Side(k, g, p) = "right" /\ g[p]["right"] = NULL /\ \A x \in L : pos[x] <= pos[p]
  <2> DEFINE t == Side(k, g, p)
  <2>2. /\ p \in sub2[l] /\ g[p][t] = NULL /\ t \in Sides
        /\ \A x \in sub2[l] : k < g[x]["key"] <=> pos[p] < pos[x] \/ (x = p /\ t = "left")
    <3> HIDE DEF k
    <3> QED
      BY <1>7, <1>91, PlaceFits
  <2> HIDE DEF t, p, k
  <2>3. ASSUME NEW x \in L PROVE x \in D /\ pos[x] \in Int /\ pos[n] \in Int /\ ~ (k < g[x]["key"])
    <3>1. x \in D /\ pos[x] < pos[n] /\ pos[n] < pos[r]
      BY <1>1, <1>2, <1>5
    <3>2. pos[x] \in Int /\ pos[n] \in Int /\ pos[r] \in Int
      BY <1>3, <1>5, <3>1
    <3>3. h[x]["key"] <= k
      BY <1>5, <1>8, <3>1, <3>2 DEF k
    <3> QED
      BY <1>3, <1>7, <1>91, <3>1, <3>2, <3>3
  <2>4. p \in L /\ t # "left"
    BY <1>9, <2>2, <2>3
  <2>5. \A x \in L : pos[x] <= pos[p]
    BY <1>9, <2>2, <2>3, <2>4
  <2> QED
    BY <2>2, <2>4, <2>5 DEF t, Sides
<1> HIDE DEF p, k
<1>101. p \in D /\ p # n /\ p \in sub[n] /\ pos[p] \in Int /\ pos[n] \in Int /\ pos[p] < pos[n] /\ comp2[p] = C /\ p \notin R
  BY <1>1, <1>2, <1>3, <1>10, <1>72
<1>11. Fits(g, sub2, comp2, pos, p, "right", r)
  <2>1. r \notin comp2[p]
    BY <1>1, <1>5, <1>101
  <2>3. ASSUME NEW u \in sub2[r]
        PROVE  u \in D /\ u \in sub[n] /\ pos[u] \in Int /\ pos[n] < pos[u] /\ Beyond("right", pos[u], pos[p])
    <3>1. u \in D /\ u \in sub[n] /\ pos[n] < pos[u] /\ pos[u] \in Int
      BY <1>1, <1>2, <1>3, <1>9
    <3> QED
      BY <1>101, <3>1 DEF Beyond
  <2>4. ASSUME NEW u \in sub2[r], NEW x \in comp2[p]
        PROVE  /\ Beyond("right", pos[x], pos[p]) => Beyond("right", pos[x], pos[u])
               /\ pos[u] < pos[x] => g[u]["key"] <= g[x]["key"]
               /\ pos[x] < pos[u] => g[x]["key"] <= g[u]["key"]
    <3>1. u \in sub[n] /\ u \in D /\ pos[u] \in Int /\ u \in R
      BY <1>9, <2>3
    <3>2. x \in D /\ pos[x] \in Int /\ (x \in L \/ x \notin sub[n])
      BY <1>1, <1>3, <1>101
    <3>3. g[u]["key"] = h[u]["key"] /\ g[x]["key"] = h[x]["key"]
      BY <1>7, <3>1, <3>2
    <3>4. ASSUME pos[p] < pos[x] PROVE pos[u] < pos[x]
      <4>1. x \notin L
        BY <1>10, <1>101, <3>2, <3>4
      <4>2. x \notin sub[n] /\ x # u
        BY <3>1, <3>2, <4>1
      <4>3. ~ (pos[p] < pos[x] /\ pos[x] < pos[u])
        <5>1. x \in comp[n] /\ p \in sub[n] /\ u \in sub[n]
          BY <1>1, <1>101, <3>1, <3>2
        <5> QED
          BY <4>2, <5>1 DEF Forest, NoGaps
      <4>4. pos[x] # pos[u]
        BY <1>3, <3>1, <3>2, <4>2
      <4> QED
        BY <3>1, <3>2, <3>4, <4>3, <4>4
    <3> QED
      BY <1>8, <3>1, <3>2, <3>3, <3>4 DEF Beyond
  <2>5. ASSUME NEW u \in sub2[r], NEW m \in D, p \in sub2[m], pos[u] < pos[m] PROVE g[u]["key"] < g[m]["key"]
    <3>1. u \in sub[n] /\ u \in D /\ pos[u] \in Int /\ u \in R /\ pos[n] < pos[u] /\ pos[m] \in Int
      BY <1>3, <1>9, <2>3
    <3>2. m # n
      BY <1>71, <1>101, <2>5
    <3>3. n \in sub[m]
      <4> SUFFICES ASSUME n \notin sub[m] PROVE FALSE
        OBVIOUS
      <4>1. p \in sub[m]
        BY <1>71, <2>5, <3>2
      <4>2. m \in sub[n]
        <5>1. sub[m] \cap sub[n] # {}
          BY <1>101, <4>1
        <5> QED
          BY <5>1 DEF Forest, IsNested
      <4>3. m \in R
        BY <1>2, <1>101, <2>5, <3>1, <4>2
      <4>4. sub[m] \subseteq R
        BY <1>1, <1>5, <4>3
      <4> QED
        BY <1>101, <4>1, <4>4
    <3>4. u \in sub[m]
      BY <1>1, <3>1, <3>3
    <3> QED
      BY <1>7, <1>8, <2>5, <3>1, <3>4
  <2> QED
    BY <1>7, <1>9, <1>10, <2>1, <2>3, <2>4, <2>5 DEF Fits
<1> DEFINE sub3 == SubJoined(D, sub2, p, r)
           comp3 == CompJoined(D, comp2, p, r)
<1>12. Forest(g2, sub3, comp3, pos) /\ DOMAIN g2 = D /\ \A m \in D : g2[m]["key"] = h[m]["key"]
  <2>1. /\ Forest(g2, SubJoined(DOMAIN g, sub2, p, r), CompJoined(DOMAIN g, comp2, p, r), pos)
        /\ DOMAIN g2 = DOMAIN g /\ \A m \in DOMAIN g : g2[m]["key"] = g[m]["key"]
    <3>1. p \in DOMAIN g /\ p = Place(g, l, g[r]["key"]) /\ "right" = Side(g[r]["key"], g, p)
      BY <1>7, <1>10, <1>91, <1>101 DEF p
    <3> QED
      BY <1>7, <1>11, <1>91, <3>1, ConcatForest
  <2> QED
    BY <1>7, <2>1
<1> HIDE DEF g2
<1>13. C \cup R = D \ {n}
  BY <1>1
<1>14. comp3[n] = {n} /\ \A m \in D \ {n} : comp3[m] = D \ {n}
  <2>1. \A m \in D : comp3[m] = IF m \in D \ {n} THEN D \ {n} ELSE comp2[m]
    BY <1>9, <1>13, <1>101 DEF CompJoined
  <2> QED
    BY <1>72, <2>1
<1>15. ASSUME NEW m \in D \ {n}, n \in sub[m] PROVE sub3[m] = sub[m] \ {n}
  <2>1. sub2[m] = (sub[m] \ sub[n]) \cup L
    BY <1>71, <1>15
  <2>2. sub3[m] = ((sub[m] \ sub[n]) \cup L) \cup R
    BY <1>9, <1>10, <2>1 DEF SubJoined
  <2>3. sub[n] \subseteq sub[m]
    BY <1>1, <1>15
  <2> QED
    BY <1>1, <2>2, <2>3
<1>16. sub3[l] = sub[n] \ {n}
  <2>1. sub3[l] = L \cup R
    BY <1>5, <1>9, <1>10 DEF SubJoined
  <2> QED
    BY <1>1, <2>1
<1> HIDE DEF sub3, comp3, D
<1>17. IsGone(h, sub, pos, n, l, g2, sub3, comp3)
  BY <1>12, <1>14, <1>15, <1>16 DEF IsGone, D
<1> QED
  BY <1>17 DEF g2

LEMMA ApartIsOut ==
  ASSUME NEW h, NEW sub, NEW comp, NEW pos, Forest(h, sub, comp, pos), \A m \in DOMAIN h : comp[m] = DOMAIN h,
         NEW n \in DOMAIN h, NEW L, L = Branch(h, sub, n, "left"), NEW R, R = Branch(h, sub, n, "right"),
         NEW q \in Sides, NEW U, U = Branch(h, sub, n, q), NEW V, V = Branch(h, sub, n, Other(q)),
         h[n]["parent"] = NULL \/ (h[n][q] = NULL /\ h[n][Other(q)] = NULL),
         NEW g, NEW sub2, NEW comp2, IsApart(h, sub, pos, n, L, R, g, sub2, comp2)
  PROVE  IsOut(h, sub, pos, n, U, V, g, sub2, comp2)
<1> DEFINE D == DOMAIN h
<1>1. /\ sub[n] = {n} \cup L \cup R /\ L \cap R = {} /\ n \notin L /\ n \notin R /\ sub[n] \subseteq D
  BY BranchesSplit
<1>2. (U = L /\ V = R) \/ (U = R /\ V = L)
  BY DEF Sides, Other
<1>3. /\ Forest(g, sub2, comp2, pos) /\ DOMAIN g = D
      /\ \A m \in D : g[m]["key"] = h[m]["key"]
  BY DEF IsApart
<1>4. \A m \in D : sub2[m] = IF m = n THEN {n} ELSE IF n \in sub[m] THEN sub[m] \ sub[n] ELSE sub[m]
  BY DEF IsApart
<1>5. \A m \in D : comp2[m] = IF m = n THEN {n} ELSE IF m \in L THEN L ELSE IF m \in R THEN R ELSE D \ sub[n]
  BY DEF IsApart
<1>6. (sub[n] = D /\ \A m \in D : m # n => n \notin sub[m]) \/ (U = {} /\ V = {})
  <2>1. CASE h[n]["parent"] = NULL
    <3>1. comp[n] = D /\ h[n]["parent"] \notin D
      BY <2>1, ForestPointers
    <3>2. sub[n] = D
      BY <3>1 DEF Forest, ParentsRight
    <3> QED
      BY <3>2, BranchesInside
  <2>2. CASE h[n][q] = NULL /\ h[n][Other(q)] = NULL
    BY <2>2 DEF Branch
  <2> QED
    BY <2>1, <2>2
<1>7. ASSUME NEW m \in D
      PROVE  sub2[m] = IF m = n THEN {n} ELSE IF n \in sub[m] THEN (sub[m] \ sub[n]) \cup U ELSE sub[m]
  <2>1. CASE m # n /\ n \in sub[m]
    <3>1. sub2[m] = sub[m] \ sub[n] /\ U = {}
      BY <1>4, <1>6, <2>1
    <3> QED
      BY <2>1, <3>1
  <2>2. CASE ~ (m # n /\ n \in sub[m])
    BY <1>4, <2>2
  <2> QED
    BY <2>1, <2>2
<1>8. ASSUME NEW m \in D
      PROVE  comp2[m] = IF m = n THEN {n} ELSE IF m \in V THEN V ELSE (D \ sub[n]) \cup U
  <2>1. CASE m = n
    BY <1>5, <2>1
  <2>2. CASE m \in V
    <3>1. comp2[m] = V /\ m # n
      BY <1>1, <1>2, <1>5, <2>2
    <3> QED
      BY <2>2, <3>1
  <2>3. CASE m \in U
    <3>1. comp2[m] = U /\ m # n /\ m \notin V
      BY <1>1, <1>2, <1>5, <2>3
    <3>2. (D \ sub[n]) \cup U = U
      BY <1>6, <2>3
    <3> QED
      BY <3>1, <3>2
  <2>4. CASE m # n /\ m \notin V /\ m \notin U
    <3>1. comp2[m] = D \ sub[n] /\ m \notin sub[n]
      BY <1>1, <1>2, <1>5, <2>4
    <3>2. U = {}
      BY <1>6, <3>1
    <3> QED
      BY <2>4, <3>1, <3>2
  <2> QED
    BY <2>1, <2>2, <2>3, <2>4
<1> HIDE DEF D
<1> QED
  BY <1>3, <1>7, <1>8 DEF IsOut, D

LEMMA OutIsGone ==
  ASSUME NEW h, NEW sub, NEW comp, NEW pos, Forest(h, sub, comp, pos), \A m \in DOMAIN h : comp[m] = DOMAIN h,
         NEW n \in DOMAIN h, NEW q \in Sides, NEW U, U = Branch(h, sub, n, q), Branch(h, sub, n, Other(q)) = {},
         NEW g, NEW sub2, NEW comp2, IsOut(h, sub, pos, n, U, {}, g, sub2, comp2)
  PROVE  IsGone(h, sub, pos, n, h[n][q], g, sub2, comp2)
<1> DEFINE D == DOMAIN h
           up == h[n][q]
<1>1. sub[n] = {n} \cup U /\ n \notin U /\ sub[n] \subseteq D
  BY BranchesSplit DEF Sides, Other
<1>2. \A m \in D : m \in sub[m] /\ \A x \in sub[m] : sub[x] \subseteq sub[m]
  BY DEF Forest, IsNested
<1>3. Forest(g, sub2, comp2, pos) /\ DOMAIN g = D /\ \A m \in D : g[m]["key"] = h[m]["key"]
  BY DEF IsOut
<1>4. \A m \in D : sub2[m] = IF m = n THEN {n} ELSE IF n \in sub[m] THEN (sub[m] \ sub[n]) \cup U ELSE sub[m]
  BY DEF IsOut
<1>5. \A m \in D : comp2[m] = IF m = n THEN {n} ELSE (D \ sub[n]) \cup U
  <2>1. \A m \in D : comp2[m] = IF m = n THEN {n} ELSE IF m \in {} THEN {} ELSE (D \ sub[n]) \cup U
    BY DEF IsOut
  <2> QED
    BY <2>1
<1>6. (D \ sub[n]) \cup U = D \ {n}
  BY <1>1
<1>7. comp2[n] = {n} /\ \A m \in D \ {n} : comp2[m] = D \ {n}
  BY <1>5, <1>6
<1>8. ASSUME NEW m \in D \ {n}, n \in sub[m] PROVE sub2[m] = sub[m] \ {n}
  <2>1. sub2[m] = (sub[m] \ sub[n]) \cup U
    BY <1>4, <1>8
  <2>2. sub[n] \subseteq sub[m]
    BY <1>2, <1>8
  <2> QED
    BY <1>1, <2>1, <2>2
<1>9. up # NULL => sub2[up] = sub[n] \ {n}
  <2> SUFFICES ASSUME up # NULL PROVE sub2[up] = sub[n] \ {n}
    OBVIOUS
  <2>1. up \in D /\ U = sub[up]
    BY ForestPointers DEF Branch
  <2>2. n \notin sub[up] /\ up # n
    BY <1>1, <1>2, <2>1
  <2>3. sub2[up] = sub[up]
    BY <1>4, <2>1, <2>2
  <2> QED
    BY <1>1, <2>1, <2>3
<1> HIDE DEF D, up
<1>10. IsGone(h, sub, pos, n, up, g, sub2, comp2)
  BY <1>3, <1>7, <1>8, <1>9 DEF IsGone, D
<1> QED
  BY <1>10 DEF up

LEMMA WithoutGone ==
  ASSUME NEW h, NEW sub, NEW comp, NEW pos, Forest(h, sub, comp, pos), \A m \in DOMAIN h : comp[m] = DOMAIN h,
         NEW n \in DOMAIN h, NEW up, up = IF h[n]["left"] # NULL THEN h[n]["left"] ELSE h[n]["right"]
  PROVE  /\ \E sub2, comp2 : IsGone(h, sub, pos, n, up, Without(h, n).h, sub2, comp2)
         /\ Without(h, n).root = IF h[n]["parent"] = NULL /\ up # NULL THEN up ELSE root
<1> DEFINE D == DOMAIN h
           l == h[n]["left"]
           r == h[n]["right"]
           p == h[n]["parent"]
           L == Branch(h, sub, n, "left")
           R == Branch(h, sub, n, "right")
           h1 == Cut(Cut(h, n, "left"), n, "right")
           h2 == IF p = NULL THEN h1 ELSE Cut(h1, p, IF h[p]["right"] = n THEN "right" ELSE "left")
           h3 == IF p = NULL \/ up = NULL THEN h2 ELSE Concat(h2, p, up)
           h4 == CASE l # NULL /\ r # NULL -> Concat(h3, l, r)
                   [] l = NULL /\ r = NULL ->
                        WriteIf(WriteIf(h3, h3[n]["next"], "prev", h3[n]["prev"]), h3[n]["prev"], "next", h3[n]["next"])
                   [] OTHER -> h3
           q == IF l # NULL THEN "left" ELSE "right"
           U == Branch(h, sub, n, q)
           V == Branch(h, sub, n, Other(q))
<1>1. Without(h, n) = [h |-> h4, root |-> IF p = NULL /\ up # NULL THEN up ELSE root]
  BY Zenon DEF Without
<1>2. Without(h, n).h = h4 /\ Without(h, n).root = IF p = NULL /\ up # NULL THEN up ELSE root
  <2> HIDE DEF h4
  <2> QED
    BY <1>1
<1>3. q \in Sides /\ up = h[n][q] /\ (up = NULL <=> l = NULL /\ r = NULL) /\ "left" \in Sides /\ "right" \in Sides
      /\ (l # NULL => q = "left" /\ Other(q) = "right") /\ (l = NULL => q = "right" /\ Other(q) = "left")
  BY DEF Sides, Other
<1>4. PICK sub2, comp2 : IsApart(h, sub, pos, n, L, R, h2, sub2, comp2)
  <2> HIDE DEF L, R, h1
  <2> QED
    BY NodeCut DEF L, R, h1
<1> HIDE DEF h1, h2
<1>5. PICK sub3, comp3 : IsOut(h, sub, pos, n, U, V, h3, sub3, comp3)
  <2>1. CASE p = NULL \/ up = NULL
    <3>1. p = NULL \/ (h[n][q] = NULL /\ h[n][Other(q)] = NULL)
      BY <1>3, <2>1
    <3>2. h3 = h2
      BY <2>1
    <3> HIDE DEF L, R, U, V, q, h3
    <3>3. IsOut(h, sub, pos, n, U, V, h2, sub2, comp2)
      BY <1>3, <1>4, <3>1, ApartIsOut DEF L, R, U, V
    <3> QED
      BY <3>2, <3>3
  <2>2. CASE p # NULL /\ up # NULL
    <3>1. h3 = Concat(h2, p, up)
      BY <2>2
    <3> HIDE DEF L, R, U, V, q, h3
    <3>2. \E sub3, comp3 : IsOut(h, sub, pos, n, U, V, Concat(h2, p, up), sub3, comp3)
      BY <1>3, <1>4, <2>2, BranchPutUp DEF L, R, U, V
    <3> QED
      BY <3>1, <3>2
  <2> QED
    BY <2>1, <2>2
<1> HIDE DEF h3
<1>6. CASE l # NULL /\ r # NULL
  <2>1. h4 = Concat(h3, l, r) /\ U = L /\ V = R /\ up = l
    BY <1>3, <1>6
  <2> HIDE DEF h4, U, V, L, R
  <2>2. \E sub4, comp4 : IsGone(h, sub, pos, n, l, Concat(h3, l, r), sub4, comp4)
    BY <1>5, <1>6, <2>1, BranchPutBeside DEF L, R
  <2> QED
    BY <1>2, <2>1, <2>2
<1>7. CASE l = NULL \/ r = NULL
  <2>1. Branch(h, sub, n, Other(q)) = {} /\ V = {}
    BY <1>3, <1>7 DEF Branch
  <2>2. IsGone(h, sub, pos, n, up, h3, sub3, comp3)
    <3> HIDE DEF U, V, q
    <3>1. IsGone(h, sub, pos, n, h[n][q], h3, sub3, comp3)
      BY <1>3, <1>5, <2>1, OutIsGone DEF U
    <3> QED
      BY <1>3, <3>1
  <2>3. h4 = h3
    <3>1. CASE l = NULL /\ r = NULL
      <4>1. Forest(h3, sub3, comp3, pos) /\ n \in DOMAIN h3 /\ comp3[n] = {n}
        BY <2>2 DEF IsGone
      <4>2. "next" = Link("right") /\ "prev" = Link("left")
        BY DEF Link
      <4>3. h3[n]["next"] = NULL /\ h3[n]["prev"] = NULL
        BY <1>3, <4>1, <4>2, ForestPointers
      <4>4. WriteIf(h3, NULL, "prev", NULL) = h3 /\ WriteIf(h3, NULL, "next", NULL) = h3
        BY DEF WriteIf
      <4> QED
        BY <3>1, <4>3, <4>4
    <3>2. CASE ~ (l = NULL /\ r = NULL)
      BY <1>7, <3>2
    <3> QED
      BY <3>1, <3>2
  <2> QED
    BY <1>2, <2>2, <2>3
<1> QED
  BY <1>2, <1>6, <1>7

LEMMA EraseTree ==
  ASSUME NEW h, NEW sub, NEW comp, NEW pos, NEW f, NEW c, IsTree(h, sub, comp, pos, root, f, c),
         NEW n \in DOMAIN h, NEW g, g = Less(Without(h, n).h, n),
         NEW f2, f2 = IF n = f THEN h[n]["next"] ELSE f,
         NEW r2, r2 = IF f2 = NULL THEN NULL ELSE Without(h, n).root
  PROVE  \E sub2, comp2, pos2 : /\ IsTree(g, sub2, comp2, pos2, r2, f2, c - 1)
                                /\ SameOrder(DOMAIN h \ {n}, pos, pos2) /\ IsErased(h, pos, n, g, pos2)
<1> DEFINE D == DOMAIN h
           E == D \ {n}
           w == Without(h, n)
           up == IF h[n]["left"] # NULL THEN h[n]["left"] ELSE h[n]["right"]
           pos2 == [m \in E |-> IF pos[m] > pos[n] THEN pos[m] - 1 ELSE pos[m]]
<1>1. /\ Forest(h, sub, comp, pos) /\ c \in Nat /\ pos \in [D -> 1..c] /\ \A i \in 1..c : \E m \in D : pos[m] = i
      /\ \A m, x \in D : pos[m] = pos[x] => m = x
      /\ NULL \notin D /\ \A m \in D : comp[m] = D
  <2>1. NULL \notin D /\ \A m \in D : comp[m] = D
    BY TreeProperties
  <2> QED
    BY <2>1 DEF IsTree, Forest, IsPlaced
<1>2. c # 0 /\ root \in D /\ sub[root] = D /\ f \in D /\ pos[f] = 1
  <2>1. c # 0
    BY TreeProperties
  <2> QED
    BY <2>1 DEF IsTree
<1>3. PICK subA, compA : IsGone(h, sub, pos, n, up, w.h, subA, compA)
  <2>1. up = IF h[n]["left"] # NULL THEN h[n]["left"] ELSE h[n]["right"]
    OBVIOUS
  <2> HIDE DEF up
  <2> QED
    BY <1>1, <2>1, WithoutGone
<1>4. w.root = IF h[n]["parent"] = NULL /\ up # NULL THEN up ELSE root
  <2>1. up = IF h[n]["left"] # NULL THEN h[n]["left"] ELSE h[n]["right"]
    OBVIOUS
  <2> HIDE DEF up
  <2> QED
    BY <1>1, <2>1, WithoutGone
<1> HIDE DEF w
<1>5. /\ Forest(w.h, subA, compA, pos) /\ DOMAIN w.h = D /\ compA[n] = {n}
      /\ \A m \in E : n \in sub[m] => subA[m] = sub[m] \ {n}
      /\ up # NULL => subA[up] = sub[n] \ {n}
      /\ \A m \in D : w.h[m]["key"] = h[m]["key"]
  BY <1>3 DEF IsGone
<1>6. DOMAIN subA = D /\ DOMAIN compA = D
  BY <1>5 DEF Forest, IsNested
<1>7. /\ pos2 \in [E -> 1..(c - 1)] /\ c - 1 \in Nat
      /\ \A m \in E : pos2[m] = IF pos[m] > pos[n] THEN pos[m] - 1 ELSE pos[m]
  <2>1. \A m \in E : pos[m] \in 1..c /\ pos[n] \in 1..c /\ pos[m] # pos[n]
    BY <1>1
  <2> QED
    BY <1>1, <1>2, <2>1
<1> HIDE DEF pos2
<1>8. \A m, x \in E : pos2[m] < pos2[x] <=> pos[m] < pos[x]
  <2> TAKE m, x \in E
  <2>1. pos[m] \in Int /\ pos[x] \in Int /\ pos[n] \in Int /\ pos[m] # pos[n] /\ pos[x] # pos[n]
    BY <1>1
  <2> QED
    BY <1>7, <2>1
<1>9. Forest(g, Less(subA, n), Less(compA, n), pos2) /\ DOMAIN g = E
  <2>1. pos2 \in [DOMAIN w.h \ {n} -> Int] /\ \A m, x \in DOMAIN w.h \ {n} : pos2[m] < pos2[x] <=> pos[m] < pos[x]
    BY <1>5, <1>7, <1>8
  <2>2. n \in DOMAIN w.h /\ g = Less(w.h, n)
    BY <1>5 DEF w
  <2>3. Forest(Less(w.h, n), Less(subA, n), Less(compA, n), pos2)
    BY <1>5, <2>1, <2>2, DropForest
  <2>4. DOMAIN Less(w.h, n) = E
    BY <1>5 DEF Less
  <2> QED
    BY <2>2, <2>3, <2>4
<1>10. \A j \in 1..(c - 1) : \E m \in E : pos2[m] = j
  <2> TAKE j \in 1..(c - 1)
  <2>1. pos[n] \in 1..c
    BY <1>1
  <2>2. CASE j < pos[n]
    <3>1. PICK m \in D : pos[m] = j
      BY <1>1, <1>7
    <3> QED
      BY <1>7, <2>1, <2>2, <3>1
  <2>3. CASE j >= pos[n]
    <3>1. j + 1 \in 1..c
      BY <1>1
    <3>2. PICK m \in D : pos[m] = j + 1
      BY <1>1, <3>1
    <3> QED
      BY <1>7, <2>1, <2>3, <3>2
  <2> QED
    BY <2>1, <2>2, <2>3
<1>11. SameOrder(E, pos, pos2) /\ IsErased(h, pos, n, g, pos2)
  <2>1. SameOrder(E, pos, pos2)
    BY <1>8 DEF SameOrder
  <2>2. \A m \in E : g[m] = w.h[m]
    BY <1>5 DEF Less, w
  <2>3. IsErased(h, pos, n, g, pos2)
    BY <1>5, <1>7, <1>9, <2>2 DEF IsErased
  <2> QED
    BY <2>1, <2>3
<1>12. "right" \in Sides /\ Link("right") = "next"
  BY DEF Sides, Link
<1>13. CASE c = 1
  <2>1. D = {n} /\ f = n /\ E = {}
    BY <1>1, <1>2, <1>13
  <2>2. h[n]["next"] = NULL
    <3>1. h[n]["next"] \in comp[n] \cup {NULL} /\ h[n]["next"] # n
      BY <1>1, <1>12, ForestPointers
    <3> QED
      BY <1>1, <2>1, <3>1
  <2>3. f2 = NULL /\ r2 = NULL /\ c - 1 = 0
    BY <1>13, <2>1, <2>2
  <2>4. IsTree(g, Less(subA, n), Less(compA, n), pos2, r2, f2, c - 1)
    BY <1>7, <1>9, <1>10, <2>3 DEF IsTree
  <2> QED
    BY <1>11, <2>4
<1>14. CASE c # 1
  <2>1. f2 \in E /\ pos2[f2] = 1
    <3>1. CASE n = f
      <4> DEFINE l == h[n]["next"]
      <4>1. 2 \in 1..c /\ 1 \in 1..c
        BY <1>1, <1>2, <1>14
      <4>2. PICK m \in D : pos[m] = 2
        BY <1>1, <4>1
      <4>3. /\ l = NULL => \A x \in D : ~ (pos[n] < pos[x])
            /\ l # NULL => l \in D /\ pos[n] < pos[l] /\ \A x \in D : pos[n] < pos[x] => x = l \/ pos[l] < pos[x]
        <5>1. /\ l = NULL => \A x \in comp[n] : ~ Beyond("right", pos[x], pos[n])
              /\ l # NULL => /\ l \in comp[n] /\ Beyond("right", pos[l], pos[n])
                             /\ \A x \in comp[n] : Beyond("right", pos[x], pos[n]) => x = l \/ Beyond("right", pos[x], pos[l])
          BY <1>1, <1>12 DEF Forest, LinksRight
        <5> QED
          BY <1>1, <5>1 DEF Beyond
      <4> HIDE DEF l
      <4>4. l \in D /\ pos[l] = 2 /\ pos[n] = 1
        BY <1>1, <1>2, <3>1, <4>2, <4>3
      <4>5. f2 = l
        BY <3>1 DEF l
      <4> QED
        BY <1>7, <4>4, <4>5
    <3>2. CASE n # f
      <4>1. pos[n] \in Int /\ pos[n] >= 1 /\ pos[n] # 1
        BY <1>1, <1>2, <3>2
      <4> QED
        BY <1>2, <1>7, <3>2, <4>1
    <3> QED
      BY <3>1, <3>2
  <2>2. r2 = w.root
    BY <1>1, <2>1 DEF w
  <2>3. r2 \in E /\ subA[r2] = E
    <3>1. CASE h[n]["parent"] = NULL
      <4>1. sub[n] = D
        <5>1. comp[n] = D /\ h[n]["parent"] \notin D
          BY <1>1, <3>1
        <5> QED
          BY <1>1, <5>1 DEF Forest, ParentsRight
      <4>2. up # NULL
        <5> SUFFICES ASSUME up = NULL PROVE FALSE
          OBVIOUS
        <5>1. h[n]["left"] = NULL /\ h[n]["right"] = NULL
          OBVIOUS
        <5>2. sub[n] = {n} \cup Branch(h, sub, n, "left") \cup Branch(h, sub, n, "right")
          BY <1>1, BranchesSplit
        <5>3. sub[n] = {n}
          BY <5>1, <5>2 DEF Branch
        <5>4. E = {}
          BY <4>1, <5>3
        <5> QED
          BY <2>1, <5>4
      <4>3. up \in DOMAIN h
        BY <1>1, <4>2, ForestPointers DEF Sides
      <4>4. up # n
        <5>1. \E s \in Sides : up = h[n][s]
          BY DEF Sides
        <5>2. PICK s \in Sides : up = h[n][s]
          BY <5>1
        <5> HIDE DEF up
        <5>3. n \notin sub[up] /\ up \in sub[up]
          BY <1>1, <4>2, <5>2, BranchPlace
        <5> QED
          BY <5>3
      <4>5. r2 = up
        BY <1>4, <2>2, <3>1, <4>2
      <4> QED
        BY <1>5, <4>1, <4>2, <4>3, <4>4, <4>5
    <3>2. CASE h[n]["parent"] # NULL
      <4>1. root # n
        <5>1. sub[n] # comp[n]
          BY <1>1, <3>2 DEF Forest, ParentsRight
        <5> QED
          BY <1>1, <1>2, <5>1
      <4>2. r2 = root
        BY <1>4, <2>2, <3>2
      <4> QED
        BY <1>2, <1>5, <4>1, <4>2
    <3> QED
      BY <3>1, <3>2
  <2>4. Less(subA, n)[r2] = E
    BY <1>6, <2>3 DEF Less
  <2>5. IsTree(g, Less(subA, n), Less(compA, n), pos2, r2, f2, c - 1)
    <3>1. c - 1 # 0
      BY <1>1, <1>14
    <3> QED
      BY <1>7, <1>9, <1>10, <2>1, <2>3, <2>4, <3>1 DEF IsTree
  <2> QED
    BY <1>11, <2>5
<1> QED
  BY <1>13, <1>14

-----------------------------------------------------------------------------
(* The tree's order as a sequence, and the sequences that are read from    *)
(* the heap.                                                               *)
IsOrder(h, pos, c, order) == order \in Seq(DOMAIN h) /\ Len(order) = c /\ \A i \in 1..c : pos[order[i]] = i

LEMMA OrderExists ==
  ASSUME NEW h, NEW sub, NEW comp, NEW pos, NEW r, NEW f, NEW c, IsTree(h, sub, comp, pos, r, f, c)
  PROVE  \E order : IsOrder(h, pos, c, order)
<1> DEFINE D == DOMAIN h
           e(i) == CHOOSE m \in D : pos[m] = i
           order == [i \in 1..c |-> e(i)]
<1>1. c \in Nat /\ \A i \in 1..c : e(i) \in D /\ pos[e(i)] = i
  BY DEF IsTree
<1>2. order \in Seq(D) /\ Len(order) = c
  <2> HIDE DEF e
  <2> QED
    BY <1>1, IsASeq
<1>3. \A i \in 1..c : pos[order[i]] = i
  BY <1>1
<1> HIDE DEF order
<1>4. IsOrder(h, pos, c, order)
  BY <1>2, <1>3 DEF IsOrder
<1> QED
  BY <1>4

LEMMA OrderProperties ==
  ASSUME NEW h, NEW sub, NEW comp, NEW pos, NEW r, NEW f, NEW c, IsTree(h, sub, comp, pos, r, f, c),
         NEW order, IsOrder(h, pos, c, order)
  PROVE  /\ order \in Seq(DOMAIN h) /\ Len(order) = c /\ c \in Nat
         /\ \A i \in 1..c : order[i] \in DOMAIN h /\ pos[order[i]] = i
         /\ \A m \in DOMAIN h : pos[m] \in 1..c /\ order[pos[m]] = m
<1>1. order \in Seq(DOMAIN h) /\ Len(order) = c /\ c \in Nat /\ \A i \in 1..c : order[i] \in DOMAIN h /\ pos[order[i]] = i
  BY ElementOfSeq DEF IsOrder, IsTree
<1>2. \A m \in DOMAIN h : pos[m] \in 1..c
  BY DEF IsTree
<1>3. \A m, x \in DOMAIN h : pos[m] = pos[x] => m = x
  BY DEF IsTree, Forest, IsPlaced
<1> QED
  BY <1>1, <1>2, <1>3

(* The neighbours of a node.                                               *)
LEMMA OrderLinks ==
  ASSUME NEW h, NEW sub, NEW comp, NEW pos, NEW r, NEW f, NEW c, IsTree(h, sub, comp, pos, r, f, c),
         NEW order, IsOrder(h, pos, c, order), NEW i \in 1..c
  PROVE  /\ h[order[i]]["next"] = IF i = c THEN NULL ELSE order[i + 1]
         /\ h[order[i]]["prev"] = IF i = 1 THEN NULL ELSE order[i - 1]
<1> DEFINE D == DOMAIN h
           m == order[i]
<1>1. /\ c \in Nat /\ i \in Int
      /\ \A j \in 1..c : order[j] \in D /\ pos[order[j]] = j
      /\ \A x \in D : pos[x] \in 1..c /\ order[pos[x]] = x
  BY OrderProperties
<1>2. m \in D /\ pos[m] = i /\ comp[m] = D /\ NULL \notin D
  BY <1>1, TreeProperties
<1>3. "left" \in Sides /\ "right" \in Sides /\ Link("left") = "prev" /\ Link("right") = "next"
  BY DEF Sides, Link
<1>4. ASSUME NEW s \in Sides
      PROVE  LET l == h[m][Link(s)]
             IN  /\ l = NULL => \A x \in D : ~ Beyond(s, pos[x], i)
                 /\ l # NULL => /\ l \in D /\ Beyond(s, pos[l], i)
                                /\ \A x \in D : Beyond(s, pos[x], i) => x = l \/ Beyond(s, pos[x], pos[l])
  BY <1>2 DEF IsTree, Forest, LinksRight
<1>5. h[m]["next"] = IF i = c THEN NULL ELSE order[i + 1]
  <2> DEFINE l == h[m]["next"]
  <2>1. /\ l = NULL => \A x \in D : ~ (i < pos[x])
        /\ l # NULL => l \in D /\ i < pos[l] /\ \A x \in D : i < pos[x] => x = l \/ pos[l] < pos[x]
    BY <1>3, <1>4 DEF Beyond
  <2> HIDE DEF l
  <2>2. CASE i = c
    <3>1. l = NULL
      BY <1>1, <2>1, <2>2
    <3> QED
      BY <2>2, <3>1 DEF l
  <2>3. CASE i # c
    <3>1. order[i + 1] \in D /\ pos[order[i + 1]] = i + 1
      BY <1>1, <2>3
    <3>2. l = order[i + 1]
      BY <1>1, <2>1, <3>1
    <3> QED
      BY <2>3, <3>2 DEF l
  <2> QED
    BY <2>2, <2>3
<1>6. h[m]["prev"] = IF i = 1 THEN NULL ELSE order[i - 1]
  <2> DEFINE l == h[m]["prev"]
  <2>1. /\ l = NULL => \A x \in D : ~ (pos[x] < i)
        /\ l # NULL => l \in D /\ pos[l] < i /\ \A x \in D : pos[x] < i => x = l \/ pos[x] < pos[l]
    BY <1>3, <1>4 DEF Beyond
  <2> HIDE DEF l
  <2>2. CASE i = 1
    <3>1. l = NULL
      BY <1>1, <2>1, <2>2
    <3> QED
      BY <2>2, <3>1 DEF l
  <2>3. CASE i # 1
    <3>1. order[i - 1] \in D /\ pos[order[i - 1]] = i - 1
      BY <1>1, <2>3
    <3>2. l = order[i - 1]
      BY <1>1, <2>1, <3>1
    <3> QED
      BY <2>3, <3>2 DEF l
  <2> QED
    BY <2>2, <2>3
<1> QED
  BY <1>5, <1>6

IsWalk(e, h) == e = [m \in DOMAIN h \cup {NULL} |-> IF m = NULL THEN <<>> ELSE <<m>> \o e[h[m].next]]

(* The links lead through the whole tree in its order.                     *)
LEMMA FromOrder ==
  ASSUME NEW h, NEW sub, NEW comp, NEW pos, NEW r, NEW f, NEW c, IsTree(h, sub, comp, pos, r, f, c),
         NEW order, IsOrder(h, pos, c, order)
  PROVE  From(h, f) = order
<1> DEFINE D == DOMAIN h
           Rest(m) == SubSeq(order, pos[m], c)
           at == [m \in D \cup {NULL} |-> IF m = NULL THEN <<>> ELSE Rest(m)]
           e == CHOOSE e : IsWalk(e, h)
<1>1. /\ order \in Seq(D) /\ Len(order) = c /\ c \in Nat
      /\ \A j \in 1..c : order[j] \in D /\ pos[order[j]] = j
      /\ \A x \in D : pos[x] \in 1..c /\ order[pos[x]] = x
  BY OrderProperties
<1>2. NULL \notin D
  BY TreeProperties
<1>3. at[NULL] = <<>> /\ \A m \in D : at[m] = Rest(m)
  BY <1>2
<1>4. ASSUME NEW m \in D PROVE h[m]["next"] \in D \cup {NULL} /\ at[m] = <<m>> \o at[h[m]["next"]]
  <2> DEFINE i == pos[m]
  <2>1. i \in 1..c /\ order[i] = m /\ i \in 1..Len(order) /\ c \in i..Len(order)
    BY <1>1
  <2>2. h[m]["next"] = IF i = c THEN NULL ELSE order[i + 1]
    BY <2>1, OrderLinks
  <2> HIDE DEF i, D
  <2>3. SubSeq(order, i, c) = <<order[i]>> \o SubSeq(order, i + 1, c)
    BY <1>1, <2>1, SubSeqRecursiveFirst
  <2>4. at[h[m]["next"]] = SubSeq(order, i + 1, c) /\ h[m]["next"] \in D \cup {NULL}
    <3>1. CASE i = c
      <4>1. SubSeq(order, i + 1, c) = <<>>
        BY <2>1, <3>1, SubSeqEmpty
      <4> QED
        BY <1>3, <2>2, <3>1, <4>1
    <3>2. CASE i # c
      <4>1. order[i + 1] \in D /\ pos[order[i + 1]] = i + 1
        BY <1>1, <2>1, <3>2
      <4>2. at[order[i + 1]] = SubSeq(order, i + 1, c)
        BY <1>3, <4>1
      <4> QED
        BY <2>2, <3>2, <4>1, <4>2
    <3> QED
      BY <3>1, <3>2
  <2> QED
    BY <1>3, <2>1, <2>3, <2>4 DEF i
<1>5. IsWalk(at, h)
  <2>1. at = [m \in D \cup {NULL} |-> at[m]]
    OBVIOUS
  <2>2. \A m \in D \cup {NULL} : at[m] = IF m = NULL THEN <<>> ELSE <<m>> \o at[h[m]["next"]]
    BY <1>2, <1>3, <1>4
  <2> HIDE DEF at
  <2>3. at = [m \in D \cup {NULL} |-> IF m = NULL THEN <<>> ELSE <<m>> \o at[h[m]["next"]]]
    BY <2>1, <2>2
  <2> QED
    BY <2>3 DEF IsWalk
<1>6. IsWalk(e, h)
  <2> HIDE DEF at
  <2> QED
    BY <1>5
<1>7. From(h, f) = e[f]
  BY Zenon DEF From, IsWalk
<1> HIDE DEF e, at
<1>8. e[NULL] = <<>> /\ \A m \in D : e[m] = <<m>> \o e[h[m]["next"]]
  BY <1>2, <1>6 DEF IsWalk
<1>9. \A m \in D : e[m] = at[m]
  <2> DEFINE W == {m \in D : e[m] # at[m]}
  <2> SUFFICES ASSUME W # {} PROVE FALSE
    OBVIOUS
  <2>1. PICK rank \in [D -> Nat] : \A m \in D : h[m]["next"] # NULL => h[m]["next"] \in D /\ rank[h[m]["next"]] < rank[m]
    <3>1. "right" \in Sides /\ Link("right") = "next"
      BY DEF Sides, Link
    <3>2. Forest(h, sub, comp, pos)
      BY DEF IsTree
    <3>3. \E rank \in [D -> Nat] : \A m \in D : h[m][Link("right")] # NULL => h[m][Link("right")] \in D /\ rank[h[m][Link("right")]] < rank[m]
      BY <3>1, <3>2, LinkRank
    <3> QED
      BY <3>1, <3>3
  <2>2. W \in SUBSET D
    OBVIOUS
  <2>3. PICK m \in W : \A x \in W : rank[m] <= rank[x]
    <3> HIDE DEF W
    <3> QED
      BY <2>1, <2>2, LeastRank
  <2>4. m \in D /\ e[m] # at[m]
    OBVIOUS
  <2> DEFINE n == h[m]["next"]
  <2>5. e[n] = at[n]
    <3>1. CASE n = NULL
      BY <1>3, <1>8, <3>1
    <3>2. CASE n # NULL
      <4>1. n \in D /\ rank[n] < rank[m]
        BY <2>1, <2>4, <3>2
      <4>2. rank[n] \in Nat /\ rank[m] \in Nat
        BY <2>1, <2>4, <4>1
      <4>3. n \notin W
        BY <2>3, <4>1, <4>2
      <4> QED
        BY <4>1, <4>3
    <3> QED
      BY <3>1, <3>2
  <2>6. e[m] = <<m>> \o e[n] /\ at[m] = <<m>> \o at[n]
    BY <1>4, <1>8, <2>4
  <2> QED
    BY <2>4, <2>5, <2>6
<1>10. CASE c = 0
  <2>1. f = NULL
    BY <1>10, TreeProperties
  <2>2. order = <<>>
    BY <1>1, <1>10, EmptySeq
  <2> QED
    BY <1>7, <1>8, <2>1, <2>2
<1>11. CASE c # 0
  <2>1. f \in D /\ pos[f] = 1
    BY <1>11 DEF IsTree
  <2>2. at[f] = SubSeq(order, 1, Len(order))
    BY <1>1, <1>3, <2>1
  <2>3. SubSeq(order, 1, Len(order)) = order
    <3> HIDE DEF D
    <3> QED
      BY <1>1, SubSeqFull
  <2> QED
    BY <1>7, <1>9, <2>1, <2>2, <2>3
<1> QED
  BY <1>10, <1>11

-----------------------------------------------------------------------------
(* The invariant holds at the beginning, and every operation keeps it.     *)
LEMMA EmptyTree ==
  ASSUME NEW h, DOMAIN h = {}, h = [m \in DOMAIN h |-> h[m]]
  PROVE  \E sub, comp, pos : IsTree(h, sub, comp, pos, NULL, NULL, 0)
<1> DEFINE e == [m \in {} |-> {}]
<1>1. e \in [{} -> SUBSET {}] /\ e \in [{} -> Int] /\ e \in [{} -> 1..0] /\ IsFiniteSet(DOMAIN h)
  BY FS_EmptySet
<1>2. h \in [{} -> [Fields -> Int \cup Nodes \cup {NULL}]]
  OBVIOUS
<1> HIDE DEF e
<1>3. IsHeap(h) /\ IsPlaced(h, e) /\ IsNested(DOMAIN h, e, e) /\ ParentsRight(h, e, e)
  BY <1>1, <1>2 DEF IsHeap, IsPlaced, IsNested, ParentsRight
<1>4. /\ \A s \in Sides : BranchesRight(h, e, e, s) /\ LinksRight(h, e, e, s)
      /\ KeysRight(h, e, e, e) /\ NoGaps(DOMAIN h, e, e, e)
  BY DEF BranchesRight, LinksRight, KeysRight, NoGaps
<1>5. IsTree(h, e, e, e, NULL, NULL, 0)
  BY <1>1, <1>3, <1>4 DEF IsTree, Forest
<1> QED
  BY <1>5

LEMMA InsertStep ==
  ASSUME NEW sub, NEW comp, NEW pos, IsTree(heap, sub, comp, pos, root, firstNode, count), NEW k \in Keys, Insert(k)
  PROVE  \E new \in Nodes \ DOMAIN heap : \E sub2, comp2, pos2 :
           /\ IsTree(heap', sub2, comp2, pos2, root', firstNode', count')
           /\ SameOrder(DOMAIN heap, pos, pos2) /\ IsInserted(heap, pos, count, k, new, heap', pos2)
           /\ count' = count + 1 /\ current' = current /\ passed' = passed /\ ahead' = ahead
<1> DEFINE new == CHOOSE n \in Nodes \ DOMAIN heap : TRUE
           h1 == With(heap, new, Node(k))
           g == IF count = 0 THEN h1 ELSE Attach(h1, new, Place(heap, root, k))
           f2 == IF count = 0 THEN new ELSE IF g[firstNode]["left"] # NULL THEN g[firstNode]["left"] ELSE firstNode
           r2 == IF count = 0 THEN new ELSE root
<1>2. new \in Nodes /\ new \notin DOMAIN heap /\ k \in Int
  BY KeysAssumption DEF Insert
<1> HIDE DEF new
<1>3. heap' = IF count = 0 THEN [n \in DOMAIN heap \cup {new} |-> IF n = new THEN Node(k) ELSE heap[n]]
              ELSE Attach([n \in DOMAIN heap \cup {new} |-> IF n = new THEN Node(k) ELSE heap[n]], new, Place(heap, root, k))
  BY Zenon DEF Insert, new
<1>4. heap' = g
  BY <1>3 DEF With
<1>5. root' = r2 /\ count' = count + 1 /\ current' = current /\ passed' = passed /\ ahead' = ahead
  BY DEF Insert, new
<1>6. firstNode' = f2
  <2>1. firstNode' = CASE count = 0 -> new
                       [] count # 0 /\ heap'[firstNode]["left"] # NULL -> heap'[firstNode]["left"]
                       [] OTHER -> firstNode
    BY Zenon DEF Insert, new
  <2> HIDE DEF g
  <2>2. CASE count = 0
    BY <2>1, <2>2
  <2>3. CASE count # 0 /\ heap'[firstNode]["left"] # NULL
    BY <1>4, <2>1, <2>3
  <2>4. CASE count # 0 /\ heap'[firstNode]["left"] = NULL
    BY <1>4, <2>1, <2>4
  <2> QED
    BY <2>2, <2>3, <2>4
<1>7. PICK sub2, comp2, pos2 : /\ IsTree(g, sub2, comp2, pos2, r2, f2, count + 1)
                               /\ SameOrder(DOMAIN heap, pos, pos2) /\ IsInserted(heap, pos, count, k, new, g, pos2)
  <2> DEFINE ff == f2
             gg == g
             hh == h1
  <2>1. /\ hh = With(heap, new, Node(k)) /\ gg = (IF count = 0 THEN hh ELSE Attach(hh, new, Place(heap, root, k)))
        /\ ff = IF count = 0 THEN new ELSE IF gg[firstNode]["left"] # NULL THEN gg[firstNode]["left"] ELSE firstNode
    OBVIOUS
  <2>2. gg = g /\ ff = f2
    OBVIOUS
  <2> HIDE DEF hh, gg, ff
  <2>3. \E sub2, comp2, pos2 : /\ IsTree(gg, sub2, comp2, pos2, IF count = 0 THEN new ELSE root, ff, count + 1)
                               /\ SameOrder(DOMAIN heap, pos, pos2) /\ IsInserted(heap, pos, count, k, new, gg, pos2)
    BY <1>2, <2>1, InsertTree
  <2> HIDE DEF g, f2
  <2> QED
    BY <2>2, <2>3
<1> HIDE DEF g, f2, r2
<1> QED
  BY <1>2, <1>4, <1>5, <1>6, <1>7

LEMMA InsertKeepsTree ==
  ASSUME TreeInv, NEW k \in Keys, Insert(k)
  PROVE  TreeInv'
<1>1. PICK sub, comp, pos : IsTree(heap, sub, comp, pos, root, firstNode, count) /\ KeepsPlace(DOMAIN heap, pos)
  BY DEF TreeInv
<1>2. \E new \in Nodes \ DOMAIN heap : \E sub2, comp2, pos2 :
        /\ IsTree(heap', sub2, comp2, pos2, root', firstNode', count')
        /\ SameOrder(DOMAIN heap, pos, pos2) /\ IsInserted(heap, pos, count, k, new, heap', pos2)
        /\ count' = count + 1 /\ current' = current /\ passed' = passed /\ ahead' = ahead
  BY <1>1, InsertStep
<1>3. PICK new \in Nodes \ DOMAIN heap : \E sub2, comp2, pos2 :
        /\ IsTree(heap', sub2, comp2, pos2, root', firstNode', count')
        /\ SameOrder(DOMAIN heap, pos, pos2) /\ IsInserted(heap, pos, count, k, new, heap', pos2)
        /\ count' = count + 1 /\ current' = current /\ passed' = passed /\ ahead' = ahead
  BY <1>2
<1>4. PICK sub2, comp2, pos2 :
        /\ IsTree(heap', sub2, comp2, pos2, root', firstNode', count')
        /\ SameOrder(DOMAIN heap, pos, pos2) /\ IsInserted(heap, pos, count, k, new, heap', pos2)
        /\ count' = count + 1 /\ current' = current /\ passed' = passed /\ ahead' = ahead
  BY <1>3
<1>5. KeepsPlace(DOMAIN heap, pos2)'
  <2>1. DOMAIN heap \subseteq DOMAIN heap'
    BY <1>4 DEF IsInserted
  <2>2. IF current = NULL THEN ahead = {}
        ELSE /\ current \in DOMAIN heap' /\ passed \subseteq DOMAIN heap' /\ ahead \subseteq DOMAIN heap'
             /\ \A n \in passed : pos2[n] < pos2[current]
             /\ \A n \in ahead : pos2[current] < pos2[n]
    BY <1>1, <1>4, <2>1 DEF KeepsPlace, SameOrder
  <2> QED
    BY <1>4, <2>2 DEF KeepsPlace
<1> QED
  BY <1>4, <1>5 DEF TreeInv

LEMMA EraseStep ==
  ASSUME NEW sub, NEW comp, NEW pos, IsTree(heap, sub, comp, pos, root, firstNode, count), NEW k \in Keys, Erase(k)
  PROVE  \E n \in DOMAIN heap : \E sub2, comp2, pos2 :
           /\ IsTree(heap', sub2, comp2, pos2, root', firstNode', count')
           /\ SameOrder(DOMAIN heap \ {n}, pos, pos2) /\ IsErased(heap, pos, n, heap', pos2)
           /\ heap[n]["key"] = k /\ count' = count - 1
           /\ current' = IF current = n THEN NULL ELSE current
           /\ passed' = IF current = n THEN {} ELSE passed \ {n}
           /\ ahead' = IF current = n THEN {} ELSE ahead \ {n}
<1> DEFINE n == GetBranch(heap, root, k)
           g == Less(Without(heap, n).h, n)
           f2 == IF n = firstNode THEN heap[n]["next"] ELSE firstNode
           r2 == IF f2 = NULL THEN NULL ELSE Without(heap, n).root
<1>2. n \in DOMAIN heap /\ heap[n]["key"] = k
  <2>1. root # NULL /\ n # NULL
    BY DEF Erase
  <2>2. root \in DOMAIN heap /\ NULL \notin DOMAIN heap
    BY <2>1, TreeProperties DEF IsTree
  <2>3. PICK rank \in [DOMAIN heap -> Nat] : \A m \in DOMAIN heap, s \in Sides :
          heap[m][s] # NULL => heap[m][s] \in DOMAIN heap /\ rank[heap[m][s]] < rank[m]
    <3>1. Forest(heap, sub, comp, pos)
      BY DEF IsTree
    <3> QED
      BY <3>1, BranchRank
  <2>4. \A m \in DOMAIN heap : Side(k, heap, m) \in Sides
    BY DEF Side, Sides
  <2>5. \A m \in DOMAIN heap : heap[m][Side(k, heap, m)] # NULL =>
          heap[m][Side(k, heap, m)] \in DOMAIN heap /\ rank[heap[m][Side(k, heap, m)]] < rank[m]
    BY <2>3, <2>4
  <2> QED
    BY <2>1, <2>2, <2>5, GetBranchEnds
<1>3. /\ EraseNode(n)
      /\ current' = IF current = n THEN NULL ELSE current
      /\ passed' = IF current = n THEN {} ELSE passed \ {n}
      /\ ahead' = IF current = n THEN {} ELSE ahead \ {n}
  BY DEF Erase
<1> HIDE DEF n
<1>4. heap' = g /\ firstNode' = f2 /\ count' = count - 1
  BY <1>3 DEF EraseNode, Less
<1>5. root' = r2
  BY <1>3, <1>4 DEF EraseNode
<1>6. PICK sub2, comp2, pos2 : /\ IsTree(g, sub2, comp2, pos2, r2, f2, count - 1)
                               /\ SameOrder(DOMAIN heap \ {n}, pos, pos2) /\ IsErased(heap, pos, n, g, pos2)
  <2> DEFINE gg == g
             ff == f2
             rr == r2
  <2>1. /\ gg = Less(Without(heap, n).h, n) /\ ff = (IF n = firstNode THEN heap[n]["next"] ELSE firstNode)
        /\ rr = IF ff = NULL THEN NULL ELSE Without(heap, n).root
    OBVIOUS
  <2>2. gg = g /\ ff = f2 /\ rr = r2
    OBVIOUS
  <2> HIDE DEF gg, ff, rr
  <2>3. \E sub2, comp2, pos2 : /\ IsTree(gg, sub2, comp2, pos2, rr, ff, count - 1)
                               /\ SameOrder(DOMAIN heap \ {n}, pos, pos2) /\ IsErased(heap, pos, n, gg, pos2)
    BY <1>2, <2>1, EraseTree
  <2> HIDE DEF g, f2, r2
  <2> QED
    BY <2>2, <2>3
<1> HIDE DEF g, f2, r2
<1>7. /\ IsTree(heap', sub2, comp2, pos2, root', firstNode', count')
      /\ SameOrder(DOMAIN heap \ {n}, pos, pos2) /\ IsErased(heap, pos, n, heap', pos2)
  BY <1>4, <1>5, <1>6
<1> QED
  BY <1>2, <1>3, <1>4, <1>7

LEMMA EraseKeepsTree ==
  ASSUME TreeInv, NEW k \in Keys, Erase(k)
  PROVE  TreeInv'
<1>1. PICK sub, comp, pos : IsTree(heap, sub, comp, pos, root, firstNode, count) /\ KeepsPlace(DOMAIN heap, pos)
  BY DEF TreeInv
<1>2. PICK n \in DOMAIN heap : \E sub2, comp2, pos2 :
        /\ IsTree(heap', sub2, comp2, pos2, root', firstNode', count')
        /\ SameOrder(DOMAIN heap \ {n}, pos, pos2) /\ IsErased(heap, pos, n, heap', pos2)
        /\ heap[n]["key"] = k /\ count' = count - 1
        /\ current' = IF current = n THEN NULL ELSE current
        /\ passed' = IF current = n THEN {} ELSE passed \ {n}
        /\ ahead' = IF current = n THEN {} ELSE ahead \ {n}
  BY <1>1, EraseStep
<1>5. PICK sub2, comp2, pos2 :
        /\ IsTree(heap', sub2, comp2, pos2, root', firstNode', count')
        /\ SameOrder(DOMAIN heap \ {n}, pos, pos2) /\ IsErased(heap, pos, n, heap', pos2)
        /\ heap[n]["key"] = k /\ count' = count - 1
        /\ current' = IF current = n THEN NULL ELSE current
        /\ passed' = IF current = n THEN {} ELSE passed \ {n}
        /\ ahead' = IF current = n THEN {} ELSE ahead \ {n}
  BY <1>2
<1>3. DOMAIN heap' = DOMAIN heap \ {n}
  BY <1>5 DEF IsErased
<1>4. KeepsPlace(DOMAIN heap, pos2)'
  <2>1. CASE current = n
    BY <1>5, <2>1 DEF KeepsPlace
  <2>2. CASE current # n
    <3> DEFINE E == DOMAIN heap \ {n}
    <3>1. current' = current /\ passed' = passed \ {n} /\ ahead' = ahead \ {n} /\ DOMAIN heap' = E
      BY <1>5, <1>3, <2>2
    <3>2. CASE current = NULL
      BY <1>1, <3>1, <3>2 DEF KeepsPlace
    <3>3. CASE current # NULL
      <4>1. /\ current \in E /\ passed \ {n} \subseteq E /\ ahead \ {n} \subseteq E
            /\ \A x \in passed \ {n} : pos[x] < pos[current]
            /\ \A x \in ahead \ {n} : pos[current] < pos[x]
        BY <1>1, <2>2, <3>3 DEF KeepsPlace
      <4>2. /\ \A x \in passed \ {n} : pos2[x] < pos2[current]
            /\ \A x \in ahead \ {n} : pos2[current] < pos2[x]
        BY <1>5, <4>1 DEF SameOrder
      <4> HIDE DEF E
      <4> QED
        BY <3>1, <3>3, <4>1, <4>2 DEF KeepsPlace
    <3> QED
      BY <3>2, <3>3
  <2> QED
    BY <2>1, <2>2
<1> QED
  BY <1>5, <1>4 DEF TreeInv

LEMMA IterationKeepsTree ==
  ASSUME TreeInv, Begin \/ Forward \/ Backward
  PROVE  TreeInv'
<1>1. PICK sub, comp, pos : IsTree(heap, sub, comp, pos, root, firstNode, count) /\ KeepsPlace(DOMAIN heap, pos)
  BY DEF TreeInv
<1> DEFINE D == DOMAIN heap
<1>2. heap' = heap /\ root' = root /\ firstNode' = firstNode /\ count' = count
  BY DEF Begin, Forward, Backward
<1>3. /\ \A m \in D : comp[m] = D /\ pos[m] \in Int
      /\ NULL \notin D /\ \A m, x \in D : pos[m] = pos[x] => m = x
      /\ Forest(heap, sub, comp, pos)
  <2>1. (\A m \in D : comp[m] = D /\ pos[m] \in Int) /\ NULL \notin D
    BY <1>1, TreeProperties
  <2> QED
    BY <1>1, <2>1 DEF IsTree, Forest, IsPlaced
<1>4. KeepsPlace(D, pos)'
  <2>1. CASE Begin
    <3>1. current' = firstNode /\ passed' = {} /\ ahead' = D \ {firstNode}
      BY <2>1 DEF Begin
    <3>2. CASE count = 0
      <4>1. firstNode = NULL /\ D = {}
        BY <1>1, <3>2, TreeProperties
      <4> QED
        BY <3>1, <4>1 DEF KeepsPlace
    <3>3. CASE count # 0
      <4>1. firstNode \in D /\ pos[firstNode] = 1 /\ \A m \in D : pos[m] >= 1
        BY <1>1, <3>3 DEF IsTree
      <4>2. \A m \in D \ {firstNode} : pos[firstNode] < pos[m]
        BY <1>3, <4>1
      <4> QED
        BY <1>2, <1>3, <3>1, <4>1, <4>2 DEF KeepsPlace
    <3> QED
      BY <3>2, <3>3
  <2>2. CASE Forward
    <3> DEFINE l == heap[current]["next"]
    <3>1. /\ current \in D /\ current' = l /\ passed' = (IF l = NULL THEN {} ELSE passed \cup {current})
          /\ ahead' = ahead \ {l}
      BY <2>2 DEF Forward
    <3>2. /\ l = NULL => \A x \in D : ~ (pos[current] < pos[x])
          /\ l # NULL => l \in D /\ pos[current] < pos[l] /\ \A x \in D : pos[current] < pos[x] => x = l \/ pos[l] < pos[x]
      <4>1. "right" \in Sides /\ Link("right") = "next" /\ \A i, j \in Int : Beyond("right", i, j) <=> j < i
        BY DEF Sides, Link, Beyond
      <4>2. LinksRight(heap, comp, pos, "right")
        BY <1>3, <4>1 DEF Forest
      <4>3. /\ l = NULL => \A x \in D : ~ Beyond("right", pos[x], pos[current])
            /\ l # NULL => /\ l \in D /\ Beyond("right", pos[l], pos[current])
                           /\ \A x \in D : Beyond("right", pos[x], pos[current]) => x = l \/ Beyond("right", pos[x], pos[l])
        BY <1>3, <3>1, <4>1, <4>2 DEF LinksRight
      <4> HIDE DEF l
      <4> QED
        BY <1>3, <3>1, <4>1, <4>3
    <3>3. passed \subseteq D /\ ahead \subseteq D /\ (\A x \in passed : pos[x] < pos[current]) /\ (\A x \in ahead : pos[current] < pos[x])
      BY <1>1, <1>3, <3>1 DEF KeepsPlace
    <3> HIDE DEF l
    <3>4. CASE l = NULL
      <4>1. ahead' = {}
        BY <3>1, <3>2, <3>3, <3>4
      <4> QED
        BY <3>1, <3>4, <4>1 DEF KeepsPlace
    <3>5. CASE l # NULL
      <4>1. \A x \in passed \cup {current} : x \in D /\ pos[x] < pos[l]
        BY <1>3, <3>1, <3>2, <3>3, <3>5
      <4>2. \A x \in ahead \ {l} : x \in D /\ pos[l] < pos[x]
        BY <3>2, <3>3, <3>5
      <4> QED
        BY <1>2, <3>1, <3>2, <3>5, <4>1, <4>2 DEF KeepsPlace
    <3> QED
      BY <3>4, <3>5
  <2>3. CASE Backward
    <3> DEFINE l == heap[current]["prev"]
    <3>1. /\ current \in D /\ current' = l /\ ahead' = (IF l = NULL THEN {} ELSE ahead \cup {current})
          /\ passed' = passed \ {l}
      BY <2>3 DEF Backward
    <3>2. l # NULL => l \in D /\ pos[l] < pos[current] /\ \A x \in D : pos[x] < pos[current] => x = l \/ pos[x] < pos[l]
      <4>1. "left" \in Sides /\ Link("left") = "prev" /\ \A i, j \in Int : Beyond("left", i, j) <=> i < j
        BY DEF Sides, Link, Beyond
      <4>2. LinksRight(heap, comp, pos, "left")
        BY <1>3, <4>1 DEF Forest
      <4>3. l # NULL => /\ l \in D /\ Beyond("left", pos[l], pos[current])
                        /\ \A x \in D : Beyond("left", pos[x], pos[current]) => x = l \/ Beyond("left", pos[x], pos[l])
        BY <1>3, <3>1, <4>1, <4>2 DEF LinksRight
      <4> HIDE DEF l
      <4> QED
        BY <1>3, <3>1, <4>1, <4>3
    <3>3. passed \subseteq D /\ ahead \subseteq D /\ (\A x \in passed : pos[x] < pos[current]) /\ (\A x \in ahead : pos[current] < pos[x])
      BY <1>1, <1>3, <3>1 DEF KeepsPlace
    <3> HIDE DEF l
    <3>4. CASE l = NULL
      BY <3>1, <3>4 DEF KeepsPlace
    <3>5. CASE l # NULL
      <4>1. \A x \in ahead \cup {current} : x \in D /\ pos[l] < pos[x]
        BY <1>3, <3>1, <3>2, <3>3, <3>5
      <4>2. \A x \in passed \ {l} : x \in D /\ pos[x] < pos[l]
        BY <3>2, <3>3, <3>5
      <4> QED
        BY <1>2, <3>1, <3>2, <3>5, <4>1, <4>2 DEF KeepsPlace
    <3> QED
      BY <3>4, <3>5
  <2> QED
    BY <2>1, <2>2, <2>3
<1>5. IsTree(heap', sub, comp, pos, root', firstNode', count')
  BY <1>1, <1>2
<1> QED
  BY <1>4, <1>5 DEF TreeInv

LEMMA DestroyKeepsTree ==
  ASSUME TreeInv, TreeDestroy
  PROVE  TreeInv'
<1>1. PICK sub, comp, pos : IsTree(heap, sub, comp, pos, root, firstNode, count)
  BY DEF TreeInv
<1>2. PICK order : IsOrder(heap, pos, count, order)
  BY <1>1, OrderExists
<1>3. /\ order \in Seq(DOMAIN heap) /\ Len(order) = count /\ count \in Nat
      /\ \A m \in DOMAIN heap : pos[m] \in 1..count /\ order[pos[m]] = m
  BY <1>1, <1>2, OrderProperties
<1>4. From(heap, firstNode) = order
  BY <1>1, <1>2, FromOrder
<1>5. {order[i] : i \in DOMAIN order} = DOMAIN heap
  <2>1. DOMAIN order = 1..count
    BY <1>3, LenProperties
  <2>2. \A i \in 1..count : order[i] \in DOMAIN heap
    BY <1>1, <1>2, OrderProperties
  <2> QED
    BY <1>3, <2>1, <2>2
<1>6. /\ heap' = [n \in DOMAIN heap \ {From(heap, firstNode)[i] : i \in DOMAIN From(heap, firstNode)} |-> heap[n]]
      /\ root' = NULL /\ firstNode' = NULL /\ count' = 0 /\ current' = NULL /\ ahead' = {}
  BY DEF TreeDestroy
<1>7. DOMAIN heap' = {} /\ heap' = [n \in DOMAIN heap' |-> heap'[n]]
  BY <1>4, <1>5, <1>6
<1>8. \E sub2, comp2, pos2 : IsTree(heap', sub2, comp2, pos2, NULL, NULL, 0)
  BY <1>7, EmptyTree
<1>9. \A pos2 : KeepsPlace(DOMAIN heap, pos2)'
  BY <1>6 DEF KeepsPlace
<1> QED
  BY <1>6, <1>8, <1>9 DEF TreeInv

(* Whatever is inserted and erased, in whatever order: the nodes in use    *)
(* are one tree, and its links are the tree's order.                       *)
THEOREM TreeStaysWhole == TreeSpec => []TreeInv
<1>1. TreeInit => TreeInv
  <2> SUFFICES ASSUME TreeInit PROVE TreeInv
    OBVIOUS
  <2>1. DOMAIN heap = {} /\ heap = [n \in DOMAIN heap |-> heap[n]] /\ root = NULL /\ firstNode = NULL /\ count = 0
        /\ current = NULL /\ ahead = {}
    BY DEF TreeInit
  <2>2. \E sub, comp, pos : IsTree(heap, sub, comp, pos, NULL, NULL, 0)
    BY <2>1, EmptyTree
  <2>3. \A pos : KeepsPlace(DOMAIN heap, pos)
    BY <2>1 DEF KeepsPlace
  <2> QED
    BY <2>1, <2>2, <2>3 DEF TreeInv
<1>2. TreeInv /\ [TreeNext]_treeVars => TreeInv'
  <2> SUFFICES ASSUME TreeInv, [TreeNext]_treeVars PROVE TreeInv'
    OBVIOUS
  <2>1. CASE Begin \/ Forward \/ Backward
    BY <2>1, IterationKeepsTree
  <2>2. CASE TreeDestroy
    BY <2>2, DestroyKeepsTree
  <2>3. CASE \E k \in Keys : Insert(k)
    BY <2>3, InsertKeepsTree
  <2>4. CASE \E k \in Keys : Erase(k)
    BY <2>4, EraseKeepsTree
  <2>5. CASE UNCHANGED treeVars
    BY <2>5 DEF treeVars, TreeInv, KeepsPlace
  <2> QED
    BY <2>1, <2>2, <2>3, <2>4, <2>5 DEF TreeNext
<1> QED
  BY <1>1, <1>2, PTL DEF TreeSpec

-----------------------------------------------------------------------------
(* The properties.                                                         *)

(* The positions of a branch's nodes have no gap.                          *)
LEMMA BranchSpan ==
  ASSUME NEW h, NEW sub, NEW comp, NEW pos, NEW r, NEW f, NEW c, IsTree(h, sub, comp, pos, r, f, c)
  PROVE  \E lo, hi \in [DOMAIN h -> 1..c] : \A m \in DOMAIN h :
           /\ lo[m] <= pos[m] /\ pos[m] <= hi[m]
           /\ \A x \in DOMAIN h : x \in sub[m] <=> lo[m] <= pos[x] /\ pos[x] <= hi[m]
<1> DEFINE D == DOMAIN h
           lo == [m \in D |-> pos[Along(h, m, "left")]]
           hi == [m \in D |-> pos[Along(h, m, "right")]]
<1>1. /\ Forest(h, sub, comp, pos) /\ c \in Nat /\ pos \in [D -> 1..c]
      /\ \A m, x \in D : pos[m] = pos[x] => m = x
      /\ sub \in [D -> SUBSET D] /\ \A m \in D : m \in sub[m]
  BY DEF IsTree, Forest, IsPlaced, IsNested
<1>2. \A m \in D : comp[m] = D
  BY TreeProperties
<1>3. ASSUME NEW m \in D
      PROVE  /\ lo[m] \in 1..c /\ hi[m] \in 1..c /\ lo[m] <= pos[m] /\ pos[m] <= hi[m]
             /\ \A x \in D : x \in sub[m] <=> lo[m] <= pos[x] /\ pos[x] <= hi[m]
  <2> DEFINE a == Along(h, m, "left")
             z == Along(h, m, "right")
  <2>1. a \in sub[m] /\ \A x \in sub[m] : ~ Beyond("left", pos[x], pos[a])
    BY <1>1, BranchEnd DEF Sides
  <2>2. z \in sub[m] /\ \A x \in sub[m] : ~ Beyond("right", pos[x], pos[z])
    BY <1>1, BranchEnd DEF Sides
  <2>3. lo[m] = pos[a] /\ hi[m] = pos[z]
    OBVIOUS
  <2> HIDE DEF a, z, lo, hi
  <2>4. a \in D /\ z \in D /\ \A x \in sub[m] : x \in D /\ pos[a] <= pos[x] /\ pos[x] <= pos[z]
    <3>1. \A x \in D : pos[x] \in Int
      BY <1>1
    <3> QED
      BY <1>1, <2>1, <2>2, <3>1 DEF Beyond
  <2>5. ASSUME NEW x \in D, pos[a] <= pos[x], pos[x] <= pos[z] PROVE x \in sub[m]
    <3>1. CASE x = a \/ x = z
      BY <2>1, <2>2, <3>1
    <3>2. CASE x # a /\ x # z
      <4>1. pos[a] < pos[x] /\ pos[x] < pos[z]
        BY <1>1, <2>4, <2>5, <3>2
      <4>2. x \in comp[m]
        BY <1>2
      <4> QED
        BY <1>1, <2>1, <2>2, <4>1, <4>2 DEF Forest, NoGaps
    <3> QED
      BY <3>1, <3>2
  <2> QED
    BY <1>1, <2>3, <2>4, <2>5
<1>4. lo \in [D -> 1..c] /\ hi \in [D -> 1..c]
  BY <1>3
<1> HIDE DEF lo, hi
<1> QED
  BY <1>3, <1>4

IsListing(e, h) ==
  e = [m \in DOMAIN h \cup {NULL} |-> IF m = NULL THEN <<>> ELSE e[h[m].left] \o <<m>> \o e[h[m].right]]

(* The tree from left to right is the order.                               *)
LEMMA InOrderIsOrder ==
  ASSUME NEW sub, NEW comp, NEW pos, NEW f, NEW c, IsTree(heap, sub, comp, pos, root, f, c),
         NEW order, IsOrder(heap, pos, c, order)
  PROVE  InOrder(root) = order
<1> DEFINE D == DOMAIN heap
           l(m) == heap[m]["left"]
           r(m) == heap[m]["right"]
           e == CHOOSE e : IsListing(e, heap)
<1>1. /\ order \in Seq(D) /\ Len(order) = c /\ c \in Nat
      /\ \A j \in 1..c : order[j] \in D /\ pos[order[j]] = j
      /\ \A x \in D : pos[x] \in 1..c /\ order[pos[x]] = x
  BY OrderProperties
<1>2. NULL \notin D
  BY TreeProperties
<1>21. Forest(heap, sub, comp, pos) /\ \A m \in D : m \in sub[m]
  BY DEF IsTree, Forest, IsNested
<1>22. "left" \in Sides /\ "right" \in Sides
  BY DEF Sides
<1>3. PICK lo \in [D -> 1..c], hi \in [D -> 1..c] : \A m \in D :
           /\ lo[m] <= pos[m] /\ pos[m] <= hi[m]
           /\ \A x \in D : x \in sub[m] <=> lo[m] <= pos[x] /\ pos[x] <= hi[m]
  BY BranchSpan
<1> DEFINE Part(m) == SubSeq(order, lo[m], hi[m])
           at == [m \in D \cup {NULL} |-> IF m = NULL THEN <<>> ELSE Part(m)]
<1>4. at[NULL] = <<>> /\ \A m \in D : at[m] = Part(m)
  BY <1>2
<1>5. ASSUME NEW m \in D PROVE l(m) \in D \cup {NULL} /\ at[l(m)] = SubSeq(order, lo[m], pos[m] - 1)
  <2>1. pos[m] \in 1..c /\ lo[m] \in 1..c /\ lo[m] <= pos[m] /\ order[lo[m]] \in D /\ pos[order[lo[m]]] = lo[m]
        /\ hi[m] \in 1..c /\ pos[m] <= hi[m]
    BY <1>1, <1>3
  <2>2. CASE l(m) = NULL
    <3>1. \A x \in sub[m] : ~ (pos[x] < pos[m])
      BY <1>21, <1>22, <2>2 DEF Forest, BranchesRight, Beyond
    <3>2. order[lo[m]] \in sub[m]
      BY <1>3, <2>1
    <3>3. pos[m] - 1 < lo[m]
      BY <2>1, <3>1, <3>2
    <3>4. SubSeq(order, lo[m], pos[m] - 1) = <<>>
      BY <2>1, <3>3, SubSeqEmpty
    <3> QED
      BY <1>4, <2>2, <3>4
  <2>3. CASE l(m) # NULL
    <3> DEFINE b == l(m)
    <3>1. b \in D /\ \A x \in D : x \in sub[b] <=> x \in sub[m] /\ pos[x] < pos[m]
      BY <1>21, <1>22, <2>3 DEF Forest, BranchesRight, Beyond
    <3> HIDE DEF b
    <3>2. /\ b \in sub[b] /\ pos[b] \in 1..c /\ lo[b] \in 1..c /\ hi[b] \in 1..c /\ lo[b] <= pos[b] /\ pos[b] <= hi[b]
          /\ order[lo[b]] \in D /\ pos[order[lo[b]]] = lo[b] /\ order[hi[b]] \in D /\ pos[order[hi[b]]] = hi[b]
      BY <1>1, <1>21, <1>3, <3>1
    <3>3. \A x \in D : lo[b] <= pos[x] /\ pos[x] <= hi[b] <=> lo[m] <= pos[x] /\ pos[x] <= hi[m] /\ pos[x] < pos[m]
      BY <1>3, <3>1
    <3>4. lo[m] <= lo[b] /\ hi[b] < pos[m] /\ lo[m] <= pos[b]
      BY <2>1, <3>1, <3>2, <3>3
    <3>5. lo[b] <= lo[m]
      BY <2>1, <3>2, <3>3, <3>4
    <3>6. pos[m] - 1 \in 1..c
      <4>1. c \in Nat /\ pos[m] \in 1..c /\ pos[b] \in 1..c /\ pos[b] <= hi[b] /\ hi[b] < pos[m] /\ hi[b] \in 1..c
        BY <1>1, <2>1, <3>2, <3>4
      <4> QED
        BY <4>1
    <3>7. order[pos[m] - 1] \in D /\ pos[order[pos[m] - 1]] = pos[m] - 1
      BY <1>1, <3>6
    <3>8. pos[m] - 1 <= hi[b]
      BY <2>1, <3>2, <3>3, <3>4, <3>7
    <3>9. lo[b] = lo[m] /\ hi[b] = pos[m] - 1
      BY <2>1, <3>2, <3>4, <3>5, <3>8
    <3> QED
      BY <1>4, <3>1, <3>9 DEF b
  <2> QED
    BY <2>2, <2>3
<1>6. ASSUME NEW m \in D PROVE r(m) \in D \cup {NULL} /\ at[r(m)] = SubSeq(order, pos[m] + 1, hi[m])
  <2>1. pos[m] \in 1..c /\ hi[m] \in 1..c /\ pos[m] <= hi[m] /\ order[hi[m]] \in D /\ pos[order[hi[m]]] = hi[m]
        /\ lo[m] \in 1..c /\ lo[m] <= pos[m]
    BY <1>1, <1>3
  <2>2. CASE r(m) = NULL
    <3>1. \A x \in sub[m] : ~ (pos[m] < pos[x])
      BY <1>21, <1>22, <2>2 DEF Forest, BranchesRight, Beyond
    <3>2. order[hi[m]] \in sub[m]
      BY <1>3, <2>1
    <3>3. hi[m] < pos[m] + 1
      BY <2>1, <3>1, <3>2
    <3>4. SubSeq(order, pos[m] + 1, hi[m]) = <<>>
      BY <2>1, <3>3, SubSeqEmpty
    <3> QED
      BY <1>4, <2>2, <3>4
  <2>3. CASE r(m) # NULL
    <3> DEFINE b == r(m)
    <3>1. b \in D /\ \A x \in D : x \in sub[b] <=> x \in sub[m] /\ pos[m] < pos[x]
      BY <1>21, <1>22, <2>3 DEF Forest, BranchesRight, Beyond
    <3> HIDE DEF b
    <3>2. /\ b \in sub[b] /\ pos[b] \in 1..c /\ lo[b] \in 1..c /\ hi[b] \in 1..c /\ lo[b] <= pos[b] /\ pos[b] <= hi[b]
          /\ order[lo[b]] \in D /\ pos[order[lo[b]]] = lo[b] /\ order[hi[b]] \in D /\ pos[order[hi[b]]] = hi[b]
      BY <1>1, <1>21, <1>3, <3>1
    <3>3. \A x \in D : lo[b] <= pos[x] /\ pos[x] <= hi[b] <=> lo[m] <= pos[x] /\ pos[x] <= hi[m] /\ pos[m] < pos[x]
      BY <1>3, <3>1
    <3>4. hi[b] <= hi[m] /\ pos[m] < lo[b] /\ pos[b] <= hi[m]
      BY <2>1, <3>1, <3>2, <3>3
    <3>5. hi[m] <= hi[b]
      BY <2>1, <3>2, <3>3, <3>4
    <3>6. pos[m] + 1 \in 1..c
      <4>1. c \in Nat /\ pos[m] \in 1..c /\ pos[b] \in 1..c /\ lo[b] <= pos[b] /\ pos[m] < lo[b] /\ lo[b] \in 1..c
        BY <1>1, <2>1, <3>2, <3>4
      <4> QED
        BY <4>1
    <3>7. order[pos[m] + 1] \in D /\ pos[order[pos[m] + 1]] = pos[m] + 1
      BY <1>1, <3>6
    <3>8. lo[b] <= pos[m] + 1
      BY <2>1, <3>2, <3>3, <3>4, <3>7
    <3>9. hi[b] = hi[m] /\ lo[b] = pos[m] + 1
      BY <2>1, <3>2, <3>4, <3>5, <3>8
    <3> QED
      BY <1>4, <3>1, <3>9 DEF b
  <2> QED
    BY <2>2, <2>3
<1>7. ASSUME NEW m \in D PROVE at[m] = at[l(m)] \o <<m>> \o at[r(m)]
  <2> DEFINE i == pos[m]
             a == lo[m]
             z == hi[m]
  <2>1. i \in 1..c /\ a \in 1..c /\ z \in 1..c /\ a <= i /\ i <= z /\ order[i] = m
    BY <1>1, <1>3
  <2>2. at[m] = SubSeq(order, a, z) /\ at[l(m)] = SubSeq(order, a, i - 1) /\ at[r(m)] = SubSeq(order, i + 1, z)
    BY <1>4, <1>5, <1>6
  <2> HIDE DEF i, a, z, at, l, r
  <2>3. a \in 1..Len(order) /\ i \in a..Len(order) /\ a \in 1..Len(order) + 1 /\ i \in (a - 1)..Len(order) /\ z \in i..Len(order)
    BY <1>1, <2>1
  <2> HIDE DEF D
  <2>4. SubSeq(order, a, i) = SubSeq(order, a, i - 1) \o <<order[i]>>
    BY <1>1, <2>3, SubSeqRecursiveSecond
  <2>5. SubSeq(order, a, i) \o SubSeq(order, i + 1, z) = SubSeq(order, a, z)
    BY <1>1, <2>3, ConcatAdjacentSubSeq
  <2> QED
    BY <2>1, <2>2, <2>4, <2>5
<1>8. IsListing(at, heap)
  <2>1. at = [m \in D \cup {NULL} |-> at[m]]
    OBVIOUS
  <2>2. \A m \in D \cup {NULL} : at[m] = IF m = NULL THEN <<>> ELSE at[l(m)] \o <<m>> \o at[r(m)]
    BY <1>2, <1>4, <1>7
  <2> HIDE DEF at
  <2>3. at = [m \in D \cup {NULL} |-> IF m = NULL THEN <<>> ELSE at[l(m)] \o <<m>> \o at[r(m)]]
    BY <2>1, <2>2
  <2> QED
    BY <2>3 DEF IsListing
<1>9. IsListing(e, heap)
  <2> HIDE DEF at
  <2> QED
    BY <1>8
<1>10. InOrder(root) = e[root]
  BY Zenon DEF InOrder, IsListing
<1> HIDE DEF e, at
<1>11. e[NULL] = <<>> /\ \A m \in D : e[m] = e[l(m)] \o <<m>> \o e[r(m)]
  BY <1>2, <1>9 DEF IsListing
<1>12. \A m \in D : e[m] = at[m]
  <2> DEFINE W == {m \in D : e[m] # at[m]}
  <2> SUFFICES ASSUME W # {} PROVE FALSE
    OBVIOUS
  <2>1. PICK rank \in [D -> Nat] : \A m \in D, s \in Sides : heap[m][s] # NULL => heap[m][s] \in D /\ rank[heap[m][s]] < rank[m]
    BY <1>21, BranchRank
  <2>2. W \in SUBSET D
    OBVIOUS
  <2>3. PICK m \in W : \A x \in W : rank[m] <= rank[x]
    <3> HIDE DEF W
    <3> QED
      BY <2>1, <2>2, LeastRank
  <2>4. m \in D /\ e[m] # at[m]
    OBVIOUS
  <2>5. ASSUME NEW s \in Sides PROVE e[heap[m][s]] = at[heap[m][s]]
    <3> DEFINE n == heap[m][s]
    <3>1. CASE n = NULL
      BY <1>4, <1>11, <3>1
    <3>2. CASE n # NULL
      <4>1. n \in D /\ rank[n] < rank[m]
        BY <2>1, <2>4, <3>2
      <4>2. rank[n] \in Nat /\ rank[m] \in Nat
        BY <2>1, <2>4, <4>1
      <4>3. n \notin W
        BY <2>3, <4>1, <4>2
      <4> QED
        BY <4>1, <4>3
    <3> QED
      BY <3>1, <3>2
  <2>6. e[l(m)] = at[l(m)] /\ e[r(m)] = at[r(m)]
    BY <1>22, <2>5
  <2>7. e[m] = at[m]
    BY <1>7, <1>11, <2>4, <2>6
  <2> QED
    BY <2>4, <2>7
<1>13. CASE c = 0
  <2>1. root = NULL
    BY <1>13, TreeProperties
  <2>2. order = <<>>
    BY <1>1, <1>13, EmptySeq
  <2> QED
    BY <1>10, <1>11, <2>1, <2>2
<1>14. CASE c # 0
  <2>1. root \in D /\ sub[root] = D
    BY <1>14 DEF IsTree
  <2>2. order[1] \in D /\ pos[order[1]] = 1 /\ order[c] \in D /\ pos[order[c]] = c
    <3>1. 1 \in 1..c /\ c \in 1..c
      BY <1>1, <1>14
    <3> HIDE DEF D
    <3> QED
      BY <1>1, <3>1
  <2>3. lo[root] = 1 /\ hi[root] = c
    <3> HIDE DEF D
    <3>1. lo[root] \in 1..c /\ hi[root] \in 1..c
      BY <1>3, <2>1
    <3>2. lo[root] <= 1 /\ c <= hi[root]
      BY <1>3, <2>1, <2>2
    <3> QED
      BY <1>1, <3>1, <3>2
  <2>4. at[root] = SubSeq(order, 1, Len(order))
    <3>1. at[root] = SubSeq(order, lo[root], hi[root])
      BY <1>4, <2>1
    <3> HIDE DEF at, D
    <3> QED
      BY <1>1, <2>3, <3>1
  <2>5. SubSeq(order, 1, Len(order)) = order
    <3> HIDE DEF D
    <3> QED
      BY <1>1, SubSeqFull
  <2> QED
    BY <1>10, <1>12, <2>1, <2>4, <2>5
<1> QED
  BY <1>13, <1>14

LEMMA TreeCardinality ==
  ASSUME NEW h, NEW sub, NEW comp, NEW pos, NEW r, NEW f, NEW c, IsTree(h, sub, comp, pos, r, f, c)
  PROVE  Cardinality(DOMAIN h) = c
<1> DEFINE D == DOMAIN h
<1>1. PICK order : IsOrder(h, pos, c, order)
  BY OrderExists
<1>2. /\ order \in Seq(D) /\ Len(order) = c /\ c \in Nat
      /\ \A i \in 1..c : order[i] \in D /\ pos[order[i]] = i
      /\ \A m \in D : pos[m] \in 1..c /\ order[pos[m]] = m
  BY <1>1, OrderProperties
<1>3. order \in [1..c -> D]
  BY <1>2, LenProperties
<1>4. order \in Bijection(1..c, D)
  <2>1. \A a, b \in 1..c : order[a] = order[b] => a = b
    BY <1>2
  <2>2. \A m \in D : \E i \in 1..c : order[i] = m
    BY <1>2
  <2>3. order \in Injection(1..c, D) /\ order \in Surjection(1..c, D)
    BY <1>2, <1>3, <2>1, <2>2, LenProperties DEF Injection, Surjection, IsInjective
  <2> QED
    BY <2>3 DEF Bijection
<1>5. ExistsBijection(1..c, D)
  BY <1>4 DEF ExistsBijection
<1> QED
  BY <1>2, <1>5, FS_CountingElements

LEMMA TreeLinksFollow ==
  ASSUME TreeInv
  PROVE  LinksFollowTree
<1> DEFINE D == DOMAIN heap
<1>1. PICK sub, comp, pos : IsTree(heap, sub, comp, pos, root, firstNode, count)
  BY DEF TreeInv
<1>2. PICK order : IsOrder(heap, pos, count, order)
  BY <1>1, OrderExists
<1>3. /\ order \in Seq(D) /\ Len(order) = count /\ count \in Nat
      /\ \A i \in 1..count : order[i] \in D /\ pos[order[i]] = i
      /\ \A m \in D : pos[m] \in 1..count /\ order[pos[m]] = m
  BY <1>1, <1>2, OrderProperties
<1>4. DOMAIN order = 1..Len(order)
  BY <1>3, LenProperties
<1>5. InOrder(root) = order
  BY <1>1, <1>2, InOrderIsOrder
<1>6. {order[i] : i \in DOMAIN order} = D /\ Len(order) = Cardinality(D) /\ count = Len(order)
  <2>1. {order[i] : i \in DOMAIN order} = D
    <3>1. DOMAIN order = 1..count
      BY <1>3, <1>4
    <3>2. \A m \in D : pos[m] \in DOMAIN order /\ order[pos[m]] = m
      BY <1>3, <3>1
    <3>3. \A i \in DOMAIN order : order[i] \in D
      BY <1>3, <3>1
    <3> HIDE DEF D
    <3> QED
      BY <3>2, <3>3
  <2>2. Cardinality(D) = count
    BY <1>1, TreeCardinality
  <2> QED
    BY <1>3, <2>1, <2>2
<1>7. firstNode = (IF order = <<>> THEN NULL ELSE order[1])
  <2>1. CASE count = 0
    <3>1. order = <<>> /\ firstNode = NULL
      BY <1>1, <1>3, <2>1, EmptySeq, TreeProperties
    <3> QED
      BY <3>1
  <2>2. CASE count # 0
    <3>1. firstNode \in D /\ pos[firstNode] = 1
      BY <1>1, <2>2 DEF IsTree
    <3>2. order # <<>>
      BY <1>3, <2>2, EmptySeq
    <3>3. order[1] = firstNode
      BY <1>3, <3>1
    <3> QED
      BY <3>2, <3>3
  <2> QED
    BY <2>1, <2>2
<1>8. \A i \in DOMAIN order :
           /\ heap[order[i]].next = (IF i = Len(order) THEN NULL ELSE order[i + 1])
           /\ heap[order[i]].prev = (IF i = 1 THEN NULL ELSE order[i - 1])
  <2> TAKE i \in DOMAIN order
  <2>1. i \in 1..count
    BY <1>3, <1>4
  <2> QED
    BY <1>1, <1>2, <1>3, <2>1, OrderLinks
<1>9. /\ Forest(heap, sub, comp, pos) /\ NULL \notin D /\ \A m \in D : comp[m] = D /\ m \in sub[m]
      /\ D # {} => root \in D /\ sub[root] = D
  <2>1. NULL \notin D /\ (\A m \in D : comp[m] = D) /\ (count = 0 <=> D = {})
    BY <1>1, TreeProperties
  <2> QED
    BY <1>1, <2>1 DEF IsTree, Forest, IsNested
<1>10. ASSUME NEW n \in D PROVE heap[n].parent = NULL <=> n = root
  <2>1. heap[n].parent = NULL <=> sub[n] = D
    BY <1>9 DEF Forest, ParentsRight
  <2>2. root \in D /\ sub[root] = D
    BY <1>9
  <2>3. ASSUME sub[n] = D PROVE n = root
    <3>1. root \in sub[n] /\ n \in sub[root]
      BY <2>2, <2>3
    <3> QED
      BY <1>9, <3>1, BranchesInside
  <2> QED
    BY <2>1, <2>2, <2>3
<1>11. ASSUME NEW n \in D, NEW m \in D PROVE heap[n].parent = m <=> n \in {heap[m].left, heap[m].right}
  <2>1. ASSUME heap[n].parent = m PROVE \E s \in Sides : heap[m][s] = n
    <3>1. sub[n] # comp[n]
      BY <1>9, <2>1 DEF Forest, ParentsRight
    <3> QED
      BY <1>9, <2>1, <3>1 DEF Forest, ParentsRight
  <2>2. ASSUME NEW s \in Sides, heap[m][s] = n PROVE heap[n].parent = m
    BY <1>9, <2>2 DEF Forest, BranchesRight
  <2>3. (\E s \in Sides : heap[m][s] = n) <=> n \in {heap[m].left, heap[m].right}
    BY DEF Sides
  <2> QED
    BY <2>1, <2>2, <2>3
<1> QED
  BY <1>5, <1>6, <1>7, <1>8, <1>10, <1>11 DEF LinksFollowTree

LEMMA TreeKeepsPlace ==
  ASSUME TreeInv
  PROVE  IteratorKeepsItsPlace
<1> DEFINE D == DOMAIN heap
<1>1. PICK sub, comp, pos : IsTree(heap, sub, comp, pos, root, firstNode, count) /\ KeepsPlace(DOMAIN heap, pos)
  BY DEF TreeInv
<1>2. PICK order : IsOrder(heap, pos, count, order)
  BY <1>1, OrderExists
<1>3. /\ order \in Seq(D) /\ Len(order) = count /\ count \in Nat
      /\ \A i \in 1..count : order[i] \in D /\ pos[order[i]] = i
      /\ \A m \in D : pos[m] \in 1..count /\ order[pos[m]] = m
  BY <1>1, <1>2, OrderProperties
<1>4. DOMAIN order = 1..count
  BY <1>3, LenProperties
<1>5. InOrder(root) = order
  BY <1>1, <1>2, InOrderIsOrder
<1>6. CASE current = NULL
  BY <1>1, <1>6 DEF KeepsPlace, IteratorKeepsItsPlace
<1>7. CASE current # NULL
  <2>1. /\ current \in D /\ passed \subseteq D /\ ahead \subseteq D
        /\ \A n \in passed : pos[n] < pos[current]
        /\ \A n \in ahead : pos[current] < pos[n]
    BY <1>1, <1>7 DEF KeepsPlace
  <2>2. pos[current] \in DOMAIN order /\ order[pos[current]] = current
    BY <1>3, <1>4, <2>1
  <2>3. \A n \in ahead : pos[n] \in DOMAIN order /\ order[pos[n]] = n /\ pos[n] > pos[current]
    <3>1. \A n \in ahead : pos[n] \in 1..count /\ order[pos[n]] = n
      BY <1>3, <2>1
    <3>2. pos[current] \in 1..count
      BY <1>3, <2>1
    <3> QED
      BY <1>3, <1>4, <2>1, <3>1, <3>2
  <2>4. \A n \in passed : pos[n] \in DOMAIN order /\ order[pos[n]] = n /\ pos[n] < pos[current]
    BY <1>3, <1>4, <2>1
  <2>5. \E place \in DOMAIN order :
          /\ order[place] = current
          /\ \A n \in ahead : \E i \in DOMAIN order : order[i] = n /\ i > place
          /\ \A n \in passed : \E i \in DOMAIN order : order[i] = n /\ i < place
    BY <2>2, <2>3, <2>4
  <2> QED
    BY <1>5, <1>7, <2>5 DEF IteratorKeepsItsPlace
<1> QED
  BY <1>6, <1>7

(* However many elements are inserted and erased, and in whatever order:   *)
(* who follows the links meets every element of the tree, from left to     *)
(* right, and an iterator keeps its place among them.                      *)
THEOREM TreeIsWalked == TreeSpec => []WalksTheTree
<1>1. TreeInv => WalksTheTree
  BY TreeLinksFollow, TreeKeepsPlace DEF WalksTheTree
<1> QED
  BY <1>1, TreeStaysWhole, PTL
-----------------------------------------------------------------------------
(* The tree implements the sorted bag (module SortedBag): its view is the  *)
(* sequence of the elements along the links.                               *)
AnyElement == [key : Int, node : Nodes]
Element(h, n) == [key |-> h[n]["key"], node |-> n]
Elements(h, order) == [i \in DOMAIN order |-> Element(h, order[i])]

LEMMA InsertAtProperties ==
  ASSUME NEW S, NEW s \in Seq(S), NEW i \in 1..(Len(s) + 1), NEW e \in S
  PROVE  /\ Bag!InsertAt(s, i, e) \in Seq(S) /\ Len(Bag!InsertAt(s, i, e)) = Len(s) + 1
         /\ \A j \in 1..(Len(s) + 1) : Bag!InsertAt(s, i, e)[j] = IF j < i THEN s[j] ELSE IF j = i THEN e ELSE s[j - 1]
<1> DEFINE s1 == SubSeq(s, 1, i - 1)
           s2 == SubSeq(s, i, Len(s))
           s3 == s1 \o <<e>>
<1>1. Len(s) \in Nat /\ i \in Int /\ \A j \in 1..Len(s) : s[j] \in S
  BY LenProperties, ElementOfSeq
<1>2. s1 \in Seq(S) /\ Len(s1) = i - 1 /\ \A j \in 1..(i - 1) : s1[j] = s[j]
  <2>1. \A j \in 1..(i - 1) : s[j] \in S
    BY <1>1
  <2> QED
    BY <1>1, <2>1, SubSeqProperties, Z3
<1>3. s2 \in Seq(S) /\ Len(s2) = Len(s) - i + 1 /\ \A j \in 1..(Len(s) - i + 1) : s2[j] = s[i + j - 1]
  <2>1. \A j \in i..Len(s) : s[j] \in S
    BY <1>1
  <2> QED
    BY <1>1, <2>1, SubSeqProperties, Z3
<1> HIDE DEF s1, s2
<1>4. <<e>> \in Seq(S) /\ Len(<<e>>) = 1 /\ <<e>>[1] = e
  OBVIOUS
<1>5. s3 \in Seq(S) /\ Len(s3) = i /\ \A j \in 1..i : s3[j] = IF j < i THEN s[j] ELSE e
  BY <1>1, <1>2, <1>4, ConcatProperties, Z3
<1> HIDE DEF s3
<1>6. /\ s3 \o s2 \in Seq(S) /\ Len(s3 \o s2) = Len(s3) + Len(s2)
      /\ \A j \in 1..(Len(s3) + Len(s2)) : (s3 \o s2)[j] = IF j <= Len(s3) THEN s3[j] ELSE s2[j - Len(s3)]
  BY <1>3, <1>5, ConcatProperties
<1>7. ASSUME NEW j \in 1..(Len(s) + 1)
      PROVE  (s3 \o s2)[j] = IF j < i THEN s[j] ELSE IF j = i THEN e ELSE s[j - 1]
  <2>1. j \in 1..(Len(s3) + Len(s2))
    BY <1>1, <1>3, <1>5
  <2>2. CASE j <= i
    BY <1>1, <1>5, <1>6, <2>1, <2>2
  <2>3. CASE ~ (j <= i)
    <3>1. j - i \in 1..(Len(s) - i + 1) /\ i + (j - i) - 1 = j - 1 /\ ~ (j <= Len(s3)) /\ j - Len(s3) = j - i
      BY <1>1, <1>5, <2>3
    <3>2. (s3 \o s2)[j] = s2[j - i]
      BY <1>6, <2>1, <3>1
    <3>3. s2[j - i] = s[j - 1]
      BY <1>3, <3>1
    <3> QED
      BY <1>1, <2>3, <3>2, <3>3
  <2> QED
    BY <2>2, <2>3
<1>8. Bag!InsertAt(s, i, e) = s3 \o s2
  BY DEF Bag!InsertAt, s1, s2, s3
<1> QED
  BY <1>1, <1>3, <1>5, <1>6, <1>7, <1>8

LEMMA RemoveAtProperties ==
  ASSUME NEW S, NEW s \in Seq(S), NEW i \in 1..Len(s)
  PROVE  /\ Bag!RemoveAt(s, i) \in Seq(S) /\ Len(Bag!RemoveAt(s, i)) = Len(s) - 1
         /\ \A j \in 1..(Len(s) - 1) : Bag!RemoveAt(s, i)[j] = IF j < i THEN s[j] ELSE s[j + 1]
<1> DEFINE s1 == SubSeq(s, 1, i - 1)
           s2 == SubSeq(s, i + 1, Len(s))
<1>1. Len(s) \in Nat /\ i \in Int /\ \A j \in 1..Len(s) : s[j] \in S
  BY LenProperties, ElementOfSeq
<1>2. s1 \in Seq(S) /\ Len(s1) = i - 1 /\ \A j \in 1..(i - 1) : s1[j] = s[j]
  <2>1. \A j \in 1..(i - 1) : s[j] \in S
    BY <1>1
  <2> QED
    BY <1>1, <2>1, SubSeqProperties, Z3
<1>3. s2 \in Seq(S) /\ Len(s2) = Len(s) - i /\ \A j \in 1..(Len(s) - i) : s2[j] = s[i + j]
  <2>1. \A j \in (i + 1)..Len(s) : s[j] \in S
    BY <1>1
  <2> QED
    BY <1>1, <2>1, SubSeqProperties, Z3
<1>4. Bag!RemoveAt(s, i) = s1 \o s2
  BY DEF Bag!RemoveAt
<1> HIDE DEF s1, s2
<1>5. /\ s1 \o s2 \in Seq(S) /\ Len(s1 \o s2) = Len(s1) + Len(s2)
      /\ \A j \in 1..(Len(s1) + Len(s2)) : (s1 \o s2)[j] = IF j <= Len(s1) THEN s1[j] ELSE s2[j - Len(s1)]
  BY <1>2, <1>3, ConcatProperties
<1>6. ASSUME NEW j \in 1..(Len(s) - 1)
      PROVE  (s1 \o s2)[j] = IF j < i THEN s[j] ELSE s[j + 1]
  <2>1. j \in 1..(Len(s1) + Len(s2))
    BY <1>1, <1>2, <1>3
  <2>2. CASE j < i
    BY <1>1, <1>2, <1>5, <2>1, <2>2
  <2>3. CASE ~ (j < i)
    <3>1. j - (i - 1) \in 1..(Len(s) - i) /\ i + (j - (i - 1)) = j + 1 /\ ~ (j <= Len(s1)) /\ j - Len(s1) = j - (i - 1)
      BY <1>1, <1>2, <2>3
    <3> QED
      BY <1>3, <1>5, <2>1, <2>3, <3>1
  <2> QED
    BY <2>2, <2>3
<1> QED
  BY <1>1, <1>2, <1>3, <1>4, <1>5, <1>6

LEMMA ElementsProperties ==
  ASSUME NEW h, NEW sub, NEW comp, NEW pos, NEW r, NEW f, NEW c, IsTree(h, sub, comp, pos, r, f, c),
         NEW order, IsOrder(h, pos, c, order)
  PROVE  /\ Elements(h, order) \in Seq(AnyElement) /\ Len(Elements(h, order)) = c
         /\ \A i \in 1..c : Elements(h, order)[i] = Element(h, order[i]) /\ Element(h, order[i]) \in AnyElement
<1> DEFINE e(i) == Element(h, order[i])
<1>1. order \in Seq(DOMAIN h) /\ Len(order) = c /\ c \in Nat /\ \A i \in 1..c : order[i] \in DOMAIN h
  BY OrderProperties
<1>2. DOMAIN order = 1..c
  BY <1>1, LenProperties
<1>3. \A i \in 1..c : e(i) \in AnyElement
  <2>1. \A m \in DOMAIN h : h[m]["key"] \in Int /\ m \in Nodes
    BY DEF IsTree, Forest, IsHeap
  <2> QED
    BY <1>1, <2>1 DEF Element, AnyElement
<1>4. Elements(h, order) = [i \in 1..c |-> e(i)]
  BY <1>2 DEF Elements
<1> HIDE DEF e
<1>5. [i \in 1..c |-> e(i)] \in Seq(AnyElement)
  BY <1>1, <1>3, IsASeq
<1>6. Len([i \in 1..c |-> e(i)]) = c
  BY <1>1
<1> QED
  BY <1>3, <1>4, <1>5, <1>6 DEF e

(* The bag of the tree.                                                    *)
LEMMA BagIsElements ==
  ASSUME NEW h, NEW sub, NEW comp, NEW pos, NEW r, NEW f, NEW c, IsTree(h, sub, comp, pos, r, f, c),
         NEW order, IsOrder(h, pos, c, order)
  PROVE  (LET o == From(h, f) IN [i \in DOMAIN o |-> [key |-> h[o[i]].key, node |-> o[i]]]) = Elements(h, order)
<1>1. From(h, f) = order
  BY FromOrder
<1> QED
  BY <1>1 DEF Elements, Element

LEMMA TreeInserts ==
  ASSUME NEW h, NEW sub, NEW comp, NEW pos, NEW r, NEW f, NEW c, IsTree(h, sub, comp, pos, r, f, c),
         NEW order, IsOrder(h, pos, c, order),
         NEW g, NEW sub2, NEW comp2, NEW pos2, NEW r2, NEW f2, IsTree(g, sub2, comp2, pos2, r2, f2, c + 1),
         NEW order2, IsOrder(g, pos2, c + 1, order2),
         NEW k \in Int, NEW new \in Nodes, new \notin DOMAIN h, IsInserted(h, pos, c, k, new, g, pos2)
  PROVE  LET i == pos2[new]
             b == Elements(h, order)
         IN  /\ i \in 1..(Len(b) + 1)
             /\ \A j \in DOMAIN b : b[j].node # new /\ ((j < i) <=> (b[j].key <= k))
             /\ Elements(g, order2) = Bag!InsertAt(b, i, [key |-> k, node |-> new])
<1> DEFINE i == pos2[new]
           b == Elements(h, order)
           b2 == Elements(g, order2)
           S == AnyElement
           e == [key |-> k, node |-> new]
<1>1. /\ c \in Nat /\ \A j \in 1..c : order[j] \in DOMAIN h /\ pos[order[j]] = j
      /\ \A m \in DOMAIN g : order2[pos2[m]] = m
  <2> HIDE DEF b, b2
  <2>1. c \in Nat /\ \A j \in 1..c : order[j] \in DOMAIN h /\ pos[order[j]] = j
    BY OrderProperties
  <2>2. \A m \in DOMAIN g : order2[pos2[m]] = m
    BY OrderProperties
  <2> QED
    BY <2>1, <2>2
<1>2. b \in Seq(S) /\ Len(b) = c /\ \A j \in 1..c : b[j] = Element(h, order[j])
  <2> HIDE DEF b, S
  <2>1. Elements(h, order) \in Seq(AnyElement) /\ Len(Elements(h, order)) = c
        /\ \A j \in 1..c : Elements(h, order)[j] = Element(h, order[j])
    BY ElementsProperties
  <2> QED
    BY <2>1 DEF b, S
<1>3. b2 \in Seq(S) /\ Len(b2) = c + 1 /\ \A j \in 1..(c + 1) : b2[j] = Element(g, order2[j])
  <2> HIDE DEF b2, S
  <2>1. Elements(g, order2) \in Seq(AnyElement) /\ Len(Elements(g, order2)) = c + 1
        /\ \A j \in 1..(c + 1) : Elements(g, order2)[j] = Element(g, order2[j])
    BY ElementsProperties
  <2> QED
    BY <2>1 DEF b2, S
<1>4. DOMAIN g = DOMAIN h \cup {new} /\ g[new]["key"] = k /\ i \in 1..(c + 1)
  BY DEF IsInserted
<1>5. \A m \in DOMAIN h : /\ g[m]["key"] = h[m]["key"]
                          /\ pos2[m] = IF pos[m] >= i THEN pos[m] + 1 ELSE pos[m]
                          /\ k < h[m]["key"] <=> i < pos2[m]
  BY DEF IsInserted
<1>6. \A m \in DOMAIN h : h[m]["key"] \in Int
  BY DEF IsTree, Forest, IsHeap
<1> HIDE DEF b, b2, i
<1>7. ASSUME NEW j \in 1..c
      PROVE  /\ b[j].node = order[j] /\ b[j].key = h[order[j]]["key"] /\ order[j] # new
             /\ order2[IF j >= i THEN j + 1 ELSE j] = order[j]
             /\ (j < i) <=> (b[j].key <= k)
  <2> DEFINE m == order[j]
  <2>1. m \in DOMAIN h /\ pos[m] = j /\ m # new /\ m \in DOMAIN g
    BY <1>1, <1>4
  <2>2. b[j].node = m /\ b[j].key = h[m]["key"]
    BY <1>2 DEF Element
  <2>3. pos2[m] = (IF j >= i THEN j + 1 ELSE j) /\ (k < h[m]["key"] <=> i < pos2[m]) /\ h[m]["key"] \in Int
    BY <1>5, <1>6, <2>1
  <2>4. order2[pos2[m]] = m
    BY <1>1, <2>1
  <2> HIDE DEF m
  <2>5. (j < i) <=> (h[m]["key"] <= k)
    BY <1>1, <1>4, <2>3
  <2> QED
    BY <2>1, <2>2, <2>3, <2>4, <2>5 DEF m
<1>8. /\ Bag!InsertAt(b, i, e) \in Seq(S) /\ Len(Bag!InsertAt(b, i, e)) = c + 1
      /\ \A j \in 1..(c + 1) : Bag!InsertAt(b, i, e)[j] = IF j < i THEN b[j] ELSE IF j = i THEN e ELSE b[j - 1]
  <2>1. e \in S /\ i \in 1..(Len(b) + 1)
    BY <1>2, <1>4 DEF AnyElement
  <2>2. b \in Seq(S)
    BY <1>2
  <2> HIDE DEF e, S
  <2>3. /\ Bag!InsertAt(b, i, e) \in Seq(S) /\ Len(Bag!InsertAt(b, i, e)) = Len(b) + 1
        /\ \A j \in 1..(Len(b) + 1) : Bag!InsertAt(b, i, e)[j] = IF j < i THEN b[j] ELSE IF j = i THEN e ELSE b[j - 1]
    BY <2>1, <2>2, InsertAtProperties
  <2> QED
    BY <1>2, <2>3
<1>9. ASSUME NEW j \in 1..(c + 1)
      PROVE  b2[j] = IF j < i THEN b[j] ELSE IF j = i THEN e ELSE b[j - 1]
  <2>1. CASE j < i
    <3>1. j \in 1..c /\ ~ (j >= i)
      BY <1>1, <1>4, <2>1
    <3>2. order2[j] = order[j] /\ order[j] \in DOMAIN h
      BY <1>1, <1>7, <3>1
    <3> QED
      BY <1>2, <1>3, <1>5, <2>1, <3>1, <3>2 DEF Element
  <2>2. CASE j = i
    <3>1. order2[j] = new
      BY <1>1, <1>4, <2>2 DEF i
    <3> QED
      BY <1>3, <1>4, <2>2, <3>1 DEF Element
  <2>3. CASE j > i
    <3>1. j - 1 \in 1..c /\ j - 1 >= i /\ (j - 1) + 1 = j
      BY <1>1, <1>4, <2>3
    <3>2. order2[j] = order[j - 1] /\ order[j - 1] \in DOMAIN h
      BY <1>1, <1>7, <3>1
    <3>3. b2[j] = Element(g, order2[j]) /\ b[j - 1] = Element(h, order[j - 1])
      BY <1>2, <1>3, <3>1
    <3>4. Element(g, order[j - 1]) = Element(h, order[j - 1])
      BY <1>5, <3>2 DEF Element
    <3>5. b2[j] = b[j - 1]
      BY <3>2, <3>3, <3>4
    <3> QED
      BY <1>4, <2>3, <3>5
  <2> QED
    BY <1>4, <2>1, <2>2, <2>3
<1>10. b2 = Bag!InsertAt(b, i, e)
  <2> HIDE DEF e, S
  <2> QED
    BY <1>3, <1>8, <1>9, SeqEqual
<1>11. DOMAIN b = 1..c /\ i \in 1..(Len(b) + 1)
  BY <1>2, <1>4, LenProperties
<1> QED
  BY <1>7, <1>10, <1>11 DEF b, b2, i

LEMMA TreeErases ==
  ASSUME NEW h, NEW sub, NEW comp, NEW pos, NEW r, NEW f, NEW c, IsTree(h, sub, comp, pos, r, f, c),
         NEW order, IsOrder(h, pos, c, order),
         NEW g, NEW sub2, NEW comp2, NEW pos2, NEW r2, NEW f2, IsTree(g, sub2, comp2, pos2, r2, f2, c - 1),
         NEW order2, IsOrder(g, pos2, c - 1, order2),
         NEW n \in DOMAIN h, IsErased(h, pos, n, g, pos2)
  PROVE  LET b == Elements(h, order)
         IN  /\ pos[n] \in DOMAIN b /\ b[pos[n]].key = h[n]["key"]
             /\ Elements(g, order2) = Bag!RemoveAt(b, pos[n])
<1> DEFINE i == pos[n]
           b == Elements(h, order)
           b2 == Elements(g, order2)
           S == AnyElement
<1>1. /\ c \in Nat /\ c - 1 \in Nat /\ \A j \in 1..c : order[j] \in DOMAIN h /\ pos[order[j]] = j
      /\ i \in 1..c /\ order[i] = n
      /\ \A m \in DOMAIN g : order2[pos2[m]] = m
  BY OrderProperties
<1>2. b \in Seq(S) /\ Len(b) = c /\ \A j \in 1..c : b[j] = Element(h, order[j])
  <2> HIDE DEF b, S
  <2>1. Elements(h, order) \in Seq(AnyElement) /\ Len(Elements(h, order)) = c
        /\ \A j \in 1..c : Elements(h, order)[j] = Element(h, order[j])
    BY ElementsProperties
  <2> QED
    BY <2>1 DEF b, S
<1>3. b2 \in Seq(S) /\ Len(b2) = c - 1 /\ \A j \in 1..(c - 1) : b2[j] = Element(g, order2[j])
  <2> HIDE DEF b2, S
  <2>1. Elements(g, order2) \in Seq(AnyElement) /\ Len(Elements(g, order2)) = c - 1
        /\ \A j \in 1..(c - 1) : Elements(g, order2)[j] = Element(g, order2[j])
    BY ElementsProperties
  <2> QED
    BY <2>1 DEF b2, S
<1>4. DOMAIN g = DOMAIN h \ {n}
  BY DEF IsErased
<1>5. \A m \in DOMAIN h \ {n} : /\ g[m]["key"] = h[m]["key"]
                                /\ pos2[m] = IF pos[m] > i THEN pos[m] - 1 ELSE pos[m]
  BY DEF IsErased
<1> HIDE DEF b, b2, i
<1>6. ASSUME NEW j \in 1..c, j # i
      PROVE  /\ order2[IF j > i THEN j - 1 ELSE j] = order[j]
             /\ g[order[j]]["key"] = h[order[j]]["key"]
  <2> DEFINE m == order[j]
  <2>1. m \in DOMAIN h /\ pos[m] = j
    BY <1>1
  <2>2. m # n
    BY <1>6, <2>1 DEF i
  <2>3. m \in DOMAIN g /\ order2[pos2[m]] = m /\ pos2[m] = (IF j > i THEN j - 1 ELSE j) /\ g[m]["key"] = h[m]["key"]
    BY <1>1, <1>4, <1>5, <2>1, <2>2
  <2> HIDE DEF m
  <2> QED
    BY <2>3 DEF m
<1>7. /\ Bag!RemoveAt(b, i) \in Seq(S) /\ Len(Bag!RemoveAt(b, i)) = c - 1
      /\ \A j \in 1..(c - 1) : Bag!RemoveAt(b, i)[j] = IF j < i THEN b[j] ELSE b[j + 1]
  <2>1. i \in 1..Len(b)
    BY <1>1, <1>2
  <2> HIDE DEF S
  <2> QED
    BY <1>2, <2>1, RemoveAtProperties
<1>8. ASSUME NEW j \in 1..(c - 1)
      PROVE  b2[j] = IF j < i THEN b[j] ELSE b[j + 1]
  <2>1. CASE j < i
    <3>1. j \in 1..c /\ j # i /\ ~ (j > i)
      BY <1>1, <2>1
    <3>2. order2[j] = order[j] /\ g[order[j]]["key"] = h[order[j]]["key"]
      BY <1>6, <3>1
    <3>3. b2[j] = Element(g, order2[j]) /\ b[j] = Element(h, order[j])
      BY <1>2, <1>3, <3>1
    <3> QED
      BY <2>1, <3>2, <3>3 DEF Element
  <2>2. CASE ~ (j < i)
    <3>1. j + 1 \in 1..c /\ j + 1 # i /\ j + 1 > i /\ (j + 1) - 1 = j
      BY <1>1, <2>2
    <3>2. order2[j] = order[j + 1] /\ g[order[j + 1]]["key"] = h[order[j + 1]]["key"]
      BY <1>6, <3>1
    <3> QED
      BY <1>2, <1>3, <2>2, <3>1, <3>2 DEF Element
  <2> QED
    BY <2>1, <2>2
<1>9. b2 = Bag!RemoveAt(b, i)
  <2> HIDE DEF S
  <2> QED
    BY <1>3, <1>7, <1>8, SeqEqual
<1>10. DOMAIN b = 1..c /\ i \in DOMAIN b
  BY <1>1, <1>2, LenProperties
<1>11. b[i].key = h[n]["key"]
  BY <1>1, <1>2 DEF Element
<1> QED
  BY <1>9, <1>10, <1>11 DEF b, b2, i
(* The bag that the tree shows now.                                        *)
View == LET order == From(heap, firstNode) IN [i \in DOMAIN order |-> [key |-> heap[order[i]].key, node |-> order[i]]]

LEMMA InsertImplements ==
  ASSUME TreeInv, NEW k \in Keys, Insert(k)
  PROVE  Bag!Insert(k)
<1>1. PICK sub, comp, pos : IsTree(heap, sub, comp, pos, root, firstNode, count)
  BY DEF TreeInv
<1>2. \E new \in Nodes \ DOMAIN heap : \E sub2, comp2, pos2 :
        /\ IsTree(heap', sub2, comp2, pos2, root', firstNode', count + 1)
        /\ IsInserted(heap, pos, count, k, new, heap', pos2)
  BY <1>1, InsertStep
<1>3. PICK new \in Nodes \ DOMAIN heap : \E sub2, comp2, pos2 :
        /\ IsTree(heap', sub2, comp2, pos2, root', firstNode', count + 1)
        /\ IsInserted(heap, pos, count, k, new, heap', pos2)
  BY <1>2
<1>4. PICK sub2, comp2, pos2 :
        /\ IsTree(heap', sub2, comp2, pos2, root', firstNode', count + 1)
        /\ IsInserted(heap, pos, count, k, new, heap', pos2)
  BY <1>3
<1>5. PICK order : IsOrder(heap, pos, count, order)
  BY <1>1, OrderExists
<1>6. PICK order2 : IsOrder(heap', pos2, count + 1, order2)
  BY <1>4, OrderExists
<1> DEFINE b == Elements(heap, order)
           i == pos2[new]
<1>7. View = b /\ View' = Elements(heap', order2)
  BY <1>1, <1>4, <1>5, <1>6, BagIsElements DEF View
<1>8. /\ i \in 1..(Len(b) + 1)
      /\ \A j \in DOMAIN b : b[j].node # new /\ ((j < i) <=> (b[j].key <= k))
      /\ Elements(heap', order2) = Bag!InsertAt(b, i, [key |-> k, node |-> new])
  BY <1>1, <1>3, <1>4, <1>5, <1>6, KeysAssumption, TreeInserts
<1> HIDE DEF b, i
<1>9. \E n \in Nodes, p \in 1..(Len(View) + 1) :
        /\ \A j \in DOMAIN View : View[j].node # n
        /\ \A j \in DOMAIN View : (j < p) <=> (View[j].key <= k)
        /\ View' = Bag!InsertAt(View, p, [key |-> k, node |-> n])
  BY <1>3, <1>7, <1>8
<1> QED
  BY <1>9 DEF View, Bag!Insert

LEMMA EraseImplements ==
  ASSUME TreeInv, NEW k \in Keys, Erase(k)
  PROVE  Bag!Erase(k)
<1>1. PICK sub, comp, pos : IsTree(heap, sub, comp, pos, root, firstNode, count)
  BY DEF TreeInv
<1>2. PICK n \in DOMAIN heap : \E sub2, comp2, pos2 :
        /\ IsTree(heap', sub2, comp2, pos2, root', firstNode', count')
        /\ SameOrder(DOMAIN heap \ {n}, pos, pos2) /\ IsErased(heap, pos, n, heap', pos2)
        /\ heap[n]["key"] = k /\ count' = count - 1
        /\ current' = IF current = n THEN NULL ELSE current
        /\ passed' = IF current = n THEN {} ELSE passed \ {n}
        /\ ahead' = IF current = n THEN {} ELSE ahead \ {n}
  BY <1>1, EraseStep
<1>3. PICK sub2, comp2, pos2 :
        /\ IsTree(heap', sub2, comp2, pos2, root', firstNode', count - 1)
        /\ IsErased(heap, pos, n, heap', pos2) /\ heap[n]["key"] = k
  BY <1>2
<1>4. PICK order : IsOrder(heap, pos, count, order)
  BY <1>1, OrderExists
<1>5. PICK order2 : IsOrder(heap', pos2, count - 1, order2)
  BY <1>3, OrderExists
<1> DEFINE b == Elements(heap, order)
<1>6. View = b /\ View' = Elements(heap', order2)
  BY <1>1, <1>3, <1>4, <1>5, BagIsElements DEF View
<1>7. /\ pos[n] \in DOMAIN b /\ b[pos[n]].key = heap[n]["key"]
      /\ Elements(heap', order2) = Bag!RemoveAt(b, pos[n])
  BY <1>1, <1>2, <1>3, <1>4, <1>5, TreeErases
<1> HIDE DEF b
<1>8. \E p \in DOMAIN View : View[p].key = k /\ View' = Bag!RemoveAt(View, p)
  BY <1>3, <1>6, <1>7
<1> QED
  BY <1>8 DEF View, Bag!Erase

LEMMA EmptyBag ==
  ASSUME NEW h, NEW sub, NEW comp, NEW pos, NEW r, NEW f, IsTree(h, sub, comp, pos, r, f, 0)
  PROVE  (LET o == From(h, f) IN [i \in DOMAIN o |-> [key |-> h[o[i]].key, node |-> o[i]]]) = <<>>
<1>1. PICK order : IsOrder(h, pos, 0, order)
  BY OrderExists
<1>2. Elements(h, order) \in Seq(AnyElement) /\ Len(Elements(h, order)) = 0
  BY <1>1, ElementsProperties
<1>3. Elements(h, order) = <<>>
  BY <1>2, EmptySeq
<1>4. (LET o == From(h, f) IN [i \in DOMAIN o |-> [key |-> h[o[i]].key, node |-> o[i]]]) = Elements(h, order)
  BY <1>1, BagIsElements
<1> QED
  BY <1>3, <1>4

LEMMA EndsEmpty ==
  ASSUME TreeInv, TreeDestroy
  PROVE  View' = <<>>
<1>1. TreeInv'
  BY DestroyKeepsTree
<1>2. PICK sub, comp, pos : IsTree(heap', sub, comp, pos, root', firstNode', count')
  BY <1>1 DEF TreeInv
<1>3. count' = 0
  BY DEF TreeDestroy
<1> QED
  BY <1>2, <1>3, EmptyBag DEF View

(* A tree into which keys are inserted and from which others are erased,   *)
(* in whatever order and however its branches are hung up again, is a      *)
(* sequence of elements that is always sorted: insert() puts one behind    *)
(* its equals, erase() takes one with that key, and no other is lost or    *)
(* moved (BTree of datastructures.hpp).                                    *)
THEOREM TreeImplementsBag == TreeSpec => ImplementsSortedBag
<1>1. TreeInit => Bag!Init
  <2> SUFFICES ASSUME TreeInit PROVE Bag!Init
    OBVIOUS
  <2>1. DOMAIN heap = {} /\ heap = [n \in DOMAIN heap |-> heap[n]] /\ firstNode = NULL
    BY DEF TreeInit
  <2>2. PICK sub, comp, pos : IsTree(heap, sub, comp, pos, NULL, NULL, 0)
    BY <2>1, EmptyTree
  <2>3. View = <<>>
    BY <2>1, <2>2, EmptyBag DEF View
  <2> QED
    BY <2>3 DEF View, Bag!Init
<1>2. TreeInv /\ [TreeNext]_treeVars => [Bag!Next]_View
  <2> SUFFICES ASSUME TreeInv, [TreeNext]_treeVars PROVE Bag!Next \/ View' = View
    OBVIOUS
  <2>1. CASE Begin \/ Forward \/ Backward \/ UNCHANGED treeVars
    <3>1. heap' = heap /\ firstNode' = firstNode
      BY <2>1 DEF Begin, Forward, Backward, treeVars
    <3> QED
      BY <3>1 DEF View
  <2>2. CASE TreeDestroy
    <3>1. View' = <<>>
      BY <2>2, EndsEmpty
    <3>2. CASE View = <<>>
      BY <3>1, <3>2
    <3>3. CASE View # <<>>
      <4>1. Bag!Destroy
        BY <3>1, <3>3 DEF View, Bag!Destroy
      <4> QED
        BY <4>1 DEF Bag!Next
    <3> QED
      BY <3>2, <3>3
  <2>3. ASSUME NEW k \in Keys, Insert(k) PROVE Bag!Next
    BY <2>3, InsertImplements DEF Bag!Next
  <2>4. ASSUME NEW k \in Keys, Erase(k) PROVE Bag!Next
    BY <2>4, EraseImplements DEF Bag!Next
  <2> QED
    BY <2>1, <2>2, <2>3, <2>4 DEF TreeNext
<1> QED
  BY <1>1, <1>2, TreeStaysWhole, PTL DEF TreeSpec, ImplementsSortedBag, Bag!Spec, View
=============================================================================
