--------------------------------- MODULE BTree ---------------------------------
(***************************************************************************)
(* ds::BTree (fztooltempl/datastructures.hpp): a binary tree whose nodes   *)
(* are also linked in the order of their keys, which the iterators follow. *)
(* Tree and links are changed separately.  TLess is the order of the       *)
(* integers; elements with one key are equal for it and remain apart.      *)
(***************************************************************************)
EXTENDS Integers, Sequences, FiniteSets

CONSTANTS Keys,   \* the keys, integers
          Nodes,  \* bound: addresses of nodes
          NULL    \* not an address

ASSUME KeysAssumption  == Keys \subseteq Int
ASSUME NodesAssumption == NULL \notin Nodes

VARIABLES heap,             \* the nodes: [Nodes in use -> fields]
          root, firstNode, count,
          current,          \* the iterator: a node, or NULL (end())
          passed, ahead     \* history: nodes it left behind, and those that it has yet to see

treeVars == <<heap, root, firstNode, count, current, passed, ahead>>

-----------------------------------------------------------------------------
Node(k) == [key |-> k, left |-> NULL, right |-> NULL, parent |-> NULL, next |-> NULL, prev |-> NULL]

(* A write through NULL makes a node of it: the tree is broken then.       *)
Write(h, n, field, v) ==
  IF n \in DOMAIN h THEN [h EXCEPT ![n][field] = v]
  ELSE [m \in DOMAIN h \cup {n} |-> IF m = n THEN [Node(0) EXCEPT ![field] = v] ELSE h[m]]
WriteIf(h, n, field, v) == IF n = NULL THEN h ELSE Write(h, n, field, v)

(* From n on along a pointer.                                              *)
Along(h, n, field) ==
  LET end[m \in DOMAIN h] == IF h[m][field] = NULL THEN m ELSE end[h[m][field]] IN end[n]

Leftmost(h, n)  == Along(h, n, "left")
Rightmost(h, n) == Along(h, n, "right")
GetFirst(h, n)  == Along(h, n, "prev")
GetLast(h, n)   == Along(h, n, "next")

(* A bug for comparison: equal keys go to the left.                        *)
Side_EqualLeft(k, h, n) == IF k <= h[n].key THEN "left" ELSE "right"

Side(k, h, n) == IF k < h[n].key THEN "left" ELSE "right"

(* The node under which key k belongs, insert() and concat() go there.     *)
Place(h, n, k) ==
  LET place[m \in DOMAIN h] == LET s == Side(k, h, m) IN IF h[m][s] = NULL THEN m ELSE place[h[m][s]]
  IN  place[n]

GetBranch(h, n, k) ==
  LET found[m \in DOMAIN h \cup {NULL}] == IF m = NULL \/ h[m].key = k THEN m ELSE found[h[m][Side(k, h, m)]]
  IN  found[n]

(* BinaryTreeBranch::insert() at its end: new becomes a leaf under p, and  *)
(* its neighbour in the order.                                             *)
Attach(h, new, p) ==
  LET k == h[new].key
      s == Side(k, h, p)
      h1 == Write(Write(h, p, s, new), new, "parent", p)
      h2 == Write(Write(h1, new, "next", p), new, "prev", h[p].prev)
      h3 == Write(Write(h1, new, "next", h[p].next), new, "prev", p)
  IN  IF s = "left" THEN Write(WriteIf(h2, h[p].prev, "next", new), p, "prev", new)
      ELSE Write(WriteIf(h3, h[p].next, "prev", new), p, "next", new)

(* breakLeft(), breakRight(): the branch n leaves the order.               *)
BreakLeft(h, n) ==
  LET l == Leftmost(h, n)
      r == Rightmost(h, n)
      h1 == WriteIf(Write(h, h[r].next, "prev", h[l].prev), h[l].prev, "next", h[r].next)
  IN  Write(Write(h1, r, "next", NULL), l, "prev", NULL)

BreakRight(h, n) ==
  LET l == Leftmost(h, n)
      r == Rightmost(h, n)
      h1 == WriteIf(Write(h, h[l].prev, "next", h[r].next), h[r].next, "prev", h[l].prev)
  IN  Write(Write(h1, r, "next", NULL), l, "prev", NULL)

(* cutLeft(), cutRight(): a branch leaves the tree.                        *)
Cut(h, n, s) ==
  LET b == h[n][s]
      h1 == IF s = "left" THEN BreakLeft(h, b) ELSE BreakRight(h, b)
  IN  IF b = NULL THEN h ELSE Write(Write(h1, b, "parent", NULL), n, s, NULL)

(* concat(): the branch b becomes part of the tree below n.                *)
Concat(h, n, b) ==
  LET p == Place(h, n, h[b].key)
      s == Side(h[b].key, h, p)
      h1 == Write(Write(h, p, s, b), b, "parent", p)
      f == GetFirst(h1, b)
      l == GetLast(h1, b)
      left  == IF h[p].prev = NULL THEN h1 ELSE Write(Write(h1, h[p].prev, "next", f), f, "prev", h[p].prev)
      right == IF h[p].next = NULL THEN h1 ELSE Write(Write(h1, h[p].next, "prev", l), l, "next", h[p].next)
  IN  CASE b = NULL -> h
        [] b # NULL /\ s = "left"  -> Write(Write(left, p, "prev", l), l, "next", p)
        [] b # NULL /\ s = "right" -> Write(Write(right, p, "next", f), f, "prev", p)

-----------------------------------------------------------------------------
TreeInit == /\ heap = [n \in {} |-> Node(0)] /\ root = NULL /\ firstNode = NULL /\ count = 0
        /\ current = NULL /\ passed = {} /\ ahead = {}

(* BTree::insert().  Any address may be given to the new node: nothing is   *)
(* compared or ordered by it, so that one of those free stands for all.     *)
Insert(k) ==
  /\ Nodes \ DOMAIN heap # {}
  /\ LET new == CHOOSE n \in Nodes \ DOMAIN heap : TRUE
         h == [n \in DOMAIN heap \cup {new} |-> IF n = new THEN Node(k) ELSE heap[n]]
     IN  /\ heap' = IF count = 0 THEN h ELSE Attach(h, new, Place(heap, root, k))
         /\ root' = IF count = 0 THEN new ELSE root
         /\ firstNode' = CASE count = 0 -> new
                       [] count # 0 /\ heap'[firstNode].left # NULL -> heap'[firstNode].left
                       [] OTHER -> firstNode
         /\ count' = count + 1
         /\ UNCHANGED <<current, passed, ahead>>

(* The tree without node n: its branches come under its parent, or the     *)
(* left one under none, and the right one under the left one.              *)
Without(h, n) ==
  LET l  == h[n].left
      r  == h[n].right
      p  == h[n].parent
      h1 == Cut(Cut(h, n, "left"), n, "right")
      h2 == IF p = NULL THEN h1 ELSE Cut(h1, p, IF h[p].right = n THEN "right" ELSE "left")
      up == IF l # NULL THEN l ELSE r
      h3 == IF p = NULL \/ up = NULL THEN h2 ELSE Concat(h2, p, up)
      h4 == CASE l # NULL /\ r # NULL -> Concat(h3, l, r)
              [] l = NULL /\ r = NULL -> WriteIf(WriteIf(h3, h3[n].next, "prev", h3[n].prev), h3[n].prev, "next", h3[n].next)
              [] OTHER -> h3
  IN  [h |-> h4, root |-> IF p = NULL /\ up # NULL THEN up ELSE root]

(* A bug for comparison: the first element stays.                          *)
EraseNode_KeepsFirst(n) ==
  LET w == Without(heap, n)
  IN  /\ firstNode' = IF DOMAIN heap = {n} THEN NULL ELSE firstNode
      /\ root' = IF firstNode' = NULL THEN NULL ELSE w.root
      /\ heap' = [m \in DOMAIN w.h \ {n} |-> w.h[m]]
      /\ count' = count - 1

(* BTree::erase(); an iterator that stands on the node must not be used    *)
(* any more.                                                               *)
EraseNode(n) ==
  LET w == Without(heap, n)
  IN  /\ firstNode' = IF n = firstNode THEN heap[n].next ELSE firstNode
      /\ root' = IF firstNode' = NULL THEN NULL ELSE w.root
      /\ heap' = [m \in DOMAIN w.h \ {n} |-> w.h[m]]
      /\ count' = count - 1

Erase(k) ==
  /\ root # NULL
  /\ LET n == GetBranch(heap, root, k)
     IN  /\ n # NULL
         /\ EraseNode(n)
         /\ current' = IF current = n THEN NULL ELSE current
         /\ passed' = IF current = n THEN {} ELSE passed \ {n}
         /\ ahead' = IF current = n THEN {} ELSE ahead \ {n}

(* begin(), operator++ and operator-- of an iterator; end() stays.         *)
Begin == /\ current' = firstNode /\ passed' = {} /\ ahead' = DOMAIN heap \ {firstNode}
         /\ UNCHANGED <<heap, root, firstNode, count>>

Forward == /\ current \in DOMAIN heap /\ current' = heap[current].next
           /\ passed' = (IF current' = NULL THEN {} ELSE passed \cup {current}) /\ ahead' = ahead \ {current'}
           /\ UNCHANGED <<heap, root, firstNode, count>>

Backward == /\ current \in DOMAIN heap /\ current' = heap[current].prev
            /\ ahead' = (IF current' = NULL THEN {} ELSE ahead \cup {current}) /\ passed' = passed \ {current'}
            /\ UNCHANGED <<heap, root, firstNode, count>>

(* ~KeyNodeContainer(): the nodes are deleted along the order.             *)
From(h, n) ==
  LET from[m \in DOMAIN h \cup {NULL}] == IF m = NULL THEN <<>> ELSE <<m>> \o from[h[m].next]
  IN  from[n]

TreeDestroy == LET deleted == From(heap, firstNode)
               IN  /\ heap' = [n \in DOMAIN heap \ {deleted[i] : i \in DOMAIN deleted} |-> heap[n]]
                   /\ root' = NULL /\ firstNode' = NULL /\ count' = 0
                   /\ current' = NULL /\ passed' = {} /\ ahead' = {}

TreeNext == Begin \/ Forward \/ Backward \/ TreeDestroy \/ \E k \in Keys : Insert(k) \/ Erase(k)

TreeSpec == TreeInit /\ [][TreeNext]_treeVars

-----------------------------------------------------------------------------
(* Properties                                                              *)

(* The tree's nodes from left to right.                                    *)
InOrder(n) ==
  LET nodes[m \in DOMAIN heap \cup {NULL}] ==
        IF m = NULL THEN <<>> ELSE nodes[heap[m].left] \o <<m>> \o nodes[heap[m].right]
  IN  nodes[n]

(* The links follow the tree from left to right, both ways; every node is  *)
(* in the tree, under its parent; firstNode and count are right.           *)
LinksFollowTree ==
  LET order == InOrder(root)
  IN  /\ {order[i] : i \in DOMAIN order} = DOMAIN heap /\ Len(order) = Cardinality(DOMAIN heap) /\ count = Len(order)
      /\ firstNode = (IF order = <<>> THEN NULL ELSE order[1])
      /\ \A i \in DOMAIN order :
           /\ heap[order[i]].next = (IF i = Len(order) THEN NULL ELSE order[i + 1])
           /\ heap[order[i]].prev = (IF i = 1 THEN NULL ELSE order[i - 1])
      /\ \A n \in DOMAIN heap : heap[n].parent = NULL <=> n = root
      /\ \A n, m \in DOMAIN heap : heap[n].parent = m <=> n \in {heap[m].left, heap[m].right}

(* The tree keeps its elements in order, takes and erases the right one,   *)
(* and none of them is lost (see SortedBag).                               *)
Bag == INSTANCE SortedBag WITH
         bag <- LET order == From(heap, firstNode) IN [i \in DOMAIN order |-> [key |-> heap[order[i]].key, node |-> order[i]]]
ImplementsSortedBag == Bag!Spec

(* While elements are inserted and others erased, an iterator keeps its    *)
(* place: what it has passed is behind it, and what it has to see ahead.   *)
IteratorKeepsItsPlace ==
  LET order == InOrder(root)
  IN  IF current = NULL THEN ahead = {} ELSE
        \E place \in DOMAIN order :
          /\ order[place] = current
          /\ \A n \in ahead : \E i \in DOMAIN order : order[i] = n /\ i > place
          /\ \A n \in passed : \E i \in DOMAIN order : order[i] = n /\ i < place

(* Whoever walks along the links meets the whole tree in its order.        *)
WalksTheTree == LinksFollowTree /\ IteratorKeepsItsPlace
=============================================================================
