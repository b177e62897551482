------------------------------- MODULE SortedBag -------------------------------
(***************************************************************************)
(* What a BTree promises: its elements in ascending order, an element      *)
(* behind those it is equal to; erase(key) takes one that is equal to the  *)
(* key, if there is one.                                                   *)
(***************************************************************************)
EXTENDS Integers, Sequences, SequencesExt

CONSTANTS Keys, Nodes, NULL

VARIABLE bag    \* a sequence of [key, node]

Init == bag = <<>>

Insert(k) ==
  \E n \in Nodes, i \in 1..(Len(bag) + 1) :
    /\ \A j \in DOMAIN bag : bag[j].node # n
    /\ \A j \in DOMAIN bag : (j < i) <=> (bag[j].key <= k)
    /\ bag' = InsertAt(bag, i, [key |-> k, node |-> n])

Erase(k) == \E i \in DOMAIN bag : bag[i].key = k /\ bag' = RemoveAt(bag, i)

Destroy == bag # <<>> /\ bag' = <<>>

Next == Destroy \/ \E k \in Keys : Insert(k) \/ Erase(k)

Spec == Init /\ [][Next]_bag
=============================================================================
