----------------------------- MODULE BoundedFifo -----------------------------
(***************************************************************************)
(* What ds::RingBuffer promises (fztooltempl/datastructures.hpp, the       *)
(* comments of the class): a first-in first-out queue of bounded length.   *)
(* An element added to a full queue is either refused, or pushes the first *)
(* element out.                                                            *)
(***************************************************************************)
EXTENDS Integers, Sequences

CONSTANTS Values,      \* the elements
          Positions,   \* the positions and numbers callers ask for
          Void,        \* what a call without a result returns
          Failed       \* what a call that throws returns

VARIABLES q,           \* the elements, first to last
          capacity,    \* the number of elements it may hold
          quiet,       \* whether a full queue gives up its first element
          ret          \* the result of the last call

vars == <<q, capacity, quiet, ret>>

Init == /\ q = <<>>
        /\ capacity \in Nat \ {0}
        /\ quiet \in BOOLEAN
        /\ ret = Void

Refuse == ret' = Failed /\ UNCHANGED q

Enqueue(e) ==
  /\ \/ /\ Len(q) < capacity
        /\ q' = Append(q, e)
        /\ ret' = Void
     \/ /\ Len(q) = capacity
        /\ quiet
        /\ q' = Append(Tail(q), e)
        /\ ret' = Void
     \/ /\ Len(q) = capacity
        /\ ~quiet
        /\ Refuse
  /\ UNCHANGED <<capacity, quiet>>

Dequeue ==
  /\ \/ q = <<>> /\ Refuse
     \/ /\ q # <<>>
        /\ ret' = Head(q)
        /\ q' = Tail(q)
  /\ UNCHANGED <<capacity, quiet>>

(* Positions are counted from 0. *)
Read(position) ==
  /\ \/ position >= Len(q) /\ Refuse
     \/ /\ position < Len(q)
        /\ ret' = q[position + 1]
        /\ UNCHANGED q
  /\ UNCHANGED <<capacity, quiet>>

Assign(position, e) ==
  /\ \/ position >= Len(q) /\ Refuse
     \/ /\ position < Len(q)
        /\ q' = [q EXCEPT ![position + 1] = e]
        /\ ret' = Void
  /\ UNCHANGED <<capacity, quiet>>

(* All or nothing: more than there are cannot be skipped. *)
Skip(number) ==
  /\ \/ number > Len(q) /\ Refuse
     \/ /\ number <= Len(q)
        /\ q' = SubSeq(q, number + 1, Len(q))
        /\ ret' = Void
  /\ UNCHANGED <<capacity, quiet>>

Next == \/ \E e \in Values : Enqueue(e)
        \/ Dequeue
        \/ \E n \in Positions : Read(n) \/ Skip(n) \/ \E e \in Values : Assign(n, e)

Spec == Init /\ [][Next]_vars
=============================================================================
