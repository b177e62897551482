------------------------------ MODULE RingBuffer ------------------------------
(***************************************************************************)
(* ds::RingBuffer (fztooltempl/datastructures.hpp): a fixed array, the     *)
(* index of its first and of its last element, and a count.  The indices   *)
(* are of type size_t: 0 - 1 is SizeMax, and adding 1 to that gives 0      *)
(* again, which an empty buffer makes use of.                              *)
(***************************************************************************)
EXTENDS Integers, Sequences

CONSTANTS SizeMax,     \* the largest size_t
          Sizes,       \* the sizes a buffer may be given
          Values,      \* the elements
          Positions,   \* the positions and numbers callers ask for
          Void,        \* what a call without a result returns
          Failed       \* what a call that throws returns

ASSUME SizeMaxAssumption == SizeMax \in Nat
(* A buffer of size 0 has no slot an element could be written to.          *)
ASSUME SizesAssumption == Sizes \subseteq 1..SizeMax
ASSUME PositionsAssumption == Positions \subseteq 0..SizeMax
ASSUME ResultsAssumption == Void \notin Values /\ Failed \notin Values /\ Void # Failed

VARIABLES size, quiet, elements, first, last, buffer,
          ret          \* what the last call returned

vars == <<size, quiet, elements, first, last, buffer, ret>>

(* The array of a buffer of n elements. *)
Slots(n) == 0..(n - 1)

(* Differences and sums of size_t. *)
Minus(a, b) == IF a >= b THEN a - b ELSE a - b + SizeMax + 1
Plus(a, b)  == IF a + b <= SizeMax THEN a + b ELSE a + b - SizeMax - 1

(* The array is not initialised: it holds anything. *)
Init == /\ size \in Sizes
        /\ quiet \in BOOLEAN
        /\ elements = 0
        /\ first = 0
        /\ last = Minus(0, 1)
        /\ buffer \in [Slots(size) -> Values]
        /\ ret = Void

(* next() in a buffer of n elements *)
Successor(n, index) == IF index = Minus(n, 1) THEN 0 ELSE Plus(index, 1)

(* forward() and getIndex() in a buffer of n elements *)
Ahead(n, index, number) ==
  IF Minus(Minus(n, 1), number) >= index
  THEN Plus(index, number) ELSE Minus(number, Minus(n, index))

Reset == first' = 0 /\ last' = Minus(0, 1)

InBounds(position) == position < elements

Throw == /\ ret' = Failed
         /\ UNCHANGED <<elements, first, last, buffer>>

(* Variant: a full buffer does not give up its first element. *)
Enqueue_KeepsFirst(e) ==
  /\ elements < size \/ quiet
  /\ elements' = IF elements < size THEN elements + 1 ELSE elements
  /\ last' = Successor(size, last)
  /\ buffer' = [buffer EXCEPT ![last'] = e]
  /\ ret' = Void
  /\ UNCHANGED <<first, size, quiet>>

Enqueue(e) ==
  /\ \/ elements = size /\ ~quiet /\ Throw
     \/ /\ \/ elements < size /\ elements' = elements + 1 /\ UNCHANGED first
           \/ elements = size /\ quiet /\ first' = Successor(size, first) /\ UNCHANGED elements
        /\ last' = Successor(size, last)
        /\ buffer' = [buffer EXCEPT ![last'] = e]
        /\ ret' = Void
  /\ UNCHANGED <<size, quiet>>

Dequeue ==
  /\ \/ elements = 0 /\ Throw
     \/ /\ elements > 0
        /\ elements' = elements - 1
        /\ IF elements' = 0 THEN Reset ELSE first' = Successor(size, first) /\ UNCHANGED last
        /\ ret' = buffer[first]
        /\ UNCHANGED buffer
  /\ UNCHANGED <<size, quiet>>

(* operator[], read ... *)
Read(position) ==
  /\ \/ ~InBounds(position) /\ Throw
     \/ /\ InBounds(position)
        /\ ret' = buffer[Ahead(size, first, position)]
        /\ UNCHANGED <<elements, first, last, buffer>>
  /\ UNCHANGED <<size, quiet>>

(* ... or assigned to. *)
Assign(position, e) ==
  /\ \/ ~InBounds(position) /\ Throw
     \/ /\ InBounds(position)
        /\ buffer' = [buffer EXCEPT ![Ahead(size, first, position)] = e]
        /\ ret' = Void
        /\ UNCHANGED <<elements, first, last>>
  /\ UNCHANGED <<size, quiet>>

Skip(number) ==
  /\ \/ number = 0 /\ ret' = Void /\ UNCHANGED <<elements, first, last>>
     \/ number > 0 /\ ~InBounds(number - 1) /\ Throw
     \/ /\ number > 0
        /\ InBounds(number - 1)
        /\ IF number = elements THEN Reset ELSE first' = Ahead(size, first, number) /\ UNCHANGED last
        /\ elements' = elements - number
        /\ ret' = Void
  /\ UNCHANGED <<buffer, size, quiet>>

Next == \/ \E e \in Values : Enqueue(e)
        \/ Dequeue
        \/ \E n \in Positions : Read(n) \/ Skip(n) \/ \E e \in Values : Assign(n, e)

Spec == Init /\ [][Next]_vars

-----------------------------------------------------------------------------
(* The indices lie in the array, last possibly before its start, and no    *)
(* more elements are counted than fit.                                     *)
TypeOK == /\ size \in Sizes
          /\ quiet \in BOOLEAN
          /\ elements \in 0..size
          /\ first \in Slots(size)
          /\ last \in Slots(size) \cup {SizeMax}
          /\ buffer \in [Slots(size) -> Values]
          /\ ret \in Values \cup {Void, Failed}

(* The first elements slots from first on, around the end of the array, end *)
(* at last; an empty buffer is in its initial state (reset()).             *)
LastAgrees ==
  IF elements = 0 THEN first = 0 /\ last = SizeMax
                  ELSE last = Ahead(size, first, elements - 1)

(* The elements, from the first to the last one.                           *)
Contents == [i \in 1..elements |-> buffer[Ahead(size, first, i - 1)]]

(* Every call does and returns what the comments of the class say of a     *)
(* queue of bounded length, in both modes.                                 *)
Fifo == INSTANCE BoundedFifo WITH q <- Contents, capacity <- size

ImplementsFifo == Fifo!Spec
=============================================================================
