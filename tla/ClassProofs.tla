------------------------------ MODULE ClassProofs ------------------------------
(***************************************************************************)
(* Proofs about two classes that keep something in the kernel, and about   *)
(* the two buffers of datastructures.hpp.                                  *)
(*                                                                         *)
(* Semaphor, for any initial value and any finite set of processes: what   *)
(* makes UnitsConserved inductive is that what the kernel would undo for a *)
(* process is what the process has taken and not given back, as far as     *)
(* nothing was forgotten since.                                            *)
(*                                                                         *)
(* Process, for any objects and any number of launches: what makes         *)
(* PidsAreValid and NoChildLeft inductive is that a pid belongs to one     *)
(* object, and that an object knows the only child of its own that can be  *)
(* left and was not forgotten.                                             *)
(*                                                                         *)
(* DynamicBuffer, for elements and blocks of any size: what was put is     *)
(* where the counters say, and merge() returns it.  KeepsWhatIsPut is      *)
(* inductive with the types; the work is in the quotients and rests that   *)
(* merge() computes its positions with.                                    *)
(*                                                                         *)
(* RingBuffer, for every width of size_t, every size and every kind of     *)
(* element: the indices stay inside the array and agree with each other,   *)
(* and every call does what BoundedFifo says.                              *)
(***************************************************************************)
EXTENDS Semaphor, Process, RingBuffer, DynamicBuffer, SequenceTheorems, FiniteSetTheorems, TLAPS

(***************************************************************************)
(* Semaphor                                                                *)
(***************************************************************************)
SemTypeInv == /\ creator \in {"none", "alive", "killed", "refused", "removed"}
              /\ pc \in [Procs -> {"none", "outside", "inside", "failed", "ended"}]
              /\ val \in Nat
              /\ undo \in [Procs -> Int]
              /\ stage \in {"created", "owned", "set"}

(* There is a semaphore from its creation to its removal.                  *)
Lifetime == /\ creator \in {"alive", "killed", "refused"} => exists
            /\ ~exists => creator = "removed" \/ stage = "created"

(* Before the value is set nobody gets in.                                 *)
NothingBeforeSet ==
  stage # "set" => val = 0 /\ Inside = {} /\ ~blocked /\ \A p \in Procs : undo[p] = 0

(* What would be undone is what was taken.                                 *)
UndoIsRight ==
  \A p \in Procs :
    /\ undo[p] \in IF pc[p] = "inside" THEN {0, 1} ELSE {-1, 0}
    /\ exists /\ ~blocked => undo[p] = IF pc[p] = "inside" THEN 1 ELSE 0
    /\ ~exists => undo[p] = 0

Units == exists /\ stage = "set" =>
           /\ val + Cardinality(Inside) <= InitVal
           /\ ~blocked => val + Cardinality(Inside) = InitVal

SemIInv == SemTypeInv /\ Lifetime /\ NothingBeforeSet /\ UndoIsRight /\ Units

-----------------------------------------------------------------------------
LEMMA InsideIsFinite ==
  IsFiniteSet(Inside) /\ Cardinality(Inside) \in Nat
  <1>1. Inside \subseteq Procs
    BY DEF Inside
  <1> QED BY <1>1, ProcsAssumption, FS_Subset, FS_CardinalityType

(* How many are inside after one process has gone somewhere.               *)
LEMMA Entering ==
  ASSUME SemTypeInv, NEW p \in Procs, Goto(p, "inside"), pc[p] # "inside"
  PROVE  Cardinality(Inside') = Cardinality(Inside) + 1
  <1>1. Inside' = Inside \cup {p} /\ p \notin Inside
    BY DEF Inside, Goto, SemTypeInv
  <1> QED BY <1>1, InsideIsFinite, FS_AddElement

LEMMA Leaving ==
  ASSUME SemTypeInv, NEW p \in Procs, NEW to, to # "inside", Goto(p, to), pc[p] = "inside"
  PROVE  Cardinality(Inside') = Cardinality(Inside) - 1
  <1>1. Inside' = Inside \ {p} /\ p \in Inside
    BY DEF Inside, Goto, SemTypeInv
  <1> QED BY <1>1, InsideIsFinite, FS_RemoveElement

LEMMA Elsewhere ==
  ASSUME SemTypeInv, NEW p \in Procs, NEW to, to # "inside", Goto(p, to), pc[p] # "inside"
  PROVE  Inside' = Inside
  BY DEF Inside, Goto, SemTypeInv

-----------------------------------------------------------------------------
LEMMA SemInitInv == SemInit => SemIInv
  <1> SUFFICES ASSUME SemInit PROVE SemIInv
    OBVIOUS
  <1>1. ~exists
    BY Zenon DEF SemInit
  <1>2. SemTypeInv
    BY DEF SemInit, SemTypeInv
  <1>3. Lifetime /\ Units
    BY <1>1 DEF SemInit, Lifetime, Units
  <1>4. NothingBeforeSet /\ UndoIsRight
    BY DEF SemInit, NothingBeforeSet, UndoIsRight, Inside
  <1> QED BY <1>2, <1>3, <1>4 DEF SemIInv

(* The creator's steps leave the processes where they are.                 *)
LEMMA CreatorInv == ASSUME SemIInv, Creator PROVE SemIInv'
  <1> USE DEF SemIInv
  <1>0. /\ InitVal \in Nat /\ Cardinality(Inside) \in Nat
        /\ (Inside = {} => Cardinality(Inside) = 0)
    BY InitValAssumption, InsideIsFinite, FS_EmptySet
  <1>1. Inside' = Inside
    BY DEF Creator, Create, SetOwner, SetValue, Block, Remove, CreatorDies, Inside
  <1>2. CASE Create \/ SetOwner \/ CreatorDies
    <2>1. SemTypeInv' /\ Lifetime'
      BY <1>2 DEF Create, SetOwner, CreatorDies, kernelVars, SemTypeInv, Lifetime
    <2>2. NothingBeforeSet' /\ UndoIsRight'
      BY <1>1, <1>2 DEF Create, SetOwner, CreatorDies, kernelVars, SemTypeInv, Lifetime, NothingBeforeSet, UndoIsRight, Inside
    <2>3. Units'
      BY <1>1, <1>2 DEF Create, SetOwner, CreatorDies, kernelVars, Units, Lifetime
    <2> QED BY <2>1, <2>2, <2>3
  <1>3. CASE SetValue
    <2>1. Inside = {} /\ ~blocked
      BY <1>3 DEF SetValue, NothingBeforeSet
    <2>2. SemTypeInv' /\ Lifetime' /\ NothingBeforeSet'
      BY <1>0, <1>3 DEF SetValue, Forget, SemTypeInv, Lifetime, NothingBeforeSet
    <2>3. UndoIsRight'
      BY <1>3, <2>1 DEF SetValue, Forget, UndoIsRight, Inside
    <2>4. Units'
      BY <1>0, <1>1, <1>3, <2>1 DEF SetValue, Units
    <2> QED BY <2>2, <2>3, <2>4
  <1>4. CASE Block
    <2>1. SemTypeInv' /\ Lifetime' /\ NothingBeforeSet'
      BY <1>4 DEF Block, Settled, Forget, SemTypeInv, Lifetime, NothingBeforeSet
    <2>2. UndoIsRight'
      BY <1>4 DEF Block, Settled, Forget, Lifetime, UndoIsRight
    <2>3. Cardinality(Inside) <= InitVal
      BY <1>0, <1>4 DEF Block, Settled, Units, Lifetime, SemTypeInv
    <2>4. val' = 0 /\ blocked' /\ Cardinality(Inside') = Cardinality(Inside)
      BY <1>1, <1>4 DEF Block
    <2>5. Units'
      BY <1>0, <2>3, <2>4 DEF Units
    <2> QED BY <2>1, <2>2, <2>5
  <1>5. CASE Remove
    <2>1. ~exists'
      BY <1>5, Zenon DEF Remove
    <2>2. SemTypeInv' /\ NothingBeforeSet'
      BY <1>5 DEF Remove, Settled, Forget, SemTypeInv, NothingBeforeSet
    <2>3. Lifetime' /\ Units'
      BY <1>5, <2>1 DEF Remove, Lifetime, Units
    <2>4. UndoIsRight'
      BY <1>5, <2>1 DEF Remove, Forget, UndoIsRight
    <2> QED BY <2>2, <2>3, <2>4
  <1> QED BY <1>2, <1>3, <1>4, <1>5 DEF Creator

(* To get in takes one unit, *)
LEMMA PInv == ASSUME SemIInv, NEW p \in Procs, P(p) PROVE SemIInv'
  <1> USE DEF SemIInv, P
  <1>1. stage = "set"
    BY DEF NothingBeforeSet
  <1>2. Cardinality(Inside') = Cardinality(Inside) + 1 /\ Cardinality(Inside) \in Nat /\ InitVal \in Nat
    BY Entering, InsideIsFinite, InitValAssumption
  <1>3. SemTypeInv' /\ Lifetime' /\ NothingBeforeSet'
    BY <1>1 DEF Goto, SemTypeInv, Lifetime, NothingBeforeSet
  <1>4. UndoIsRight'
    BY DEF Goto, SemTypeInv, UndoIsRight
  <1>5. Units'
    BY <1>2 DEF Units, SemTypeInv
  <1> QED BY <1>3, <1>4, <1>5

(* and to leave gives it back. *)
LEMMA VInv == ASSUME SemIInv, NEW p \in Procs, V(p) PROVE SemIInv'
  <1> USE DEF SemIInv, V
  <1>1. p \in Inside /\ stage = "set"
    BY DEF NothingBeforeSet, Inside
  <1>2. Cardinality(Inside') = Cardinality(Inside) - 1 /\ Cardinality(Inside) \in Nat /\ InitVal \in Nat
    BY Leaving, InsideIsFinite, InitValAssumption
  <1>3. SemTypeInv' /\ Lifetime' /\ NothingBeforeSet'
    BY <1>1 DEF Goto, SemTypeInv, Lifetime, NothingBeforeSet
  <1>4. UndoIsRight'
    BY DEF Goto, SemTypeInv, UndoIsRight
  <1>5. Units'
    BY <1>2 DEF Units, SemTypeInv
  <1> QED BY <1>3, <1>4, <1>5

(* So does the kernel, if it has not forgotten it. *)
LEMMA EndInv == ASSUME SemIInv, NEW p \in Procs, End(p) PROVE SemIInv'
  <1> USE DEF SemIInv, End
  <1>1. /\ Cardinality(Inside) \in Nat /\ InitVal \in Nat /\ val \in Nat
        /\ Cardinality(Inside') = Cardinality(Inside) - (IF pc[p] = "inside" THEN 1 ELSE 0)
    BY Leaving, Elsewhere, InsideIsFinite, InitValAssumption DEF SemTypeInv
  <1>2. undo[p] \in {-1, 0, 1} /\ (pc[p] # "inside" => undo[p] <= 0)
    BY DEF UndoIsRight
  <1>3. SemTypeInv' /\ Lifetime'
    BY <1>1, <1>2 DEF Goto, SemTypeInv, Lifetime
  <1>4. NothingBeforeSet'
    BY Elsewhere DEF Goto, SemTypeInv, NothingBeforeSet, Inside
  <1>5. UndoIsRight'
    BY DEF Goto, SemTypeInv, UndoIsRight
  <1>6. Units'
    <2>1. val' <= val + (IF pc[p] = "inside" THEN 1 ELSE 0)
      BY <1>1, <1>2
    <2>2. exists /\ ~blocked => val' = val + (IF pc[p] = "inside" THEN 1 ELSE 0)
      BY <1>1 DEF UndoIsRight
    <2>3. val' \in Nat
      BY <1>3 DEF SemTypeInv
    <2> QED BY <1>1, <2>1, <2>2, <2>3 DEF Units
  <1> QED BY <1>3, <1>4, <1>5, <1>6

LEMMA OthersInv == ASSUME SemIInv, NEW p \in Procs, Open(p) \/ PFails(p) PROVE SemIInv'
  <1> USE DEF SemIInv
  <1>1. PICK to \in {"outside", "failed"} : Goto(p, to) /\ pc[p] # "inside"
    BY DEF Open, PFails
  <1>2. Inside' = Inside
    BY <1>1, Elsewhere
  <1>3. UNCHANGED <<creator, kernelVars, blocked>>
    BY DEF Open, PFails
  <1>4. SemTypeInv' /\ Lifetime' /\ NothingBeforeSet' /\ Units'
    BY <1>1, <1>2, <1>3 DEF Goto, kernelVars, SemTypeInv, Lifetime, NothingBeforeSet, Units
  <1>5. UndoIsRight'
    BY <1>1, <1>3 DEF Goto, kernelVars, SemTypeInv, UndoIsRight
  <1> QED BY <1>4, <1>5

LEMMA SemNextInv == SemIInv /\ [SemNext]_semVars => SemIInv'
  <1> SUFFICES ASSUME SemIInv, [SemNext]_semVars PROVE SemIInv'
    OBVIOUS
  <1>1. CASE UNCHANGED semVars
    BY <1>1 DEF semVars, kernelVars, SemIInv, SemTypeInv, Lifetime, NothingBeforeSet, UndoIsRight, Units, Inside
  <1> QED BY <1>1, CreatorInv, PInv, VInv, EndInv, OthersInv DEF SemNext

LEMMA UnitsByInv == SemIInv => UnitsConserved
  <1> SUFFICES ASSUME SemIInv, exists PROVE UnitsConserved
    BY DEF UnitsConserved
  <1>1. CASE stage = "set"
    BY <1>1 DEF SemIInv, Units, UnitsConserved
  <1>2. CASE stage # "set"
    <2>1. val = 0 /\ Inside = {} /\ Cardinality(Inside) = 0 /\ InitVal \in Nat
      BY <1>2, FS_EmptySet, InitValAssumption DEF SemIInv, NothingBeforeSet
    <2> QED BY <1>2, <2>1 DEF UnitsConserved
  <1> QED BY <1>1, <1>2

-----------------------------------------------------------------------------
(* The value and the processes inside add up to the initial value, whoever *)
(* is killed, and to no more than that after block().                      *)
THEOREM Conserved == SemSpec => []UnitsConserved
  BY SemInitInv, SemNextInv, UnitsByInv, PTL DEF SemSpec

(***************************************************************************)
(* Process                                                                 *)
(***************************************************************************)
ProcTypeInv == /\ alive \subseteq Objects
               /\ daemon \in [Objects -> BOOLEAN]
               /\ pid \in [Objects -> 0..MaxLaunches]
               /\ pprotect \in [Objects -> BOOLEAN]
               /\ waiting \subseteq Objects
               /\ child \in [Pids -> {"none", "running", "zombie", "reaped"}]
               /\ children \in [Objects -> SUBSET Pids]

(* The parent waits in one call at most, for a child it knows.             *)
OneWaits == /\ \A o, q \in waiting : o = q
            /\ \A o \in waiting : pid[o] # 0

(* A child was launched by one object.                                     *)
OwnChildren == /\ \A o \in Objects : \A c \in children[o] : child[c] # "none"
               /\ \A o, q \in Objects : o # q => children[o] \cap children[q] = {}

(* The child that is left and was not forgotten is the one the object knows. *)
KnowsItsChild == \A o \in Objects : (children[o] \cap Unreaped) \ forgotten \subseteq {pid[o]}

(* The destructor looks at pprotect: it is what the constructor was told.  *)
Protects == \A o \in Objects : pid[o] # 0 => pprotect[o] = daemon[o]

EndsWithout == \A o \in Objects : o \notin alive /\ ~daemon[o] => pid[o] = 0 \/ o \in waiting

ProcIInv == ProcTypeInv /\ OneWaits /\ OwnChildren /\ PidsAreValid /\ KnowsItsChild /\ Protects /\ EndsWithout

-----------------------------------------------------------------------------
LEMMA ProcInitInv == ProcInit => ProcIInv
  BY MaxLaunchesAssumption DEF ProcInit, ProcIInv, ProcTypeInv, OneWaits, OwnChildren, PidsAreValid, KnowsItsChild, Protects,
     EndsWithout, Pids

(* A new child is nobody's yet, and nothing is left of the one before.     *)
LEMMA LaunchInv == ASSUME ProcIInv, NEW o \in Objects, Launch(o) PROVE ProcIInv'
  <1> USE MaxLaunchesAssumption DEF ProcIInv
  <1>1. PICK c \in Pids : /\ Launched = 1..(c - 1)
                          /\ children' = [children EXCEPT ![o] = @ \cup {c}]
                          /\ child' = [child EXCEPT ![c] = "running"]
                          /\ pid' = [pid EXCEPT ![o] = c]
    BY DEF Launch
  <1>2. child[c] = "none" /\ c # 0
    BY <1>1 DEF Launched, Pids
  <1>3. waiting = {} /\ pid[o] = 0 /\ o \in alive
    BY DEF Launch, Idle
  <1>4. ProcTypeInv'
    BY <1>1 DEF ProcTypeInv, Launch, Pids
  <1>5. OneWaits'
    BY <1>3 DEF OneWaits, Launch
  <1>6. OwnChildren'
    BY <1>1, <1>2 DEF OwnChildren, ProcTypeInv
  <1>7. PidsAreValid'
    BY <1>1, <1>2 DEF PidsAreValid, ProcTypeInv, Unreaped
  <1>8. KnowsItsChild'
    <2> SUFFICES ASSUME NEW q \in Objects, NEW k \in children'[q], k \in Unreaped', k \notin forgotten
                 PROVE  k = pid'[q]
      BY DEF KnowsItsChild, Launch
    <2>1. CASE q = o
      <3>1. k = c \/ k \in children[o] \cap Unreaped
        BY <1>1, <2>1 DEF ProcTypeInv, Unreaped
      <3>2. (children[o] \cap Unreaped) \ forgotten = {}
        BY <1>3, <2>1 DEF KnowsItsChild, Unreaped, Pids
      <3> QED BY <1>1, <2>1, <3>1, <3>2 DEF ProcTypeInv
    <2>2. CASE q # o
      BY <1>1, <1>2, <2>2 DEF KnowsItsChild, ProcTypeInv, Unreaped, OwnChildren
    <2> QED BY <2>1, <2>2
  <1>9. Protects'
    BY <1>1 DEF Protects, Launch, ProcTypeInv
  <1>10. EndsWithout'
    BY <1>1, <1>3 DEF EndsWithout, Launch, ProcTypeInv
  <1> QED BY <1>4, <1>5, <1>6, <1>7, <1>8, <1>9, <1>10

(* A process that ends becomes a zombie: nothing but its state changes.    *)
LEMMA ZombieInv ==
  ASSUME ProcIInv, NEW c \in Pids, child[c] = "running" => child' = [child EXCEPT ![c] = "zombie"],
         child[c] # "running" => child' = child,
         UNCHANGED <<alive, daemon, pid, pprotect, waiting, children, forgotten>>
  PROVE  ProcIInv'
  <1>1. ProcTypeInv'
    BY DEF ProcIInv, ProcTypeInv
  <1>2. Unreaped' = Unreaped /\ \A k \in Pids : child[k] # "none" => child'[k] # "none"
    BY DEF ProcIInv, ProcTypeInv, Unreaped
  <1> QED BY <1>1, <1>2 DEF ProcIInv, ProcTypeInv, OneWaits, OwnChildren, PidsAreValid, KnowsItsChild, Protects, EndsWithout

LEMMA AbortInv == ASSUME ProcIInv, NEW o \in Objects, Abort(o) PROVE ProcIInv'
  <1>1. pid[o] \in Pids
    BY DEF Abort, ProcIInv, PidsAreValid, Unreaped
  <1>2. /\ child[pid[o]] = "running" => child' = [child EXCEPT ![pid[o]] = "zombie"]
        /\ child[pid[o]] # "running" => child' = child
    BY <1>1 DEF Abort, Kill, ProcIInv, ProcTypeInv
  <1> QED BY <1>1, <1>2, ZombieInv DEF Abort, objectVars

(* The child whose pid is given up is the only one that was left.          *)
LEMMA SendSignalInv == ASSUME ProcIInv, NEW o \in Objects, SendSignal(o) PROVE ProcIInv'
  <1> USE MaxLaunchesAssumption DEF ProcIInv
  <1>1. pid[o] \in Pids /\ waiting = {}
    BY DEF SendSignal, Idle, PidsAreValid, Unreaped
  <1>2. Unreaped' = Unreaped /\ \A k \in Pids : child[k] # "none" => child'[k] # "none"
    BY <1>1 DEF SendSignal, Kill, ProcTypeInv, Unreaped
  <1>3. ProcTypeInv'
    <2>1. child' \in [Pids -> {"none", "running", "zombie", "reaped"}]
      BY <1>1 DEF SendSignal, Kill, ProcTypeInv
    <2>2. pid' \in [Objects -> 0..MaxLaunches]
      BY DEF SendSignal, ProcTypeInv
    <2> QED BY <2>1, <2>2 DEF SendSignal, ProcTypeInv
  <1>4. OneWaits' /\ OwnChildren' /\ PidsAreValid'
    BY <1>1, <1>2 DEF SendSignal, ProcTypeInv, OneWaits, OwnChildren, PidsAreValid
  <1>5. KnowsItsChild' /\ Protects' /\ EndsWithout'
    BY <1>1, <1>2 DEF SendSignal, ProcTypeInv, KnowsItsChild, Protects, EndsWithout
  <1> QED BY <1>3, <1>4, <1>5

LEMMA WaitInv == ASSUME ProcIInv, NEW o \in Objects, Wait(o) PROVE ProcIInv'
  BY DEF ProcIInv, Wait, Idle, objectVars, ProcTypeInv, OneWaits, OwnChildren, PidsAreValid, KnowsItsChild, Protects, EndsWithout, Unreaped

(* The child that was waited for is not another object's.                  *)
LEMMA WaitReturnsInv == ASSUME ProcIInv, NEW o \in Objects, WaitReturns(o) PROVE ProcIInv'
  <1> USE MaxLaunchesAssumption DEF ProcIInv
  <1>1. pid[o] \in children[o] /\ pid[o] \in Pids
    BY DEF WaitReturns, PidsAreValid, OneWaits, Unreaped
  <1>2. Unreaped' = Unreaped \ {pid[o]} /\ \A k \in Pids : child[k] # "none" => child'[k] # "none"
    BY <1>1 DEF WaitReturns, ProcTypeInv, Unreaped
  <1>3. ProcTypeInv'
    BY <1>1 DEF WaitReturns, ProcTypeInv, Pids
  <1>4. OneWaits' /\ OwnChildren'
    BY <1>2 DEF WaitReturns, ProcTypeInv, OneWaits, OwnChildren
  <1>5. PidsAreValid'
    BY <1>1, <1>2 DEF WaitReturns, ProcTypeInv, PidsAreValid, OwnChildren
  <1>6. KnowsItsChild'
    BY <1>1, <1>2 DEF WaitReturns, ProcTypeInv, KnowsItsChild
  <1>7. Protects'
    BY DEF WaitReturns, ProcTypeInv, Protects
  <1>8. EndsWithout'
    BY DEF WaitReturns, ProcTypeInv, EndsWithout, OneWaits
  <1> QED BY <1>3, <1>4, <1>5, <1>6, <1>7, <1>8

(* An interrupted wait gives the pid up and leaves the child as it was.    *)
LEMMA WaitInterruptedInv == ASSUME ProcIInv, NEW o \in Objects, WaitInterrupted(o) PROVE ProcIInv'
  <1> USE MaxLaunchesAssumption DEF ProcIInv
  <1>1. ProcTypeInv' /\ OneWaits' /\ OwnChildren' /\ PidsAreValid'
    BY DEF WaitInterrupted, ProcTypeInv, OneWaits, OwnChildren, PidsAreValid, Unreaped
  <1>2. KnowsItsChild'
    BY DEF WaitInterrupted, ProcTypeInv, KnowsItsChild, Unreaped
  <1>3. Protects' /\ EndsWithout'
    BY DEF WaitInterrupted, ProcTypeInv, Protects, EndsWithout, OneWaits
  <1> QED BY <1>1, <1>2, <1>3

(* The destructor of an object that is no daemon waits for its child.      *)
LEMMA DestroyInv == ASSUME ProcIInv, NEW o \in Objects, Destroy(o) PROVE ProcIInv'
  <1> USE DEF ProcIInv
  <1>1. ProcTypeInv' /\ OneWaits' /\ OwnChildren' /\ PidsAreValid' /\ KnowsItsChild' /\ Protects'
    BY DEF Destroy, Idle, ProcTypeInv, OneWaits, OwnChildren, PidsAreValid, KnowsItsChild, Protects, Unreaped
  <1>2. EndsWithout'
    BY DEF Destroy, Idle, ProcTypeInv, Protects, EndsWithout
  <1> QED BY <1>1, <1>2

LEMMA ProcNextInv == ProcIInv /\ [ProcNext]_procVars => ProcIInv'
  <1> SUFFICES ASSUME ProcIInv, [ProcNext]_procVars PROVE ProcIInv'
    OBVIOUS
  <1>1. ASSUME NEW o \in Objects, Launch(o) \/ Abort(o) \/ Terminate(o) \/ SendSignal(o) \/ Wait(o) \/ WaitReturns(o)
                               \/ WaitInterrupted(o) \/ Destroy(o)
        PROVE  ProcIInv'
    <2>1. CASE Terminate(o)
      BY <2>1 DEF Terminate, objectVars, ProcIInv, ProcTypeInv, OneWaits, OwnChildren, PidsAreValid, KnowsItsChild, Protects, EndsWithout, Unreaped
    <2> QED BY <1>1, <2>1, LaunchInv, AbortInv, SendSignalInv, WaitInv, WaitReturnsInv, WaitInterruptedInv, DestroyInv
  <1>2. ASSUME NEW c \in Pids, ChildEnds(c) PROVE ProcIInv'
    BY <1>2, ZombieInv DEF ChildEnds, objectVars
  <1>3. CASE UNCHANGED procVars
    BY <1>3 DEF procVars, objectVars, ProcIInv, ProcTypeInv, OneWaits, OwnChildren, PidsAreValid, KnowsItsChild, Protects, EndsWithout, Unreaped
  <1> QED BY <1>1, <1>2, <1>3 DEF ProcNext

LEMMA ProcInvariant == ProcSpec => []ProcIInv
  BY ProcInitInv, ProcNextInv, PTL DEF ProcSpec

-----------------------------------------------------------------------------
(* The pid an object has is that of its own child, which has not been      *)
(* waited for: abort(), terminate() and sendSignal() reach no other.       *)
THEOREM PidsValid == ProcSpec => []PidsAreValid
  BY ProcInvariant, PTL DEF ProcIInv

LEMMA LeftByInv == ProcIInv => NoChildLeft
  <1> SUFFICES ASSUME ProcIInv, NEW o \in Objects
               PROVE  /\ Cardinality((children[o] \cap Unreaped) \ forgotten) <= 1
                      /\ o \notin alive /\ ~daemon[o] => (children[o] \cap Unreaped) \ forgotten = {} \/ o \in waiting
    BY DEF NoChildLeft
  <1> DEFINE left == (children[o] \cap Unreaped) \ forgotten
  <1>1. left \subseteq {pid[o]}
    BY DEF ProcIInv, KnowsItsChild
  <1>2. Cardinality(left) <= 1
    <2>1. IsFiniteSet({pid[o]}) /\ Cardinality({pid[o]}) = 1
      BY FS_Singleton
    <2>2. Cardinality(left) <= Cardinality({pid[o]})
      BY <1>1, <2>1, FS_Subset
    <2> QED BY <2>1, <2>2
  <1>3. ASSUME o \notin alive, ~daemon[o], o \notin waiting PROVE left = {}
    BY <1>1, <1>3 DEF ProcIInv, EndsWithout, Unreaped, Pids
  <1> QED BY <1>2, <1>3

(* Apart from children it was made to forget, by sendSignal() or by an     *)
(* interrupted wait(), an object never has two that were not waited for,   *)
(* and leaves none behind in its destructor.                               *)
THEOREM NoneLeft == ProcSpec => []NoChildLeft
  BY ProcInvariant, LeftByInv, PTL

(***************************************************************************)
(* DynamicBuffer                                                           *)
(***************************************************************************)
Blocks == [0..(blksize - 1) -> Items \cup {None}]

DynTypeInv ==
  /\ elemsize \in ElemSizes
  /\ blksize \in BlockSizes
  /\ blocklist \in Seq(Blocks)
  /\ offs \in 0..blksize
  /\ total \in Nat
  /\ written \in Seq(Items)

DynInv == DynTypeInv /\ CountsAgree /\ MergeReturnsPut

-----------------------------------------------------------------------------
(* Products and quotients.                                                 *)
LEMMA TimesIsMonotone ==
  ASSUME NEW a \in Nat, NEW b \in Nat, NEW d \in Nat, a <= b
  PROVE  a * d <= b * d
  <1>1. (b - a) * d >= 0
    OBVIOUS
  <1>2. b * d = a * d + (b - a) * d
    OBVIOUS
  <1> QED BY <1>1, <1>2

LEMMA QuotientAndRest ==
  ASSUME NEW x \in Nat, NEW d \in Nat \ {0}
  PROVE  /\ x \div d \in Nat
         /\ x % d \in 0..(d - 1)
         /\ x = (x \div d) * d + (x % d)
  OBVIOUS

LEMMA QuotientIsUnique ==
  ASSUME NEW q \in Nat, NEW p \in Nat, NEW d \in Nat \ {0}, NEW r \in 0..(d - 1), NEW s \in 0..(d - 1),
         q * d + r = p * d + s
  PROVE  q = p /\ r = s
  <1>1. CASE q < p
    <2>1. (q + 1) * d <= p * d
      BY <1>1, TimesIsMonotone
    <2>2. (q + 1) * d = q * d + d
      OBVIOUS
    <2> QED BY <2>1, <2>2
  <1>2. CASE p < q
    <2>1. (p + 1) * d <= q * d
      BY <1>2, TimesIsMonotone
    <2>2. (p + 1) * d = p * d + d
      OBVIOUS
    <2> QED BY <2>1, <2>2
  <1>3. CASE p = q
    BY <1>3
  <1> QED BY <1>1, <1>2, <1>3

LEMMA QuotientOf ==
  ASSUME NEW q \in Nat, NEW d \in Nat \ {0}, NEW r \in 0..(d - 1)
  PROVE  (q * d + r) \div d = q /\ (q * d + r) % d = r
  <1> DEFINE x == q * d + r
  <1>1. x \in Nat
    OBVIOUS
  <1>2. x \div d \in Nat /\ x % d \in 0..(d - 1) /\ x = (x \div d) * d + (x % d)
    BY <1>1, QuotientAndRest
  <1> QED BY <1>2, QuotientIsUnique

LEMMA Appended ==
  ASSUME NEW S, NEW s \in Seq(S), NEW x \in S
  PROVE  /\ Append(s, x) \in Seq(S)
         /\ Len(Append(s, x)) = Len(s) + 1
         /\ Append(s, x) # <<>>
         /\ Append(s, x)[Len(s) + 1] = x
         /\ \A i \in 1..Len(s) : Append(s, x)[i] = s[i]
  OBVIOUS

-----------------------------------------------------------------------------
LEMMA SizesArePositive == DynTypeInv => elemsize \in Nat \ {0} /\ blksize \in Nat \ {0}
  BY ElemSizesAssumption, BlockSizesAssumption DEF DynTypeInv

LEMMA DynInitInv == DynInit => DynInv
  <1> SUFFICES ASSUME DynInit PROVE DynInv
    OBVIOUS
  <1>1. DynTypeInv
    BY BlockSizesAssumption DEF DynInit, DynTypeInv
  <1>2. CountsAgree
    BY DEF DynInit, CountsAgree
  <1>3. MergeReturnsPut
    BY DEF DynInit, MergeReturnsPut
  <1> QED BY <1>1, <1>2, <1>3 DEF DynInv

(* Where an element lies, by its number.                                   *)
LEMMA Places ==
  ASSUME DynTypeInv, CountsAgree, NEW i \in 0..(total - 1)
  PROVE  /\ i \div blksize \in 0..(blocks - 1)
         /\ i % blksize \in 0..(blksize - 1)
         /\ i = (i \div blksize) * blksize + (i % blksize)
         /\ i \div blksize = blocks - 1 => i % blksize < offs
  <1> DEFINE q == i \div blksize  r == i % blksize
  <1>0. blksize \in Nat \ {0} /\ i \in Nat /\ blocks \in Nat /\ offs \in 0..blksize
    BY SizesArePositive DEF DynTypeInv, CountsAgree
  <1>1. q \in Nat /\ r \in 0..(blksize - 1) /\ i = q * blksize + r
    BY <1>0, QuotientAndRest
  <1>2. blocks \in Nat \ {0} /\ total = (blocks - 1) * blksize + offs
    BY <1>0 DEF DynTypeInv, CountsAgree
  <1> HIDE DEF q, r
  <1>3. q <= blocks - 1
    <2>1. SUFFICES ASSUME blocks <= q PROVE FALSE
      BY <1>1, <1>2
    <2>2. blocks * blksize <= q * blksize
      BY <1>0, <1>1, <1>2, <2>1, TimesIsMonotone
    <2>3. blocks * blksize = (blocks - 1) * blksize + blksize
      BY <1>0, <1>2
    <2> QED BY <1>0, <1>1, <1>2, <2>2, <2>3
  <1>4. q = blocks - 1 => r < offs
    BY <1>0, <1>1, <1>2
  <1> QED BY <1>1, <1>2, <1>3, <1>4 DEF q, r

-----------------------------------------------------------------------------
(* A block that is full, or none: the element is the first of a new one.   *)
LEMMA PutInNew ==
  ASSUME DynInv, NEW v \in Items, Put(v), blocklist = <<>> \/ offs = blksize
  PROVE  DynTypeInv' /\ CountsAgree'
  <1> USE DEF DynInv
  <1>0. /\ blksize \in Nat \ {0} /\ blksize' = blksize /\ blocks = Len(blocklist) /\ blocks \in Nat
        /\ total \in Nat /\ total = Len(written) /\ written \in Seq(Items) /\ blocklist \in Seq(Blocks)
    BY SizesArePositive DEF DynTypeInv, CountsAgree, Put, sizes
  <1>1. /\ blocklist' = Append(blocklist, NewBlock(v)) /\ blocks' = blocks + 1 /\ offs' = 1
        /\ total' = total + 1 /\ written' = Append(written, v) /\ elemsize' = elemsize
    BY DEF Put, sizes
  <1>2. /\ written' \in Seq(Items) /\ Len(written') = total + 1 /\ written'[total + 1] = v
        /\ \A i \in 0..(total - 1) : written'[i + 1] = written[i + 1]
    <2>1. /\ Append(written, v) \in Seq(Items) /\ Len(Append(written, v)) = Len(written) + 1
          /\ Append(written, v)[Len(written) + 1] = v
          /\ \A i \in 1..Len(written) : Append(written, v)[i] = written[i]
      <3>1. written \in Seq(Items)
        BY <1>0
      <3> QED BY <3>1, Appended
    <2>2. \A i \in 0..(total - 1) : i + 1 \in 1..Len(written)
      BY <1>0
    <2> QED BY <1>0, <1>1, <2>1, <2>2
  <1>3. total = blocks * blksize
    <2>1. CASE blocklist = <<>>
      BY <1>0, <2>1 DEF CountsAgree
    <2>2. CASE blocklist # <<>>
      <3>1. total = (blocks - 1) * blksize + blksize
        BY <2>2 DEF CountsAgree
      <3> QED BY <1>0, <3>1
    <2> QED BY <2>1, <2>2
  <1>4. /\ Blocks' = Blocks /\ NewBlock(v) \in Blocks /\ NewBlock(v)[0] = v
        /\ blocklist' \in Seq(Blocks) /\ Len(blocklist') = blocks + 1 /\ blocklist' # <<>>
        /\ blocklist'[blocks + 1] = NewBlock(v)
        /\ \A k \in 1..blocks : blocklist'[k] = blocklist[k]
    <2>1. NewBlock(v) \in Blocks /\ NewBlock(v)[0] = v
      BY <1>0 DEF NewBlock, Blocks
    <2>2. Blocks' = Blocks
      BY <1>0 DEF Blocks
    <2> QED BY <1>0, <1>1, <2>1, <2>2, Appended
  <1>5. DynTypeInv'
    BY <1>0, <1>1, <1>2, <1>4 DEF DynTypeInv
  <1>6. ASSUME NEW i \in 0..(total' - 1)
        PROVE  blocklist'[i \div blksize + 1][i % blksize] = written'[i + 1]
    <2>1. CASE i < total
      <3>0. i \in 0..(total - 1)
        BY <1>0, <2>1
      <3>1. i \div blksize \in 0..(blocks - 1)
        BY <3>0, Places
      <3>2. i \div blksize + 1 \in 1..blocks
        BY <1>0, <3>1
      <3>3. blocklist'[i \div blksize + 1] = blocklist[i \div blksize + 1]
        BY <1>4, <3>2
      <3> QED BY <1>2, <3>0, <3>3 DEF CountsAgree
    <2>2. CASE i = total
      <3>1. i = blocks * blksize + 0 /\ 0 \in 0..(blksize - 1)
        BY <1>0, <1>3, <2>2
      <3>2. i \div blksize = blocks /\ i % blksize = 0
        BY <1>0, <3>1, QuotientOf
      <3>3. blocklist'[blocks + 1][0] = v
        BY <1>4
      <3>4. written'[i + 1] = v
        BY <1>2, <2>2
      <3> QED BY <3>2, <3>3, <3>4
    <2>3. total \in Nat /\ total' = total + 1
      BY <1>0, <1>1
    <2>4. i < total \/ i = total
      BY <2>3
    <2> QED BY <2>1, <2>2, <2>4
  <1>7. total' = (blocks' - 1) * blksize' + offs'
    BY <1>0, <1>1, <1>3
  <1>8. blocks' = Len(blocklist') /\ total' = Len(written') /\ blocklist' # <<>> /\ offs' > 0 /\ blksize' = blksize
    BY <1>0, <1>1, <1>2, <1>4
  <1>9. CountsAgree'
    BY <1>6, <1>7, <1>8 DEF CountsAgree
  <1> QED BY <1>5, <1>9

(* A block with room: the element comes behind the last one.               *)
LEMMA PutInLast ==
  ASSUME DynInv, NEW v \in Items, Put(v), blocklist # <<>>, offs # blksize
  PROVE  DynTypeInv' /\ CountsAgree'
  <1> USE DEF DynInv
  <1>0. /\ blksize \in Nat \ {0} /\ blksize' = blksize /\ blocks = Len(blocklist) /\ blocks \in Nat \ {0}
        /\ total \in Nat /\ total = Len(written) /\ written \in Seq(Items) /\ blocklist \in Seq(Blocks)
        /\ offs \in 1..(blksize - 1) /\ total = (blocks - 1) * blksize + offs
    BY SizesArePositive DEF DynTypeInv, CountsAgree, Put, sizes
  <1>1. /\ blocklist' = [blocklist EXCEPT ![blocks][offs] = v] /\ blocks' = blocks /\ offs' = offs + 1
        /\ total' = total + 1 /\ written' = Append(written, v) /\ elemsize' = elemsize
    BY <1>0 DEF Put, sizes
  <1>2. /\ written' \in Seq(Items) /\ Len(written') = total + 1 /\ written'[total + 1] = v
        /\ \A i \in 0..(total - 1) : written'[i + 1] = written[i + 1]
    <2>1. /\ Append(written, v) \in Seq(Items) /\ Len(Append(written, v)) = Len(written) + 1
          /\ Append(written, v)[Len(written) + 1] = v
          /\ \A i \in 1..Len(written) : Append(written, v)[i] = written[i]
      <3>1. written \in Seq(Items)
        BY <1>0
      <3> QED BY <3>1, Appended
    <2>2. \A i \in 0..(total - 1) : i + 1 \in 1..Len(written)
      BY <1>0
    <2> QED BY <1>0, <1>1, <2>1, <2>2
  <1>3. Blocks' = Blocks /\ blocklist[blocks] \in Blocks
    BY <1>0 DEF Blocks
  <1>4. /\ blocklist' \in Seq(Blocks) /\ Len(blocklist') = blocks /\ blocklist' # <<>>
        /\ \A k \in 1..blocks : k # blocks => blocklist'[k] = blocklist[k]
        /\ \A j \in 0..(blksize - 1) : blocklist'[blocks][j] = IF j = offs THEN v ELSE blocklist[blocks][j]
    <2>1. [blocklist[blocks] EXCEPT ![offs] = v] \in Blocks
      BY <1>3 DEF Blocks
    <2>2. blocklist' = [blocklist EXCEPT ![blocks] = [blocklist[blocks] EXCEPT ![offs] = v]]
      BY <1>1
    <2>3. \A j \in 0..(blksize - 1) : [blocklist[blocks] EXCEPT ![offs] = v][j] = IF j = offs THEN v ELSE blocklist[blocks][j]
      BY <1>3 DEF Blocks
    <2> QED BY <1>0, <2>1, <2>2, <2>3
  <1>5. DynTypeInv'
    BY <1>0, <1>1, <1>2, <1>3, <1>4 DEF DynTypeInv
  <1>6. ASSUME NEW i \in 0..(total' - 1)
        PROVE  blocklist'[i \div blksize + 1][i % blksize] = written'[i + 1]
    <2>1. CASE i < total
      <3>0. i \in 0..(total - 1)
        BY <1>0, <2>1
      <3>1. /\ i \div blksize \in 0..(blocks - 1) /\ i % blksize \in 0..(blksize - 1)
            /\ i \div blksize = blocks - 1 => i % blksize < offs
        BY <3>0, Places
      <3> DEFINE q == i \div blksize  r == i % blksize
      <3>2. blocklist[q + 1][r] = written[i + 1]
        BY <3>0 DEF CountsAgree
      <3> HIDE DEF q, r
      <3>3. q \in 0..(blocks - 1) /\ r \in 0..(blksize - 1) /\ (q = blocks - 1 => r < offs)
        BY <3>1 DEF q, r
      <3>4. blocklist'[q + 1][r] = blocklist[q + 1][r]
        <4>1. CASE q + 1 = blocks
          <5>1. r # offs
            BY <1>0, <3>3, <4>1
          <5> QED BY <1>4, <3>3, <4>1, <5>1
        <4>2. CASE q + 1 # blocks
          <5>1. q + 1 \in 1..blocks
            BY <1>0, <3>3
          <5> QED BY <1>4, <4>2, <5>1
        <4> QED BY <4>1, <4>2
      <3>5. blocklist'[q + 1][r] = written'[i + 1]
        BY <1>2, <3>0, <3>2, <3>4
      <3> QED BY <3>5 DEF q, r
    <2>2. CASE i = total
      <3>1. blocks - 1 \in Nat /\ offs \in 0..(blksize - 1)
        BY <1>0
      <3> DEFINE q == blocks - 1
      <3>2. q \in Nat /\ i = q * blksize + offs /\ q + 1 = blocks
        BY <1>0, <2>2
      <3> HIDE DEF q
      <3>3. blksize \in Nat \ {0}
        BY <1>0
      <3>4. i \div blksize = q /\ i % blksize = offs
        BY <3>1, <3>2, <3>3, QuotientOf
      <3>5. blocklist'[q + 1][offs] = v
        BY <1>4, <3>1, <3>2
      <3>6. written'[i + 1] = v
        BY <1>2, <2>2
      <3> QED BY <3>4, <3>5, <3>6
    <2>3. total \in Nat /\ total' = total + 1
      BY <1>0, <1>1
    <2>4. i < total \/ i = total
      BY <2>3
    <2> QED BY <2>1, <2>2, <2>4
  <1>7. total' = (blocks' - 1) * blksize' + offs'
    BY <1>0, <1>1
  <1>8. blocks' = Len(blocklist') /\ total' = Len(written') /\ blocklist' # <<>> /\ offs' > 0 /\ blksize' = blksize
    BY <1>0, <1>1, <1>2, <1>4
  <1>9. CountsAgree'
    BY <1>6, <1>7, <1>8 DEF CountsAgree
  <1> QED BY <1>5, <1>9

-----------------------------------------------------------------------------
(* An element that lies in a block lies in its bytes, whatever its size.   *)
LEMMA ElementOfBlock ==
  ASSUME DynTypeInv, NEW block, NEW i \in 0..(blksize - 1), NEW bytes, NEW start \in Nat,
         \A j \in 0..(elemsize - 1) : bytes[start * elemsize + j] = Bytes(block)[i * elemsize + j]
  PROVE  Element(bytes, start) = block[i]
  <1>0. elemsize \in Nat \ {0} /\ blksize \in Nat \ {0} /\ i \in Nat
    BY SizesArePositive
  <1>1. ASSUME NEW j \in 0..(elemsize - 1) PROVE bytes[start * elemsize + j] = Byte(block[i], j)
    <2>1. (i + 1) * elemsize <= blksize * elemsize /\ (i + 1) * elemsize = i * elemsize + elemsize
      BY <1>0, TimesIsMonotone
    <2>2. i * elemsize \in Nat /\ blksize * elemsize \in Nat
      BY <1>0
    <2>3. i * elemsize + j \in 0..(blksize * elemsize - 1)
      BY <1>0, <2>1, <2>2
    <2>4. (i * elemsize + j) \div elemsize = i /\ (i * elemsize + j) % elemsize = j
      BY <1>0, QuotientOf
    <2>5. Bytes(block)[i * elemsize + j] = Byte(block[i], j)
      BY <2>3, <2>4 DEF Bytes
    <2> QED BY <2>5
  <1>2. bytes[start * elemsize] = Byte(block[i], 0)
    <2>1. start * elemsize + 0 = start * elemsize
      BY <1>0
    <2> QED BY <1>0, <1>1, <2>1
  <1>3. bytes[start * elemsize][1] = block[i]
    BY <1>2 DEF Byte
  <1> QED BY <1>1, <1>3 DEF Element

(* One block is handed out as it is.                                       *)
LEMMA OneBlock ==
  ASSUME DynTypeInv, CountsAgree, blocks = 1, NEW i \in 1..total
  PROVE  Element(Bytes(blocklist[1]), i - 1) = written[i]
  <1>0. blksize \in Nat \ {0} /\ elemsize \in Nat \ {0} /\ total \in Nat /\ i - 1 \in 0..(total - 1)
    BY SizesArePositive DEF DynTypeInv
  <1>1. (i - 1) \div blksize = 0 /\ (i - 1) % blksize \in 0..(blksize - 1)
        /\ i - 1 = ((i - 1) \div blksize) * blksize + ((i - 1) % blksize)
    BY <1>0, Places
  <1>2. i - 1 = (i - 1) % blksize /\ i - 1 \in 0..(blksize - 1)
    BY <1>0, <1>1
  <1>3. Element(Bytes(blocklist[1]), i - 1) = blocklist[1][i - 1]
    <2>1. i - 1 \in Nat
      BY <1>0
    <2> QED BY <1>2, <2>1, ElementOfBlock
  <1>4. blocklist[(i - 1) \div blksize + 1][(i - 1) % blksize] = written[(i - 1) + 1]
    BY <1>0 DEF CountsAgree
  <1>5. (i - 1) + 1 = i
    OBVIOUS
  <1> QED BY <1>1, <1>2, <1>3, <1>4, <1>5

-----------------------------------------------------------------------------
(* Several blocks of elements of one byte: that pos is increased by numbers *)
(* of bytes makes no difference, and offs bytes are offs elements.          *)
Bytewise == elemsize = 1 /\ blocklist # <<>>

LEMMA BlocksAre ==
  ASSUME DynTypeInv, CountsAgree, Bytewise
  PROVE  /\ blksize \in Nat \ {0} /\ blocks \in Nat \ {0} /\ offs \in 1..blksize /\ total \in Nat
         /\ total = (blocks - 1) * blksize + offs
         /\ FullBlocks = blocks - 1
  <1>1. blksize \in Nat \ {0} /\ blocks \in Nat \ {0} /\ offs \in 1..blksize /\ total \in Nat
    BY SizesArePositive DEF DynTypeInv, CountsAgree, Bytewise
  <1>2. total = (blocks - 1) * blksize + offs
    BY DEF CountsAgree, Bytewise
  <1> DEFINE q == blocks - 1  r == offs - 1
  <1>3. q \in Nat /\ r \in 0..(blksize - 1) /\ total - 1 = q * blksize + r
    BY <1>1, <1>2
  <1> HIDE DEF q, r
  <1>4. (total - 1) \div blksize = q
    <2>1. blksize \in Nat \ {0}
      BY <1>1
    <2> QED BY <1>3, <2>1, QuotientOf
  <1> QED BY <1>1, <1>2, <1>4 DEF FullBlocks, q

LEMMA CopiedAre ==
  ASSUME DynTypeInv, CountsAgree, Bytewise, NEW k \in 0..(blocks - 1)
  PROVE  /\ Copied(k).at = k * blksize
         /\ Copied(k).len = IF k < blocks - 1 THEN blksize ELSE offs
         /\ Copied(k).from = Bytes(blocklist[k + 1])
  <1>1. FullBlocks = blocks - 1 /\ blksize \in Nat \ {0} /\ k \in Nat /\ elemsize = 1
    BY BlocksAre DEF Bytewise
  <1>2. k * blksize * elemsize * elemsize = k * blksize /\ blksize * elemsize = blksize
    BY <1>1
  <1> QED BY <1>1, <1>2 DEF Copied

(* Every byte of the area is copied once.                                  *)
LEMMA CopiedOnce ==
  ASSUME DynTypeInv, CountsAgree, Bytewise, NEW i \in 0..(total - 1)
  PROVE  Copies(i) = {i \div blksize}
  <1>0. /\ blksize \in Nat \ {0} /\ blocks \in Nat \ {0} /\ offs \in 1..blksize /\ total \in Nat /\ i \in Nat
    BY BlocksAre
  <1> DEFINE q == i \div blksize  r == i % blksize
  <1>1. /\ q \in 0..(blocks - 1) /\ r \in 0..(blksize - 1) /\ i = q * blksize + r
        /\ q = blocks - 1 => r < offs
    BY Places
  <1> HIDE DEF q, r
  <1>2. ASSUME NEW k \in Copies(i) PROVE k = q
    <2>1. k \in 0..(blocks - 1) /\ i \in (k * blksize)..(k * blksize + Copied(k).len - 1) /\ Copied(k).len \in 1..blksize
      BY <1>0, <1>2, CopiedAre DEF Copies
    <2> DEFINE s == i - k * blksize
    <2>2. k \in Nat /\ s \in 0..(blksize - 1) /\ i = k * blksize + s
      BY <1>0, <2>1
    <2> HIDE DEF s
    <2>3. q \in Nat /\ blksize \in Nat \ {0} /\ q * blksize + r = k * blksize + s
      BY <1>0, <1>1, <2>2
    <2> QED BY <1>1, <2>2, <2>3, QuotientIsUnique
  <1>3. q \in Copies(i)
    <2>1. Copied(q).at = q * blksize /\ Copied(q).len = IF q < blocks - 1 THEN blksize ELSE offs
      BY <1>1, CopiedAre
    <2>2. r < Copied(q).len /\ Copied(q).len \in Nat
      BY <1>0, <1>1, <2>1
    <2>3. q * blksize \in Nat
      BY <1>0, <1>1
    <2>4. i \in Copied(q).at..(Copied(q).at + Copied(q).len - 1)
      BY <1>0, <1>1, <2>1, <2>2, <2>3
    <2> QED BY <1>1, <2>4 DEF Copies
  <1> QED BY <1>2, <1>3 DEF q

LEMMA MaxOfOne == ASSUME NEW x \in Int PROVE Max({x}) = x
  BY DEF Max

LEMMA SeveralBlocks ==
  ASSUME DynTypeInv, CountsAgree, Bytewise, NEW i \in 0..(total - 1)
  PROVE  Element(Area, i) = written[i + 1]
  <1>0. blksize \in Nat \ {0} /\ blocks \in Nat \ {0} /\ total \in Nat /\ i \in Nat /\ elemsize = 1
    BY BlocksAre DEF Bytewise
  <1> DEFINE q == i \div blksize  r == i % blksize  c == Copied(q)
  <1>1. q \in 0..(blocks - 1) /\ r \in 0..(blksize - 1) /\ i = q * blksize + r
    BY Places
  <1>2. Copies(i) = {q}
    BY CopiedOnce
  <1>3. blocklist[q + 1][r] = written[i + 1]
    BY DEF CountsAgree
  <1>4. c.at = q * blksize /\ c.from = Bytes(blocklist[q + 1])
    BY <1>1, CopiedAre
  <1>5. Area[i] = IF Copies(i) = {} THEN Zero ELSE Copied(Max(Copies(i))).from[i - Copied(Max(Copies(i))).at]
    <2>1. i \in 0..(total * elemsize - 1)
      BY <1>0
    <2> QED BY <2>1 DEF Area
  <1>6. Max(Copies(i)) = q
    BY <1>1, <1>2, MaxOfOne
  <1>7. Area[i] = c.from[i - c.at]
    BY <1>2, <1>5, <1>6
  <1> HIDE DEF q, r, c
  <1>8. i - c.at = r
    <2>1. q * blksize \in Int /\ r \in Int
      BY <1>0, <1>1
    <2> QED BY <1>1, <1>4, <2>1
  <1>9. Area[i] = Bytes(blocklist[q + 1])[r]
    BY <1>4, <1>7, <1>8
  <1>10. ASSUME NEW j \in 0..(elemsize - 1)
         PROVE  Area[i * elemsize + j] = Bytes(blocklist[q + 1])[r * elemsize + j]
    <2>1. j = 0 /\ i * elemsize + j = i /\ r * elemsize + j = r
      BY <1>0, <1>1
    <2> QED BY <1>9, <2>1
  <1>11. Element(Area, i) = blocklist[q + 1][r]
    BY <1>0, <1>1, <1>10, ElementOfBlock
  <1> QED BY <1>3, <1>11 DEF q, r

LEMMA NothingBeyond ==
  ASSUME DynTypeInv, CountsAgree, Bytewise
  PROVE  ~Overrun
  <1>0. /\ blksize \in Nat \ {0} /\ blocks \in Nat \ {0} /\ offs \in 1..blksize /\ total \in Nat
        /\ total = (blocks - 1) * blksize + offs /\ elemsize = 1
    BY BlocksAre DEF Bytewise
  <1>1. ASSUME NEW k \in 0..(blocks - 1) PROVE Copied(k).at + Copied(k).len <= total
    <2>1. Copied(k).at = k * blksize /\ Copied(k).len = IF k < blocks - 1 THEN blksize ELSE offs
      BY CopiedAre
    <2>2. CASE k = blocks - 1
      BY <1>0, <2>1, <2>2
    <2>3. CASE k < blocks - 1
      <3>1. (k + 1) * blksize <= (blocks - 1) * blksize
        BY <1>0, <2>3, TimesIsMonotone
      <3>2. (k + 1) * blksize = k * blksize + blksize
        BY <1>0
      <3> QED BY <1>0, <2>1, <2>3, <3>1, <3>2
    <2> QED BY <1>0, <2>2, <2>3
  <1>2. total * elemsize = total
    BY <1>0
  <1>3. ASSUME NEW k \in 0..(blocks - 1) PROVE ~(Copied(k).at + Copied(k).len > total)
    <2>1. Copied(k).at \in Int /\ Copied(k).len \in Int
      BY <1>0, CopiedAre
    <2> QED BY <1>0, <1>1, <2>1
  <1> QED BY <1>2, <1>3 DEF Overrun

-----------------------------------------------------------------------------
LEMMA MergeInv == ASSUME DynInv, Merge PROVE DynInv'
  <1> USE DEF DynInv
  <1>0. elemsize' = elemsize /\ blksize' = blksize /\ Clear /\ blocklist # <<>>
    BY DEF Merge, sizes
  <1>1. DynTypeInv' /\ CountsAgree'
    <2>1. offs' \in 0..blksize'
      BY <1>0, SizesArePositive DEF Clear
    <2> QED BY <1>0, <2>1 DEF Clear, DynTypeInv, CountsAgree
  <1>2. SUFFICES ASSUME elemsize = 1 \/ blocks <= 1
                 PROVE  merged'.got = merged'.want /\ merged'.overrun = FALSE
    BY <1>0, <1>1 DEF MergeReturnsPut, Merge
  <1> DEFINE area == IF blocks > 1 THEN Area ELSE Bytes(blocklist[1])
  <1>3. /\ merged'.want = written
        /\ merged'.got = [i \in 1..total |-> Element(area, i - 1)]
        /\ merged'.overrun = (blocks > 1 /\ Overrun)
    BY DEF Merge
  <1>4. blocks \in Nat \ {0} /\ total \in Nat /\ total = Len(written) /\ written \in Seq(Items)
    BY <1>0 DEF DynTypeInv, CountsAgree
  <1>5. ASSUME NEW i \in 1..total PROVE Element(area, i - 1) = written[i]
    <2>1. CASE blocks = 1
      BY <2>1, OneBlock
    <2>2. CASE blocks > 1
      <3>1. Bytewise /\ i - 1 \in 0..(total - 1) /\ (i - 1) + 1 = i
        BY <1>0, <1>2, <1>4, <2>2 DEF Bytewise
      <3>2. Element(Area, i - 1) = written[(i - 1) + 1]
        BY <3>1, SeveralBlocks
      <3> QED BY <2>2, <3>1, <3>2
    <2> QED BY <1>4, <2>1, <2>2
  <1>6. merged'.got = merged'.want
    <2> HIDE DEF area
    <2>1. [i \in 1..total |-> Element(area, i - 1)] = [i \in 1..total |-> written[i]]
      BY <1>5
    <2>2. written = [i \in 1..total |-> written[i]]
      BY <1>4
    <2> QED BY <1>3, <2>1, <2>2
  <1>7. ~(blocks > 1 /\ Overrun)
    BY <1>0, <1>2, <1>4, NothingBeyond DEF Bytewise
  <1> QED BY <1>3, <1>6, <1>7

LEMMA DynNextInv == DynInv /\ [DynNext]_dynVars => DynInv'
  <1> SUFFICES ASSUME DynInv, [DynNext]_dynVars PROVE DynInv'
    OBVIOUS
  <1> USE DEF DynInv
  <1>1. ASSUME NEW v \in Items, Put(v) PROVE DynInv'
    <2>1. DynTypeInv' /\ CountsAgree'
      BY <1>1, PutInNew, PutInLast
    <2>2. MergeReturnsPut'
      BY <1>1 DEF Put, sizes, MergeReturnsPut
    <2> QED BY <2>1, <2>2
  <1>2. CASE MergeNothing
    BY <1>2 DEF MergeNothing, sizes, DynTypeInv, CountsAgree, MergeReturnsPut, Blocks
  <1>3. CASE Clear /\ UNCHANGED <<sizes, merged>>
    <2>1. DynTypeInv' /\ CountsAgree'
      <3>1. offs' \in 0..blksize'
        BY <1>3, SizesArePositive DEF Clear, sizes
      <3> QED BY <1>3, <3>1 DEF Clear, sizes, DynTypeInv, CountsAgree
    <2>2. MergeReturnsPut'
      BY <1>3 DEF sizes, MergeReturnsPut
    <2> QED BY <2>1, <2>2
  <1>4. CASE UNCHANGED dynVars
    BY <1>4 DEF dynVars, sizes, DynTypeInv, CountsAgree, MergeReturnsPut, Blocks
  <1> QED BY <1>1, <1>2, <1>3, <1>4, MergeInv DEF DynNext

-----------------------------------------------------------------------------
(* For elements of any size, blocks of any size and any number of elements: *)
(* what was put is in the blocks, where the counters say, and merge()       *)
(* returns it and writes nowhere else, as long as an element is one byte or *)
(* all fit into one block.                                                  *)
THEOREM NothingPutIsLost == DynSpec => []KeepsWhatIsPut
  <1>1. DynInv => KeepsWhatIsPut
    BY DEF DynInv, KeepsWhatIsPut
  <1> QED BY <1>1, DynInitInv, DynNextInv, PTL DEF DynSpec

-----------------------------------------------------------------------------
(* RingBuffer.                                                             *)

RingInv == TypeOK /\ LastAgrees

USE SizeMaxAssumption, SizesAssumption, PositionsAssumption

(***************************************************************************)
(* The arithmetic of size_t, for the numbers that occur.                   *)
(***************************************************************************)

LEMMA MinusOne == Minus(0, 1) = SizeMax
  BY DEF Minus

(* Going forward from a slot goes around the end of the array, once. *)
LEMMA AheadWraps ==
  ASSUME NEW n \in Sizes, NEW index \in 0..(n - 1), NEW number \in 0..(n - 1)
  PROVE  /\ index + number < n => Ahead(n, index, number) = index + number
         /\ index + number >= n => Ahead(n, index, number) = index + number - n
         /\ Ahead(n, index, number) \in 0..(n - 1)
  <1>1. n \in 1..SizeMax
    OBVIOUS
  <1>2. Minus(Minus(n, 1), number) = n - 1 - number
    BY <1>1 DEF Minus
  <1>3. Minus(n, index) = n - index
    BY <1>1 DEF Minus
  <1>4. CASE index + number < n
    BY <1>1, <1>2, <1>4 DEF Ahead, Plus
  <1>5. CASE index + number >= n
    BY <1>1, <1>2, <1>3, <1>5 DEF Ahead, Minus
  <1>6. QED
    BY <1>1, <1>4, <1>5

LEMMA SuccessorWraps ==
  ASSUME NEW n \in Sizes, NEW index \in 0..(n - 1)
  PROVE  /\ Successor(n, index) \in 0..(n - 1)
         /\ index = n - 1 => Successor(n, index) = 0
         /\ index # n - 1 => Successor(n, index) = index + 1
  BY DEF Successor, Minus, Plus

(* The first element goes to the first slot. *)
LEMMA SuccessorOfNone == ASSUME NEW n \in Sizes PROVE Successor(n, SizeMax) = 0
  BY DEF Successor, Minus, Plus

(* Two ways to the same slot. *)
LEMMA SuccessorOfAhead ==
  ASSUME NEW n \in Sizes, NEW index \in 0..(n - 1), NEW number \in 0..(n - 1),
         number + 1 < n
  PROVE  Successor(n, Ahead(n, index, number)) = Ahead(n, index, number + 1)
  <1> DEFINE a == Ahead(n, index, number)
  <1>1. /\ index + number < n => a = index + number
        /\ index + number >= n => a = index + number - n
        /\ a \in 0..(n - 1)
    BY AheadWraps
  <1>2. /\ index + number + 1 < n => Ahead(n, index, number + 1) = index + number + 1
        /\ index + number + 1 >= n => Ahead(n, index, number + 1) = index + number + 1 - n
    <2>1. number + 1 \in 0..(n - 1) /\ n \in Int
      OBVIOUS
    <2>2. index + (number + 1) = index + number + 1
      OBVIOUS
    <2>3. QED
      BY <2>1, <2>2, AheadWraps
  <1>3. /\ Successor(n, a) \in 0..(n - 1)
        /\ a = n - 1 => Successor(n, a) = 0
        /\ a # n - 1 => Successor(n, a) = a + 1
    BY <1>1, SuccessorWraps
  <1> HIDE DEF a
  <1>4. Successor(n, a) = Ahead(n, index, number + 1)
    BY <1>1, <1>2, <1>3
  <1>5. QED
    BY <1>4 DEF a

LEMMA AheadOfAhead ==
  ASSUME NEW n \in Sizes, NEW index \in 0..(n - 1),
         NEW k \in 0..(n - 1), NEW l \in 0..(n - 1), k + l < n
  PROVE  Ahead(n, Ahead(n, index, k), l) = Ahead(n, index, k + l)
  <1> DEFINE a == Ahead(n, index, k)
  <1>1. /\ index + k < n => a = index + k
        /\ index + k >= n => a = index + k - n
        /\ a \in 0..(n - 1)
    BY AheadWraps
  <1>2. /\ index + k + l < n => Ahead(n, index, k + l) = index + k + l
        /\ index + k + l >= n => Ahead(n, index, k + l) = index + k + l - n
    <2>1. k + l \in 0..(n - 1) /\ n \in Int
      OBVIOUS
    <2>2. index + (k + l) = index + k + l
      OBVIOUS
    <2>3. QED
      BY <2>1, <2>2, AheadWraps
  <1>3. /\ a + l < n => Ahead(n, a, l) = a + l
        /\ a + l >= n => Ahead(n, a, l) = a + l - n
    BY <1>1, AheadWraps
  <1> HIDE DEF a
  <1>4. Ahead(n, a, l) = Ahead(n, index, k + l)
    BY <1>1, <1>2, <1>3
  <1>5. QED
    BY <1>4 DEF a

LEMMA AheadNothing ==
  ASSUME NEW n \in Sizes, NEW index \in 0..(n - 1)
  PROVE  Ahead(n, index, 0) = index
  <1>1. 0 \in 0..(n - 1) /\ index + 0 < n
    OBVIOUS
  <1>2. QED
    BY <1>1, AheadWraps

(* The successor of a slot is one ahead of it, in a buffer with another slot. *)
LEMMA SuccessorIsAhead ==
  ASSUME NEW n \in Sizes, NEW index \in 0..(n - 1), n > 1
  PROVE  Successor(n, index) = Ahead(n, index, 1)
  <1>1. 0 \in 0..(n - 1) /\ 0 + 1 < n
    OBVIOUS
  <1>2. Successor(n, Ahead(n, index, 0)) = Ahead(n, index, 0 + 1)
    BY <1>1, SuccessorOfAhead
  <1>3. QED
    BY <1>2, AheadNothing

(* Different elements are in different slots. *)
LEMMA AheadInjective ==
  ASSUME NEW n \in Sizes, NEW index \in 0..(n - 1),
         NEW k \in 0..(n - 1), NEW l \in 0..(n - 1),
         Ahead(n, index, k) = Ahead(n, index, l)
  PROVE  k = l
  <1>1. /\ index + k < n => Ahead(n, index, k) = index + k
        /\ index + k >= n => Ahead(n, index, k) = index + k - n
    BY AheadWraps
  <1>2. /\ index + l < n => Ahead(n, index, l) = index + l
        /\ index + l >= n => Ahead(n, index, l) = index + l - n
    BY AheadWraps
  <1>3. QED
    BY <1>1, <1>2

(* Once around: from the first slot to the last one and from there back.   *)
LEMMA FullCircle ==
  ASSUME NEW n \in Sizes, NEW index \in 0..(n - 1)
  PROVE  /\ Successor(n, Ahead(n, index, n - 1)) = index
         /\ Ahead(n, Successor(n, index), n - 1) = index
         /\ Successor(n, index) \in 0..(n - 1)
  <1>1. n - 1 \in 0..(n - 1) /\ n \in Int
    OBVIOUS
  <1> DEFINE a == Ahead(n, index, n - 1)
             b == Successor(n, index)
  <1>2. /\ index + (n - 1) < n => a = index + (n - 1)
        /\ index + (n - 1) >= n => a = index + (n - 1) - n
        /\ a \in 0..(n - 1)
    BY <1>1, AheadWraps
  <1>3. /\ b \in 0..(n - 1)
        /\ index = n - 1 => b = 0
        /\ index # n - 1 => b = index + 1
    BY SuccessorWraps
  <1>4. /\ a = n - 1 => Successor(n, a) = 0
        /\ a # n - 1 => Successor(n, a) = a + 1
    BY <1>2, SuccessorWraps
  <1>5. /\ b + (n - 1) < n => Ahead(n, b, n - 1) = b + (n - 1)
        /\ b + (n - 1) >= n => Ahead(n, b, n - 1) = b + (n - 1) - n
    BY <1>1, <1>3, AheadWraps
  <1> HIDE DEF a, b
  <1>6. Successor(n, a) = index /\ Ahead(n, b, n - 1) = index
    BY <1>1, <1>2, <1>3, <1>4, <1>5
  <1>7. QED
    BY <1>3, <1>6 DEF a, b

(***************************************************************************)
(* The invariant.                                                          *)
(***************************************************************************)

LEMMA Typing ==
  ASSUME RingInv
  PROVE  /\ size \in Sizes /\ size \in Nat /\ size > 0 /\ size <= SizeMax
         /\ elements \in Nat /\ elements <= size
         /\ first \in 0..(size - 1)
         /\ last \in 0..(size - 1) \cup {SizeMax}
         /\ buffer \in [0..(size - 1) -> Values]
         /\ elements = 0 => first = 0 /\ last = SizeMax
         /\ elements > 0 => last = Ahead(size, first, elements - 1)
  BY DEF RingInv, TypeOK, LastAgrees, Slots

(* What the successful branch of enqueue() does, for either reason.        *)
LEMMA EnqueueStep ==
  ASSUME RingInv, NEW e \in Values, Enqueue(e), ~Throw
  PROVE  /\ size' = size /\ quiet' = quiet /\ ret' = Void
         /\ \/ elements < size /\ elements' = elements + 1 /\ first' = first
            \/ elements = size /\ quiet /\ elements' = elements
                 /\ first' = Successor(size, first)
         /\ first' \in 0..(size - 1)
         /\ last' = Ahead(size, first', elements' - 1)
         /\ last' \in 0..(size - 1)
         /\ buffer' = [buffer EXCEPT ![last'] = e]
  <1>1. /\ size' = size /\ quiet' = quiet /\ ret' = Void
        /\ buffer' = [buffer EXCEPT ![last'] = e]
        /\ last' = Successor(size, last)
        /\ \/ elements < size /\ elements' = elements + 1 /\ first' = first
           \/ elements = size /\ quiet /\ elements' = elements
                /\ first' = Successor(size, first)
    BY DEF Enqueue
  <1>2. CASE elements < size /\ elements' = elements + 1 /\ first' = first
    <2>1. CASE elements = 0
      <3>1. last' = 0 /\ first' = 0 /\ elements' - 1 = 0
        BY <1>1, <1>2, <2>1, Typing, SuccessorOfNone
      <3>2. Ahead(size, first', elements' - 1) = 0 /\ 0 \in 0..(size - 1)
        BY <3>1, Typing, AheadNothing
      <3>3. QED
        BY <1>1, <1>2, <3>1, <3>2
    <2>2. CASE elements > 0
      <3>1. elements - 1 \in 0..(size - 1) /\ elements - 1 + 1 < size
        BY <1>2, <2>2, Typing
      <3>2. last' = Ahead(size, first, elements - 1 + 1)
        BY <1>1, <2>2, <3>1, Typing, SuccessorOfAhead
      <3>3. elements - 1 + 1 = elements' - 1 /\ elements' - 1 \in 0..(size - 1)
        BY <1>2, <2>2, Typing
      <3>4. Ahead(size, first, elements' - 1) \in 0..(size - 1)
        BY <3>3, Typing, AheadWraps
      <3>5. QED
        BY <1>1, <1>2, <3>2, <3>3, <3>4, Typing
    <2>3. QED
      BY <2>1, <2>2, Typing
  <1>3. CASE elements = size /\ quiet /\ elements' = elements
               /\ first' = Successor(size, first)
    <2>1. last' = first
      BY <1>1, <1>3, Typing, FullCircle
    <2>2. Ahead(size, first', elements' - 1) = first /\ first' \in 0..(size - 1)
      BY <1>3, Typing, FullCircle
    <2>3. QED
      BY <1>1, <1>3, <2>1, <2>2, Typing
  <1>4. QED
    BY <1>1, <1>2, <1>3

(* What the successful branch of dequeue() does.                           *)
LEMMA DequeueStep ==
  ASSUME RingInv, Dequeue, ~Throw
  PROVE  /\ elements > 0 /\ elements' = elements - 1
         /\ ret' = buffer[first] /\ ret' \in Values
         /\ size' = size /\ quiet' = quiet /\ buffer' = buffer
         /\ elements = 1 => first' = 0 /\ last' = SizeMax
         /\ elements > 1 => first' = Ahead(size, first, 1) /\ last' = last
  <1>1. /\ elements > 0 /\ elements' = elements - 1 /\ ret' = buffer[first]
        /\ size' = size /\ quiet' = quiet /\ buffer' = buffer
        /\ elements' = 0 => Reset
        /\ elements' # 0 => first' = Successor(size, first) /\ last' = last
    BY DEF Dequeue
  <1>2. ret' \in Values
    BY <1>1, Typing
  <1>3. elements = 1 => first' = 0 /\ last' = SizeMax
    BY <1>1, MinusOne DEF Reset
  <1>4. elements > 1 => first' = Ahead(size, first, 1) /\ last' = last
    BY <1>1, Typing, SuccessorIsAhead
  <1>5. QED
    BY <1>1, <1>2, <1>3, <1>4

(* What the successful branch of skip() does.                              *)
LEMMA SkipStep ==
  ASSUME RingInv, NEW n \in Positions, Skip(n), ~Throw
  PROVE  /\ n \in Nat /\ n <= elements /\ elements' = elements - n
         /\ size' = size /\ quiet' = quiet /\ buffer' = buffer /\ ret' = Void
         /\ n > 0 /\ n = elements => first' = 0 /\ last' = SizeMax
         /\ n < elements => first' = Ahead(size, first, n) /\ last' = last
         /\ n = 0 => first' = first /\ last' = last
  <1>1. n \in Nat
    OBVIOUS
  <1>2. CASE n = 0
    <2>1. /\ size' = size /\ quiet' = quiet /\ buffer' = buffer /\ ret' = Void
          /\ elements' = elements /\ first' = first /\ last' = last
      BY <1>2 DEF Skip
    <2>2. first = Ahead(size, first, 0)
      BY Typing, AheadNothing
    <2>3. QED
      BY <1>2, <2>1, <2>2, Typing
  <1>3. CASE n > 0
    <2>1. /\ size' = size /\ quiet' = quiet /\ buffer' = buffer /\ ret' = Void
          /\ InBounds(n - 1)
          /\ elements' = elements - n
          /\ n = elements => Reset
          /\ n # elements => first' = Ahead(size, first, n) /\ last' = last
      BY <1>3 DEF Skip
    <2>2. QED
      BY <1>1, <1>3, <2>1, Typing, MinusOne DEF InBounds, Reset
  <1>4. QED
    BY <1>1, <1>2, <1>3

(* Nothing but the result changes. *)
LEMMA StutterInv ==
  ASSUME RingInv, UNCHANGED <<size, quiet, elements, first, last, buffer>>,
         ret' \in Values \cup {Void, Failed}
  PROVE  RingInv'
  BY DEF RingInv, TypeOK, LastAgrees, Slots

LEMMA InitInv == Init => RingInv
  BY MinusOne DEF Init, RingInv, TypeOK, LastAgrees, Slots

LEMMA NextInv == RingInv /\ [Next]_vars => RingInv'
  <1> SUFFICES ASSUME RingInv, [Next]_vars
               PROVE  RingInv'
    OBVIOUS
  <1>t. TypeOK
    BY DEF RingInv
  <1>0. CASE UNCHANGED vars
    BY <1>0, <1>t, StutterInv DEF vars, TypeOK
  <1>1. ASSUME NEW e \in Values, Enqueue(e) PROVE RingInv'
    <2>1. CASE Throw
      BY <1>1, <2>1, StutterInv DEF Enqueue, Throw
    <2>2. CASE ~Throw
      <3>1. /\ size' = size /\ quiet' = quiet /\ ret' = Void
            /\ elements' \in Nat /\ 0 < elements' /\ elements' <= size
            /\ first' \in 0..(size - 1)
            /\ last' = Ahead(size, first', elements' - 1)
            /\ last' \in 0..(size - 1)
            /\ buffer' = [buffer EXCEPT ![last'] = e]
        BY <1>1, <2>2, EnqueueStep, Typing
      <3>2. buffer' \in [0..(size - 1) -> Values]
        BY <3>1, Typing
      <3>3. TypeOK'
        BY <1>t, <3>1, <3>2 DEF TypeOK, Slots
      <3>4. LastAgrees'
        BY <3>1 DEF LastAgrees
      <3>5. QED
        BY <3>3, <3>4 DEF RingInv
    <2>3. QED
      BY <2>1, <2>2
  <1>2. CASE Dequeue
    <2>1. CASE Throw
      BY <1>2, <2>1, StutterInv DEF Dequeue, Throw
    <2>2. CASE ~Throw
      <3>1. /\ elements > 0 /\ elements' = elements - 1 /\ ret' \in Values
            /\ size' = size /\ quiet' = quiet /\ buffer' = buffer
            /\ elements = 1 => first' = 0 /\ last' = SizeMax
            /\ elements > 1 => first' = Ahead(size, first, 1) /\ last' = last
        BY <1>2, <2>2, DequeueStep
      <3>2. CASE elements = 1
        BY <1>t, <3>1, <3>2, Typing DEF RingInv, TypeOK, LastAgrees, Slots
      <3>3. CASE elements > 1
        <4>1. 1 \in 0..(size - 1) /\ elements - 2 \in 0..(size - 1) /\ 1 + (elements - 2) < size
              /\ 1 + (elements - 2) = elements - 1
          BY <3>3, Typing
        <4>2. Ahead(size, first, 1) \in 0..(size - 1)
          BY <4>1, Typing, AheadWraps
        <4>3. last = Ahead(size, Ahead(size, first, 1), elements - 2)
          BY <3>3, <4>1, Typing, AheadOfAhead
        <4>4. TypeOK'
          BY <1>t, <3>1, <3>3, <4>2, Typing DEF TypeOK, Slots
        <4>5. elements' - 1 = elements - 2
          BY <3>1, Typing
        <4>6. LastAgrees'
          BY <3>1, <3>3, <4>3, <4>5, Typing DEF LastAgrees
        <4>7. QED
          BY <4>4, <4>6 DEF RingInv
      <3>4. QED
        BY <3>1, <3>2, <3>3, Typing
    <2>3. QED
      BY <2>1, <2>2
  <1>3. ASSUME NEW n \in Positions, Read(n) PROVE RingInv'
    <2>1. UNCHANGED <<size, quiet, elements, first, last, buffer>>
      BY <1>3 DEF Read, Throw
    <2>2. CASE InBounds(n)
      <3>1. n \in 0..(size - 1)
        BY <2>2, Typing DEF InBounds
      <3>2. buffer[Ahead(size, first, n)] \in Values
        BY <3>1, Typing, AheadWraps
      <3>3. QED
        BY <1>3, <2>1, <2>2, <3>2, StutterInv DEF Read, Throw
    <2>3. CASE ~InBounds(n)
      BY <1>3, <2>1, <2>3, StutterInv DEF Read, Throw
    <2>4. QED
      BY <2>2, <2>3
  <1>4. ASSUME NEW n \in Positions, Skip(n) PROVE RingInv'
    <2>1. CASE Throw
      BY <1>4, <2>1, StutterInv DEF Skip, Throw
    <2>2. CASE ~Throw
      <3>1. /\ n \in Nat /\ n <= elements /\ elements' = elements - n
            /\ size' = size /\ quiet' = quiet /\ buffer' = buffer /\ ret' = Void
            /\ n > 0 /\ n = elements => first' = 0 /\ last' = SizeMax
            /\ n < elements => first' = Ahead(size, first, n) /\ last' = last
            /\ n = 0 => first' = first /\ last' = last
        BY <1>4, <2>2, SkipStep
      <3>2. CASE n = 0
        BY <3>1, <3>2, Typing, StutterInv
      <3>3. CASE n > 0 /\ n = elements
        BY <1>t, <3>1, <3>3, Typing DEF RingInv, TypeOK, LastAgrees, Slots
      <3>4. CASE n < elements
        <4>1. /\ n \in 0..(size - 1) /\ elements - n - 1 \in 0..(size - 1)
              /\ n + (elements - n - 1) < size /\ n + (elements - n - 1) = elements - 1
          BY <3>1, <3>4, Typing
        <4>2. Ahead(size, first, n) \in 0..(size - 1)
          BY <4>1, Typing, AheadWraps
        <4>3. last = Ahead(size, Ahead(size, first, n), elements - n - 1)
          BY <3>1, <3>4, <4>1, Typing, AheadOfAhead
        <4>4. TypeOK'
          BY <1>t, <3>1, <3>4, <4>2, Typing DEF TypeOK, Slots
        <4>5. elements' - 1 = elements - n - 1 /\ elements' # 0
          BY <3>1, <3>4, Typing
        <4>6. LastAgrees'
          BY <3>1, <3>4, <4>3, <4>5 DEF LastAgrees
        <4>7. QED
          BY <4>4, <4>6 DEF RingInv
      <3>5. QED
        BY <3>1, <3>2, <3>3, <3>4, Typing
    <2>3. QED
      BY <2>1, <2>2
  <1>5. ASSUME NEW n \in Positions, NEW e \in Values, Assign(n, e) PROVE RingInv'
    <2>1. UNCHANGED <<elements, first, last, size, quiet>> /\ ret' \in {Void, Failed}
      BY <1>5 DEF Assign, Throw
    <2>2. buffer' \in [Slots(size) -> Values]
      BY <1>5, <1>t DEF Assign, Throw, TypeOK
    <2>3. QED
      BY <1>t, <2>1, <2>2 DEF RingInv, TypeOK, LastAgrees, Slots
  <1>6. QED
    BY <1>0, <1>1, <1>2, <1>3, <1>4, <1>5 DEF Next

LEMMA Invariant == Spec => []RingInv
  BY InitInv, NextInv, PTL DEF Spec

(* The indices stay inside the array and agree with each other, whatever   *)
(* the size, the mode and the calls (next(), forward(), reset()).          *)
THEOREM IndicesAgree == Spec => [](TypeOK /\ LastAgrees)
  BY Invariant, PTL DEF RingInv

(***************************************************************************)
(* Refinement: the slots from first on hold the abstract queue.            *)
(***************************************************************************)

ContentsInSlots ==
  /\ Contents \in Seq(Values)
  /\ Len(Contents) = elements
  /\ \A i \in 1..elements : Contents[i] = buffer[Ahead(size, first, i - 1)]

LEMMA ContentsProperties == RingInv => ContentsInSlots
  <1> SUFFICES ASSUME RingInv PROVE ContentsInSlots
    OBVIOUS
  <1>1. ASSUME NEW i \in 1..elements PROVE buffer[Ahead(size, first, i - 1)] \in Values
    <2>1. i - 1 \in 0..(size - 1)
      BY Typing
    <2>2. QED
      BY <2>1, Typing, AheadWraps
  <1>2. Contents \in [1..elements -> Values]
    BY <1>1 DEF Contents
  <1>3. Contents \in Seq(Values) /\ Len(Contents) = elements
    BY <1>2, Typing
  <1>4. QED
    BY <1>3 DEF Contents, ContentsInSlots

LEMMA ContentsPropertiesNext == RingInv' => ContentsInSlots'
  BY ContentsProperties, PTL

(* As long as first and the slots stay, so does the queue.                 *)
LEMMA ContentsStay ==
  ASSUME UNCHANGED <<size, elements, first, buffer>>
  PROVE  Contents' = Contents
  BY DEF Contents

(* Sequences given by their elements.                                      *)
LEMMA AppendIs ==
  ASSUME NEW S, NEW s \in Seq(S), NEW t \in Seq(S), NEW e \in S,
         Len(t) = Len(s) + 1, \A i \in 1..Len(s) : t[i] = s[i], t[Len(s) + 1] = e
  PROVE  t = Append(s, e)
  <1>1. Append(s, e) \in Seq(S) /\ Len(Append(s, e)) = Len(t) /\ Len(s) \in Nat
    OBVIOUS
  <1>2. ASSUME NEW i \in 1..Len(t) PROVE t[i] = Append(s, e)[i]
    <2>1. i \in 1..Len(s) \/ i = Len(s) + 1
      BY <1>1
    <2>2. QED
      BY <2>1
  <1>3. QED
    BY <1>1, <1>2, SeqEqual

LEMMA SubSeqIs ==
  ASSUME NEW S, NEW s \in Seq(S), NEW t \in Seq(S), NEW n \in Nat, n <= Len(s),
         Len(t) = Len(s) - n, \A i \in 1..Len(t) : t[i] = s[n + i]
  PROVE  t = SubSeq(s, n + 1, Len(s))
  <1>1. Len(s) \in Nat /\ Len(t) \in Nat /\ n + 1 \in Int
    OBVIOUS
  <1>2. \A i \in (n + 1)..Len(s) : s[i] \in S
    BY ElementOfSeq
  <1>3. /\ SubSeq(s, n + 1, Len(s)) \in Seq(S)
        /\ Len(SubSeq(s, n + 1, Len(s))) =
              IF n + 1 <= Len(s) THEN Len(s) - (n + 1) + 1 ELSE 0
        /\ \A i \in 1..(Len(s) - (n + 1) + 1) :
              SubSeq(s, n + 1, Len(s))[i] = s[n + 1 + i - 1]
    BY <1>1, <1>2, SubSeqProperties
  <1>4. Len(SubSeq(s, n + 1, Len(s))) = Len(t)
    BY <1>1, <1>3
  <1>5. ASSUME NEW i \in 1..Len(t) PROVE t[i] = SubSeq(s, n + 1, Len(s))[i]
    <2>1. i \in 1..(Len(s) - (n + 1) + 1) /\ n + 1 + i - 1 = n + i
      BY <1>1
    <2>2. QED
      BY <2>1, <1>3
  <1>6. QED
    BY <1>3, <1>4, <1>5, SeqEqual

LEMMA TailIs ==
  ASSUME NEW S, NEW s \in Seq(S), NEW t \in Seq(S), s # <<>>,
         Len(t) = Len(s) - 1, \A i \in 1..Len(t) : t[i] = s[1 + i]
  PROVE  t = Tail(s)
  <1>1. 1 \in Nat /\ 1 <= Len(s)
    BY EmptySeq
  <1>2. t = SubSeq(s, 1 + 1, Len(s))
    BY <1>1, SubSeqIs
  <1>3. QED
    BY <1>2, TailIsSubSeq

LEMMA ShiftIs ==
  ASSUME NEW S, NEW s \in Seq(S), NEW t \in Seq(S), NEW e \in S, s # <<>>,
         Len(t) = Len(s), \A i \in 1..(Len(s) - 1) : t[i] = s[i + 1], t[Len(s)] = e
  PROVE  t = Append(Tail(s), e)
  <1>1. /\ Tail(s) \in Seq(S) /\ Len(Tail(s)) = Len(s) - 1
        /\ \A i \in 1..Len(Tail(s)) : Tail(s)[i] = s[i + 1]
    BY HeadTailProperties
  <1>2. Len(s) \in Nat /\ Len(Tail(s)) + 1 = Len(s)
    BY <1>1
  <1>3. QED
    BY <1>1, <1>2, AppendIs

LEMMA InitImplements == Init => Fifo!Init
  <1> SUFFICES ASSUME Init PROVE Fifo!Init
    OBVIOUS
  <1>1. RingInv /\ elements = 0
    BY InitInv DEF Init
  <1>2. Contents = <<>>
    BY <1>1, ContentsProperties DEF ContentsInSlots
  <1>3. size \in Nat \ {0}
    BY <1>1, Typing
  <1>4. QED
    BY <1>2, <1>3 DEF Init, Fifo!Init

LEMMA EnqueueImplements ==
  ASSUME RingInv, RingInv', NEW e \in Values, Enqueue(e)
  PROVE  Fifo!Enqueue(e)
  <1>c. /\ Contents \in Seq(Values) /\ Len(Contents) = elements
        /\ \A i \in 1..elements : Contents[i] = buffer[Ahead(size, first, i - 1)]
    BY ContentsProperties DEF ContentsInSlots
  <1>1. CASE Throw
    <2>1. elements = size /\ ~quiet /\ UNCHANGED <<size, quiet>>
      BY <1>1, Typing, ResultsAssumption DEF Enqueue, Throw
    <2>2. Contents' = Contents
      BY <1>1, <2>1, ContentsStay DEF Throw
    <2>3. QED
      BY <1>1, <1>c, <2>1, <2>2 DEF Throw, Fifo!Enqueue, Fifo!Refuse
  <1>2. CASE ~Throw
    <2>c. /\ Contents' \in Seq(Values) /\ Len(Contents') = elements'
          /\ \A i \in 1..elements' : Contents'[i] = buffer'[Ahead(size', first', i - 1)]
      BY ContentsPropertiesNext DEF ContentsInSlots
    <2>1. /\ size' = size /\ quiet' = quiet /\ ret' = Void
          /\ first' \in 0..(size - 1)
          /\ last' = Ahead(size, first', elements' - 1)
          /\ last' \in 0..(size - 1)
          /\ buffer' = [buffer EXCEPT ![last'] = e]
      BY <1>2, EnqueueStep
    <2>2. \A j \in 0..(size - 1) : buffer'[j] = IF j = last' THEN e ELSE buffer[j]
      BY <2>1, Typing
    <2>3. CASE elements < size /\ elements' = elements + 1 /\ first' = first
      <3>1. ASSUME NEW i \in 1..elements PROVE Contents'[i] = Contents[i]
        <4>1. i \in 1..elements' /\ i - 1 \in 0..(size - 1) /\ elements' - 1 \in 0..(size - 1)
              /\ i - 1 # elements' - 1
          BY <2>3, Typing
        <4>2. Ahead(size, first, i - 1) \in 0..(size - 1)
          BY <4>1, Typing, AheadWraps
        <4>3. Ahead(size, first, i - 1) # last'
          BY <2>1, <2>3, <4>1, Typing, AheadInjective
        <4>4. buffer'[Ahead(size, first, i - 1)] = buffer[Ahead(size, first, i - 1)]
          BY <2>2, <4>2, <4>3
        <4>5. QED
          BY <1>c, <2>c, <2>1, <2>3, <4>1, <4>4
      <3>2. Contents'[elements + 1] = e
        <4>1. elements' \in 1..elements'
          BY <2>3, Typing
        <4>2. Contents'[elements'] = buffer'[last']
          BY <2>c, <2>1, <4>1
        <4>3. QED
          BY <2>1, <2>2, <2>3, <4>2
      <3>3. Contents' = Append(Contents, e)
        BY <1>c, <2>c, <2>3, <3>1, <3>2, AppendIs
      <3>4. QED
        BY <1>c, <2>1, <2>3, <3>3 DEF Fifo!Enqueue
    <2>4. CASE elements = size /\ quiet /\ elements' = elements
                 /\ first' = Successor(size, first)
      <3>1. ASSUME NEW i \in 1..(elements - 1) PROVE Contents'[i] = Contents[i + 1]
        <4>1. /\ i \in 1..elements' /\ i + 1 \in 1..elements /\ i \in 0..(size - 1)
              /\ i - 1 \in 0..(size - 1) /\ elements' - 1 \in 0..(size - 1)
              /\ 1 \in 0..(size - 1) /\ 1 + (i - 1) < size /\ 1 + (i - 1) = i
              /\ i - 1 # elements' - 1 /\ size > 1 /\ i + 1 - 1 = i
          BY <2>4, Typing
        <4>2. first' = Ahead(size, first, 1)
          BY <2>4, <4>1, Typing, SuccessorIsAhead
        <4>3. Ahead(size, first', i - 1) = Ahead(size, first, i)
          BY <4>1, <4>2, Typing, AheadOfAhead
        <4>4. Ahead(size, first', i - 1) \in 0..(size - 1)
          BY <2>1, <4>1, Typing, AheadWraps
        <4>5. Ahead(size, first', i - 1) # last'
          BY <2>1, <4>1, Typing, AheadInjective
        <4>6. buffer'[Ahead(size, first', i - 1)] = buffer[Ahead(size, first, i)]
          BY <2>2, <4>3, <4>4, <4>5
        <4>7. Contents'[i] = buffer'[Ahead(size, first', i - 1)]
          BY <2>c, <2>1, <4>1
        <4>8. Contents[i + 1] = buffer[Ahead(size, first, i)]
          BY <1>c, <4>1
        <4>9. QED
          BY <4>6, <4>7, <4>8
      <3>2. Contents'[elements] = e
        <4>1. elements \in 1..elements' /\ elements - 1 = elements' - 1
          BY <2>4, Typing
        <4>2. Contents'[elements] = buffer'[last']
          BY <2>c, <2>1, <4>1
        <4>3. QED
          BY <2>1, <2>2, <4>2
      <3>3. Contents # <<>>
        BY <1>c, <2>4, Typing
      <3>4. Contents' = Append(Tail(Contents), e)
        BY <1>c, <2>c, <2>4, <3>1, <3>2, <3>3, ShiftIs
      <3>5. QED
        BY <1>c, <2>1, <2>4, <3>4 DEF Fifo!Enqueue
    <2>5. QED
      BY <1>2, <2>3, <2>4, EnqueueStep
  <1>3. QED
    BY <1>1, <1>2

LEMMA DequeueImplements ==
  ASSUME RingInv, RingInv', Dequeue
  PROVE  Fifo!Dequeue
  <1>c. /\ Contents \in Seq(Values) /\ Len(Contents) = elements
        /\ \A i \in 1..elements : Contents[i] = buffer[Ahead(size, first, i - 1)]
    BY ContentsProperties DEF ContentsInSlots
  <1>1. CASE Throw
    <2>1. elements = 0 /\ UNCHANGED <<size, quiet>>
      BY <1>1, Typing DEF Dequeue, Throw
    <2>2. Contents' = Contents
      BY <1>1, <2>1, ContentsStay DEF Throw
    <2>3. Contents = <<>>
      BY <1>c, <2>1
    <2>4. QED
      BY <1>1, <2>1, <2>2, <2>3 DEF Throw, Fifo!Dequeue, Fifo!Refuse
  <1>2. CASE ~Throw
    <2>c. /\ Contents' \in Seq(Values) /\ Len(Contents') = elements'
          /\ \A i \in 1..elements' : Contents'[i] = buffer'[Ahead(size', first', i - 1)]
      BY ContentsPropertiesNext DEF ContentsInSlots
    <2>1. /\ elements > 0 /\ elements' = elements - 1 /\ ret' = buffer[first]
          /\ size' = size /\ quiet' = quiet /\ buffer' = buffer
          /\ elements > 1 => first' = Ahead(size, first, 1)
      BY <1>2, DequeueStep
    <2>2. Contents # <<>> /\ Head(Contents) = buffer[first]
      <3>1. 1 \in 1..elements /\ 1 - 1 = 0
        BY <2>1, Typing
      <3>2. Contents[1] = buffer[first]
        BY <1>c, <3>1, Typing, AheadNothing
      <3>3. QED
        BY <1>c, <2>1, <3>2
    <2>3. ASSUME NEW i \in 1..elements' PROVE Contents'[i] = Contents[1 + i]
      <3>1. /\ 1 + i \in 1..elements /\ 1 \in 0..(size - 1) /\ i - 1 \in 0..(size - 1)
            /\ 1 + (i - 1) < size /\ 1 + (i - 1) = i /\ elements > 1 /\ 1 + i - 1 = i
        BY <2>1, Typing
      <3>2. Ahead(size, first', i - 1) = Ahead(size, first, i)
        BY <2>1, <3>1, Typing, AheadOfAhead
      <3>3. Contents'[i] = buffer[Ahead(size, first', i - 1)]
        BY <2>c, <2>1
      <3>4. Contents[1 + i] = buffer[Ahead(size, first, i)]
        BY <1>c, <3>1
      <3>5. QED
        BY <3>2, <3>3, <3>4
    <2>4. Contents' = Tail(Contents)
      BY <1>c, <2>c, <2>1, <2>2, <2>3, TailIs
    <2>5. QED
      BY <2>1, <2>2, <2>4 DEF Fifo!Dequeue
  <1>3. QED
    BY <1>1, <1>2

LEMMA ReadImplements ==
  ASSUME RingInv, NEW n \in Positions, Read(n)
  PROVE  Fifo!Read(n)
  <1>c. /\ Contents \in Seq(Values) /\ Len(Contents) = elements
        /\ \A i \in 1..elements : Contents[i] = buffer[Ahead(size, first, i - 1)]
    BY ContentsProperties DEF ContentsInSlots
  <1>1. UNCHANGED <<size, quiet>> /\ Contents' = Contents
    BY ContentsStay DEF Read, Throw
  <1>2. CASE n < elements
    <2>1. n + 1 \in 1..elements /\ n + 1 - 1 = n
      BY <1>2, Typing
    <2>2. PICK i \in 1..elements : i = n + 1
      BY <2>1
    <2>3. i - 1 = n
      BY <2>1, <2>2
    <2>4. Contents[i] = buffer[Ahead(size, first, n)]
      BY <1>c, <2>3
    <2>5. ret' = buffer[Ahead(size, first, n)]
      BY <1>2 DEF Read, InBounds
    <2>6. ret' = Contents[n + 1]
      BY <2>2, <2>4, <2>5
    <2>7. QED
      BY <1>c, <1>1, <1>2, <2>6 DEF Fifo!Read
  <1>3. CASE ~(n < elements)
    <2>1. ret' = Failed /\ n >= elements
      BY <1>3, Typing DEF Read, InBounds, Throw
    <2>2. QED
      BY <1>c, <1>1, <2>1 DEF Fifo!Read, Fifo!Refuse
  <1>4. QED
    BY <1>2, <1>3

LEMMA SkipImplements ==
  ASSUME RingInv, RingInv', NEW n \in Positions, Skip(n)
  PROVE  Fifo!Skip(n)
  <1>c. /\ Contents \in Seq(Values) /\ Len(Contents) = elements
        /\ \A i \in 1..elements : Contents[i] = buffer[Ahead(size, first, i - 1)]
    BY ContentsProperties DEF ContentsInSlots
  <1>1. CASE Throw
    <2>1. n > elements /\ UNCHANGED <<size, quiet>>
      <3>1. ret' # Void
        BY <1>1, ResultsAssumption DEF Throw
      <3>2. n > 0 /\ ~InBounds(n - 1) /\ UNCHANGED <<size, quiet>>
        BY <3>1 DEF Skip
      <3>3. QED
        BY <3>2, Typing DEF InBounds
    <2>2. Contents' = Contents
      BY <1>1, <2>1, ContentsStay DEF Throw, Skip
    <2>3. QED
      BY <1>1, <1>c, <2>1, <2>2 DEF Throw, Fifo!Skip, Fifo!Refuse
  <1>2. CASE ~Throw
    <2>c. /\ Contents' \in Seq(Values) /\ Len(Contents') = elements'
          /\ \A i \in 1..elements' : Contents'[i] = buffer'[Ahead(size', first', i - 1)]
      BY ContentsPropertiesNext DEF ContentsInSlots
    <2>1. /\ n \in Nat /\ n <= elements /\ elements' = elements - n
          /\ size' = size /\ quiet' = quiet /\ buffer' = buffer /\ ret' = Void
          /\ n < elements => first' = Ahead(size, first, n)
      BY <1>2, SkipStep
    <2>2. ASSUME NEW i \in 1..elements' PROVE Contents'[i] = Contents[n + i]
      <3>1. /\ n + i \in 1..elements /\ n \in 0..(size - 1) /\ i - 1 \in 0..(size - 1)
            /\ n + (i - 1) < size /\ n < elements
        BY <2>1, Typing
      <3>2. Ahead(size, first', i - 1) = Ahead(size, first, n + (i - 1))
        BY <2>1, <3>1, Typing, AheadOfAhead
      <3>3. Contents'[i] = buffer[Ahead(size, first', i - 1)]
        BY <2>c, <2>1
      <3>4. Contents[n + i] = buffer[Ahead(size, first, n + i - 1)]
        BY <1>c, <3>1
      <3>5. n + i - 1 = n + (i - 1)
        BY <3>1
      <3>6. QED
        BY <3>2, <3>3, <3>4, <3>5
    <2>3. Contents' = SubSeq(Contents, n + 1, Len(Contents))
      <3>1. /\ Contents \in Seq(Values) /\ Contents' \in Seq(Values) /\ n \in Nat
            /\ n <= Len(Contents) /\ Len(Contents') = Len(Contents) - n
        BY <1>c, <2>c, <2>1
      <3>2. \A i \in 1..Len(Contents') : Contents'[i] = Contents[n + i]
        BY <2>c, <2>2
      <3> QED BY <3>1, <3>2, SubSeqIs
    <2>4. QED
      BY <1>c, <2>1, <2>3 DEF Fifo!Skip
  <1>3. QED
    BY <1>1, <1>2

LEMMA AssignImplements ==
  ASSUME RingInv, RingInv', NEW n \in Positions, NEW e \in Values, Assign(n, e)
  PROVE  Fifo!Assign(n, e)
  <1>c. /\ Contents \in Seq(Values) /\ Len(Contents) = elements
        /\ \A i \in 1..elements : Contents[i] = buffer[Ahead(size, first, i - 1)]
    BY ContentsProperties DEF ContentsInSlots
  <1>1. CASE n >= elements
    <2>1. ret' = Failed /\ UNCHANGED <<size, quiet, elements, first, buffer>>
      BY <1>1, Typing DEF Assign, InBounds, Throw
    <2>2. Contents' = Contents
      BY <2>1, ContentsStay
    <2>3. QED
      BY <1>1, <1>c, <2>1, <2>2 DEF Fifo!Assign, Fifo!Refuse
  <1>2. CASE ~(n >= elements)
    <2>c. /\ Contents' \in Seq(Values) /\ Len(Contents') = elements'
          /\ \A i \in 1..elements' : Contents'[i] = buffer'[Ahead(size', first', i - 1)]
      BY ContentsPropertiesNext DEF ContentsInSlots
    <2>1. /\ n \in Nat /\ n < elements /\ n \in 0..(size - 1) /\ n + 1 \in 1..elements
      BY <1>2, Typing
    <2>2. /\ ret' = Void /\ UNCHANGED <<size, quiet, elements, first>>
          /\ buffer' = [buffer EXCEPT ![Ahead(size, first, n)] = e]
      BY <2>1, <1>2, Typing DEF Assign, InBounds, Throw
    <2>3. ASSUME NEW i \in 1..elements
          PROVE  Contents'[i] = IF i = n + 1 THEN e ELSE Contents[i]
      <3>1. i - 1 \in 0..(size - 1)
        BY Typing
      <3>2. Ahead(size, first, i - 1) \in 0..(size - 1)
        BY <3>1, Typing, AheadWraps
      <3>3. Contents'[i] = buffer'[Ahead(size, first, i - 1)]
        BY <2>c, <2>2
      <3>4. CASE i = n + 1
        <4>1. i - 1 = n
          BY <2>1, <3>4
        <4>2. QED
          BY <2>2, <3>2, <3>3, <3>4, <4>1, Typing
      <3>5. CASE i # n + 1
        <4>1. i - 1 # n
          BY <2>1, <3>5
        <4>2. Ahead(size, first, i - 1) # Ahead(size, first, n)
          BY <2>1, <3>1, <4>1, Typing, AheadInjective
        <4>3. buffer'[Ahead(size, first, i - 1)] = buffer[Ahead(size, first, i - 1)]
          BY <2>2, <3>2, <4>2, Typing
        <4>4. QED
          BY <1>c, <3>3, <3>5, <4>3
      <3>6. QED
        BY <3>4, <3>5
    <2>4. /\ [Contents EXCEPT ![n + 1] = e] \in Seq(Values)
          /\ Len([Contents EXCEPT ![n + 1] = e]) = elements
          /\ \A j \in 1..elements :
                [Contents EXCEPT ![n + 1] = e][j] = IF j = n + 1 THEN e ELSE Contents[j]
      BY <1>c, <2>1, ExceptSeq
    <2>5. Contents' = [Contents EXCEPT ![n + 1] = e]
      BY <2>c, <2>2, <2>3, <2>4, SeqEqual
    <2>6. QED
      BY <1>c, <2>1, <2>2, <2>5 DEF Fifo!Assign
  <1>3. QED
    BY <1>1, <1>2

LEMMA StepImplements ==
  ASSUME RingInv, RingInv', [Next]_vars
  PROVE  [Fifo!Next]_(Fifo!vars)
  <1>0. CASE UNCHANGED vars
    BY <1>0, ContentsStay DEF vars, Fifo!vars
  <1>1. ASSUME NEW e \in Values, Enqueue(e) PROVE Fifo!Next
    BY <1>1, EnqueueImplements DEF Fifo!Next
  <1>2. CASE Dequeue
    BY <1>2, DequeueImplements DEF Fifo!Next
  <1>3. ASSUME NEW n \in Positions, Read(n) PROVE Fifo!Next
    BY <1>3, ReadImplements DEF Fifo!Next
  <1>4. ASSUME NEW n \in Positions, Skip(n) PROVE Fifo!Next
    BY <1>4, SkipImplements DEF Fifo!Next
  <1>5. ASSUME NEW n \in Positions, NEW e \in Values, Assign(n, e) PROVE Fifo!Next
    BY <1>5, AssignImplements DEF Fifo!Next
  <1>6. QED
    BY <1>0, <1>1, <1>2, <1>3, <1>4, <1>5 DEF Next

(* A ring buffer of any size over any kind of element, in either mode, is  *)
(* the bounded queue the comments of ds::RingBuffer promise.               *)
THEOREM Implementation == Spec => ImplementsFifo
  BY Invariant, InitImplements, StepImplements, PTL DEF Spec, ImplementsFifo, Fifo!Spec
=============================================================================
