-------------------------------- MODULE Semaphor --------------------------------
(***************************************************************************)
(* sys::Semaphor (fzsystools/semaphor.cpp): one SysV semaphore, created by *)
(* one process and used by others.  Its creation takes three system calls; *)
(* every operation asks the kernel to undo it when the process ends        *)
(* (SEM_UNDO); setting the value makes the kernel forget what it would     *)
(* have to undo.                                                           *)
(***************************************************************************)
EXTENDS Integers, FiniteSets

CONSTANTS Procs,      \* the processes that open the semaphore (S_OLD)
          InitVal     \* the value it is created with (S_NEW)

ASSUME InitValAssumption == InitVal \in Nat
ASSUME ProcsAssumption == IsFiniteSet(Procs)

VARIABLES
  creator,   \* the creating process: where it is
  pc,        \* the other processes: where each one is
  exists,    \* kernel: the semaphore exists
  val,       \* kernel: its value
  undo,      \* kernel: what is added to it when a process ends
  stage,     \* kernel: "created", "owned" (with permissions), "set" (with a value)
  blocked    \* history: block() was called

kernelVars == <<exists, stage, val, undo>>
semVars == <<creator, pc, kernelVars, blocked>>

Inside == {p \in Procs : pc[p] = "inside"}
Forget == undo' = [p \in Procs |-> 0]

SemInit == /\ creator = "none"
           /\ pc = [p \in Procs |-> "none"]
           /\ exists = FALSE
           /\ val = 0
           /\ undo = [p \in Procs |-> 0]
           /\ stage = "created"
           /\ blocked = FALSE

-----------------------------------------------------------------------------
(* The creator.                                                            *)

(* semget(IPC_CREAT|IPC_EXCL): refused as long as there is a semaphore with *)
(* that key, one its creator could not remove, say.  Nobody has access yet. *)
Create ==
  /\ creator \in {"none", "killed"}
  /\ IF exists THEN creator' = "refused" /\ UNCHANGED exists
               ELSE creator' = "alive" /\ exists' = TRUE
  /\ UNCHANGED <<pc, stage, val, undo, blocked>>

(* semctl(IPC_SET) gives the permissions, *)
SetOwner ==
  /\ creator = "alive"
  /\ stage = "created"
  /\ stage' = "owned"
  /\ UNCHANGED <<creator, pc, exists, val, undo, blocked>>

(* and semctl(SETVAL) the value; until then it is 0. *)
SetValue ==
  /\ creator = "alive"
  /\ stage = "owned"
  /\ stage' = "set"
  /\ val' = InitVal
  /\ Forget
  /\ UNCHANGED <<creator, pc, exists, blocked>>

(* The constructor has returned. *)
Settled == creator = "alive" /\ stage = "set"

(* block(): semctl(SETVAL) to 0. *)
Block ==
  /\ Settled
  /\ blocked' = TRUE
  /\ val' = 0
  /\ Forget
  /\ UNCHANGED <<creator, pc, exists, stage>>

(* remove() or ~Semaphor *)
Remove ==
  /\ Settled
  /\ creator' = "removed"
  /\ exists' = FALSE
  /\ val' = 0
  /\ Forget
  /\ UNCHANGED <<pc, stage, blocked>>

CreatorDies ==
  /\ creator = "alive"
  /\ creator' = "killed"
  /\ UNCHANGED <<pc, kernelVars, blocked>>

-----------------------------------------------------------------------------
(* A process that uses the semaphore.                                      *)

Goto(p, to) == pc' = [pc EXCEPT ![p] = to]

(* Semaphor(..., S_OLD): throws if there is none. *)
Open(p) ==
  /\ pc[p] = "none"
  /\ Goto(p, IF exists THEN "outside" ELSE "failed")
  /\ UNCHANGED <<creator, kernelVars, blocked>>

(* P() blocks while the value is 0; *)
P(p) ==
  /\ pc[p] = "outside"
  /\ exists
  /\ val > 0
  /\ val' = val - 1
  /\ undo' = [undo EXCEPT ![p] = @ + 1]
  /\ Goto(p, "inside")
  /\ UNCHANGED <<creator, exists, stage, blocked>>

(* it throws when the semaphore is or gets removed, or before the creator  *)
(* has given permissions to it.                                            *)
PFails(p) ==
  /\ pc[p] = "outside"
  /\ ~exists \/ stage = "created"
  /\ Goto(p, "failed")
  /\ UNCHANGED <<creator, kernelVars, blocked>>

(* Variant: the value is not increased. *)
V_Nothing(p) ==
  /\ pc[p] = "inside"
  /\ Goto(p, IF exists THEN "outside" ELSE "failed")
  /\ UNCHANGED <<val, undo, creator, exists, stage, blocked>>

V(p) ==
  /\ pc[p] = "inside"
  /\ \/ /\ exists
        /\ val' = val + 1
        /\ undo' = [undo EXCEPT ![p] = @ - 1]
        /\ Goto(p, "outside")
     \/ ~exists /\ Goto(p, "failed") /\ UNCHANGED <<val, undo>>
  /\ UNCHANGED <<creator, exists, stage, blocked>>

(* Variant: without SEM_UNDO. *)
End_NoUndo(p) ==
  /\ pc[p] \in {"outside", "inside", "failed"}
  /\ Goto(p, "ended")
  /\ undo' = [undo EXCEPT ![p] = 0]
  /\ UNCHANGED <<val, creator, exists, stage, blocked>>

(* The process exits or is killed: the kernel undoes its operations, as far *)
(* as it still knows of them; the value never gets below 0.                 *)
End(p) ==
  /\ pc[p] \in {"outside", "inside", "failed"}
  /\ Goto(p, "ended")
  /\ val' = IF val + undo[p] < 0 THEN 0 ELSE val + undo[p]
  /\ undo' = [undo EXCEPT ![p] = 0]
  /\ UNCHANGED <<creator, exists, stage, blocked>>

-----------------------------------------------------------------------------
Creator == Create \/ SetOwner \/ SetValue \/ Block \/ Remove \/ CreatorDies

SemNext == Creator \/ \E p \in Procs : Open(p) \/ P(p) \/ PFails(p) \/ V(p) \/ End(p)

(* Every process goes on; the kernel lets those waiting in semop() pass in *)
(* turn.  Nobody has to create, block or remove the semaphore.             *)
SemFairness == /\ WF_semVars(SetOwner \/ SetValue)
               /\ \A p \in Procs : /\ SF_semVars(P(p)) /\ WF_semVars(PFails(p))
                                   /\ WF_semVars(V(p) \/ (pc[p] = "inside" /\ End(p)))

SemSpec == SemInit /\ [][SemNext]_semVars
SemFairSpec == SemSpec /\ SemFairness

-----------------------------------------------------------------------------
(* Units are neither lost nor made: the value and the processes inside add *)
(* up to the initial value, whatever processes are killed (SEM_UNDO), and  *)
(* nobody gets in before the value is set.  After block(), which forgets   *)
(* who is inside, they are not more than that.                             *)
UnitsConserved ==
  exists =>
    /\ val + Cardinality(Inside) <= InitVal
    /\ ~blocked => IF stage = "set" THEN val + Cardinality(Inside) = InitVal ELSE val = 0 /\ Inside = {}

(* A process waiting for the semaphore gets past P() in the end, unless    *)
(* its creator did not live to set the value, or has blocked it.           *)
WaitersPass ==
  \A p \in Procs :
    pc[p] = "outside" ~> pc[p] # "outside" \/ blocked \/ (stage # "set" /\ creator \in {"killed", "refused"})
=============================================================================
