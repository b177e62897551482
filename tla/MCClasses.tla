------------------------------- MODULE MCClasses -------------------------------
(***************************************************************************)
(* Instances of the small classes: RingBuffer, DynamicBuffer and BTree of  *)
(* fztooltempl, Semaphor of fzsystools, and Process.  They share no state: *)
(* a behaviour is one of the part that is chosen at the start, and the     *)
(* others stay as they are constructed.  No fair action of Semaphor is     *)
(* enabled there.                                                          *)
(***************************************************************************)
EXTENDS RingBuffer, DynamicBuffer, BTree, Semaphor, Process

VARIABLE part   \* the part that runs

MCInit == /\ part \in {"ring", "dynamic", "tree", "semaphor", "process"}
          /\ Init /\ DynInit /\ TreeInit /\ SemInit /\ ProcInit
          /\ part # "ring" => size = 1 /\ quiet = FALSE /\ buffer = [i \in {0} |-> CHOOSE v \in Values : TRUE]
          /\ part # "dynamic" => elemsize = 1 /\ blksize = 1
          /\ part # "process" => daemon = [o \in Objects |-> FALSE]

MCNext ==
  /\ UNCHANGED part
  /\ \/ part = "ring" /\ Next /\ UNCHANGED <<dynVars, treeVars, semVars, procVars>>
     \/ part = "dynamic" /\ DynNext /\ UNCHANGED <<vars, treeVars, semVars, procVars>>
     \/ part = "tree" /\ TreeNext /\ UNCHANGED <<vars, dynVars, semVars, procVars>>
     \/ part = "semaphor" /\ SemNext /\ UNCHANGED <<vars, dynVars, treeVars, procVars>>
     \/ part = "process" /\ ProcNext /\ UNCHANGED <<vars, dynVars, treeVars, semVars>>

MCSpec == /\ MCInit /\ [][MCNext]_<<part, vars, dynVars, treeVars, semVars, procVars>>
          /\ SemFairness
================================================================================
