-------------------------------- MODULE Process --------------------------------
(***************************************************************************)
(* class Process (process/src/process.cpp): objects of a parent program    *)
(* that launch, signal and wait for child processes.  The parent has one   *)
(* thread; while it waits for a child it does nothing else.  A call that   *)
(* throws (ActiveErr, CreateErr, ..., WaitErr) changes nothing and is no   *)
(* action here.                                                            *)
(***************************************************************************)
EXTENDS Integers, FiniteSets

CONSTANTS Objects,       \* the Process objects, constructed at the start
          MaxLaunches    \* bound: the number of processes ever launched

ASSUME MaxLaunchesAssumption == MaxLaunches \in Nat

VARIABLES
  alive,      \* objects: not destroyed yet
  daemon,     \* objects: setprot, the parameter of the constructor
  pid,        \* objects: the child, or 0
  pprotect,   \* objects: the child is left alone by the destructor
  waiting,    \* parent: the call of wait() it is in, if any
  child,      \* kernel: the state of each process launched, by pid
  told,       \* kernel: the processes SIGTERM was sent to
  children,   \* history: the children each object has launched
  forgotten   \* history: the children whose pid was given up while they were not waited for

objectVars == <<alive, daemon, pid, pprotect>>
procVars == <<objectVars, waiting, child, told, children, forgotten>>

Pids     == 1..MaxLaunches
Launched == {c \in Pids : child[c] # "none"}
Unreaped == {c \in Pids : child[c] \in {"running", "zombie"}}
Idle     == waiting = {}

ProcInit == /\ alive = Objects
            /\ daemon \in [Objects -> BOOLEAN]
            /\ pid = [o \in Objects |-> 0]
            /\ pprotect = [o \in Objects |-> TRUE]
            /\ waiting = {}
            /\ child = [c \in Pids |-> "none"]
            /\ told = {}
            /\ children = [o \in Objects |-> {}]
            /\ forgotten = {}

-----------------------------------------------------------------------------
(* SIGKILL ends a process at once, a zombie is not affected. *)
Kill(c) == child' = [child EXCEPT ![c] = IF @ = "running" THEN "zombie" ELSE @]

(* Pids are given in turn. *)
Launch(o) ==
  /\ Idle
  /\ o \in alive
  /\ pid[o] = 0
  /\ \E c \in Pids :
       /\ Launched = 1..(c - 1)
       /\ children' = [children EXCEPT ![o] = @ \cup {c}]
       /\ child' = [child EXCEPT ![c] = "running"]
       /\ pid' = [pid EXCEPT ![o] = c]
  /\ pprotect' = [pprotect EXCEPT ![o] = daemon[o]]
  /\ UNCHANGED <<alive, daemon, waiting, told, forgotten>>

Abort(o) ==
  /\ Idle
  /\ o \in alive
  /\ pid[o] # 0
  /\ Kill(pid[o])
  /\ UNCHANGED <<objectVars, waiting, told, children, forgotten>>

Terminate(o) ==
  /\ Idle
  /\ o \in alive
  /\ pid[o] # 0
  /\ told' = told \cup {pid[o]}
  /\ UNCHANGED <<objectVars, waiting, child, children, forgotten>>

(* sendSignal(): any signal; the child is forgotten, whatever it does. *)
SendSignal(o) ==
  /\ Idle
  /\ o \in alive
  /\ pid[o] # 0
  /\ Kill(pid[o]) \/ UNCHANGED child
  /\ pid' = [pid EXCEPT ![o] = 0]
  /\ forgotten' = forgotten \cup {pid[o]}
  /\ UNCHANGED <<alive, daemon, pprotect, waiting, told, children>>

(* wait() is entered *)
Wait(o) ==
  /\ Idle
  /\ o \in alive
  /\ pid[o] # 0
  /\ waiting' = {o}
  /\ UNCHANGED <<objectVars, child, told, children, forgotten>>

(* Variant: the child that was waited for is not forgotten. *)
WaitReturns_KeepsPid(o) ==
  /\ o \in waiting
  /\ child[pid[o]] = "zombie"
  /\ child' = [child EXCEPT ![pid[o]] = "reaped"]
  /\ pprotect' = [pprotect EXCEPT ![o] = TRUE]
  /\ waiting' = {}
  /\ UNCHANGED <<pid, alive, daemon, told, children, forgotten>>

(* and returns when the child has ended. *)
WaitReturns(o) ==
  /\ o \in waiting
  /\ child[pid[o]] = "zombie"
  /\ child' = [child EXCEPT ![pid[o]] = "reaped"]
  /\ pid' = [pid EXCEPT ![o] = 0]
  /\ pprotect' = [pprotect EXCEPT ![o] = TRUE]
  /\ waiting' = {}
  /\ UNCHANGED <<alive, daemon, told, children, forgotten>>

(* waitpid() fails with EINTR: a signal was handled while the parent was   *)
(* blocked.  The child is forgotten all the same, and left alone.          *)
WaitInterrupted(o) ==
  /\ o \in waiting
  /\ child[pid[o]] = "running"
  /\ forgotten' = forgotten \cup {pid[o]}
  /\ pid' = [pid EXCEPT ![o] = 0]
  /\ pprotect' = [pprotect EXCEPT ![o] = TRUE]
  /\ waiting' = {}
  /\ UNCHANGED <<alive, daemon, child, told, children>>

(* Variant: the child is told to end, but not waited for. *)
Destroy_NoWait(o) ==
  /\ Idle
  /\ o \in alive
  /\ alive' = alive \ {o}
  /\ told' = IF ~pprotect[o] /\ pid[o] # 0 THEN told \cup {pid[o]} ELSE told
  /\ UNCHANGED <<waiting, daemon, pid, pprotect, child, children, forgotten>>

(* ~Process: terminate() and wait(), unless protected.  If the child was   *)
(* forgotten, terminate() throws out of the destructor.                    *)
Destroy(o) ==
  /\ Idle
  /\ o \in alive
  /\ alive' = alive \ {o}
  /\ IF ~pprotect[o] /\ pid[o] # 0
     THEN told' = told \cup {pid[o]} /\ waiting' = {o}
     ELSE UNCHANGED <<told, waiting>>
  /\ UNCHANGED <<daemon, pid, pprotect, child, children, forgotten>>

(* A child's main() returns, or a signal ends it. *)
ChildEnds(c) ==
  /\ child[c] = "running"
  /\ child' = [child EXCEPT ![c] = "zombie"]
  /\ UNCHANGED <<objectVars, waiting, told, children, forgotten>>

ProcNext == \/ \E o \in Objects : \/ Launch(o) \/ Abort(o) \/ Terminate(o) \/ SendSignal(o)
                                  \/ Wait(o) \/ WaitReturns(o) \/ WaitInterrupted(o)
                                  \/ Destroy(o)
            \/ \E c \in Pids : ChildEnds(c)

ProcSpec == ProcInit /\ [][ProcNext]_procVars

-----------------------------------------------------------------------------
(* The pid an object has is that of a child that has not been waited for,  *)
(* and of no other object: no signal goes to a process that happens to     *)
(* have got the pid again.                                                 *)
PidsAreValid ==
  \A o \in Objects : pid[o] # 0 => pid[o] \in children[o] \cap Unreaped

(* Of the children of an object at most one has not been waited for, and   *)
(* none when the object is destroyed and is no daemon.  Only a child the   *)
(* object was made to forget is left: by sendSignal(), or by a wait(), the *)
(* destructor's too, that a signal interrupted, for wait() does not look   *)
(* at what waitpid() returned.                                             *)
NoChildLeft ==
  \A o \in Objects :
    LET left == (children[o] \cap Unreaped) \ forgotten
    IN  /\ Cardinality(left) <= 1
        /\ o \notin alive /\ ~daemon[o] => left = {} \/ o \in waiting
=============================================================================
