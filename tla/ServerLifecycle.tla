---------------------------- MODULE ServerLifecycle ----------------------------
(***************************************************************************)
(* How instances of the daemon start, stop and get into each other's way   *)
(* (fzsystools/stdmessageserver.cpp, tcpserver.cpp, msgqrd/src/main.cpp).  *)
(*                                                                         *)
(* An instance is a service process, StdMessageServer::start(), and the    *)
(* connection observer it forks, connectionHandler().  All instances use   *)
(* the same pid file and the same path for their socket.  A signal that a  *)
(* process catches has no effect but to interrupt the system call it       *)
(* blocks in; between two calls it is lost.                                *)
(***************************************************************************)
EXTENDS Integers, FiniteSets

CONSTANTS Instances,     \* the daemon is started once for each
          Clients,       \* programs that use TCPClient once each
          ForceOptions,  \* whether --force may be given, a subset of BOOLEAN
          NoOne          \* stands for no file

ASSUME NoOneAssumption == NoOne \notin Instances
ASSUME ForceAssumption == ForceOptions \subseteq BOOLEAN

VARIABLES
  spc,          \* services: where in start() each one is
  opc,          \* observers: where in connectionHandler() each one is
  qid,          \* services: the id of the message queue
  forced,       \* services: the option --force
  queues,       \* kernel: the ids of the message queues that exist
  nextid,       \* kernel: the next one
  pidfile,      \* file system: the instance that wrote the pid file
  sockpath,     \* file system: the observer whose socket the path leads to
  cpc,          \* clients: where in a request each one is
  asked,        \* history: the instances that SIGTERM was sent to
  lost,         \* history: those of which a process missed it
  overwritten   \* history: a pid file was created that existed

serviceVars == <<spc, qid, forced>>
kernelVars  == <<queues, nextid>>
history     == <<asked, lost, overwritten>>
vars == <<serviceVars, opc, kernelVars, pidfile, sockpath, cpc, history>>

-----------------------------------------------------------------------------
NoId == -1
Early  == {"check", "refused", "create", "signals"}  \* SIGTERM kills it
Ready  == {"queue", "fork", "loop", "handle"}        \* SIGTERM has no effect
Ending == {"stop", "stoperase", "fail", "failkill", "unwind"}
Serving == {"loop", "receive", "handle"}
ServiceOver(i) == spc[i] \in {"none", "killed", "dismissed", "ended"}

Listening(i) == opc[i] \in {"loop", "accept"}
Deaf == {"start", "unlink", "bind", "loop"}          \* SIGTERM has no effect
ObserverOver(i) == opc[i] \in {"none", "ended"}

(* The id of a MessageQueue that is not initialised is 0, which is also the *)
(* id of the first queue the kernel hands out.                              *)
Init == /\ spc = [i \in Instances |-> "none"]
        /\ opc = [i \in Instances |-> "none"]
        /\ qid = [i \in Instances |-> 0]
        /\ forced = [i \in Instances |-> FALSE]
        /\ queues = {}
        /\ nextid \in {0, 1}
        /\ pidfile = NoOne
        /\ sockpath = NoOne
        /\ cpc = [c \in Clients |-> "none"]
        /\ asked = {}
        /\ lost = {}
        /\ overwritten = FALSE

-----------------------------------------------------------------------------
(* The service: main() and start().                                        *)

Goto(i, pc) == spc' = [spc EXCEPT ![i] = pc]

Start(i) ==
  /\ spc[i] = "none"
  /\ \E f \in ForceOptions : /\ forced' = [forced EXCEPT ![i] = f]
                             /\ pidfile' = IF f THEN NoOne ELSE pidfile
  /\ Goto(i, "check")
  /\ UNCHANGED <<qid, opc, kernelVars, sockpath, cpc, history>>

(* createPidFile(): is there a pid file?  ... *)
Check(i) ==
  /\ spc[i] = "check"
  /\ Goto(i, IF pidfile = NoOne THEN "create" ELSE "refused")
  /\ UNCHANGED <<qid, forced, opc, kernelVars, pidfile, sockpath, cpc, history>>

(* ... no: create it, or truncate the one that has appeared meanwhile. *)
Create(i) ==
  /\ spc[i] = "create"
  /\ \/ /\ pidfile' = i
        /\ overwritten' = IF pidfile # NoOne THEN TRUE ELSE overwritten
        /\ Goto(i, "signals")
     \/ /\ Goto(i, "refused")
        /\ UNCHANGED <<pidfile, overwritten>>
  /\ UNCHANGED <<qid, forced, opc, kernelVars, sockpath, cpc, asked, lost>>

InitSignals(i) ==
  /\ spc[i] = "signals"
  /\ Goto(i, "queue")
  /\ UNCHANGED <<qid, forced, opc, kernelVars, pidfile, sockpath, cpc, history>>

(* Variant: all instances use the queue of one key. *)
OpenQueue_SharedKey(i) ==
  /\ spc[i] = "queue"
  /\ qid' = [qid EXCEPT ![i] = IF queues = {} THEN nextid ELSE CHOOSE q \in queues : TRUE]
  /\ nextid' = IF queues = {} THEN nextid + 1 ELSE nextid
  /\ queues' = queues \cup {qid'[i]}
  /\ Goto(i, "fork")
  /\ UNCHANGED <<forced, opc, pidfile, sockpath, cpc, history>>

(* messagequeue.init() *)
OpenQueue(i) ==
  /\ spc[i] = "queue"
  /\ \/ /\ qid' = [qid EXCEPT ![i] = nextid]
        /\ queues' = queues \cup {nextid}
        /\ nextid' = nextid + 1
        /\ Goto(i, "fork")
     \/ /\ qid' = [qid EXCEPT ![i] = NoId]
        /\ Goto(i, "fail")
        /\ UNCHANGED kernelVars
  /\ UNCHANGED <<forced, opc, pidfile, sockpath, cpc, history>>

(* A fork() that fails is not noticed: the service runs without observer. *)
Fork(i) ==
  /\ spc[i] = "fork"
  /\ opc' \in {opc, [opc EXCEPT ![i] = "start"]}
  /\ Goto(i, "loop")
  /\ UNCHANGED <<qid, forced, kernelVars, pidfile, sockpath, cpc, history>>

(* msgrcv() blocks, or fails when the queue is gone. *)
Receive(i) ==
  /\ spc[i] = "loop"
  /\ Goto(i, IF qid[i] \in queues THEN "receive" ELSE "stop")
  /\ UNCHANGED <<qid, forced, opc, kernelVars, pidfile, sockpath, cpc, history>>

(* A message arrives, or the queue is removed. *)
Awake(i) ==
  /\ spc[i] = "receive"
  /\ Goto(i, IF qid[i] \in queues THEN "handle" ELSE "stop")
  /\ UNCHANGED <<qid, forced, opc, kernelVars, pidfile, sockpath, cpc, history>>

(* handleMessage() returns, or throws (see MsgQRD, SendResult). *)
Handle(i) ==
  /\ spc[i] = "handle"
  /\ Goto(i, "loop") \/ Goto(i, "fail")
  /\ UNCHANGED <<qid, forced, opc, kernelVars, pidfile, sockpath, cpc, history>>

(* Variant: the observer is left alone. *)
KillObserver_Skips(i) ==
  /\ spc[i] \in {"stop", "failkill"}
  /\ Goto(i, IF spc[i] = "stop" THEN "stoperase" ELSE "unwind")
  /\ UNCHANGED <<opc, asked, lost, qid, forced, kernelVars, pidfile, sockpath, cpc, overwritten>>

(* kill(pid,SIGTERM): it ends an observer that is blocked in accept().     *)
KillObserver(i) ==
  /\ spc[i] \in {"stop", "failkill"}
  /\ opc' = [opc EXCEPT ![i] = IF @ = "accept" THEN "close" ELSE @]
  /\ lost' = IF opc[i] \in Deaf THEN lost \cup {i} ELSE lost
  /\ Goto(i, IF spc[i] = "stop" THEN "stoperase" ELSE "unwind")
  /\ UNCHANGED <<qid, forced, kernelVars, pidfile, sockpath, cpc, asked, overwritten>>

(* erasePidFile(): whoever has written the file that is there. *)
ErasePidFile(i) ==
  /\ spc[i] \in {"stoperase", "fail"}
  /\ pidfile' = NoOne
  /\ Goto(i, IF spc[i] = "stoperase" THEN "unwind" ELSE "failkill")
  /\ UNCHANGED <<qid, forced, opc, kernelVars, sockpath, cpc, history>>

(* Variant: an instance that was refused erases the pid file. *)
Leave_ErasesPidFile(i) ==
  /\ spc[i] \in {"unwind", "refused"}
  /\ queues' = queues \ {qid[i]}
  /\ pidfile' = IF spc[i] = "refused" THEN NoOne ELSE pidfile
  /\ Goto(i, IF spc[i] = "unwind" THEN "ended" ELSE "dismissed")
  /\ UNCHANGED <<qid, forced, opc, nextid, sockpath, cpc, history>>

(* start() is left, ~MessageQueue removes the queue whose id it has: an    *)
(* instance that was refused has none, and removes that of id 0.           *)
Leave(i) ==
  /\ spc[i] \in {"unwind", "refused"}
  /\ queues' = queues \ {qid[i]}
  /\ Goto(i, IF spc[i] = "unwind" THEN "ended" ELSE "dismissed")
  /\ UNCHANGED <<qid, forced, opc, nextid, pidfile, sockpath, cpc, history>>

(* SIGTERM from outside. *)
Terminate(i) ==
  /\ spc[i] \in Early \cup Ready \cup {"receive"}
  /\ i \notin asked
  /\ asked' = asked \cup {i}
  /\ \/ spc[i] \in Early /\ Goto(i, "killed") /\ UNCHANGED lost
     \/ spc[i] \in Ready /\ lost' = lost \cup {i} /\ UNCHANGED spc
     \/ spc[i] = "receive" /\ Goto(i, "stop") /\ UNCHANGED lost
  /\ UNCHANGED <<qid, forced, opc, kernelVars, pidfile, sockpath, cpc, overwritten>>

-----------------------------------------------------------------------------
(* The observer: connectionHandler().                                      *)

ObserverGoto(i, pc) == opc' = [opc EXCEPT ![i] = pc]

ObserverReady(i) ==
  /\ opc[i] = "start"
  /\ ObserverGoto(i, "unlink")
  /\ UNCHANGED <<serviceVars, kernelVars, pidfile, sockpath, cpc, history>>

(* TCPServer::init(): clear the path ... *)
ObserverUnlink(i) ==
  /\ opc[i] = "unlink"
  /\ sockpath' = NoOne
  /\ ObserverGoto(i, "bind")
  /\ UNCHANGED <<serviceVars, kernelVars, pidfile, cpc, history>>

(* Variant: the path is cleared after bind(). *)
ObserverBind_Unlinks(i) ==
  /\ opc[i] = "bind"
  /\ sockpath' = NoOne
  /\ ObserverGoto(i, "loop")
  /\ UNCHANGED <<serviceVars, kernelVars, pidfile, cpc, history>>

(* ... bind a new socket to it, and listen.  That can fail. *)
ObserverBind(i) ==
  /\ opc[i] = "bind"
  /\ \/ sockpath = NoOne /\ sockpath' = i /\ ObserverGoto(i, "loop")
     \/ UNCHANGED sockpath /\ ObserverGoto(i, "close")
  /\ UNCHANGED <<serviceVars, kernelVars, pidfile, cpc, history>>

ObserverAccept(i) ==
  /\ opc[i] = "loop"
  /\ ObserverGoto(i, "accept")
  /\ UNCHANGED <<serviceVars, kernelVars, pidfile, sockpath, cpc, history>>

(* A connection is accepted, a handler is forked. *)
Connection(i) ==
  /\ opc[i] = "accept"
  /\ sockpath = i
  /\ ObserverGoto(i, "loop")
  /\ UNCHANGED <<serviceVars, kernelVars, pidfile, sockpath, cpc, history>>

(* Variant: the path stays. *)
ObserverClose_KeepsPath(i) ==
  /\ opc[i] = "close"
  /\ ObserverGoto(i, "kill")
  /\ UNCHANGED <<sockpath, serviceVars, kernelVars, pidfile, cpc, history>>

(* delete msgserver: the path is removed, wherever it leads. *)
ObserverClose(i) ==
  /\ opc[i] = "close"
  /\ sockpath' = NoOne
  /\ ObserverGoto(i, "kill")
  /\ UNCHANGED <<serviceVars, kernelVars, pidfile, cpc, history>>

(* kill(0,SIGTERM), and by its own end SIGCHLD, interrupt the service. *)
Interrupt(i) == spc' = [spc EXCEPT ![i] = IF @ = "receive" THEN "stop" ELSE @]

ObserverKills(i) ==
  /\ opc[i] \in {"kill", "exit"}
  /\ Interrupt(i)
  /\ ObserverGoto(i, IF opc[i] = "kill" THEN "exit" ELSE "ended")
  /\ UNCHANGED <<qid, forced, kernelVars, pidfile, sockpath, cpc, history>>

-----------------------------------------------------------------------------
(* A client: TCPClient.                                                    *)

(* init() clears the path it will connect to, as the server does. *)
ClientInit(c) ==
  /\ cpc[c] = "none"
  /\ cpc' = [cpc EXCEPT ![c] = "connect"]
  /\ sockpath' = NoOne
  /\ UNCHANGED <<serviceVars, opc, kernelVars, pidfile, history>>

(* buildUpConnection(): fails when the path leads nowhere. *)
ClientConnect(c) ==
  /\ cpc[c] = "connect"
  /\ cpc' = [cpc EXCEPT ![c] = IF sockpath # NoOne THEN "connected"
                               ELSE IF \E i \in Instances : Listening(i) THEN "failed"
                               ELSE "noserver"]
  /\ UNCHANGED <<serviceVars, opc, kernelVars, pidfile, sockpath, history>>

(* shutdown() or ~TCPClient *)
ClientShutdown(c) ==
  /\ cpc[c] \in {"connected", "failed", "noserver"}
  /\ cpc' = [cpc EXCEPT ![c] = "done"]
  /\ sockpath' = NoOne
  /\ UNCHANGED <<serviceVars, opc, kernelVars, pidfile, history>>

-----------------------------------------------------------------------------
Service(i) == \/ Check(i) \/ Create(i) \/ InitSignals(i) \/ OpenQueue(i) \/ Fork(i)
              \/ Receive(i) \/ Handle(i) \/ KillObserver(i) \/ ErasePidFile(i) \/ Leave(i)

Observer(i) == \/ ObserverReady(i) \/ ObserverUnlink(i) \/ ObserverBind(i)
               \/ ObserverAccept(i) \/ ObserverClose(i) \/ ObserverKills(i)

Client(c) == ClientInit(c) \/ ClientConnect(c) \/ ClientShutdown(c)

Next == \/ \E i \in Instances : \/ Start(i) \/ Awake(i) \/ Terminate(i) \/ Connection(i)
                                \/ Service(i) \/ Observer(i)
        \/ \E c \in Clients : Client(c)

(* The scheduler is fair to every process.  Nobody has to start an         *)
(* instance, to send it a message or a signal, or to connect.              *)
Fairness == \A i \in Instances : WF_vars(Service(i)) /\ WF_vars(Observer(i))

Spec == Init /\ [][Next]_vars
FairSpec == Spec /\ Fairness

-----------------------------------------------------------------------------
(* The types of the variables; a service past msgget() has a queue's id,   *)
(* and the kernel never has a queue it did not number.                     *)
TypeOK ==
  /\ spc \in [Instances -> {"none", "receive", "killed", "dismissed", "ended"} \cup Early \cup Ready \cup Ending]
  /\ opc \in [Instances -> {"none", "accept", "close", "kill", "exit", "ended"} \cup Deaf]
  /\ qid \in [Instances -> Nat \cup {NoId}]
  /\ forced \in [Instances -> BOOLEAN]
  /\ nextid \in Nat
  /\ queues \subseteq 0..(nextid - 1)
  /\ pidfile \in Instances \cup {NoOne}
  /\ sockpath \in Instances \cup {NoOne}
  /\ cpc \in [Clients -> {"none", "connect", "connected", "failed", "noserver", "done"}]
  /\ asked \subseteq Instances
  /\ lost \subseteq Instances
  /\ overwritten \in BOOLEAN
  /\ \A i \in Instances : spc[i] \in {"fork"} \cup Serving => qid[i] # NoId

(* From the creation of the pid file until it is erased. *)
OwnsPidFile(i) == spc[i] \in {"signals", "queue", "fork", "receive", "loop", "handle",
                              "stop", "stoperase", "fail"}

(* Without --force, two instances own the pid file at once only when one   *)
(* has created it between the other's look for it and its creation.        *)
ExclusiveUnlessOverwritten ==
  (overwritten = FALSE /\ \A i \in Instances : forced[i] = FALSE)
    => \A i \in Instances : OwnsPidFile(i) => pidfile = i

(* The queue of a running service disappears only if it was the kernel's   *)
(* first one and another instance was refused.                             *)
QueueLostOnlyByRefused ==
  \A i \in Instances : spc[i] \in {"fork"} \cup Serving /\ qid[i] \notin queues
    => qid[i] = 0 /\ \E j \in Instances : spc[j] = "dismissed"

(* The path of a listening observer's socket leads elsewhere or nowhere    *)
(* only if another instance's observer has got as far as TCPServer::init(),*)
(* or a client as far as TCPClient::init().                                *)
PathLostOnlyByOthers ==
  \A i \in Instances : Listening(i) /\ sockpath # i
    => \/ \E j \in Instances \ {i} : opc[j] \notin {"none", "start", "unlink"}
       \/ \E c \in Clients : cpc[c] # "none"

(* When all have come to their end, nothing is left behind, but the pid    *)
(* file of an instance that was killed before it could catch signals.      *)
CleanAfterEnd ==
  (\A i \in Instances : ServiceOver(i) /\ ObserverOver(i))
    => /\ sockpath = NoOne
       /\ queues = {}
       /\ pidfile # NoOne => spc[pidfile] = "killed"

(* An instance that is sent SIGTERM comes to its end, observer included,   *)
(* unless one of the two processes was not in its blocking call.           *)
EndsUnlessLost ==
  \A i \in Instances :
    i \in asked ~> (ServiceOver(i) /\ ObserverOver(i)) \/ i \in lost

=============================================================================
