------------------------- MODULE ServerLifecycleProofs -------------------------
(***************************************************************************)
(* Safety of ServerLifecycle for any number of instances and clients.      *)
(***************************************************************************)
EXTENDS ServerLifecycle, TLAPS

(* --force is an option of an instance that has been started. *)
ForcedWhenStarted == \A i \in Instances : spc[i] = "none" => forced[i] = FALSE

ExclusiveInv == ForcedWhenStarted /\ ExclusiveUnlessOverwritten

(* Between msgget() and the removal of the queue. *)
HasOpened(i) == spc[i] \in {"fork", "receive", "loop", "handle",
                            "stop", "stoperase", "fail", "failkill", "unwind"}

(* A refused instance still has the id 0, no two instances have opened the *)
(* same queue, and ids not handed out yet belong to nobody.                *)
QueueInv ==
  /\ \A i \in Instances : spc[i] \in {"none", "check", "create", "signals", "queue", "refused"}
                            => qid[i] = 0
  /\ \A i \in Instances : HasOpened(i) => qid[i] < nextid
  /\ \A i, j \in Instances : HasOpened(i) /\ HasOpened(j) /\ qid[i] = qid[j] /\ qid[i] # NoId
                               => i = j
  /\ QueueLostOnlyByRefused

-----------------------------------------------------------------------------
(* One action of the specification was taken. *)
LEMMA NextCases ==
  ASSUME NEW P, Next,
         \A i \in Instances : (Start(i) \/ Terminate(i)) => P,
         \A i \in Instances : (Check(i) \/ Create(i) \/ InitSignals(i)) => P,
         \A i \in Instances : (OpenQueue(i) \/ Fork(i) \/ Receive(i) \/ Awake(i) \/ Handle(i)) => P,
         \A i \in Instances : (KillObserver(i) \/ ErasePidFile(i) \/ Leave(i)) => P,
         \A i \in Instances : (ObserverReady(i) \/ ObserverUnlink(i) \/ ObserverBind(i)
                                 \/ ObserverAccept(i) \/ Connection(i) \/ ObserverClose(i)) => P,
         \A i \in Instances : ObserverKills(i) => P,
         \A c \in Clients : Client(c) => P
  PROVE  P
<1>1. CASE \E i \in Instances : \/ Start(i) \/ Awake(i) \/ Terminate(i) \/ Connection(i)
                                \/ Service(i) \/ Observer(i)
  <2>1. PICK i \in Instances : \/ Start(i) \/ Awake(i) \/ Terminate(i) \/ Connection(i)
                               \/ Service(i) \/ Observer(i)
    BY <1>1
  <2>2. CASE Service(i)
    BY <2>2, Zenon DEF Service
  <2>3. CASE Observer(i)
    BY <2>3, Zenon DEF Observer
  <2> QED BY <2>1, <2>2, <2>3, Zenon
<1>2. CASE \E c \in Clients : Client(c)
  BY <1>2, Zenon
<1> QED BY <1>1, <1>2, Zenon DEF Next

-----------------------------------------------------------------------------
(* Type correctness.                                                        *)

LEMMA TypeInit == Init => TypeOK
<1> SUFFICES ASSUME Init PROVE TypeOK
  OBVIOUS
<1>1. nextid \in Nat /\ queues \subseteq 0..(nextid - 1)
  BY DEF Init
<1>2. qid \in [Instances -> Nat \cup {NoId}] /\ forced \in [Instances -> BOOLEAN]
  BY DEF Init
<1>3. \A i \in Instances : spc[i] = "none"
  BY DEF Init
<1>4. spc \in [Instances -> {"none"}] /\ opc \in [Instances -> {"none"}] /\ cpc \in [Clients -> {"none"}]
  BY DEF Init
<1>5. /\ pidfile = NoOne /\ sockpath = NoOne /\ asked = {} /\ lost = {}
      /\ overwritten \in BOOLEAN
  BY DEF Init
<1> QED BY <1>1, <1>2, <1>3, <1>4, <1>5 DEF Serving, TypeOK

LEMMA TypeNext ==
  ASSUME TypeOK, [Next]_vars
  PROVE  TypeOK'
<1> USE NoOneAssumption, ForceAssumption DEF Early, Ready, Ending, Serving, Deaf, NoId, Goto, ObserverGoto, Interrupt, serviceVars, kernelVars, history, TypeOK
<1>1. CASE UNCHANGED vars
  BY <1>1 DEF vars
<1>2. ASSUME NEW i \in Instances, Start(i) \/ Terminate(i)
      PROVE  TypeOK'
  <2>1. CASE Start(i)
    BY <2>1 DEF Start
  <2>2. CASE Terminate(i)
    BY <2>2 DEF Terminate
  <2> QED BY <1>2, <2>1, <2>2, Zenon
<1>3. ASSUME NEW i \in Instances, Check(i) \/ Create(i) \/ InitSignals(i)
      PROVE  TypeOK'
  <2>1. CASE Check(i)
    BY <2>1 DEF Check
  <2>2. CASE Create(i)
    BY <2>2 DEF Create
  <2>3. CASE InitSignals(i)
    BY <2>3 DEF InitSignals
  <2> QED BY <1>3, <2>1, <2>2, <2>3, Zenon
<1>4. ASSUME NEW i \in Instances, OpenQueue(i) \/ Fork(i) \/ Receive(i) \/ Awake(i) \/ Handle(i)
      PROVE  TypeOK'
  <2>1. CASE OpenQueue(i)
    <3>1. nextid' \in Nat /\ queues' \subseteq 0..(nextid' - 1)
      <4>1. \/ nextid' = nextid + 1 /\ queues' = queues \cup {nextid}
            \/ nextid' = nextid /\ queues' = queues
        BY <2>1 DEF OpenQueue
      <4>2. nextid \in Nat /\ queues \subseteq 0..(nextid - 1)
        OBVIOUS
      <4>3. nextid' \in Nat
        BY <4>1, <4>2
      <4>4. ASSUME NEW q \in queues'
            PROVE  q \in 0..(nextid' - 1)
        <5>1. q \in queues \/ (nextid' = nextid + 1 /\ q = nextid)
          BY <4>1
        <5>2. q \in queues => q \in Nat /\ q < nextid
          BY <4>2
        <5> QED BY <4>1, <4>2, <5>1, <5>2
      <4> QED BY <4>3, <4>4
    <3>2. qid' \in [Instances -> Nat \cup {NoId}]
      BY <2>1 DEF OpenQueue
    <3>3. \A j \in Instances : spc'[j] \in {"fork"} \cup Serving => qid'[j] # NoId
      BY <2>1 DEF OpenQueue
    <3> QED BY <2>1, <3>1, <3>2, <3>3 DEF OpenQueue
  <2>2. CASE Fork(i)
    BY <2>2 DEF Fork
  <2>3. CASE Receive(i)
    BY <2>3 DEF Receive
  <2>4. CASE Awake(i)
    BY <2>4 DEF Awake
  <2>5. CASE Handle(i)
    BY <2>5 DEF Handle
  <2> QED BY <1>4, <2>1, <2>2, <2>3, <2>4, <2>5, Zenon
<1>5. ASSUME NEW i \in Instances, KillObserver(i) \/ ErasePidFile(i) \/ Leave(i)
      PROVE  TypeOK'
  <2>1. CASE KillObserver(i)
    BY <2>1 DEF KillObserver
  <2>2. CASE ErasePidFile(i)
    BY <2>2 DEF ErasePidFile
  <2>3. CASE Leave(i)
    BY <2>3 DEF Leave
  <2> QED BY <1>5, <2>1, <2>2, <2>3, Zenon
<1>6. ASSUME NEW i \in Instances, ObserverReady(i) \/ ObserverUnlink(i) \/ ObserverBind(i) \/ ObserverAccept(i)
                \/ Connection(i) \/ ObserverClose(i)
      PROVE  TypeOK'
  <2>1. CASE ObserverReady(i)
    BY <2>1 DEF ObserverReady
  <2>2. CASE ObserverUnlink(i)
    BY <2>2 DEF ObserverUnlink
  <2>3. CASE ObserverBind(i)
    BY <2>3 DEF ObserverBind
  <2>4. CASE ObserverAccept(i)
    BY <2>4 DEF ObserverAccept
  <2>5. CASE Connection(i)
    BY <2>5 DEF Connection
  <2>6. CASE ObserverClose(i)
    BY <2>6 DEF ObserverClose
  <2> QED BY <1>6, <2>1, <2>2, <2>3, <2>4, <2>5, <2>6, Zenon
<1>7. ASSUME NEW i \in Instances, ObserverKills(i)
      PROVE  TypeOK'
  BY <1>7 DEF ObserverKills
<1>8. ASSUME NEW c \in Clients, Client(c)
      PROVE  TypeOK'
  BY <1>8 DEF Client, ClientInit, ClientConnect, ClientShutdown
<1>9. CASE Next
  BY <1>9, <1>2, <1>3, <1>4, <1>5, <1>6, <1>7, <1>8, NextCases, Zenon
<1> QED BY <1>1, <1>9, Zenon

(* Every variable keeps its type, and a service that has got past the      *)
(* creation of its message queue has the id of one.                        *)
THEOREM TypeCorrect == Spec => []TypeOK
BY TypeInit, TypeNext, PTL DEF Spec

-----------------------------------------------------------------------------
(* The pid file.                                                            *)


LEMMA ExclusiveInit == Init => ExclusiveInv
BY NoOneAssumption, ForceAssumption DEF Init, NoId, Early, Ready, Ending, Serving, Deaf, ExclusiveInv, ForcedWhenStarted, ExclusiveUnlessOverwritten, OwnsPidFile

LEMMA ExclusiveNext ==
  ASSUME TypeOK, ExclusiveInv, [Next]_vars
  PROVE  ExclusiveInv'
<1> USE NoOneAssumption, ForceAssumption DEF Early, Ready, Ending, Serving, Deaf, NoId, Goto, ObserverGoto, Interrupt, serviceVars, kernelVars, history, TypeOK, ExclusiveInv, ForcedWhenStarted, ExclusiveUnlessOverwritten, OwnsPidFile
<1>1. CASE UNCHANGED vars
  BY <1>1 DEF vars
<1>2. ASSUME NEW i \in Instances, Start(i) \/ Terminate(i)
      PROVE  ExclusiveInv'
  <2>1. CASE Start(i)
    BY <2>1 DEF Start
  <2>2. CASE Terminate(i)
    BY <2>2 DEF Terminate
  <2> QED BY <1>2, <2>1, <2>2, Zenon
<1>3. ASSUME NEW i \in Instances, Check(i) \/ Create(i) \/ InitSignals(i)
      PROVE  ExclusiveInv'
  <2>1. CASE Check(i)
    BY <2>1 DEF Check
  <2>2. CASE Create(i)
    <3>1. /\ spc[i] = "create"
          /\ UNCHANGED forced
          /\ \/ /\ pidfile' = i
                /\ overwritten' = IF pidfile # NoOne THEN TRUE ELSE overwritten
                /\ spc' = [spc EXCEPT ![i] = "signals"]
             \/ /\ spc' = [spc EXCEPT ![i] = "refused"]
                /\ UNCHANGED <<pidfile, overwritten>>
      BY <2>2 DEF Create
    <3>2. ForcedWhenStarted'
      BY <3>1
    <3>3. CASE spc' = [spc EXCEPT ![i] = "refused"] /\ UNCHANGED <<pidfile, overwritten>>
      BY <3>1, <3>2, <3>3
    <3>4. CASE pidfile = NoOne /\ pidfile' = i /\ spc' = [spc EXCEPT ![i] = "signals"] /\ overwritten' = overwritten
      BY <3>1, <3>2, <3>4
    <3>5. CASE pidfile # NoOne /\ overwritten' = TRUE
      BY <3>2, <3>5
    <3> QED BY <3>1, <3>3, <3>4, <3>5
  <2>3. CASE InitSignals(i)
    BY <2>3 DEF InitSignals
  <2> QED BY <1>3, <2>1, <2>2, <2>3, Zenon
<1>4. ASSUME NEW i \in Instances, OpenQueue(i) \/ Fork(i) \/ Receive(i) \/ Awake(i) \/ Handle(i)
      PROVE  ExclusiveInv'
  <2>1. CASE OpenQueue(i)
    BY <2>1 DEF OpenQueue
  <2>2. CASE Fork(i)
    BY <2>2 DEF Fork
  <2>3. CASE Receive(i)
    BY <2>3 DEF Receive
  <2>4. CASE Awake(i)
    BY <2>4 DEF Awake
  <2>5. CASE Handle(i)
    BY <2>5 DEF Handle
  <2> QED BY <1>4, <2>1, <2>2, <2>3, <2>4, <2>5, Zenon
<1>5. ASSUME NEW i \in Instances, KillObserver(i) \/ ErasePidFile(i) \/ Leave(i)
      PROVE  ExclusiveInv'
  <2>1. CASE KillObserver(i)
    BY <2>1 DEF KillObserver
  <2>2. CASE ErasePidFile(i)
    BY <2>2 DEF ErasePidFile
  <2>3. CASE Leave(i)
    BY <2>3 DEF Leave
  <2> QED BY <1>5, <2>1, <2>2, <2>3, Zenon
<1>6. ASSUME NEW i \in Instances, ObserverReady(i) \/ ObserverUnlink(i) \/ ObserverBind(i) \/ ObserverAccept(i)
                \/ Connection(i) \/ ObserverClose(i)
      PROVE  ExclusiveInv'
  <2>1. CASE ObserverReady(i)
    BY <2>1 DEF ObserverReady
  <2>2. CASE ObserverUnlink(i)
    BY <2>2 DEF ObserverUnlink
  <2>3. CASE ObserverBind(i)
    BY <2>3 DEF ObserverBind
  <2>4. CASE ObserverAccept(i)
    BY <2>4 DEF ObserverAccept
  <2>5. CASE Connection(i)
    BY <2>5 DEF Connection
  <2>6. CASE ObserverClose(i)
    BY <2>6 DEF ObserverClose
  <2> QED BY <1>6, <2>1, <2>2, <2>3, <2>4, <2>5, <2>6, Zenon
<1>7. ASSUME NEW i \in Instances, ObserverKills(i)
      PROVE  ExclusiveInv'
  BY <1>7 DEF ObserverKills
<1>8. ASSUME NEW c \in Clients, Client(c)
      PROVE  ExclusiveInv'
  BY <1>8 DEF Client, ClientInit, ClientConnect, ClientShutdown
<1>9. CASE Next
  BY <1>9, <1>2, <1>3, <1>4, <1>5, <1>6, <1>7, <1>8, NextCases, Zenon
<1> QED BY <1>1, <1>9, Zenon

(* Without --force, and unless one instance created the pid file between   *)
(* another one's look for it and its creation, an instance that has        *)
(* created the pid file finds its own there until it erases it             *)
(* (createPidFile(), erasePidFile()).                                      *)
THEOREM Exclusive == Spec => []ExclusiveUnlessOverwritten
<1>1. ExclusiveInv => ExclusiveUnlessOverwritten
  BY DEF ExclusiveInv
<1> QED BY <1>1, TypeInit, TypeNext, ExclusiveInit, ExclusiveNext, PTL DEF Spec

-----------------------------------------------------------------------------
(* The message queue.                                                       *)


LEMMA QueueInit == Init => QueueInv
BY NoOneAssumption, ForceAssumption DEF Init, NoId, Early, Ready, Ending, Serving, Deaf, QueueInv, HasOpened, QueueLostOnlyByRefused

LEMMA QueueNext ==
  ASSUME TypeOK, QueueInv, [Next]_vars
  PROVE  QueueInv'
<1> USE NoOneAssumption, ForceAssumption DEF Early, Ready, Ending, Serving, Deaf, NoId, Goto, ObserverGoto, Interrupt, serviceVars, kernelVars, history, TypeOK, QueueInv, HasOpened, QueueLostOnlyByRefused
<1>1. CASE UNCHANGED vars
  BY <1>1 DEF vars
<1>2. ASSUME NEW i \in Instances, Start(i) \/ Terminate(i)
      PROVE  QueueInv'
  <2>1. CASE Start(i)
    BY <2>1 DEF Start
  <2>2. CASE Terminate(i)
    BY <2>2 DEF Terminate
  <2> QED BY <1>2, <2>1, <2>2, Zenon
<1>3. ASSUME NEW i \in Instances, Check(i) \/ Create(i) \/ InitSignals(i)
      PROVE  QueueInv'
  <2>1. CASE Check(i)
    BY <2>1 DEF Check
  <2>2. CASE Create(i)
    <3>1. /\ spc[i] = "create"
          /\ \/ spc' = [spc EXCEPT ![i] = "signals"]
             \/ spc' = [spc EXCEPT ![i] = "refused"]
          /\ UNCHANGED <<qid, queues, nextid>>
      BY <2>2 DEF Create
    <3> QED BY <3>1
  <2>3. CASE InitSignals(i)
    BY <2>3 DEF InitSignals
  <2> QED BY <1>3, <2>1, <2>2, <2>3, Zenon
<1>4. ASSUME NEW i \in Instances, OpenQueue(i) \/ Fork(i) \/ Receive(i) \/ Awake(i) \/ Handle(i)
      PROVE  QueueInv'
  <2>1. CASE OpenQueue(i)
    BY <2>1 DEF OpenQueue
  <2>2. CASE Fork(i)
    BY <2>2 DEF Fork
  <2>3. CASE Receive(i)
    BY <2>3 DEF Receive
  <2>4. CASE Awake(i)
    BY <2>4 DEF Awake
  <2>5. CASE Handle(i)
    BY <2>5 DEF Handle
  <2> QED BY <1>4, <2>1, <2>2, <2>3, <2>4, <2>5, Zenon
<1>5. ASSUME NEW i \in Instances, KillObserver(i) \/ ErasePidFile(i) \/ Leave(i)
      PROVE  QueueInv'
  <2>1. CASE KillObserver(i)
    BY <2>1 DEF KillObserver
  <2>2. CASE ErasePidFile(i)
    BY <2>2 DEF ErasePidFile
  <2>3. CASE Leave(i)
    BY <2>3 DEF Leave
  <2> QED BY <1>5, <2>1, <2>2, <2>3, Zenon
<1>6. ASSUME NEW i \in Instances, ObserverReady(i) \/ ObserverUnlink(i) \/ ObserverBind(i) \/ ObserverAccept(i)
                \/ Connection(i) \/ ObserverClose(i)
      PROVE  QueueInv'
  <2>1. CASE ObserverReady(i)
    BY <2>1 DEF ObserverReady
  <2>2. CASE ObserverUnlink(i)
    BY <2>2 DEF ObserverUnlink
  <2>3. CASE ObserverBind(i)
    BY <2>3 DEF ObserverBind
  <2>4. CASE ObserverAccept(i)
    BY <2>4 DEF ObserverAccept
  <2>5. CASE Connection(i)
    BY <2>5 DEF Connection
  <2>6. CASE ObserverClose(i)
    BY <2>6 DEF ObserverClose
  <2> QED BY <1>6, <2>1, <2>2, <2>3, <2>4, <2>5, <2>6, Zenon
<1>7. ASSUME NEW i \in Instances, ObserverKills(i)
      PROVE  QueueInv'
  BY <1>7 DEF ObserverKills
<1>8. ASSUME NEW c \in Clients, Client(c)
      PROVE  QueueInv'
  BY <1>8 DEF Client, ClientInit, ClientConnect, ClientShutdown
<1>9. CASE Next
  BY <1>9, <1>2, <1>3, <1>4, <1>5, <1>6, <1>7, <1>8, NextCases, Zenon
<1> QED BY <1>1, <1>9, Zenon

(* A running service loses its message queue only when the queue is the    *)
(* kernel's first one and another instance was refused: nobody else        *)
(* removes a queue that is not its own (~MessageQueue).                    *)
THEOREM QueueLost == Spec => []QueueLostOnlyByRefused
<1>1. QueueInv => QueueLostOnlyByRefused
  BY DEF QueueInv
<1> QED BY <1>1, TypeInit, TypeNext, QueueInit, QueueNext, PTL DEF Spec
-----------------------------------------------------------------------------
(* The socket's path, and what is left behind.                              *)

(* The observer is forked once, by a service that has got as far as fork(). *)
ForkedOnce == \A i \in Instances :
  spc[i] \in {"none", "check", "create", "signals", "queue", "fork"} => opc[i] = "none"

(* The path leads to an observer that has bound it and not yet closed; each *)
(* queue belongs to an instance that will remove it; the pid file is that   *)
(* of an instance which is still to erase it, or which was killed.          *)
PathHeld   == sockpath # NoOne => opc[sockpath] \in {"loop", "accept", "close"}
QueuesHeld == \A q \in queues : \E i \in Instances : HasOpened(i) /\ qid[i] = q
PidHeld    == pidfile # NoOne => OwnsPidFile(pidfile) \/ spc[pidfile] = "killed"

LeftInv == ForkedOnce /\ PathHeld /\ QueuesHeld /\ PidHeld /\ PathLostOnlyByOthers

LEMMA LeftInit == Init => LeftInv
BY NoOneAssumption DEF Init, LeftInv, ForkedOnce, PathHeld, QueuesHeld, PidHeld, PathLostOnlyByOthers, Listening

LEMMA LeftNext ==
  ASSUME TypeOK, LeftInv, [Next]_vars
  PROVE  LeftInv'
<1> USE NoOneAssumption, ForceAssumption DEF Early, Ready, Ending, Serving, Deaf, NoId, Goto, ObserverGoto, Interrupt, serviceVars, kernelVars, history, TypeOK, LeftInv, ForkedOnce, PathHeld, QueuesHeld, PidHeld, PathLostOnlyByOthers, HasOpened, OwnsPidFile, Listening
<1>1. CASE UNCHANGED vars
  BY <1>1 DEF vars
<1>2. ASSUME NEW i \in Instances, Start(i) \/ Terminate(i)
      PROVE  LeftInv'
  <2>1. CASE Start(i)
    BY <2>1 DEF Start
  <2>2. CASE Terminate(i)
    BY <2>2 DEF Terminate
  <2> QED BY <1>2, <2>1, <2>2, Zenon
<1>3. ASSUME NEW i \in Instances, Check(i) \/ Create(i) \/ InitSignals(i)
      PROVE  LeftInv'
  <2>1. CASE Check(i)
    BY <2>1 DEF Check
  <2>2. CASE Create(i)
    <3>1. /\ spc[i] = "create"
          /\ \/ spc' = [spc EXCEPT ![i] = "signals"] /\ pidfile' = i
             \/ spc' = [spc EXCEPT ![i] = "refused"] /\ pidfile' = pidfile
          /\ UNCHANGED <<qid, queues, opc, sockpath, cpc>>
      BY <2>2 DEF Create
    <3>2. ForkedOnce' /\ PathHeld' /\ PathLostOnlyByOthers'
      BY <3>1
    <3>3. QueuesHeld'
      BY <3>1
    <3>4. PidHeld'
      BY <3>1
    <3> QED BY <3>2, <3>3, <3>4
  <2>3. CASE InitSignals(i)
    BY <2>3 DEF InitSignals
  <2> QED BY <1>3, <2>1, <2>2, <2>3, Zenon
<1>4. ASSUME NEW i \in Instances, OpenQueue(i) \/ Fork(i) \/ Receive(i) \/ Awake(i) \/ Handle(i)
      PROVE  LeftInv'
  <2>1. CASE OpenQueue(i)
    <3>1. /\ spc[i] = "queue"
          /\ \/ /\ qid' = [qid EXCEPT ![i] = nextid]
                /\ queues' = queues \cup {nextid}
                /\ spc' = [spc EXCEPT ![i] = "fork"]
             \/ /\ qid' = [qid EXCEPT ![i] = NoId]
                /\ queues' = queues
                /\ spc' = [spc EXCEPT ![i] = "fail"]
          /\ UNCHANGED <<opc, pidfile, sockpath, cpc>>
      BY <2>1 DEF OpenQueue
    <3>2. ForkedOnce' /\ PathHeld' /\ PathLostOnlyByOthers'
      BY <3>1
    <3>3. QueuesHeld'
      <4>1. ASSUME NEW q \in queues
            PROVE  \E j \in Instances : HasOpened(j)' /\ qid'[j] = q
        BY <3>1
      <4>2. CASE queues' = queues
        BY <4>1, <4>2
      <4>3. CASE queues' = queues \cup {nextid} /\ spc'[i] = "fork" /\ qid'[i] = nextid
        BY <4>1, <4>3
      <4> QED BY <3>1, <4>2, <4>3
    <3>4. PidHeld'
      BY <3>1
    <3> QED BY <3>2, <3>3, <3>4
  <2>2. CASE Fork(i)
    BY <2>2 DEF Fork
  <2>3. CASE Receive(i)
    BY <2>3 DEF Receive
  <2>4. CASE Awake(i)
    BY <2>4 DEF Awake
  <2>5. CASE Handle(i)
    BY <2>5 DEF Handle
  <2> QED BY <1>4, <2>1, <2>2, <2>3, <2>4, <2>5, Zenon
<1>5. ASSUME NEW i \in Instances, KillObserver(i) \/ ErasePidFile(i) \/ Leave(i)
      PROVE  LeftInv'
  <2>1. CASE KillObserver(i)
    BY <2>1 DEF KillObserver
  <2>2. CASE ErasePidFile(i)
    BY <2>2 DEF ErasePidFile
  <2>3. CASE Leave(i)
    BY <2>3 DEF Leave
  <2> QED BY <1>5, <2>1, <2>2, <2>3, Zenon
<1>6. ASSUME NEW i \in Instances, ObserverReady(i) \/ ObserverUnlink(i) \/ ObserverBind(i) \/ ObserverAccept(i)
                \/ Connection(i) \/ ObserverClose(i)
      PROVE  LeftInv'
  <2>1. CASE ObserverReady(i)
    BY <2>1 DEF ObserverReady
  <2>2. CASE ObserverUnlink(i)
    BY <2>2 DEF ObserverUnlink
  <2>3. CASE ObserverBind(i)
    BY <2>3 DEF ObserverBind
  <2>4. CASE ObserverAccept(i)
    BY <2>4 DEF ObserverAccept
  <2>5. CASE Connection(i)
    BY <2>5 DEF Connection
  <2>6. CASE ObserverClose(i)
    BY <2>6 DEF ObserverClose
  <2> QED BY <1>6, <2>1, <2>2, <2>3, <2>4, <2>5, <2>6, Zenon
<1>7. ASSUME NEW i \in Instances, ObserverKills(i)
      PROVE  LeftInv'
  BY <1>7 DEF ObserverKills
<1>8. ASSUME NEW c \in Clients, Client(c)
      PROVE  LeftInv'
  <2>1. /\ UNCHANGED <<spc, opc, qid, queues, pidfile>>
        /\ sockpath' \in {sockpath, NoOne}
        /\ \E pc \in {"connect", "connected", "failed", "noserver", "done"} : cpc' = [cpc EXCEPT ![c] = pc]
    BY <1>8 DEF Client, ClientInit, ClientConnect, ClientShutdown
  <2>2. ForkedOnce' /\ PathHeld' /\ QueuesHeld' /\ PidHeld'
    BY <2>1
  <2>3. PathLostOnlyByOthers'
    BY <2>1
  <2> QED BY <2>2, <2>3
<1>9. CASE Next
  BY <1>9, <1>2, <1>3, <1>4, <1>5, <1>6, <1>7, <1>8, NextCases, Zenon
<1> QED BY <1>1, <1>9, Zenon

(* A listening observer loses the path of its socket only to an observer of *)
(* another instance or to a client (TCPServer::init(), TCPClient).          *)
THEOREM PathLost == Spec => []PathLostOnlyByOthers
<1>1. LeftInv => PathLostOnlyByOthers
  BY DEF LeftInv
<1> QED BY <1>1, TypeInit, TypeNext, LeftInit, LeftNext, PTL DEF Spec

(* When every instance has come to its end, socket, message queue and pid   *)
(* file are gone, but the pid file of one that was killed before it could   *)
(* catch signals (start(), connectionHandler()).                            *)
THEOREM NothingLeft == Spec => []CleanAfterEnd
<1>1. TypeOK /\ LeftInv => CleanAfterEnd
  BY DEF TypeOK, LeftInv, PathHeld, QueuesHeld, PidHeld, HasOpened, OwnsPidFile, CleanAfterEnd, ServiceOver, ObserverOver
<1> QED BY <1>1, TypeInit, TypeNext, LeftInit, LeftNext, PTL DEF Spec
=============================================================================
