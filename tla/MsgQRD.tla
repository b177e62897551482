------------------------------- MODULE MsgQRD -------------------------------
(***************************************************************************)
(* The message queue registration daemon at work (msgqrd/src,              *)
(* fzsystools/stdmessageserver.cpp, fzsystools/messagequeue.cpp).          *)
(*                                                                         *)
(* Three kinds of processes and the kernel between them:                   *)
(*   - the service process, StdMessageServer::start(), receives commands   *)
(*     from its message queue, executes them in handleMessage() on the     *)
(*     list it owns, and sends the result to the reply queue the command   *)
(*     names;                                                              *)
(*   - the connection observer, connectionHandler(), forks a protocol      *)
(*     handler for each connection;                                        *)
(*   - each protocol handler, parse(), creates a reply queue, arms an      *)
(*     alarm, scans one command from its client, sends it to the service,  *)
(*     waits for the result, forwards it to the client, removes its reply  *)
(*     queue and ends.                                                     *)
(* A client writes the tokens of one request, one after the other, and     *)
(* may stop or disconnect at any time.                                     *)
(***************************************************************************)
EXTENDS MsgQueueList

CONSTANTS
  Handlers,            \* one protocol handler per connection, never reused
  Names, PortIds,      \* names and ids of user message queues
  Requests,            \* the requests a client may make
  NoRequest,           \* stands for "no client yet"
  MainQueueCap,        \* messages the service's queue holds (kernel limit)
  CountSurvivesMerge   \* FALSE: the code as it is, TRUE: as the scanner assumes

Kinds == {"add", "abbrev", "remove", "find", "other"}

ASSUME NamesAssumption == Names \subseteq Nat
ASSUME PortIdsAssumption == PortIds \subseteq Nat
ASSUME RequestsAssumption ==
  /\ Requests \subseteq [kind : Kinds, name : Names, id : PortIds]
  /\ NoRequest \notin Requests
ASSUME LimitsAssumption == MainQueueCap \in Nat \ {0}
ASSUME FlagAssumption == CountSurvivesMerge \in BOOLEAN

VARIABLES
  list,       \* service: messagequeuelist
  mpc,        \* service: "receive", "reply", or how it ended
  mreply,     \* service: the result message it is about to send, if any
  listening,  \* the connection observer accepts connections
  hpc,        \* handlers: where in parse() each one is
  status,     \* handlers: the STDMSGS_TIMEOUT flag
  alarm,      \* handlers: the kernel's alarm for it, "off", "set" or "fired"
  hreply,     \* handlers: the result received
  mainq,      \* kernel: the messages in the service's queue
  rqueues,    \* kernel: the handlers whose reply queue exists
  rbuf,       \* kernel: the messages in each reply queue
  ports,      \* kernel: the user message queues that exist
  req,        \* clients: the request of each connection
  sent,       \* clients: how many tokens of it were written
  conn,       \* clients: "none", "open" or "closed"
  out,        \* clients: what was written back to each one
  result      \* history: what the service computed for each handler

mainVars   == <<list, mpc, mreply, result>>
procVars   == <<status, alarm, hreply>>
kernelVars == <<mainq, rqueues, rbuf, ports>>
clientVars == <<req, sent, conn, out>>
vars == <<mainVars, listening, hpc, procVars, kernelVars, clientVars>>

-----------------------------------------------------------------------------
(* Messages and requests.                                                  *)

Reply(text, id) == [text |-> text, id |-> id]
NoReply == Reply("none", NotFound)
Timeout == Reply("ERROR_MSGPD_TIMEOUT", NotFound)

Texts == {"OK_ADD_MSGQUEUE", "OK_FIND_MSGQUEUE", "OK_REMOVE_MSGQUEUE",
          "ERROR_PORT_EXISTS", "ERROR_QUEUE_NOTEXISTS",
          "ERROR_PORT_NOTSUBSCRIBED"}
Results == [text : Texts, id : PortIds \cup {NotFound}]

(* Token::operator== compares as many characters as the token read has, so *)
(* that any abbreviation, "CMD_" say, is taken for the first command tried.*)
Command(kind) == CASE kind \in {"add", "abbrev"} -> "add"
                   [] kind = "remove"            -> "remove"
                   [] kind = "find"              -> "find"
                   [] OTHER                      -> "none"

(* MsgQuMessage: the id of the sender's reply queue and the command line.  *)
Message(h) == [to   |-> h,                   cmd |-> Command(req[h].kind),
               name |-> req[h].name,         id  |-> req[h].id]

Messages == [to : Handlers, cmd : {"add", "remove", "find"},
             name : Names, id : PortIds]

Tokens(h) == IF Command(req[h].kind) = "add" THEN 3 ELSE 2

Running == {"open", "armed", "command", "name", "id", "send", "receive",
            "forward", "finish", "close"}
Scanning == {"open", "armed", "command", "name", "id"}
Stopped == {"exited", "aborted"}

Init == /\ list = <<>>
        /\ mpc = "receive"
        /\ mreply = <<>>
        /\ listening = TRUE
        /\ hpc = [h \in Handlers |-> "none"]
        /\ status = [h \in Handlers |-> FALSE]
        /\ alarm = [h \in Handlers |-> "off"]
        /\ hreply = [h \in Handlers |-> NoReply]
        /\ mainq = <<>>
        /\ rqueues = {}
        /\ rbuf = [h \in Handlers |-> <<>>]
        /\ ports \in SUBSET PortIds
        /\ req = [h \in Handlers |-> NoRequest]
        /\ sent = [h \in Handlers |-> 0]
        /\ conn = [h \in Handlers |-> "none"]
        /\ out = [h \in Handlers |-> <<>>]
        /\ result = [h \in Handlers |-> NoReply]

-----------------------------------------------------------------------------
(* The client side of a connection.                                        *)

(* accept() returns and the observer forks a handler. *)
Connect(h) ==
  /\ listening
  /\ hpc[h] = "none"
  /\ hpc' = [hpc EXCEPT ![h] = "open"]
  /\ conn' = [conn EXCEPT ![h] = "open"]
  /\ \E r \in Requests : req' = [req EXCEPT ![h] = r]
  /\ UNCHANGED <<mainVars, listening, procVars, kernelVars, sent, out>>

(* What is written once the handler has stopped scanning is never read. *)
ClientWrites(h) ==
  /\ hpc[h] \in Scanning
  /\ conn[h] = "open"
  /\ sent[h] < Tokens(h)
  /\ sent' = [sent EXCEPT ![h] = @ + 1]
  /\ UNCHANGED <<mainVars, listening, hpc, procVars, kernelVars, req, conn, out>>

ClientCloses(h) ==
  /\ hpc[h] \in Running
  /\ conn[h] = "open"
  /\ conn' = [conn EXCEPT ![h] = "closed"]
  /\ UNCHANGED <<mainVars, listening, hpc, procVars, kernelVars, req, sent, out>>

(* The owner of a user message queue removes it.  SysV ids are not reused. *)
PortVanishes(p) ==
  /\ p \in ports
  /\ ports' = ports \ {p}
  /\ UNCHANGED <<mainVars, listening, hpc, procVars, mainq, rqueues, rbuf, clientVars>>

-----------------------------------------------------------------------------
(* A protocol handler: handleClient() and parse().                         *)

Goto(h, pc) == hpc' = [hpc EXCEPT ![h] = pc]

(* write() to a client that is gone fails; SIGPIPE is caught, the result   *)
(* of write() is not looked at.                                            *)
Write(h, r) == out' = IF conn[h] = "open" THEN [out EXCEPT ![h] = Append(@, r)]
                                          ELSE out

(* msgget() for the reply queue, then alarm().  When the kernel has no     *)
(* queue left, whoever uses them, the exception ends the handler without a *)
(* word.                                                                   *)
OpenReplyQueue(h) ==
  /\ hpc[h] = "open"
  /\ \/ /\ rqueues' = rqueues \cup {h}
        /\ alarm' = [alarm EXCEPT ![h] = "set"]
        /\ Goto(h, "armed")
        /\ UNCHANGED <<sent, conn>>
     \/ /\ sent' = [sent EXCEPT ![h] = 0]
        /\ conn' = [conn EXCEPT ![h] = "closed"]
        /\ Goto(h, "done")
        /\ UNCHANGED <<rqueues, alarm>>
  /\ UNCHANGED <<mainVars, listening, status, hreply, mainq, rbuf, ports, req, out>>

(* status = 0, after the alarm was armed. *)
ResetStatus(h) ==
  /\ hpc[h] = "armed"
  /\ status' = [status EXCEPT ![h] = FALSE]
  /\ Goto(h, "command")
  /\ UNCHANGED <<mainVars, listening, alarm, hreply, kernelVars, clientVars>>

(* Variant: the end of the stream is not recognised. *)
AtEnd_Never(h, k) == FALSE

(* nextToken() has the k-th token, or finds the end of the stream, or blocks. *)
Arrived(h, k) == sent[h] >= k
AtEnd(h, k)   == sent[h] < k /\ conn[h] = "closed"

(* The size of a token that did arrive: the scanner asks the buffer for its *)
(* number of elements only after merge() has cleared it.                    *)
TokenSize == IF CountSurvivesMerge THEN 1 ELSE 0

ScanCommand(h) ==
  /\ hpc[h] = "command"
  /\ \/ AtEnd(h, 1) /\ Goto(h, "close")
     \/ /\ Arrived(h, 1)
        /\ IF TokenSize > 0 /\ Command(req[h].kind) # "none"
           THEN Goto(h, "name")
           ELSE Goto(h, "finish")
  /\ UNCHANGED <<mainVars, listening, procVars, kernelVars, clientVars>>

ScanName(h) ==
  /\ hpc[h] = "name"
  /\ \/ AtEnd(h, 2) /\ Goto(h, "close")
     \/ Arrived(h, 2) /\ Goto(h, IF Command(req[h].kind) = "add" THEN "id" ELSE "send")
  /\ UNCHANGED <<mainVars, listening, procVars, kernelVars, clientVars>>

(* At the end of the stream nextULongToken() throws. *)
ScanId(h) ==
  /\ hpc[h] = "id"
  /\ \/ AtEnd(h, 3) /\ Goto(h, "finish")
     \/ Arrived(h, 3) /\ Goto(h, "send")
  /\ UNCHANGED <<mainVars, listening, procVars, kernelVars, clientVars>>

(* Variant: a handler whose client has left does not wait for the result. *)
SendCommand_NoWait(h) ==
  /\ hpc[h] = "send"
  /\ mpc \notin Stopped
  /\ Len(mainq) < MainQueueCap
  /\ mainq' = Append(mainq, Message(h))
  /\ Goto(h, IF conn[h] = "open" THEN "receive" ELSE "finish")
  /\ UNCHANGED <<mainVars, listening, procVars, rqueues, rbuf, ports, clientVars>>

(* msgsnd() to the service: blocks while its queue is full, throws when    *)
(* the queue is gone with the service.                                     *)
SendCommand(h) ==
  /\ hpc[h] = "send"
  /\ \/ /\ mpc \in Stopped
        /\ Goto(h, "finish")
        /\ UNCHANGED mainq
     \/ /\ mpc \notin Stopped
        /\ Len(mainq) < MainQueueCap
        /\ mainq' = Append(mainq, Message(h))
        /\ Goto(h, "receive")
  /\ UNCHANGED <<mainVars, listening, procVars, rqueues, rbuf, ports, clientVars>>

ReceiveReply(h) ==
  /\ hpc[h] = "receive"
  /\ rbuf[h] # <<>>
  /\ hreply' = [hreply EXCEPT ![h] = Head(rbuf[h])]
  /\ rbuf' = [rbuf EXCEPT ![h] = Tail(@)]
  /\ Goto(h, "forward")
  /\ UNCHANGED <<mainVars, listening, status, alarm, mainq, rqueues, ports, clientVars>>

Forward(h) ==
  /\ hpc[h] = "forward"
  /\ Write(h, hreply[h])
  /\ Goto(h, "finish")
  /\ UNCHANGED <<mainVars, listening, procVars, kernelVars, req, sent, conn>>

(* Past the try block: the timeout is reported if the flag is set. *)
Finish(h) ==
  /\ hpc[h] = "finish"
  /\ IF status[h] THEN Write(h, Timeout) ELSE UNCHANGED out
  /\ Goto(h, "close")
  /\ UNCHANGED <<mainVars, listening, procVars, kernelVars, req, sent, conn>>

(* Variant: the reply queue is not removed. *)
Close_KeepsQueue(h) ==
  /\ hpc[h] = "close"
  /\ Goto(h, "done")
  /\ UNCHANGED <<mainVars, listening, procVars, kernelVars, clientVars>>

(* parse() returns: ~MessageQueue removes the reply queue; handleClient()  *)
(* closes the connection and exits, with it the process's memory is gone.  *)
Close(h) ==
  /\ hpc[h] = "close"
  /\ rqueues' = rqueues \ {h}
  /\ rbuf' = [rbuf EXCEPT ![h] = <<>>]
  /\ conn' = [conn EXCEPT ![h] = "closed"]
  /\ sent' = [sent EXCEPT ![h] = 0]
  /\ status' = [status EXCEPT ![h] = FALSE]
  /\ Goto(h, "done")
  /\ UNCHANGED <<mainVars, listening, alarm, hreply, mainq, ports, req, out>>

(* The system calls a signal can interrupt: a read() without data, a       *)
(* msgsnd() to a full queue, a msgrcv() from an empty one.                 *)
Blocked(h) ==
  \/ hpc[h] = "command" /\ ~Arrived(h, 1) /\ ~AtEnd(h, 1)
  \/ hpc[h] = "name" /\ ~Arrived(h, 2) /\ ~AtEnd(h, 2)
  \/ hpc[h] = "id" /\ ~Arrived(h, 3) /\ ~AtEnd(h, 3)
  \/ hpc[h] = "send" /\ mpc \notin Stopped /\ Len(mainq) >= MainQueueCap
  \/ hpc[h] = "receive" /\ rbuf[h] = <<>>

(* SIGALRM: the handler sets the flag.  A process inside a blocking call   *)
(* gets EINTR, which the wrappers turn into an exception; one that has not *)
(* entered the call yet will enter it and block, the alarm being used up.  *)
Alarm(h) ==
  /\ hpc[h] \in Running
  /\ alarm[h] = "set"
  /\ alarm' = [alarm EXCEPT ![h] = "fired"]
  /\ status' = [status EXCEPT ![h] = TRUE]
  /\ \/ UNCHANGED hpc
     \/ Blocked(h) /\ Goto(h, "finish")
  /\ UNCHANGED <<mainVars, listening, hreply, kernelVars, clientVars>>

-----------------------------------------------------------------------------
(* The service process: start() and handleMessage().                       *)

(* The result goes to the reply queue the message names. *)
Answer(m, text, id) ==
  /\ mreply' = <<[to |-> m.to, reply |-> Reply(text, id)]>>
  /\ result' = [result EXCEPT ![m.to] = Reply(text, id)]

(* Variant: a name that is already registered is not looked for. *)
HandleAdd_NoFind(m) ==
  /\ m.cmd = "add"
  /\ m.id \in ports
  /\ list' = Insert(list, m.name, m.id)
  /\ Answer(m, "OK_ADD_MSGQUEUE", NotFound)

HandleAdd(m) ==
  /\ m.cmd = "add"
  /\ \/ /\ m.id \notin ports
        /\ Answer(m, "ERROR_QUEUE_NOTEXISTS", NotFound)
        /\ UNCHANGED list
     \/ /\ m.id \in ports
        /\ Find(list, m.name) # NotFound
        /\ Answer(m, "ERROR_PORT_EXISTS", NotFound)
        /\ UNCHANGED list
     \/ /\ m.id \in ports
        /\ Find(list, m.name) = NotFound
        /\ list' = Insert(list, m.name, m.id)
        /\ Answer(m, "OK_ADD_MSGQUEUE", NotFound)

HandleFind(m) ==
  /\ m.cmd = "find"
  /\ IF Find(list, m.name) = NotFound
     THEN Answer(m, "ERROR_PORT_NOTSUBSCRIBED", NotFound)
     ELSE Answer(m, "OK_FIND_MSGQUEUE", Find(list, m.name))
  /\ UNCHANGED list

(* Variant: the removal is answered but not made. *)
HandleRemove_NoErase(m) ==
  /\ m.cmd = "remove"
  /\ Find(list, m.name) # NotFound
  /\ Answer(m, "OK_REMOVE_MSGQUEUE", NotFound)
  /\ UNCHANGED list

HandleRemove(m) ==
  /\ m.cmd = "remove"
  /\ \/ /\ Find(list, m.name) = NotFound
        /\ Answer(m, "ERROR_PORT_NOTSUBSCRIBED", NotFound)
        /\ UNCHANGED list
     \/ /\ Find(list, m.name) # NotFound
        /\ list' = Erase(list, m.name)
        /\ Answer(m, "OK_REMOVE_MSGQUEUE", NotFound)

(* Variant: the message stays in the queue. *)
HandleMessage_Peek ==
  /\ mpc = "receive"
  /\ mainq # <<>>
  /\ LET m == Head(mainq) IN HandleAdd(m) \/ HandleFind(m) \/ HandleRemove(m)
  /\ mpc' = "reply"
  /\ UNCHANGED <<mainq, listening, hpc, procVars, rqueues, rbuf, ports, clientVars>>

(* Variant: a message whose sender is gone is not taken from the queue. *)
HandleMessage_OnlyForLiving ==
  /\ mpc = "receive"
  /\ mainq # <<>>
  /\ Head(mainq).to \in rqueues
  /\ LET m == Head(mainq) IN HandleAdd(m) \/ HandleFind(m) \/ HandleRemove(m)
  /\ mainq' = Tail(mainq)
  /\ mpc' = "reply"
  /\ UNCHANGED <<listening, hpc, procVars, rqueues, rbuf, ports, clientVars>>

(* receive() and handleMessage() up to the send of its result. *)
HandleMessage ==
  /\ mpc = "receive"
  /\ mainq # <<>>
  /\ LET m == Head(mainq) IN HandleAdd(m) \/ HandleFind(m) \/ HandleRemove(m)
  /\ mainq' = Tail(mainq)
  /\ mpc' = "reply"
  /\ UNCHANGED <<listening, hpc, procVars, rqueues, rbuf, ports, clientVars>>

(* start() is left: its queue is removed, the list is lost. *)
EndService(how) ==
  /\ mpc' = how
  /\ list' = <<>>
  /\ mreply' = <<>>
  /\ mainq' = <<>>
  /\ UNCHANGED <<result, rqueues, rbuf, ports>>

(* msgsnd() of the result.  When the reply queue is gone it fails: send()  *)
(* throws Exception<Message>, which the loop of start() does not catch.    *)
SendResult ==
  /\ mpc = "reply"
  /\ LET m == Head(mreply) IN
       \/ /\ m.to \in rqueues
          /\ rbuf' = [rbuf EXCEPT ![m.to] = Append(@, m.reply)]
          /\ mreply' = <<>>
          /\ mpc' = "receive"
          /\ UNCHANGED <<list, result, mainq, rqueues, ports>>
       \/ m.to \notin rqueues /\ EndService("aborted")
  /\ UNCHANGED <<listening, hpc, procVars, clientVars>>

(* SIGTERM, SIGINT or the death of the observer: it ends the service only  *)
(* when msgrcv() blocks; the handlers of these signals do nothing.         *)
Interruptible == mpc = "receive" /\ mainq = <<>>

Terminate ==
  /\ Interruptible
  /\ EndService("exited")
  /\ UNCHANGED <<listening, hpc, procVars, clientVars>>

(* The observer's accept() fails, by the SIGTERM the ending service sends  *)
(* it or by itself: kill(0,SIGTERM) reaches the whole process group.       *)
(* Handlers die on the spot, but a young one may not have restored SIG_DFL *)
(* yet; the service is interrupted if it can be.                           *)
StopGroup ==
  /\ listening
  /\ listening' = FALSE
  /\ \E spared \in SUBSET {h \in Handlers : hpc[h] = "open"} :
       hpc' = [h \in Handlers |-> IF hpc[h] \in Running /\ h \notin spared
                                  THEN "killed" ELSE hpc[h]]
  /\ IF Interruptible THEN EndService("exited")
                      ELSE UNCHANGED <<mainVars, kernelVars>>
  /\ UNCHANGED <<procVars, clientVars>>

-----------------------------------------------------------------------------
Service == HandleMessage \/ SendResult

Handler(h) ==
  \/ OpenReplyQueue(h) \/ ResetStatus(h)
  \/ ScanCommand(h) \/ ScanName(h) \/ ScanId(h)
  \/ SendCommand(h) \/ ReceiveReply(h) \/ Forward(h)
  \/ Finish(h) \/ Close(h)

Client(h) == Connect(h) \/ ClientWrites(h) \/ ClientCloses(h)

Next == \/ Service \/ Terminate \/ StopGroup
        \/ \E h \in Handlers : Handler(h) \/ Alarm(h) \/ Client(h)
        \/ \E p \in PortIds : PortVanishes(p)

Spec == Init /\ [][Next]_vars

(* The scheduler runs the service and the handlers, and the kernel         *)
(* delivers the alarm.                                                     *)
ProcessFairness == /\ WF_vars(Service)
                   /\ \A h \in Handlers : WF_vars(Handler(h)) /\ WF_vars(Alarm(h))

FairSpec == Spec /\ ProcessFairness

(* Clients that do not stay connected for ever. *)
PatientSpec == FairSpec /\ \A h \in Handlers : WF_vars(ClientCloses(h))

-----------------------------------------------------------------------------
(* Properties.                                                             *)

(* The types of the variables; the service holds one result, while it has  *)
(* to send it.                                                             *)
TypeOK ==
  /\ list \in Seq([name : Names, id : PortIds])
  /\ mpc \in {"receive", "reply"} \cup Stopped
  /\ mreply \in Seq([to : Handlers, reply : Results])
  /\ (mpc = "reply") <=> (Len(mreply) = 1)
  /\ listening \in BOOLEAN
  /\ hpc \in [Handlers -> Running \cup {"none", "done", "killed"}]
  /\ status \in [Handlers -> BOOLEAN]
  /\ alarm \in [Handlers -> {"off", "set", "fired"}]
  /\ hreply \in [Handlers -> Results \cup {NoReply}]
  /\ mainq \in Seq(Messages)
  /\ rqueues \in SUBSET Handlers
  /\ rbuf \in [Handlers -> Seq(Results)]
  /\ ports \in SUBSET PortIds
  /\ req \in [Handlers -> Requests \cup {NoRequest}]
  /\ sent \in [Handlers -> 0..3]
  /\ conn \in [Handlers -> {"none", "open", "closed"}]
  /\ out \in [Handlers -> Seq(Results \cup {Timeout})]
  /\ result \in [Handlers -> Results \cup {NoReply}]

(* No name is ever registered twice and the list stays in order, which     *)
(* find(), insert() and erase() rely on (msgqueuelist.cpp).                *)
RegistrySorted == Sorted(list)

(* A handler only ever holds, and its client is only ever told, the result *)
(* of its own command or the timeout: the service's one queue and its use  *)
(* of the reply queue named in the message never mix up two connections,   *)
(* and no command is executed or answered twice.                           *)
OwnResultOnly ==
  \A h \in Handlers :
    /\ rbuf[h] \in {<<>>, <<result[h]>>}
    /\ hreply[h] \in {NoReply, result[h]}
    /\ out[h] \in {<<>>, <<result[h]>>, <<Timeout>>, <<result[h], Timeout>>}
    /\ out[h] # <<>> /\ Head(out[h]) # Timeout => result[h] # NoReply

(* Which handlers have a request, and which of them have a command.        *)
RequestKnown ==
  \A h \in Handlers :
    /\ hpc[h] # "none" => req[h] \in Requests
    /\ hpc[h] \in {"name", "id", "send"} => Command(req[h].kind) # "none"

(* Why OwnResultOnly holds: where the one command of each handler is.  It  *)
(* is not sent yet; or it is in the service's queue, just once, and has no *)
(* result; or the service is about to answer it; or the result lies in the *)
(* reply queue; or the handler has it, and has forwarded it or not.        *)
BeforeSend == {"none", "open", "armed", "command", "name", "id", "send"}

Queued(h)    == \E i \in DOMAIN mainq : mainq[i].to = h
Answering(h) == mpc = "reply" /\ mreply[1].to = h

QueuedOnce == \A i, j \in DOMAIN mainq : mainq[i].to = mainq[j].to => i = j

AnswerRecorded == mpc = "reply" => mreply[1].reply = result[mreply[1].to]

ResultTracked(h) ==
  /\ hpc[h] \in BeforeSend => ~Queued(h) /\ result[h] = NoReply
  /\ Queued(h) => result[h] = NoReply
  /\ result[h] = NoReply \/ Answering(h) => rbuf[h] = <<>> /\ hreply[h] = NoReply
  /\ rbuf[h] # <<>> => rbuf[h] = <<result[h]>> /\ hreply[h] = NoReply
  /\ hreply[h] \in {NoReply, result[h]}
  /\ hpc[h] = "receive" => hreply[h] = NoReply
  /\ hpc[h] = "forward" => hreply[h] # NoReply

OutputTracked(h) ==
  /\ hpc[h] \in BeforeSend \cup {"receive", "forward"} => out[h] = <<>>
  /\ hpc[h] = "finish" => out[h] = <<>> \/ (out[h] = <<result[h]>> /\ result[h] # NoReply)
  /\ out[h] \in {<<>>, <<result[h]>>, <<Timeout>>, <<result[h], Timeout>>}
  /\ out[h] # <<>> /\ Head(out[h]) # Timeout => result[h] # NoReply

CommandTracked ==
  /\ QueuedOnce
  /\ AnswerRecorded
  /\ \A h \in Handlers : ResultTracked(h) /\ OutputTracked(h)

(* Why AbortOnlyAfterTimeout holds: as long as a command is under way, its *)
(* reply queue exists, or its handler gave up after the alarm.             *)
UnderWay(h) == Queued(h) \/ Answering(h)

QueueTracked(h) ==
  /\ h \in rqueues => hpc[h] \in (Running \ {"open"}) \cup {"killed"}
  /\ hpc[h] \in Running \ {"open"} => h \in rqueues
  /\ UnderWay(h) /\ hpc[h] \in {"finish", "close", "done"} => alarm[h] = "fired"
  /\ UnderWay(h) => h \in rqueues \/ hpc[h] = "done"

ReplyQueueTracked ==
  /\ mpc \in Stopped => mainq = <<>>
  /\ \A h \in Handlers : QueueTracked(h)

(* The inductive invariant. *)
IInv == TypeOK /\ RegistrySorted /\ RequestKnown /\ CommandTracked /\ ReplyQueueTracked

(* Registrations are conserved: as long as the service lives, the commands *)
(* that were answered OK account for exactly the entries in the list, also *)
(* when the handler that sent them is gone (handleMessage()).              *)
Granted(text, n) == {h \in Handlers : result[h].text = text /\ req[h].name = n}

RegistrationsConserved ==
  mpc \notin Stopped =>
    \A n \in Names : Cardinality(Granted("OK_ADD_MSGQUEUE", n)) =
                       Cardinality(Granted("OK_REMOVE_MSGQUEUE", n))
                         + Cardinality(Hits(list, n))

(* The only way the service ends abnormally is that a handler timed out    *)
(* while its command was under way and took its reply queue with it.       *)
AbortOnlyAfterTimeout ==
  mpc = "aborted" =>
    \E h \in Handlers : /\ hpc[h] = "done"
                        /\ alarm[h] = "fired"
                        /\ result[h] # NoReply
                        /\ hreply[h] = NoReply

(* Reply queues are only left behind by handlers that were killed. *)
LeakOnlyByKill ==
  \A h \in rqueues : hpc[h] \in (Running \ {"open"}) \cup {"killed"}

(* The daemon implements the abstract registry. *)
Abstract == INSTANCE Registry WITH
  Callers <- Handlers,
  reg <- [n \in Names |-> Find(list, n)],
  res <- result,
  ans <- [h \in Handlers |-> IF out[h] # <<>> /\ Head(out[h]) # Timeout
                             THEN Head(out[h]) ELSE NoReply],
  up  <- mpc \notin Stopped

ImplementsRegistry == Abstract!Spec

(* A handler whose client disconnects in the end does not stay for ever,   *)
(* unless the service is gone: parse() always gets to its end.             *)
HandlersEnd ==
  \A h \in Handlers :
    hpc[h] = "open" ~> (hpc[h] \in {"done", "killed"} \/ mpc \in Stopped)

(* A command that reached the service's queue takes effect, whether or not *)
(* its handler still waits for the result, unless the service ends first.  *)
CommandsTakeEffect ==
  \A h \in Handlers :
    hpc[h] = "receive" ~> (result[h] # NoReply \/ mpc \in Stopped)

(* msgqueueregdaemon.cpp, at the test of the token's size: "has anything   *)
(* arrived at all?"  A handler that got a command does not skip it.        *)
CommandsAreNotDropped ==
  \A h \in Handlers :
    hpc[h] = "finish" /\ alarm[h] # "fired" /\ conn[h] = "open" /\ Arrived(h, Tokens(h))
      => Command(req[h].kind) = "none" \/ mpc \in Stopped \/ result[h] # NoReply
=============================================================================
