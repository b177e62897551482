------------------------------ MODULE Registry ------------------------------
(***************************************************************************)
(* What the registration service promises, without processes, queues or    *)
(* timeouts: a map from names to message queue ids.  A caller's command    *)
(* takes effect at most once, in one step, between the caller's call and   *)
(* its answer; the answer is the one computed in that step.  A caller may  *)
(* be left without an answer, and the whole map may be lost at any time,   *)
(* after which no command takes effect any more.                           *)
(***************************************************************************)
EXTENDS Integers

CONSTANTS Callers, Names, PortIds, NotFound, NoReply

VARIABLES reg,      \* Names -> PortIds, or NotFound
          ports,    \* the user message queues that exist
          res,      \* what each caller's command came to
          ans,      \* what each caller was told
          up        \* whether the service still runs

vars == <<reg, ports, res, ans, up>>

Empty == [n \in Names |-> NotFound]

Reply(text, id) == [text |-> text, id |-> id]

Init == /\ reg = Empty
        /\ ports \in SUBSET PortIds
        /\ res = [c \in Callers |-> NoReply]
        /\ ans = [c \in Callers |-> NoReply]
        /\ up = TRUE

(* A caller whose command has not taken effect yet. *)
Pending(c) == up /\ res[c] = NoReply

(* The command of caller c takes effect: r is its result.                  *)
Effect(c, r) == /\ res' = [res EXCEPT ![c] = r]
                /\ UNCHANGED <<ports, ans, up>>

(* Only a queue that exists can be registered, and only under a free name. *)
Add(c, n, p) ==
  \/ /\ Effect(c, Reply("ERROR_QUEUE_NOTEXISTS", NotFound))
     /\ p \notin ports
     /\ UNCHANGED reg
  \/ /\ Effect(c, Reply("ERROR_PORT_EXISTS", NotFound))
     /\ p \in ports
     /\ reg[n] # NotFound
     /\ UNCHANGED reg
  \/ /\ Effect(c, Reply("OK_ADD_MSGQUEUE", NotFound))
     /\ p \in ports
     /\ reg[n] = NotFound
     /\ reg' = [reg EXCEPT ![n] = p]

Lookup(c, n) ==
  /\ \/ /\ Effect(c, Reply("ERROR_PORT_NOTSUBSCRIBED", NotFound))
        /\ reg[n] = NotFound
     \/ \E p \in PortIds : /\ Effect(c, Reply("OK_FIND_MSGQUEUE", p))
                           /\ reg[n] = p
  /\ UNCHANGED reg

Remove(c, n) ==
  \/ /\ Effect(c, Reply("ERROR_PORT_NOTSUBSCRIBED", NotFound))
     /\ reg[n] = NotFound
     /\ UNCHANGED reg
  \/ /\ Effect(c, Reply("OK_REMOVE_MSGQUEUE", NotFound))
     /\ reg[n] # NotFound
     /\ reg' = [reg EXCEPT ![n] = NotFound]

(* The caller is told the result of its own command. *)
Answer(c) == /\ res[c] # NoReply
             /\ ans[c] = NoReply
             /\ ans' = [ans EXCEPT ![c] = res[c]]
             /\ UNCHANGED <<reg, ports, res, up>>

(* The owner of a user message queue removes it: nobody tells the service. *)
PortVanishes(p) == /\ p \in ports
                   /\ ports' = ports \ {p}
                   /\ UNCHANGED <<reg, res, ans, up>>

(* The service ends, in order or not, and forgets every registration. *)
Stop == /\ up
        /\ up' = FALSE
        /\ reg' = Empty
        /\ UNCHANGED <<ports, res, ans>>

Next == \/ \E c \in Callers :
             /\ Pending(c)
             /\ \E n \in Names : \/ \E p \in PortIds : Add(c, n, p)
                                \/ Lookup(c, n)
                                \/ Remove(c, n)
        \/ \E c \in Callers : Answer(c)
        \/ \E p \in PortIds : PortVanishes(p)
        \/ Stop

Spec == Init /\ [][Next]_vars
=============================================================================
