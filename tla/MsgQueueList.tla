---------------------------- MODULE MsgQueueList ----------------------------
(***************************************************************************)
(* The list of registered message queues (msgqrd/src/msgqueuelist.cpp): a  *)
(* std::list of entries (name, id) that the daemon process alone reads and *)
(* changes.  A list is a value here, a sequence of entries; the daemon     *)
(* (module MsgQRD) holds one in its state.  Names are naturals, ordered as *)
(* the C++ strings are by operator<.                                       *)
(***************************************************************************)
EXTENDS Integers, Sequences, FiniteSets, SequencesExt

(* What find() returns for a name that is not in the list. *)
NotFound == -1

Entry(name, id) == [name |-> name, id |-> id]

(* The positions std::find or the loop of erase() may stop at. *)
Hits(list, name) == {i \in DOMAIN list : list[i].name = name}

(* The first entry with that name decides. *)
Find(list, name) ==
  IF Hits(list, name) = {} THEN NotFound ELSE list[Min(Hits(list, name))].id

(* Where the loop of insert() stops: the first entry whose name is not     *)
(* smaller, or the end.                                                    *)
InsertPosition(list, name) ==
  Min({i \in 1..(Len(list) + 1) : i <= Len(list) => ~(list[i].name < name)})

Insert(list, name, id) == InsertAt(list, InsertPosition(list, name), Entry(name, id))

(* Only the first entry with that name goes. *)
Erase(list, name) ==
  IF Hits(list, name) = {} THEN list ELSE RemoveAt(list, Min(Hits(list, name)))

(* No two entries share a name, and they are in the order of their names.  *)
Sorted(list) == \A i, j \in DOMAIN list : i < j => list[i].name < list[j].name
=============================================================================
