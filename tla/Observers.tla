------------------------------- MODULE Observers -------------------------------
(***************************************************************************)
(* Observers and the notifiers they register with (fztooltempl/utils.hpp): *)
(* ChangeNotifier, an Observable that stores a value, Observer, and        *)
(* SmartObserver, which remembers its notifiers.  update() is code of the  *)
(* program that uses them: while it runs, it may call any of the           *)
(* operations again.  A frame of the stack is one running update().        *)
(***************************************************************************)
EXTENDS Integers, Sequences, FiniteSetsExt

CONSTANTS Observers,     \* a std::set of pointers: in the order of addresses
          Smart,         \* those which are SmartObservers
          Notifiers,
          Values,
          NoValue,       \* of a notifier that is not initialized
          MaxDepth       \* bound: nested update() calls; the innermost calls nothing

ASSUME ObserversAssumption ==
  /\ Observers \subseteq Nat /\ Smart \subseteq Observers
  /\ Observers \cap Notifiers = {}
ASSUME ValuesAssumption == NoValue \notin Values

VARIABLES alive,       \* the objects that have not been destroyed
          observers,   \* per notifier: its observers
          notifiers,   \* per observer: its notifiers, of SmartObservers only
          value, changed,
          stack,
          undefined,   \* a member of a destroyed object has been called
          told,        \* history: what a notifier has told an observer of its own last
          announced,   \* history: the value was set by setValue()
          overtaken,   \* history: a value was set in the middle of the round for the one before
          parted       \* history: notifiers and SmartObservers that a call on one side has made disagree

vars == <<alive, observers, notifiers, value, changed, stack, undefined, told, announced, overtaken, parted>>

Frames == [kind : {"round", "add", "addTo"}, notifier : Notifiers, at : Observers, value : Values]

Init == /\ alive = Observers \cup Notifiers
        /\ observers = [n \in Notifiers |-> {}]
        /\ notifiers = [o \in Observers |-> {}]
        /\ value \in [Notifiers -> Values \cup {NoValue}]
        /\ changed = [n \in Notifiers |-> FALSE]
        /\ stack = <<>>
        /\ undefined = FALSE
        /\ told = [o \in Observers |-> [n \in Notifiers |-> NoValue]]
        /\ announced = [n \in Notifiers |-> FALSE]
        /\ overtaken = {}
        /\ parted = {}

-----------------------------------------------------------------------------
Top == stack[Len(stack)]
Pop == SubSeq(stack, 1, Len(stack) - 1)
Running == {stack[i] : i \in 1..Len(stack)}

InRound(n) == \E f \in Running : f.kind = "round" /\ f.notifier = n

(* What keeps the iterators of a round valid, and what is left to the      *)
(* program: an observer is not taken off a notifier whose round is calling *)
(* it, and neither is destroyed; nor is a SmartObserver in the middle of   *)
(* its own addToNotifier().  Nothing is iterated while addObserver() makes *)
(* the first update(): there, all that may be done.                        *)
Calling(n, o) == \E f \in Running : f.kind = "round" /\ f.notifier = n /\ f.at = o
InUse(x) == \/ InRound(x)
            \/ \E f \in Running : f.kind # "add" /\ f.at = x

(* Those observers no longer are the notifiers' own. *)
Forget(S, N) == told' = [o \in Observers |-> [n \in Notifiers |->
                           IF o \in S /\ n \in N THEN NoValue ELSE told[o][n]]]

(* update() of the observer in f, whose frame comes on top. *)
Update(frames, f) ==
  /\ stack' = Append(frames, f)
  /\ told' = [told EXCEPT ![f.at][f.notifier] = f.value]
  /\ undefined' = (f.at \notin alive)

(* Variant: the flag is cleared before the observers are called. *)
Continue_ClearsFirst(frames, n, v, o, c) ==
  LET rest == {p \in observers[n] : p > o}
  IN  /\ changed' = [changed EXCEPT ![n] = FALSE]
      /\ IF rest = {}
         THEN stack' = frames /\ UNCHANGED <<told, undefined>>
         ELSE Update(frames, [kind |-> "round", notifier |-> n, at |-> Min(rest), value |-> v])

(* The loop of notifyObservers() at the first observer above o, or at its  *)
(* end; c is the flag as the loop finds it.                                *)
Continue(frames, n, v, o, c) ==
  LET rest == {p \in observers[n] : p > o}
  IN  /\ changed' = [changed EXCEPT ![n] = c /\ rest # {}]
      /\ IF rest = {}
         THEN stack' = frames /\ UNCHANGED <<told, undefined>>
         ELSE Update(frames, [kind |-> "round", notifier |-> n, at |-> Min(rest), value |-> v])

(* The running code goes on, and calls an operation. *)
Ready == ~undefined /\ Len(stack) < MaxDepth

SetValue(n, v) ==
  /\ n \in alive /\ Ready
  /\ value[n] # v
  /\ value' = [value EXCEPT ![n] = v]
  /\ announced' = [announced EXCEPT ![n] = TRUE]
  /\ overtaken' = IF InRound(n) THEN overtaken \cup {n} ELSE overtaken \ {n}
  /\ Continue(stack, n, v, -1, TRUE)
  /\ UNCHANGED <<alive, observers, notifiers, parted>>

(* notifyObservers(getValue()) *)
NotifyObservers(n) ==
  /\ n \in alive /\ Ready
  /\ value[n] # NoValue
  /\ changed[n]
  /\ Continue(stack, n, value[n], -1, TRUE)
  /\ UNCHANGED <<alive, observers, notifiers, value, announced, overtaken, parted>>

InitValue(n, v) ==
  /\ n \in alive /\ Ready
  /\ value' = [value EXCEPT ![n] = v]
  /\ announced' = [announced EXCEPT ![n] = FALSE]
  /\ UNCHANGED <<alive, observers, notifiers, changed, stack, undefined, told, overtaken, parted>>

SetChanged(n) ==
  /\ n \in alive /\ Ready
  /\ changed' = [changed EXCEPT ![n] = TRUE]
  /\ UNCHANGED <<alive, observers, notifiers, value, stack, undefined, told, announced, overtaken, parted>>

ClearChanged(n) ==
  /\ n \in alive /\ Ready
  /\ changed' = [changed EXCEPT ![n] = FALSE]
  /\ announced' = [announced EXCEPT ![n] = FALSE]
  /\ UNCHANGED <<alive, observers, notifiers, value, stack, undefined, told, overtaken, parted>>

-----------------------------------------------------------------------------
(* The pair was parted, or is no longer. *)
Part(n, o, isParted) == parted' = IF isParted THEN parted \cup {<<n, o>>} ELSE parted \ {<<n, o>>}

(* The last of addToNotifier(), whatever has become of the notifier's side *)
(* since it was given the observer.                                        *)
Remember(n, o, there) == /\ notifiers' = [notifiers EXCEPT ![o] = @ \cup {n}]
                         /\ Part(n, o, ~there)

(* ChangeNotifier::addObserver(); addToNotifier() goes on when it is back. *)
Add(n, o, kind) ==
  /\ {n, o} \subseteq alive /\ Ready
  /\ observers' = [observers EXCEPT ![n] = @ \cup {o}]
  /\ IF value[n] # NoValue
     THEN /\ Update(stack, [kind |-> kind, notifier |-> n, at |-> o, value |-> value[n]])
          /\ UNCHANGED <<notifiers, parted>>
     ELSE /\ IF kind = "addTo" THEN Remember(n, o, TRUE) ELSE UNCHANGED <<notifiers, parted>>
          /\ UNCHANGED <<stack, told, undefined>>
  /\ UNCHANGED <<alive, value, changed, announced, overtaken>>

(* The program registers a SmartObserver by addToNotifier() only. *)
AddObserver(n, o) == o \notin Smart /\ Add(n, o, "add")
AddToNotifier(n, o) == o \in Smart /\ Add(n, o, "addTo")

(* Variant: the SmartObserver forgets only. *)
RemoveFromNotifier_ForgetsOnly(n, o) ==
  /\ o \in Smart /\ {n, o} \subseteq alive /\ Ready /\ ~Calling(n, o)
  /\ notifiers' = [notifiers EXCEPT ![o] = @ \ {n}]
  /\ parted' = parted \ {<<n, o>>}
  /\ UNCHANGED <<alive, observers, value, changed, stack, undefined, announced, overtaken>>
  /\ Forget({o}, {n})

RemoveFromNotifier(n, o) ==
  /\ o \in Smart /\ {n, o} \subseteq alive /\ Ready /\ ~Calling(n, o)
  /\ notifiers' = [notifiers EXCEPT ![o] = @ \ {n}]
  /\ parted' = parted \ {<<n, o>>}
  /\ observers' = [observers EXCEPT ![n] = @ \ {o}]
  /\ UNCHANGED <<alive, value, changed, stack, undefined, announced, overtaken>>
  /\ Forget({o}, {n})

RemoveObserver(n, o) ==
  /\ {n, o} \subseteq alive /\ Ready /\ ~Calling(n, o)
  /\ observers' = [observers EXCEPT ![n] = @ \ {o}]
  /\ Part(n, o, n \in notifiers[o])
  /\ UNCHANGED <<alive, notifiers, value, changed, stack, undefined, announced, overtaken>>
  /\ Forget({o}, {n})

RemoveObservers(n) ==
  /\ n \in alive /\ Ready
  /\ \A o \in Observers : ~Calling(n, o)
  /\ observers' = [observers EXCEPT ![n] = {}]
  /\ parted' = {p \in parted : p[1] # n} \cup ({n} \X {o \in Smart \cap alive : n \in notifiers[o]})
  /\ UNCHANGED <<alive, notifiers, value, changed, stack, undefined, announced, overtaken>>
  /\ Forget(Observers, {n})

(* update() returns. *)
Return ==
  /\ stack # <<>> /\ ~undefined
  /\ IF Top.kind = "round"
     THEN Continue(Pop, Top.notifier, Top.value, Top.at, changed[Top.notifier]) /\ UNCHANGED <<notifiers, parted>>
     ELSE /\ IF Top.kind = "addTo"
             THEN Remember(Top.notifier, Top.at, Top.notifier \in alive /\ Top.at \in observers[Top.notifier])
             ELSE UNCHANGED <<notifiers, parted>>
          /\ stack' = Pop
          /\ UNCHANGED <<told, undefined, changed>>
  /\ UNCHANGED <<alive, observers, value, announced, overtaken>>

(* update() throws: the loop of notifyObservers() and the rest of          *)
(* addToNotifier() are left out.                                           *)
Throw ==
  /\ stack # <<>> /\ ~undefined
  /\ parted' = IF /\ Top.kind = "addTo"
                  /\ Top.notifier \in alive
                  /\ Top.at \in observers[Top.notifier]
                  /\ Top.notifier \notin notifiers[Top.at]
               THEN parted \cup {<<Top.notifier, Top.at>>} ELSE parted
  /\ stack' = Pop
  /\ UNCHANGED <<alive, observers, notifiers, value, changed, undefined, told, announced, overtaken>>

-----------------------------------------------------------------------------
(* ~SmartObserver() calls every notifier it remembers; any other observer  *)
(* has been removed before, by the program.                                *)
DestroyObserver(o) ==
  /\ o \in alive /\ Ready /\ ~InUse(o)
  /\ o \notin Smart => \A n \in Notifiers \cap alive : o \notin observers[n]
  /\ observers' = [n \in Notifiers |-> IF n \in notifiers[o] THEN observers[n] \ {o} ELSE observers[n]]
  /\ parted' = parted \ ((notifiers[o] \cap alive) \X {o})
  /\ undefined' = ~(notifiers[o] \subseteq alive)
  /\ alive' = alive \ {o}
  /\ notifiers' = [notifiers EXCEPT ![o] = {}]
  /\ UNCHANGED <<value, changed, stack, announced, overtaken>>
  /\ Forget({o}, Notifiers)

(* What the members of a destroyed notifier were is not to be seen. *)
Vanish(n) == /\ observers' = [observers EXCEPT ![n] = {}]
             /\ value' = [value EXCEPT ![n] = NoValue]
             /\ changed' = [changed EXCEPT ![n] = FALSE]
             /\ announced' = [announced EXCEPT ![n] = FALSE]
             /\ overtaken' = overtaken \ {n}
             /\ Forget(Observers, {n})

(* Variant: ~Observable() tells nobody. *)
DestroyNotifier_Silent(n) ==
  /\ n \in alive /\ Ready /\ ~InUse(n)
  /\ alive' = alive \ {n}
  /\ Vanish(n)
  /\ UNCHANGED <<notifiers, undefined, stack, parted>>

(* ~Observable() calls observableDeleted() of every observer. *)
DestroyNotifier(n) ==
  /\ n \in alive /\ Ready /\ ~InUse(n)
  /\ notifiers' = [o \in Observers |-> IF o \in observers[n] THEN notifiers[o] \ {n} ELSE notifiers[o]]
  /\ parted' = parted \ ({n} \X (observers[n] \cap alive))
  /\ undefined' = ~(observers[n] \subseteq alive)
  /\ alive' = alive \ {n}
  /\ Vanish(n)
  /\ UNCHANGED stack

Next ==
  \/ \E n \in Notifiers :
       \/ \E v \in Values : SetValue(n, v) \/ InitValue(n, v)
       \/ NotifyObservers(n) \/ SetChanged(n) \/ ClearChanged(n)
       \/ \E o \in Observers : \/ AddObserver(n, o) \/ AddToNotifier(n, o)
                               \/ RemoveObserver(n, o) \/ RemoveFromNotifier(n, o)
       \/ RemoveObservers(n) \/ DestroyNotifier(n)
  \/ \E o \in Observers : DestroyObserver(o)
  \/ Return
  \/ Throw

Spec == Init /\ [][Next]_vars
-----------------------------------------------------------------------------
(* A SmartObserver and a notifier know each other, or neither the other,   *)
(* but while addObserver() has not returned to addToNotifier(), and but    *)
(* for pairs parted by a call that tells one of them only: removeObserver() *)
(* and removeObservers() of the notifier; an update() that threw out of    *)
(* addToNotifier(), the notifier's side being done; one that removed the   *)
(* observer there, or destroyed the notifier, before addToNotifier() did   *)
(* the observer's side.                                                    *)
BothSidesAgree ==
  \A n \in Notifiers \cap alive, o \in Smart \cap alive :
    \/ o \in observers[n] <=> n \in notifiers[o]
    \/ o \in observers[n] /\ \E f \in Running : f.kind = "addTo" /\ f.notifier = n /\ f.at = o
    \/ <<n, o>> \in parted

(* No notifier calls an observer that has been destroyed, nor an observer  *)
(* a notifier, but for the pairs parted as above.  utils.hpp:356 "A        *)
(* SmartObserver automatically removes itself on destruction from all      *)
(* notifiers"                                                              *)
NobodyIsCalledAfterItsEnd ==
  undefined => \E p \in parted : ~({p[1], p[2]} \subseteq alive)

(* hasChanged() is false only if every observer has last been told the     *)
(* value that is stored; also in the middle of a round, after update() has *)
(* thrown, and whatever the observers do to other notifiers.  Only when an *)
(* update() sets the value it is being told, the outer round goes on with  *)
(* the old one.                                                            *)
ToldWhatIsStored ==
  \A n \in (Notifiers \cap alive) \ overtaken :
    announced[n] /\ ~changed[n] => \A o \in observers[n] \cap alive : told[o][n] = value[n]
=============================================================================
