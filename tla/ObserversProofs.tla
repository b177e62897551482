--------------------------- MODULE ObserversProofs ---------------------------
(***************************************************************************)
(* The safety of observers and notifiers (module Observers), for any       *)
(* numbers of them, any values and any depth of nested update() calls.     *)
(*                                                                         *)
(* None of the three properties is inductive alone.  What carries them is  *)
(* what the frames of running update() calls say (FramesValid, RoundsTell):*)
(* a round only stands at an observer of its notifier, and it has told all *)
(* observers up to there; and what is left of those that have ended        *)
(* (DeadAreParted).                                                        *)
(***************************************************************************)
EXTENDS Observers, TLAPS, SequenceTheorems, WellFoundedInduction

TypeOK ==
  /\ alive \subseteq Observers \cup Notifiers
  /\ observers \in [Notifiers -> SUBSET Observers]
  /\ notifiers \in [Observers -> SUBSET Notifiers]
  /\ value \in [Notifiers -> Values \cup {NoValue}]
  /\ changed \in [Notifiers -> BOOLEAN]
  /\ stack \in Seq(Frames)
  /\ undefined \in BOOLEAN
  /\ told \in [Observers -> [Notifiers -> Values \cup {NoValue}]]
  /\ announced \in [Notifiers -> BOOLEAN]
  /\ overtaken \subseteq Notifiers
  /\ parted \subseteq Notifiers \X Observers

(* A round calls an observer of its notifier, and as long as nothing       *)
(* undefined has happened both exist; and so does a SmartObserver that is  *)
(* in addToNotifier(), but not always the notifier, nor is it still there. *)
FramesValid ==
  \A f \in Running :
    /\ f.kind = "round" => /\ f.at \in observers[f.notifier]
                           /\ ~undefined => f.notifier \in alive /\ f.at \in alive
    /\ f.kind = "addTo" => /\ f.at \in Smart
                           /\ ~undefined => f.at \in alive

(* Only SmartObservers remember notifiers, and whoever is still known to   *)
(* the other side after its end has been parted from it.                   *)
DeadAreParted ==
  /\ \A o \in Observers \ Smart : notifiers[o] = {}
  /\ \A n \in Notifiers, o \in Observers :
       /\ n \in alive /\ o \notin alive /\ o \in observers[n] => <<n, o>> \in parted
       /\ n \notin alive /\ o \in alive /\ n \in notifiers[o] => <<n, o>> \in parted

(* The notifiers ToldWhatIsStored speaks of.  Their rounds tell the value  *)
(* that is stored, and have told it to every observer up to where they are.*)
InForce(n) == n \in alive \ overtaken /\ announced[n]

RoundsTell ==
  \A n \in Notifiers : InForce(n) =>
    /\ value[n] \in Values
    /\ \A f \in Running : f.kind = "round" /\ f.notifier = n =>
         /\ f.value = value[n]
         /\ \A o \in observers[n] \cap alive : o <= f.at => told[o][n] = value[n]

IInv ==
  /\ TypeOK
  /\ FramesValid
  /\ BothSidesAgree
  /\ DeadAreParted
  /\ NobodyIsCalledAfterItsEnd
  /\ RoundsTell
  /\ ToldWhatIsStored

-----------------------------------------------------------------------------
(* The stack as the set of its frames.                                     *)

FramesOf(s) == {s[i] : i \in 1..Len(s)}

LEMMA SmallestProperties ==
  ASSUME NEW S, S \subseteq Nat, S # {}
  PROVE  Min(S) \in S /\ \A y \in S : Min(S) =< y
<1>1. \E x \in S : \A y \in S : ~ (<<y, x>> \in OpToRel(<, Nat))
  BY NatLessThanWellFounded, WFMin
<1>2. PICK x \in S : \A y \in S : ~ (<<y, x>> \in OpToRel(<, Nat))
  BY <1>1
<1>3. ASSUME NEW y \in S PROVE x =< y
  <2>1. y < x => <<y, x>> \in OpToRel(<, Nat)
    BY Zenon DEF OpToRel
  <2>2. ~ (y < x)
    BY <1>2, <2>1
  <2> QED
    BY <2>2
<1> QED
  BY <1>3 DEF Min

LEMMA PushedFrames ==
  ASSUME NEW F, NEW s \in Seq(F), NEW f \in F
  PROVE  /\ Append(s, f) \in Seq(F)
         /\ FramesOf(Append(s, f)) = FramesOf(s) \cup {f}
<1>1. /\ Append(s, f) \in Seq(F)
      /\ Len(Append(s, f)) = Len(s) + 1
      /\ Len(s) \in Nat
      /\ \A i \in 1..Len(s) : Append(s, f)[i] = s[i]
      /\ Append(s, f)[Len(s) + 1] = f
  BY AppendProperties, LenProperties
<1> DEFINE t == Append(s, f)
<1> HIDE DEF t
<1>2. FramesOf(t) \subseteq FramesOf(s) \cup {f}
  <2>1. ASSUME NEW i \in 1..(Len(s) + 1)
        PROVE  t[i] \in FramesOf(s) \cup {f}
    <3>1. CASE i = Len(s) + 1
      BY <1>1, <3>1 DEF t
    <3>2. CASE i # Len(s) + 1
      <4>1. i \in 1..Len(s)
        BY <1>1, <3>2
      <4> QED
        BY <1>1, <4>1 DEF t, FramesOf
    <3> QED
      BY <3>1, <3>2
  <2> QED
    BY <1>1, <2>1 DEF t, FramesOf
<1>3. FramesOf(s) \subseteq FramesOf(t)
  <2>1. ASSUME NEW i \in 1..Len(s)
        PROVE  s[i] \in FramesOf(t)
    <3>1. i \in 1..Len(t) /\ t[i] = s[i]
      BY <1>1 DEF t
    <3> QED
      BY <3>1 DEF FramesOf
  <2> QED
    BY <2>1 DEF FramesOf
<1>4. f \in FramesOf(t)
  <2>1. Len(s) + 1 \in 1..Len(t) /\ t[Len(s) + 1] = f
    BY <1>1 DEF t
  <2> QED
    BY <2>1 DEF FramesOf
<1> QED
  BY <1>1, <1>2, <1>3, <1>4 DEF t

(* The frame that ends comes off, and with it nothing else. *)
LEMMA PoppedFrames ==
  ASSUME TypeOK, stack # <<>>
  PROVE  /\ Top \in Frames
         /\ Pop \in Seq(Frames)
         /\ FramesOf(Pop) \cup {Top} = Running
<1>1. stack \in Seq(Frames) /\ Len(stack) \in Nat \ {0}
  BY LenProperties, EmptySeq DEF TypeOK
<1>2. /\ Pop \in Seq(Frames)
      /\ Len(Pop) = Len(stack) - 1
      /\ \A i \in 1..(Len(stack) - 1) : Pop[i] = stack[i]
  <2> DEFINE k == Len(stack) - 1
             front == SubSeq(stack, 1, k)
  <2>1. k \in Nat /\ \A i \in 1..k : stack[i] \in Frames
    BY <1>1, ElementOfSeq
  <2> HIDE DEF k
  <2>2. /\ front \in Seq(Frames)
        /\ Len(front) = IF 1 <= k THEN k - 1 + 1 ELSE 0
        /\ \A i \in 1..(k - 1 + 1) : front[i] = stack[1 + i - 1]
    BY ONLY <2>1, SubSeqProperties, Z3
  <2> HIDE DEF front
  <2>3. /\ Len(front) = k
        /\ \A i \in 1..k : front[i] = stack[i]
    BY ONLY <2>1, <2>2
  <2> QED
    BY <2>2, <2>3 DEF Pop, front, k
<1>3. Top \in Frames /\ Top = stack[Len(stack)]
  BY <1>1, ElementOfSeq DEF Top
<1>4. FramesOf(Pop) \subseteq Running
  <2>1. ASSUME NEW i \in 1..(Len(stack) - 1)
        PROVE  Pop[i] \in Running
    <3>1. i \in 1..Len(stack) /\ Pop[i] = stack[i]
      BY <1>1, <1>2
    <3> QED
      BY <3>1 DEF Running
  <2> QED
    BY <1>2, <2>1 DEF FramesOf
<1>5. Running \subseteq FramesOf(Pop) \cup {Top}
  <2>1. ASSUME NEW i \in 1..Len(stack)
        PROVE  stack[i] \in FramesOf(Pop) \cup {Top}
    <3>1. CASE i = Len(stack)
      BY <1>3, <3>1
    <3>2. CASE i # Len(stack)
      <4>1. i \in 1..Len(Pop) /\ Pop[i] = stack[i]
        BY <1>1, <1>2, <3>2
      <4> QED
        BY <4>1 DEF FramesOf
    <3> QED
      BY <3>1, <3>2
  <2> QED
    BY <2>1 DEF Running
<1>6. Top \in Running
  BY <1>1, <1>3 DEF Running
<1> QED
  BY <1>2, <1>3, <1>4, <1>5, <1>6

LEMMA RunningTypes == ASSUME TypeOK PROVE Running \subseteq Frames /\ Running = FramesOf(stack)
BY ElementOfSeq DEF TypeOK, Running, FramesOf
-----------------------------------------------------------------------------
(* What the operations do to the stack seen as a set.                      *)

Frame(kind, n, o, v) == [kind |-> kind, notifier |-> n, at |-> o, value |-> v]

(* An observer is told a value and runs in a frame of its own. *)
Tells(frames, f) ==
  /\ Running' = frames \cup {f}
  /\ \A o \in Observers, n \in Notifiers :
       told'[o][n] = IF o = f.at /\ n = f.notifier THEN f.value ELSE told[o][n]
  /\ undefined' = (f.at \notin alive)

(* A round for n goes on behind the observer o, or it is over. *)
RoundGoes(frames, n, v, o, c) ==
  \/ /\ \A p \in observers[n] : p <= o
     /\ changed' = [changed EXCEPT ![n] = FALSE]
     /\ Running' = frames
     /\ UNCHANGED <<told, undefined>>
  \/ \E p \in observers[n] :
       /\ o < p
       /\ \A q \in observers[n] : q <= o \/ p <= q
       /\ changed' = [changed EXCEPT ![n] = c]
       /\ Tells(frames, Frame("round", n, p, v))

LEMMA UpdateTells ==
  ASSUME TypeOK, NEW s \in Seq(Frames), NEW f \in Frames, Update(s, f)
  PROVE  /\ Tells(FramesOf(s), f)
         /\ stack' \in Seq(Frames)
         /\ undefined' \in BOOLEAN
         /\ told' \in [Observers -> [Notifiers -> Values \cup {NoValue}]]
<1>1. stack' \in Seq(Frames) /\ Running' = FramesOf(s) \cup {f}
  <2>1. stack' = Append(s, f)
    BY DEF Update
  <2>2. stack' \in Seq(Frames) /\ FramesOf(stack') = FramesOf(s) \cup {f}
    BY <2>1, PushedFrames
  <2> QED
    BY <2>2 DEF Running, FramesOf
<1>2. f.at \in Observers /\ f.notifier \in Notifiers /\ f.value \in Values
  BY DEF Frames
<1>3. told' = [told EXCEPT ![f.at][f.notifier] = f.value]
  BY DEF Update
<1>4. \A o \in Observers, n \in Notifiers :
        told'[o][n] = IF o = f.at /\ n = f.notifier THEN f.value ELSE told[o][n]
  BY <1>2, <1>3 DEF TypeOK
<1>5. told' \in [Observers -> [Notifiers -> Values \cup {NoValue}]]
  BY <1>2, <1>3 DEF TypeOK
<1> QED
  BY <1>1, <1>4, <1>5 DEF Tells, Update

LEMMA ContinueGoes ==
  ASSUME TypeOK, NEW s \in Seq(Frames), NEW n \in Notifiers, NEW v \in Values,
         NEW o \in Observers \cup {-1}, NEW c \in BOOLEAN, Continue(s, n, v, o, c)
  PROVE  /\ RoundGoes(FramesOf(s), n, v, o, c)
         /\ stack' \in Seq(Frames)
         /\ undefined' \in BOOLEAN
         /\ told' \in [Observers -> [Notifiers -> Values \cup {NoValue}]]
         /\ changed' \in [Notifiers -> BOOLEAN]
<1> DEFINE rest == {p \in observers[n] : p > o}
<1>1. observers[n] \subseteq Nat /\ observers[n] \subseteq Observers /\ o \in Int
  <2>1. observers[n] \in SUBSET Observers
    BY DEF TypeOK
  <2>2. Observers \subseteq Nat
    BY ObserversAssumption
  <2>3. o \in Int
    BY <2>2
  <2> QED
    BY <2>1, <2>2, <2>3
<1>2. changed' = [changed EXCEPT ![n] = c /\ rest # {}]
  BY DEF Continue
<1>3. changed' \in [Notifiers -> BOOLEAN]
  BY <1>2 DEF TypeOK
<1>4. CASE rest = {}
  <2>1. stack' = s /\ UNCHANGED <<told, undefined>>
    BY <1>4 DEF Continue
  <2>2. \A p \in observers[n] : p <= o
    BY <1>1, <1>4
  <2>3. changed' = [changed EXCEPT ![n] = FALSE]
    BY <1>2, <1>4
  <2>4. Running' = FramesOf(s)
    BY <2>1 DEF Running, FramesOf
  <2> QED
    BY <1>3, <2>1, <2>2, <2>3, <2>4 DEF RoundGoes, TypeOK
<1>5. CASE rest # {}
  <2> DEFINE p == Min(rest)
             f == Frame("round", n, p, v)
  <2>1. p \in rest /\ \A q \in rest : p <= q
    BY <1>1, <1>5, SmallestProperties
  <2>2. Update(s, f)
    BY <1>5 DEF Continue, Frame
  <2>3. changed' = [changed EXCEPT ![n] = c]
    BY <1>2, <1>5
  <2> HIDE DEF p
  <2>4. p \in observers[n] /\ p \in Observers /\ o < p
    BY <1>1, <2>1
  <2>5. \A q \in observers[n] : q <= o \/ p <= q
    BY <1>1, <2>1
  <2>6. f \in Frames
    BY <2>4 DEF Frame, Frames
  <2> HIDE DEF f
  <2>7. /\ Tells(FramesOf(s), f)
        /\ stack' \in Seq(Frames)
        /\ undefined' \in BOOLEAN
        /\ told' \in [Observers -> [Notifiers -> Values \cup {NoValue}]]
    BY <2>2, <2>6, UpdateTells
  <2>8. RoundGoes(FramesOf(s), n, v, o, c)
    BY <2>3, <2>4, <2>5, <2>7 DEF RoundGoes, f
  <2> QED
    BY <1>3, <2>7, <2>8
<1> QED
  BY <1>4, <1>5
LEMMA RoundStarts ==
  ASSUME TypeOK, NEW n \in Notifiers, NEW v \in Values, Continue(stack, n, v, -1, TRUE)
  PROVE  /\ RoundGoes(Running, n, v, -1, TRUE)
         /\ stack' \in Seq(Frames)
         /\ undefined' \in BOOLEAN
         /\ told' \in [Observers -> [Notifiers -> Values \cup {NoValue}]]
         /\ changed' \in [Notifiers -> BOOLEAN]
<1>1. stack \in Seq(Frames) /\ Running = FramesOf(stack)
  BY DEF TypeOK, Running, FramesOf
<1> QED
  BY <1>1, ContinueGoes

(* An update() that returns: the round it belongs to goes on, or           *)
(* addToNotifier() does the rest of its work.                              *)
Returned(frames, f) ==
  /\ Running = frames \cup {f}
  /\ \/ /\ f.kind = "round"
        /\ RoundGoes(frames, f.notifier, f.value, f.at, changed[f.notifier])
        /\ UNCHANGED <<notifiers, parted>>
     \/ /\ f.kind = "addTo"
        /\ Running' = frames
        /\ Remember(f.notifier, f.at, f.notifier \in alive /\ f.at \in observers[f.notifier])
        /\ UNCHANGED <<told, undefined, changed>>
     \/ /\ f.kind = "add"
        /\ Running' = frames
        /\ UNCHANGED <<told, undefined, changed, notifiers, parted>>

LEMMA ReturnGoes ==
  ASSUME TypeOK, Return
  PROVE  /\ \E frames \in SUBSET Frames, f \in Frames : Returned(frames, f)
         /\ stack' \in Seq(Frames)
         /\ undefined' \in BOOLEAN
         /\ told' \in [Observers -> [Notifiers -> Values \cup {NoValue}]]
         /\ changed' \in [Notifiers -> BOOLEAN]
<1> DEFINE f == Top
           frames == FramesOf(Pop)
<1>1. /\ f \in Frames
      /\ Pop \in Seq(Frames)
      /\ frames \cup {f} = Running
  BY PoppedFrames DEF Return
<1>2. /\ f.notifier \in Notifiers /\ f.value \in Values /\ f.at \in Observers
      /\ f.kind \in {"round", "add", "addTo"}
  BY <1>1 DEF Frames
<1>3. frames \in SUBSET Frames
  BY <1>1, RunningTypes
<1>4. CASE f.kind = "round"
  <2>1. /\ Continue(Pop, f.notifier, f.value, f.at, changed[f.notifier])
        /\ UNCHANGED <<notifiers, parted>>
    BY <1>4 DEF Return
  <2>2. changed[f.notifier] \in BOOLEAN
    BY <1>2 DEF TypeOK
  <2> HIDE DEF f
  <2>3. /\ RoundGoes(frames, f.notifier, f.value, f.at, changed[f.notifier])
        /\ stack' \in Seq(Frames)
        /\ undefined' \in BOOLEAN
        /\ told' \in [Observers -> [Notifiers -> Values \cup {NoValue}]]
        /\ changed' \in [Notifiers -> BOOLEAN]
    BY <1>1, <1>2, <2>1, <2>2, ContinueGoes
  <2>4. Returned(frames, f)
    BY <1>1, <1>4, <2>1, <2>3 DEF Returned
  <2> QED
    BY <1>1, <1>3, <2>3, <2>4
<1>5. CASE f.kind # "round"
  <2>1. /\ stack' = Pop
        /\ UNCHANGED <<told, undefined, changed>>
        /\ IF f.kind = "addTo"
           THEN Remember(f.notifier, f.at, f.notifier \in alive /\ f.at \in observers[f.notifier])
           ELSE UNCHANGED <<notifiers, parted>>
    BY <1>5 DEF Return
  <2>2. Running' = frames
    BY <2>1 DEF Running, FramesOf
  <2> HIDE DEF f, frames
  <2>3. Returned(frames, f)
    BY <1>1, <1>2, <1>5, <2>1, <2>2 DEF Returned
  <2> QED
    BY <1>1, <1>3, <2>1, <2>3 DEF TypeOK
<1> QED
  BY <1>4, <1>5

(* The notifier's side of addToNotifier() is done, and there is not yet    *)
(* the observer's. *)
HalfJoined(f) == /\ f.kind = "addTo"
                 /\ f.notifier \in alive
                 /\ f.at \in observers[f.notifier]
                 /\ f.notifier \notin notifiers[f.at]

LEMMA ThrowGoes ==
  ASSUME TypeOK, Throw
  PROVE  /\ stack' \in Seq(Frames)
         /\ \E frames \in SUBSET Frames, f \in Frames :
              /\ Running = frames \cup {f}
              /\ Running' = frames
              /\ parted' = IF HalfJoined(f) THEN parted \cup {<<f.notifier, f.at>>} ELSE parted
<1>1. /\ Top \in Frames
      /\ Pop \in Seq(Frames)
      /\ FramesOf(Pop) \cup {Top} = Running
  BY PoppedFrames DEF Throw
<1>2. stack' = Pop /\ Running' = FramesOf(Pop)
  BY DEF Throw, Running, FramesOf
<1>3. FramesOf(Pop) \in SUBSET Frames
  BY <1>1, RunningTypes
<1>4. parted' = IF HalfJoined(Top) THEN parted \cup {<<Top.notifier, Top.at>>} ELSE parted
  BY DEF Throw, HalfJoined
<1> QED
  BY <1>1, <1>2, <1>3, <1>4

(* Both sides of addToNotifier() are done at once. *)
Joins(n, o) == Remember(n, o, TRUE)

(* An observer that is added runs at once if there is something to tell.   *)
LEMMA AddGoes ==
  ASSUME TypeOK, NEW n \in Notifiers, NEW o \in Observers, NEW kind \in {"add", "addTo"},
         Add(n, o, kind)
  PROVE  /\ stack' \in Seq(Frames)
         /\ undefined' \in BOOLEAN
         /\ told' \in [Observers -> [Notifiers -> Values \cup {NoValue}]]
         /\ \/ /\ value[n] \in Values
               /\ Tells(Running, Frame(kind, n, o, value[n]))
               /\ UNCHANGED <<notifiers, parted>>
            \/ /\ value[n] = NoValue
               /\ Running' = Running
               /\ UNCHANGED <<told, undefined>>
               /\ IF kind = "addTo" THEN Joins(n, o) ELSE UNCHANGED <<notifiers, parted>>
<1>1. stack \in Seq(Frames) /\ Running = FramesOf(stack)
  BY DEF TypeOK, Running, FramesOf
<1>2. CASE value[n] # NoValue
  <2> DEFINE f == Frame(kind, n, o, value[n])
  <2>1. value[n] \in Values
    BY <1>2 DEF TypeOK
  <2>2. Update(stack, f) /\ UNCHANGED <<notifiers, parted>>
    BY <1>2 DEF Add, Frame
  <2>3. f \in Frames
    BY <2>1 DEF Frame, Frames
  <2> HIDE DEF f
  <2>4. /\ Tells(Running, f)
        /\ stack' \in Seq(Frames)
        /\ undefined' \in BOOLEAN
        /\ told' \in [Observers -> [Notifiers -> Values \cup {NoValue}]]
    BY <1>1, <2>2, <2>3, UpdateTells
  <2> QED
    BY <2>1, <2>2, <2>4 DEF f
<1>3. CASE value[n] = NoValue
  <2>1. /\ UNCHANGED <<stack, told, undefined>>
        /\ IF kind = "addTo" THEN Joins(n, o) ELSE UNCHANGED <<notifiers, parted>>
    BY <1>3 DEF Add, Joins
  <2>2. Running' = Running
    BY <2>1 DEF Running
  <2> QED
    BY <1>3, <2>1, <2>2 DEF TypeOK
<1> QED
  BY <1>2, <1>3
-----------------------------------------------------------------------------
(* Types.                                                                  *)

(* The operations, one by one; only the undisturbed program goes on. *)
LEMMA Steps ==
  ASSUME Next
  PROVE  /\ ~undefined
         /\ \/ \E n \in Notifiers, v \in Values : SetValue(n, v)
            \/ \E n \in Notifiers : NotifyObservers(n)
            \/ \E n \in Notifiers, v \in Values : InitValue(n, v)
            \/ \E n \in Notifiers : SetChanged(n) \/ ClearChanged(n)
            \/ \E n \in Notifiers, o \in Observers : AddObserver(n, o) \/ AddToNotifier(n, o)
            \/ \E n \in Notifiers, o \in Observers : RemoveObserver(n, o)
            \/ \E n \in Notifiers, o \in Observers : RemoveFromNotifier(n, o)
            \/ \E n \in Notifiers : RemoveObservers(n)
            \/ \E n \in Notifiers : DestroyNotifier(n)
            \/ \E o \in Observers : DestroyObserver(o)
            \/ Return
            \/ Throw
<1>2. CASE \E n \in Notifiers, v \in Values : SetValue(n, v) \/ InitValue(n, v)
  <2>1. ~undefined
    BY <1>2 DEF SetValue, InitValue, Ready
  <2> QED
    BY <1>2, <2>1
<1>3. CASE \E n \in Notifiers, o \in Observers : \/ AddObserver(n, o) \/ AddToNotifier(n, o)
                                                \/ RemoveObserver(n, o) \/ RemoveFromNotifier(n, o)
  <2>1. ~undefined
    BY <1>3 DEF AddObserver, AddToNotifier, Add, RemoveObserver, RemoveFromNotifier, Ready
  <2> QED
    BY <1>3, <2>1
<1>4. CASE \E n \in Notifiers : \/ NotifyObservers(n) \/ SetChanged(n) \/ ClearChanged(n)
                               \/ RemoveObservers(n) \/ DestroyNotifier(n)
  <2>1. ~undefined
    BY <1>4 DEF NotifyObservers, SetChanged, ClearChanged, RemoveObservers, DestroyNotifier, Ready
  <2> QED
    BY <1>4, <2>1
<1>5. CASE (\E o \in Observers : DestroyObserver(o)) \/ Return \/ Throw
  <2>1. ~undefined
    BY <1>5 DEF DestroyObserver, Return, Throw, Ready
  <2> QED
    BY <1>5, <2>1
<1> QED
  BY <1>2, <1>3, <1>4, <1>5 DEF Next

LEMMA ForgetType ==
  ASSUME TypeOK, NEW S, NEW N, Forget(S, N)
  PROVE  told' \in [Observers -> [Notifiers -> Values \cup {NoValue}]]
BY DEF Forget, TypeOK

LEMMA TypeStep ==
  ASSUME TypeOK, FramesValid, [Next]_vars
  PROVE  TypeOK'
<1>1. ASSUME NEW n \in Notifiers, NEW v \in Values, SetValue(n, v)
      PROVE  TypeOK'
  <2>1. /\ stack' \in Seq(Frames)
        /\ undefined' \in BOOLEAN
        /\ told' \in [Observers -> [Notifiers -> Values \cup {NoValue}]]
        /\ changed' \in [Notifiers -> BOOLEAN]
    BY <1>1, RoundStarts DEF SetValue
  <2>2. /\ value' \in [Notifiers -> Values \cup {NoValue}]
        /\ announced' \in [Notifiers -> BOOLEAN]
        /\ overtaken' \subseteq Notifiers
    BY <1>1 DEF SetValue, TypeOK
  <2> QED
    BY <1>1, <2>1, <2>2 DEF SetValue, TypeOK
<1>2. ASSUME NEW n \in Notifiers, NotifyObservers(n)
      PROVE  TypeOK'
  <2>1. value[n] \in Values
    BY <1>2 DEF NotifyObservers, TypeOK
  <2>2. /\ stack' \in Seq(Frames)
        /\ undefined' \in BOOLEAN
        /\ told' \in [Observers -> [Notifiers -> Values \cup {NoValue}]]
        /\ changed' \in [Notifiers -> BOOLEAN]
    BY <1>2, <2>1, RoundStarts DEF NotifyObservers
  <2> QED
    BY <1>2, <2>2 DEF NotifyObservers, TypeOK
<1>3. ASSUME NEW n \in Notifiers, NEW v \in Values, InitValue(n, v)
      PROVE  TypeOK'
  BY <1>3 DEF InitValue, TypeOK
<1>4. ASSUME NEW n \in Notifiers, SetChanged(n) \/ ClearChanged(n)
      PROVE  TypeOK'
  BY <1>4 DEF SetChanged, ClearChanged, TypeOK
<1>5. ASSUME NEW n \in Notifiers, NEW o \in Observers, AddObserver(n, o) \/ AddToNotifier(n, o)
      PROVE  TypeOK'
  <2>1. PICK kind \in {"add", "addTo"} : Add(n, o, kind)
    BY <1>5 DEF AddObserver, AddToNotifier
  <2>2. /\ stack' \in Seq(Frames)
        /\ undefined' \in BOOLEAN
        /\ told' \in [Observers -> [Notifiers -> Values \cup {NoValue}]]
        /\ UNCHANGED <<notifiers, parted>> \/ Joins(n, o)
    BY <2>1, AddGoes
  <2>3. /\ notifiers' \in [Observers -> SUBSET Notifiers]
        /\ parted' \subseteq Notifiers \X Observers
    BY <2>2 DEF Joins, Remember, Part, TypeOK
  <2>4. observers' \in [Notifiers -> SUBSET Observers]
    BY <2>1 DEF Add, TypeOK
  <2> QED
    BY <2>1, <2>2, <2>3, <2>4 DEF Add, TypeOK
<1>6. ASSUME NEW n \in Notifiers, NEW o \in Observers, RemoveObserver(n, o) \/ RemoveFromNotifier(n, o)
      PROVE  TypeOK'
  <2>1. told' \in [Observers -> [Notifiers -> Values \cup {NoValue}]]
    BY <1>6, ForgetType DEF RemoveObserver, RemoveFromNotifier
  <2>2. observers' = [observers EXCEPT ![n] = observers[n] \ {o}]
    BY <1>6 DEF RemoveObserver, RemoveFromNotifier
  <2>3. observers' \in [Notifiers -> SUBSET Observers]
    BY <2>2 DEF TypeOK
  <2>4. notifiers' \in [Observers -> SUBSET Notifiers]
    BY <1>6 DEF RemoveObserver, RemoveFromNotifier, TypeOK
  <2>5. parted' \subseteq Notifiers \X Observers
    BY <1>6 DEF RemoveObserver, RemoveFromNotifier, Part, TypeOK
  <2> QED
    BY <1>6, <2>1, <2>3, <2>4, <2>5 DEF RemoveObserver, RemoveFromNotifier, TypeOK
<1>7. ASSUME NEW n \in Notifiers, RemoveObservers(n)
      PROVE  TypeOK'
  <2>1. told' \in [Observers -> [Notifiers -> Values \cup {NoValue}]]
    BY <1>7, ForgetType DEF RemoveObservers
  <2>2. parted' \subseteq Notifiers \X Observers
    <3>1. {n} \X {o \in Smart \cap alive : n \in notifiers[o]} \subseteq Notifiers \X Observers
      BY ObserversAssumption
    <3> QED
      BY <1>7, <3>1 DEF RemoveObservers, TypeOK
  <2> QED
    BY <1>7, <2>1, <2>2 DEF RemoveObservers, TypeOK
<1>8. ASSUME NEW n \in Notifiers, DestroyNotifier(n)
      PROVE  TypeOK'
  <2>1. told' \in [Observers -> [Notifiers -> Values \cup {NoValue}]]
    BY <1>8, ForgetType DEF DestroyNotifier, Vanish
  <2>2. /\ notifiers' \in [Observers -> SUBSET Notifiers]
        /\ parted' \subseteq Notifiers \X Observers
        /\ alive' \subseteq Observers \cup Notifiers
        /\ undefined' \in BOOLEAN
    BY <1>8 DEF DestroyNotifier, TypeOK
  <2>3. /\ observers' \in [Notifiers -> SUBSET Observers]
        /\ value' \in [Notifiers -> Values \cup {NoValue}]
        /\ changed' \in [Notifiers -> BOOLEAN]
        /\ announced' \in [Notifiers -> BOOLEAN]
        /\ overtaken' \subseteq Notifiers
    BY <1>8 DEF DestroyNotifier, Vanish, TypeOK
  <2> QED
    BY <1>8, <2>1, <2>2, <2>3 DEF DestroyNotifier, TypeOK
<1>9. ASSUME NEW o \in Observers, DestroyObserver(o)
      PROVE  TypeOK'
  <2>1. told' \in [Observers -> [Notifiers -> Values \cup {NoValue}]]
    BY <1>9, ForgetType DEF DestroyObserver
  <2>2. /\ observers' \in [Notifiers -> SUBSET Observers]
        /\ notifiers' \in [Observers -> SUBSET Notifiers]
        /\ parted' \subseteq Notifiers \X Observers
        /\ alive' \subseteq Observers \cup Notifiers
        /\ undefined' \in BOOLEAN
    BY <1>9 DEF DestroyObserver, TypeOK
  <2> QED
    BY <1>9, <2>1, <2>2 DEF DestroyObserver, TypeOK
<1>10. CASE Return
  <2>1. /\ \E frames \in SUBSET Frames, f \in Frames : Returned(frames, f)
        /\ stack' \in Seq(Frames)
        /\ undefined' \in BOOLEAN
        /\ told' \in [Observers -> [Notifiers -> Values \cup {NoValue}]]
        /\ changed' \in [Notifiers -> BOOLEAN]
    BY <1>10, ReturnGoes
  <2>2. PICK frames \in SUBSET Frames, f \in Frames : Returned(frames, f)
    BY <2>1
  <2>3. f.notifier \in Notifiers /\ f.at \in Observers
    BY DEF Frames
  <2>4. /\ notifiers' \in [Observers -> SUBSET Notifiers]
        /\ parted' \subseteq Notifiers \X Observers
    BY <2>2, <2>3 DEF Returned, Remember, Part, TypeOK
  <2> QED
    BY <1>10, <2>1, <2>4 DEF Return, TypeOK
<1>11. CASE Throw
  <2>1. stack' \in Seq(Frames)
    BY <1>11, ThrowGoes
  <2>2. PICK f \in Frames : parted' = parted \/ parted' = parted \cup {<<f.notifier, f.at>>}
    BY <1>11, ThrowGoes
  <2>3. f.notifier \in Notifiers /\ f.at \in Observers
    BY <2>2 DEF Frames
  <2>4. parted' \subseteq Notifiers \X Observers
    BY <2>2, <2>3 DEF TypeOK
  <2> QED
    BY <1>11, <2>1, <2>4 DEF Throw, TypeOK
<1>12. CASE UNCHANGED vars
  BY <1>12 DEF vars, TypeOK
<1> QED
  BY <1>1, <1>2, <1>3, <1>4, <1>5, <1>6, <1>7, <1>8, <1>9, <1>10, <1>11, <1>12, Steps
-----------------------------------------------------------------------------
(* The frames.                                                             *)

LEMMA FrameTypes ==
  ASSUME TypeOK, NEW f \in Running
  PROVE  /\ f.notifier \in Notifiers /\ f.at \in Observers /\ f.value \in Values
         /\ f.kind \in {"round", "add", "addTo"}
<1>1. f \in Frames
  BY RunningTypes
<1> QED
  BY <1>1 DEF Frames

(* Frames stay valid while nobody is taken off or ends. *)
LEMMA FewerFrames ==
  ASSUME TypeOK, FramesValid, ~undefined, Running' \subseteq Running, UNCHANGED alive,
         \A n \in Notifiers : observers[n] \subseteq observers'[n]
  PROVE  FramesValid'
BY FrameTypes DEF FramesValid

LEMMA OneMoreFrame ==
  ASSUME TypeOK, FramesValid, ~undefined, UNCHANGED alive,
         \A n \in Notifiers : observers[n] \subseteq observers'[n],
         NEW frames, frames \subseteq Running,
         NEW f, Tells(frames, f), f.notifier \in alive, f.at \in observers'[f.notifier],
         f.kind = "addTo" => f.at \in Smart
  PROVE  FramesValid'
<1>1. Running' = frames \cup {f} /\ (~undefined' => f.at \in alive)
  BY DEF Tells
<1>2. ASSUME NEW g \in frames
      PROVE  /\ g.kind = "round" => g.at \in observers'[g.notifier] /\ g.notifier \in alive /\ g.at \in alive
             /\ g.kind = "addTo" => g.at \in Smart /\ g.at \in alive
  BY FrameTypes DEF FramesValid
<1> QED
  BY <1>1, <1>2 DEF FramesValid

LEMMA RoundKeepsFrames ==
  ASSUME TypeOK, FramesValid, ~undefined, UNCHANGED <<alive, observers>>,
         NEW frames, frames \subseteq Running, NEW n \in Notifiers, n \in alive,
         NEW v, NEW o, NEW c, RoundGoes(frames, n, v, o, c)
  PROVE  FramesValid'
<1>1. CASE Running' = frames
  BY <1>1, FewerFrames
<1>2. ASSUME NEW p \in observers[n], Tells(frames, Frame("round", n, p, v))
      PROVE  FramesValid'
  <2> DEFINE f == Frame("round", n, p, v)
  <2>1. f.notifier = n /\ f.at = p /\ f.kind = "round"
    BY DEF Frame
  <2>2. Tells(frames, f)
    BY <1>2
  <2> HIDE DEF f
  <2> QED
    BY <2>1, <2>2, OneMoreFrame
<1> QED
  BY <1>1, <1>2 DEF RoundGoes

LEMMA FramesStep ==
  ASSUME TypeOK, FramesValid, [Next]_vars
  PROVE  FramesValid'
<1>1. CASE Next
  <2>1. ~undefined
    BY <1>1, Steps
  <2>2. ASSUME NEW n \in Notifiers, NEW v \in Values, SetValue(n, v)
        PROVE  FramesValid'
    BY <2>1, <2>2, RoundStarts, RoundKeepsFrames DEF SetValue
  <2>3. ASSUME NEW n \in Notifiers, NotifyObservers(n)
        PROVE  FramesValid'
    <3>1. value[n] \in Values
      BY <2>3 DEF NotifyObservers, TypeOK
    <3> QED
      BY <2>1, <2>3, <3>1, RoundStarts, RoundKeepsFrames DEF NotifyObservers
  <2>4. ASSUME UNCHANGED <<stack, alive, observers>>
        PROVE  FramesValid'
    <3>1. Running' = Running
      BY <2>4 DEF Running
    <3> QED
      BY <2>1, <2>4, <3>1, FewerFrames
  <2>5. ASSUME NEW n \in Notifiers, NEW v \in Values, InitValue(n, v)
        PROVE  FramesValid'
    BY <2>4, <2>5 DEF InitValue
  <2>6. ASSUME NEW n \in Notifiers, SetChanged(n) \/ ClearChanged(n)
        PROVE  FramesValid'
    BY <2>4, <2>6 DEF SetChanged, ClearChanged
  <2>7. ASSUME NEW n \in Notifiers, NEW o \in Observers, AddObserver(n, o) \/ AddToNotifier(n, o)
        PROVE  FramesValid'
    <3>1. PICK kind \in {"add", "addTo"} : Add(n, o, kind) /\ (kind = "addTo" => o \in Smart)
      BY <2>7 DEF AddObserver, AddToNotifier
    <3>2. /\ n \in alive /\ UNCHANGED alive
          /\ observers' = [observers EXCEPT ![n] = observers[n] \cup {o}]
      BY <3>1 DEF Add
    <3>3. o \in observers'[n] /\ \A m \in Notifiers : observers[m] \subseteq observers'[m]
      BY <3>2 DEF TypeOK
    <3>4. CASE Running' = Running
      BY <2>1, <3>2, <3>3, <3>4, FewerFrames
    <3>5. CASE Tells(Running, Frame(kind, n, o, value[n]))
      <4> DEFINE f == Frame(kind, n, o, value[n])
      <4>1. f.notifier = n /\ f.at = o /\ f.kind = kind
        BY DEF Frame
      <4>2. Tells(Running, f)
        BY <3>5
      <4> HIDE DEF f
      <4> QED
        BY <2>1, <3>1, <3>2, <3>3, <4>1, <4>2, OneMoreFrame
    <3> QED
      BY <3>1, <3>4, <3>5, AddGoes
  <2>8. ASSUME NEW n \in Notifiers, NEW o \in Observers, RemoveObserver(n, o) \/ RemoveFromNotifier(n, o)
        PROVE  FramesValid'
    <3>1. /\ ~Calling(n, o) /\ UNCHANGED <<alive, stack>>
          /\ observers' = [observers EXCEPT ![n] = observers[n] \ {o}]
      BY <2>8 DEF RemoveObserver, RemoveFromNotifier
    <3>2. Running' = Running
      BY <3>1 DEF Running
    <3>3. ASSUME NEW f \in Running, f.kind = "round"
          PROVE  f.at \in observers'[f.notifier]
      BY <3>1, <3>3, FrameTypes DEF FramesValid, Calling, TypeOK
    <3> QED
      BY <2>1, <3>1, <3>2, <3>3 DEF FramesValid
  <2>9. ASSUME NEW n \in Notifiers, RemoveObservers(n)
        PROVE  FramesValid'
    <3>1. /\ \A o \in Observers : ~Calling(n, o)
          /\ UNCHANGED <<alive, stack>>
          /\ observers' = [observers EXCEPT ![n] = {}]
      BY <2>9 DEF RemoveObservers
    <3>2. Running' = Running
      BY <3>1 DEF Running
    <3>3. ASSUME NEW f \in Running, f.kind = "round"
          PROVE  f.at \in observers'[f.notifier]
      BY <3>1, <3>3, FrameTypes DEF FramesValid, Calling, TypeOK
    <3> QED
      BY <2>1, <3>1, <3>2, <3>3 DEF FramesValid
  <2>10. ASSUME NEW n \in Notifiers, DestroyNotifier(n)
         PROVE  FramesValid'
    <3>1. /\ ~InRound(n) /\ UNCHANGED stack
          /\ alive' = alive \ {n}
          /\ observers' = [observers EXCEPT ![n] = {}]
      BY <2>10 DEF DestroyNotifier, Vanish, InUse
    <3>2. Running' = Running
      BY <3>1 DEF Running
    <3>3. ASSUME NEW f \in Running
          PROVE  /\ f.kind = "round" => f.notifier # n
                 /\ f.at # n /\ f.notifier \in Notifiers
      BY <3>1, FrameTypes, ObserversAssumption DEF InRound
    <3>4. ASSUME NEW f \in Running, f.kind = "round"
          PROVE  observers'[f.notifier] = observers[f.notifier]
      BY <3>1, <3>3, <3>4 DEF TypeOK
    <3> QED
      BY <2>1, <3>1, <3>2, <3>3, <3>4 DEF FramesValid
  <2>11. ASSUME NEW o \in Observers, DestroyObserver(o)
         PROVE  FramesValid'
    <3>1. /\ ~InUse(o) /\ UNCHANGED stack
          /\ alive' = alive \ {o}
          /\ \A m \in Notifiers : observers[m] \ {o} \subseteq observers'[m]
      BY <2>11 DEF DestroyObserver
    <3>2. Running' = Running
      BY <3>1 DEF Running
    <3>3. ASSUME NEW f \in Running, f.kind # "add"
          PROVE  f.notifier # o /\ f.at # o
      BY <3>1, <3>3, FrameTypes, ObserversAssumption DEF InUse
    <3>4. ASSUME NEW f \in Running, f.kind = "round"
          PROVE  f.at \in observers'[f.notifier]
      BY <3>1, <3>3, <3>4, FrameTypes DEF FramesValid
    <3> QED
      BY <2>1, <3>1, <3>2, <3>3, <3>4 DEF FramesValid
  <2>12. CASE Return
    <3>1. PICK frames \in SUBSET Frames, f \in Frames : Returned(frames, f)
      BY <2>12, ReturnGoes
    <3>2. UNCHANGED <<alive, observers>> /\ frames \subseteq Running /\ f \in Running
      BY <2>12, <3>1 DEF Return, Returned
    <3>3. f.notifier \in Notifiers /\ (f.kind = "round" => f.notifier \in alive)
      BY <2>1, <3>2, FrameTypes DEF FramesValid
    <3>4. CASE Running' = frames
      BY <2>1, <3>2, <3>4, FewerFrames
    <3>5. CASE f.kind = "round" /\ RoundGoes(frames, f.notifier, f.value, f.at, changed[f.notifier])
      BY <2>1, <3>2, <3>3, <3>5, RoundKeepsFrames
    <3> QED
      BY <3>1, <3>4, <3>5 DEF Returned
  <2>13. CASE Throw
    <3>1. Running' \subseteq Running /\ UNCHANGED <<alive, observers>>
      BY <2>13, ThrowGoes DEF Throw
    <3> QED
      BY <2>1, <3>1, FewerFrames
  <2> QED
    BY <1>1, <2>2, <2>3, <2>4, <2>5, <2>6, <2>7, <2>8, <2>9, <2>10, <2>11, <2>12, <2>13, Steps
<1>2. CASE UNCHANGED vars
  BY <1>2 DEF vars, FramesValid, Running
<1> QED
  BY <1>1, <1>2
-----------------------------------------------------------------------------
(* What a SmartObserver and a notifier know of each other.                 *)

Joining(n, o) == \E f \in Running : f.kind = "addTo" /\ f.notifier = n /\ f.at = o

Agree(n, o) ==
  \/ o \in observers[n] <=> n \in notifiers[o]
  \/ o \in observers[n] /\ Joining(n, o)
  \/ <<n, o>> \in parted

LEMMA AgreeDef ==
  BothSidesAgree <=> \A n \in Notifiers \cap alive, o \in Smart \cap alive : Agree(n, o)
BY DEF BothSidesAgree, Agree, Joining

LEMMA AgreeStep ==
  ASSUME TypeOK, FramesValid, BothSidesAgree, [Next]_vars
  PROVE  BothSidesAgree'
<1> SUFFICES ASSUME NEW n \in Notifiers, NEW o \in Smart, n \in alive', o \in alive'
             PROVE  Agree(n, o)'
  BY DEF BothSidesAgree, Agree, Joining
<1>1. o \in Observers
  BY ObserversAssumption
<1>2. n \in alive /\ o \in alive => Agree(n, o)
  BY AgreeDef
<1>3. CASE Next
  <2>1. n \in alive /\ o \in alive
    BY <1>3, Steps DEF SetValue, NotifyObservers, InitValue, SetChanged, ClearChanged, AddObserver,
         AddToNotifier, Add, RemoveObserver, RemoveFromNotifier, RemoveObservers,
         DestroyNotifier, DestroyObserver, Return, Throw
  <2>2. Agree(n, o)
    BY <1>2, <2>1
  <2>3. ASSUME UNCHANGED <<observers, notifiers, parted>>, Joining(n, o) => Joining(n, o)'
        PROVE  Agree(n, o)'
    BY <2>2, <2>3 DEF Agree
  <2>4. ASSUME NEW frames, frames \subseteq Running, NEW m, NEW v, NEW p, NEW c,
               RoundGoes(frames, m, v, p, c)
        PROVE  frames \subseteq Running'
    BY <2>4 DEF RoundGoes, Tells
  <2>5. ASSUME NEW m \in Notifiers, NEW v \in Values, SetValue(m, v)
        PROVE  Agree(n, o)'
    <3>1. Running \subseteq Running'
      BY <2>4, <2>5, RoundStarts DEF SetValue
    <3> QED
      BY <2>3, <2>5, <3>1 DEF SetValue, Joining
  <2>6. ASSUME NEW m \in Notifiers, NotifyObservers(m)
        PROVE  Agree(n, o)'
    <3>1. value[m] \in Values
      BY <2>6 DEF NotifyObservers, TypeOK
    <3>2. Running \subseteq Running'
      BY <2>4, <2>6, <3>1, RoundStarts DEF NotifyObservers
    <3> QED
      BY <2>3, <2>6, <3>2 DEF NotifyObservers, Joining
  <2>7. ASSUME NEW m \in Notifiers, NEW v \in Values, InitValue(m, v)
        PROVE  Agree(n, o)'
    BY <2>3, <2>7 DEF InitValue, Joining, Running
  <2>8. ASSUME NEW m \in Notifiers, SetChanged(m) \/ ClearChanged(m)
        PROVE  Agree(n, o)'
    BY <2>3, <2>8 DEF SetChanged, ClearChanged, Joining, Running
  <2>9. ASSUME NEW m \in Notifiers, NEW p \in Observers, AddObserver(m, p) \/ AddToNotifier(m, p)
        PROVE  Agree(n, o)'
    <3>1. PICK kind \in {"add", "addTo"} :
            Add(m, p, kind) /\ (kind = "add" <=> p \notin Smart)
      BY <2>9 DEF AddObserver, AddToNotifier
    <3>2. observers' = [observers EXCEPT ![m] = observers[m] \cup {p}]
      BY <3>1 DEF Add
    <3>3. CASE ~(m = n /\ p = o)
      <4>1. o \in observers'[n] <=> o \in observers[n]
        BY <3>2, <3>3 DEF TypeOK
      <4>2. Running \subseteq Running' /\ (UNCHANGED <<notifiers, parted>> \/ Joins(m, p))
        BY <3>1, AddGoes DEF Tells
      <4>3. /\ n \in notifiers'[o] <=> n \in notifiers[o]
            /\ <<n, o>> \in parted => <<n, o>> \in parted'
        BY <1>1, <3>3, <4>2 DEF Joins, Remember, Part, TypeOK
      <4> QED
        BY <2>2, <4>1, <4>2, <4>3 DEF Agree, Joining
    <3>4. CASE m = n /\ p = o
      <4>1. o \in observers'[n] /\ kind = "addTo"
        BY <3>1, <3>2, <3>4 DEF TypeOK
      <4>2. CASE Tells(Running, Frame(kind, m, p, value[m]))
        <5>1. Joining(n, o)'
          BY <3>4, <4>1, <4>2 DEF Tells, Frame, Joining
        <5> QED
          BY <4>1, <5>1 DEF Agree
      <4>3. CASE Joins(m, p)
        <5>1. n \in notifiers'[o]
          BY <1>1, <3>4, <4>3 DEF Joins, Remember, TypeOK
        <5> QED
          BY <4>1, <5>1 DEF Agree
      <4> QED
        BY <3>1, <4>1, <4>2, <4>3, AddGoes
    <3> QED
      BY <3>3, <3>4
  <2>10. ASSUME NEW m \in Notifiers, NEW p \in Observers, RemoveObserver(m, p)
         PROVE  Agree(n, o)'
    <3>1. /\ UNCHANGED <<stack, notifiers>>
          /\ observers' = [observers EXCEPT ![m] = observers[m] \ {p}]
          /\ Part(m, p, m \in notifiers[p])
      BY <2>10 DEF RemoveObserver
    <3>2. CASE m = n /\ p = o
      <4>1. o \notin observers'[n] /\ (n \in notifiers'[o] => <<n, o>> \in parted')
        BY <3>1, <3>2 DEF Part, TypeOK
      <4> QED
        BY <4>1 DEF Agree
    <3>3. CASE ~(m = n /\ p = o)
      <4>1. /\ o \in observers'[n] <=> o \in observers[n]
            /\ <<n, o>> \in parted => <<n, o>> \in parted'
        BY <3>1, <3>3 DEF Part, TypeOK
      <4> QED
        BY <2>2, <3>1, <4>1 DEF Agree, Joining, Running
    <3> QED
      BY <3>2, <3>3
  <2>11. ASSUME NEW m \in Notifiers, NEW p \in Observers, RemoveFromNotifier(m, p)
         PROVE  Agree(n, o)'
    <3>1. /\ UNCHANGED stack
          /\ notifiers' = [notifiers EXCEPT ![p] = notifiers[p] \ {m}]
          /\ parted' = parted \ {<<m, p>>}
          /\ observers' = [observers EXCEPT ![m] = observers[m] \ {p}]
      BY <2>11 DEF RemoveFromNotifier
    <3>2. CASE m = n /\ p = o
      <4>1. o \notin observers'[n] /\ n \notin notifiers'[o]
        BY <1>1, <3>1, <3>2 DEF TypeOK
      <4> QED
        BY <4>1 DEF Agree
    <3>3. CASE ~(m = n /\ p = o)
      <4>1. /\ o \in observers'[n] <=> o \in observers[n]
            /\ n \in notifiers'[o] <=> n \in notifiers[o]
            /\ <<n, o>> \in parted' <=> <<n, o>> \in parted
        BY <1>1, <3>1, <3>3 DEF TypeOK
      <4> QED
        BY <2>2, <3>1, <4>1 DEF Agree, Joining, Running
    <3> QED
      BY <3>2, <3>3
  <2>12. ASSUME NEW m \in Notifiers, RemoveObservers(m)
         PROVE  Agree(n, o)'
    <3>1. /\ UNCHANGED <<stack, notifiers>>
          /\ observers' = [observers EXCEPT ![m] = {}]
          /\ parted' = {q \in parted : q[1] # m}
                         \cup ({m} \X {q \in Smart \cap alive : m \in notifiers[q]})
      BY <2>12 DEF RemoveObservers
    <3>2. CASE m = n
      <4>1. o \notin observers'[n]
        BY <3>1, <3>2 DEF TypeOK
      <4>2. n \in notifiers[o] => <<n, o>> \in parted'
        BY <2>1, <3>1, <3>2
      <4> QED
        BY <3>1, <4>1, <4>2 DEF Agree
    <3>3. CASE m # n
      <4>1. /\ o \in observers'[n] <=> o \in observers[n]
            /\ <<n, o>> \in parted => <<n, o>> \in parted'
        BY <3>1, <3>3 DEF TypeOK
      <4> QED
        BY <2>2, <3>1, <4>1 DEF Agree, Joining, Running
    <3> QED
      BY <3>2, <3>3
  <2>13. ASSUME NEW m \in Notifiers, DestroyNotifier(m)
         PROVE  Agree(n, o)'
    <3>1. /\ m # n
          /\ UNCHANGED stack
          /\ observers'[n] = observers[n]
          /\ n \in notifiers'[o] <=> n \in notifiers[o]
          /\ <<n, o>> \in parted => <<n, o>> \in parted'
      BY <1>1, <2>13 DEF DestroyNotifier, Vanish, TypeOK
    <3> QED
      BY <2>2, <3>1 DEF Agree, Joining, Running
  <2>14. ASSUME NEW p \in Observers, DestroyObserver(p)
         PROVE  Agree(n, o)'
    <3>1. /\ p # o
          /\ UNCHANGED stack
          /\ notifiers'[o] = notifiers[o]
          /\ o \in observers'[n] <=> o \in observers[n]
          /\ <<n, o>> \in parted => <<n, o>> \in parted'
      BY <1>1, <2>14 DEF DestroyObserver, TypeOK
    <3> QED
      BY <2>2, <3>1 DEF Agree, Joining, Running
  <2>15. CASE Return
    <3>1. PICK frames \in SUBSET Frames, f \in Frames : Returned(frames, f)
      BY <2>15, ReturnGoes
    <3>2. UNCHANGED observers /\ frames \subseteq Running /\ f \in Running
      BY <2>15, <3>1 DEF Return, Returned
    <3>3. f.notifier \in Notifiers /\ f.at \in Observers
      BY <3>2, FrameTypes
    <3>4. frames \subseteq Running'
      BY <2>4, <3>1, <3>2 DEF Returned
    <3>5. CASE f.kind = "addTo" /\ f.notifier = n /\ f.at = o
      <4>1. n \in notifiers'[o] /\ (o \notin observers[n] => <<n, o>> \in parted')
        BY <1>1, <3>1, <3>5 DEF Returned, Remember, Part, TypeOK
      <4> QED
        BY <3>2, <4>1 DEF Agree
    <3>6. CASE ~(f.kind = "addTo" /\ f.notifier = n /\ f.at = o)
      <4>1. Joining(n, o) => Joining(n, o)'
        BY <3>1, <3>4, <3>6 DEF Joining, Returned
      <4>2. /\ n \in notifiers'[o] <=> n \in notifiers[o]
            /\ <<n, o>> \in parted => <<n, o>> \in parted'
        BY <1>1, <3>1, <3>3, <3>6 DEF Returned, Remember, Part, TypeOK
      <4> QED
        BY <2>2, <3>2, <4>1, <4>2 DEF Agree
    <3> QED
      BY <3>5, <3>6
  <2>16. CASE Throw
    <3>1. PICK frames \in SUBSET Frames, f \in Frames :
              /\ Running = frames \cup {f}
              /\ Running' = frames
              /\ parted' = IF HalfJoined(f) THEN parted \cup {<<f.notifier, f.at>>} ELSE parted
      BY <2>16, ThrowGoes
    <3>2. UNCHANGED <<observers, notifiers>> /\ f \in Running
      BY <2>16, <3>1 DEF Throw
    <3>3. CASE f.kind = "addTo" /\ f.notifier = n /\ f.at = o
      <4>1. CASE o \in observers[n]
        BY <2>1, <3>1, <3>2, <3>3, <4>1 DEF Agree, HalfJoined
      <4>2. CASE o \notin observers[n]
        BY <2>2, <3>1, <3>2, <4>2 DEF Agree
      <4> QED
        BY <4>1, <4>2
    <3>4. CASE ~(f.kind = "addTo" /\ f.notifier = n /\ f.at = o)
      <4>1. Joining(n, o) => Joining(n, o)'
        BY <3>1, <3>4 DEF Joining
      <4> QED
        BY <2>2, <3>1, <3>2, <4>1 DEF Agree
    <3> QED
      BY <3>3, <3>4
  <2> QED
    BY <1>3, <2>5, <2>6, <2>7, <2>8, <2>9, <2>10, <2>11, <2>12, <2>13, <2>14, <2>15, <2>16, Steps
<1>4. CASE UNCHANGED vars
  BY <1>2, <1>4 DEF vars, Agree, Joining, Running
<1> QED
  BY <1>3, <1>4-----------------------------------------------------------------------------
(* What is left of those that have ended.                                  *)

(* Nothing to show where both are alive: the operations called there are   *)
(* calls of living objects.                                                *)
LEMMA PartedKept ==
  ASSUME DeadAreParted, UNCHANGED alive,
         \A o \in Observers \ Smart : notifiers'[o] \subseteq notifiers[o],
         \A n \in Notifiers, o \in Observers : ~(n \in alive /\ o \in alive) =>
           /\ o \in observers'[n] => o \in observers[n]
           /\ n \in notifiers'[o] => n \in notifiers[o]
           /\ <<n, o>> \in parted => <<n, o>> \in parted'
  PROVE  DeadAreParted'
BY DEF DeadAreParted

LEMMA PartedStep ==
  ASSUME TypeOK, FramesValid, BothSidesAgree, DeadAreParted, [Next]_vars
  PROVE  DeadAreParted'
<1>1. CASE Next
  <2>1. ~undefined
    BY <1>1, Steps
  <2>2. ASSUME UNCHANGED <<alive, observers, notifiers, parted>>
        PROVE  DeadAreParted'
    BY <2>2 DEF DeadAreParted
  <2>3. ASSUME NEW n \in Notifiers, NEW v \in Values, SetValue(n, v) \/ InitValue(n, v)
        PROVE  DeadAreParted'
    BY <2>2, <2>3 DEF SetValue, InitValue
  <2>4. ASSUME NEW n \in Notifiers, NotifyObservers(n) \/ SetChanged(n) \/ ClearChanged(n)
        PROVE  DeadAreParted'
    BY <2>2, <2>4 DEF NotifyObservers, SetChanged, ClearChanged
  <2>5. ASSUME NEW m \in Notifiers, NEW p \in Observers, UNCHANGED alive, p \in alive,
               \/ observers' = observers
               \/ m \in alive /\ observers' = [observers EXCEPT ![m] = observers[m] \cup {p}],
               \/ UNCHANGED <<notifiers, parted>>
               \/ p \in Smart /\ \E there \in BOOLEAN : (there => m \in alive) /\ Remember(m, p, there)
        PROVE  DeadAreParted'
    <3>1. ASSUME NEW n \in Notifiers, NEW o \in Observers, ~(n = m /\ o = p)
          PROVE  /\ o \in observers'[n] => o \in observers[n]
                 /\ n \in notifiers'[o] => n \in notifiers[o]
                 /\ <<n, o>> \in parted => <<n, o>> \in parted'
      BY <2>5, <3>1 DEF Remember, Part, TypeOK
    <3>2. \A o \in Observers \ Smart : notifiers'[o] \subseteq notifiers[o]
      BY <2>5 DEF Remember, TypeOK
    <3>3. m \notin alive /\ m \in notifiers'[p] => <<m, p>> \in parted'
      BY <2>5 DEF Remember, Part, DeadAreParted
    <3> QED
      BY <2>5, <3>1, <3>2, <3>3 DEF DeadAreParted
  <2>6. ASSUME NEW n \in Notifiers, NEW o \in Observers, AddObserver(n, o) \/ AddToNotifier(n, o)
        PROVE  DeadAreParted'
    <3>1. PICK kind \in {"add", "addTo"} : Add(n, o, kind) /\ (kind = "addTo" => o \in Smart)
      BY <2>6 DEF AddObserver, AddToNotifier
    <3>2. /\ UNCHANGED alive /\ n \in alive /\ o \in alive
          /\ observers' = [observers EXCEPT ![n] = observers[n] \cup {o}]
      BY <3>1 DEF Add
    <3>3. UNCHANGED <<notifiers, parted>> \/ (o \in Smart /\ Joins(n, o))
      BY <3>1, AddGoes
    <3>4. Joins(n, o) => \E there \in BOOLEAN : (there => n \in alive) /\ Remember(n, o, there)
      BY <3>2, Zenon DEF Joins
    <3> QED
      BY <2>5, <3>2, <3>3, <3>4
  <2>7. ASSUME NEW m \in Notifiers, NEW p \in Observers, RemoveObserver(m, p)
        PROVE  DeadAreParted'
    <3>1. /\ UNCHANGED <<alive, notifiers>> /\ m \in alive /\ p \in alive
          /\ observers' = [observers EXCEPT ![m] = observers[m] \ {p}]
          /\ Part(m, p, m \in notifiers[p])
      BY <2>7 DEF RemoveObserver
    <3>2. \A n \in Notifiers, o \in Observers :
            /\ o \in observers'[n] => o \in observers[n]
            /\ ~(n = m /\ o = p) /\ <<n, o>> \in parted => <<n, o>> \in parted'
      BY <3>1 DEF Part, TypeOK
    <3> QED
      BY <3>1, <3>2, PartedKept
  <2>8. ASSUME NEW m \in Notifiers, NEW p \in Observers, RemoveFromNotifier(m, p)
        PROVE  DeadAreParted'
    <3>1. /\ UNCHANGED alive /\ m \in alive /\ p \in alive
          /\ notifiers' = [notifiers EXCEPT ![p] = notifiers[p] \ {m}]
          /\ parted' = parted \ {<<m, p>>}
          /\ observers' = [observers EXCEPT ![m] = observers[m] \ {p}]
      BY <2>8 DEF RemoveFromNotifier
    <3>2. \A n \in Notifiers, o \in Observers :
            /\ o \in observers'[n] => o \in observers[n]
            /\ n \in notifiers'[o] => n \in notifiers[o]
            /\ ~(n = m /\ o = p) /\ <<n, o>> \in parted => <<n, o>> \in parted'
      BY <3>1 DEF TypeOK
    <3>3. \A o \in Observers \ Smart : notifiers'[o] \subseteq notifiers[o]
      BY <3>1 DEF TypeOK
    <3> QED
      BY <3>1, <3>2, <3>3, PartedKept
  <2>9. ASSUME NEW m \in Notifiers, RemoveObservers(m)
        PROVE  DeadAreParted'
    <3>1. /\ UNCHANGED <<alive, notifiers>> /\ m \in alive
          /\ observers' = [observers EXCEPT ![m] = {}]
          /\ parted' = {q \in parted : q[1] # m}
                         \cup ({m} \X {q \in Smart \cap alive : m \in notifiers[q]})
      BY <2>9 DEF RemoveObservers
    <3>2. ASSUME NEW n \in Notifiers, NEW o \in Observers
          PROVE  /\ n \in alive' /\ o \notin alive' /\ o \in observers'[n] => <<n, o>> \in parted'
                 /\ n \notin alive' /\ o \in alive' /\ n \in notifiers'[o] => <<n, o>> \in parted'
      BY <3>1 DEF TypeOK, DeadAreParted
    <3> QED
      BY <3>1, <3>2 DEF DeadAreParted
  <2>10. ASSUME NEW m \in Notifiers, DestroyNotifier(m)
         PROVE  DeadAreParted'
    <3>1. /\ m \in alive
          /\ \A n \in Notifiers : observers'[n] \subseteq observers[n]
          /\ alive' = alive \ {m}
          /\ notifiers' = [o \in Observers |-> IF o \in observers[m] THEN notifiers[o] \ {m}
                                                                     ELSE notifiers[o]]
          /\ parted' = parted \ ({m} \X (observers[m] \cap alive))
      BY <2>10 DEF DestroyNotifier, Vanish, TypeOK
    <3>2. m \notin Observers
      BY ObserversAssumption
    <3>3. ASSUME NEW o \in Observers, o \in alive, m \in notifiers'[o]
          PROVE  <<m, o>> \in parted'
      <4>1. m \in notifiers[o] /\ o \notin observers[m]
        BY <3>1, <3>3
      <4>2. o \in Smart
        BY <4>1 DEF DeadAreParted
      <4>3. <<m, o>> \in parted
        BY <3>1, <3>3, <4>1, <4>2 DEF BothSidesAgree
      <4> QED
        BY <3>1, <4>1, <4>3
    <3>4. ASSUME NEW n \in Notifiers, NEW o \in Observers, n # m
          PROVE  /\ n \in alive' /\ o \notin alive' /\ o \in observers'[n] => <<n, o>> \in parted'
                 /\ n \notin alive' /\ o \in alive' /\ n \in notifiers'[o] => <<n, o>> \in parted'
      <4>1. (n \in alive' <=> n \in alive) /\ (o \in alive' <=> o \in alive)
        BY <3>1, <3>2, <3>4
      <4>2. /\ n \in notifiers'[o] => n \in notifiers[o]
            /\ <<n, o>> \in parted => <<n, o>> \in parted'
        BY <3>1, <3>4
      <4> QED
        BY <3>1, <4>1, <4>2 DEF DeadAreParted
    <3>5. \A o \in Observers \ Smart : notifiers'[o] = {}
      BY <3>1 DEF DeadAreParted
    <3>6. m \notin alive' /\ alive' \subseteq alive
      BY <3>1
    <3> QED
      BY <3>3, <3>4, <3>5, <3>6 DEF DeadAreParted
  <2>11. ASSUME NEW p \in Observers, DestroyObserver(p)
         PROVE  DeadAreParted'
    <3>1. /\ notifiers' = [notifiers EXCEPT ![p] = {}] /\ p \in alive /\ ~InUse(p)
          /\ alive' = alive \ {p}
          /\ p \notin Smart => \A n \in Notifiers \cap alive : p \notin observers[n]
          /\ observers' = [n \in Notifiers |-> IF n \in notifiers[p] THEN observers[n] \ {p}
                                                                     ELSE observers[n]]
          /\ parted' = parted \ ((notifiers[p] \cap alive) \X {p})
      BY <2>11 DEF DestroyObserver
    <3>2. p \notin Notifiers
      BY ObserversAssumption
    <3>3. ASSUME NEW n \in Notifiers, n \in alive, p \in observers'[n]
          PROVE  <<n, p>> \in parted'
      <4>1. n \notin notifiers[p] /\ p \in observers[n]
        BY <3>1, <3>3
      <4>2. p \in Smart
        BY <3>1, <3>3, <4>1
      <4>3. ~ \E f \in Running : f.kind = "addTo" /\ f.notifier = n /\ f.at = p
        BY <3>1 DEF InUse
      <4>4. <<n, p>> \in parted
        BY <3>1, <3>3, <4>1, <4>2, <4>3 DEF BothSidesAgree
      <4> QED
        BY <3>1, <4>1, <4>4
    <3>4. ASSUME NEW n \in Notifiers, NEW o \in Observers, o # p
          PROVE  /\ n \in alive' /\ o \notin alive' /\ o \in observers'[n] => <<n, o>> \in parted'
                 /\ n \notin alive' /\ o \in alive' /\ n \in notifiers'[o] => <<n, o>> \in parted'
      <4>1. (n \in alive' <=> n \in alive) /\ (o \in alive' <=> o \in alive)
        BY <3>1, <3>2, <3>4
      <4>2. /\ o \in observers'[n] => o \in observers[n]
            /\ n \in notifiers'[o] => n \in notifiers[o]
            /\ <<n, o>> \in parted => <<n, o>> \in parted'
        BY <3>1, <3>4 DEF TypeOK
      <4> QED
        BY <3>1, <4>1, <4>2 DEF DeadAreParted
    <3>5. p \notin alive' /\ alive' \subseteq alive
      BY <3>1
    <3>6. \A o \in Observers \ Smart : notifiers'[o] = {}
      BY <3>1 DEF DeadAreParted, TypeOK
    <3> QED
      BY <3>3, <3>4, <3>5, <3>6 DEF DeadAreParted
  <2>12. CASE Return
    <3>1. PICK frames \in SUBSET Frames, f \in Frames : Returned(frames, f)
      BY <2>12, ReturnGoes
    <3>2. UNCHANGED <<alive, observers>> /\ f \in Running
      BY <2>12, <3>1 DEF Return, Returned
    <3>3. /\ f.notifier \in Notifiers /\ f.at \in Observers
          /\ f.kind = "addTo" => f.at \in Smart /\ f.at \in alive
      BY <2>1, <3>2, FrameTypes DEF FramesValid
    <3>4. CASE UNCHANGED <<notifiers, parted>>
      BY <2>2, <3>2, <3>4
    <3>5. CASE f.kind = "addTo" /\ Remember(f.notifier, f.at, f.notifier \in alive /\ f.at \in observers[f.notifier])
      <4> DEFINE there == f.notifier \in alive /\ f.at \in observers[f.notifier]
      <4>1. there \in BOOLEAN /\ (there => f.notifier \in alive) /\ Remember(f.notifier, f.at, there)
        BY <3>5
      <4> HIDE DEF there
      <4> QED
        BY <2>5, <3>2, <3>3, <3>5, <4>1
    <3> QED
      BY <3>1, <3>4, <3>5 DEF Returned
  <2>13. CASE Throw
    <3>1. parted \subseteq parted' /\ UNCHANGED <<alive, observers, notifiers>>
      BY <2>13, ThrowGoes DEF Throw
    <3> QED
      BY <3>1, PartedKept
  <2> QED
    BY <1>1, <2>3, <2>4, <2>6, <2>7, <2>8, <2>9, <2>10, <2>11, <2>12, <2>13, Steps
<1>2. CASE UNCHANGED vars
  BY <1>2 DEF vars, DeadAreParted
<1> QED
  BY <1>1, <1>2

-----------------------------------------------------------------------------
(* Undefined behaviour.                                                    *)

LEMMA EndStep ==
  ASSUME TypeOK, FramesValid, DeadAreParted, NobodyIsCalledAfterItsEnd, [Next]_vars
  PROVE  NobodyIsCalledAfterItsEnd'
<1> DEFINE Dead == \E q \in parted' : ~({q[1], q[2]} \subseteq alive')
<1>1. SUFFICES ASSUME undefined' PROVE Dead
  BY DEF NobodyIsCalledAfterItsEnd
<1>2. CASE Next
  <2>1. ~undefined
    BY <1>2, Steps
  <2>2. ASSUME NEW n \in Notifiers, NEW p \in Observers, <<n, p>> \in parted',
               ~(n \in alive' /\ p \in alive')
        PROVE  Dead
    BY <2>2
  <2> HIDE DEF Dead
  <2>3. ASSUME NEW frames, NEW n \in Notifiers, NEW v, NEW o, NEW c,
               RoundGoes(frames, n, v, o, c), n \in alive, UNCHANGED <<alive, parted>>
        PROVE  Dead
    <3>1. PICK p \in observers[n] : undefined' = (p \notin alive)
      BY <1>1, <2>1, <2>3 DEF RoundGoes, Tells, Frame
    <3>2. p \in Observers
      BY DEF TypeOK
    <3>3. <<n, p>> \in parted
      BY <1>1, <2>3, <3>1, <3>2 DEF DeadAreParted
    <3> QED
      BY <1>1, <2>2, <2>3, <3>1, <3>2, <3>3
  <2>4. ASSUME NEW n \in Notifiers, NEW v \in Values, SetValue(n, v)
        PROVE  Dead
    BY <2>3, <2>4, RoundStarts DEF SetValue
  <2>5. ASSUME NEW n \in Notifiers, NotifyObservers(n)
        PROVE  Dead
    <3>1. value[n] \in Values
      BY <2>5 DEF NotifyObservers, TypeOK
    <3> QED
      BY <2>3, <2>5, <3>1, RoundStarts DEF NotifyObservers
  <2>6. ASSUME NEW n \in Notifiers, NEW o \in Observers, AddObserver(n, o) \/ AddToNotifier(n, o)
        PROVE  Dead
    <3>1. PICK kind \in {"add", "addTo"} : Add(n, o, kind)
      BY <2>6 DEF AddObserver, AddToNotifier
    <3>2. o \in alive
      BY <3>1 DEF Add
    <3>3. undefined' = undefined \/ undefined' = FALSE
      BY <3>1, <3>2, AddGoes DEF Tells, Frame
    <3> QED
      BY <1>1, <2>1, <3>3
  <2>7. ASSUME NEW m \in Notifiers, DestroyNotifier(m)
        PROVE  Dead
    <3>1. PICK o \in observers[m] : o \notin alive
      BY <1>1, <2>7 DEF DestroyNotifier
    <3>2. o \in Observers
      BY DEF TypeOK
    <3>3. m \in alive
      BY <2>7 DEF DestroyNotifier
    <3>4. <<m, o>> \in parted
      BY <3>1, <3>2, <3>3 DEF DeadAreParted
    <3>5. <<m, o>> \in parted' /\ o \notin alive'
      BY <2>7, <3>1, <3>4 DEF DestroyNotifier
    <3> QED
      BY <2>2, <3>2, <3>5
  <2>8. ASSUME NEW p \in Observers, DestroyObserver(p)
        PROVE  Dead
    <3>1. PICK n \in notifiers[p] : n \notin alive
      BY <1>1, <2>8 DEF DestroyObserver
    <3>2. n \in Notifiers
      BY DEF TypeOK
    <3>3. p \in alive
      BY <2>8 DEF DestroyObserver
    <3>4. <<n, p>> \in parted
      BY <3>1, <3>2, <3>3 DEF DeadAreParted
    <3>5. <<n, p>> \in parted' /\ n \notin alive'
      BY <2>8, <3>1, <3>4 DEF DestroyObserver
    <3> QED
      BY <2>2, <3>2, <3>5
  <2>9. CASE Return
    <3>1. PICK frames \in SUBSET Frames, f \in Frames : Returned(frames, f)
      BY <2>9, ReturnGoes
    <3>2. UNCHANGED alive /\ f \in Running
      BY <2>9, <3>1 DEF Return, Returned
    <3>3. f.notifier \in Notifiers /\ (f.kind = "round" => f.notifier \in alive)
      BY <2>1, <3>2, FrameTypes DEF FramesValid
    <3>4. CASE f.kind = "round" /\ RoundGoes(frames, f.notifier, f.value, f.at, changed[f.notifier])
               /\ UNCHANGED parted
      BY <2>3, <3>2, <3>3, <3>4
    <3>5. CASE UNCHANGED undefined
      BY <1>1, <2>1, <3>5
    <3> QED
      BY <3>1, <3>4, <3>5 DEF Returned
  <2>10. ASSUME UNCHANGED undefined
         PROVE  Dead
    BY <1>1, <2>1, <2>10
  <2>11. ASSUME NEW n \in Notifiers, NEW v \in Values, InitValue(n, v)
         PROVE  Dead
    BY <2>10, <2>11 DEF InitValue
  <2>12. ASSUME NEW n \in Notifiers, SetChanged(n) \/ ClearChanged(n) \/ RemoveObservers(n)
         PROVE  Dead
    BY <2>10, <2>12 DEF SetChanged, ClearChanged, RemoveObservers
  <2>13. ASSUME NEW n \in Notifiers, NEW o \in Observers, RemoveObserver(n, o) \/ RemoveFromNotifier(n, o)
         PROVE  Dead
    BY <2>10, <2>13 DEF RemoveObserver, RemoveFromNotifier
  <2>14. CASE Throw
    BY <2>10, <2>14 DEF Throw
  <2> QED
    BY <1>2, <2>4, <2>5, <2>6, <2>7, <2>8, <2>9, <2>11, <2>12, <2>13, <2>14, Steps
<1>3. CASE UNCHANGED vars
  BY <1>1, <1>3 DEF vars, NobodyIsCalledAfterItsEnd
<1> QED
  BY <1>2, <1>3-----------------------------------------------------------------------------
(* What the observers have been told.                                      *)

ToldUpTo(n, i) == \A o \in observers[n] \cap alive : o <= i => told[o][n] = value[n]
AllTold(n) == \A o \in observers[n] \cap alive : told[o][n] = value[n]
RoundOf(f, n) == f.kind = "round" /\ f.notifier = n

Current(n) == InForce(n) =>
  /\ value[n] \in Values
  /\ \A f \in Running : RoundOf(f, n) => f.value = value[n] /\ ToldUpTo(n, f.at)
  /\ ~changed[n] => AllTold(n)

LEMMA CurrentDef == (RoundsTell /\ ToldWhatIsStored) <=> \A n \in Notifiers : Current(n)
BY DEF RoundsTell, ToldWhatIsStored, Current, InForce, RoundOf, ToldUpTo, AllTold

(* A notifier none of whose own state changes, and whose observers become  *)
(* fewer at most. *)
LEMMA NotConcerned ==
  ASSUME NEW n \in Notifiers, Current(n),
         InForce(n)' => InForce(n),
         value'[n] = value[n], changed'[n] = changed[n],
         \A f \in Running' : RoundOf(f, n) => f \in Running,
         \A o \in observers'[n] \cap alive' :
           o \in observers[n] /\ o \in alive /\ told'[o][n] = told[o][n]
  PROVE  Current(n)'
<1> SUFFICES ASSUME InForce(n)'
             PROVE  /\ value'[n] \in Values
                    /\ \A f \in Running' : RoundOf(f, n) => f.value = value'[n] /\ ToldUpTo(n, f.at)'
                    /\ ~changed'[n] => AllTold(n)'
  BY DEF Current
<1>1. /\ value[n] \in Values
      /\ \A f \in Running : RoundOf(f, n) => f.value = value[n] /\ ToldUpTo(n, f.at)
      /\ ~changed[n] => AllTold(n)
  BY DEF Current
<1>2. ASSUME NEW f \in Running', RoundOf(f, n)
      PROVE  f.value = value'[n] /\ ToldUpTo(n, f.at)'
  <2>1. f.value = value[n] /\ ToldUpTo(n, f.at)
    BY <1>1, <1>2
  <2> QED
    BY <2>1 DEF ToldUpTo
<1>3. ~changed'[n] => AllTold(n)'
  BY <1>1 DEF AllTold
<1> QED
  BY <1>1, <1>2, <1>3

(* A round that has told its value to all up to o, and goes on from there. *)
RoundToldIt(frames, n, v, o, c) ==
  /\ v = value'[n] /\ v \in Values
  /\ \A f \in frames : RoundOf(f, n) =>
       /\ f.value = v
       /\ \A q \in observers[n] \cap alive : q <= f.at => told[q][n] = v
  /\ \A q \in observers[n] \cap alive : q <= o \/ ~c => told[q][n] = v

LEMMA RoundTells ==
  ASSUME TypeOK, NEW frames, frames \subseteq Running,
         NEW n \in Notifiers, NEW v, NEW o \in Int, NEW c \in BOOLEAN,
         RoundGoes(frames, n, v, o, c), UNCHANGED <<alive, observers>>,
         \A m \in Notifiers \ {n} :
           /\ Current(m)
           /\ value'[m] = value[m] /\ announced'[m] = announced[m]
           /\ m \in overtaken' <=> m \in overtaken,
         InForce(n)' => RoundToldIt(frames, n, v, o, c)
  PROVE  \A m \in Notifiers : Current(m)'
<1>1. ASSUME NEW m \in Notifiers, m # n
      PROVE  Current(m)'
  <2>1. InForce(m)' => InForce(m)
    BY <1>1 DEF InForce
  <2>2. changed'[m] = changed[m]
    BY <1>1 DEF RoundGoes, TypeOK
  <2>3. ASSUME NEW f \in Running', RoundOf(f, m)
        PROVE  f \in Running
    BY <1>1, <2>3 DEF RoundGoes, Tells, Frame, RoundOf
  <2>4. ASSUME NEW p \in Observers
        PROVE  told'[p][m] = told[p][m]
    BY <1>1 DEF RoundGoes, Tells, Frame
  <2>5. observers[m] \subseteq Observers
    BY DEF TypeOK
  <2> QED
    BY <1>1, <2>1, <2>2, <2>3, <2>4, <2>5, NotConcerned
<1>2. ASSUME InForce(n)'
      PROVE  Current(n)'
  <2>1. RoundToldIt(frames, n, v, o, c)
    BY <1>2
  <2>2. observers[n] \subseteq Observers /\ Observers \subseteq Nat
    BY ObserversAssumption DEF TypeOK
  <2>3. CASE /\ \A p \in observers[n] : p <= o
             /\ Running' = frames
             /\ UNCHANGED told
    <3>1. AllTold(n)'
      BY <2>1, <2>3 DEF AllTold, RoundToldIt
    <3>2. \A f \in Running' : RoundOf(f, n) => f.value = value'[n] /\ ToldUpTo(n, f.at)'
      BY <2>1, <2>3 DEF ToldUpTo, RoundToldIt
    <3> QED
      BY <2>1, <3>1, <3>2 DEF Current, RoundToldIt
  <2>4. ASSUME NEW p \in observers[n],
               o < p, \A q \in observers[n] : q <= o \/ p <= q,
               changed' = [changed EXCEPT ![n] = c],
               Tells(frames, Frame("round", n, p, v))
        PROVE  Current(n)'
    <3>1. /\ Running' = frames \cup {Frame("round", n, p, v)}
          /\ \A q \in Observers : told'[q][n] = IF q = p THEN v ELSE told[q][n]
      BY <2>4 DEF Tells, Frame
    <3>2. ~changed'[n] => AllTold(n)'
      BY <2>1, <2>2, <2>4, <3>1 DEF AllTold, RoundToldIt, TypeOK
    <3>3. ASSUME NEW f \in frames, RoundOf(f, n)
          PROVE  f.value = value'[n] /\ ToldUpTo(n, f.at)'
      BY <2>1, <2>2, <3>1, <3>3 DEF ToldUpTo, RoundToldIt
    <3>4. ToldUpTo(n, p)'
      <4>1. ASSUME NEW q \in observers[n] \cap alive, q <= p
            PROVE  told'[q][n] = v
        <5>1. q \in Nat /\ p \in Nat
          BY <2>2
        <5>2. q <= o \/ q = p
          BY <2>4, <4>1, <5>1
        <5>3. q <= o => told[q][n] = v
          BY <2>1 DEF RoundToldIt
        <5> QED
          BY <2>2, <3>1, <5>2, <5>3
      <4> QED
        BY <2>1, <4>1 DEF ToldUpTo, RoundToldIt
    <3>5. LET f == Frame("round", n, p, v)
          IN  f.value = value'[n] /\ f.at = p
      BY <2>1 DEF Frame, RoundToldIt
    <3>6. \A f \in Running' : RoundOf(f, n) => f.value = value'[n] /\ ToldUpTo(n, f.at)'
      BY <3>1, <3>3, <3>4, <3>5
    <3> QED
      BY <2>1, <3>2, <3>6 DEF Current, RoundToldIt
  <2> QED
    BY <2>3, <2>4 DEF RoundGoes
<1> QED
  BY <1>1, <1>2 DEF Current
LEMMA TellStep ==
  ASSUME TypeOK, FramesValid, RoundsTell, ToldWhatIsStored, [Next]_vars
  PROVE  RoundsTell' /\ ToldWhatIsStored'
<1>1. \A n \in Notifiers : Current(n)
  BY CurrentDef
<1>2. SUFFICES \A n \in Notifiers : Current(n)'
  BY DEF RoundsTell, ToldWhatIsStored, Current, InForce, RoundOf, ToldUpTo, AllTold
<1>3. CASE Next
  <2>1. ASSUME NEW n \in Notifiers, NEW v \in Values, SetValue(n, v)
        PROVE  \A m \in Notifiers : Current(m)'
    <3>1. /\ RoundGoes(Running, n, v, -1, TRUE)
          /\ UNCHANGED <<alive, observers>>
          /\ value' = [value EXCEPT ![n] = v]
          /\ announced' = [announced EXCEPT ![n] = TRUE]
          /\ overtaken' = IF InRound(n) THEN overtaken \cup {n} ELSE overtaken \ {n}
      BY <2>1, RoundStarts DEF SetValue
    <3>2. \A m \in Notifiers \ {n} :
            /\ Current(m)
            /\ value'[m] = value[m] /\ announced'[m] = announced[m]
            /\ m \in overtaken' <=> m \in overtaken
      BY <1>1, <3>1 DEF TypeOK
    <3>3. ASSUME InForce(n)'
          PROVE  RoundToldIt(Running, n, v, -1, TRUE)
      <4>1. ~InRound(n) /\ value'[n] = v
        BY <3>1, <3>3 DEF InForce, TypeOK
      <4>2. \A q \in observers[n] : ~(q <= -1)
        BY ObserversAssumption DEF TypeOK
      <4> QED
        BY <4>1, <4>2 DEF RoundToldIt, InRound, RoundOf
    <3> DEFINE i == -1
               c == TRUE
    <3>4. i \in Int /\ c \in BOOLEAN
      OBVIOUS
    <3>5. /\ RoundGoes(Running, n, v, i, c)
          /\ InForce(n)' => RoundToldIt(Running, n, v, i, c)
      BY <3>1, <3>3
    <3> HIDE DEF i, c
    <3> QED
      BY <3>1, <3>2, <3>4, <3>5, RoundTells
  <2>2. ASSUME NEW n \in Notifiers, NotifyObservers(n)
        PROVE  \A m \in Notifiers : Current(m)'
    <3>1. value[n] \in Values
      BY <2>2 DEF NotifyObservers, TypeOK
    <3>2. /\ RoundGoes(Running, n, value[n], -1, TRUE)
          /\ UNCHANGED <<alive, observers, value, announced, overtaken>>
      BY <2>2, <3>1, RoundStarts DEF NotifyObservers
    <3>3. ASSUME InForce(n)'
          PROVE  RoundToldIt(Running, n, value[n], -1, TRUE)
      <4>1. InForce(n)
        BY <3>2, <3>3 DEF InForce
      <4>2. \A q \in observers[n] : ~(q <= -1)
        BY ObserversAssumption DEF TypeOK
      <4> QED
        BY <1>1, <3>1, <3>2, <4>1, <4>2 DEF RoundToldIt, Current, ToldUpTo
    <3> DEFINE v == value[n]
               i == -1
               c == TRUE
    <3>4. i \in Int /\ c \in BOOLEAN
      OBVIOUS
    <3>5. /\ RoundGoes(Running, n, v, i, c)
          /\ InForce(n)' => RoundToldIt(Running, n, v, i, c)
      BY <3>2, <3>3
    <3> HIDE DEF v, i, c
    <3> QED
      BY <1>1, <3>2, <3>4, <3>5, RoundTells
  <2>3. ASSUME NEW n \in Notifiers, NEW v \in Values, InitValue(n, v)
        PROVE  \A m \in Notifiers : Current(m)'
    <3>1. ~InForce(n)'
      BY <2>3 DEF InitValue, InForce, TypeOK
    <3>2. ASSUME NEW m \in Notifiers, m # n
          PROVE  Current(m)'
      <4>1. /\ InForce(m)' => InForce(m)
            /\ value'[m] = value[m] /\ UNCHANGED <<changed, stack, observers, alive, told>>
        BY <2>3, <3>2 DEF InitValue, InForce, TypeOK
      <4> QED
        BY <1>1, <4>1, NotConcerned DEF Running
    <3> QED
      BY <3>1, <3>2 DEF Current
  <2>4. ASSUME NEW n \in Notifiers, SetChanged(n)
        PROVE  \A m \in Notifiers : Current(m)'
    <3>1. UNCHANGED <<alive, observers, value, stack, told, announced, overtaken>>
      BY <2>4 DEF SetChanged
    <3>2. /\ changed'[n] = TRUE
          /\ \A m \in Notifiers \ {n} : changed'[m] = changed[m]
      BY <2>4 DEF SetChanged, TypeOK
    <3>3. \A m \in Notifiers : ~changed'[m] => ~changed[m]
      BY <3>2
    <3> QED
      BY <1>1, <3>1, <3>3 DEF Current, InForce, Running, ToldUpTo, AllTold
  <2>5. ASSUME NEW n \in Notifiers, ClearChanged(n)
        PROVE  \A m \in Notifiers : Current(m)'
    <3>1. ~InForce(n)'
      BY <2>5 DEF ClearChanged, InForce, TypeOK
    <3>2. ASSUME NEW m \in Notifiers, m # n
          PROVE  Current(m)'
      <4>1. /\ InForce(m)' => InForce(m)
            /\ changed'[m] = changed[m] /\ UNCHANGED <<value, stack, observers, alive, told>>
        BY <2>5, <3>2 DEF ClearChanged, InForce, TypeOK
      <4> QED
        BY <1>1, <4>1, NotConcerned DEF Running
    <3> QED
      BY <3>1, <3>2 DEF Current
  <2>6. ASSUME NEW n \in Notifiers, NEW o \in Observers, AddObserver(n, o) \/ AddToNotifier(n, o)
        PROVE  \A m \in Notifiers : Current(m)'
    <3>1. PICK kind \in {"add", "addTo"} : Add(n, o, kind)
      BY <2>6 DEF AddObserver, AddToNotifier
    <3>2. /\ UNCHANGED <<alive, value, changed, announced, overtaken>>
          /\ observers' = [observers EXCEPT ![n] = observers[n] \cup {o}]
      BY <3>1 DEF Add
    <3>3. CASE value[n] = NoValue /\ Running' = Running /\ UNCHANGED told
      <4>1. ~InForce(n)'
        BY <1>1, <3>2, <3>3, ValuesAssumption DEF Current, InForce
      <4>2. ASSUME NEW m \in Notifiers, m # n
            PROVE  Current(m)'
        <5>1. observers'[m] = observers[m] /\ (InForce(m)' => InForce(m))
          BY <3>2, <4>2 DEF TypeOK, InForce
        <5> QED
          BY <1>1, <3>2, <3>3, <5>1, NotConcerned
      <4> QED
        BY <4>1, <4>2 DEF Current
    <3>4. CASE value[n] \in Values /\ Tells(Running, Frame(kind, n, o, value[n]))
      <4>1. /\ Running' = Running \cup {Frame(kind, n, o, value[n])}
            /\ \A p \in Observers, m \in Notifiers :
                 told'[p][m] = IF p = o /\ m = n THEN value[n] ELSE told[p][m]
        BY <3>4 DEF Tells, Frame
      <4>2. \A m \in Notifiers : \A f \in Running' : RoundOf(f, m) => f \in Running
        BY <4>1 DEF Frame, RoundOf
      <4>3. \A m \in Notifiers : observers[m] \subseteq Observers
        BY DEF TypeOK
      <4>4. ASSUME NEW m \in Notifiers, m # n
            PROVE  Current(m)'
        <5>1. observers'[m] = observers[m] /\ (InForce(m)' => InForce(m))
          BY <3>2, <4>4 DEF TypeOK, InForce
        <5> QED
          BY <1>1, <3>2, <4>1, <4>2, <4>3, <4>4, <5>1, NotConcerned
      <4>5. ASSUME InForce(n)'
            PROVE  Current(n)'
        <5>1. /\ \A f \in Running : RoundOf(f, n) => f.value = value[n] /\ ToldUpTo(n, f.at)
              /\ ~changed[n] => AllTold(n)
          BY <1>1, <3>2, <4>5 DEF Current, InForce
        <5>2. observers'[n] = observers[n] \cup {o}
          BY <3>2 DEF TypeOK
        <5>3. ASSUME NEW q \in observers'[n] \cap alive
              PROVE  /\ q = o \/ q \in observers[n] \cap alive
                     /\ told'[q][n] = IF q = o THEN value[n] ELSE told[q][n]
          BY <4>1, <4>3, <5>2
        <5>4. ASSUME NEW i, ToldUpTo(n, i)
              PROVE  ToldUpTo(n, i)'
          BY <3>2, <5>3, <5>4 DEF ToldUpTo
        <5>5. AllTold(n) => AllTold(n)'
          BY <3>2, <5>3 DEF AllTold
        <5>6. \A f \in Running' : RoundOf(f, n) => f.value = value'[n] /\ ToldUpTo(n, f.at)'
          BY <3>2, <4>2, <5>1, <5>4
        <5> QED
          BY <3>2, <3>4, <5>1, <5>5, <5>6 DEF Current
      <4> QED
        BY <4>4, <4>5 DEF Current
    <3> QED
      BY <3>1, <3>3, <3>4, AddGoes
  <2>7. ASSUME UNCHANGED <<value, changed, announced, overtaken>>, alive' \subseteq alive,
               Running' \subseteq Running,
               \A m \in Notifiers : m \in alive' => \A p \in observers'[m] \cap alive' :
                 p \in observers[m] /\ told'[p][m] = told[p][m]
        PROVE  \A m \in Notifiers : Current(m)'
    <3> SUFFICES ASSUME NEW m \in Notifiers, InForce(m)'
                 PROVE  Current(m)'
      BY DEF Current
    <3>1. InForce(m) /\ m \in alive'
      BY <2>7 DEF InForce
    <3> QED
      BY <1>1, <2>7, <3>1, NotConcerned
  <2>8. ASSUME NEW n \in Notifiers, NEW o \in Observers, RemoveObserver(n, o) \/ RemoveFromNotifier(n, o)
        PROVE  \A m \in Notifiers : Current(m)'
    <3>1. /\ UNCHANGED <<value, changed, announced, overtaken, alive, stack>>
          /\ observers' = [observers EXCEPT ![n] = observers[n] \ {o}]
          /\ Forget({o}, {n})
      BY <2>8 DEF RemoveObserver, RemoveFromNotifier
    <3>2. ASSUME NEW m \in Notifiers, NEW p \in observers'[m]
          PROVE  p \in observers[m] /\ told'[p][m] = told[p][m]
      BY <3>1 DEF Forget, TypeOK
    <3> QED
      BY <2>7, <3>1, <3>2 DEF Running
  <2>9. ASSUME NEW n \in Notifiers, RemoveObservers(n)
        PROVE  \A m \in Notifiers : Current(m)'
    <3>1. /\ UNCHANGED <<value, changed, announced, overtaken, alive, stack>>
          /\ observers' = [observers EXCEPT ![n] = {}]
          /\ Forget(Observers, {n})
      BY <2>9 DEF RemoveObservers
    <3>2. ASSUME NEW m \in Notifiers, NEW p \in observers'[m]
          PROVE  p \in observers[m] /\ told'[p][m] = told[p][m]
      BY <3>1 DEF Forget, TypeOK
    <3> QED
      BY <2>7, <3>1, <3>2 DEF Running
  <2>10. ASSUME NEW n \in Notifiers, DestroyNotifier(n)
         PROVE  \A m \in Notifiers : Current(m)'
    <3>1. /\ UNCHANGED stack
          /\ alive' = alive \ {n}
          /\ \A m \in Notifiers \ {n} :
               /\ value'[m] = value[m] /\ changed'[m] = changed[m] /\ announced'[m] = announced[m]
               /\ observers'[m] = observers[m]
               /\ m \in overtaken' <=> m \in overtaken
               /\ \A p \in observers[m] : told'[p][m] = told[p][m]
      BY <2>10 DEF DestroyNotifier, Vanish, Forget, TypeOK
    <3>2. ASSUME NEW m \in Notifiers \ {n}
          PROVE  Current(m)'
      <4>1. InForce(m)' => InForce(m)
        BY <3>1 DEF InForce
      <4>2. Running' = Running
        BY <3>1 DEF Running
      <4> QED
        BY <1>1, <3>1, <4>1, <4>2, NotConcerned
    <3>3. ~InForce(n)'
      BY <3>1 DEF InForce
    <3> QED
      BY <3>2, <3>3 DEF Current
  <2>11. ASSUME NEW o \in Observers, DestroyObserver(o)
         PROVE  \A m \in Notifiers : Current(m)'
    <3>1. /\ UNCHANGED <<value, changed, announced, overtaken, stack>>
          /\ alive' = alive \ {o}
          /\ \A m \in Notifiers : observers'[m] \subseteq observers[m]
          /\ Forget({o}, Notifiers)
      BY <2>11 DEF DestroyObserver
    <3>2. ASSUME NEW m \in Notifiers, NEW p \in observers[m], p # o
          PROVE  told'[p][m] = told[p][m]
      BY <3>1, <3>2 DEF Forget, TypeOK
    <3> QED
      BY <2>7, <3>1, <3>2 DEF Running
  <2>12. CASE Return
    <3>1. PICK frames \in SUBSET Frames, f \in Frames : Returned(frames, f)
      BY <2>12, ReturnGoes
    <3>2. /\ UNCHANGED <<alive, observers, value, announced, overtaken>>
          /\ frames \subseteq Running /\ f \in Running
      BY <2>12, <3>1 DEF Return, Returned
    <3>3. CASE Running' = frames /\ UNCHANGED <<told, changed>>
      BY <2>7, <3>2, <3>3
    <3>4. CASE /\ f.kind = "round"
               /\ RoundGoes(frames, f.notifier, f.value, f.at, changed[f.notifier])
      <4>1. PICK n \in Notifiers, v \in Values, o \in Observers, c \in BOOLEAN :
              n = f.notifier /\ v = f.value /\ o = f.at /\ c = changed[n]
        BY <3>2, FrameTypes DEF TypeOK
      <4>2. RoundGoes(frames, n, v, o, c)
        BY <3>4, <4>1
      <4>3. o \in Int
        BY <4>1, ObserversAssumption
      <4>4. ASSUME InForce(n)'
            PROVE  RoundToldIt(frames, n, v, o, c)
        <5>1. InForce(n)
          BY <3>2, <4>4 DEF InForce
        <5>2. /\ \A g \in Running : RoundOf(g, n) => g.value = value[n] /\ ToldUpTo(n, g.at)
              /\ ~changed[n] => AllTold(n)
          BY <1>1, <5>1 DEF Current
        <5>3. v = value[n] /\ ToldUpTo(n, o)
          BY <3>2, <3>4, <4>1, <5>2 DEF RoundOf
        <5>4. \A q \in observers[n] \cap alive : q <= o \/ ~c => told[q][n] = v
          BY <4>1, <5>2, <5>3 DEF ToldUpTo, AllTold
        <5>5. \A g \in frames : RoundOf(g, n) =>
                /\ g.value = v
                /\ \A q \in observers[n] \cap alive : q <= g.at => told[q][n] = v
          BY <3>2, <5>2, <5>3 DEF ToldUpTo
        <5> QED
          BY <3>2, <5>3, <5>4, <5>5 DEF RoundToldIt
      <4> QED
        BY <1>1, <3>2, <4>2, <4>3, <4>4, RoundTells
    <3> QED
      BY <3>1, <3>3, <3>4 DEF Returned
  <2>13. CASE Throw
    <3>1. /\ UNCHANGED <<alive, observers, value, changed, told, announced, overtaken>>
          /\ Running' \subseteq Running
      BY <2>13, ThrowGoes DEF Throw
    <3> QED
      BY <2>7, <3>1
  <2> QED
    BY <1>3, <2>1, <2>2, <2>3, <2>4, <2>5, <2>6, <2>8, <2>9, <2>10, <2>11, <2>12, <2>13, Steps
<1>4. CASE UNCHANGED vars
  BY <1>1, <1>4 DEF vars, Current, InForce, RoundOf, ToldUpTo, AllTold, Running
<1> QED
  BY <1>3, <1>4

-----------------------------------------------------------------------------
LEMMA InitInv == Init => IInv
<1> SUFFICES ASSUME Init PROVE IInv
  OBVIOUS
<1>1. stack = <<>> /\ Running = {}
  <2>1. stack = <<>> /\ Len(stack) = 0
    BY DEF Init
  <2> QED
    BY <2>1 DEF Running
<1>2. TypeOK
  <2>1. told \in [Observers -> [Notifiers -> Values \cup {NoValue}]]
    BY DEF Init
  <2>2. observers \in [Notifiers -> SUBSET Observers] /\ notifiers \in [Observers -> SUBSET Notifiers]
    BY DEF Init
  <2>3. stack \in Seq(Frames)
    BY <1>1
  <2>4. changed \in [Notifiers -> BOOLEAN] /\ announced \in [Notifiers -> BOOLEAN]
    BY DEF Init
  <2> QED
    BY <2>1, <2>2, <2>3, <2>4 DEF Init, TypeOK
<1>3. FramesValid /\ RoundsTell
  BY <1>1 DEF Init, FramesValid, RoundsTell, InForce
<1>4. BothSidesAgree /\ DeadAreParted /\ NobodyIsCalledAfterItsEnd /\ ToldWhatIsStored
  BY ObserversAssumption DEF Init, BothSidesAgree, DeadAreParted, NobodyIsCalledAfterItsEnd, ToldWhatIsStored
<1> QED
  BY <1>2, <1>3, <1>4 DEF IInv

LEMMA Invariant == Spec => []IInv
<1>1. IInv /\ [Next]_vars => IInv'
  <2> SUFFICES ASSUME IInv, [Next]_vars PROVE IInv'
    OBVIOUS
  <2>1. /\ TypeOK /\ FramesValid /\ BothSidesAgree /\ DeadAreParted
        /\ NobodyIsCalledAfterItsEnd /\ RoundsTell /\ ToldWhatIsStored
    BY DEF IInv
  <2> QED
    BY <2>1, TypeStep, FramesStep, AgreeStep, PartedStep, EndStep, TellStep DEF IInv
<1> QED
  BY <1>1, InitInv, PTL DEF Spec

(* Every variable keeps its type: the sets and flags of Observable,        *)
(* ChangeNotifier and SmartObserver (utils.hpp) and the frames of the      *)
(* update() calls that run.                                                *)
THEOREM TypeIsKept == Spec => []TypeOK
<1>1. IInv => TypeOK
  BY DEF IInv
<1> QED
  BY <1>1, Invariant, PTL

(* A SmartObserver and its notifiers know each other, whatever update()    *)
(* calls back; addToNotifier(), removeFromNotifier() and both destructors  *)
(* of utils.hpp keep the two sets together, but for the pairs parted by    *)
(* removeObserver() or removeObservers(), left half joined by an           *)
(* exception, or parted in the middle of addToNotifier() by the update()   *)
(* it makes.                                                               *)
THEOREM SidesAgree == Spec => []BothSidesAgree
<1>1. IInv => BothSidesAgree
  BY DEF IInv
<1> QED
  BY <1>1, Invariant, PTL

(* notifyObservers(), ~Observable() and ~SmartObserver() of utils.hpp call *)
(* no object that has been destroyed, but one of a parted pair.            *)
THEOREM NobodyCalledDead == Spec => []NobodyIsCalledAfterItsEnd
<1>1. IInv => NobodyIsCalledAfterItsEnd
  BY DEF IInv
<1> QED
  BY <1>1, Invariant, PTL

(* When ChangeNotifier::hasChanged() is false after setValue(), every      *)
(* observer has last been told the stored value, however the rounds of     *)
(* notifyObservers() have been nested, left by exceptions or joined by new *)
(* observers; but for a value that an update() has set in the round for    *)
(* the one before.                                                         *)
THEOREM StoredIsTold == Spec => []ToldWhatIsStored
<1>1. IInv => ToldWhatIsStored
  BY DEF IInv
<1> QED
  BY <1>1, Invariant, PTL
=============================================================================
