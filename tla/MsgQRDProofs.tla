---------------------------- MODULE MsgQRDProofs ----------------------------
(***************************************************************************)
(* The safety of the registration daemon (module MsgQRD), for any set of   *)
(* handlers, names, ports and requests and any limits of the kernel.       *)
(*                                                                         *)
(* The inductive invariant is IInv of MsgQRD.  TypeOK is not inductive by  *)
(* itself: that a handler forwards a result and never NoReply, and that    *)
(* what it sends is a command, is what CommandTracked and RequestKnown say.*)
(***************************************************************************)
EXTENDS MsgQRD, TLAPS, SequenceTheorems, FiniteSetTheorems, WellFoundedInduction

-----------------------------------------------------------------------------
(* What find(), insert() and erase() of the list of registered message     *)
(* queues (module MsgQueueList) return and preserve, for lists of any      *)
(* length over any names and ids.                                          *)


(* A nonempty set of naturals has a smallest element, and Min is it. *)
LEMMA MinProperties ==
  ASSUME NEW S, S \subseteq Nat, S # {}
  PROVE  /\ Min(S) \in S
         /\ \A y \in S : Min(S) =< y
<1>1. \E x \in S : \A y \in S : ~ (<<y, x>> \in OpToRel(<, Nat))
  BY NatLessThanWellFounded, WFMin
<1>2. PICK x \in S : \A y \in S : ~ (<<y, x>> \in OpToRel(<, Nat))
  BY <1>1
<1>3. ASSUME NEW y \in S PROVE x =< y
  <2>1. y < x => <<y, x>> \in OpToRel(<, Nat)
    BY Zenon DEF OpToRel
  <2>2. ~ (y < x)
    BY <1>2, <2>1
  <2> QED
    BY <2>2
<1> QED
  BY <1>3 DEF Min

(* The lists over names N and ids I. *)
Lists(N, I) == Seq([name : N, id : I])

LEMMA EntryType ==
  ASSUME NEW N, NEW I, NEW l \in Lists(N, I), NEW i \in 1..Len(l)
  PROVE  l[i] \in [name : N, id : I]
BY ElementOfSeq DEF Lists

LEMMA HitsType ==
  ASSUME NEW N, NEW I, NEW l \in Lists(N, I), NEW n
  PROVE  Hits(l, n) \subseteq 1..Len(l)
BY LenProperties DEF Hits, Lists

(* find() answers -1 or the id of an entry with that name. *)
LEMMA FindProperties ==
  ASSUME NEW N, NEW I, NEW l \in Lists(N, I), NEW n,
         Hits(l, n) # {}
  PROVE  \E i \in 1..Len(l) : l[i].name = n /\ Find(l, n) = l[i].id
<1>1. Hits(l, n) \subseteq 1..Len(l)
  BY HitsType
<1>2. Min(Hits(l, n)) \in Hits(l, n)
  BY <1>1, MinProperties, LenProperties DEF Lists
<1> QED
  BY <1>1, <1>2 DEF Find, Hits

LEMMA FindType ==
  ASSUME NEW N, NEW I, NEW l \in Lists(N, I), NEW n
  PROVE  Find(l, n) \in I \cup {NotFound}
<1>1. CASE Hits(l, n) = {}
  BY <1>1 DEF Find
<1>2. CASE Hits(l, n) # {}
  <2>1. PICK i \in 1..Len(l) : Find(l, n) = l[i].id
    BY <1>2, FindProperties
  <2> QED
    BY <2>1, EntryType
<1> QED
  BY <1>1, <1>2

(* As ids are naturals, -1 says that the name is not in the list. *)
LEMMA FindNotFound ==
  ASSUME NEW N, NEW I, I \subseteq Nat, NEW l \in Lists(N, I), NEW n
  PROVE  Find(l, n) = NotFound <=> Hits(l, n) = {}
<1>1. CASE Hits(l, n) = {}
  BY <1>1 DEF Find
<1>2. CASE Hits(l, n) # {}
  <2>1. PICK i \in 1..Len(l) : Find(l, n) = l[i].id
    BY <1>2, FindProperties
  <2>2. l[i].id \in Nat
    BY EntryType
  <2> QED
    BY <1>2, <2>1, <2>2 DEF NotFound
<1> QED
  BY <1>1, <1>2

(* insert() stops at a position up to which all names are smaller. *)
LEMMA InsertPositionProperties ==
  ASSUME NEW N, N \subseteq Nat, NEW I, NEW l \in Lists(N, I), NEW n \in N
  PROVE  /\ InsertPosition(l, n) \in 1..(Len(l) + 1)
         /\ InsertPosition(l, n) <= Len(l)
              => ~(l[InsertPosition(l, n)].name < n)
         /\ \A i \in 1..(InsertPosition(l, n) - 1) : l[i].name < n
<1> DEFINE P == {i \in 1..(Len(l) + 1) : i <= Len(l) => ~(l[i].name < n)}
<1>1. Len(l) \in Nat
  BY LenProperties DEF Lists
<1>2. Len(l) + 1 \in P /\ P \subseteq Nat
  BY <1>1
<1>3. Min(P) \in P /\ \A y \in P : Min(P) =< y
  BY <1>2, MinProperties
<1>4. InsertPosition(l, n) = Min(P)
  BY DEF InsertPosition
<1>5. ASSUME NEW i \in 1..(Min(P) - 1) PROVE l[i].name < n
  BY <1>1, <1>2, <1>3
<1> QED
  BY <1>3, <1>4, <1>5

(* s is the list with e put in at position p, the rest shifted. *)
IsInsertion(s, l, p, e) ==
  /\ Len(s) = Len(l) + 1
  /\ \A i \in 1..(Len(l) + 1) :
       s[i] = IF i < p THEN l[i] ELSE IF i = p THEN e ELSE l[i - 1]

LEMMA InsertProperties ==
  ASSUME NEW N, N \subseteq Nat, NEW I, NEW l \in Lists(N, I), NEW n \in N, NEW id \in I
  PROVE  /\ Insert(l, n, id) \in Lists(N, I)
         /\ IsInsertion(Insert(l, n, id), l, InsertPosition(l, n), Entry(n, id))
<1> DEFINE p == InsertPosition(l, n)
           E == [name : N, id : I]
           s1 == SubSeq(l, 1, p - 1)
           s2 == SubSeq(l, p, Len(l))
<1> USE DEF Lists
<1>1. Len(l) \in Nat /\ p \in 1..(Len(l) + 1)
  BY LenProperties, InsertPositionProperties
<1>2. \A i \in 1..Len(l) : l[i] \in E
  BY ElementOfSeq
<1> HIDE DEF p, E
<1>3. /\ s1 \in Seq(E)
      /\ Len(s1) = p - 1
      /\ \A i \in 1..(p - 1) : s1[i] = l[i]
  <2>1. \A i \in 1..(p - 1) : l[i] \in E
    BY <1>1, <1>2
  <2> QED
    BY <1>1, <2>1, SubSeqProperties, Z3
<1>4. /\ s2 \in Seq(E)
      /\ Len(s2) = Len(l) - p + 1
      /\ \A i \in 1..(Len(l) - p + 1) : s2[i] = l[p + i - 1]
  <2>1. \A i \in p..Len(l) : l[i] \in E
    BY <1>1, <1>2
  <2> QED
    BY <1>1, <2>1, SubSeqProperties, Z3
<1>5. Entry(n, id) \in E
  BY DEF Entry, E
<1> DEFINE s3 == s1 \o <<Entry(n, id)>>
<1> HIDE DEF s1, s2
<1>6. /\ <<Entry(n, id)>> \in Seq(E)
      /\ Len(<<Entry(n, id)>>) = 1
      /\ <<Entry(n, id)>>[1] = Entry(n, id)
  BY <1>5
<1>7. /\ s3 \in Seq(E)
      /\ Len(s3) = p
      /\ \A i \in 1..p : s3[i] = IF i <= p - 1 THEN l[i] ELSE Entry(n, id)
  BY <1>1, <1>3, <1>6, ConcatProperties, Z3
<1> HIDE DEF s3
<1>8. /\ s3 \o s2 \in Seq(E)
      /\ Len(s3 \o s2) = Len(l) + 1
      /\ \A i \in 1..(Len(l) + 1) : (s3 \o s2)[i] = IF i <= p THEN s3[i] ELSE l[i - 1]
  <2>1. /\ s3 \o s2 \in Seq(E)
        /\ Len(s3 \o s2) = Len(s3) + Len(s2)
        /\ \A i \in 1..(Len(s3) + Len(s2)) :
             (s3 \o s2)[i] = IF i <= Len(s3) THEN s3[i] ELSE s2[i - Len(s3)]
    BY <1>4, <1>7, ConcatProperties
  <2>2. Len(s3) + Len(s2) = Len(l) + 1
    BY <1>1, <1>4, <1>7
  <2>3. ASSUME NEW i \in 1..(Len(l) + 1), ~(i <= p)
        PROVE  s2[i - p] = l[i - 1]
    <3>1. i - p \in 1..(Len(l) - p + 1) /\ p + (i - p) - 1 = i - 1
      BY <1>1, <2>3
    <3> QED
      BY <1>4, <3>1
  <2> QED
    BY <1>7, <2>1, <2>2, <2>3
<1>9. Insert(l, n, id) = s3 \o s2
  BY DEF Insert, InsertAt, s1, s2, s3, p
<1> QED
  BY <1>1, <1>7, <1>8, <1>9 DEF E, p, IsInsertion

(* Insertion keeps the list in the order of names, if the name is new: the *)
(* daemon asks find() first.                                               *)
THEOREM InsertKeepsSorted ==
  ASSUME NEW N, N \subseteq Nat, NEW I, NEW l \in Lists(N, I), NEW n \in N, NEW id \in I,
         Sorted(l), Hits(l, n) = {}
  PROVE  Sorted(Insert(l, n, id))
<1> DEFINE p == InsertPosition(l, n)
           s == Insert(l, n, id)
<1>1. /\ Len(l) \in Nat
      /\ p \in 1..(Len(l) + 1)
      /\ p <= Len(l) => ~(l[p].name < n)
      /\ \A i \in 1..(p - 1) : l[i].name < n
  BY LenProperties, InsertPositionProperties DEF Lists
<1>2. /\ s \in Lists(N, I)
      /\ Len(s) = Len(l) + 1
      /\ \A i \in 1..(Len(l) + 1) : s[i] = IF i < p THEN l[i]
                                           ELSE IF i = p THEN Entry(n, id)
                                           ELSE l[i - 1]
  <2>1. s \in Lists(N, I) /\ IsInsertion(s, l, p, Entry(n, id))
    BY InsertProperties
  <2> QED
    BY <2>1 DEF IsInsertion
<1>3. DOMAIN s = 1..(Len(l) + 1) /\ DOMAIN l = 1..Len(l)
  BY <1>2, LenProperties DEF Lists
<1>4. ASSUME NEW i \in 1..Len(l)
      PROVE  l[i].name \in Nat /\ l[i].name # n
  BY <1>3, EntryType DEF Hits
<1>5. \A i, j \in 1..Len(l) : i < j => l[i].name < l[j].name
  BY <1>3 DEF Sorted
<1>6. ASSUME NEW i \in p..Len(l)
      PROVE  n < l[i].name
  <2>1. i \in 1..Len(l) /\ p \in 1..Len(l) /\ p <= Len(l)
    BY <1>1
  <2>2. n < l[p].name
    BY <1>1, <1>4, <2>1
  <2>3. CASE i = p
    BY <2>2, <2>3
  <2> HIDE DEF p, s
  <2>4. CASE p < i
    <3>1. l[p].name < l[i].name /\ l[p].name \in Nat /\ l[i].name \in Nat
      BY <1>4, <1>5, <2>1, <2>4
    <3>2. n \in Nat
      OBVIOUS
    <3> DEFINE a == l[p].name
               b == l[i].name
    <3>3. a \in Nat /\ b \in Nat /\ n < a /\ a < b
      BY <2>2, <3>1
    <3> HIDE DEF a, b
    <3>4. n < b
      BY <3>2, <3>3
    <3> QED
      BY <3>4 DEF b
  <2> QED
    BY <1>1, <2>3, <2>4
<1> HIDE DEF p, s
<1>7. ASSUME NEW i \in 1..(Len(l) + 1), NEW j \in 1..(Len(l) + 1), i < j
      PROVE  s[i].name < s[j].name
  <2>1. CASE j < p
    <3>1. i < p /\ i \in 1..Len(l) /\ j \in 1..Len(l)
      BY <1>1, <1>7, <2>1
    <3> QED
      BY <1>2, <1>5, <1>7, <2>1, <3>1
  <2>2. CASE j = p
    <3>1. s[j].name = n
      BY <1>2, <2>2 DEF Entry
    <3>2. s[i] = l[i] /\ i \in 1..(p - 1)
      BY <1>1, <1>2, <1>7, <2>2
    <3> QED
      BY <1>1, <3>1, <3>2
  <2>3. CASE p < j /\ i = p
    <3>1. s[i].name = n /\ s[j] = l[j - 1] /\ j - 1 \in p..Len(l)
      BY <1>1, <1>2, <2>3 DEF Entry
    <3> QED
      BY <1>6, <3>1
  <2>4. CASE p < j /\ i < p
    <3>1. s[i] = l[i] /\ s[j] = l[j - 1]
      BY <1>1, <1>2, <2>4
    <3>2. i \in 1..Len(l) /\ j - 1 \in 1..Len(l) /\ i < j - 1
      BY <1>1, <2>4
    <3> QED
      BY <1>5, <3>1, <3>2
  <2>5. CASE p < j /\ p < i
    <3>1. s[i] = l[i - 1] /\ s[j] = l[j - 1]
      BY <1>1, <1>2, <2>5
    <3>2. i - 1 \in 1..Len(l) /\ j - 1 \in 1..Len(l) /\ i - 1 < j - 1
      BY <1>1, <1>7, <2>5
    <3> QED
      BY <1>5, <3>1, <3>2
  <2> QED
    BY <1>1, <2>1, <2>2, <2>3, <2>4, <2>5
<1>8. Sorted(s)
  BY <1>3, <1>7 DEF Sorted
<1> QED
  BY <1>8 DEF s

(* s is the list without the entry at position p. *)
IsRemoval(s, l, p) ==
  /\ Len(s) = Len(l) - 1
  /\ \A i \in 1..(Len(l) - 1) : s[i] = IF i < p THEN l[i] ELSE l[i + 1]

LEMMA EraseProperties ==
  ASSUME NEW N, NEW I, NEW l \in Lists(N, I), NEW n, Hits(l, n) # {}
  PROVE  /\ Erase(l, n) \in Lists(N, I)
         /\ \E p \in 1..Len(l) : l[p].name = n /\ IsRemoval(Erase(l, n), l, p)
<1> DEFINE p == Min(Hits(l, n))
           E == [name : N, id : I]
           s1 == SubSeq(l, 1, p - 1)
           s2 == SubSeq(l, p + 1, Len(l))
<1> USE DEF Lists
<1>1. Len(l) \in Nat /\ p \in 1..Len(l) /\ l[p].name = n
  <2>1. Hits(l, n) \subseteq 1..Len(l) /\ Len(l) \in Nat
    BY HitsType, LenProperties
  <2>2. p \in Hits(l, n)
    BY <2>1, MinProperties
  <2> QED
    BY <2>1, <2>2 DEF Hits
<1>2. \A i \in 1..Len(l) : l[i] \in E
  BY ElementOfSeq
<1>3. Erase(l, n) = s1 \o s2
  BY DEF Erase, RemoveAt
<1> HIDE DEF p, E
<1>4. /\ s1 \in Seq(E)
      /\ Len(s1) = p - 1
      /\ \A i \in 1..(p - 1) : s1[i] = l[i]
  <2>1. \A i \in 1..(p - 1) : l[i] \in E
    BY <1>1, <1>2
  <2> QED
    BY <1>1, <2>1, SubSeqProperties, Z3
<1>5. /\ s2 \in Seq(E)
      /\ Len(s2) = Len(l) - p
      /\ \A i \in 1..(Len(l) - p) : s2[i] = l[p + i]
  <2>1. \A i \in (p + 1)..Len(l) : l[i] \in E
    BY <1>1, <1>2
  <2> QED
    BY <1>1, <2>1, SubSeqProperties, Z3
<1> HIDE DEF s1, s2
<1>6. /\ s1 \o s2 \in Seq(E)
      /\ Len(s1 \o s2) = Len(s1) + Len(s2)
      /\ \A i \in 1..(Len(s1) + Len(s2)) :
           (s1 \o s2)[i] = IF i <= Len(s1) THEN s1[i] ELSE s2[i - Len(s1)]
  BY <1>4, <1>5, ConcatProperties
<1>7. ASSUME NEW i \in 1..(Len(l) - 1)
      PROVE  (s1 \o s2)[i] = IF i < p THEN l[i] ELSE l[i + 1]
  <2>1. CASE i < p
    BY <1>1, <1>4, <1>5, <1>6, <2>1
  <2>2. CASE ~(i < p)
    <3>1. /\ i \in 1..(Len(s1) + Len(s2))
          /\ ~(i <= Len(s1))
          /\ i - Len(s1) \in 1..(Len(l) - p)
          /\ p + (i - Len(s1)) = i + 1
      BY <1>1, <1>4, <1>5, <2>2
    <3> QED
      BY <1>5, <1>6, <2>2, <3>1
  <2> QED
    BY <2>1, <2>2
<1>8. IsRemoval(s1 \o s2, l, p)
  BY <1>1, <1>4, <1>5, <1>6, <1>7 DEF IsRemoval
<1> QED
  BY <1>1, <1>3, <1>6, <1>8 DEF E

LEMMA EraseType ==
  ASSUME NEW N, NEW I, NEW l \in Lists(N, I), NEW n
  PROVE  Erase(l, n) \in Lists(N, I)
<1>1. CASE Hits(l, n) = {}
  BY <1>1 DEF Erase
<1>2. CASE Hits(l, n) # {}
  BY <1>2, EraseProperties
<1> QED
  BY <1>1, <1>2

(* Erasing an entry keeps the order of the others. *)
THEOREM EraseKeepsSorted ==
  ASSUME NEW N, NEW I, NEW l \in Lists(N, I), NEW n, Sorted(l)
  PROVE  Sorted(Erase(l, n))
<1>1. CASE Hits(l, n) = {}
  BY <1>1 DEF Erase
<1>2. CASE Hits(l, n) # {}
  <2> DEFINE s == Erase(l, n)
  <2>1. PICK p \in 1..Len(l) : IsRemoval(s, l, p)
    BY <1>2, EraseProperties
  <2>2. Len(l) \in Nat /\ DOMAIN l = 1..Len(l)
    BY LenProperties DEF Lists
  <2>3. s \in Lists(N, I)
    BY EraseType
  <2> HIDE DEF s
  <2>4. DOMAIN s = 1..(Len(l) - 1)
    BY <2>1, <2>3, LenProperties DEF IsRemoval, Lists
  <2>5. ASSUME NEW i \in 1..(Len(l) - 1), NEW j \in 1..(Len(l) - 1), i < j
        PROVE  s[i].name < s[j].name
    <3> DEFINE from(k) == IF k < p THEN k ELSE k + 1
    <3>1. s[i] = l[from(i)] /\ s[j] = l[from(j)]
      BY <2>1 DEF IsRemoval
    <3>2. from(i) \in 1..Len(l) /\ from(j) \in 1..Len(l) /\ from(i) < from(j)
      BY <2>2, <2>5
    <3> HIDE DEF from
    <3>3. l[from(i)].name < l[from(j)].name
      BY <2>2, <3>2 DEF Sorted
    <3> QED
      BY <3>1, <3>3
  <2>6. Sorted(s)
    BY <2>4, <2>5 DEF Sorted
  <2> QED
    BY <2>6 DEF s
<1> QED
  BY <1>1, <1>2
-----------------------------------------------------------------------------
(* The list as a map from names to ids.                                 *)

(* In a list in order an entry is the only one with its name. *)
LEMMA HitIsUnique ==
  ASSUME NEW N, N \subseteq Nat, NEW I, NEW l \in Lists(N, I), Sorted(l),
         NEW n, NEW i \in 1..Len(l), l[i].name = n
  PROVE  Hits(l, n) = {i}
<1>1. DOMAIN l = 1..Len(l) /\ Len(l) \in Nat
  BY LenProperties DEF Lists
<1>2. \A j \in 1..Len(l) : l[j].name \in Nat
  BY EntryType
<1>3. ASSUME NEW j \in 1..Len(l), l[j].name = n
      PROVE  j = i
  <2>1. ~(i < j) /\ ~(j < i)
    BY <1>1, <1>2, <1>3 DEF Sorted
  <2> QED
    BY <1>1, <2>1
<1> QED
  BY <1>1, <1>3 DEF Hits

(* find() answers its id. *)
LEMMA FindOfEntry ==
  ASSUME NEW N, N \subseteq Nat, NEW I, NEW l \in Lists(N, I), Sorted(l),
         NEW n, NEW i \in 1..Len(l), l[i].name = n
  PROVE  Find(l, n) = l[i].id
<1>1. Hits(l, n) = {i}
  BY HitIsUnique
<1>2. PICK j \in 1..Len(l) : l[j].name = n /\ Find(l, n) = l[j].id
  <2>1. Hits(l, n) # {}
    BY <1>1
  <2> QED
    BY <2>1, FindProperties
<1>3. j \in Hits(l, n)
  BY <1>2, LenProperties DEF Hits, Lists
<1> QED
  BY <1>1, <1>2, <1>3

(* A name has no entry or one. *)
LEMMA HitsCount ==
  ASSUME NEW N, N \subseteq Nat, NEW I, NEW l \in Lists(N, I), Sorted(l), NEW n
  PROVE  Cardinality(Hits(l, n)) = IF Hits(l, n) = {} THEN 0 ELSE 1
<1>1. CASE Hits(l, n) = {}
  BY <1>1, FS_EmptySet
<1>2. ASSUME NEW i \in Hits(l, n)
      PROVE  Cardinality(Hits(l, n)) = 1
  <2>1. i \in 1..Len(l) /\ l[i].name = n
    BY LenProperties DEF Hits, Lists
  <2>2. Hits(l, n) = {i}
    BY <2>1, HitIsUnique
  <2> QED
    BY <2>2, FS_Singleton
<1> QED
  BY <1>1, <1>2

(* In s, find() answers id for the name n, and for every other name what   *)
(* it answers in the list.                                              *)
IsUpdate(s, l, N, n, id) ==
  /\ Find(s, n) = id
  /\ \A k \in N \ {n} : Find(s, k) = Find(l, k)

(* After an insertion find() answers the new id for the new name, and for  *)
(* every other name what it did before.                                    *)
THEOREM FindAfterInsert ==
  ASSUME NEW N, N \subseteq Nat, NEW I, NEW l \in Lists(N, I), NEW n \in N, NEW id \in I,
         Sorted(l), Hits(l, n) = {}
  PROVE  IsUpdate(Insert(l, n, id), l, N, n, id)
<1> DEFINE p == InsertPosition(l, n)
           s == Insert(l, n, id)
<1>1. Len(l) \in Nat /\ p \in 1..(Len(l) + 1) /\ DOMAIN l = 1..Len(l)
  BY LenProperties, InsertPositionProperties DEF Lists
<1>2. s \in Lists(N, I) /\ Sorted(s) /\ IsInsertion(s, l, p, Entry(n, id))
  BY InsertProperties, InsertKeepsSorted
<1> HIDE DEF p, s
<1>3. /\ Len(s) = Len(l) + 1
      /\ \A i \in 1..(Len(l) + 1) : s[i] = IF i < p THEN l[i]
                                           ELSE IF i = p THEN Entry(n, id)
                                           ELSE l[i - 1]
  BY <1>2 DEF IsInsertion
<1>4. Find(s, n) = id
  <2>1. p \in 1..Len(s) /\ s[p] = Entry(n, id)
    BY <1>1, <1>3
  <2>2. Find(s, s[p].name) = s[p].id
    BY <1>2, <2>1, FindOfEntry
  <2> QED
    BY <2>1, <2>2 DEF Entry
<1>5. ASSUME NEW k \in N \ {n}, NEW i \in 1..Len(l), l[i].name = k
      PROVE  Find(s, k) = l[i].id
  <2>1. PICK j \in 1..Len(s) : s[j] = l[i]
    <3>1. CASE i < p
      BY <1>1, <1>3, <3>1
    <3>2. CASE ~(i < p)
      <4>1. i + 1 \in 1..Len(s) /\ ~(i + 1 < p) /\ i + 1 # p /\ (i + 1) - 1 = i
        BY <1>1, <1>3, <3>2
      <4> QED
        BY <1>3, <4>1
    <3> QED
      BY <3>1, <3>2
  <2>2. Find(s, s[j].name) = s[j].id
    BY <1>2, FindOfEntry
  <2> QED
    BY <1>5, <2>1, <2>2
<1>6. ASSUME NEW k \in N \ {n}, Hits(l, k) = {}
      PROVE  Hits(s, k) = {}
  <2>1. ASSUME NEW j \in 1..Len(s)
        PROVE  s[j].name # k
    <3>1. CASE j = p
      BY <1>1, <1>3, <1>6, <3>1 DEF Entry
    <3>2. CASE j < p
      <4>1. s[j] = l[j] /\ j \in DOMAIN l
        BY <1>1, <1>3, <3>2
      <4> QED
        BY <1>6, <4>1 DEF Hits
    <3>3. CASE p < j
      <4>1. s[j] = l[j - 1] /\ j - 1 \in DOMAIN l
        BY <1>1, <1>3, <3>3
      <4> QED
        BY <1>6, <4>1 DEF Hits
    <3> QED
      BY <1>1, <1>3, <3>1, <3>2, <3>3
  <2>2. DOMAIN s = 1..Len(s)
    BY <1>2, LenProperties DEF Lists
  <2> QED
    BY <2>1, <2>2 DEF Hits
<1>7. ASSUME NEW k \in N \ {n}
      PROVE  Find(s, k) = Find(l, k)
  <2>1. CASE Hits(l, k) = {}
    BY <1>6, <1>7, <2>1 DEF Find
  <2>2. CASE Hits(l, k) # {}
    <3>1. PICK i \in 1..Len(l) : l[i].name = k /\ Find(l, k) = l[i].id
      BY <2>2, FindProperties
    <3> QED
      BY <1>5, <1>7, <3>1
  <2> QED
    BY <2>1, <2>2
<1> QED
  BY <1>4, <1>7 DEF s, IsUpdate

(* After an erasure find() answers -1 for that name, and for every other   *)
(* name what it did before.                                                *)
THEOREM FindAfterErase ==
  ASSUME NEW N, N \subseteq Nat, NEW I, NEW l \in Lists(N, I), NEW n,
         Sorted(l), Hits(l, n) # {}
  PROVE  IsUpdate(Erase(l, n), l, N, n, NotFound)
<1> DEFINE s == Erase(l, n)
<1>1. PICK p \in 1..Len(l) : l[p].name = n /\ IsRemoval(s, l, p)
  BY EraseProperties
<1>2. s \in Lists(N, I) /\ Sorted(s)
  BY EraseType, EraseKeepsSorted
<1> HIDE DEF s
<1>3. /\ Len(l) \in Nat /\ DOMAIN l = 1..Len(l)
      /\ DOMAIN s = 1..Len(s)
      /\ Len(s) = Len(l) - 1
      /\ \A i \in 1..(Len(l) - 1) : s[i] = IF i < p THEN l[i] ELSE l[i + 1]
  BY <1>1, <1>2, LenProperties DEF Lists, IsRemoval
<1>4. Hits(l, n) = {p}
  BY <1>1, HitIsUnique
<1>5. ASSUME NEW j \in 1..Len(s)
      PROVE  \E i \in 1..Len(l) : i # p /\ s[j] = l[i]
  <2>1. CASE j < p
    BY <1>3, <2>1
  <2>2. CASE ~(j < p)
    <3>1. j + 1 \in 1..Len(l) /\ j + 1 # p /\ s[j] = l[j + 1]
      BY <1>3, <2>2
    <3> QED
      BY <3>1
  <2> QED
    BY <2>1, <2>2
<1>6. Hits(s, n) = {}
  BY <1>3, <1>4, <1>5 DEF Hits
<1>7. ASSUME NEW k \in N \ {n}, NEW i \in 1..Len(l), l[i].name = k
      PROVE  Find(s, k) = l[i].id
  <2>1. i # p
    BY <1>1, <1>7
  <2>2. PICK j \in 1..Len(s) : s[j] = l[i]
    <3>1. CASE i < p
      BY <1>1, <1>3, <3>1
    <3>2. CASE p < i
      <4>1. i - 1 \in 1..Len(s) /\ ~(i - 1 < p) /\ (i - 1) + 1 = i
        BY <1>1, <1>3, <3>2
      <4> QED
        BY <1>3, <4>1
    <3> QED
      BY <1>1, <2>1, <3>1, <3>2
  <2>3. Find(s, s[j].name) = s[j].id
    BY <1>2, FindOfEntry
  <2> QED
    BY <1>7, <2>2, <2>3
<1>8. ASSUME NEW k \in N \ {n}
      PROVE  Find(s, k) = Find(l, k)
  <2>1. CASE Hits(l, k) = {}
    <3>1. ASSUME NEW j \in 1..Len(s)
          PROVE  s[j].name # k
      BY <1>3, <1>5, <2>1 DEF Hits
    <3>2. Hits(s, k) = {}
      BY <1>3, <3>1 DEF Hits
    <3> QED
      BY <2>1, <3>2 DEF Find
  <2>2. CASE Hits(l, k) # {}
    <3>1. PICK i \in 1..Len(l) : l[i].name = k /\ Find(l, k) = l[i].id
      BY <2>2, FindProperties
    <3> QED
      BY <1>7, <1>8, <3>1
  <2> QED
    BY <2>1, <2>2
<1>9. Find(s, n) = NotFound
  BY <1>6 DEF Find
<1> QED
  BY <1>6, <1>8, <1>9 DEF s, IsUpdate

-----------------------------------------------------------------------------
(* The daemon.                                                             *)

(* The steps of the specification, one by one. *)
LEMMA Steps ==
  ASSUME Next
  PROVE  \/ HandleMessage
         \/ SendResult
         \/ Terminate
         \/ StopGroup
         \/ \E h \in Handlers : Handler(h)
         \/ \E h \in Handlers : Alarm(h)
         \/ \E h \in Handlers : Client(h)
         \/ \E p \in PortIds : PortVanishes(p)
BY DEF Next, Service

(* The registered ids are numbers, and -1 is none of them. *)
LEMMA NotFoundIsNoPort == NotFound \notin PortIds
BY PortIdsAssumption DEF NotFound

LEMMA NoReplyIsNoResult == NoReply \notin Results /\ Timeout \notin Results /\ NoReply # Timeout
BY DEF NoReply, Timeout, Results, Texts, Reply

LEMMA EmptyHasNoLength == Len(<<>>) = 0
OBVIOUS

LEMMA ShortAppends ==
  ASSUME NEW x, NEW y
  PROVE  Append(<<>>, y) = <<y>> /\ Append(<<x>>, y) = <<x, y>>
<1>1. Append(<<>>, y) = <<y>>
  OBVIOUS
<1>2. <<x>> \in Seq({x, y}) /\ Len(<<x>>) = 1 /\ <<x>>[1] = x
  OBVIOUS
<1>3. /\ Append(<<x>>, y) \in Seq({x, y})
      /\ Len(Append(<<x>>, y)) = 2
      /\ Append(<<x>>, y)[1] = x
      /\ Append(<<x>>, y)[2] = y
  BY <1>2, AppendProperties
<1>4. <<x, y>> \in Seq({x, y}) /\ Len(<<x, y>>) = 2 /\ <<x, y>>[1] = x /\ <<x, y>>[2] = y
  OBVIOUS
<1>5. Append(<<x>>, y) = <<x, y>>
  <2> DEFINE s == Append(<<x>>, y)
             t == <<x, y>>
             T == {x, y}
  <2>1. /\ s \in Seq(T) /\ Len(s) = 2 /\ s[1] = x /\ s[2] = y
        /\ t \in Seq(T) /\ Len(t) = 2 /\ t[1] = x /\ t[2] = y
    BY <1>3, <1>4
  <2> HIDE DEF s, t, T
  <2>2. Len(s) = Len(t) /\ \A i \in 1..Len(s) : s[i] = t[i]
    BY <2>1
  <2>3. s = t
    BY <2>1, <2>2, SeqEqual
  <2> QED
    BY <2>3 DEF s, t
<1> QED
  BY <1>1, <1>5

LEMMA FirstProperties ==
  ASSUME NEW S, NEW s \in Seq(S), Len(s) = 1
  PROVE  s[1] \in S
BY ElementOfSeq

LEMMA ListsAreTyped == Lists(Names, PortIds) = Seq([name : Names, id : PortIds])
BY DEF Lists

(* The message a handler in "send" has made is a command. *)
LEMMA MessageType ==
  ASSUME TypeOK, RequestKnown, NEW h \in Handlers, hpc[h] = "send"
  PROVE  Message(h) \in Messages /\ Message(h).to = h
<1>1. req[h] \in [kind : Kinds, name : Names, id : PortIds]
  BY RequestsAssumption DEF RequestKnown
<1>2. Command(req[h].kind) \in {"add", "remove", "find"}
  BY DEF RequestKnown, Command
<1> QED
  BY <1>1, <1>2 DEF Message, Messages

-----------------------------------------------------------------------------
(* Types.                                                                  *)

LEMMA InitType == Init => TypeOK
BY DEF Init, TypeOK, Stopped

LEMMA HandlerType ==
  ASSUME IInv, NEW h \in Handlers, Handler(h)
  PROVE  TypeOK'
<1> USE DEF IInv, TypeOK, mainVars, procVars, kernelVars, clientVars, Goto, Running, Scanning
<1>1. CASE OpenReplyQueue(h)
  <2>1. /\ hpc' \in [Handlers -> Running \cup {"none", "done", "killed"}]
        /\ rqueues' \in SUBSET Handlers
    BY <1>1 DEF OpenReplyQueue
  <2>2. alarm' \in [Handlers -> {"off", "set", "fired"}]
    BY <1>1 DEF OpenReplyQueue
  <2>3. sent' \in [Handlers -> 0..3]
    <3>1. sent' = sent \/ sent' = [sent EXCEPT ![h] = 0]
      BY <1>1 DEF OpenReplyQueue
    <3>2. [sent EXCEPT ![h] = 0] \in [Handlers -> 0..3]
      OBVIOUS
    <3> QED
      BY <3>1, <3>2
  <2>4. conn' \in [Handlers -> {"none", "open", "closed"}]
    BY <1>1 DEF OpenReplyQueue
  <2> QED
    BY <1>1, <2>1, <2>2, <2>3, <2>4 DEF OpenReplyQueue
<1>2. CASE ResetStatus(h)
  BY <1>2 DEF ResetStatus
<1>3. CASE ScanCommand(h)
  BY <1>3 DEF ScanCommand
<1>4. CASE ScanName(h)
  BY <1>4 DEF ScanName
<1>5. CASE ScanId(h)
  BY <1>5 DEF ScanId
<1>6. CASE SendCommand(h)
  <2>1. Message(h) \in Messages
    BY <1>6, MessageType DEF SendCommand
  <2>2. Append(mainq, Message(h)) \in Seq(Messages)
    BY <2>1, AppendProperties
  <2> QED
    BY <1>6, <2>2 DEF SendCommand
<1>7. CASE ReceiveReply(h)
  <2>1. Head(rbuf[h]) \in Results /\ Tail(rbuf[h]) \in Seq(Results)
    BY <1>7, HeadTailProperties DEF ReceiveReply
  <2> QED
    BY <1>7, <2>1 DEF ReceiveReply
<1>8. CASE Forward(h)
  <2>1. hreply[h] \in Results
    BY <1>8 DEF Forward, CommandTracked, ResultTracked
  <2> QED
    BY <1>8, <2>1, AppendProperties DEF Forward, Write
<1>9. CASE Finish(h)
  <2>1. Append(out[h], Timeout) \in Seq(Results \cup {Timeout})
    BY AppendProperties
  <2> QED
    BY <1>9, <2>1 DEF Finish, Write
<1>10. CASE Close(h)
  BY <1>10 DEF Close
<1> QED
  BY <1>1, <1>2, <1>3, <1>4, <1>5, <1>6, <1>7, <1>8, <1>9, <1>10 DEF Handler

LEMMA AnswerType ==
  ASSUME IInv, NEW m \in Messages, NEW text \in Texts, NEW id \in PortIds \cup {NotFound},
         Answer(m, text, id)
  PROVE  /\ mreply' \in Seq([to : Handlers, reply : Results])
         /\ Len(mreply') = 1
         /\ result' \in [Handlers -> Results \cup {NoReply}]
<1>1. Reply(text, id) \in Results /\ m.to \in Handlers
  BY DEF Reply, Results, Messages
<1> QED
  BY <1>1 DEF Answer, IInv, TypeOK

LEMMA ServiceType ==
  ASSUME IInv, HandleMessage \/ SendResult \/ Terminate \/ StopGroup
  PROVE  TypeOK'
<1> USE DEF IInv, TypeOK, mainVars, procVars, kernelVars, clientVars, Goto, Stopped
<1>1. CASE HandleMessage
  <2> DEFINE m == Head(mainq)
  <2>1. m \in Messages /\ Tail(mainq) \in Seq(Messages)
    BY <1>1, HeadTailProperties DEF HandleMessage
  <2>2. m.name \in Names /\ m.id \in PortIds
    BY <2>1 DEF Messages
  <2>3. Find(list, m.name) \in PortIds \cup {NotFound}
    BY FindType, ListsAreTyped
  <2>4. Insert(list, m.name, m.id) \in Seq([name : Names, id : PortIds])
    BY <2>2, InsertProperties, ListsAreTyped, NamesAssumption
  <2>5. Erase(list, m.name) \in Seq([name : Names, id : PortIds])
    BY EraseType, ListsAreTyped
  <2> HIDE DEF m
  <2>6. /\ mreply' \in Seq([to : Handlers, reply : Results])
        /\ Len(mreply') = 1
        /\ result' \in [Handlers -> Results \cup {NoReply}]
        /\ list' \in Seq([name : Names, id : PortIds])
    <3>1. HandleAdd(m) \/ HandleFind(m) \/ HandleRemove(m)
      BY <1>1 DEF HandleMessage, m
    <3>2. CASE HandleAdd(m)
      BY <2>1, <2>4, <3>2, AnswerType DEF HandleAdd, Texts
    <3>3. CASE HandleFind(m)
      BY <2>1, <2>3, <3>3, AnswerType DEF HandleFind, Texts
    <3>4. CASE HandleRemove(m)
      BY <2>1, <2>5, <3>4, AnswerType DEF HandleRemove, Texts
    <3> QED
      BY <3>1, <3>2, <3>3, <3>4
  <2> QED
    BY <1>1, <2>1, <2>6 DEF HandleMessage
<1>2. CASE SendResult
  <2>1. mpc = "reply" /\ Len(mreply) = 1
    BY <1>2 DEF SendResult
  <2>2. Head(mreply) \in [to : Handlers, reply : Results]
    <3>1. mreply # <<>>
      BY ONLY <2>1, EmptyHasNoLength
    <3> QED
      BY <3>1, HeadTailProperties
  <2>3. Append(rbuf[Head(mreply).to], Head(mreply).reply) \in Seq(Results)
    BY <2>2, AppendProperties
  <2> QED
    <3> DEFINE m == Head(mreply)
    <3> HIDE DEF m
    <3>1. m \in [to : Handlers, reply : Results]
      BY <2>2 DEF m
    <3>2. CASE m.to \in rqueues
      <4>1. /\ rbuf' = [rbuf EXCEPT ![m.to] = Append(@, m.reply)]
            /\ Append(rbuf[m.to], m.reply) \in Seq(Results)
        BY <1>2, <2>3, <3>2 DEF SendResult, m
      <4>2. rbuf' \in [Handlers -> Seq(Results)]
        BY <3>1, <4>1
      <4>3. /\ mreply' = <<>>
            /\ mpc' = "receive"
            /\ UNCHANGED <<list, result, mainq, rqueues, ports>>
            /\ UNCHANGED <<listening, hpc, procVars, clientVars>>
        BY <1>2, <3>2 DEF SendResult, m
      <4> QED
        BY <4>2, <4>3, EmptyHasNoLength
    <3>3. CASE m.to \notin rqueues
      <4>1. EndService("aborted") /\ UNCHANGED <<listening, hpc, procVars, clientVars>>
        BY <1>2, <3>3 DEF SendResult, m
      <4> QED
        BY <4>1, EmptyHasNoLength DEF EndService
    <3> QED
      BY <3>2, <3>3
<1>3. CASE Terminate
  BY <1>3 DEF Terminate, EndService
<1>4. CASE StopGroup
  <2>1. hpc' \in [Handlers -> Running \cup {"none", "done", "killed"}]
    BY <1>4 DEF StopGroup
  <2>2. CASE Interruptible
    <3>1. /\ EndService("exited")
          /\ listening' \in BOOLEAN
          /\ UNCHANGED <<procVars, clientVars>>
      BY <1>4, <2>2 DEF StopGroup
    <3> QED
      BY <2>1, <3>1, EmptyHasNoLength DEF EndService
  <2>3. CASE ~Interruptible
    BY <1>4, <2>1, <2>3 DEF StopGroup
  <2> QED
    BY <2>2, <2>3
<1> QED
  BY <1>1, <1>2, <1>3, <1>4

LEMMA EnvironmentType ==
  ASSUME IInv,
         \/ \E h \in Handlers : Alarm(h) \/ Client(h)
         \/ \E p \in PortIds : PortVanishes(p)
  PROVE  TypeOK'
<1> USE DEF IInv, TypeOK, mainVars, procVars, kernelVars, clientVars, Goto, Running
<1>1. ASSUME NEW h \in Handlers, Alarm(h) PROVE TypeOK'
  BY <1>1 DEF Alarm
<1>2. ASSUME NEW h \in Handlers, Connect(h) PROVE TypeOK'
  BY <1>2 DEF Connect
<1>3. ASSUME NEW h \in Handlers, ClientWrites(h) PROVE TypeOK'
  <2>1. sent[h] \in 0..3 /\ sent[h] < Tokens(h)
    BY <1>3 DEF ClientWrites
  <2>2. Tokens(h) \in {2, 3}
    BY DEF Tokens
  <2>3. sent[h] + 1 \in 0..3
    BY ONLY <2>1, <2>2
  <2> QED
    BY <1>3, <2>3 DEF ClientWrites
<1>4. ASSUME NEW h \in Handlers, ClientCloses(h) PROVE TypeOK'
  BY <1>4 DEF ClientCloses
<1>5. ASSUME NEW p \in PortIds, PortVanishes(p) PROVE TypeOK'
  BY <1>5 DEF PortVanishes
<1> QED
  BY <1>1, <1>2, <1>3, <1>4, <1>5 DEF Client

(* Every step keeps the types. *)
LEMMA TypeStep ==
  ASSUME IInv, [Next]_vars
  PROVE  TypeOK'
<1>1. CASE Next
  BY <1>1, Steps, HandlerType, ServiceType, EnvironmentType
<1>2. CASE UNCHANGED vars
  BY <1>2 DEF IInv, TypeOK, vars, mainVars, procVars, kernelVars, clientVars
<1> QED
  BY <1>1, <1>2

-----------------------------------------------------------------------------
(* The order of the list.                                                  *)

(* Only the handling of a message and the end of the service change it. *)
LEMMA SortedStep ==
  ASSUME IInv, [Next]_vars
  PROVE  RegistrySorted'
<1>1. CASE HandleMessage
  <2> DEFINE m == Head(mainq)
  <2>1. m \in Messages
    BY <1>1, HeadTailProperties DEF HandleMessage, IInv, TypeOK
  <2>2. m.name \in Names /\ m.id \in PortIds
    BY <2>1 DEF Messages
  <2>3. list \in Lists(Names, PortIds) /\ Sorted(list)
    BY ListsAreTyped DEF IInv, TypeOK, RegistrySorted
  <2>4. Find(list, m.name) = NotFound => Sorted(Insert(list, m.name, m.id))
    BY <2>2, <2>3, FindNotFound, InsertKeepsSorted, NamesAssumption, PortIdsAssumption
  <2>5. Sorted(Erase(list, m.name))
    BY <2>3, EraseKeepsSorted
  <2> HIDE DEF m
  <2>6. HandleAdd(m) \/ HandleFind(m) \/ HandleRemove(m)
    BY <1>1 DEF HandleMessage, m
  <2> QED
    BY <2>3, <2>4, <2>5, <2>6 DEF HandleAdd, HandleFind, HandleRemove, RegistrySorted
<1>2. ASSUME NEW how, EndService(how)
      PROVE  RegistrySorted'
  BY <1>2 DEF EndService, RegistrySorted, Sorted
<1>3. ASSUME UNCHANGED list
      PROVE  RegistrySorted'
  BY <1>3 DEF RegistrySorted, IInv
<1>4. CASE SendResult \/ Terminate \/ StopGroup
  BY <1>2, <1>3, <1>4 DEF SendResult, Terminate, StopGroup, mainVars
<1>5. ASSUME NEW h \in Handlers, Handler(h) \/ Alarm(h) \/ Client(h)
      PROVE  UNCHANGED list
  BY <1>5 DEF Handler, OpenReplyQueue, ResetStatus, ScanCommand, ScanName, ScanId,
              SendCommand, ReceiveReply, Forward, Finish, Close, Alarm,
              Client, Connect, ClientWrites, ClientCloses, mainVars
<1>6. ASSUME NEW p \in PortIds, PortVanishes(p)
      PROVE  UNCHANGED list
  BY <1>6 DEF PortVanishes, mainVars
<1>7. CASE UNCHANGED vars
  BY <1>3, <1>7 DEF vars, mainVars
<1> QED
  BY <1>1, <1>3, <1>4, <1>5, <1>6, <1>7, Steps

-----------------------------------------------------------------------------
(* Requests.                                                               *)

LEMMA RequestStep ==
  ASSUME IInv, [Next]_vars
  PROVE  RequestKnown'
<1> USE DEF IInv, TypeOK, RequestKnown
<1>1. ASSUME UNCHANGED <<hpc, req>>
      PROVE  RequestKnown'
  BY <1>1
<1>2. CASE HandleMessage \/ SendResult \/ Terminate
  BY <1>1, <1>2 DEF HandleMessage, SendResult, Terminate, clientVars
<1>3. CASE StopGroup
  BY <1>3 DEF StopGroup, clientVars, Running
<1>4. ASSUME NEW h \in Handlers, Handler(h)
      PROVE  RequestKnown'
  <2>1. UNCHANGED req
    BY <1>4 DEF Handler, OpenReplyQueue, ResetStatus, ScanCommand, ScanName, ScanId,
                SendCommand, ReceiveReply, Forward, Finish, Close, clientVars
  <2>2. CASE ScanCommand(h)
    BY <2>1, <2>2 DEF ScanCommand, Goto
  <2>3. CASE ScanName(h)
    BY <2>1, <2>3 DEF ScanName, Goto
  <2>4. CASE ScanId(h)
    BY <2>1, <2>4 DEF ScanId, Goto
  <2>5. CASE OpenReplyQueue(h) \/ ResetStatus(h) \/ SendCommand(h)
    BY <2>1, <2>5 DEF OpenReplyQueue, ResetStatus, SendCommand, Goto
  <2>6. CASE ReceiveReply(h) \/ Forward(h) \/ Finish(h) \/ Close(h)
    BY <2>1, <2>6 DEF ReceiveReply, Forward, Finish, Close, Goto
  <2> QED
    BY <1>4, <2>2, <2>3, <2>4, <2>5, <2>6 DEF Handler
<1>5. ASSUME NEW h \in Handlers, Alarm(h)
      PROVE  RequestKnown'
  BY <1>5 DEF Alarm, Goto, Running, clientVars
<1>6. ASSUME NEW h \in Handlers, Client(h)
      PROVE  RequestKnown'
  <2>1. CASE Connect(h)
    BY <2>1 DEF Connect
  <2>2. CASE ClientWrites(h) \/ ClientCloses(h)
    BY <1>1, <2>2 DEF ClientWrites, ClientCloses
  <2> QED
    BY <1>6, <2>1, <2>2 DEF Client
<1>7. ASSUME NEW p \in PortIds, PortVanishes(p)
      PROVE  RequestKnown'
  BY <1>1, <1>7 DEF PortVanishes, clientVars
<1>8. CASE UNCHANGED vars
  BY <1>1, <1>8 DEF vars, clientVars
<1> QED
  BY <1>2, <1>3, <1>4, <1>5, <1>6, <1>7, <1>8, Steps

-----------------------------------------------------------------------------
(* Where the command of each handler is.                                   *)

(* Everything that CommandTracked speaks of but the control of handlers. *)
trackedVars == <<mpc, mreply, result, mainq, rbuf, hreply, out>>

(* Steps that only move a handler on, short of "receive" and "forward": to *)
(* "finish" a handler gets from where it has forwarded nothing.            *)
LEMMA MoveKeepsTracked ==
  ASSUME TypeOK, CommandTracked, UNCHANGED trackedVars,
         \A h \in Handlers :
           \/ hpc'[h] = hpc[h]
           \/ hpc'[h] \in BeforeSend /\ hpc[h] \in BeforeSend
           \/ hpc'[h] = "finish" /\ hpc[h] \in BeforeSend \cup {"receive", "forward", "finish"}
           \/ hpc'[h] \in {"close", "done", "killed"}
  PROVE  CommandTracked'
<1> USE DEF trackedVars
<1>1. QueuedOnce' /\ AnswerRecorded'
  BY DEF CommandTracked, QueuedOnce, AnswerRecorded
<1>2. ASSUME NEW h \in Handlers
      PROVE  (Queued(h)' <=> Queued(h)) /\ (Answering(h)' <=> Answering(h))
  BY DEF Queued, Answering
<1>3. ASSUME NEW h \in Handlers
      PROVE  ResultTracked(h)'
  BY <1>2 DEF CommandTracked, ResultTracked, BeforeSend
<1>4. ASSUME NEW h \in Handlers
      PROVE  OutputTracked(h)'
  BY DEF CommandTracked, OutputTracked, BeforeSend
<1> QED
  BY <1>1, <1>3, <1>4 DEF CommandTracked

(* The message goes to the end of the queue, the only one of its handler. *)
LEMMA SendTracked ==
  ASSUME IInv, NEW h \in Handlers, SendCommand(h)
  PROVE  CommandTracked'
<1> USE DEF IInv, TypeOK
<1>1. CASE mpc \in Stopped
  BY <1>1, MoveKeepsTracked
     DEF SendCommand, Goto, trackedVars, mainVars, procVars, clientVars, BeforeSend
<1>2. CASE mpc \notin Stopped
  <2>1. /\ hpc[h] = "send"
        /\ mainq' = Append(mainq, Message(h))
        /\ hpc' = [hpc EXCEPT ![h] = "receive"]
        /\ UNCHANGED <<mpc, mreply, result, hreply, rbuf, out>>
    BY <1>2 DEF SendCommand, Goto, mainVars, procVars, clientVars
  <2>2. Message(h) \in Messages /\ Message(h).to = h
    BY <2>1, MessageType
  <2>3. /\ Len(mainq) \in Nat
        /\ DOMAIN mainq = 1..Len(mainq)
        /\ DOMAIN mainq' = 1..(Len(mainq) + 1)
        /\ \A i \in 1..Len(mainq) : mainq'[i] = mainq[i]
        /\ mainq'[Len(mainq) + 1].to = h
    BY <2>1, <2>2, AppendProperties, LenProperties
  <2>4. ~Queued(h) /\ result[h] = NoReply
    BY <2>1 DEF CommandTracked, ResultTracked, BeforeSend
  <2>5. QueuedOnce'
    <3>1. \A i \in 1..Len(mainq) : mainq'[i].to # h
      BY <2>3, <2>4 DEF Queued
    <3>2. \A i, j \in 1..Len(mainq) : mainq'[i].to = mainq'[j].to => i = j
      BY <2>3 DEF QueuedOnce, CommandTracked
    <3>3. \A i, j \in 1..(Len(mainq) + 1) : mainq'[i].to = mainq'[j].to => i = j
      BY ONLY <2>3, <3>1, <3>2
    <3> QED
      BY ONLY <2>3, <3>3 DEF QueuedOnce
  <2>6. AnswerRecorded'
    BY <2>1 DEF AnswerRecorded, CommandTracked
  <2>7. ASSUME NEW k \in Handlers, k # h
        PROVE  Queued(k)' <=> Queued(k)
    <3>1. (\E i \in 1..(Len(mainq) + 1) : mainq'[i].to = k)
            <=> (\E i \in 1..Len(mainq) : mainq[i].to = k)
      BY ONLY <2>3, <2>7
    <3> QED
      BY ONLY <2>3, <3>1 DEF Queued
  <2>8. ASSUME NEW k \in Handlers
        PROVE  ResultTracked(k)' /\ OutputTracked(k)'
    <3>1. CASE k = h
      BY <2>1, <2>4, <3>1 DEF CommandTracked, ResultTracked, OutputTracked, Answering, BeforeSend
    <3>2. CASE k # h
      BY <2>1, <2>7, <3>2 DEF CommandTracked, ResultTracked, OutputTracked, Answering
    <3> QED
      BY <3>1, <3>2
  <2> QED
    BY <2>5, <2>6, <2>8 DEF CommandTracked
<1> QED
  BY <1>1, <1>2

(* A handler takes its result, forwards it, reports a timeout, ends. *)
LEMMA AnswerTracked ==
  ASSUME IInv, NEW h \in Handlers,
         ReceiveReply(h) \/ Forward(h) \/ Finish(h) \/ Close(h)
  PROVE  CommandTracked'
<1> USE DEF IInv, TypeOK, mainVars, procVars, kernelVars, clientVars, Goto
<1>1. UNCHANGED <<mpc, mreply, result, mainq>>
  BY DEF ReceiveReply, Forward, Finish, Close
<1>2. QueuedOnce' /\ AnswerRecorded'
  BY <1>1 DEF CommandTracked, QueuedOnce, AnswerRecorded
<1>3. ASSUME NEW k \in Handlers
      PROVE  (Queued(k)' <=> Queued(k)) /\ (Answering(k)' <=> Answering(k))
  BY <1>1 DEF Queued, Answering
<1>4. ASSUME NEW k \in Handlers
      PROVE  ResultTracked(k) /\ OutputTracked(k)
  BY DEF CommandTracked
<1>5. CASE ReceiveReply(h)
  <2>1. /\ hpc[h] = "receive"
        /\ rbuf[h] # <<>>
        /\ hreply' = [hreply EXCEPT ![h] = Head(rbuf[h])]
        /\ rbuf' = [rbuf EXCEPT ![h] = Tail(@)]
        /\ hpc' = [hpc EXCEPT ![h] = "forward"]
        /\ UNCHANGED out
    BY <1>5 DEF ReceiveReply
  <2>2. rbuf[h] = <<result[h]>> /\ result[h] # NoReply /\ ~Answering(h)
    BY <1>4, <2>1 DEF ResultTracked
  <2>3. Head(rbuf[h]) = result[h] /\ Tail(rbuf[h]) = <<>>
    BY <2>2
  <2>4. ASSUME NEW k \in Handlers
        PROVE  ResultTracked(k)'
    <3>1. CASE k = h
      BY <1>1, <1>3, <1>4, <2>1, <2>2, <2>3, <3>1 DEF ResultTracked, BeforeSend
    <3>2. CASE k # h
      BY <1>1, <1>3, <1>4, <2>1, <3>2 DEF ResultTracked
    <3> QED
      BY <3>1, <3>2
  <2>5. ASSUME NEW k \in Handlers
        PROVE  OutputTracked(k)'
    BY <1>1, <1>4, <2>1 DEF OutputTracked, BeforeSend
  <2> QED
    BY <1>2, <2>4, <2>5 DEF CommandTracked
<1>6. CASE Forward(h)
  <2>1. /\ hpc[h] = "forward"
        /\ hpc' = [hpc EXCEPT ![h] = "finish"]
        /\ UNCHANGED <<rbuf, hreply>>
        /\ out' = out \/ out' = [out EXCEPT ![h] = Append(@, hreply[h])]
    BY <1>6 DEF Forward, Write
  <2>2. hreply[h] = result[h] /\ result[h] # NoReply /\ out[h] = <<>>
    BY <1>4, <2>1 DEF ResultTracked, OutputTracked
  <2>3. out' = out \/ out' = [out EXCEPT ![h] = <<result[h]>>]
    BY <2>1, <2>2
  <2>4. ASSUME NEW k \in Handlers
        PROVE  ResultTracked(k)'
    BY <1>1, <1>3, <1>4, <2>1 DEF ResultTracked, BeforeSend
  <2>5. ASSUME NEW k \in Handlers
        PROVE  OutputTracked(k)'
    <3>1. CASE k = h
      BY <1>1, <1>4, <2>1, <2>2, <2>3, <3>1 DEF OutputTracked, BeforeSend
    <3>2. CASE k # h
      BY <1>1, <1>4, <2>1, <2>3, <3>2 DEF OutputTracked
    <3> QED
      BY <3>1, <3>2
  <2> QED
    BY <1>2, <2>4, <2>5 DEF CommandTracked
<1>7. CASE Finish(h)
  <2>1. /\ hpc[h] = "finish"
        /\ hpc' = [hpc EXCEPT ![h] = "close"]
        /\ UNCHANGED <<rbuf, hreply>>
        /\ out' = out \/ out' = [out EXCEPT ![h] = Append(@, Timeout)]
    BY <1>7 DEF Finish, Write
  <2>2. out[h] = <<>> \/ (out[h] = <<result[h]>> /\ result[h] # NoReply)
    BY <1>4, <2>1 DEF OutputTracked
  <2>3. \/ out' = out
        \/ out' = [out EXCEPT ![h] = <<Timeout>>]
        \/ out' = [out EXCEPT ![h] = <<result[h], Timeout>>] /\ result[h] # NoReply
    <3>1. \/ Append(out[h], Timeout) = <<Timeout>>
          \/ Append(out[h], Timeout) = <<result[h], Timeout>> /\ result[h] # NoReply
      BY <2>2, ShortAppends
    <3> QED
      BY <2>1, <3>1
  <2>4. ASSUME NEW k \in Handlers
        PROVE  ResultTracked(k)'
    BY <1>1, <1>3, <1>4, <2>1 DEF ResultTracked, BeforeSend
  <2>5. ASSUME NEW k \in Handlers
        PROVE  OutputTracked(k)'
    <3>1. CASE k = h
      BY <1>1, <1>4, <2>1, <2>2, <2>3, <3>1 DEF OutputTracked, BeforeSend
    <3>2. CASE k # h
      BY <1>1, <1>4, <2>1, <2>3, <3>2 DEF OutputTracked
    <3> QED
      BY <3>1, <3>2
  <2> QED
    BY <1>2, <2>4, <2>5 DEF CommandTracked
<1>8. CASE Close(h)
  <2>1. /\ hpc' = [hpc EXCEPT ![h] = "done"]
        /\ rbuf' = [rbuf EXCEPT ![h] = <<>>]
        /\ UNCHANGED <<hreply, out>>
    BY <1>8 DEF Close
  <2>2. ASSUME NEW k \in Handlers
        PROVE  ResultTracked(k)' /\ OutputTracked(k)'
    BY <1>1, <1>3, <1>4, <2>1 DEF ResultTracked, OutputTracked, BeforeSend
  <2> QED
    BY <1>2, <2>2 DEF CommandTracked
<1> QED
  BY <1>5, <1>6, <1>7, <1>8

(* The service takes the first message: its command now has a result. *)
LEMMA HandleTracked ==
  ASSUME IInv, HandleMessage
  PROVE  CommandTracked'
<1> DEFINE m == Head(mainq)
<1> USE DEF IInv, TypeOK
<1>1. /\ mpc = "receive"
      /\ mpc' = "reply"
      /\ mainq' = Tail(mainq)
      /\ UNCHANGED <<hpc, rbuf, hreply, out>>
  BY DEF HandleMessage, procVars, clientVars
<1>2. /\ Len(mainq) \in Nat \ {0}
      /\ DOMAIN mainq = 1..Len(mainq)
      /\ DOMAIN mainq' = 1..(Len(mainq) - 1)
      /\ \A i \in 1..(Len(mainq) - 1) : mainq'[i] = mainq[i + 1]
      /\ m = mainq[1]
      /\ m \in Messages
  <2>1. mainq # <<>>
    BY DEF HandleMessage
  <2>2. /\ Len(mainq) \in Nat \ {0}
        /\ DOMAIN mainq = 1..Len(mainq)
        /\ m = mainq[1]
    BY <2>1, LenProperties, EmptySeq
  <2>3. /\ m \in Messages
        /\ Tail(mainq) \in Seq(Messages)
        /\ Len(Tail(mainq)) = Len(mainq) - 1
        /\ \A i \in 1..Len(Tail(mainq)) : Tail(mainq)[i] = mainq[i + 1]
    BY <2>1, HeadTailProperties
  <2>4. DOMAIN Tail(mainq) = 1..Len(Tail(mainq))
    BY <2>3, LenProperties
  <2> QED
    BY <1>1, <2>2, <2>3, <2>4
<1>3. PICK g \in Handlers : g = m.to
  BY <1>2 DEF Messages
<1>4. \E r \in Results : /\ mreply' = <<[to |-> g, reply |-> r]>>
                        /\ result' = [result EXCEPT ![g] = r]
  <2>1. m.name \in Names /\ m.id \in PortIds
    BY <1>2 DEF Messages
  <2>2. Find(list, m.name) \in PortIds \cup {NotFound}
    BY FindType, ListsAreTyped
  <2> HIDE DEF m
  <2>3. HandleAdd(m) \/ HandleFind(m) \/ HandleRemove(m)
    BY DEF HandleMessage, m
  <2>4. \E text \in Texts, id \in PortIds \cup {NotFound} : Answer(m, text, id)
    BY <2>2, <2>3 DEF HandleAdd, HandleFind, HandleRemove, Texts
  <2>5. ASSUME NEW text \in Texts, NEW id \in PortIds \cup {NotFound}
        PROVE  Reply(text, id) \in Results
    BY DEF Reply, Results
  <2> QED
    BY <1>3, <2>4, <2>5 DEF Answer
<1>5. PICK r \in Results : /\ mreply' = <<[to |-> g, reply |-> r]>>
                         /\ result' = [result EXCEPT ![g] = r]
  BY <1>4
<1>6. r # NoReply
  BY NoReplyIsNoResult
<1>7. Queued(g) /\ result[g] = NoReply
  <2>1. 1 \in DOMAIN mainq /\ mainq[1].to = g
    BY <1>2, <1>3
  <2>2. Queued(g)
    BY <2>1 DEF Queued
  <2> QED
    BY <2>2 DEF CommandTracked, ResultTracked
<1> HIDE DEF m
<1>8. QueuedOnce' /\ ~Queued(g)'
  <2>1. \A i, j \in 1..Len(mainq) : mainq[i].to = mainq[j].to => i = j
    BY <1>2 DEF CommandTracked, QueuedOnce
  <2>2. \A i, j \in 1..(Len(mainq) - 1) : mainq'[i].to = mainq'[j].to => i = j
    BY ONLY <1>2, <2>1
  <2>3. \A i \in 1..(Len(mainq) - 1) : mainq'[i].to # g
    BY ONLY <1>2, <1>3, <2>1
  <2> QED
    BY ONLY <1>2, <2>2, <2>3 DEF QueuedOnce, Queued
<1>9. mreply'[1].to = g /\ mreply'[1].reply = r
  BY <1>5
<1>10. AnswerRecorded'
  BY <1>5, <1>3, <1>9 DEF AnswerRecorded
<1>11. ASSUME NEW k \in Handlers, k # g
       PROVE  /\ Queued(k)' => Queued(k)
              /\ ~Answering(k)'
              /\ result'[k] = result[k]
  <2>1. Queued(k)' => Queued(k)
    <3>1. ASSUME NEW i \in 1..(Len(mainq) - 1), mainq'[i].to = k
          PROVE  \E j \in 1..Len(mainq) : mainq[j].to = k
      <4>1. i + 1 \in 1..Len(mainq) /\ mainq[i + 1].to = k
        BY ONLY <1>2, <3>1
      <4> QED
        BY <4>1
    <3> QED
      BY ONLY <1>2, <3>1 DEF Queued
  <2> QED
    BY <1>5, <1>9, <1>11, <2>1 DEF Answering
<1>12. ASSUME NEW k \in Handlers
       PROVE  ResultTracked(k)' /\ OutputTracked(k)'
  <2>1. ResultTracked(k) /\ OutputTracked(k)
    BY DEF CommandTracked
  <2>2. CASE k = g
    <3>1. hpc[g] \notin BeforeSend /\ rbuf[g] = <<>> /\ hreply[g] = NoReply
      BY <1>3, <1>7, <2>1, <2>2 DEF ResultTracked
    <3>2. result'[g] = r
      BY <1>5, <1>3
    <3>3. ResultTracked(g)'
      BY <1>1, <1>6, <1>8, <2>1, <2>2, <3>1, <3>2 DEF ResultTracked, BeforeSend
    <3>4. out[g] \in {<<>>, <<Timeout>>}
      BY <1>7, <2>1, <2>2, NoReplyIsNoResult DEF OutputTracked
    <3>5. OutputTracked(g)'
      BY <1>1, <1>6, <1>7, <2>1, <2>2, <3>1, <3>2, <3>4 DEF OutputTracked, BeforeSend
    <3> QED
      BY <2>2, <3>3, <3>5
  <2>3. CASE k # g
    <3>1. ResultTracked(k)'
      BY <1>1, <1>11, <2>1, <2>3 DEF ResultTracked, BeforeSend
    <3>2. OutputTracked(k)'
      BY <1>1, <1>11, <2>1, <2>3 DEF OutputTracked, BeforeSend
    <3> QED
      BY <3>1, <3>2
  <2> QED
    BY <2>2, <2>3
<1> QED
  BY <1>8, <1>10, <1>12 DEF CommandTracked

(* With the end of the service its queue and its pending result are gone;  *)
(* of the handlers, some may be killed.                                    *)
LEMMA EndTracked ==
  ASSUME TypeOK, CommandTracked, NEW how \in Stopped, EndService(how),
         UNCHANGED <<hreply, out>>,
         \A h \in Handlers : hpc'[h] = hpc[h] \/ hpc'[h] = "killed"
  PROVE  CommandTracked'
<1>1. /\ mpc' # "reply"
      /\ mainq' = <<>>
      /\ UNCHANGED <<result, rbuf>>
  BY DEF EndService, Stopped
<1>2. DOMAIN mainq' = {}
  BY <1>1, EmptyHasNoLength
<1>3. QueuedOnce' /\ AnswerRecorded'
  BY <1>1, <1>2 DEF QueuedOnce, AnswerRecorded
<1>4. ASSUME NEW h \in Handlers
      PROVE  ~Queued(h)' /\ ~Answering(h)'
  BY <1>1, <1>2 DEF Queued, Answering
<1>5. ASSUME NEW h \in Handlers
      PROVE  ResultTracked(h)'
  BY <1>1, <1>4 DEF CommandTracked, ResultTracked, BeforeSend
<1>6. ASSUME NEW h \in Handlers
      PROVE  OutputTracked(h)'
  BY <1>1 DEF CommandTracked, OutputTracked, BeforeSend
<1> QED
  BY <1>3, <1>5, <1>6 DEF CommandTracked

(* The result arrives in the reply queue, which was empty until then. *)
LEMMA ResultTrackedStep ==
  ASSUME IInv, SendResult
  PROVE  CommandTracked'
<1> USE DEF IInv, TypeOK
<1>1. mpc = "reply" /\ Len(mreply) = 1
  BY DEF SendResult
<1>2. PICK g \in Handlers, r \in Results : mreply[1].to = g /\ mreply[1].reply = r
  <2>1. mreply[1] \in [to : Handlers, reply : Results]
    BY <1>1, FirstProperties
  <2> QED
    BY <2>1
<1>3. Head(mreply) = mreply[1]
  BY <1>1
<1>4. Answering(g) /\ result[g] = r /\ r # NoReply
  BY <1>1, <1>2, NoReplyIsNoResult DEF Answering, CommandTracked, AnswerRecorded
<1>5. rbuf[g] = <<>> /\ hreply[g] = NoReply
  BY <1>4 DEF CommandTracked, ResultTracked
<1>6. CASE g \notin rqueues
  <2>1. EndService("aborted") /\ UNCHANGED <<hpc, hreply, out>>
    BY <1>2, <1>3, <1>6 DEF SendResult, procVars, clientVars
  <2> QED
    BY <2>1, EndTracked DEF Stopped
<1>7. CASE g \in rqueues
  <2>1. /\ rbuf' = [rbuf EXCEPT ![g] = Append(@, r)]
        /\ mpc' = "receive"
        /\ UNCHANGED <<mainq, result, hpc, hreply, out>>
    BY <1>2, <1>3, <1>7 DEF SendResult, procVars, clientVars
  <2>2. rbuf' = [rbuf EXCEPT ![g] = <<r>>]
    BY <1>5, <2>1, ShortAppends
  <2>3. QueuedOnce' /\ AnswerRecorded'
    BY <2>1 DEF CommandTracked, QueuedOnce, AnswerRecorded
  <2>4. ASSUME NEW k \in Handlers
        PROVE  (Queued(k)' <=> Queued(k)) /\ ~Answering(k)'
    BY <2>1 DEF Queued, Answering
  <2>5. ASSUME NEW k \in Handlers
        PROVE  ResultTracked(k)'
    <3>1. ResultTracked(k)
      BY DEF CommandTracked
    <3>2. CASE k = g
      BY <1>4, <1>5, <2>1, <2>2, <2>4, <3>1, <3>2 DEF ResultTracked, BeforeSend
    <3>3. CASE k # g
      BY <2>1, <2>2, <2>4, <3>1, <3>3 DEF ResultTracked, BeforeSend
    <3> QED
      BY <3>2, <3>3
  <2>6. ASSUME NEW k \in Handlers
        PROVE  OutputTracked(k)'
    BY <2>1 DEF CommandTracked, OutputTracked, BeforeSend
  <2> QED
    BY <2>3, <2>5, <2>6 DEF CommandTracked
<1> QED
  BY <1>6, <1>7

LEMMA CommandStep ==
  ASSUME IInv, [Next]_vars
  PROVE  CommandTracked'
<1> USE DEF IInv, TypeOK, mainVars, procVars, kernelVars, clientVars
<1>1. CASE Terminate
  BY <1>1, EndTracked DEF Terminate, Stopped
<1>2. CASE StopGroup
  <2>1. /\ UNCHANGED <<hreply, out>>
        /\ \A h \in Handlers : hpc'[h] = hpc[h] \/ hpc'[h] = "killed"
    BY <1>2 DEF StopGroup
  <2>2. CASE Interruptible
    BY <1>2, <2>1, <2>2, EndTracked DEF StopGroup, Stopped
  <2>3. CASE ~Interruptible
    BY <1>2, <2>1, <2>3, MoveKeepsTracked DEF StopGroup, trackedVars
  <2> QED
    BY <2>2, <2>3
<1>3. ASSUME NEW h \in Handlers, Handler(h)
      PROVE  CommandTracked'
  <2>1. CASE OpenReplyQueue(h) \/ ResetStatus(h)
    BY <2>1, MoveKeepsTracked DEF OpenReplyQueue, ResetStatus, Goto, trackedVars, BeforeSend
  <2>2. CASE ScanCommand(h)
    BY <2>2, MoveKeepsTracked DEF ScanCommand, Goto, trackedVars, BeforeSend
  <2>3. CASE ScanName(h)
    BY <2>3, MoveKeepsTracked DEF ScanName, Goto, trackedVars, BeforeSend
  <2>4. CASE ScanId(h)
    BY <2>4, MoveKeepsTracked DEF ScanId, Goto, trackedVars, BeforeSend
  <2> QED
    BY <1>3, <2>1, <2>2, <2>3, <2>4, SendTracked, AnswerTracked DEF Handler
<1>4. ASSUME NEW h \in Handlers, Alarm(h)
      PROVE  CommandTracked'
  BY <1>4, MoveKeepsTracked DEF Alarm, Blocked, Goto, trackedVars, BeforeSend
<1>5. ASSUME NEW h \in Handlers, Client(h)
      PROVE  CommandTracked'
  BY <1>5, MoveKeepsTracked
     DEF Client, Connect, ClientWrites, ClientCloses, trackedVars, BeforeSend
<1>6. ASSUME NEW p \in PortIds, PortVanishes(p)
      PROVE  CommandTracked'
  BY <1>6, MoveKeepsTracked DEF PortVanishes, trackedVars
<1>7. CASE UNCHANGED vars
  BY <1>7, MoveKeepsTracked DEF vars, trackedVars
<1> QED
  BY <1>1, <1>2, <1>3, <1>4, <1>5, <1>6, <1>7, Steps, HandleTracked, ResultTrackedStep

-----------------------------------------------------------------------------
(* Reply queues and the commands under way.                                *)

(* No handler gets a command under way but by sending it. *)
LEMMA UnderWayOnlyAfterSend ==
  ASSUME TypeOK, CommandTracked, NEW h \in Handlers, UnderWay(h)
  PROVE  /\ hpc[h] \notin BeforeSend
         /\ hreply[h] = NoReply
         /\ hpc[h] # "forward"
<1>1. ResultTracked(h) /\ AnswerRecorded
  BY DEF CommandTracked
<1>2. CASE Queued(h)
  BY <1>1, <1>2 DEF ResultTracked
<1>3. CASE Answering(h)
  <2>1. Len(mreply) = 1 /\ mpc = "reply"
    BY <1>3 DEF TypeOK, Answering
  <2>2. mreply[1] \in [to : Handlers, reply : Results]
    BY <2>1, FirstProperties DEF TypeOK
  <2>3. result[h] # NoReply
    BY <1>1, <1>3, <2>1, <2>2, NoReplyIsNoResult DEF AnswerRecorded, Answering
  <2> QED
    BY <1>1, <1>3, <2>3 DEF ResultTracked
<1> QED
  BY <1>2, <1>3 DEF UnderWay

(* Steps of handlers, their alarms and clients: what is under way is so    *)
(* after the step only if it was before, or was sent in it.                *)
LEMMA HandlerQueue ==
  ASSUME IInv, NEW h \in Handlers, Handler(h)
  PROVE  ReplyQueueTracked'
<1> USE DEF IInv, TypeOK, mainVars, procVars, kernelVars, clientVars, Goto, Running
<1>1. UNCHANGED <<mpc, mreply>> /\ (mpc \in Stopped => mainq = <<>>)
  BY DEF ReplyQueueTracked, Handler, OpenReplyQueue, ResetStatus, ScanCommand, ScanName,
         ScanId, SendCommand, ReceiveReply, Forward, Finish, Close
<1>2. ASSUME NEW k \in Handlers
      PROVE  /\ QueueTracked(k)
             /\ UnderWay(k) => /\ mpc \notin Stopped
                               /\ hpc[k] \notin BeforeSend
                               /\ hpc[k] # "forward"
  <2>1. QueueTracked(k)
    BY DEF ReplyQueueTracked
  <2>2. UnderWay(k) => mpc \notin Stopped
    BY <1>1, EmptyHasNoLength DEF UnderWay, Queued, Answering, Stopped
  <2> QED
    BY <2>1, <2>2, UnderWayOnlyAfterSend
<1>3. ASSUME UNCHANGED mainq
      PROVE  \A k \in Handlers : UnderWay(k)' <=> UnderWay(k)
  BY <1>1, <1>3 DEF UnderWay, Queued, Answering
<1>4. CASE OpenReplyQueue(h)
  <2>1. UNCHANGED mainq
    BY <1>4 DEF OpenReplyQueue
  <2>2. ASSUME NEW k \in Handlers
        PROVE  QueueTracked(k)'
    BY <1>2, <1>3, <1>4, <2>1 DEF OpenReplyQueue, QueueTracked, BeforeSend
  <2> QED
    BY <1>1, <2>1, <2>2 DEF ReplyQueueTracked
<1>5. CASE ResetStatus(h) \/ ScanCommand(h) \/ ScanName(h) \/ ScanId(h)
  <2>1. /\ UNCHANGED <<mainq, alarm, rqueues>>
        /\ hpc[h] \in BeforeSend \ {"none", "open"}
        /\ \E pc \in Running \ {"open"} : hpc' = [hpc EXCEPT ![h] = pc]
    BY <1>5 DEF ResetStatus, ScanCommand, ScanName, ScanId, BeforeSend
  <2>2. ASSUME NEW k \in Handlers
        PROVE  QueueTracked(k)'
    <3>1. CASE k = h
      <4>1. ~UnderWay(h)'
        BY <1>2, <1>3, <2>1
      <4>2. h \in rqueues' /\ hpc'[h] \in Running \ {"open"}
        BY <1>2, <2>1 DEF QueueTracked, BeforeSend
      <4> QED
        BY <3>1, <4>1, <4>2 DEF QueueTracked
    <3>2. CASE k # h
      <4>1. hpc'[k] = hpc[k]
        BY <2>1, <3>2
      <4> QED
        BY <1>2, <1>3, <2>1, <4>1 DEF QueueTracked
    <3> QED
      BY <3>1, <3>2
  <2> QED
    BY <1>1, <2>1, <2>2 DEF ReplyQueueTracked
<1>6. CASE SendCommand(h)
  <2>1. /\ UNCHANGED <<alarm, rqueues>>
        /\ hpc[h] = "send"
        /\ h \in rqueues
    BY <1>2, <1>6 DEF SendCommand, QueueTracked
  <2>2. CASE mpc \in Stopped
    <3>1. UNCHANGED mainq /\ hpc' = [hpc EXCEPT ![h] = "finish"]
      BY <1>6, <2>2 DEF SendCommand
    <3>2. ASSUME NEW k \in Handlers
          PROVE  QueueTracked(k)'
      BY <1>2, <1>3, <2>1, <2>2, <3>1 DEF QueueTracked
    <3> QED
      BY <1>1, <3>1, <3>2 DEF ReplyQueueTracked
  <2>3. CASE mpc \notin Stopped
    <3>1. mainq' = Append(mainq, Message(h)) /\ hpc' = [hpc EXCEPT ![h] = "receive"]
      BY <1>6, <2>3 DEF SendCommand
    <3>2. Message(h) \in Messages /\ Message(h).to = h
      BY <2>1, MessageType
    <3>3. ASSUME NEW k \in Handlers, k # h
          PROVE  UnderWay(k)' => UnderWay(k)
      <4>1. /\ Len(mainq) \in Nat
            /\ DOMAIN mainq = 1..Len(mainq)
            /\ DOMAIN mainq' = 1..(Len(mainq) + 1)
            /\ \A i \in 1..Len(mainq) : mainq'[i] = mainq[i]
            /\ mainq'[Len(mainq) + 1].to = h
        BY <3>1, <3>2, AppendProperties, LenProperties
      <4>2. Queued(k)' => Queued(k)
        <5>1. (\E i \in 1..(Len(mainq) + 1) : mainq'[i].to = k)
                => \E i \in 1..Len(mainq) : mainq[i].to = k
          BY ONLY <3>3, <4>1
        <5> QED
          BY ONLY <4>1, <5>1 DEF Queued
      <4> QED
        BY <1>1, <4>2 DEF UnderWay, Answering
    <3>4. ASSUME NEW k \in Handlers
          PROVE  QueueTracked(k)'
      <4>1. CASE k = h
        BY <2>1, <3>1, <4>1 DEF QueueTracked
      <4>2. CASE k # h
        BY <1>2, <2>1, <3>1, <3>3, <4>2 DEF QueueTracked
      <4> QED
        BY <4>1, <4>2
    <3> QED
      BY <1>1, <2>3, <3>4 DEF ReplyQueueTracked
  <2> QED
    BY <2>2, <2>3
<1>7. CASE ReceiveReply(h) \/ Finish(h)
  <2>1. /\ UNCHANGED <<mainq, alarm, rqueues>>
        /\ \/ hpc[h] = "receive" /\ hpc' = [hpc EXCEPT ![h] = "forward"]
           \/ hpc[h] = "finish" /\ hpc' = [hpc EXCEPT ![h] = "close"]
    BY <1>7 DEF ReceiveReply, Finish
  <2>2. ASSUME NEW k \in Handlers
        PROVE  QueueTracked(k)'
    BY <1>2, <1>3, <2>1 DEF QueueTracked
  <2> QED
    BY <1>1, <2>1, <2>2 DEF ReplyQueueTracked
<1>8. CASE Forward(h)
  <2>1. /\ UNCHANGED <<mainq, alarm, rqueues>>
        /\ hpc[h] = "forward"
        /\ hpc' = [hpc EXCEPT ![h] = "finish"]
    BY <1>8 DEF Forward
  <2>2. ASSUME NEW k \in Handlers
        PROVE  QueueTracked(k)'
    BY <1>2, <1>3, <2>1 DEF QueueTracked
  <2> QED
    BY <1>1, <2>1, <2>2 DEF ReplyQueueTracked
<1>9. CASE Close(h)
  <2>1. /\ UNCHANGED <<mainq, alarm>>
        /\ rqueues' = rqueues \ {h}
        /\ hpc[h] = "close"
        /\ hpc' = [hpc EXCEPT ![h] = "done"]
    BY <1>9 DEF Close
  <2>2. ASSUME NEW k \in Handlers
        PROVE  QueueTracked(k)'
    BY <1>2, <1>3, <2>1 DEF QueueTracked
  <2> QED
    BY <1>1, <2>1, <2>2 DEF ReplyQueueTracked
<1> QED
  BY <1>4, <1>5, <1>6, <1>7, <1>8, <1>9 DEF Handler

LEMMA ServiceQueue ==
  ASSUME IInv, HandleMessage \/ SendResult \/ Terminate \/ StopGroup
  PROVE  ReplyQueueTracked'
<1> USE DEF IInv, TypeOK, mainVars, procVars, kernelVars, clientVars
<1>1. ASSUME NEW k \in Handlers
      PROVE  QueueTracked(k)
  BY DEF ReplyQueueTracked
<1>2. ASSUME NEW how \in Stopped, EndService(how), UNCHANGED alarm,
             \A k \in Handlers :
               \/ hpc'[k] = hpc[k]
               \/ hpc[k] \in Running /\ hpc'[k] = "killed"
      PROVE  ReplyQueueTracked'
  <2>1. mainq' = <<>> /\ mpc' # "reply" /\ UNCHANGED rqueues
    BY <1>2 DEF EndService, Stopped
  <2>2. ASSUME NEW k \in Handlers
        PROVE  ~UnderWay(k)'
    BY <2>1, EmptyHasNoLength DEF UnderWay, Queued, Answering
  <2>3. ASSUME NEW k \in Handlers
        PROVE  QueueTracked(k)'
    BY <1>1, <1>2, <2>1, <2>2 DEF QueueTracked, Running
  <2> QED
    BY <2>1, <2>3 DEF ReplyQueueTracked
<1>3. CASE HandleMessage
  <2>1. /\ mpc = "receive"
        /\ mpc' = "reply"
        /\ mainq' = Tail(mainq)
        /\ mainq # <<>>
        /\ UNCHANGED <<hpc, alarm, rqueues>>
    BY <1>3 DEF HandleMessage
  <2>2. mreply' = <<[to |-> Head(mainq).to, reply |-> mreply'[1].reply]>>
    <3> DEFINE m == Head(mainq)
    <3>1. \E text, id : Answer(m, text, id)
      <4> HIDE DEF m
      <4>1. HandleAdd(m) \/ HandleFind(m) \/ HandleRemove(m)
        BY <1>3 DEF HandleMessage, m
      <4> QED
        BY <4>1 DEF HandleAdd, HandleFind, HandleRemove
    <3> HIDE DEF m
    <3>2. \E r : mreply' = <<[to |-> m.to, reply |-> r]>>
      BY <3>1 DEF Answer
    <3> QED
      BY <3>2 DEF m
  <2>3. /\ Len(mainq) \in Nat \ {0}
        /\ Head(mainq) = mainq[1]
        /\ DOMAIN mainq = 1..Len(mainq)
        /\ DOMAIN mainq' = 1..(Len(mainq) - 1)
        /\ \A i \in 1..(Len(mainq) - 1) : mainq'[i] = mainq[i + 1]
    <3>1. /\ Len(mainq) \in Nat \ {0}
          /\ DOMAIN mainq = 1..Len(mainq)
          /\ Head(mainq) = mainq[1]
      BY <2>1, LenProperties, EmptySeq
    <3>2. /\ Tail(mainq) \in Seq(Messages)
          /\ Len(Tail(mainq)) = Len(mainq) - 1
          /\ \A i \in 1..Len(Tail(mainq)) : Tail(mainq)[i] = mainq[i + 1]
      BY <2>1, HeadTailProperties
    <3>3. DOMAIN Tail(mainq) = 1..Len(Tail(mainq))
      BY <3>2, LenProperties
    <3> QED
      BY <2>1, <3>1, <3>2, <3>3
  <2>4. ASSUME NEW k \in Handlers
        PROVE  UnderWay(k)' => UnderWay(k)
    <3>1. ASSUME NEW i \in 1..(Len(mainq) - 1), mainq'[i].to = k
          PROVE  \E j \in 1..Len(mainq) : mainq[j].to = k
      <4>1. i + 1 \in 1..Len(mainq) /\ mainq[i + 1].to = k
        BY ONLY <2>3, <3>1
      <4> QED
        BY <4>1
    <3>2. Queued(k)' => Queued(k)
      BY ONLY <2>3, <3>1 DEF Queued
    <3>3. Answering(k)' => Queued(k)
      <4>1. Answering(k)' => mainq[1].to = k
        BY ONLY <2>2, <2>3 DEF Answering
      <4>2. 1 \in DOMAIN mainq
        BY ONLY <2>3
      <4> QED
        BY ONLY <4>1, <4>2 DEF Queued
    <3> QED
      BY <3>2, <3>3 DEF UnderWay
  <2>5. ASSUME NEW k \in Handlers
        PROVE  QueueTracked(k)'
    BY <1>1, <2>1, <2>4 DEF QueueTracked
  <2> QED
    BY <2>1, <2>5 DEF ReplyQueueTracked, Stopped
<1>4. CASE SendResult
  <2>1. CASE EndService("aborted")
    BY <1>2, <1>4, <2>1 DEF SendResult, Stopped
  <2>2. CASE ~EndService("aborted")
    <3>1. /\ mpc' = "receive"
          /\ UNCHANGED <<mainq, hpc, alarm, rqueues>>
      BY <1>4, <2>2 DEF SendResult
    <3>2. ASSUME NEW k \in Handlers
          PROVE  UnderWay(k)' => UnderWay(k)
      BY <3>1 DEF UnderWay, Queued, Answering
    <3>3. ASSUME NEW k \in Handlers
          PROVE  QueueTracked(k)'
      BY <1>1, <3>1, <3>2 DEF QueueTracked
    <3> QED
      BY <3>1, <3>3 DEF ReplyQueueTracked, Stopped
  <2> QED
    BY <2>1, <2>2
<1>5. CASE Terminate
  BY <1>2, <1>5 DEF Terminate, Stopped
<1>6. CASE StopGroup
  <2>1. /\ UNCHANGED alarm
        /\ \A k \in Handlers :
             \/ hpc'[k] = hpc[k]
             \/ hpc[k] \in Running /\ hpc'[k] = "killed"
    BY <1>6 DEF StopGroup
  <2>2. CASE Interruptible
    BY <1>2, <1>6, <2>1, <2>2 DEF StopGroup, Stopped
  <2>3. CASE ~Interruptible
    <3>1. UNCHANGED <<mpc, mreply, mainq, rqueues>>
      BY <1>6, <2>3 DEF StopGroup
    <3>2. ASSUME NEW k \in Handlers
          PROVE  UnderWay(k)' <=> UnderWay(k)
      BY <3>1 DEF UnderWay, Queued, Answering
    <3>3. ASSUME NEW k \in Handlers
          PROVE  QueueTracked(k)'
      BY <1>1, <2>1, <3>1, <3>2 DEF QueueTracked, Running
    <3> QED
      BY <3>1, <3>3 DEF ReplyQueueTracked
  <2> QED
    BY <2>2, <2>3
<1> QED
  BY <1>3, <1>4, <1>5, <1>6

LEMMA QueueStep ==
  ASSUME IInv, [Next]_vars
  PROVE  ReplyQueueTracked'
<1> USE DEF IInv, TypeOK, mainVars, procVars, kernelVars, clientVars, Goto, Running
<1>1. ASSUME NEW k \in Handlers
      PROVE  QueueTracked(k)
  BY DEF ReplyQueueTracked
<1>2. ASSUME UNCHANGED <<mpc, mreply, mainq>>, NEW k \in Handlers
      PROVE  UnderWay(k)' <=> UnderWay(k)
  BY <1>2 DEF UnderWay, Queued, Answering
<1>3. ASSUME UNCHANGED <<mpc, mreply, mainq, rqueues, hpc, alarm>>
      PROVE  ReplyQueueTracked'
  <2>1. ASSUME NEW k \in Handlers
        PROVE  QueueTracked(k)'
    BY <1>1, <1>2, <1>3 DEF QueueTracked
  <2> QED
    BY <1>3, <2>1 DEF ReplyQueueTracked
<1>4. ASSUME NEW h \in Handlers, Alarm(h)
      PROVE  ReplyQueueTracked'
  <2>1. /\ UNCHANGED <<mpc, mreply, mainq, rqueues>>
        /\ alarm' = [alarm EXCEPT ![h] = "fired"]
        /\ \/ hpc' = hpc
           \/ hpc[h] \in Running \ {"open"} /\ hpc' = [hpc EXCEPT ![h] = "finish"]
    BY <1>4 DEF Alarm, Blocked
  <2>2. ASSUME NEW k \in Handlers
        PROVE  QueueTracked(k)'
    BY <1>1, <1>2, <2>1 DEF QueueTracked
  <2> QED
    BY <2>1, <2>2 DEF ReplyQueueTracked
<1>5. ASSUME NEW h \in Handlers, Connect(h)
      PROVE  ReplyQueueTracked'
  <2>1. /\ UNCHANGED <<mpc, mreply, mainq, rqueues, alarm>>
        /\ hpc[h] = "none"
        /\ hpc' = [hpc EXCEPT ![h] = "open"]
    BY <1>5 DEF Connect
  <2>2. h \notin rqueues /\ ~UnderWay(h)
    BY <1>1, <2>1, UnderWayOnlyAfterSend DEF QueueTracked, BeforeSend
  <2>3. ASSUME NEW k \in Handlers
        PROVE  QueueTracked(k)'
    BY <1>1, <1>2, <2>1, <2>2 DEF QueueTracked
  <2> QED
    BY <2>1, <2>3 DEF ReplyQueueTracked
<1>6. ASSUME NEW h \in Handlers, ClientWrites(h) \/ ClientCloses(h)
      PROVE  ReplyQueueTracked'
  BY <1>3, <1>6 DEF ClientWrites, ClientCloses
<1>7. ASSUME NEW p \in PortIds, PortVanishes(p)
      PROVE  ReplyQueueTracked'
  BY <1>3, <1>7 DEF PortVanishes
<1>8. CASE UNCHANGED vars
  BY <1>3, <1>8 DEF vars
<1> QED
  BY <1>4, <1>5, <1>6, <1>7, <1>8, Steps, HandlerQueue, ServiceQueue DEF Client

-----------------------------------------------------------------------------
(* The invariant.                                                          *)

LEMMA InitInv == Init => IInv
<1> SUFFICES ASSUME Init PROVE IInv
  OBVIOUS
<1>1. DOMAIN mainq = {}
  BY EmptyHasNoLength DEF Init
<1>2. RegistrySorted
  BY DEF Init, RegistrySorted, Sorted
<1>3. RequestKnown
  BY DEF Init, RequestKnown
<1>4. CommandTracked
  BY <1>1 DEF Init, CommandTracked, QueuedOnce, AnswerRecorded, ResultTracked, OutputTracked,
             Queued, Answering, BeforeSend
<1>5. ReplyQueueTracked
  BY <1>1 DEF Init, ReplyQueueTracked, QueueTracked, UnderWay, Queued, Answering, Running, Stopped
<1> QED
  BY <1>2, <1>3, <1>4, <1>5, InitType DEF IInv

(* The inductive invariant holds in every state of the daemon. *)
THEOREM Invariant == Spec => []IInv
<1>1. IInv /\ [Next]_vars => IInv'
  <2> SUFFICES ASSUME IInv, [Next]_vars PROVE IInv'
    OBVIOUS
  <2>1. TypeOK'
    BY TypeStep
  <2>2. RegistrySorted'
    BY SortedStep
  <2>3. RequestKnown'
    BY RequestStep
  <2>4. CommandTracked'
    BY CommandStep
  <2>5. ReplyQueueTracked'
    BY QueueStep
  <2> QED
    BY <2>1, <2>2, <2>3, <2>4, <2>5 DEF IInv
<1> QED
  BY <1>1, InitInv, PTL DEF Spec

(* The types of all variables (module MsgQRD). *)
THEOREM TypeCorrect == Spec => []TypeOK
<1>1. IInv => TypeOK
  BY DEF IInv
<1> QED
  BY <1>1, Invariant, PTL

(* No name is registered twice, and the list that find(), insert() and     *)
(* erase() of msgqueuelist.cpp work on stays in order.                     *)
THEOREM RegistryStaysSorted == Spec => []RegistrySorted
<1>1. IInv => RegistrySorted
  BY DEF IInv
<1> QED
  BY <1>1, Invariant, PTL

(* However connections, alarms and the service interleave, a client is     *)
(* only ever told the result of its own command, at most once, or that the *)
(* time ran out (parse() and handleMessage() of msgqueueregdaemon.cpp).    *)
THEOREM NoResultIsMixedUp == Spec => []OwnResultOnly
<1>1. IInv => OwnResultOnly
  <2> SUFFICES ASSUME IInv, NEW h \in Handlers
               PROVE  /\ rbuf[h] \in {<<>>, <<result[h]>>}
                      /\ hreply[h] \in {NoReply, result[h]}
                      /\ out[h] \in {<<>>, <<result[h]>>, <<Timeout>>, <<result[h], Timeout>>}
                      /\ out[h] # <<>> /\ Head(out[h]) # Timeout => result[h] # NoReply
    BY DEF OwnResultOnly
  <2>1. ResultTracked(h) /\ OutputTracked(h)
    BY DEF IInv, CommandTracked
  <2> QED
    BY <2>1 DEF ResultTracked, OutputTracked
<1> QED
  BY <1>1, Invariant, PTL

(* Only a killed handler leaves its reply queue behind in the kernel       *)
(* (~MessageQueue() runs in every other way out of parse()).               *)
THEOREM OnlyKilledHandlersLeak == Spec => []LeakOnlyByKill
<1>1. IInv => LeakOnlyByKill
  BY DEF IInv, TypeOK, ReplyQueueTracked, QueueTracked, LeakOnlyByKill
<1> QED
  BY <1>1, Invariant, PTL

-----------------------------------------------------------------------------
(* How the service can come to an abnormal end.                            *)

GaveUp(h) == hpc[h] = "done" /\ alarm[h] = "fired" /\ result[h] # NoReply /\ hreply[h] = NoReply

(* A handler that has given up stays so once the service is gone. *)
LEMMA GaveUpPersists ==
  ASSUME IInv, mpc = "aborted", [Next]_vars, NEW h \in Handlers, GaveUp(h)
  PROVE  GaveUp(h)'
<1> USE DEF GaveUp, IInv, TypeOK, mainVars, procVars, kernelVars, clientVars, Goto, Running
<1>1. CASE HandleMessage \/ SendResult \/ Terminate
  BY <1>1 DEF HandleMessage, SendResult, Terminate, Interruptible
<1>2. CASE StopGroup
  BY <1>2 DEF StopGroup, Interruptible, EndService
<1>3. ASSUME NEW k \in Handlers, Handler(k)
      PROVE  GaveUp(h)'
  <2>1. CASE OpenReplyQueue(k) \/ ResetStatus(k) \/ ScanCommand(k) \/ ScanName(k) \/ ScanId(k)
    BY <2>1 DEF OpenReplyQueue, ResetStatus, ScanCommand, ScanName, ScanId
  <2>2. CASE SendCommand(k) \/ ReceiveReply(k) \/ Forward(k) \/ Finish(k) \/ Close(k)
    BY <2>2 DEF SendCommand, ReceiveReply, Forward, Finish, Close
  <2> QED
    BY <1>3, <2>1, <2>2 DEF Handler
<1>4. ASSUME NEW k \in Handlers, Alarm(k) \/ Client(k)
      PROVE  GaveUp(h)'
  BY <1>4 DEF Alarm, Blocked, Client, Connect, ClientWrites, ClientCloses
<1>5. ASSUME NEW p \in PortIds, PortVanishes(p)
      PROVE  GaveUp(h)'
  BY <1>5 DEF PortVanishes
<1>6. CASE UNCHANGED vars
  BY <1>6 DEF vars
<1> QED
  BY <1>1, <1>2, <1>3, <1>4, <1>5, <1>6, Steps

(* The service aborts when it sends a result to a reply queue that is gone. *)
LEMMA AbortingStep ==
  ASSUME IInv, mpc # "aborted", [Next]_vars, mpc' = "aborted"
  PROVE  \E h \in Handlers : GaveUp(h)'
<1> USE DEF IInv, TypeOK, mainVars, procVars, kernelVars, clientVars
<1>1. SendResult
  <2>1. CASE HandleMessage \/ Terminate \/ StopGroup
    BY <2>1 DEF HandleMessage, Terminate, StopGroup, EndService
  <2>2. ASSUME NEW h \in Handlers, Handler(h) \/ Alarm(h) \/ Client(h)
        PROVE  FALSE
    BY <2>2 DEF Handler, OpenReplyQueue, ResetStatus, ScanCommand, ScanName, ScanId, SendCommand,
                ReceiveReply, Forward, Finish, Close, Alarm, Client, Connect, ClientWrites,
                ClientCloses
  <2>3. ASSUME NEW p \in PortIds, PortVanishes(p)
        PROVE  FALSE
    BY <2>3 DEF PortVanishes
  <2>4. CASE UNCHANGED vars
    BY <2>4 DEF vars
  <2> QED
    BY <2>1, <2>2, <2>3, <2>4, Steps
<1>2. mpc = "reply" /\ Len(mreply) = 1
  BY <1>1 DEF SendResult
<1>3. mreply[1] \in [to : Handlers, reply : Results] /\ Head(mreply) = mreply[1]
  <2>1. mreply[1] \in [to : Handlers, reply : Results]
    BY <1>2, FirstProperties
  <2>2. Head(mreply) = mreply[1]
    BY <1>2
  <2> QED
    BY <2>1, <2>2
<1>4. PICK g \in Handlers : g = mreply[1].to
  BY <1>3
<1>5. /\ g \notin rqueues
      /\ UNCHANGED <<result, hpc, alarm, hreply>>
  BY <1>1, <1>3, <1>4 DEF SendResult, EndService
<1>6. Answering(g) /\ UnderWay(g)
  BY <1>2, <1>4 DEF Answering, UnderWay
<1>7. hpc[g] = "done" /\ alarm[g] = "fired"
  BY <1>5, <1>6 DEF ReplyQueueTracked, QueueTracked
<1>8. result[g] # NoReply
  BY <1>2, <1>3, <1>4, NoReplyIsNoResult DEF CommandTracked, AnswerRecorded
<1>9. hreply[g] = NoReply
  BY <1>6 DEF CommandTracked, ResultTracked
<1> QED
  BY <1>5, <1>7, <1>8, <1>9 DEF GaveUp

(* The service only ends abnormally after a handler timed out while its    *)
(* command was under way (stdmessageserver.cpp, the loop of start()).      *)
THEOREM AbortNeedsTimeout == Spec => []AbortOnlyAfterTimeout
<1>1. Init => AbortOnlyAfterTimeout
  BY DEF Init, AbortOnlyAfterTimeout
<1>2. IInv /\ AbortOnlyAfterTimeout /\ [Next]_vars => AbortOnlyAfterTimeout'
  <2> SUFFICES ASSUME IInv, AbortOnlyAfterTimeout, [Next]_vars, mpc' = "aborted"
               PROVE  \E h \in Handlers : GaveUp(h)'
    BY DEF AbortOnlyAfterTimeout, GaveUp
  <2>1. CASE mpc = "aborted"
    <3>1. PICK h \in Handlers : GaveUp(h)
      BY <2>1 DEF AbortOnlyAfterTimeout, GaveUp
    <3> QED
      BY <2>1, <3>1, GaveUpPersists
  <2>2. CASE mpc # "aborted"
    BY <2>2, AbortingStep
  <2> QED
    BY <2>1, <2>2
<1> QED
  BY <1>1, <1>2, Invariant, PTL DEF Spec
-----------------------------------------------------------------------------
(* Registrations are conserved.                                            *)

(* What a step does to the list, the results, the requests and what the    *)
(* clients were told: one of five things, or nothing.                      *)
LEMMA RegistrySteps ==
  ASSUME [Next]_vars
  PROVE  \/ HandleMessage
         \/ /\ mpc \notin Stopped /\ mpc' \in Stopped
            /\ list' = <<>>
            /\ mainq' = <<>>
            /\ UNCHANGED <<ports, result, out, req>>
         \/ \E p \in PortIds : PortVanishes(p)
         \/ \E h \in Handlers : Connect(h)
         \/ \E h \in Handlers : Forward(h) \/ Finish(h)
         \/ /\ UNCHANGED mainq \/ \E h \in Handlers : SendCommand(h)
            /\ mpc' \in Stopped <=> mpc \in Stopped
            /\ UNCHANGED <<list, ports, result, out, req>>
<1> USE DEF mainVars, procVars, kernelVars, clientVars
<1>1. CASE SendResult
  <2>1. CASE EndService("aborted")
    BY <1>1, <2>1 DEF SendResult, EndService, Stopped
  <2>2. CASE ~EndService("aborted")
    BY <1>1, <2>2 DEF SendResult, Stopped
  <2> QED
    BY <2>1, <2>2
<1>2. CASE Terminate
  BY <1>2 DEF Terminate, Interruptible, EndService, Stopped
<1>3. CASE StopGroup
  BY <1>3 DEF StopGroup, Interruptible, EndService, Stopped
<1>4. ASSUME NEW h \in Handlers, Handler(h)
      PROVE  \/ Forward(h) \/ Finish(h)
             \/ /\ UNCHANGED <<mpc, mainq>> \/ SendCommand(h)
                /\ UNCHANGED <<mpc, list, ports, result, out, req>>
  <2>1. CASE OpenReplyQueue(h) \/ ResetStatus(h) \/ ScanCommand(h) \/ ScanName(h) \/ ScanId(h)
    BY <2>1 DEF OpenReplyQueue, ResetStatus, ScanCommand, ScanName, ScanId
  <2>2. CASE SendCommand(h)
    BY <2>2 DEF SendCommand
  <2>3. CASE ReceiveReply(h) \/ Close(h)
    BY <2>3 DEF ReceiveReply, Close
  <2> QED
    BY <1>4, <2>1, <2>2, <2>3 DEF Handler
<1>5. ASSUME NEW h \in Handlers, Alarm(h) \/ Client(h)
      PROVE  Connect(h) \/ UNCHANGED <<mpc, mainq, list, ports, result, out, req>>
  BY <1>5 DEF Alarm, Client, ClientWrites, ClientCloses
<1>6. CASE UNCHANGED vars
  BY <1>6 DEF vars
<1> QED
  BY <1>1, <1>2, <1>3, <1>4, <1>5, <1>6, Steps

(* A message in the service's queue names what its handler's client asked  *)
(* for: no later request takes the place of the one that was sent.         *)
RequestQueued == \A i \in DOMAIN mainq : mainq[i].name = req[mainq[i].to].name

LEMMA RequestQueuedStep ==
  ASSUME IInv, RequestQueued, [Next]_vars
  PROVE  RequestQueued'
<1> USE DEF IInv, TypeOK
<1>1. CASE HandleMessage
  <2>1. mainq # <<>> /\ mainq' = Tail(mainq) /\ UNCHANGED req
    BY <1>1 DEF HandleMessage, clientVars
  <2>2. /\ Len(mainq) \in Nat \ {0}
        /\ DOMAIN mainq = 1..Len(mainq)
    BY <2>1, LenProperties, EmptySeq
  <2>3. /\ Tail(mainq) \in Seq(Messages)
        /\ Len(Tail(mainq)) = Len(mainq) - 1
        /\ \A i \in 1..Len(Tail(mainq)) : Tail(mainq)[i] = mainq[i + 1]
    BY <2>1, HeadTailProperties
  <2>4. DOMAIN Tail(mainq) = 1..Len(Tail(mainq))
    BY <2>3, LenProperties
  <2>5. ASSUME NEW i \in 1..Len(Tail(mainq))
        PROVE  Tail(mainq)[i].name = req[Tail(mainq)[i].to].name
    <3>1. i + 1 \in DOMAIN mainq /\ Tail(mainq)[i] = mainq[i + 1]
      BY <2>2, <2>3
    <3> QED
      BY <3>1 DEF RequestQueued
  <2> QED
    BY <2>1, <2>4, <2>5 DEF RequestQueued
<1>2. ASSUME NEW h \in Handlers, SendCommand(h)
      PROVE  RequestQueued'
  <2>1. CASE UNCHANGED mainq
    BY <1>2, <2>1 DEF SendCommand, clientVars, RequestQueued
  <2>2. CASE mainq' = Append(mainq, Message(h))
    <3>1. UNCHANGED req /\ Message(h) \in Messages
      BY <1>2, MessageType DEF SendCommand, clientVars
    <3>2. /\ Len(mainq) \in Nat
          /\ DOMAIN mainq = 1..Len(mainq)
          /\ DOMAIN mainq' = 1..(Len(mainq) + 1)
          /\ \A i \in 1..Len(mainq) : mainq'[i] = mainq[i]
          /\ mainq'[Len(mainq) + 1] = Message(h)
      BY <2>2, <3>1, AppendProperties, LenProperties
    <3>3. ASSUME NEW i \in 1..(Len(mainq) + 1)
          PROVE  mainq'[i].name = req[mainq'[i].to].name
      <4>1. CASE i = Len(mainq) + 1
        BY <3>2, <4>1 DEF Message
      <4>2. CASE i # Len(mainq) + 1
        <5>1. i \in 1..Len(mainq)
          BY <3>2, <4>2
        <5> QED
          BY <3>2, <5>1 DEF RequestQueued
      <4> QED
        BY <4>1, <4>2
    <3> QED
      BY <3>1, <3>2, <3>3 DEF RequestQueued
  <2> QED
    BY <1>2, <2>1, <2>2 DEF SendCommand
<1>3. ASSUME NEW h \in Handlers, Connect(h)
      PROVE  RequestQueued'
  <2>1. /\ UNCHANGED mainq
        /\ hpc[h] = "none"
        /\ \A k \in Handlers \ {h} : req'[k] = req[k]
    BY <1>3 DEF Connect, kernelVars
  <2>2. ~Queued(h)
    BY <2>1 DEF CommandTracked, ResultTracked, BeforeSend
  <2>3. ASSUME NEW i \in DOMAIN mainq
        PROVE  mainq[i].name = req'[mainq[i].to].name
    <3>1. mainq[i].to \in Handlers \ {h}
      <4>1. mainq[i] \in Messages
        BY ElementOfSeq, LenProperties
      <4> QED
        BY <2>2, <4>1 DEF Queued, Messages
    <3> QED
      BY <2>1, <3>1 DEF RequestQueued
  <2> QED
    BY <2>1, <2>3 DEF RequestQueued
<1>4. CASE mainq' = <<>>
  BY <1>4, EmptyHasNoLength DEF RequestQueued
<1>5. CASE UNCHANGED <<mainq, req>>
  BY <1>5 DEF RequestQueued
<1>6. ASSUME NEW h \in Handlers, Forward(h) \/ Finish(h)
      PROVE  UNCHANGED <<mainq, req>>
  BY <1>6 DEF Forward, Finish, kernelVars
<1>7. ASSUME NEW p \in PortIds, PortVanishes(p)
      PROVE  UNCHANGED <<mainq, req>>
  BY <1>7 DEF PortVanishes, clientVars
<1> QED
  BY <1>1, <1>2, <1>3, <1>4, <1>5, <1>6, <1>7, RegistrySteps
(* The numbers that are compared are numbers: each set of granted commands *)
(* is finite, for finitely many messages have been handled.                *)
Counted == {"OK_ADD_MSGQUEUE", "OK_REMOVE_MSGQUEUE"}

GrantsFinite == \A text \in Counted, n \in Names : IsFiniteSet(Granted(text, n))

(* The counts as find() tells them apart. *)
Balanced ==
  \A n \in Names : Cardinality(Granted("OK_ADD_MSGQUEUE", n)) =
                     Cardinality(Granted("OK_REMOVE_MSGQUEUE", n))
                       + (IF Find(list, n) = NotFound THEN 0 ELSE 1)

LEMMA HitsOfFind ==
  ASSUME TypeOK, RegistrySorted, NEW n
  PROVE  Cardinality(Hits(list, n)) = IF Find(list, n) = NotFound THEN 0 ELSE 1
<1>1. list \in Lists(Names, PortIds) /\ Sorted(list)
  BY ListsAreTyped DEF TypeOK, RegistrySorted
<1>2. Find(list, n) = NotFound <=> Hits(list, n) = {}
  BY <1>1, FindNotFound, PortIdsAssumption
<1> QED
  BY <1>1, <1>2, HitsCount, NamesAssumption

LEMMA ConservedIsBalanced ==
  ASSUME TypeOK, RegistrySorted
  PROVE  RegistrationsConserved <=> (mpc \notin Stopped => Balanced)
BY HitsOfFind DEF RegistrationsConserved, Balanced

(* The grants stay what they are as long as the results and the requests   *)
(* they are about do.                                                      *)
LEMMA GrantsKept ==
  ASSUME TypeOK, UNCHANGED result,
         \A h \in Handlers : result[h] # NoReply => req'[h] = req[h],
         NEW text \in Counted, NEW n
  PROVE  Granted(text, n)' = Granted(text, n)
<1>1. ASSUME NEW h \in Handlers
      PROVE  (result'[h].text = text /\ req'[h].name = n)
               <=> (result[h].text = text /\ req[h].name = n)
  <2>1. CASE result[h] = NoReply
    BY <2>1 DEF NoReply, Reply, Counted
  <2>2. CASE result[h] # NoReply
    BY <2>2
  <2> QED
    BY <2>1, <2>2
<1> QED
  BY <1>1 DEF Granted

(* What handling a message is to the list seen as a map: the handler g,    *)
(* whose request is about the name n, gets its one result r.               *)
Handled(g, n, r) ==
  /\ result[g] = NoReply
  /\ req[g].name = n
  /\ result' = [result EXCEPT ![g] = r]
  /\ UNCHANGED <<req, ports, out>>
  /\ mpc \notin Stopped /\ mpc' \notin Stopped
  /\ \/ /\ r = Reply("OK_ADD_MSGQUEUE", NotFound)
        /\ Find(list, n) = NotFound
        /\ \E p \in ports : IsUpdate(list', list, Names, n, p)
     \/ /\ r = Reply("OK_REMOVE_MSGQUEUE", NotFound)
        /\ Find(list, n) # NotFound
        /\ IsUpdate(list', list, Names, n, NotFound)
     \/ /\ \/ /\ r = Reply("ERROR_QUEUE_NOTEXISTS", NotFound)
              /\ ports # PortIds
           \/ /\ r = Reply("ERROR_PORT_EXISTS", NotFound)
              /\ ports # {}
              /\ Find(list, n) # NotFound
           \/ /\ r = Reply("ERROR_PORT_NOTSUBSCRIBED", NotFound)
              /\ Find(list, n) = NotFound
           \/ /\ r = Reply("OK_FIND_MSGQUEUE", Find(list, n))
              /\ Find(list, n) # NotFound
        /\ UNCHANGED list

(* That is what happens to the message at the head of the queue. *)
LEMMA HandledMessage ==
  ASSUME IInv, RequestQueued, HandleMessage
  PROVE  \E g \in Handlers, n \in Names, r \in Results : Handled(g, n, r)
<1> DEFINE m == Head(mainq)
           g == m.to
           n == m.name
<1> USE DEF IInv, TypeOK, Handled
<1>1. mainq # <<>> /\ DOMAIN mainq = 1..Len(mainq) /\ Len(mainq) \in Nat \ {0}
  BY LenProperties, EmptySeq DEF HandleMessage
<1>2. m \in Messages /\ m = mainq[1] /\ 1 \in DOMAIN mainq
  BY <1>1, HeadTailProperties
<1>3. g \in Handlers /\ n \in Names /\ m.id \in PortIds
  BY <1>2 DEF Messages
<1>4. result[g] = NoReply
  <2>1. Queued(g)
    BY <1>2 DEF Queued
  <2> QED
    BY <1>3, <2>1 DEF CommandTracked, ResultTracked
<1>5. req[g].name = n
  BY <1>2 DEF RequestQueued
<1>6. /\ UNCHANGED <<req, ports, out>>
      /\ mpc \notin Stopped /\ mpc' \notin Stopped
      /\ HandleAdd(m) \/ HandleFind(m) \/ HandleRemove(m)
  BY DEF HandleMessage, clientVars, Stopped
<1>7. list \in Lists(Names, PortIds) /\ Sorted(list)
  BY ListsAreTyped DEF RegistrySorted
<1>8. Find(list, n) = NotFound <=> Hits(list, n) = {}
  BY <1>7, FindNotFound, PortIdsAssumption
<1>9. Find(list, n) \in PortIds \cup {NotFound}
  BY <1>7, FindType
<1>10. ASSUME NEW text \in Texts, NEW id \in PortIds \cup {NotFound}
       PROVE  Reply(text, id) \in Results
  BY DEF Reply, Results
<1> HIDE DEF m
<1> HIDE DEF m
<1>11. ASSUME Find(list, n) = NotFound
       PROVE  IsUpdate(Insert(list, n, m.id), list, Names, n, m.id)
  <2>1. Hits(list, n) = {}
    BY <1>8, <1>11
  <2> QED
    BY ONLY <1>3, <1>7, <2>1, FindAfterInsert, NamesAssumption
<1>12. ASSUME Find(list, n) # NotFound
       PROVE  IsUpdate(Erase(list, n), list, Names, n, NotFound)
  <2>1. Hits(list, n) # {}
    BY <1>8, <1>12
  <2> QED
    BY ONLY <1>3, <1>7, <2>1, FindAfterErase, NamesAssumption
<1>13. CASE HandleAdd(m)
  <2>1. CASE m.id \notin ports
    <3>1. result' = [result EXCEPT ![g] = Reply("ERROR_QUEUE_NOTEXISTS", NotFound)]
            /\ UNCHANGED list /\ ports # PortIds
      BY <1>3, <1>13, <2>1 DEF HandleAdd, Answer
    <3> QED
      BY <1>3, <1>4, <1>5, <1>6, <1>10, <3>1 DEF Texts
  <2>2. CASE m.id \in ports /\ Find(list, n) # NotFound
    <3>1. result' = [result EXCEPT ![g] = Reply("ERROR_PORT_EXISTS", NotFound)]
            /\ UNCHANGED list /\ ports # {}
      BY <1>13, <2>2 DEF HandleAdd, Answer
    <3> QED
      BY <1>3, <1>4, <1>5, <1>6, <1>10, <2>2, <3>1 DEF Texts
  <2>3. CASE m.id \in ports /\ Find(list, n) = NotFound
    <3>1. result' = [result EXCEPT ![g] = Reply("OK_ADD_MSGQUEUE", NotFound)]
            /\ list' = Insert(list, n, m.id)
      BY <1>13, <2>3 DEF HandleAdd, Answer
    <3>2. IsUpdate(list', list, Names, n, m.id)
      BY <1>11, <2>3, <3>1
    <3> QED
      BY <1>3, <1>4, <1>5, <1>6, <1>10, <2>3, <3>1, <3>2 DEF Texts
  <2> QED
    BY <2>1, <2>2, <2>3
<1>14. CASE HandleFind(m)
  <2>1. CASE Find(list, n) = NotFound
    <3>1. result' = [result EXCEPT ![g] = Reply("ERROR_PORT_NOTSUBSCRIBED", NotFound)]
            /\ UNCHANGED list
      BY <1>14, <2>1 DEF HandleFind, Answer
    <3> QED
      BY <1>3, <1>4, <1>5, <1>6, <1>10, <2>1, <3>1 DEF Texts
  <2>2. CASE Find(list, n) # NotFound
    <3>1. result' = [result EXCEPT ![g] = Reply("OK_FIND_MSGQUEUE", Find(list, n))]
            /\ UNCHANGED list
      BY <1>14, <2>2 DEF HandleFind, Answer
    <3> QED
      BY <1>3, <1>4, <1>5, <1>6, <1>9, <1>10, <2>2, <3>1 DEF Texts
  <2> QED
    BY <2>1, <2>2
<1>15. CASE HandleRemove(m)
  <2>1. CASE Find(list, n) = NotFound
    <3>1. result' = [result EXCEPT ![g] = Reply("ERROR_PORT_NOTSUBSCRIBED", NotFound)]
            /\ UNCHANGED list
      BY <1>15, <2>1 DEF HandleRemove, Answer
    <3> QED
      BY <1>3, <1>4, <1>5, <1>6, <1>10, <2>1, <3>1 DEF Texts
  <2>2. CASE Find(list, n) # NotFound
    <3>1. result' = [result EXCEPT ![g] = Reply("OK_REMOVE_MSGQUEUE", NotFound)]
            /\ list' = Erase(list, n)
      BY <1>15, <2>2 DEF HandleRemove, Answer
    <3>2. IsUpdate(list', list, Names, n, NotFound)
      BY <1>12, <2>2, <3>1
    <3> QED
      BY <1>3, <1>4, <1>5, <1>6, <1>10, <2>2, <3>1, <3>2 DEF Texts
  <2> QED
    BY <2>1, <2>2
<1> QED
  BY <1>6, <1>13, <1>14, <1>15
(* One message handled: one grant more, and the list with it. *)
LEMMA HandlingBalances ==
  ASSUME IInv, RequestQueued, GrantsFinite, Balanced, HandleMessage
  PROVE  GrantsFinite' /\ Balanced'
<1> USE DEF IInv, TypeOK, Handled
<1>1. PICK g \in Handlers, n \in Names, r \in Results : Handled(g, n, r)
  BY HandledMessage
<1> DEFINE Count(text, k) == Cardinality(Granted(text, k))
<1>2. ASSUME NEW text \in Counted, NEW k \in Names
      PROVE  /\ Granted(text, k)' = IF r.text = text /\ k = n THEN Granted(text, k) \cup {g}
                                                             ELSE Granted(text, k)
             /\ g \notin Granted(text, k)
             /\ IsFiniteSet(Granted(text, k))
  <2>1. result[g].text # text
    BY <1>1 DEF NoReply, Reply, Counted
  <2>2. ASSUME NEW h \in Handlers
        PROVE  result'[h].text = text /\ req'[h].name = k
                 <=> IF h = g THEN r.text = text /\ n = k
                              ELSE result[h].text = text /\ req[h].name = k
    BY <1>1
  <2> QED
    BY <2>1, <2>2 DEF Granted, GrantsFinite
<1>3. ASSUME NEW text \in Counted, NEW k \in Names
      PROVE  /\ IsFiniteSet(Granted(text, k))'
             /\ Count(text, k)' = IF r.text = text /\ k = n THEN Count(text, k) + 1
                                                           ELSE Count(text, k)
             /\ Count(text, k) \in Nat
  <2>1. IsFiniteSet(Granted(text, k)) /\ g \notin Granted(text, k)
    BY <1>2
  <2>2. Count(text, k) \in Nat
    BY <2>1, FS_CardinalityType
  <2>3. CASE r.text = text /\ k = n
    <3>1. Granted(text, k)' = Granted(text, k) \cup {g}
      BY <1>2, <2>3
    <3>2. /\ IsFiniteSet(Granted(text, k) \cup {g})
          /\ Cardinality(Granted(text, k) \cup {g}) = Cardinality(Granted(text, k)) + 1
      BY <2>1, FS_AddElement
    <3> QED
      BY <2>2, <2>3, <3>1, <3>2
  <2>4. CASE ~(r.text = text /\ k = n)
    <3>1. Granted(text, k)' = Granted(text, k)
      BY <1>2, <2>4
    <3> QED
      BY <2>1, <2>2, <2>4, <3>1
  <2> QED
    BY <2>3, <2>4
<1>4. GrantsFinite'
  BY <1>3 DEF GrantsFinite
<1> HIDE DEF Count
<1>5. ASSUME NEW k \in Names
      PROVE  Count("OK_ADD_MSGQUEUE", k)' = Count("OK_REMOVE_MSGQUEUE", k)'
                                              + (IF Find(list', k) = NotFound THEN 0 ELSE 1)
  <2>1. Count("OK_ADD_MSGQUEUE", k) = Count("OK_REMOVE_MSGQUEUE", k)
                                        + (IF Find(list, k) = NotFound THEN 0 ELSE 1)
    BY DEF Balanced, Count
  <2>2. /\ Count("OK_ADD_MSGQUEUE", k) \in Nat
        /\ Count("OK_REMOVE_MSGQUEUE", k) \in Nat
        /\ Count("OK_ADD_MSGQUEUE", k)' = IF r.text = "OK_ADD_MSGQUEUE" /\ k = n
                                          THEN Count("OK_ADD_MSGQUEUE", k) + 1
                                          ELSE Count("OK_ADD_MSGQUEUE", k)
        /\ Count("OK_REMOVE_MSGQUEUE", k)' = IF r.text = "OK_REMOVE_MSGQUEUE" /\ k = n
                                             THEN Count("OK_REMOVE_MSGQUEUE", k) + 1
                                             ELSE Count("OK_REMOVE_MSGQUEUE", k)
    BY <1>3 DEF Counted
  <2>3. CASE r.text = "OK_ADD_MSGQUEUE"
    <3>1. /\ Find(list, n) = NotFound
          /\ \A j \in Names \ {n} : Find(list', j) = Find(list, j)
          /\ Find(list', n) # NotFound
      BY <1>1, <2>3, NotFoundIsNoPort DEF Reply, IsUpdate
    <3> QED
      BY <2>1, <2>2, <2>3, <3>1
  <2>4. CASE r.text = "OK_REMOVE_MSGQUEUE"
    <3>1. /\ Find(list, n) # NotFound
          /\ \A j \in Names \ {n} : Find(list', j) = Find(list, j)
          /\ Find(list', n) = NotFound
      BY <1>1, <2>4 DEF Reply, IsUpdate
    <3> QED
      BY <2>1, <2>2, <2>4, <3>1
  <2>5. CASE r.text \notin Counted
    <3>1. UNCHANGED list
      BY <1>1, <2>5 DEF Counted, Reply
    <3> QED
      BY <2>1, <2>2, <2>5, <3>1 DEF Counted
  <2> QED
    BY <2>3, <2>4, <2>5 DEF Counted
<1>6. Balanced'
  BY <1>5 DEF Balanced, Count
<1> QED
  BY <1>4, <1>6

ConservedInv == RequestQueued /\ GrantsFinite /\ (mpc \notin Stopped => Balanced)

LEMMA ConservedStep ==
  ASSUME IInv, ConservedInv, [Next]_vars
  PROVE  ConservedInv'
<1> USE DEF IInv, TypeOK
<1>1. RequestQueued'
  BY RequestQueuedStep DEF ConservedInv
<1>2. CASE HandleMessage
  BY <1>1, <1>2, HandlingBalances DEF ConservedInv, HandleMessage, Stopped
<1>3. ASSUME UNCHANGED result, \A h \in Handlers : result[h] # NoReply => req'[h] = req[h],
             \/ UNCHANGED list /\ (mpc' \in Stopped <=> mpc \in Stopped)
             \/ mpc' \in Stopped
      PROVE  ConservedInv'
  <2>1. ASSUME NEW text \in Counted, NEW k
        PROVE  Granted(text, k)' = Granted(text, k)
    BY <1>3, <2>1, GrantsKept
  <2>2. GrantsFinite'
    BY <2>1 DEF GrantsFinite, ConservedInv
  <2>3. ASSUME mpc' \notin Stopped, NEW n \in Names
        PROVE  Cardinality(Granted("OK_ADD_MSGQUEUE", n)') =
                 Cardinality(Granted("OK_REMOVE_MSGQUEUE", n)')
                   + (IF Find(list', n) = NotFound THEN 0 ELSE 1)
    <3>1. /\ Granted("OK_ADD_MSGQUEUE", n)' = Granted("OK_ADD_MSGQUEUE", n)
          /\ Granted("OK_REMOVE_MSGQUEUE", n)' = Granted("OK_REMOVE_MSGQUEUE", n)
      BY <2>1 DEF Counted
    <3>2. Balanced /\ UNCHANGED list
      BY <1>3, <2>3 DEF ConservedInv
    <3> QED
      BY <3>1, <3>2 DEF Balanced
  <2>4. mpc' \notin Stopped => Balanced'
    BY <2>3 DEF Balanced
  <2> QED
    BY <1>1, <2>2, <2>4 DEF ConservedInv
<1>4. ASSUME NEW h \in Handlers, Connect(h)
      PROVE  ConservedInv'
  <2>1. /\ UNCHANGED <<result, list, mpc>>
        /\ hpc[h] = "none"
        /\ \A k \in Handlers \ {h} : req'[k] = req[k]
    BY <1>4 DEF Connect, mainVars
  <2>2. result[h] = NoReply
    BY <2>1 DEF CommandTracked, ResultTracked, BeforeSend
  <2> QED
    BY <1>3, <2>1, <2>2
<1>5. ASSUME NEW h \in Handlers, Forward(h) \/ Finish(h)
      PROVE  UNCHANGED <<list, mpc, result, req>>
  BY <1>5 DEF Forward, Finish, mainVars
<1>6. ASSUME NEW p \in PortIds, PortVanishes(p)
      PROVE  UNCHANGED <<list, mpc, result, req>>
  BY <1>6 DEF PortVanishes, mainVars, clientVars
<1> QED
  BY <1>2, <1>3, <1>4, <1>5, <1>6, RegistrySteps

(* While the service lives, the commands that were granted account for     *)
(* exactly the entries of the list, whatever became of the handlers that   *)
(* sent them (handleMessage() of msgqueueregdaemon.cpp).                   *)
THEOREM RegistrationsAreConserved == Spec => []RegistrationsConserved
<1>1. Init => ConservedInv
  <2> SUFFICES ASSUME Init PROVE ConservedInv
    OBVIOUS
  <2>1. DOMAIN mainq = {}
    BY EmptyHasNoLength DEF Init
  <2>2. ASSUME NEW text \in Counted, NEW n
        PROVE  Granted(text, n) = {}
    BY DEF Init, Granted, Counted, NoReply, Reply
  <2>3. DOMAIN list = {}
    BY EmptyHasNoLength DEF Init
  <2>4. ASSUME NEW n
        PROVE  Find(list, n) = NotFound
    BY <2>3 DEF Find, Hits
  <2>5. GrantsFinite
    BY <2>2, FS_EmptySet DEF GrantsFinite
  <2>6. Balanced
    BY <2>2, <2>4, FS_EmptySet DEF Balanced, Counted
  <2> QED
    BY <2>1, <2>5, <2>6 DEF ConservedInv, RequestQueued
<1>2. IInv /\ ConservedInv /\ [Next]_vars => ConservedInv'
  BY ConservedStep
<1>3. IInv /\ ConservedInv => RegistrationsConserved
  BY ConservedIsBalanced DEF IInv, ConservedInv
<1> QED
  BY <1>1, <1>2, <1>3, Invariant, PTL DEF Spec
-----------------------------------------------------------------------------
(* The daemon implements the registry (module Registry).                   *)

(* The registry's view of the list and of what a client was told. *)
MapOf(l) == [n \in Names |-> Find(l, n)]
Told == [h \in Handlers |-> IF out[h] # <<>> /\ Head(out[h]) # Timeout
                            THEN Head(out[h]) ELSE NoReply]

LEMMA EmptyMap == MapOf(<<>>) = Abstract!Empty
<1>1. DOMAIN <<>> = {}
  BY EmptyHasNoLength
<1>2. ASSUME NEW n \in Names
      PROVE  Find(<<>>, n) = NotFound
  BY <1>1 DEF Find, Hits
<1> QED
  BY <1>2 DEF MapOf, Abstract!Empty

(* What must not change for the registry to stand still. *)
LEMMA Stuttering ==
  ASSUME UNCHANGED <<list, ports, result, Told>>, mpc' \in Stopped <=> mpc \in Stopped
  PROVE  UNCHANGED Abstract!vars
BY DEF Abstract!vars, Told

(* A message handled is the effect of its sender's command. *)
LEMMA HandlingImplements ==
  ASSUME IInv, RequestQueued, HandleMessage
  PROVE  Abstract!Next
<1> USE DEF IInv, TypeOK, Handled
<1>1. PICK g \in Handlers, n \in Names, r \in Results : Handled(g, n, r)
  BY HandledMessage
<1> DEFINE reg == MapOf(list)
           reg2 == MapOf(list')
<1>2. Abstract!Pending(g) /\ Abstract!Effect(g, r)
  BY <1>1 DEF Abstract!Pending, Abstract!Effect
<1>3. ASSUME NEW k \in Names
      PROVE  reg[k] = Find(list, k)
  BY DEF MapOf
<1>4. ASSUME NEW v, IsUpdate(list', list, Names, n, v)
      PROVE  reg2 = [reg EXCEPT ![n] = v]
  BY <1>4 DEF MapOf, IsUpdate
<1>5. ports \subseteq PortIds
  OBVIOUS
<1>6. SUFFICES \/ \E p \in PortIds : Abstract!Add(g, n, p)
               \/ Abstract!Lookup(g, n)
               \/ Abstract!Remove(g, n)
  BY <1>2 DEF Abstract!Next
<1>7. CASE /\ r = Reply("OK_ADD_MSGQUEUE", NotFound)
           /\ Find(list, n) = NotFound
           /\ \E p \in ports : IsUpdate(list', list, Names, n, p)
  <2>1. PICK p \in ports : IsUpdate(list', list, Names, n, p)
    BY <1>7
  <2>2. reg2 = [reg EXCEPT ![n] = p] /\ reg[n] = NotFound
    BY <1>3, <1>4, <1>7, <2>1
  <2>3. Abstract!Add(g, n, p)
    BY <1>2, <1>7, <2>2 DEF Abstract!Add, Abstract!Reply, Reply, MapOf
  <2> QED
    BY <1>5, <2>3
<1>8. CASE /\ r = Reply("OK_REMOVE_MSGQUEUE", NotFound)
           /\ Find(list, n) # NotFound
           /\ IsUpdate(list', list, Names, n, NotFound)
  <2>1. reg2 = [reg EXCEPT ![n] = NotFound] /\ reg[n] # NotFound
    BY <1>3, <1>4, <1>8
  <2>2. Abstract!Remove(g, n)
    BY <1>2, <1>8, <2>1 DEF Abstract!Remove, Abstract!Reply, Reply, MapOf
  <2> QED
    BY <2>2
<1>9. CASE r = Reply("ERROR_QUEUE_NOTEXISTS", NotFound) /\ ports # PortIds /\ UNCHANGED list
  <2>1. PICK p \in PortIds : p \notin ports
    BY <1>5, <1>9
  <2>2. Abstract!Add(g, n, p)
    BY <1>2, <1>9, <2>1 DEF Abstract!Add, Abstract!Reply, Reply
  <2> QED
    BY <2>2
<1>10. CASE /\ r = Reply("ERROR_PORT_EXISTS", NotFound)
            /\ ports # {} /\ Find(list, n) # NotFound /\ UNCHANGED list
  <2>1. PICK p \in ports : TRUE
    BY <1>10
  <2>2. reg[n] # NotFound
    BY <1>3, <1>10
  <2>3. Abstract!Add(g, n, p)
    BY <1>2, <1>10, <2>2 DEF Abstract!Add, Abstract!Reply, Reply, MapOf
  <2> QED
    BY <1>5, <2>3
<1>11. CASE /\ r = Reply("ERROR_PORT_NOTSUBSCRIBED", NotFound)
            /\ Find(list, n) = NotFound /\ UNCHANGED list
  BY <1>2, <1>11 DEF Abstract!Lookup, Abstract!Reply, Reply
<1>12. CASE /\ r = Reply("OK_FIND_MSGQUEUE", Find(list, n))
            /\ Find(list, n) # NotFound /\ UNCHANGED list
  <2>1. Find(list, n) \in PortIds
    BY <1>12, FindType, ListsAreTyped
  <2> QED
    BY <1>2, <1>12, <2>1 DEF Abstract!Lookup, Abstract!Reply, Reply
<1> QED
  BY <1>1, <1>7, <1>8, <1>9, <1>10, <1>11, <1>12
(* A result forwarded to a client that is still there is the registry's    *)
(* answer; to one that has left, nothing.                                  *)
LEMMA ForwardImplements ==
  ASSUME IInv, NEW h \in Handlers, Forward(h)
  PROVE  Abstract!Answer(h) \/ UNCHANGED Abstract!vars
<1> USE DEF IInv, TypeOK
<1>1. /\ UNCHANGED <<list, ports, result, mpc>>
      /\ hpc[h] = "forward"
      /\ Write(h, hreply[h])
  BY DEF Forward, mainVars, kernelVars
<1>2. /\ out[h] = <<>>
      /\ hreply[h] = result[h] /\ result[h] # NoReply
  BY <1>1 DEF CommandTracked, ResultTracked, OutputTracked
<1>3. CASE conn[h] = "open"
  <2>1. out' = [out EXCEPT ![h] = <<result[h]>>]
    BY <1>1, <1>2, <1>3, ShortAppends DEF Write
  <2>2. <<result[h]>> # <<>> /\ Head(<<result[h]>>) = result[h]
    BY EmptyHasNoLength
  <2>3. result[h] # Timeout
    BY <1>2, NoReplyIsNoResult
  <2>4. Told[h] = NoReply /\ Told' = [Told EXCEPT ![h] = result[h]]
    BY <1>2, <2>1, <2>2, <2>3 DEF Told
  <2>5. Abstract!Answer(h)
    BY <1>1, <1>2, <2>4 DEF Abstract!Answer, Told
  <2> QED
    BY <2>5
<1>4. CASE conn[h] # "open"
  <2>1. UNCHANGED Told
    BY <1>1, <1>4 DEF Write, Told
  <2> QED
    BY <1>1, <2>1, Stuttering
<1> QED
  BY <1>3, <1>4

(* The report of a timeout is no answer, and follows one at most. *)
LEMMA FinishImplements ==
  ASSUME IInv, NEW h \in Handlers, Finish(h)
  PROVE  UNCHANGED Abstract!vars
<1> USE DEF IInv, TypeOK
<1>1. /\ UNCHANGED <<list, ports, result, mpc>>
      /\ hpc[h] = "finish"
      /\ out' = out \/ out' = [out EXCEPT ![h] = Append(out[h], Timeout)]
  BY DEF Finish, Write, mainVars, kernelVars
<1>2. out[h] = <<>> \/ (out[h] = <<result[h]>> /\ result[h] # NoReply)
  BY <1>1 DEF CommandTracked, OutputTracked
<1>3. CASE out' = out
  <2>1. UNCHANGED Told
    BY <1>3 DEF Told
  <2> QED
    BY <1>1, <2>1, Stuttering
<1>4. CASE out[h] = <<>> /\ out' = [out EXCEPT ![h] = Append(out[h], Timeout)]
  <2>1. out' = [out EXCEPT ![h] = <<Timeout>>]
    BY <1>4, ShortAppends
  <2>2. Head(<<Timeout>>) = Timeout
    OBVIOUS
  <2>3. UNCHANGED Told
    BY <1>4, <2>1, <2>2 DEF Told
  <2> QED
    BY <1>1, <2>3, Stuttering
<1>5. CASE /\ out[h] = <<result[h]>>
           /\ out' = [out EXCEPT ![h] = Append(out[h], Timeout)]
  <2> DEFINE one == <<result[h]>>
             two == <<result[h], Timeout>>
  <2>1. out[h] = one /\ out' = [out EXCEPT ![h] = two]
    BY <1>5, ShortAppends
  <2>2. one # <<>> /\ two # <<>> /\ Head(one) = Head(two)
    BY EmptyHasNoLength
  <2> HIDE DEF one, two
  <2>3. UNCHANGED Told
    BY <2>1, <2>2 DEF Told
  <2> QED
    BY <1>1, <2>3, Stuttering
<1> QED
  BY <1>1, <1>2, <1>3, <1>4, <1>5

LEMMA StepImplements ==
  ASSUME IInv, RequestQueued, [Next]_vars
  PROVE  [Abstract!Next]_(Abstract!vars)
<1>1. CASE HandleMessage
  BY <1>1, HandlingImplements
<1>2. CASE /\ mpc \notin Stopped /\ mpc' \in Stopped
           /\ list' = <<>>
           /\ UNCHANGED <<ports, result, out, req>>
  <2>1. MapOf(list') = Abstract!Empty
    BY <1>2, EmptyMap
  <2>2. Abstract!Stop
    BY <1>2, <2>1 DEF Abstract!Stop, MapOf
  <2> QED
    BY <2>2 DEF Abstract!Next
<1>3. ASSUME NEW p \in PortIds, PortVanishes(p)
      PROVE  Abstract!Next
  <2>1. Abstract!PortVanishes(p)
    BY <1>3 DEF PortVanishes, Abstract!PortVanishes, mainVars, clientVars
  <2> QED
    BY <2>1 DEF Abstract!Next
<1>4. ASSUME UNCHANGED <<list, ports, result, out>>, mpc' \in Stopped <=> mpc \in Stopped
      PROVE  UNCHANGED Abstract!vars
  BY <1>4, Stuttering DEF Told
<1>5. ASSUME NEW h \in Handlers, Connect(h)
      PROVE  UNCHANGED Abstract!vars
  BY <1>4, <1>5 DEF Connect, mainVars, kernelVars
<1>6. ASSUME NEW h \in Handlers, Forward(h) \/ Finish(h)
      PROVE  [Abstract!Next]_(Abstract!vars)
  BY <1>6, ForwardImplements, FinishImplements DEF Abstract!Next
<1> QED
  BY <1>1, <1>2, <1>3, <1>4, <1>5, <1>6, RegistrySteps

(* However its processes interleave, time out and end, the daemon is a map *)
(* from names to message queues on which each command takes effect at most *)
(* once, in one step, and only what came of it is ever told to its client  *)
(* (parse() and handleMessage() of msgqueueregdaemon.cpp).                 *)
THEOREM DaemonImplementsRegistry == Spec => ImplementsRegistry
<1>1. Init => Abstract!Init
  <2> SUFFICES ASSUME Init PROVE Abstract!Init
    OBVIOUS
  <2>1. MapOf(list) = Abstract!Empty
    BY EmptyMap DEF Init
  <2>2. Told = [h \in Handlers |-> NoReply]
    BY DEF Init, Told
  <2> QED
    BY <2>1, <2>2 DEF Init, Abstract!Init, MapOf, Told, Stopped
<1>2. IInv /\ RequestQueued /\ [Next]_vars => [Abstract!Next]_(Abstract!vars)
  BY StepImplements
<1>3. Init => RequestQueued
  BY EmptyHasNoLength DEF Init, RequestQueued
<1>4. IInv /\ RequestQueued /\ [Next]_vars => RequestQueued'
  BY RequestQueuedStep
<1> QED
  BY <1>1, <1>2, <1>3, <1>4, Invariant, PTL DEF Spec, ImplementsRegistry, Abstract!Spec
=============================================================================
