----------------------------- MODULE SessionProofs -----------------------------
(***************************************************************************)
(* Proofs about two objects that are used call by call, whatever the       *)
(* calls make of their input.                                              *)
(*                                                                         *)
(* Calculator, for any formulas and any way to read and to evaluate them:  *)
(* a session does not end without asking while there is something to       *)
(* save.  That is inductive with what each of the two flags tells of its   *)
(* list, for a save puts both back, and a quit looks at both.              *)
(*                                                                         *)
(* TokenReader, for any text and any scanner: the token that was read last *)
(* is the current one, and the one before it after putback().  It is       *)
(* inductive with what saved holds before putback() changes the two.       *)
(***************************************************************************)
EXTENDS Calculator, TokenReader, SequenceTheorems, TLAPS

(***************************************************************************)
(* Calculator                                                              *)
(***************************************************************************)
(* What an unset flag tells of its list.                                   *)
FlagsTell == ~silent => /\ ~varMod => Values(vars) = base[1]
                        /\ ~funMod => funs = base[2]

(* The end without a question is one with no flag set.                     *)
EndsUnasked == phase = "ended" => ~varMod /\ ~funMod

QuitInv == FlagsTell /\ EndsUnasked /\ base = <<base[1], base[2]>>

-----------------------------------------------------------------------------
LEMMA ContentIsPair ==
  ASSUME NEW vs, NEW fs
  PROVE  /\ Content(vs, fs)[1] = Values(vs) /\ Content(vs, fs)[2] = fs
         /\ Content(vs, fs) = <<Content(vs, fs)[1], Content(vs, fs)[2]>>
  BY DEF Content

(* A formula changes the functions only when it defines one.               *)
LEMMA OnlyDefinitionsChangeFunctions ==
  ASSUME NEW e, NEW vs, NEW fs, NEW order
  PROVE  LET r == Entered(e, vs, fs, order)
         IN  ~r.defined => r.funs = fs
  BY DEF Entered

LEMMA EnterInv ==
  ASSUME QuitInv, NEW e, NEW order, Enter(e, order)
  PROVE  QuitInv'
  <1> DEFINE r == Entered(e, vars, funs, order)
  <1>1. /\ vars' = r.vars /\ funs' = r.funs /\ base' = base
        /\ varMod' = (varMod \/ r.set) /\ funMod' = (funMod \/ r.defined)
        /\ silent' = (silent \/ (r.vars # vars /\ ~r.set))
        /\ phase' \in {"crashed", "endless", "running"}
    BY DEF Enter
  <1>2. ~r.defined => r.funs = funs
    BY OnlyDefinitionsChangeFunctions
  <1> HIDE DEF r
  <1>3. FlagsTell'
    <2>1. ASSUME ~silent', ~varMod' PROVE Values(vars)' = base'[1]
      <3>1. ~silent /\ ~varMod /\ r.vars = vars
        BY <1>1, <2>1
      <3> QED BY <1>1, <3>1 DEF QuitInv, FlagsTell
    <2>2. ASSUME ~silent', ~funMod' PROVE funs' = base'[2]
      BY <1>1, <1>2, <2>2 DEF QuitInv, FlagsTell
    <2> QED BY <2>1, <2>2 DEF FlagsTell
  <1> QED BY <1>1, <1>3 DEF QuitInv, EndsUnasked

LEMMA SaveInv == ASSUME QuitInv, Save PROVE QuitInv'
  <1>1. CASE /\ varMod' = FALSE /\ funMod' = FALSE
             /\ base' = Content(vars, funs) /\ UNCHANGED <<vars, funs>>
    BY <1>1, ContentIsPair DEF QuitInv, FlagsTell, EndsUnasked
  <1>2. CASE UNCHANGED <<varMod, funMod, base, silent, vars, funs, phase>>
    BY <1>2 DEF QuitInv, FlagsTell, EndsUnasked, Values, Free
  <1> QED BY <1>1, <1>2 DEF Save

LEMMA RestartInv == ASSUME QuitInv, Restart PROVE QuitInv'
  <1>1. base' = Content(vars', funs') /\ phase' = "running"
    BY DEF Restart
  <1>2. base'[1] = Values(vars') /\ base'[2] = funs' /\ base' = <<base'[1], base'[2]>>
    BY <1>1, ContentIsPair
  <1> QED BY <1>1, <1>2 DEF QuitInv, FlagsTell, EndsUnasked, Values, Free

LEMMA QuitInvNext == QuitInv /\ [Next]_cvars => QuitInv'
  <1> SUFFICES ASSUME QuitInv, [Next]_cvars PROVE QuitInv'
    OBVIOUS
  <1>1. ASSUME NEW e \in Entries, NEW order \in {"left", "right"}, Enter(e, order) PROVE QuitInv'
    BY <1>1, EnterInv
  <1>2. ASSUME NEW n \in Removable, RemoveVariable(n) \/ UndefineFunction(n) PROVE QuitInv'
    BY <1>2 DEF RemoveVariable, UndefineFunction, Command, QuitInv, FlagsTell, EndsUnasked
  <1>3. CASE Save
    BY <1>3, SaveInv
  <1>4. CASE Load
    BY <1>4 DEF Load, Command, QuitInv, FlagsTell, EndsUnasked
  <1>5. CASE Quit
    BY <1>5 DEF Quit, QuitInv, FlagsTell, EndsUnasked, Values, Free
  <1>6. CASE Answer
    BY <1>6 DEF Answer, QuitInv, FlagsTell, EndsUnasked, Values, Free
  <1>7. CASE Restart
    BY <1>7, RestartInv
  <1>8. ASSUME NEW digits \in Precisions, SetPrecision(digits) PROVE QuitInv'
    BY <1>8 DEF SetPrecision, Command, QuitInv, FlagsTell, EndsUnasked, Values, Free
  <1>9. CASE UNCHANGED cvars
    BY <1>9 DEF cvars, QuitInv, FlagsTell, EndsUnasked, Values, Free
  <1> QED BY <1>1, <1>2, <1>3, <1>4, <1>5, <1>6, <1>7, <1>8, <1>9 DEF Next, Off

LEMMA QuitInvInit == Init => QuitInv
  BY ContentIsPair DEF Init, QuitInv, FlagsTell, EndsUnasked

(* For any formulas, any predefined variables, any way to read and to      *)
(* evaluate a formula, and any number of commands, saves and sessions:     *)
(* whoever has changed something that sets a flag is asked before the end. *)
THEOREM QuitAsks == Spec => []QuitAsksWhenChanged
  <1>1. QuitInv => QuitAsksWhenChanged
    <2> SUFFICES ASSUME QuitInv, phase = "ended", ~silent PROVE Content(vars, funs) = base
      BY DEF QuitAsksWhenChanged
    <2> QED BY DEF QuitInv, FlagsTell, EndsUnasked, Content
  <1> QED BY <1>1, QuitInvInit, QuitInvNext, PTL DEF Spec

(***************************************************************************)
(* TokenReader                                                             *)
(***************************************************************************)
(* The token before the last one, as the reader holds it.                  *)
Previous == IF Len(out) = 1 THEN NoToken ELSE out[Len(out) - 1]

(* Where the last two tokens are, while nothing was thrown.                *)
TokenPlaces == /\ out # <<>> /\ ~back => saved = Previous /\ token = Last(out)
               /\ out # <<>> /\ back  => token = Previous /\ saved = Last(out)
               /\ out = <<>> => token = NoToken

(* A list of any elements.                                                 *)
IsList(s) == s \in Seq({s[i] : i \in DOMAIN s})

ReaderInv == /\ IsList(out)
             /\ reading = "failed" => ~back
             /\ reading # "failed" => TokenPlaces
             /\ out = <<>> => ~back

-----------------------------------------------------------------------------
LEMMA ListOfItsElements ==
  ASSUME NEW S, NEW s \in Seq(S)
  PROVE  IsList(s)
  <1> DEFINE R == {s[i] : i \in DOMAIN s}
  <1>1. s \in [1..Len(s) -> S] /\ Len(s) \in Nat
    OBVIOUS
  <1>2. \A i \in 1..Len(s) : s[i] \in R
    BY <1>1
  <1> HIDE DEF R
  <1>3. s \in [1..Len(s) -> R]
    BY <1>1, <1>2
  <1>4. s \in Seq(R)
    BY <1>1, <1>3
  <1> QED BY <1>4 DEF IsList, R

(* What another element does to the end of a list.                         *)
LEMMA Appended ==
  ASSUME NEW s, IsList(s), NEW x
  PROVE  LET t == Append(s, x)
         IN  /\ IsList(t) /\ t # <<>> /\ Last(t) = x
             /\ s # <<>> => Len(t) # 1 /\ t[Len(t) - 1] = Last(s)
             /\ s = <<>> => Len(t) = 1
  <1> DEFINE S == {s[i] : i \in DOMAIN s} \cup {x}
             t == Append(s, x)
  <1>1. s \in Seq(S)
    <2>1. s \in [1..Len(s) -> {s[i] : i \in DOMAIN s}] /\ Len(s) \in Nat
      BY DEF IsList
    <2> QED BY <2>1
  <1> HIDE DEF S
  <1>2. x \in S
    BY DEF S
  <1>3. /\ t \in Seq(S) /\ Len(t) = Len(s) + 1 /\ t[Len(t)] = x
        /\ \A i \in 1..Len(s) : t[i] = s[i]
    BY <1>1, <1>2
  <1>4. IsList(t)
    BY <1>3, ListOfItsElements
  <1>5. s # <<>> => Len(s) \in Nat \ {0}
    BY <1>1
  <1>6. s = <<>> => Len(s) = 0
    OBVIOUS
  <1>7. t # <<>>
    BY <1>1, <1>3
  <1> HIDE DEF t
  <1>8. Last(t) = x
    BY <1>3 DEF Last
  <1>9. s # <<>> => Len(t) # 1 /\ t[Len(t) - 1] = Last(s)
    BY <1>3, <1>5 DEF Last
  <1>10. s = <<>> => Len(t) = 1
    BY <1>3, <1>6
  <1> QED BY <1>4, <1>7, <1>8, <1>9, <1>10 DEF t

LEMMA Next1Inv == ASSUME ReaderInv, Next1 PROVE ReaderInv'
  <1> DEFINE got == AfterCall(text, opts, stream, line, prev)
             x == IF got.done = "thrown" THEN [got.token EXCEPT !.type = "exception"] ELSE got.token
  <1>1. /\ ~back /\ reading = "reading" /\ back' = back
        /\ saved' = token /\ token' = got.token /\ out' = Append(out, x)
    BY DEF Next1, Left
  <1>2. got.done = "thrown" => reading' = "failed"
    BY DEF Next1, Left
  <1>3. /\ IsList(out)' /\ out' # <<>> /\ Last(out') = x
        /\ out # <<>> => Len(out') # 1 /\ out'[Len(out') - 1] = Last(out)
        /\ out = <<>> => Len(out') = 1
    BY <1>1, Appended DEF ReaderInv
  <1>4. reading' # "failed" => x = got.token
    BY <1>2
  <1> HIDE DEF x
  <1>5. saved' = Previous'
    <2>1. CASE out = <<>>
      BY <2>1, <1>1, <1>3 DEF ReaderInv, TokenPlaces, Previous
    <2>2. CASE out # <<>>
      BY <2>2, <1>1, <1>3 DEF ReaderInv, TokenPlaces, Previous
    <2> QED BY <2>1, <2>2
  <1>6. reading' # "failed" => TokenPlaces'
    BY <1>1, <1>3, <1>4, <1>5 DEF TokenPlaces
  <1> QED BY <1>1, <1>3, <1>6 DEF ReaderInv

LEMMA ReaderInvNext == ReaderInv /\ [ReaderNext]_readerVars => ReaderInv'
  <1> SUFFICES ASSUME ReaderInv, [ReaderNext]_readerVars PROVE ReaderInv'
    OBVIOUS
  <1>1. CASE Again
    BY <1>1 DEF Again, ReaderInv, TokenPlaces, Previous
  <1>2. CASE Next1
    BY <1>2, Next1Inv
  <1>3. CASE PutBack
    BY <1>3 DEF PutBack, ReaderInv, TokenPlaces, Previous
  <1>4. CASE UNCHANGED readerVars
    BY <1>4 DEF readerVars, ReaderInv, TokenPlaces, Previous
  <1> QED BY <1>1, <1>2, <1>3, <1>4 DEF ReaderNext

(* For any text and any scanner, whatever it makes of the text, and any    *)
(* number of tokens that are put back: the current token is the one that   *)
(* was read last, or after putback() the one before it.                    *)
THEOREM CurrentToken == ReaderSpec => []TokenIsCurrent
  <1>1. ReaderInit => ReaderInv
    <2>1. <<>> \in Seq({}) => IsList(<<>>)
      BY ListOfItsElements
    <2>2. IsList(<<>>)
      BY <2>1
    <2> QED BY <2>2 DEF ReaderInit, ReaderInv, TokenPlaces
  <1>2. ReaderInv => TokenIsCurrent
    BY DEF ReaderInv, TokenPlaces, Previous, TokenIsCurrent
  <1> QED BY <1>1, <1>2, ReaderInvNext, PTL DEF ReaderSpec
================================================================================
