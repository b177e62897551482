--------------------------- MODULE CmdlParserProofs ---------------------------
(***************************************************************************)
(* That cmdl::CmdlParser finds what a command line says (module            *)
(* CmdlParser), for all programs and all command lines.                    *)
(*                                                                         *)
(* The definition by which the words of a line are understood (role) looks *)
(* backwards from each word; parse() goes forwards.  The invariant says of *)
(* every variable of parse() what it has to do with the words that were    *)
(* read (Seen).  It speaks of any r that fulfils the definition of role;   *)
(* that there is one is proved in the end, from the smallest number of     *)
(* words for which there were none.                                        *)
(***************************************************************************)
EXTENDS CmdlParser, FiniteSetTheorems, SequenceTheorems, WellFoundedInduction, TLAPS

(* What a word is that stands for itself.                                  *)
Own(i) ==
  CASE words[i].kind \in {"plain", "dash"} -> "argument"
    [] words[i].kind = "long" /\ d.relaxed /\ Representative(words[i].key) \in d.params \cup d.multis -> "opens"
    [] OTHER -> words[i].kind

RoleFrom(r, i) ==
  IF i > 1 /\ r[i - 1] = "opens" THEN "value"
  ELSE IF \E j \in 1..(i - 1) : r[j] = "end" THEN "argument"
  ELSE Own(i)

IsRole(r) == r = [i \in DOMAIN words |-> RoleFrom(r, i)]

-----------------------------------------------------------------------------
(* The meaning of the words that were read.                                *)
Seen(r, what) == {i \in 1..(at - 1) : r[i] = what}

OptionsSeen(r) == {Representative(words[i].key) : i \in Seen(r, "long")}
ShortsSeen(r)  == {ShortRepresentative(c) : c \in UNION {ToSet(words[i].chars) : i \in Seen(r, "short")}}

GivesSeen(r, k) == {i \in Seen(r, "assign") : Representative(words[i].key) = k /\ words[i].value # ""}
                     \cup {i \in Seen(r, "value") : Representative(words[i - 1].key) = k}
ValueOf(r, i) == IF r[i] = "assign" THEN words[i].value ELSE words[i].text

RankIn(r, i) == Cardinality({j \in Seen(r, "argument") : j <= i})
Mandatory == Len(d.arguments)
Placed    == IF counter < Mandatory THEN counter ELSE Mandatory

-----------------------------------------------------------------------------
(* The invariant.                                                          *)
DeclarationsRight ==
  /\ d = [shorts |-> d.shorts, options |-> d.options, params |-> d.params, mandatory |-> d.mandatory,
          multis |-> d.multis, arguments |-> d.arguments, shortreps |-> d.shortreps, reps |-> d.reps,
          shortsynonyms |-> d.shortsynonyms, synonyms |-> d.synonyms, shortaliases |-> d.shortaliases,
          aliases |-> d.aliases, shortsupervisors |-> d.shortsupervisors, supervisors |-> d.supervisors,
          infinite |-> d.infinite, limit |-> d.limit, final |-> d.final, relaxed |-> d.relaxed]
  /\ d.arguments \in Seq(STRING)
  /\ d.mandatory \subseteq d.params
  /\ d.limit \in Int
  /\ d.infinite \in BOOLEAN /\ d.final \in BOOLEAN /\ d.relaxed \in BOOLEAN

Unparsed == /\ at = 1 /\ ended = FALSE /\ supervised = FALSE /\ pending = "none"
            /\ counter = 0 /\ got = NotGiven /\ parseerror = FALSE

FoundIsRecord ==
  got = [shorts |-> got.shorts, options |-> got.options, params |-> got.params, multis |-> got.multis,
         found |-> got.found, arguments |-> got.arguments, mandatory |-> got.mandatory, final |-> got.final]

(* Where parse() is: behind the end of the options, or at the value of the *)
(* option before.                                                          *)
StateRight(r) ==
  /\ at \in 1..(Len(words) + 1)
  /\ ended \in BOOLEAN /\ (ended <=> Seen(r, "end") # {})
  /\ pending \in {"none", "param", "multi"}
  /\ pending # "none" <=> at > 1 /\ r[at - 1] = "opens"
  /\ pending # "none" => /\ key = Representative(words[at - 1].key)
                         /\ pending = "param" <=> key \in d.params
                         /\ key \in d.params \cup d.multis

OptionsFound(r) ==
  got.options = ((OptionsSeen(r) \cap d.options) \ DOMAIN d.aliases)
                   \cup UNION {d.aliases[k] : k \in OptionsSeen(r) \cap DOMAIN d.aliases}

ShortsFound(r) ==
  got.shorts = ((ShortsSeen(r) \cap d.shorts) \ DOMAIN d.shortaliases)
                  \cup UNION {d.shortaliases[k] : k \in ShortsSeen(r) \cap DOMAIN d.shortaliases}

SupervisorSeen(r) ==
  \/ (OptionsSeen(r) \ DOMAIN d.aliases) \cap d.options \cap d.supervisors # {}
  \/ (ShortsSeen(r) \ DOMAIN d.shortaliases) \cap d.shorts \cap d.shortsupervisors # {}

SupervisorFound(r) == supervised \in BOOLEAN /\ (supervised <=> SupervisorSeen(r))

ErrorSeen(r) ==
  \/ ~ (OptionsSeen(r) \subseteq d.options \cup DOMAIN d.aliases)
  \/ ~ (ShortsSeen(r) \subseteq d.shorts \cup DOMAIN d.shortaliases)
  \/ ~ \A i \in Seen(r, "assign") :
         Representative(words[i].key) \in d.params \cup d.multis /\ words[i].value # ""

(* Of a parameter the last value, of a multi-parameter all of them.        *)
ParametersFound(r) ==
  /\ DOMAIN got.params = {k \in d.params : GivesSeen(r, k) # {}}
  /\ got.found = DOMAIN got.params
  /\ \A k \in DOMAIN got.params : \E i \in GivesSeen(r, k) :
       (\A j \in GivesSeen(r, k) : j <= i) /\ got.params[k] = ValueOf(r, i)

MultisFound(r) ==
  /\ DOMAIN got.multis = {k \in d.multis \ d.params : GivesSeen(r, k) # {}}
  /\ \A k \in DOMAIN got.multis : got.multis[k] = {ValueOf(r, i) : i \in GivesSeen(r, k)}

(* The arguments are numbered in their order; the next name is that of the *)
(* next number.                                                            *)
ArgumentsNumbered(r) ==
  /\ counter \in Nat /\ counter = Cardinality(Seen(r, "argument"))
  /\ \A i \in Seen(r, "argument") : RankIn(r, i) \in 1..counter
  /\ \A n \in 1..counter : \E i \in Seen(r, "argument") :
       RankIn(r, i) = n /\ \A j \in Seen(r, "argument") : RankIn(r, j) = n => j = i

NamesGoAround ==
  /\ expected \in Seq(STRING) /\ Len(expected) = Mandatory
  /\ \A n \in 1..(Mandatory - counter) : expected[n] = d.arguments[counter + n]

MandatoryFound(r) ==
  /\ DOMAIN got.mandatory = {d.arguments[n] : n \in 1..Placed}
  /\ \A i \in Seen(r, "argument") :
       /\ RankIn(r, i) <= Mandatory
       /\ \A n \in (RankIn(r, i) + 1)..Placed : d.arguments[n] # d.arguments[RankIn(r, i)]
       => got.mandatory[d.arguments[RankIn(r, i)]] = words[i].text

Surplus == IF counter > Mandatory THEN counter - Mandatory ELSE 0

(* args: the arguments behind the mandatory ones.                          *)
SurplusIs(r, args) ==
  /\ args \in Seq(STRING) /\ Len(args) = Surplus
  /\ \A i \in Seen(r, "argument") : RankIn(r, i) > Mandatory => args[RankIn(r, i) - Mandatory] = words[i].text

Parsing(r) ==
  /\ StateRight(r) /\ OptionsFound(r) /\ ShortsFound(r) /\ SupervisorFound(r)
  /\ ParametersFound(r) /\ MultisFound(r)
  /\ ArgumentsNumbered(r) /\ NamesGoAround /\ MandatoryFound(r)

WhileParsing(r) == /\ SurplusIs(r, got.arguments) /\ got.final = <<>>
                   /\ parseerror \in BOOLEAN /\ (parseerror <=> ErrorSeen(r))

(* What is missing or too much in the end.                                 *)
EndError ==
  \/ d.final /\ Surplus = 0
  \/ d.mandatory \ got.found # {}
  \/ counter < Mandatory
  \/ d.limit # -1 /\ counter > d.limit
  \/ Surplus > 0 /\ Mandatory = 0 /\ ~d.infinite /\ ~d.final

AfterParsing(r) ==
  /\ at = Len(words) + 1
  /\ SurplusIs(r, got.arguments \o got.final)
  /\ Len(got.final) = IF d.final /\ Surplus > 0 THEN 1 ELSE 0
  /\ got.arguments \in Seq(STRING) /\ got.final \in Seq(STRING)
  /\ outcome = "parsed" <=> SupervisorSeen(r) \/ ~ (ErrorSeen(r) \/ EndError)

IInv ==
  /\ outcome \in {"declaring", "refused", "parsing", "parsed", "thrown"}
  /\ DeclarationsRight
  /\ outcome = "declaring" => program \in Seq(Calls) /\ Unparsed
  /\ outcome \in {"parsing", "parsed", "thrown"} =>
       /\ words \in Seq(ArgvWords)
       /\ FoundIsRecord
       /\ \A r : IsRole(r) => Parsing(r)
  /\ outcome = "parsing" => \A r : IsRole(r) => WhileParsing(r)
  /\ outcome \in {"parsed", "thrown"} => \A r : IsRole(r) => AfterParsing(r)

-----------------------------------------------------------------------------
LEMMA InitHolds == CmdlInit => IInv
<1> SUFFICES ASSUME CmdlInit PROVE IInv
  OBVIOUS
<1>1. /\ d = Nothing /\ outcome = "declaring" /\ program \in Seq(Calls) /\ Unparsed
  BY ProgramsAssumption DEF CmdlInit, Unparsed
<1>2. DeclarationsRight
  <2> HIDE DEF NoEntries
  <2> QED
    BY <1>1 DEF DeclarationsRight, Nothing
<1> QED
  BY <1>1, <1>2 DEF IInv

LEMMA DeclareStep ==
  ASSUME IInv, Declare
  PROVE  IInv'
<1>1. /\ outcome = "declaring" /\ program # <<>> /\ program \in Seq(Calls) /\ Unparsed /\ DeclarationsRight
      /\ program' = Tail(program) /\ UNCHANGED parsing
  BY DEF IInv, Declare
<1>2. Head(program) \in Calls /\ program' \in Seq(Calls)
  BY <1>1
<1>3. Unparsed'
  BY <1>1 DEF Unparsed, parsing
<1>4. CASE Refused(Head(program))
  <2>1. outcome' = "refused" /\ d' = d
    BY <1>4 DEF Declare
  <2>2. DeclarationsRight'
    BY <1>1, <2>1 DEF DeclarationsRight
  <2> QED
    BY <2>1, <2>2 DEF IInv
<1>5. CASE ~Refused(Head(program))
  <2>1. outcome' = "declaring" /\ d' = After(Head(program))
    BY <1>1, <1>5 DEF Declare
  <2>2. DeclarationsRight'
    <3> DEFINE c == Head(program)
    <3> HIDE DEF c
    <3>1. c \in Calls /\ d' = After(c)
      BY <1>2, <2>1 DEF c
    <3>2. CASE c.op \in {"addShortoption", "addOption", "addMultiParameter"}
      BY <1>1, <3>1, <3>2 DEF After, DeclarationsRight, Calls
    <3>3. CASE c.op = "addParameter"
      BY <1>1, <3>1, <3>3 DEF After, DeclarationsRight, Calls
    <3>4. CASE c.op = "addMandatoryArgument"
      <4>1. d' = [d EXCEPT !.arguments = Append(d.arguments, c.name)]
        BY <3>1, <3>4 DEF After
      <4>2. c.name \in STRING /\ d.arguments \in Seq(STRING)
        BY <1>1, <3>1 DEF Calls, DeclarationsRight
      <4>3. Append(d.arguments, c.name) \in Seq(STRING)
        BY <4>2
      <4> QED
        BY <1>1, <4>1, <4>3 DEF DeclarationsRight
    <3>5. CASE c.op \in {"shortsynonym", "synonym", "shortalias", "alias", "shortsupervisor", "supervisor"}
      BY <1>1, <3>1, <3>5 DEF After, DeclarationsRight, Calls
    <3>6. CASE c.op = "setArgumentsLimit"
      <4>1. d' = [d EXCEPT !.limit = c.max, !.infinite = FALSE]
        BY <3>1, <3>6 DEF After
      <4>2. c.max \in Int
        BY <3>1 DEF Calls
      <4> QED
        BY <1>1, <4>1, <4>2 DEF DeclarationsRight
    <3>7. CASE c.op = "setInfiniteArguments"
      <4> DEFINE none == -1
      <4>1. d' = [d EXCEPT !.infinite = TRUE, !.limit = none]
        BY <3>1, <3>7 DEF After
      <4>2. none \in Int
        OBVIOUS
      <4> HIDE DEF none
      <4> QED
        BY <1>1, <4>1, <4>2 DEF DeclarationsRight
    <3>8. CASE c.op = "setFinalArgument"
      <4>1. d' = [d EXCEPT !.final = TRUE]
        BY <3>1, <3>8 DEF After
      <4> QED
        BY <1>1, <4>1 DEF DeclarationsRight
    <3>9. CASE c.op = "allowRelaxedSyntax"
      <4>1. d' = [d EXCEPT !.relaxed = TRUE]
        BY <3>1, <3>9 DEF After
      <4> QED
        BY <1>1, <4>1 DEF DeclarationsRight
    <3>10. c.op \in Operations
      BY <3>1 DEF Calls
    <3> QED
      BY <3>2, <3>3, <3>4, <3>5, <3>6, <3>7, <3>8, <3>9, <3>10, Zenon DEF Operations
  <2> QED
    BY <1>2, <1>3, <2>1, <2>2 DEF IInv
<1> QED
  BY <1>4, <1>5
-----------------------------------------------------------------------------
(* Nothing was read, nothing is found.                                     *)
LEMMA StartStep ==
  ASSUME IInv, Start
  PROVE  IInv'
<1>1. /\ outcome = "declaring" /\ Unparsed /\ DeclarationsRight
      /\ words' \in Seq(ArgvWords) /\ outcome' = "parsing" /\ expected' = d.arguments
      /\ UNCHANGED <<program, d, at, ended, supervised, pending, key, counter, got, parseerror>>
  BY CommandLinesAssumption DEF IInv, Start
<1>2. DeclarationsRight'
  BY <1>1 DEF DeclarationsRight
<1>3. /\ at' = 1 /\ ended' = FALSE /\ supervised' = FALSE /\ pending' = "none" /\ counter' = 0
      /\ got' = NotGiven /\ parseerror' = FALSE
  BY <1>1 DEF Unparsed
<1>4. FoundIsRecord'
  <2> HIDE DEF NoEntries
  <2> QED
    BY <1>3 DEF FoundIsRecord, NotGiven
<1>5. ASSUME NEW r
      PROVE  Parsing(r)' /\ WhileParsing(r)'
  <2>1. \A what : Seen(r, what)' = {}
    BY <1>3 DEF Seen
  <2>2. OptionsSeen(r)' = {} /\ ShortsSeen(r)' = {}
    BY <2>1 DEF OptionsSeen, ShortsSeen
  <2>3. \A k : GivesSeen(r, k)' = {}
    BY <2>1 DEF GivesSeen
  <2>4. /\ got'.shorts = {} /\ got'.options = {} /\ got'.found = {} /\ got'.arguments = <<>> /\ got'.final = <<>>
        /\ got'.params = NoEntries /\ got'.multis = NoEntries /\ got'.mandatory = NoEntries
    <3> HIDE DEF NoEntries
    <3> QED
      BY <1>3 DEF NotGiven
  <2>5. DOMAIN got'.params = {} /\ DOMAIN got'.multis = {} /\ DOMAIN got'.mandatory = {}
    BY <2>4 DEF NoEntries
  <2>6. StateRight(r)'
    <3>1. Len(words') \in Nat
      BY <1>1
    <3>2. at' \in 1..(Len(words') + 1)
      BY <1>3, <3>1
    <3>3. ended' \in BOOLEAN /\ (ended' <=> Seen(r, "end")' # {})
      BY <1>3, <2>1
    <3>4. pending' # "none" <=> at' > 1 /\ r[at' - 1] = "opens"
      BY <1>3
    <3> QED
      BY <1>3, <3>2, <3>3, <3>4 DEF StateRight
  <2>7. OptionsFound(r)' /\ ShortsFound(r)'
    BY <2>2, <2>4 DEF OptionsFound, ShortsFound
  <2>8. SupervisorFound(r)'
    BY <1>3, <2>2 DEF SupervisorFound, SupervisorSeen
  <2>9. ParametersFound(r)' /\ MultisFound(r)'
    BY <2>3, <2>4, <2>5 DEF ParametersFound, MultisFound
  <2>10. ArgumentsNumbered(r)'
    BY <1>3, <2>1, FS_EmptySet DEF ArgumentsNumbered
  <2>11. Mandatory' \in Nat /\ expected' \in Seq(STRING) /\ Len(expected') = Mandatory'
    BY <1>1 DEF DeclarationsRight, Mandatory
  <2>12. NamesGoAround'
    BY <1>1, <1>3, <2>11 DEF NamesGoAround
  <2>13. Placed' = 0 /\ Surplus' = 0
    <3>1. Len(d'.arguments) \in Nat
      BY <2>11 DEF Mandatory
    <3> QED
      BY <1>3, <3>1 DEF Placed, Surplus, Mandatory
  <2>14. MandatoryFound(r)'
    BY <2>1, <2>5, <2>13 DEF MandatoryFound
  <2>15. SurplusIs(r, got.arguments)'
    BY <2>1, <2>4, <2>13 DEF SurplusIs
  <2>16. ~ErrorSeen(r)'
    BY <2>1, <2>2 DEF ErrorSeen
  <2> QED
    BY <1>3, <2>4, <2>6, <2>7, <2>8, <2>9, <2>10, <2>12, <2>14, <2>15, <2>16 DEF Parsing, WhileParsing
<1> QED
  BY <1>1, <1>2, <1>4, <1>5 DEF IInv

-----------------------------------------------------------------------------
(* One more word is read.                                                  *)
Turn == /\ outcome = "parsing" /\ at <= Len(words)
        /\ at' = at + 1 /\ UNCHANGED <<program, d, words, outcome>>

LEMMA RoleOfWord ==
  ASSUME NEW r, IsRole(r), StateRight(r), words \in Seq(ArgvWords), Turn
  PROVE  /\ at \in DOMAIN words
         /\ r[at] = IF pending # "none" THEN "value" ELSE IF ended THEN "argument" ELSE Own(at)
         /\ words[at] \in ArgvWords
<1>1. at \in DOMAIN words /\ at \in Nat /\ at >= 1 /\ words[at] \in ArgvWords
  BY DEF StateRight, Turn
<1>2. r[at] = RoleFrom(r, at)
  <2> HIDE DEF RoleFrom
  <2> QED
    BY <1>1, Zenon DEF IsRole
<1>3. pending # "none" <=> at > 1 /\ r[at - 1] = "opens"
  BY DEF StateRight
<1>4. ended <=> \E j \in 1..(at - 1) : r[j] = "end"
  BY DEF StateRight, Seen
<1> QED
  BY <1>1, <1>2, <1>3, <1>4 DEF RoleFrom

LEMMA SeenStep ==
  ASSUME NEW r, StateRight(r), Turn
  PROVE  /\ \A what : Seen(r, what)' = IF r[at] = what THEN Seen(r, what) \cup {at} ELSE Seen(r, what)
         /\ \A what : \A i \in Seen(r, what) : i < at /\ i \in 1..(at - 1)
         /\ \A x : Representative(x)' = Representative(x) /\ ShortRepresentative(x)' = ShortRepresentative(x)
         /\ \A i : ValueOf(r, i)' = ValueOf(r, i)
<1>1. at \in Nat /\ at >= 1 /\ at' - 1 = at /\ d' = d /\ words' = words
  BY DEF StateRight, Turn
<1>2. 1..(at' - 1) = 1..(at - 1) \cup {at}
  BY <1>1
<1>3. \A what : Seen(r, what)' = IF r[at] = what THEN Seen(r, what) \cup {at} ELSE Seen(r, what)
  BY <1>2 DEF Seen
<1>4. \A what : \A i \in Seen(r, what) : i < at /\ i \in 1..(at - 1)
  BY <1>1 DEF Seen
<1>5. \A x : Representative(x)' = Representative(x) /\ ShortRepresentative(x)' = ShortRepresentative(x)
  BY <1>1 DEF Representative, ShortRepresentative
<1>6. \A i : ValueOf(r, i)' = ValueOf(r, i)
  BY <1>1 DEF ValueOf
<1> QED
  BY <1>3, <1>4, <1>5, <1>6

LEMMA MeaningKept ==
  ASSUME NEW r, StateRight(r), Turn
  PROVE  /\ r[at] # "long" => OptionsSeen(r)' = OptionsSeen(r)
         /\ r[at] # "short" => ShortsSeen(r)' = ShortsSeen(r)
         /\ r[at] \notin {"assign", "value"} => \A k : GivesSeen(r, k)' = GivesSeen(r, k)
         /\ r[at] # "argument" => \A i : RankIn(r, i)' = RankIn(r, i)
<1>1. words' = words
  BY DEF Turn
<1>2. \A what : r[at] # what => Seen(r, what)' = Seen(r, what)
  BY SeenStep
<1>3. \A x : Representative(x)' = Representative(x) /\ ShortRepresentative(x)' = ShortRepresentative(x)
  BY SeenStep
<1>4. r[at] # "long" => OptionsSeen(r)' = OptionsSeen(r)
  BY <1>1, <1>2, <1>3 DEF OptionsSeen
<1>5. r[at] # "short" => ShortsSeen(r)' = ShortsSeen(r)
  BY <1>1, <1>2, <1>3 DEF ShortsSeen
<1>6. ASSUME r[at] \notin {"assign", "value"}, NEW k PROVE GivesSeen(r, k)' = GivesSeen(r, k)
  <2>1. Seen(r, "assign")' = Seen(r, "assign") /\ Seen(r, "value")' = Seen(r, "value")
    BY <1>2, <1>6
  <2> QED
    BY <1>1, <1>3, <2>1 DEF GivesSeen
<1>7. r[at] # "argument" => \A i : RankIn(r, i)' = RankIn(r, i)
  BY <1>2 DEF RankIn
<1> QED
  BY <1>4, <1>5, <1>6, <1>7

LEMMA MeaningGrows ==
  ASSUME NEW r, StateRight(r), Turn
  PROVE  /\ r[at] = "long" => OptionsSeen(r)' = OptionsSeen(r) \cup {Representative(words[at].key)}
         /\ r[at] = "short" => ShortsSeen(r)' = ShortsSeen(r) \cup {ShortRepresentative(c) : c \in ToSet(words[at].chars)}
         /\ r[at] = "assign" => \A k : GivesSeen(r, k)' =
              GivesSeen(r, k) \cup {i \in {at} : Representative(words[i].key) = k /\ words[i].value # ""}
         /\ r[at] = "value" => \A k : GivesSeen(r, k)' =
              GivesSeen(r, k) \cup {i \in {at} : Representative(words[i - 1].key) = k}
<1>1. words' = words
  BY DEF Turn
<1>2. /\ \A what : r[at] = what => Seen(r, what)' = Seen(r, what) \cup {at}
      /\ \A what : r[at] # what => Seen(r, what)' = Seen(r, what)
  BY SeenStep
<1>3. \A x : Representative(x)' = Representative(x) /\ ShortRepresentative(x)' = ShortRepresentative(x)
  BY SeenStep
<1>4. ASSUME r[at] = "long" PROVE OptionsSeen(r)' = OptionsSeen(r) \cup {Representative(words[at].key)}
  <2>1. Seen(r, "long")' = Seen(r, "long") \cup {at}
    BY <1>2, <1>4
  <2> QED
    BY <1>1, <1>3, <2>1 DEF OptionsSeen
<1>5. ASSUME r[at] = "short"
      PROVE  ShortsSeen(r)' = ShortsSeen(r) \cup {ShortRepresentative(c) : c \in ToSet(words[at].chars)}
  <2>1. Seen(r, "short")' = Seen(r, "short") \cup {at}
    BY <1>2, <1>5
  <2> QED
    BY <1>1, <1>3, <2>1 DEF ShortsSeen
<1>6. ASSUME r[at] = "assign", NEW k
      PROVE  GivesSeen(r, k)' =
               GivesSeen(r, k) \cup {i \in {at} : Representative(words[i].key) = k /\ words[i].value # ""}
  <2>1. Seen(r, "assign")' = Seen(r, "assign") \cup {at} /\ Seen(r, "value")' = Seen(r, "value")
    BY <1>2, <1>6
  <2> QED
    BY <1>1, <1>3, <2>1 DEF GivesSeen
<1>7. ASSUME r[at] = "value", NEW k
      PROVE  GivesSeen(r, k)' = GivesSeen(r, k) \cup {i \in {at} : Representative(words[i - 1].key) = k}
  <2>1. Seen(r, "value")' = Seen(r, "value") \cup {at} /\ Seen(r, "assign")' = Seen(r, "assign")
    BY <1>2, <1>7
  <2> QED
    BY <1>1, <1>3, <2>1 DEF GivesSeen
<1> QED
  BY <1>4, <1>5, <1>6, <1>7

-----------------------------------------------------------------------------
(* What a word that is not concerned leaves as it is.                      *)
OptionsPart(r)    == OptionsFound(r) /\ ShortsFound(r) /\ SupervisorFound(r)
ParametersPart(r) == ParametersFound(r) /\ MultisFound(r)
ArgumentsPart(r)  == ArgumentsNumbered(r) /\ NamesGoAround /\ MandatoryFound(r) /\ SurplusIs(r, got.arguments)
ErrorsPart(r)     == parseerror \in BOOLEAN /\ (parseerror <=> ErrorSeen(r))

LEMMA OptionsKept ==
  ASSUME NEW r, StateRight(r), Turn, OptionsPart(r), r[at] \notin {"long", "short"},
         got'.options = got.options, got'.shorts = got.shorts, supervised' = supervised
  PROVE  OptionsPart(r)'
<1>1. OptionsSeen(r)' = OptionsSeen(r) /\ ShortsSeen(r)' = ShortsSeen(r) /\ d' = d
  BY MeaningKept DEF Turn
<1> QED
  BY <1>1 DEF OptionsPart, OptionsFound, ShortsFound, SupervisorFound, SupervisorSeen

LEMMA ParametersKept ==
  ASSUME NEW r, StateRight(r), Turn, ParametersPart(r), r[at] \notin {"assign", "value"},
         got'.params = got.params, got'.multis = got.multis, got'.found = got.found
  PROVE  ParametersPart(r)'
<1>1. d' = d /\ \A k : GivesSeen(r, k)' = GivesSeen(r, k)
  BY MeaningKept DEF Turn
<1>2. \A i : ValueOf(r, i)' = ValueOf(r, i)
  BY SeenStep
<1> QED
  BY <1>1, <1>2 DEF ParametersPart, ParametersFound, MultisFound

LEMMA ArgumentsKept ==
  ASSUME NEW r, StateRight(r), Turn, ArgumentsPart(r), r[at] # "argument",
         got'.arguments = got.arguments, got'.mandatory = got.mandatory, counter' = counter, expected' = expected
  PROVE  ArgumentsPart(r)'
<1>1. d' = d /\ words' = words /\ Seen(r, "argument")' = Seen(r, "argument") /\ \A i : RankIn(r, i)' = RankIn(r, i)
  BY MeaningKept, SeenStep DEF Turn
<1>2. Mandatory' = Mandatory /\ Placed' = Placed /\ Surplus' = Surplus
  BY <1>1 DEF Mandatory, Placed, Surplus
<1>3. ArgumentsNumbered(r)'
  BY <1>1 DEF ArgumentsPart, ArgumentsNumbered
<1>4. NamesGoAround'
  BY <1>1, <1>2 DEF ArgumentsPart, NamesGoAround
<1>5. MandatoryFound(r)'
  BY <1>1, <1>2 DEF ArgumentsPart, MandatoryFound
<1>6. SurplusIs(r, got.arguments)'
  BY <1>1, <1>2 DEF ArgumentsPart, SurplusIs
<1> QED
  BY <1>3, <1>4, <1>5, <1>6 DEF ArgumentsPart

LEMMA ErrorsKept ==
  ASSUME NEW r, StateRight(r), Turn, ErrorsPart(r), r[at] \notin {"long", "short", "assign"},
         parseerror' = parseerror
  PROVE  ErrorsPart(r)'
<1>1. OptionsSeen(r)' = OptionsSeen(r) /\ ShortsSeen(r)' = ShortsSeen(r) /\ d' = d /\ words' = words
      /\ Seen(r, "assign")' = Seen(r, "assign")
  BY MeaningKept, SeenStep DEF Turn
<1>2. \A x : Representative(x)' = Representative(x)
  BY SeenStep
<1> QED
  BY <1>1, <1>2 DEF ErrorsPart, ErrorSeen
-----------------------------------------------------------------------------
(* The turns of parse()'s loop.                                            *)
Right(r) ==
  /\ StateRight(r) /\ OptionsPart(r) /\ ParametersPart(r) /\ ArgumentsPart(r) /\ ErrorsPart(r)
  /\ got.final = <<>>

Reads == outcome = "parsing" /\ words \in Seq(ArgvWords) /\ FoundIsRecord /\ DeclarationsRight

LEMMA StateStep ==
  ASSUME NEW r, IsRole(r), StateRight(r), Reads, Turn,
         ended' = (ended \/ r[at] = "end"),
         pending' \in {"none", "param", "multi"},
         pending' # "none" <=> r[at] = "opens",
         pending' # "none" => /\ key' = Representative(words[at].key)
                              /\ pending' = "param" <=> key' \in d.params
                              /\ key' \in d.params \cup d.multis
  PROVE  StateRight(r)'
<1>1. at \in Nat /\ at >= 1 /\ at' = at + 1 /\ at' - 1 = at /\ at' > 1 /\ d' = d /\ words' = words
  BY DEF StateRight, Turn
<1>2. at' \in 1..(Len(words') + 1)
  <2>1. Len(words) \in Nat /\ at <= Len(words)
    BY DEF Reads, Turn
  <2> QED
    BY <1>1, <2>1
<1>3. ended' \in BOOLEAN /\ (ended' <=> Seen(r, "end")' # {})
  <2>1. Seen(r, "end")' = IF r[at] = "end" THEN Seen(r, "end") \cup {at} ELSE Seen(r, "end")
    BY SeenStep
  <2>2. ended \in BOOLEAN /\ (ended <=> Seen(r, "end") # {})
    BY DEF StateRight
  <2> QED
    BY <2>1, <2>2
<1>4. Representative(words[at - 1].key)' = Representative(words[at].key)
  BY <1>1 DEF Representative
<1>5. pending' # "none" <=> at' > 1 /\ r[at' - 1] = "opens"
  BY <1>1
<1>6. pending' # "none" =>
        /\ key' = Representative(words[at - 1].key)'
        /\ pending' = "param" <=> key' \in d'.params
        /\ key' \in d'.params \cup d'.multis
  BY <1>1, <1>4
<1> QED
  BY <1>2, <1>3, <1>5, <1>6, Zenon DEF StateRight

(* WordIs: a word that is no value, and none behind "--" but an argument.  *)
LEMMA WordIsTurn ==
  ASSUME NEW r, IsRole(r), StateRight(r), Reads, NEW kinds, WordIs(kinds)
  PROVE  /\ Turn /\ pending = "none" /\ words[at] \in ArgvWords
         /\ ended => r[at] = "argument" /\ "argument" \in kinds
         /\ ~ended => r[at] = Own(at) /\ words[at].kind \in kinds
<1>1. Turn /\ pending = "none"
  BY DEF WordIs, Turn
<1>2. /\ r[at] = IF pending # "none" THEN "value" ELSE IF ended THEN "argument" ELSE Own(at)
      /\ words[at] \in ArgvWords
  BY <1>1, RoleOfWord DEF Reads
<1> QED
  BY <1>1, <1>2 DEF WordIs

LEMMA EndOfOptionsStep ==
  ASSUME NEW r, IsRole(r), Right(r), Reads, EndOfOptions
  PROVE  Right(r)' /\ FoundIsRecord'
<1>1. /\ WordIs({"end"}) /\ ended' = TRUE
      /\ UNCHANGED <<supervised, pending, key, counter, expected, got, parseerror>>
  BY DEF EndOfOptions
<1>2. Turn /\ pending = "none" /\ ~ended /\ words[at].kind = "end" /\ r[at] = Own(at)
  BY <1>1, WordIsTurn DEF Right, StateRight
<1>3. r[at] = "end"
  BY <1>2 DEF Own
<1>4. StateRight(r)'
  BY <1>1, <1>2, <1>3, StateStep DEF Right
<1>5. OptionsPart(r)' /\ ParametersPart(r)' /\ ArgumentsPart(r)' /\ ErrorsPart(r)'
  BY <1>1, <1>2, <1>3, OptionsKept, ParametersKept, ArgumentsKept, ErrorsKept DEF Right
<1> QED
  BY <1>1, <1>4, <1>5 DEF Right, Reads, FoundIsRecord

LEMMA ShortoptionsStep ==
  ASSUME NEW r, IsRole(r), Right(r), Reads, Shortoptions
  PROVE  Right(r)' /\ FoundIsRecord'
<1> DEFINE given   == {ShortRepresentative(c) : c \in ToSet(words[at].chars)}
           options == (given \cap d.shorts) \ DOMAIN d.shortaliases
           aliased == UNION {d.shortaliases[c] : c \in given \cap DOMAIN d.shortaliases}
<1>1. /\ WordIs({"short"})
      /\ got' = [got EXCEPT !.shorts = got.shorts \cup options \cup aliased]
      /\ parseerror' = (parseerror \/ given \ (d.shorts \cup DOMAIN d.shortaliases) # {})
      /\ supervised' = (supervised \/ options \cap d.shortsupervisors # {})
      /\ UNCHANGED <<ended, pending, key, counter, expected>>
  BY DEF Shortoptions
<1>2. Turn /\ pending = "none" /\ ~ended /\ words[at].kind = "short" /\ r[at] = Own(at)
  BY <1>1, WordIsTurn DEF Right, StateRight
<1>3. r[at] = "short"
  BY <1>2 DEF Own
<1>4. /\ OptionsSeen(r)' = OptionsSeen(r) /\ d' = d /\ words' = words
      /\ ShortsSeen(r)' = ShortsSeen(r) \cup given
      /\ Seen(r, "assign")' = Seen(r, "assign")
  BY <1>2, <1>3, MeaningKept, MeaningGrows, SeenStep DEF Right, Turn
<1> HIDE DEF given
<1>5. /\ got'.shorts = got.shorts \cup options \cup aliased /\ got'.options = got.options
      /\ got'.params = got.params /\ got'.multis = got.multis /\ got'.found = got.found
      /\ got'.arguments = got.arguments /\ got'.mandatory = got.mandatory /\ got'.final = got.final
      /\ FoundIsRecord'
  BY <1>1 DEF Reads, FoundIsRecord
<1>6. StateRight(r)'
  <2>1. ended' = (ended \/ r[at] = "end")
    BY <1>1, <1>3 DEF Right, StateRight
  <2> QED
    BY <1>1, <1>2, <1>3, <2>1, StateStep DEF Right
<1>7. ParametersPart(r)' /\ ArgumentsPart(r)'
  BY <1>1, <1>2, <1>3, <1>5, ParametersKept, ArgumentsKept DEF Right
<1>8. OptionsPart(r)'
  <2>1. OptionsFound(r)'
    BY <1>4, <1>5 DEF Right, OptionsPart, OptionsFound
  <2>2. ShortsFound(r)'
    BY <1>4, <1>5 DEF Right, OptionsPart, ShortsFound
  <2>3. SupervisorSeen(r)' <=> SupervisorSeen(r) \/ options \cap d.shortsupervisors # {}
    BY <1>4 DEF SupervisorSeen
  <2>4. SupervisorFound(r)'
    BY <1>1, <2>3 DEF Right, OptionsPart, SupervisorFound
  <2> QED
    BY <2>1, <2>2, <2>4 DEF OptionsPart
<1>9. ErrorsPart(r)'
  <2>1. \A x : Representative(x)' = Representative(x)
    BY <1>2, SeenStep DEF Right
  <2>2. ErrorSeen(r)' <=> ErrorSeen(r) \/ given \ (d.shorts \cup DOMAIN d.shortaliases) # {}
    BY <1>4, <2>1 DEF ErrorSeen
  <2> QED
    BY <1>1, <2>2 DEF Right, ErrorsPart
<1> QED
  BY <1>5, <1>6, <1>7, <1>8, <1>9 DEF Right

(* A value for key k, which is a parameter or a multi-parameter.           *)
LEMMA ValueGiven ==
  ASSUME NEW r, Right(r), Reads, Turn, NEW k, NEW v, k \in d.params \cup d.multis,
         \A x : GivesSeen(r, x)' = IF x = k THEN GivesSeen(r, x) \cup {at} ELSE GivesSeen(r, x),
         v = ValueOf(r, at),
         got' = IF k \in d.params THEN WithParameter(got, k, v) ELSE WithMulti(got, k, v)
  PROVE  /\ ParametersPart(r)' /\ FoundIsRecord'
         /\ got'.options = got.options /\ got'.shorts = got.shorts /\ got'.final = got.final
         /\ got'.arguments = got.arguments /\ got'.mandatory = got.mandatory
<1>1. d' = d /\ \A i : ValueOf(r, i)' = ValueOf(r, i)
  BY SeenStep DEF Right, Turn
<1>2. \A x : \A i \in GivesSeen(r, x) : i < at /\ i \in Nat
  <2>1. \A what : \A i \in Seen(r, what) : i < at /\ i \in Nat
    BY SeenStep DEF Right
  <2> QED
    BY <2>1 DEF GivesSeen
<1>3. at \in Nat
  BY DEF Right, StateRight
<1>4. ParametersFound(r) /\ MultisFound(r)
  BY DEF Right, ParametersPart
<1>5. CASE k \in d.params
  <2>1. got' = [got EXCEPT !.params = Put(got.params, k, v), !.found = got.found \cup {k}]
    BY <1>5 DEF WithParameter
  <2>2. /\ FoundIsRecord' /\ got'.params = Put(got.params, k, v) /\ got'.found = got.found \cup {k}
        /\ got'.multis = got.multis /\ got'.options = got.options /\ got'.shorts = got.shorts
        /\ got'.final = got.final /\ got'.arguments = got.arguments /\ got'.mandatory = got.mandatory
    BY <2>1 DEF Reads, FoundIsRecord
  <2>3. DOMAIN got'.params = DOMAIN got.params \cup {k}
        /\ \A x \in DOMAIN got'.params : got'.params[x] = IF x = k THEN v ELSE got.params[x]
    BY <2>2 DEF Put
  <2>4. DOMAIN got'.params = {x \in d.params : GivesSeen(r, x)' # {}} /\ got'.found = DOMAIN got'.params
    BY <1>4, <1>5, <2>2, <2>3 DEF ParametersFound
  <2>5. ASSUME NEW x \in DOMAIN got'.params
        PROVE  \E i \in GivesSeen(r, x)' : (\A j \in GivesSeen(r, x)' : j <= i) /\ got'.params[x] = ValueOf(r, i)'
    <3>1. CASE x = k
      <4>1. PICK i : i = at
        OBVIOUS
      <4>2. i \in GivesSeen(r, x)' /\ \A j \in GivesSeen(r, x)' : j <= i
        BY <1>2, <1>3, <3>1, <4>1
      <4>3. got'.params[x] = ValueOf(r, i)'
        BY <1>1, <2>3, <3>1, <4>1
      <4> QED
        BY <4>2, <4>3
    <3>2. CASE x # k
      BY <1>1, <1>4, <2>3, <3>2 DEF ParametersFound
    <3> QED
      BY <3>1, <3>2
  <2>6. ParametersFound(r)'
    BY <1>1, <2>4, <2>5 DEF ParametersFound
  <2>7. MultisFound(r)'
    BY <1>1, <1>4, <1>5, <2>2 DEF MultisFound
  <2> QED
    BY <2>2, <2>6, <2>7 DEF ParametersPart
<1>6. CASE k \notin d.params
  <2>1. got' = [got EXCEPT !.multis = AddTo(got.multis, k, v)]
    BY <1>6 DEF WithMulti
  <2>2. /\ FoundIsRecord' /\ got'.params = got.params /\ got'.found = got.found
        /\ got'.multis = AddTo(got.multis, k, v) /\ got'.options = got.options /\ got'.shorts = got.shorts
        /\ got'.final = got.final /\ got'.arguments = got.arguments /\ got'.mandatory = got.mandatory
    BY <2>1 DEF Reads, FoundIsRecord
  <2>3. DOMAIN got'.multis = DOMAIN got.multis \cup {k}
        /\ \A x \in DOMAIN got'.multis : got'.multis[x] =
             IF x = k THEN {v} \cup (IF k \in DOMAIN got.multis THEN got.multis[k] ELSE {}) ELSE got.multis[x]
    <3> DEFINE all == {v} \cup (IF k \in DOMAIN got.multis THEN got.multis[k] ELSE {})
    <3>1. got'.multis = [x \in DOMAIN got.multis \cup {k} |-> IF x = k THEN all ELSE got.multis[x]]
      BY <2>2 DEF AddTo, Put
    <3> HIDE DEF all
    <3>2. DOMAIN got'.multis = DOMAIN got.multis \cup {k}
          /\ \A x \in DOMAIN got'.multis : got'.multis[x] = IF x = k THEN all ELSE got.multis[x]
      BY <3>1
    <3> QED
      BY <3>2 DEF all
  <2>4. DOMAIN got'.multis = {x \in d.multis \ d.params : GivesSeen(r, x)' # {}}
    BY <1>4, <1>6, <2>3 DEF MultisFound
  <2>5. ASSUME NEW x \in DOMAIN got'.multis
        PROVE  got'.multis[x] = {ValueOf(r, i) : i \in GivesSeen(r, x)'}
    <3>1. CASE x = k
      <4>1. GivesSeen(r, x)' = GivesSeen(r, k) \cup {at}
        BY <3>1
      <4>2. {ValueOf(r, i) : i \in GivesSeen(r, x)'} = {v} \cup {ValueOf(r, i) : i \in GivesSeen(r, k)}
        BY <4>1
      <4>3. k \in DOMAIN got.multis => got.multis[k] = {ValueOf(r, i) : i \in GivesSeen(r, k)}
        BY <1>4 DEF MultisFound
      <4>4. k \notin DOMAIN got.multis => {ValueOf(r, i) : i \in GivesSeen(r, k)} = {}
        BY <1>4, <1>6 DEF MultisFound
      <4> QED
        BY <2>3, <3>1, <4>2, <4>3, <4>4
    <3>2. CASE x # k
      BY <1>4, <2>3, <3>2 DEF MultisFound
    <3> QED
      BY <3>1, <3>2
  <2>6. MultisFound(r)'
    BY <1>1, <2>4, <2>5 DEF MultisFound
  <2>7. \A x \in d.params : GivesSeen(r, x)' = GivesSeen(r, x)
    BY <1>6
  <2>8. ParametersFound(r)'
    <3>1. DOMAIN got.params \subseteq d.params
      BY <1>4 DEF ParametersFound
    <3>2. DOMAIN got'.params = {x \in d.params : GivesSeen(r, x)' # {}} /\ got'.found = DOMAIN got'.params
      BY <1>4, <2>2, <2>7 DEF ParametersFound
    <3>3. ASSUME NEW x \in DOMAIN got'.params
          PROVE  \E i \in GivesSeen(r, x)' : (\A j \in GivesSeen(r, x)' : j <= i) /\ got'.params[x] = ValueOf(r, i)'
      <4>1. x \in DOMAIN got.params /\ GivesSeen(r, x)' = GivesSeen(r, x) /\ got'.params[x] = got.params[x]
        BY <2>2, <2>7, <3>1
      <4> QED
        BY <1>1, <1>4, <4>1 DEF ParametersFound
    <3> QED
      BY <1>1, <3>2, <3>3 DEF ParametersFound
  <2> QED
    BY <2>2, <2>6, <2>8 DEF ParametersPart
<1> QED
  BY <1>5, <1>6

LEMMA PendingValueStep ==
  ASSUME NEW r, IsRole(r), Right(r), Reads, PendingValue
  PROVE  Right(r)' /\ FoundIsRecord'
<1>1. Turn /\ pending # "none" /\ pending' = "none"
      /\ UNCHANGED <<ended, supervised, key, counter, expected, parseerror>>
  BY DEF PendingValue, Turn
<1>2. r[at] = "value"
  BY <1>1, RoleOfWord DEF Right, Reads
<1>3. /\ key = Representative(words[at - 1].key) /\ key \in d.params \cup d.multis
      /\ pending = "param" <=> key \in d.params
      /\ ended' = (ended \/ r[at] = "end")
  BY <1>1, <1>2 DEF Right, StateRight
<1>4. \A x : GivesSeen(r, x)' = GivesSeen(r, x) \cup {i \in {at} : Representative(words[i - 1].key) = x}
  BY <1>1, <1>2, MeaningGrows DEF Right
<1>5. \A x : GivesSeen(r, x)' = IF x = key THEN GivesSeen(r, x) \cup {at} ELSE GivesSeen(r, x)
  BY <1>3, <1>4
<1>6. got' = IF key \in d.params THEN WithParameter(got, key, words[at].text) ELSE WithMulti(got, key, words[at].text)
  BY <1>3 DEF PendingValue
<1>7. words[at].text = ValueOf(r, at)
  BY <1>2 DEF ValueOf
<1>8. /\ ParametersPart(r)' /\ FoundIsRecord'
      /\ got'.options = got.options /\ got'.shorts = got.shorts /\ got'.final = got.final
      /\ got'.arguments = got.arguments /\ got'.mandatory = got.mandatory
  BY <1>1, <1>3, <1>5, <1>6, <1>7, ValueGiven
<1>9. StateRight(r)'
  BY <1>1, <1>2, <1>3, StateStep DEF Right
<1>10. OptionsPart(r)' /\ ArgumentsPart(r)' /\ ErrorsPart(r)'
  BY <1>1, <1>2, <1>8, OptionsKept, ArgumentsKept, ErrorsKept DEF Right
<1> QED
  BY <1>8, <1>9, <1>10 DEF Right

LEMMA AssignmentStep ==
  ASSUME NEW r, IsRole(r), Right(r), Reads, Assignment
  PROVE  Right(r)' /\ FoundIsRecord'
<1> DEFINE k == Representative(words[at].key)
           v == words[at].value
           known == k \in d.params \cup d.multis
<1>1. /\ WordIs({"assign"}) /\ key' = k
      /\ got' = CASE ~known \/ v = "" -> got
                  [] known /\ v # "" /\ k \in d.params -> WithParameter(got, k, v)
                  [] OTHER -> WithMulti(got, k, v)
      /\ parseerror' = (parseerror \/ ~known \/ v = "")
      /\ UNCHANGED <<ended, supervised, pending, counter, expected>>
  BY DEF Assignment
<1>2. Turn /\ pending = "none" /\ ~ended /\ words[at].kind = "assign" /\ r[at] = Own(at)
  <2>1. WordIs({"assign"})
    BY <1>1
  <2> QED
    BY <2>1, WordIsTurn DEF Right, StateRight
<1>3. r[at] = "assign"
  BY <1>2 DEF Own
<1>4. \A x : GivesSeen(r, x)' =
        GivesSeen(r, x) \cup {i \in {at} : Representative(words[i].key) = x /\ words[i].value # ""}
  BY <1>2, <1>3, MeaningGrows DEF Right
<1>5. /\ d' = d /\ words' = words /\ \A x : Representative(x)' = Representative(x)
      /\ OptionsSeen(r)' = OptionsSeen(r) /\ ShortsSeen(r)' = ShortsSeen(r)
      /\ Seen(r, "assign")' = Seen(r, "assign") \cup {at}
  BY <1>2, <1>3, MeaningKept, SeenStep DEF Right, Turn
<1>6. /\ ParametersPart(r)' /\ FoundIsRecord'
      /\ got'.options = got.options /\ got'.shorts = got.shorts /\ got'.final = got.final
      /\ got'.arguments = got.arguments /\ got'.mandatory = got.mandatory
  <2>1. CASE known /\ v # ""
    <3>1. \A x : GivesSeen(r, x)' = IF x = k THEN GivesSeen(r, x) \cup {at} ELSE GivesSeen(r, x)
      BY <1>4, <2>1
    <3>2. got' = IF k \in d.params THEN WithParameter(got, k, v) ELSE WithMulti(got, k, v)
      BY <1>1, <2>1
    <3>3. v = ValueOf(r, at)
      BY <1>3 DEF ValueOf
    <3> HIDE DEF k, v
    <3> QED
      BY <1>2, <2>1, <3>1, <3>2, <3>3, ValueGiven
  <2>2. CASE ~(known /\ v # "")
    <3>1. got' = got
      BY <1>1, <2>2
    <3>2. \A x \in d.params \cup d.multis : GivesSeen(r, x)' = GivesSeen(r, x)
      BY <1>4, <2>2
    <3>3. \A i : ValueOf(r, i)' = ValueOf(r, i)
      BY <1>2, SeenStep DEF Right
    <3>4. ParametersFound(r)'
      BY <1>5, <3>1, <3>2, <3>3 DEF Right, ParametersPart, ParametersFound
    <3>5. MultisFound(r)'
      BY <1>5, <3>1, <3>2, <3>3 DEF Right, ParametersPart, MultisFound
    <3> QED
      BY <3>1, <3>4, <3>5 DEF ParametersPart, Reads, FoundIsRecord
  <2> QED
    BY <2>1, <2>2
<1>7. StateRight(r)'
  <2>1. ended' = (ended \/ r[at] = "end")
    BY <1>1, <1>3 DEF Right, StateRight
  <2> QED
    BY <1>1, <1>2, <1>3, <2>1, StateStep DEF Right
<1>8. OptionsPart(r)' /\ ArgumentsPart(r)'
  BY <1>1, <1>2, <1>3, <1>6, OptionsKept, ArgumentsKept DEF Right
<1>9. ErrorsPart(r)'
  <2>1. ErrorSeen(r)' <=> ErrorSeen(r) \/ ~ (known /\ v # "")
    BY <1>5 DEF ErrorSeen
  <2> QED
    BY <1>1, <2>1 DEF Right, ErrorsPart
<1> QED
  BY <1>6, <1>7, <1>8, <1>9 DEF Right

LEMMA LongWordStep ==
  ASSUME NEW r, IsRole(r), Right(r), Reads, LongWord
  PROVE  Right(r)' /\ FoundIsRecord'
<1> DEFINE k == Representative(words[at].key)
<1>1. /\ WordIs({"long"}) /\ key' = k
      /\ pending' = CASE d.relaxed /\ k \in d.params -> "param"
                      [] d.relaxed /\ k \in d.multis \ d.params -> "multi"
                      [] OTHER -> "none"
      /\ UNCHANGED <<ended, counter, expected>>
  BY Zenon DEF LongWord
<1>2. Turn /\ pending = "none" /\ ~ended /\ words[at].kind = "long" /\ r[at] = Own(at)
  <2>1. WordIs({"long"})
    BY <1>1
  <2> QED
    BY <2>1, WordIsTurn DEF Right, StateRight
<1>3. r[at] = IF d.relaxed /\ k \in d.params \cup d.multis THEN "opens" ELSE "long"
  BY <1>2 DEF Own
<1>4. /\ pending' \in {"none", "param", "multi"}
      /\ pending' # "none" <=> r[at] = "opens"
      /\ pending' # "none" => (pending' = "param" <=> k \in d.params) /\ k \in d.params \cup d.multis
  BY <1>1, <1>3
<1>5. StateRight(r)'
  <2>1. ended' = (ended \/ r[at] = "end")
    BY <1>1, <1>3 DEF Right, StateRight
  <2> QED
    BY <1>1, <1>2, <1>4, <2>1, StateStep DEF Right
<1> HIDE DEF k
<1>6. CASE r[at] = "opens"
  <2>1. pending' # "none"
    BY <1>4, <1>6
  <2>2. parseerror \in BOOLEAN
    BY DEF Right, ErrorsPart
  <2>3. parseerror' = (parseerror \/ pending' = "none") /\ UNCHANGED <<got, supervised>>
    BY <2>1, Zenon DEF LongWord
  <2>4. UNCHANGED <<parseerror, got, supervised>>
    BY <2>1, <2>2, <2>3
  <2> QED
    BY <1>1, <1>2, <1>5, <1>6, <2>4, OptionsKept, ParametersKept, ArgumentsKept, ErrorsKept
    DEF Right, Reads, FoundIsRecord
<1>7. CASE r[at] = "long"
  <2>1. pending' = "none"
    BY <1>4, <1>7
  <2>2. /\ OptionsSeen(r)' = OptionsSeen(r) \cup {k} /\ ShortsSeen(r)' = ShortsSeen(r)
        /\ d' = d /\ words' = words /\ Seen(r, "assign")' = Seen(r, "assign")
        /\ \A x : Representative(x)' = Representative(x)
    BY <1>2, <1>7, MeaningKept, MeaningGrows, SeenStep DEF Right, Turn, k
  <2>3. /\ FoundIsRecord'
        /\ got'.shorts = got.shorts /\ got'.params = got.params /\ got'.multis = got.multis
        /\ got'.found = got.found /\ got'.arguments = got.arguments /\ got'.mandatory = got.mandatory
        /\ got'.final = got.final
        /\ got'.options = got.options \cup (IF k \in DOMAIN d.aliases THEN d.aliases[k]
                                            ELSE IF k \in d.options THEN {k} ELSE {})
        /\ parseerror' = (parseerror \/ k \notin d.options \cup DOMAIN d.aliases)
        /\ supervised' = (supervised \/ (k \notin DOMAIN d.aliases /\ k \in d.options /\ k \in d.supervisors))
    <3>0. parseerror \in BOOLEAN /\ supervised \in BOOLEAN /\ FoundIsRecord
      BY DEF Right, OptionsPart, SupervisorFound, ErrorsPart, Reads
    <3>1. CASE k \in DOMAIN d.aliases
      <4>1. got' = [got EXCEPT !.options = got.options \cup d.aliases[k]] /\ UNCHANGED <<parseerror, supervised>>
        BY <1>1, <2>1, <3>1 DEF LongWord
      <4> QED
        BY <3>0, <3>1, <4>1 DEF FoundIsRecord
    <3>2. CASE k \notin DOMAIN d.aliases /\ k \in d.options
      <4>1. /\ got' = [got EXCEPT !.options = got.options \cup {k}] /\ UNCHANGED parseerror
            /\ supervised' = (supervised \/ k \in d.supervisors)
        BY <1>1, <2>1, <3>2 DEF LongWord
      <4> QED
        BY <3>0, <3>2, <4>1 DEF FoundIsRecord
    <3>3. CASE k \notin DOMAIN d.aliases /\ k \notin d.options
      <4>1. parseerror' = TRUE /\ UNCHANGED <<got, supervised>>
        BY <1>1, <2>1, <3>3 DEF LongWord
      <4> QED
        BY <3>0, <3>3, <4>1 DEF FoundIsRecord
    <3> QED
      BY <3>1, <3>2, <3>3
  <2>4. OptionsFound(r)'
    BY <2>2, <2>3 DEF Right, OptionsPart, OptionsFound
  <2>5. ShortsFound(r)'
    BY <2>2, <2>3 DEF Right, OptionsPart, ShortsFound
  <2>6. SupervisorFound(r)'
    <3>1. SupervisorSeen(r)' <=>
            SupervisorSeen(r) \/ (k \notin DOMAIN d.aliases /\ k \in d.options /\ k \in d.supervisors)
      BY <2>2 DEF SupervisorSeen
    <3> QED
      BY <2>3, <3>1 DEF Right, OptionsPart, SupervisorFound
  <2>7. ErrorsPart(r)'
    <3>1. ErrorSeen(r)' <=> ErrorSeen(r) \/ k \notin d.options \cup DOMAIN d.aliases
      BY <2>2 DEF ErrorSeen
    <3> QED
      BY <2>3, <3>1 DEF Right, ErrorsPart
  <2>8. ParametersPart(r)' /\ ArgumentsPart(r)'
    BY <1>1, <1>2, <1>7, <2>3, ParametersKept, ArgumentsKept DEF Right
  <2> QED
    BY <1>5, <2>3, <2>4, <2>5, <2>6, <2>7, <2>8 DEF Right, OptionsPart
<1> QED
  BY <1>3, <1>6, <1>7

-----------------------------------------------------------------------------
(* An argument gets the next number.                                       *)
LEMMA SeenIsFinite ==
  ASSUME NEW r, StateRight(r)
  PROVE  /\ IsFiniteSet(Seen(r, "argument"))
         /\ \A i : IsFiniteSet({j \in Seen(r, "argument") : j <= i}) /\ RankIn(r, i) \in Nat
<1>1. IsFiniteSet(1..(at - 1))
  BY FS_Interval DEF StateRight
<1>2. IsFiniteSet(Seen(r, "argument"))
  BY <1>1, FS_Subset DEF Seen
<1>3. \A i : IsFiniteSet({j \in Seen(r, "argument") : j <= i})
  <2> TAKE i
  <2>1. {j \in Seen(r, "argument") : j <= i} \subseteq Seen(r, "argument")
    OBVIOUS
  <2> QED
    BY <1>2, <2>1, FS_Subset
<1>4. \A i : RankIn(r, i) \in Nat
  BY <1>3, FS_CardinalityType DEF RankIn
<1> QED
  BY <1>2, <1>3, <1>4

LEMMA RankStep ==
  ASSUME NEW r, StateRight(r), Turn, ArgumentsNumbered(r), r[at] = "argument", counter' = counter + 1
  PROVE  /\ Seen(r, "argument")' = Seen(r, "argument") \cup {at}
         /\ \A i \in Seen(r, "argument") : RankIn(r, i)' = RankIn(r, i)
         /\ \A i : i = at => RankIn(r, i)' = counter + 1
         /\ ArgumentsNumbered(r)'
<1> DEFINE S == Seen(r, "argument")
<1>0. at \in Nat /\ counter \in Nat /\ counter = Cardinality(S) /\ IsFiniteSet(S)
  BY SeenIsFinite DEF StateRight, ArgumentsNumbered
<1>1. Seen(r, "argument")' = S \cup {at} /\ \A i \in S : i < at /\ i \in Nat
  BY SeenStep
<1>2. at \notin S
  BY <1>0, <1>1
<1>3. Cardinality(S \cup {at}) = counter + 1
  BY <1>0, <1>2, FS_AddElement
<1>4. ASSUME NEW i \in S PROVE RankIn(r, i)' = RankIn(r, i)
  <2>1. {j \in S \cup {at} : j <= i} = {j \in S : j <= i}
    BY <1>0, <1>1
  <2> QED
    BY <1>1, <2>1 DEF RankIn
<1>5. ASSUME NEW i, i = at PROVE RankIn(r, i)' = counter + 1
  <2>1. {j \in S \cup {at} : j <= i} = S \cup {at}
    BY <1>0, <1>1, <1>5
  <2> QED
    BY <1>1, <1>3, <2>1 DEF RankIn
<1>6. ArgumentsNumbered(r)'
  <2>1. counter' \in Nat /\ counter' = Cardinality(Seen(r, "argument")')
    BY <1>0, <1>1, <1>3
  <2>2. \A i \in S : RankIn(r, i) \in 1..counter
    BY DEF ArgumentsNumbered
  <2>3. \A i \in Seen(r, "argument")' : RankIn(r, i)' \in 1..counter'
    <3>1. \A i \in S : RankIn(r, i)' \in 1..(counter + 1)
      BY <1>0, <1>4, <2>2
    <3>2. \A i : i = at => RankIn(r, i)' \in 1..(counter + 1)
      BY <1>0, <1>5
    <3> QED
      BY <1>1, <3>1, <3>2
  <2>4. ASSUME NEW n \in 1..counter'
        PROVE  \E i \in Seen(r, "argument")' :
                 RankIn(r, i)' = n /\ \A j \in Seen(r, "argument")' : RankIn(r, j)' = n => j = i
    <3>1. CASE n = counter + 1
      <4>1. PICK i : i = at
        OBVIOUS
      <4>2. \A j \in S : RankIn(r, j)' # n
        BY <1>0, <1>4, <2>2, <3>1
      <4> QED
        BY <1>1, <1>5, <3>1, <4>1, <4>2
    <3>2. CASE n # counter + 1
      <4>1. n \in 1..counter
        BY <1>0, <3>2
      <4>2. PICK i \in S : RankIn(r, i) = n /\ \A j \in S : RankIn(r, j) = n => j = i
        BY <4>1 DEF ArgumentsNumbered
      <4>3. \A j : j = at => RankIn(r, j)' # n
        BY <1>5, <3>2
      <4> QED
        BY <1>1, <1>4, <4>2, <4>3
    <3> QED
      BY <3>1, <3>2
  <2> QED
    BY <2>1, <2>3, <2>4 DEF ArgumentsNumbered
<1> QED
  BY <1>1, <1>4, <1>5, <1>6
LEMMA ArgumentStep ==
  ASSUME NEW r, IsRole(r), Right(r), Reads, Argument
  PROVE  Right(r)' /\ FoundIsRecord'
<1> DEFINE S == Seen(r, "argument")
           text == words[at].text
           name == Head(expected)
<1>1. /\ WordIs({"argument", "plain", "dash"}) /\ counter' = counter + 1
      /\ UNCHANGED <<ended, supervised, pending, key, parseerror>>
  BY DEF Argument
<1>2. Turn /\ pending = "none" /\ words[at] \in ArgvWords /\ r[at] = "argument"
  <2>1. /\ Turn /\ pending = "none" /\ words[at] \in ArgvWords
        /\ ended => r[at] = "argument"
        /\ ~ended => r[at] = Own(at) /\ words[at].kind \in {"argument", "plain", "dash"}
    BY <1>1, WordIsTurn DEF Right
  <2>2. ~ended => r[at] = "argument"
    BY <2>1 DEF Own
  <2>3. ended \in BOOLEAN
    BY DEF Right, StateRight
  <2> QED
    BY <2>1, <2>2, <2>3
<1>3. /\ ArgumentsNumbered(r) /\ NamesGoAround /\ MandatoryFound(r) /\ SurplusIs(r, got.arguments)
      /\ StateRight(r)
  BY DEF Right, ArgumentsPart
<1>4. /\ d' = d /\ words' = words /\ text \in STRING /\ counter \in Nat
      /\ Mandatory \in Nat /\ Mandatory' = Mandatory /\ Len(expected) = Mandatory
  BY <1>2, <1>3 DEF Turn, ArgvWords, ArgumentsNumbered, Reads, DeclarationsRight, Mandatory, NamesGoAround
<1>5. /\ Seen(r, "argument")' = S \cup {at}
      /\ \A i \in S : RankIn(r, i)' = RankIn(r, i) /\ RankIn(r, i) \in 1..counter
      /\ \A i : i = at => RankIn(r, i)' = counter + 1
      /\ ArgumentsNumbered(r)'
  BY <1>1, <1>2, <1>3, RankStep DEF ArgumentsNumbered
<1>6. IF counter < Mandatory
      THEN /\ got' = [got EXCEPT !.mandatory = Put(got.mandatory, name, text)]
           /\ expected' = Append(Tail(expected), name)
      ELSE got' = [got EXCEPT !.arguments = Append(got.arguments, text)] /\ expected' = expected
  BY <1>4 DEF Argument
<1> HIDE DEF S, text, name
<1>7. /\ FoundIsRecord'
      /\ got'.options = got.options /\ got'.shorts = got.shorts /\ got'.params = got.params
      /\ got'.multis = got.multis /\ got'.found = got.found /\ got'.final = got.final
      /\ got'.mandatory = IF counter < Mandatory THEN Put(got.mandatory, name, text) ELSE got.mandatory
      /\ got'.arguments = IF counter < Mandatory THEN got.arguments ELSE Append(got.arguments, text)
  BY <1>6 DEF Reads, FoundIsRecord
<1>8. StateRight(r)'
  <2>1. ended' = (ended \/ r[at] = "end")
    BY <1>1, <1>2, <1>3 DEF StateRight
  <2> QED
    BY <1>1, <1>2, <2>1, StateStep DEF Right
<1>9. OptionsPart(r)' /\ ParametersPart(r)' /\ ErrorsPart(r)'
  BY <1>1, <1>2, <1>7, OptionsKept, ParametersKept, ErrorsKept DEF Right
<1>10. CASE counter < Mandatory
  <2>1. name = d.arguments[counter + 1] /\ expected \in Seq(STRING) /\ expected # <<>>
    <3>1. /\ expected \in Seq(STRING)
          /\ \A n \in 1..(Mandatory - counter) : expected[n] = d.arguments[counter + n]
      BY <1>3 DEF NamesGoAround
    <3>2. 1 \in 1..(Mandatory - counter) /\ expected # <<>>
      BY <1>4, <1>10, <3>1
    <3> QED
      BY <3>1, <3>2 DEF name
  <2>2. NamesGoAround'
    <3>1. /\ Tail(expected) \in Seq(STRING) /\ Len(Tail(expected)) = Mandatory - 1 /\ name \in STRING
          /\ \A n \in 1..(Mandatory - 1) : Tail(expected)[n] = expected[n + 1]
      BY <1>4, <2>1 DEF name
    <3>2. /\ expected' \in Seq(STRING) /\ Len(expected') = Mandatory
          /\ \A n \in 1..(Mandatory - 1) : expected'[n] = Tail(expected)[n]
      BY <1>4, <1>6, <1>10, <3>1
    <3>3. ASSUME NEW n \in 1..(Mandatory - (counter + 1)) PROVE expected'[n] = d.arguments[(counter + 1) + n]
      <4>1. n \in 1..(Mandatory - 1) /\ n + 1 \in 1..(Mandatory - counter) /\ counter + (n + 1) = (counter + 1) + n
        BY <1>4
      <4>2. expected'[n] = expected[n + 1] /\ expected[n + 1] = d.arguments[counter + (n + 1)]
        BY <1>3, <3>1, <3>2, <4>1 DEF NamesGoAround
      <4> QED
        BY <4>1, <4>2
    <3> QED
      BY <1>1, <1>4, <3>2, <3>3 DEF NamesGoAround
  <2>3. Placed = counter /\ Placed' = counter + 1
    BY <1>1, <1>4, <1>10 DEF Placed
  <2>4. MandatoryFound(r)'
    <3>1. /\ DOMAIN got'.mandatory = DOMAIN got.mandatory \cup {name}
          /\ \A x \in DOMAIN got'.mandatory : got'.mandatory[x] = IF x = name THEN text ELSE got.mandatory[x]
      BY <1>7, <1>10 DEF Put
    <3>2. /\ DOMAIN got.mandatory = {d.arguments[n] : n \in 1..counter}
          /\ \A i \in S : /\ RankIn(r, i) <= Mandatory
                          /\ \A n \in (RankIn(r, i) + 1)..counter : d.arguments[n] # d.arguments[RankIn(r, i)]
                          => got.mandatory[d.arguments[RankIn(r, i)]] = words[i].text
      BY <1>3, <2>3 DEF MandatoryFound, S
    <3>3. DOMAIN got'.mandatory = {d.arguments[n] : n \in 1..(counter + 1)}
      <4>1. 1..(counter + 1) = 1..counter \cup {counter + 1}
        BY <1>4
      <4> QED
        BY <2>1, <3>1, <3>2, <4>1
    <3>4. ASSUME NEW i \in S,
                 \A n \in (RankIn(r, i) + 1)..(counter + 1) : d.arguments[n] # d.arguments[RankIn(r, i)]
          PROVE  got'.mandatory[d.arguments[RankIn(r, i)]] = words[i].text
      <4>1. RankIn(r, i) \in 1..counter /\ RankIn(r, i) <= Mandatory
        BY <1>4, <1>5, <1>10
      <4>2. counter + 1 \in (RankIn(r, i) + 1)..(counter + 1)
            /\ (RankIn(r, i) + 1)..counter \subseteq (RankIn(r, i) + 1)..(counter + 1)
        BY <1>4, <4>1
      <4>3. got.mandatory[d.arguments[RankIn(r, i)]] = words[i].text
        BY <3>2, <3>4, <4>1, <4>2
      <4>4. d.arguments[RankIn(r, i)] # name /\ d.arguments[RankIn(r, i)] \in DOMAIN got'.mandatory
        BY <2>1, <3>1, <3>2, <3>4, <4>1, <4>2
      <4> QED
        BY <3>1, <4>3, <4>4
    <3>5. ASSUME NEW i, i = at PROVE got'.mandatory[d.arguments[RankIn(r, i)']] = words[i].text
      BY <1>5, <2>1, <3>1, <3>5 DEF text
    <3>6. ASSUME NEW i \in Seen(r, "argument")',
                 \A n \in (RankIn(r, i)' + 1)..(counter + 1) : d.arguments[n] # d.arguments[RankIn(r, i)']
          PROVE  got'.mandatory[d.arguments[RankIn(r, i)']] = words[i].text
      <4>1. CASE i = at
        BY <3>5, <4>1
      <4>2. CASE i # at
        <5>1. i \in S /\ RankIn(r, i)' = RankIn(r, i)
          BY <1>5, <4>2
        <5> HIDE DEF RankIn
        <5> QED
          BY <3>4, <3>6, <5>1
      <4> QED
        BY <4>1, <4>2
    <3> QED
      BY <1>4, <2>3, <3>3, <3>6 DEF MandatoryFound
  <2>5. SurplusIs(r, got.arguments)'
    <3>1. Surplus = 0 /\ Surplus' = 0
      BY <1>1, <1>4, <1>10 DEF Surplus
    <3>2. \A i \in Seen(r, "argument")' : ~ (RankIn(r, i)' > Mandatory)
      <4>1. \A i \in S : ~ (RankIn(r, i)' > Mandatory)
        BY <1>4, <1>5, <1>10
      <4>2. \A i : i = at => ~ (RankIn(r, i)' > Mandatory)
        BY <1>4, <1>5, <1>10
      <4> QED
        BY <1>5, <4>1, <4>2
    <3>3. got.arguments \in Seq(STRING) /\ Len(got.arguments) = 0 /\ got'.arguments = got.arguments
      BY <1>3, <1>7, <1>10, <3>1 DEF SurplusIs
    <3> QED
      BY <1>4, <3>1, <3>2, <3>3 DEF SurplusIs
  <2> QED
    BY <1>5, <1>7, <1>8, <1>9, <2>2, <2>4, <2>5 DEF Right, ArgumentsPart
<1>11. CASE ~ (counter < Mandatory)
  <2>1. NamesGoAround'
    <3>1. 1..(Mandatory - (counter + 1)) = {}
      BY <1>4, <1>11
    <3> QED
      BY <1>1, <1>3, <1>4, <1>6, <1>11, <3>1 DEF NamesGoAround
  <2>2. Placed = Mandatory /\ Placed' = Mandatory /\ Surplus = counter - Mandatory /\ Surplus' = Surplus + 1
    BY <1>1, <1>4, <1>11 DEF Placed, Surplus
  <2>3. MandatoryFound(r)'
    <3>1. \A i : i = at => ~ (RankIn(r, i)' <= Mandatory)
      BY <1>4, <1>5, <1>11
    <3>2. \A i \in S : /\ RankIn(r, i)' <= Mandatory
                       /\ \A n \in (RankIn(r, i)' + 1)..Mandatory : d.arguments[n] # d.arguments[RankIn(r, i)']
                       => got.mandatory[d.arguments[RankIn(r, i)']] = words[i].text
      BY <1>3, <1>5, <2>2 DEF MandatoryFound, S
    <3>3. DOMAIN got'.mandatory = {d.arguments[n] : n \in 1..Mandatory} /\ got'.mandatory = got.mandatory
      BY <1>3, <1>7, <1>11, <2>2 DEF MandatoryFound
    <3>4. \A i \in Seen(r, "argument")' :
                       /\ RankIn(r, i)' <= Mandatory
                       /\ \A n \in (RankIn(r, i)' + 1)..Mandatory : d.arguments[n] # d.arguments[RankIn(r, i)']
                       => got'.mandatory[d.arguments[RankIn(r, i)']] = words[i].text
      <4> TAKE i \in Seen(r, "argument")'
      <4>1. i \in S \/ i = at
        BY <1>5
      <4> QED
        BY <3>1, <3>2, <3>3, <4>1
    <3> QED
      BY <1>4, <2>2, <3>3, <3>4 DEF MandatoryFound
  <2>4. SurplusIs(r, got.arguments)'
    <3>1. /\ got.arguments \in Seq(STRING) /\ Len(got.arguments) = Surplus
          /\ \A i \in S : RankIn(r, i) > Mandatory => got.arguments[RankIn(r, i) - Mandatory] = words[i].text
      BY <1>3 DEF SurplusIs, S
    <3>2. Surplus \in Nat
      BY <1>4, <1>11, <2>2
    <3>3. /\ got'.arguments = Append(got.arguments, text)
          /\ got'.arguments \in Seq(STRING) /\ Len(got'.arguments) = Surplus + 1
          /\ \A n \in 1..Surplus : got'.arguments[n] = got.arguments[n]
          /\ got'.arguments[Surplus + 1] = text
      BY <1>4, <1>7, <1>11, <3>1, <3>2
    <3>4. ASSUME NEW i \in S, RankIn(r, i)' > Mandatory
          PROVE  got'.arguments[RankIn(r, i)' - Mandatory] = words[i].text
      <4>1. RankIn(r, i)' = RankIn(r, i) /\ RankIn(r, i) \in 1..counter
        BY <1>5
      <4>2. RankIn(r, i) - Mandatory \in 1..Surplus
        BY <1>4, <2>2, <3>4, <4>1
      <4> QED
        BY <3>1, <3>3, <3>4, <4>1, <4>2
    <3>5. ASSUME NEW i, i = at PROVE got'.arguments[RankIn(r, i)' - Mandatory] = words[i].text
      <4>1. RankIn(r, i)' - Mandatory = Surplus + 1
        BY <1>4, <1>5, <2>2, <3>5
      <4> QED
        BY <3>3, <3>5, <4>1 DEF text
    <3>6. \A i \in Seen(r, "argument")' :
            RankIn(r, i)' > Mandatory => got'.arguments[RankIn(r, i)' - Mandatory] = words[i].text
      BY <1>5, <3>4, <3>5
    <3> QED
      BY <1>4, <2>2, <3>3, <3>6 DEF SurplusIs
  <2> QED
    BY <1>5, <1>7, <1>8, <1>9, <2>1, <2>3, <2>4 DEF Right, ArgumentsPart
<1> QED
  BY <1>10, <1>11
-----------------------------------------------------------------------------
(* The last word is read: the last argument may be the final one, and what *)
(* is missing or too much is an error.                                     *)
LEMMA FrontAndLast ==
  ASSUME NEW s \in Seq(STRING), s # <<>>
  PROVE  /\ Front(s) \in Seq(STRING) /\ <<Last(s)>> \in Seq(STRING)
         /\ Len(<<Last(s)>>) = 1 /\ Len(s) \in Nat /\ Len(s) > 0
         /\ Front(s) \o <<Last(s)>> = s
<1>1. Len(s) \in Nat /\ Len(s) > 0
  OBVIOUS
<1>2. Front(s) = SubSeq(s, 1, Len(s) - 1) /\ Last(s) = s[Len(s)]
  BY DEF Front, Last
<1>3. Last(s) \in STRING
  BY <1>1, <1>2
<1>4. /\ Front(s) \in Seq(STRING) /\ Len(Front(s)) = Len(s) - 1
      /\ \A i \in 1..(Len(s) - 1) : Front(s)[i] = s[i]
  <2> DEFINE n == Len(s) - 1
  <2>1. n \in Nat /\ 1 \in Int /\ \A i \in 1..n : s[i] \in STRING
    BY <1>1
  <2> HIDE DEF n
  <2>2. /\ SubSeq(s, 1, n) \in Seq(STRING)
        /\ Len(SubSeq(s, 1, n)) = IF 1 <= n THEN n - 1 + 1 ELSE 0
        /\ \A i \in 1..(n - 1 + 1) : SubSeq(s, 1, n)[i] = s[1 + i - 1]
    BY <2>1, SubSeqProperties
  <2>3. Len(SubSeq(s, 1, n)) = n /\ \A i \in 1..n : SubSeq(s, 1, n)[i] = s[i]
    BY <2>1, <2>2
  <2>4. Front(s) = SubSeq(s, 1, n)
    BY <1>2 DEF n
  <2> QED
    BY <2>2, <2>3, <2>4 DEF n
<1>5. Front(s) \o <<Last(s)>> \in Seq(STRING) /\ Len(Front(s) \o <<Last(s)>>) = Len(s)
  BY <1>1, <1>3, <1>4
<1>6. \A i \in 1..Len(s) : (Front(s) \o <<Last(s)>>)[i] = s[i]
  BY <1>1, <1>2, <1>3, <1>4
<1>7. Front(s) \o <<Last(s)>> = s
  BY <1>5, <1>6, SeqEqual
<1> QED
  BY <1>1, <1>3, <1>4, <1>7

LEMMA NothingRead ==
  ASSUME NEW r, d' = d, words' = words, at' = at, counter' = counter
  PROVE  /\ \A what : Seen(r, what)' = Seen(r, what)
         /\ \A x : Representative(x)' = Representative(x)
         /\ \A i : ValueOf(r, i)' = ValueOf(r, i) /\ RankIn(r, i)' = RankIn(r, i)
         /\ OptionsSeen(r)' = OptionsSeen(r) /\ ShortsSeen(r)' = ShortsSeen(r)
         /\ \A k : GivesSeen(r, k)' = GivesSeen(r, k)
         /\ Mandatory' = Mandatory /\ Placed' = Placed /\ Surplus' = Surplus
<1>1. /\ \A what : Seen(r, what)' = Seen(r, what)
      /\ \A x : Representative(x)' = Representative(x) /\ ShortRepresentative(x)' = ShortRepresentative(x)
      /\ \A i : ValueOf(r, i)' = ValueOf(r, i)
  BY DEF Seen, Representative, ShortRepresentative, ValueOf
<1>2. OptionsSeen(r)' = OptionsSeen(r) /\ ShortsSeen(r)' = ShortsSeen(r)
  BY <1>1 DEF OptionsSeen, ShortsSeen
<1>3. \A k : GivesSeen(r, k)' = GivesSeen(r, k)
  <2>1. Seen(r, "assign")' = Seen(r, "assign") /\ Seen(r, "value")' = Seen(r, "value")
    BY <1>1
  <2> QED
    BY <1>1, <2>1 DEF GivesSeen
<1>4. \A i : RankIn(r, i)' = RankIn(r, i)
  BY <1>1 DEF RankIn
<1>5. Mandatory' = Mandatory /\ Placed' = Placed /\ Surplus' = Surplus
  BY DEF Mandatory, Placed, Surplus
<1> QED
  BY <1>1, <1>2, <1>3, <1>4, <1>5

LEMMA FinishStep ==
  ASSUME IInv, Finish
  PROVE  IInv'
<1>1. /\ outcome = "parsing" /\ DeclarationsRight /\ words \in Seq(ArgvWords) /\ FoundIsRecord
      /\ at > Len(words) /\ outcome' \in {"parsed", "thrown"}
      /\ UNCHANGED <<program, d, words, at, ended, supervised, pending, key, counter, expected>>
  BY DEF IInv, Finish
<1>2. DeclarationsRight'
  BY <1>1 DEF DeclarationsRight
<1>3. /\ FoundIsRecord'
      /\ got'.shorts = got.shorts /\ got'.options = got.options /\ got'.params = got.params
      /\ got'.multis = got.multis /\ got'.found = got.found /\ got'.mandatory = got.mandatory
      /\ got'.arguments = IF d.final /\ got.arguments # <<>> THEN Front(got.arguments) ELSE got.arguments
      /\ got'.final = IF d.final /\ got.arguments # <<>> THEN <<Last(got.arguments)>> ELSE got.final
  <2>1. CASE d.final /\ got.arguments # <<>>
    <3>1. got' = [got EXCEPT !.final = <<Last(got.arguments)>>, !.arguments = Front(got.arguments)]
      BY <2>1 DEF Finish
    <3> QED
      BY <1>1, <2>1, <3>1 DEF FoundIsRecord
  <2>2. CASE ~ (d.final /\ got.arguments # <<>>)
    <3>1. got' = got
      BY <2>2 DEF Finish
    <3> QED
      BY <1>1, <2>2, <3>1 DEF FoundIsRecord
  <2> QED
    BY <2>1, <2>2
<1>4. ASSUME NEW r, IsRole(r)'
      PROVE  Parsing(r)' /\ AfterParsing(r)'
  <2>1. IsRole(r)
    BY <1>1, <1>4 DEF IsRole, RoleFrom, Own, Representative
  <2>2. Parsing(r) /\ WhileParsing(r)
    BY <1>1, <2>1 DEF IInv
  <2>3. /\ \A what : Seen(r, what)' = Seen(r, what)
        /\ \A x : Representative(x)' = Representative(x)
        /\ \A i : ValueOf(r, i)' = ValueOf(r, i) /\ RankIn(r, i)' = RankIn(r, i)
        /\ OptionsSeen(r)' = OptionsSeen(r) /\ ShortsSeen(r)' = ShortsSeen(r)
        /\ \A k : GivesSeen(r, k)' = GivesSeen(r, k)
        /\ Mandatory' = Mandatory /\ Placed' = Placed /\ Surplus' = Surplus
    BY <1>1, NothingRead
  <2>4. StateRight(r)'
    <3>1. Representative(words[at - 1].key)' = Representative(words[at - 1].key)
      BY <1>1 DEF Representative
    <3> QED
      BY <1>1, <2>2, <2>3, <3>1 DEF Parsing, StateRight
  <2>5. OptionsFound(r)' /\ ShortsFound(r)'
    BY <1>1, <1>3, <2>2, <2>3 DEF Parsing, OptionsFound, ShortsFound
  <2>6. (SupervisorSeen(r)' <=> SupervisorSeen(r)) /\ SupervisorFound(r)'
    BY <1>1, <2>2, <2>3 DEF Parsing, SupervisorFound, SupervisorSeen
  <2>7. ParametersFound(r)' /\ MultisFound(r)'
    BY <1>1, <1>3, <2>2, <2>3 DEF Parsing, ParametersFound, MultisFound
  <2>8. ArgumentsNumbered(r)' /\ NamesGoAround'
    BY <1>1, <2>2, <2>3 DEF Parsing, ArgumentsNumbered, NamesGoAround
  <2>9. MandatoryFound(r)'
    BY <1>1, <1>3, <2>2, <2>3 DEF Parsing, MandatoryFound
  <2>10. Parsing(r)'
    BY <2>4, <2>5, <2>6, <2>7, <2>8, <2>9 DEF Parsing
  <2>11. /\ got.arguments \in Seq(STRING) /\ Len(got.arguments) = Surplus /\ got.final = <<>>
         /\ Surplus \in Nat /\ (got.arguments = <<>> <=> Surplus = 0)
    <3>1. got.arguments \in Seq(STRING) /\ Len(got.arguments) = Surplus /\ got.final = <<>>
      BY <2>2 DEF WhileParsing, SurplusIs
    <3> QED
      BY <3>1
  <2>12. /\ got'.arguments \o got'.final = got.arguments
         /\ Len(got'.final) = IF d.final /\ Surplus > 0 THEN 1 ELSE 0
         /\ got'.arguments \in Seq(STRING) /\ got'.final \in Seq(STRING)
    <3>1. CASE d.final /\ got.arguments # <<>>
      BY <1>3, <2>11, <3>1, FrontAndLast
    <3>2. CASE ~ (d.final /\ got.arguments # <<>>)
      <4>1. got'.arguments = got.arguments /\ got'.final = <<>> /\ ~ (d.final /\ Surplus > 0)
        BY <1>3, <2>11, <3>2
      <4>2. got.arguments \o <<>> = got.arguments
        BY <2>11, ConcatEmptySeq
      <4>3. Len(<<>>) = 0 /\ <<>> \in Seq(STRING)
        OBVIOUS
      <4> QED
        BY <2>11, <4>1, <4>2, <4>3
    <3> QED
      BY <3>1, <3>2
  <2>13. SurplusIs(r, got.arguments \o got.final)'
    BY <1>1, <2>2, <2>3, <2>12 DEF WhileParsing, SurplusIs
  <2>14. at' = Len(words') + 1
    <3>1. at \in 1..(Len(words) + 1) /\ Len(words) \in Nat
      BY <1>1, <2>2 DEF Parsing, StateRight
    <3> QED
      BY <1>1, <3>1
  <2>15. ErrorSeen(r)' <=> ErrorSeen(r)
    BY <1>1, <2>3 DEF ErrorSeen
  <2>16. parseerror' <=> ErrorSeen(r) \/ EndError'
    <3>1. parseerror \in BOOLEAN /\ (parseerror <=> ErrorSeen(r))
      BY <2>2 DEF WhileParsing
    <3>2. d.final /\ got.arguments = <<>> <=> d.final /\ Surplus = 0
      BY <2>11
    <3>3. Len(expected) = Mandatory /\ Mandatory \in Nat /\ (expected = <<>> <=> Mandatory = 0)
      <4>1. expected \in Seq(STRING) /\ Len(expected) = Mandatory
        BY <2>2 DEF Parsing, NamesGoAround
      <4> QED
        BY <4>1
    <3>4. (got'.arguments # <<>> /\ expected = <<>> /\ ~d.infinite /\ ~d.final)
            <=> (Surplus > 0 /\ Mandatory = 0 /\ ~d.infinite /\ ~d.final)
      BY <1>3, <2>11, <3>3
    <3>5. parseerror' <=> \/ parseerror
                          \/ d.final /\ got.arguments = <<>>
                          \/ d.mandatory \ got.found # {}
                          \/ counter < Len(expected)
                          \/ d.limit # -1 /\ counter > d.limit
                          \/ got'.arguments # <<>> /\ expected = <<>> /\ ~d.infinite /\ ~d.final
      BY Zenon DEF Finish
    <3>6. EndError' <=> \/ d.final /\ Surplus = 0
                        \/ d.mandatory \ got.found # {}
                        \/ counter < Mandatory
                        \/ d.limit # -1 /\ counter > d.limit
                        \/ Surplus > 0 /\ Mandatory = 0 /\ ~d.infinite /\ ~d.final
      BY <1>1, <1>3, <2>3 DEF EndError
    <3> QED
      BY <3>1, <3>2, <3>3, <3>4, <3>5, <3>6
  <2>17. (outcome' = "parsed") <=> SupervisorSeen(r)' \/ ~ (ErrorSeen(r)' \/ EndError')
    <3>1. outcome' = IF parseerror' /\ ~supervised THEN "thrown" ELSE "parsed"
      BY Zenon DEF Finish
    <3>2. supervised \in BOOLEAN /\ (supervised <=> SupervisorSeen(r))
      BY <2>2 DEF Parsing, SupervisorFound
    <3>3. (outcome' = "parsed") <=> ~ (parseerror' /\ ~supervised)
      BY <3>1
    <3> QED
      BY <2>6, <2>15, <2>16, <3>2, <3>3, Zenon
  <2> QED
    BY <1>1, <2>3, <2>10, <2>12, <2>13, <2>14, <2>17 DEF AfterParsing
<1> QED
  BY <1>1, <1>2, <1>3, <1>4 DEF IInv

-----------------------------------------------------------------------------
(* There is an r that fulfils the definition of role: if there were none   *)
(* for the first n words, take the smallest such n.                        *)
LEMMA RoleExists ==
  ASSUME words \in Seq(ArgvWords)
  PROVE  \E r : IsRole(r)
<1> DEFINE Fulfils(r, n) == \A i \in 1..n : r[i] = RoleFrom(r, i)
           None(n) == \A r : ~ Fulfils(r, n)
           S == {n \in Nat : None(n)}
<1>1. S = {}
  <2> SUFFICES ASSUME S # {} PROVE FALSE
    OBVIOUS
  <2>1. S \subseteq Nat
    OBVIOUS
  <2> HIDE DEF S
  <2>2. \E n \in S : \A y \in S : ~ (<<y, n>> \in OpToRel(<, Nat))
    BY <2>1, NatLessThanWellFounded, WFMin
  <2>3. PICK n \in S : \A y \in S : ~ (<<y, n>> \in OpToRel(<, Nat))
    BY <2>2
  <2>4. n \in Nat /\ None(n)
    BY DEF S
  <2>5. CASE n = 0
    <3>1. Fulfils(<<>>, n)
      BY <2>5
    <3> QED
      BY <2>4, <3>1
  <2>6. CASE n # 0
    <3> DEFINE m == n - 1
    <3>1. m \in Nat /\ m < n /\ 1..n = 1..m \cup {n} /\ n \notin 1..m
      BY <2>4, <2>6
    <3>2. ~ None(m)
      <4>1. <<m, n>> \in OpToRel(<, Nat)
        BY <2>4, <3>1, Zenon DEF OpToRel
      <4>2. m \notin S
        BY <2>3, <4>1
      <4> QED
        BY <3>1, <4>2 DEF S
    <3>3. PICK r : Fulfils(r, m)
      BY <3>2
    <3> DEFINE q == [i \in 1..n |-> IF i = n THEN RoleFrom(r, n) ELSE r[i]]
    <3>4. \A i \in 1..m : q[i] = r[i]
      BY <3>1
    <3>5. q[n] = RoleFrom(r, n)
      BY <3>1
    <3> HIDE DEF q, m
    <3>6. \A i \in 1..n : RoleFrom(q, i) = RoleFrom(r, i)
      <4> TAKE i \in 1..n
      <4>1. i > 1 => q[i - 1] = r[i - 1]
        BY <2>4, <3>4 DEF m
      <4>2. (\E j \in 1..(i - 1) : q[j] = "end") <=> (\E j \in 1..(i - 1) : r[j] = "end")
        BY <2>4, <3>4 DEF m
      <4> QED
        BY <4>1, <4>2, Zenon DEF RoleFrom
    <3>7. Fulfils(q, n)
      BY <3>1, <3>3, <3>4, <3>5, <3>6
    <3> QED
      BY <2>4, <3>7
  <2> QED
    BY <2>5, <2>6
<1>2. ASSUME NEW n \in Nat PROVE \E r : Fulfils(r, n)
  BY <1>1
<1>3. \E r : IsRole(r)
  <2>1. PICK n \in Nat : DOMAIN words = 1..n
    OBVIOUS
  <2>2. PICK r : Fulfils(r, n)
    BY <1>2
  <2> DEFINE q == [i \in 1..n |-> r[i]]
  <2>3. \A i \in 1..n : q[i] = r[i]
    OBVIOUS
  <2>4. \A i \in 1..n : RoleFrom(q, i) = RoleFrom(r, i)
    <3> HIDE DEF q
    <3> TAKE i \in 1..n
    <3>1. i > 1 => q[i - 1] = r[i - 1]
      BY <2>3
    <3>2. (\E j \in 1..(i - 1) : q[j] = "end") <=> (\E j \in 1..(i - 1) : r[j] = "end")
      BY <2>3
    <3> QED
      BY <3>1, <3>2, Zenon DEF RoleFrom
  <2>5. q = [i \in DOMAIN words |-> RoleFrom(q, i)]
    <3>1. \A i \in 1..n : r[i] = RoleFrom(q, i)
      BY <2>2, <2>4
    <3> QED
      BY <2>1, <3>1
  <2> QED
    BY <2>5 DEF IsRole
<1> QED
  BY <1>3

LEMMA RoleIsRole ==
  ASSUME words \in Seq(ArgvWords)
  PROVE  IsRole(role)
<1>1. PICK r : IsRole(r)
  BY RoleExists
<1>2. r = [i \in DOMAIN words |->
             IF i > 1 /\ r[i - 1] = "opens" THEN "value"
             ELSE IF \E j \in 1..(i - 1) : r[j] = "end" THEN "argument"
             ELSE CASE words[i].kind \in {"plain", "dash"} -> "argument"
                    [] words[i].kind = "long" /\ d.relaxed
                         /\ Representative(words[i].key) \in d.params \cup d.multis -> "opens"
                    [] OTHER -> words[i].kind]
  BY <1>1, Zenon DEF IsRole, RoleFrom, Own
<1>3. role = [i \in DOMAIN words |->
                IF i > 1 /\ role[i - 1] = "opens" THEN "value"
                ELSE IF \E j \in 1..(i - 1) : role[j] = "end" THEN "argument"
                ELSE CASE words[i].kind \in {"plain", "dash"} -> "argument"
                       [] words[i].kind = "long" /\ d.relaxed
                            /\ Representative(words[i].key) \in d.params \cup d.multis -> "opens"
                       [] OTHER -> words[i].kind]
  BY <1>2, Zenon DEF role
<1> QED
  BY <1>3, Zenon DEF IsRole, RoleFrom, Own

-----------------------------------------------------------------------------
LEMMA NextStep == IInv /\ [CmdlNext]_cmdlVars => IInv'
<1> SUFFICES ASSUME IInv, [CmdlNext]_cmdlVars PROVE IInv'
  OBVIOUS
<1>1. ASSUME outcome = "parsing", d' = d, words' = words, outcome' = outcome,
             \A r : IsRole(r) /\ Right(r) /\ Reads => Right(r)' /\ FoundIsRecord'
      PROVE  IInv'
  <2>1. DeclarationsRight /\ words \in Seq(ArgvWords) /\ FoundIsRecord /\ Reads
    BY <1>1 DEF IInv, Reads
  <2>2. DeclarationsRight'
    BY <1>1, <2>1 DEF DeclarationsRight
  <2>3. ASSUME NEW r, IsRole(r) PROVE Right(r)' /\ FoundIsRecord'
    <3>1. Parsing(r) /\ WhileParsing(r)
      BY <1>1, <2>3 DEF IInv
    <3>2. Right(r)
      BY <3>1 DEF Parsing, WhileParsing, Right, OptionsPart, ParametersPart, ArgumentsPart, ErrorsPart
    <3> QED
      BY <1>1, <2>1, <2>3, <3>2
  <2>4. FoundIsRecord'
    BY <2>1, <2>3, RoleExists
  <2>5. ASSUME NEW r, IsRole(r)' PROVE Parsing(r)' /\ WhileParsing(r)'
    <3>1. IsRole(r)
      BY <1>1, <2>5 DEF IsRole, RoleFrom, Own, Representative
    <3>2. Right(r)'
      BY <2>3, <3>1
    <3> QED
      BY <3>2 DEF Parsing, WhileParsing, Right, OptionsPart, ParametersPart, ArgumentsPart, ErrorsPart
  <2> QED
    BY <1>1, <2>1, <2>2, <2>4, <2>5 DEF IInv
<1>2. CASE Declare
  BY <1>2, DeclareStep
<1>3. CASE Start
  BY <1>3, StartStep
<1>4. CASE PendingValue
  <2>1. outcome = "parsing" /\ d' = d /\ words' = words /\ outcome' = outcome
    BY <1>4 DEF PendingValue
  <2> QED
    BY <1>1, <1>4, <2>1, PendingValueStep
<1>5. CASE Argument
  <2>1. outcome = "parsing" /\ d' = d /\ words' = words /\ outcome' = outcome
    BY <1>5 DEF Argument, WordIs
  <2> QED
    BY <1>1, <1>5, <2>1, ArgumentStep
<1>6. CASE EndOfOptions
  <2>1. outcome = "parsing" /\ d' = d /\ words' = words /\ outcome' = outcome
    BY <1>6 DEF EndOfOptions, WordIs
  <2> QED
    BY <1>1, <1>6, <2>1, EndOfOptionsStep
<1>7. CASE Shortoptions
  <2>1. outcome = "parsing" /\ d' = d /\ words' = words /\ outcome' = outcome
    BY <1>7 DEF Shortoptions, WordIs
  <2> QED
    BY <1>1, <1>7, <2>1, ShortoptionsStep
<1>8. CASE Assignment
  <2>1. outcome = "parsing" /\ d' = d /\ words' = words /\ outcome' = outcome
    BY <1>8 DEF Assignment, WordIs
  <2> QED
    BY <1>1, <1>8, <2>1, AssignmentStep
<1>9. CASE LongWord
  <2>1. outcome = "parsing" /\ d' = d /\ words' = words /\ outcome' = outcome
    BY <1>9 DEF LongWord, WordIs
  <2> QED
    BY <1>1, <1>9, <2>1, LongWordStep
<1>10. CASE Finish
  BY <1>10, FinishStep
<1>11. CASE UNCHANGED cmdlVars
  <2>1. UNCHANGED <<program, d, words, at, ended, supervised, pending, key, counter, expected, got, parseerror, outcome>>
    BY <1>11 DEF cmdlVars
  <2>2. DeclarationsRight' /\ (Unparsed => Unparsed') /\ (FoundIsRecord => FoundIsRecord')
    BY <2>1 DEF IInv, DeclarationsRight, Unparsed, FoundIsRecord
  <2>3. ASSUME NEW r
        PROVE  /\ IsRole(r)' => IsRole(r)
               /\ Parsing(r) => Parsing(r)'
               /\ WhileParsing(r) => WhileParsing(r)'
               /\ AfterParsing(r) => AfterParsing(r)'
    <3>1. IsRole(r)' => IsRole(r)
      BY <2>1 DEF IsRole, RoleFrom, Own, Representative
    <3>2. /\ \A what : Seen(r, what)' = Seen(r, what)
          /\ \A x : Representative(x)' = Representative(x)
          /\ \A i : ValueOf(r, i)' = ValueOf(r, i) /\ RankIn(r, i)' = RankIn(r, i)
          /\ OptionsSeen(r)' = OptionsSeen(r) /\ ShortsSeen(r)' = ShortsSeen(r)
          /\ \A k : GivesSeen(r, k)' = GivesSeen(r, k)
          /\ Mandatory' = Mandatory /\ Placed' = Placed /\ Surplus' = Surplus
      BY <2>1, NothingRead
    <3>3. Representative(words[at - 1].key)' = Representative(words[at - 1].key)
      BY <2>1 DEF Representative
    <3>4. StateRight(r) => StateRight(r)'
      BY <2>1, <3>2, <3>3 DEF StateRight
    <3>5. (OptionsFound(r) => OptionsFound(r)') /\ (ShortsFound(r) => ShortsFound(r)')
      BY <2>1, <3>2 DEF OptionsFound, ShortsFound
    <3>6. (SupervisorSeen(r)' <=> SupervisorSeen(r)) /\ (SupervisorFound(r) => SupervisorFound(r)')
      BY <2>1, <3>2 DEF SupervisorSeen, SupervisorFound
    <3>7. (ParametersFound(r) => ParametersFound(r)') /\ (MultisFound(r) => MultisFound(r)')
      BY <2>1, <3>2 DEF ParametersFound, MultisFound
    <3>8. (ArgumentsNumbered(r) => ArgumentsNumbered(r)') /\ (NamesGoAround => NamesGoAround')
      BY <2>1, <3>2 DEF ArgumentsNumbered, NamesGoAround
    <3>9. MandatoryFound(r) => MandatoryFound(r)'
      BY <2>1, <3>2 DEF MandatoryFound
    <3>10. /\ SurplusIs(r, got.arguments) => SurplusIs(r, got.arguments)'
           /\ SurplusIs(r, got.arguments \o got.final) => SurplusIs(r, got.arguments \o got.final)'
      BY <2>1, <3>2 DEF SurplusIs
    <3>11. (ErrorSeen(r)' <=> ErrorSeen(r)) /\ (EndError' <=> EndError)
      BY <2>1, <3>2 DEF ErrorSeen, EndError
    <3>12. Parsing(r) => Parsing(r)'
      BY <3>4, <3>5, <3>6, <3>7, <3>8, <3>9 DEF Parsing
    <3>13. WhileParsing(r) => WhileParsing(r)'
      BY <2>1, <3>10, <3>11 DEF WhileParsing
    <3>14. AfterParsing(r) => AfterParsing(r)'
      BY <2>1, <3>2, <3>6, <3>10, <3>11 DEF AfterParsing
    <3> QED
      BY <3>1, <3>12, <3>13, <3>14
  <2> QED
    BY <2>1, <2>2, <2>3 DEF IInv
<1> QED
  BY <1>2, <1>3, <1>4, <1>5, <1>6, <1>7, <1>8, <1>9, <1>10, <1>11 DEF CmdlNext
-----------------------------------------------------------------------------
(* When all words are read, what was seen is what the line means.          *)
LEMMA AllWordsSeen ==
  ASSUME words \in Seq(ArgvWords), at = Len(words) + 1
  PROVE  /\ DOMAIN words = 1..(at - 1)
         /\ \A what : With(what) = Seen(role, what)
         /\ GivenOptions = OptionsSeen(role) /\ GivenShorts = ShortsSeen(role)
         /\ \A k : Gives(k) = GivesSeen(role, k)
         /\ \A i : ValueAt(i) = ValueOf(role, i) /\ Rank(i) = RankIn(role, i)
         /\ Supervised <=> SupervisorSeen(role)
<1>1. DOMAIN words = 1..(at - 1)
  BY LenProperties
<1>2. \A what : With(what) = Seen(role, what)
  BY <1>1, Zenon DEF With, Seen
<1>3. GivenOptions = OptionsSeen(role) /\ GivenShorts = ShortsSeen(role)
  BY <1>2, Zenon DEF GivenOptions, OptionsSeen, GivenShorts, ShortsSeen
<1>4. \A k : Gives(k) = GivesSeen(role, k)
  BY <1>2, Zenon DEF Gives, GivesSeen
<1>5. \A i : ValueAt(i) = ValueOf(role, i) /\ Rank(i) = RankIn(role, i)
  BY <1>2, Zenon DEF ValueAt, ValueOf, Rank, RankIn
<1>6. Supervised <=> SupervisorSeen(role)
  BY <1>3, Zenon DEF Supervised, SupervisorSeen
<1> QED
  BY <1>1, <1>2, <1>3, <1>4, <1>5, <1>6

LEMMA ArgumentsInOrder ==
  ASSUME words \in Seq(ArgvWords), at = Len(words) + 1, ArgumentsNumbered(role)
  PROVE  /\ Arguments \in Seq(STRING) /\ Len(Arguments) = counter
         /\ \A n \in 1..counter : \E i \in Seen(role, "argument") :
              RankIn(role, i) = n /\ Arguments[n] = words[i].text
<1> DEFINE S == Seen(role, "argument")
           Word(n) == CHOOSE i \in With("argument") : Rank(i) = n
<1>1. /\ counter \in Nat /\ counter = Cardinality(S)
      /\ With("argument") = S /\ \A i : Rank(i) = RankIn(role, i)
  BY AllWordsSeen DEF ArgumentsNumbered
<1>2. Arguments = [n \in 1..counter |-> words[Word(n)].text]
  <2>1. Arguments = [n \in 1..Cardinality(With("argument")) |-> words[Word(n)].text]
    BY DEF Arguments
  <2> QED
    BY <1>1, <2>1
<1>3. ASSUME NEW n \in 1..counter
      PROVE  Word(n) \in S /\ RankIn(role, Word(n)) = n /\ words[Word(n)].text \in STRING
  <2>1. \E i \in S : RankIn(role, i) = n
    BY DEF ArgumentsNumbered
  <2>2. Word(n) \in S /\ RankIn(role, Word(n)) = n
    <3>1. \E i \in With("argument") : Rank(i) = n
      BY <1>1, <2>1
    <3>2. Word(n) \in With("argument") /\ Rank(Word(n)) = n
      BY <3>1
    <3> QED
      BY <1>1, <3>2
  <2>3. words[Word(n)] \in ArgvWords
    <3>1. S \subseteq DOMAIN words
      BY LenProperties DEF Seen
    <3> HIDE DEF Word, S
    <3> QED
      BY <2>2, <3>1
  <2> HIDE DEF Word
  <2> QED
    BY <2>2, <2>3 DEF ArgvWords
<1> HIDE DEF Word, S
<1>4. Arguments \in Seq(STRING) /\ Len(Arguments) = counter
  BY <1>1, <1>2, <1>3
<1>5. ASSUME NEW n \in 1..counter PROVE \E i \in S : RankIn(role, i) = n /\ Arguments[n] = words[i].text
  BY <1>2, <1>3
<1> QED
  BY <1>4, <1>5 DEF S

(* parse() and the definition agree on what is an error.                   *)
LEMMA ErrorsAreRight ==
  ASSUME words \in Seq(ArgvWords), DeclarationsRight, Parsing(role), AfterParsing(role)
  PROVE  WellFormed /\ ~Unannounced <=> ~ (ErrorSeen(role) \/ EndError)
<1>1. at = Len(words) + 1 /\ ArgumentsNumbered(role)
  BY DEF AfterParsing, Parsing
<1>2. Len(Arguments) = counter /\ counter \in Nat
  BY <1>1, ArgumentsInOrder DEF ArgumentsNumbered
<1>3. Mandatory \in Nat /\ d.limit \in Int /\ Mandatory = Len(d.arguments)
  BY DEF Mandatory, DeclarationsRight
<1>4. /\ GivenOptions = OptionsSeen(role) /\ GivenShorts = ShortsSeen(role)
      /\ With("assign") = Seen(role, "assign") /\ \A k : Gives(k) = GivesSeen(role, k)
  BY <1>1, AllWordsSeen
<1>5. ~ErrorSeen(role) <=>
        /\ GivenOptions \subseteq d.options \cup DOMAIN d.aliases
        /\ GivenShorts \subseteq d.shorts \cup DOMAIN d.shortaliases
        /\ \A i \in With("assign") : Representative(words[i].key) \in d.params \cup d.multis /\ words[i].value # ""
  BY <1>4, Zenon DEF ErrorSeen
<1>6. d.mandatory \ got.found = {} <=> \A k \in d.mandatory : Gives(k) # {}
  <2>1. got.found = {k \in d.params : GivesSeen(role, k) # {}} /\ d.mandatory \subseteq d.params
    BY DEF Parsing, ParametersFound, DeclarationsRight
  <2> QED
    BY <1>4, <2>1
<1>7. Fits <=> /\ counter >= (IF d.final THEN Mandatory + 1 ELSE Mandatory)
               /\ d.limit = -1 \/ counter <= d.limit
  BY <1>2, <1>3, Zenon DEF Fits
<1>9. Unannounced <=> counter > 0 /\ Mandatory = 0 /\ ~d.infinite /\ ~d.final
  <2>1. Arguments \in Seq(STRING) /\ d.arguments \in Seq(STRING)
    BY <1>1, ArgumentsInOrder DEF DeclarationsRight
  <2>2. (Arguments # <<>> <=> counter > 0) /\ (d.arguments = <<>> <=> Mandatory = 0)
    BY <1>2, <1>3, <2>1
  <2> QED
    BY <2>2, Zenon DEF Unannounced
<1>8. EndError <=> \/ ~ \A k \in d.mandatory : Gives(k) # {}
                   \/ ~Fits \/ Unannounced
  <2> DEFINE none == -1
  <2>1. none \in Int /\ (none = -1)
    OBVIOUS
  <2> HIDE DEF none
  <2>2. Surplus = IF counter > Mandatory THEN counter - Mandatory ELSE 0
    BY DEF Surplus
  <2>3. Fits /\ ~Unannounced <=>
                 ~ (\/ d.final /\ Surplus = 0
                    \/ counter < Mandatory
                    \/ d.limit # none /\ counter > d.limit
                    \/ Surplus > 0 /\ Mandatory = 0 /\ ~d.infinite /\ ~d.final)
    BY <1>2, <1>3, <1>7, <1>9, <2>1, <2>2
  <2> QED
    BY <1>6, <2>1, <2>3 DEF EndError
<1> QED
  BY <1>5, <1>8, Zenon DEF WellFormed
-----------------------------------------------------------------------------
(* parse() and the definition agree on what is found.                      *)
LEMMA LargestIs ==
  ASSUME NEW S, S \subseteq Nat, NEW x \in S, \A y \in S : y <= x
  PROVE  Max(S) = x
<1>1. x \in Nat /\ \A y \in S : y \in Nat /\ x >= y
  OBVIOUS
<1>2. Max(S) \in S /\ \A y \in S : Max(S) >= y
  BY <1>1 DEF Max
<1>3. Max(S) >= x /\ x >= Max(S) /\ Max(S) \in Nat
  BY <1>1, <1>2
<1> QED
  BY <1>1, <1>3

LEMMA SmallerIs ==
  ASSUME NEW a \in Nat, NEW b \in Nat
  PROVE  Min({a, b}) = IF b < a THEN b ELSE a
<1> DEFINE x == IF b < a THEN b ELSE a
<1>1. x \in {a, b} /\ x \in Nat /\ \A y \in {a, b} : x =< y
  OBVIOUS
<1> HIDE DEF x
<1>2. Min({a, b}) \in {a, b} /\ \A y \in {a, b} : Min({a, b}) =< y
  BY <1>1 DEF Min
<1>3. Min({a, b}) =< x /\ x =< Min({a, b}) /\ Min({a, b}) \in Nat
  BY <1>1, <1>2
<1> QED
  BY <1>1, <1>3 DEF x

LEMMA ValuesAreRight ==
  ASSUME words \in Seq(ArgvWords), at = Len(words) + 1, ParametersFound(role), MultisFound(role)
  PROVE  /\ DOMAIN got.params = {k \in d.params : Gives(k) # {}}
         /\ \A k \in DOMAIN got.params : got.params[k] = ValueAt(Max(Gives(k)))
         /\ DOMAIN got.multis = {k \in d.multis \ d.params : Gives(k) # {}}
         /\ \A k \in DOMAIN got.multis : got.multis[k] = {ValueAt(i) : i \in Gives(k)}
<1>1. (\A k : Gives(k) = GivesSeen(role, k)) /\ \A i : ValueAt(i) = ValueOf(role, i)
  BY AllWordsSeen
<1>2. DOMAIN got.params = {k \in d.params : Gives(k) # {}}
  BY <1>1 DEF ParametersFound
<1>3. ASSUME NEW k \in DOMAIN got.params PROVE got.params[k] = ValueAt(Max(Gives(k)))
  <2>1. PICK i \in GivesSeen(role, k) : (\A j \in GivesSeen(role, k) : j <= i) /\ got.params[k] = ValueOf(role, i)
    BY DEF ParametersFound
  <2>2. Gives(k) \subseteq Nat
    <3>1. \A what : Seen(role, what) \subseteq Nat
      BY LenProperties DEF Seen
    <3> QED
      BY <1>1, <3>1 DEF GivesSeen
  <2>3. Max(Gives(k)) = i
    BY <1>1, <2>1, <2>2, LargestIs
  <2> QED
    BY <1>1, <2>1, <2>3
<1>4. DOMAIN got.multis = {k \in d.multis \ d.params : Gives(k) # {}}
  BY <1>1 DEF MultisFound
<1>5. ASSUME NEW k \in DOMAIN got.multis PROVE got.multis[k] = {ValueAt(i) : i \in Gives(k)}
  <2>1. got.multis[k] = {ValueOf(role, i) : i \in GivesSeen(role, k)}
    BY DEF MultisFound
  <2> QED
    BY <1>1, <2>1
<1> QED
  BY <1>2, <1>3, <1>4, <1>5

LEMMA MandatoryAreRight ==
  ASSUME words \in Seq(ArgvWords), at = Len(words) + 1, DeclarationsRight,
         ArgumentsNumbered(role), MandatoryFound(role)
  PROVE  /\ DOMAIN got.mandatory = {d.arguments[i] : i \in 1..Placed}
         /\ \A i \in 1..Placed : (\A j \in (i + 1)..Placed : d.arguments[j] # d.arguments[i])
                                   => got.mandatory[d.arguments[i]] = Arguments[i]
<1>1. DOMAIN got.mandatory = {d.arguments[i] : i \in 1..Placed}
  BY DEF MandatoryFound
<1>2. counter \in Nat /\ Mandatory \in Nat /\ Placed \in Nat /\ Placed <= counter /\ Placed <= Mandatory
  <2>1. counter \in Nat /\ Mandatory \in Nat
    BY DEF ArgumentsNumbered, DeclarationsRight, Mandatory
  <2> QED
    BY <2>1 DEF Placed
<1>3. ASSUME NEW n \in 1..Placed, \A j \in (n + 1)..Placed : d.arguments[j] # d.arguments[n]
      PROVE  got.mandatory[d.arguments[n]] = Arguments[n]
  <2>1. n \in 1..counter /\ n <= Mandatory
    BY <1>2
  <2>2. PICK i \in Seen(role, "argument") : RankIn(role, i) = n /\ Arguments[n] = words[i].text
    BY <2>1, ArgumentsInOrder
  <2>3. got.mandatory[d.arguments[n]] = words[i].text
    BY <1>3, <2>1, <2>2 DEF MandatoryFound
  <2> QED
    BY <2>2, <2>3
<1> QED
  BY <1>1, <1>3

LEMMA SurplusIsRight ==
  ASSUME words \in Seq(ArgvWords), DeclarationsRight, Parsing(role), AfterParsing(role),
         NEW last, last = IF d.final /\ counter > Placed THEN counter - 1 ELSE counter
  PROVE  /\ got.arguments = SubSeq(Arguments, Placed + 1, last)
         /\ got.final = SubSeq(Arguments, last + 1, counter)
<1> DEFINE m == Placed
           s == got.arguments \o got.final
<1>1. counter \in Nat /\ Mandatory \in Nat
  BY DEF Parsing, ArgumentsNumbered, DeclarationsRight, Mandatory
<1>2. /\ m \in Nat /\ m <= counter /\ Surplus = counter - m /\ Surplus \in Nat
      /\ Surplus > 0 => m = Mandatory
  BY <1>1 DEF Placed, Surplus
<1>3. /\ Arguments \in Seq(STRING) /\ Len(Arguments) = counter
      /\ \A n \in 1..counter : \E i \in Seen(role, "argument") : RankIn(role, i) = n /\ Arguments[n] = words[i].text
  BY ArgumentsInOrder DEF Parsing, AfterParsing
<1>4. /\ got.arguments \in Seq(STRING) /\ got.final \in Seq(STRING) /\ SurplusIs(role, s)
      /\ Len(got.final) = IF d.final /\ Surplus > 0 THEN 1 ELSE 0
  BY DEF AfterParsing
<1> HIDE DEF m
<1>5. /\ Len(s) = Surplus /\ Len(s) = Len(got.arguments) + Len(got.final)
      /\ Len(got.arguments) \in Nat /\ Len(got.final) \in Nat
      /\ \A i \in 1..Len(got.arguments) : s[i] = got.arguments[i]
      /\ \A i \in 1..Len(got.final) : s[Len(got.arguments) + i] = got.final[i]
  <2> DEFINE a == got.arguments
             f == got.final
  <2>1. a \in Seq(STRING) /\ f \in Seq(STRING) /\ s = a \o f /\ Len(s) = Surplus
    BY <1>4 DEF SurplusIs
  <2> HIDE DEF a, f, s
  <2>2. /\ Len(s) = Len(a) + Len(f) /\ Len(a) \in Nat /\ Len(f) \in Nat
        /\ \A i \in 1..(Len(a) + Len(f)) : s[i] = IF i <= Len(a) THEN a[i] ELSE f[i - Len(a)]
    BY <2>1, ConcatProperties, LenProperties
  <2>3. \A i \in 1..Len(a) : s[i] = a[i]
    BY <2>2
  <2>4. ASSUME NEW i \in 1..Len(f) PROVE s[Len(a) + i] = f[i]
    <3>1. Len(a) + i \in 1..(Len(a) + Len(f)) /\ ~ (Len(a) + i <= Len(a)) /\ (Len(a) + i) - Len(a) = i
      BY <2>2
    <3> QED
      BY <2>2, <3>1
  <2> QED
    BY <2>1, <2>2, <2>3, <2>4 DEF a, f
<1>6. last \in Nat /\ last >= m /\ last <= counter
      /\ Len(got.arguments) = last - m /\ Len(got.final) = counter - last
  <2>1. last = IF d.final /\ counter > m THEN counter - 1 ELSE counter
    BY DEF m
  <2> DEFINE f == Len(got.final)
             a == Len(got.arguments)
  <2>2. f = (IF d.final /\ Surplus > 0 THEN 1 ELSE 0) /\ Surplus = a + f /\ a \in Nat
    BY <1>4, <1>5
  <2> HIDE DEF f, a
  <2>3. last \in Nat /\ last >= m /\ last <= counter /\ a = last - m /\ f = counter - last
    BY <1>1, <1>2, <2>1, <2>2
  <2> QED
    BY <2>3 DEF a, f
<1>7. ASSUME NEW n \in 1..Surplus PROVE s[n] = Arguments[m + n]
  <2>1. m + n \in 1..counter /\ m = Mandatory
    BY <1>1, <1>2
  <2>2. PICK i \in Seen(role, "argument") : RankIn(role, i) = m + n /\ Arguments[m + n] = words[i].text
    BY <1>3, <2>1
  <2>3. RankIn(role, i) > Mandatory /\ RankIn(role, i) - Mandatory = n
    BY <1>1, <1>2, <2>1, <2>2
  <2>4. s[RankIn(role, i) - Mandatory] = words[i].text
    BY <1>4, <2>3 DEF SurplusIs
  <2> QED
    BY <2>2, <2>3, <2>4
<1> HIDE DEF s
<1>8. ASSUME NEW a \in Nat, NEW b \in Nat, a <= b, b <= counter
      PROVE  LET part == SubSeq(Arguments, a + 1, b)
             IN  /\ part \in Seq(STRING) /\ Len(part) = b - a
                 /\ \A i \in 1..(b - a) : part[i] = Arguments[a + i]
  BY <1>1, <1>3, <1>8
<1>9. got.arguments = SubSeq(Arguments, m + 1, last)
  <2> DEFINE part == SubSeq(Arguments, m + 1, last)
  <2>1. part \in Seq(STRING) /\ Len(part) = last - m /\ \A i \in 1..(last - m) : part[i] = Arguments[m + i]
    BY <1>2, <1>6, <1>8
  <2>2. \A i \in 1..(last - m) : got.arguments[i] = Arguments[m + i]
    BY <1>1, <1>2, <1>5, <1>6, <1>7
  <2> HIDE DEF part
  <2>3. got.arguments = part
    BY <1>4, <1>6, <2>1, <2>2, SeqEqual
  <2> QED
    BY <2>3 DEF part
<1>10. got.final = SubSeq(Arguments, last + 1, counter)
  <2> DEFINE part == SubSeq(Arguments, last + 1, counter)
  <2>1. part \in Seq(STRING) /\ Len(part) = counter - last
        /\ \A i \in 1..(counter - last) : part[i] = Arguments[last + i]
    <3>1. last \in Nat /\ counter \in Nat /\ last <= counter /\ counter <= counter
      BY <1>1, <1>6
    <3> QED
      BY <3>1, <1>8, Zenon
  <2>2. ASSUME NEW i \in 1..(counter - last) PROVE got.final[i] = Arguments[last + i]
    <3>1. (last - m) + i \in 1..Surplus /\ m + ((last - m) + i) = last + i
      BY <1>1, <1>2, <1>6
    <3>2. s[(last - m) + i] = Arguments[last + i]
      BY <1>7, <3>1
    <3> QED
      BY <1>5, <1>6, <3>2
  <2> HIDE DEF part
  <2>3. got.final = part
    BY <1>4, <1>6, <2>1, <2>2, SeqEqual
  <2> QED
    BY <2>3 DEF part
<1> QED
  BY <1>9, <1>10 DEF m
-----------------------------------------------------------------------------
LEMMA InvariantSuffices == IInv => ParsesAsDeclared
<1> SUFFICES ASSUME IInv, outcome \in {"parsed", "thrown"} PROVE ParsesAsDeclared
  BY DEF ParsesAsDeclared
<1>1. DeclarationsRight /\ words \in Seq(ArgvWords)
  BY DEF IInv
<1>2. Parsing(role) /\ AfterParsing(role)
  BY <1>1, RoleIsRole DEF IInv
<1>3. at = Len(words) + 1 /\ ArgumentsNumbered(role)
  BY <1>2 DEF Parsing, AfterParsing
<1>4. outcome = "parsed" <=> (WellFormed /\ ~Unannounced) \/ Supervised
  <2>1. outcome = "parsed" <=> SupervisorSeen(role) \/ ~ (ErrorSeen(role) \/ EndError)
    BY <1>2 DEF AfterParsing
  <2>2. Supervised <=> SupervisorSeen(role)
    BY <1>1, <1>3, AllWordsSeen
  <2>3. WellFormed /\ ~Unannounced <=> ~ (ErrorSeen(role) \/ EndError)
    BY <1>1, <1>2, ErrorsAreRight
  <2> QED
    BY <2>1, <2>2, <2>3, Zenon
<1>5. /\ got.options = ((GivenOptions \cap d.options) \ DOMAIN d.aliases)
                          \cup UNION {d.aliases[k] : k \in GivenOptions \cap DOMAIN d.aliases}
      /\ got.shorts = ((GivenShorts \cap d.shorts) \ DOMAIN d.shortaliases)
                          \cup UNION {d.shortaliases[k] : k \in GivenShorts \cap DOMAIN d.shortaliases}
  <2>1. GivenOptions = OptionsSeen(role) /\ GivenShorts = ShortsSeen(role)
    BY <1>1, <1>3, AllWordsSeen
  <2> QED
    BY <1>2, <2>1 DEF Parsing, OptionsFound, ShortsFound
<1>6. /\ DOMAIN got.params = {k \in d.params : Gives(k) # {}}
      /\ \A k \in DOMAIN got.params : got.params[k] = ValueAt(Max(Gives(k)))
      /\ DOMAIN got.multis = {k \in d.multis \ d.params : Gives(k) # {}}
      /\ \A k \in DOMAIN got.multis : got.multis[k] = {ValueAt(i) : i \in Gives(k)}
  BY <1>1, <1>2, <1>3, ValuesAreRight DEF Parsing
<1>7. Len(Arguments) = counter /\ Min({Len(d.arguments), Len(Arguments)}) = Placed
  <2>1. Len(Arguments) = counter /\ counter \in Nat /\ Len(d.arguments) \in Nat
    BY <1>1, <1>3, ArgumentsInOrder DEF ArgumentsNumbered, DeclarationsRight
  <2> QED
    BY <2>1, SmallerIs DEF Placed, Mandatory
<1>8. /\ DOMAIN got.mandatory = {d.arguments[i] : i \in 1..Placed}
      /\ \A i \in 1..Placed : (\A j \in (i + 1)..Placed : d.arguments[j] # d.arguments[i])
                                => got.mandatory[d.arguments[i]] = Arguments[i]
  BY <1>1, <1>2, <1>3, MandatoryAreRight DEF Parsing
<1>9. PICK last : last = IF d.final /\ counter > Placed THEN counter - 1 ELSE counter
  OBVIOUS
<1>10. got.arguments = SubSeq(Arguments, Placed + 1, last) /\ got.final = SubSeq(Arguments, last + 1, counter)
  BY <1>1, <1>2, <1>9, SurplusIsRight
<1> QED
  BY <1>4, <1>5, <1>6, <1>7, <1>8, <1>9, <1>10, Zenon DEF ParsesAsDeclared

(* For every program and every command line, parse() throws exactly for    *)
(* the lines that are not as the program declared them, and for arguments  *)
(* it did not announce (unless there is a supervisor), and otherwise has   *)
(* every option, value and argument where the line gives it.               *)
THEOREM FindsWhatIsGiven == CmdlSpec => []ParsesAsDeclared
<1>1. CmdlInit => IInv
  BY InitHolds
<1>2. IInv /\ [CmdlNext]_cmdlVars => IInv'
  BY NextStep
<1>3. IInv => ParsesAsDeclared
  BY InvariantSuffices
<1> QED
  BY <1>1, <1>2, <1>3, PTL DEF CmdlSpec
=============================================================================
