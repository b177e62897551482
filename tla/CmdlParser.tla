------------------------------ MODULE CmdlParser ------------------------------
(***************************************************************************)
(* cmdl::CmdlParser (fztooltempl/cmdlparser.cpp): a program declares what  *)
(* its command line may have, call by call, and has it parsed, word by     *)
(* word.  A word is a record of its text and of how it begins: "plain",     *)
(* "dash" (a single one), "end" (two), "short" with its characters, "long" *)
(* with its key, or "assign" with key and value.                           *)
(***************************************************************************)
EXTENDS Integers, Sequences, FiniteSets, SequencesExt

CONSTANTS Programs,      \* what programs declare: sequences of calls
          CommandLines   \* sequences of words

Operations == {"addShortoption", "addOption", "addParameter", "addMultiParameter", "addMandatoryArgument",
               "shortsynonym", "synonym", "shortalias", "alias", "shortsupervisor", "supervisor",
               "setInfiniteArguments", "setArgumentsLimit", "setFinalArgument", "allowRelaxedSyntax"}
Calls == [op : Operations, name : STRING, of : STRING, max : Nat]

Kinds     == {"plain", "dash", "end", "short", "long", "assign"}
ArgvWords == [kind : Kinds, text : STRING, key : STRING, chars : Seq(STRING), value : STRING]

ASSUME ProgramsAssumption == Programs \subseteq Seq(Calls)
ASSUME CommandLinesAssumption == CommandLines \subseteq Seq(ArgvWords)

VARIABLES program,   \* the calls that are left
          d,         \* what has been declared
          words, at, \* argv, and the word that is looked at
          ended, supervised, pending, key,   \* local variables of parse()
          counter, expected,                 \* argumentcounter, exp_mand_arguments
          got,       \* what was found
          parseerror,
          outcome    \* "declaring", "refused" (by an exception), "parsing", "parsed", "thrown"

cmdlVars == <<program, d, words, at, ended, supervised, pending, key, counter, expected, got, parseerror, outcome>>

NoEntries == [k \in {} |-> {}]

Nothing == [shorts |-> {}, options |-> {}, params |-> {}, mandatory |-> {}, multis |-> {}, arguments |-> <<>>,
            shortreps |-> {}, reps |-> {}, shortsynonyms |-> {}, synonyms |-> {},
            shortaliases |-> NoEntries, aliases |-> NoEntries, shortsupervisors |-> {}, supervisors |-> {},
            infinite |-> FALSE, limit |-> -1, final |-> FALSE, relaxed |-> FALSE]

NotGiven  == [shorts |-> {}, options |-> {}, params |-> NoEntries, multis |-> NoEntries, found |-> {},
              arguments |-> <<>>, mandatory |-> NoEntries, final |-> <<>>]

CmdlInit ==
  /\ program \in Programs /\ d = Nothing /\ outcome = "declaring"
  /\ words = <<>> /\ at = 1 /\ ended = FALSE /\ supervised = FALSE /\ pending = "none" /\ key = ""
  /\ counter = 0 /\ expected = <<>> /\ got = NotGiven /\ parseerror = FALSE

parsing == <<words, at, ended, supervised, pending, key, counter, expected, got, parseerror>>

-----------------------------------------------------------------------------
(* The maps, of names to values and to sets of them.                       *)
Put(f, k, v)   == [x \in DOMAIN f \cup {k} |-> IF x = k THEN v ELSE f[x]]
AddTo(f, k, v) == Put(f, k, {v} \cup (IF k \in DOMAIN f THEN f[k] ELSE {}))

-----------------------------------------------------------------------------
(* Declarations.                                                           *)

(* What is known after a call that is not refused.                         *)
After(c) ==
  CASE c.op = "addShortoption" -> [d EXCEPT !.shorts = @ \cup {c.name}, !.shortreps = @ \cup {c.name}]
    [] c.op = "addOption" -> [d EXCEPT !.options = @ \cup {c.name}, !.reps = @ \cup {c.name}]
    [] c.op = "addParameter" -> [d EXCEPT !.params = @ \cup {c.name}, !.reps = @ \cup {c.name},
                                         !.mandatory = IF c.of = "mandatory" THEN @ \cup {c.name} ELSE @ \ {c.name}]
    [] c.op = "addMultiParameter" -> [d EXCEPT !.multis = @ \cup {c.name}, !.reps = @ \cup {c.name}]
    [] c.op = "addMandatoryArgument" -> [d EXCEPT !.arguments = Append(@, c.name)]
    [] c.op = "shortsynonym" -> [d EXCEPT !.shortsynonyms = @ \cup {<<c.of, c.name>>}]
    [] c.op = "synonym" -> [d EXCEPT !.synonyms = @ \cup {<<c.of, c.name>>}]
    [] c.op = "shortalias" -> [d EXCEPT !.shortaliases = AddTo(@, c.of, c.name)]
    [] c.op = "alias" -> [d EXCEPT !.aliases = AddTo(@, c.of, c.name)]
    [] c.op = "shortsupervisor" -> [d EXCEPT !.shortsupervisors = @ \cup {c.name}]
    [] c.op = "supervisor" -> [d EXCEPT !.supervisors = @ \cup {c.name}]
    [] c.op = "setInfiniteArguments" -> [d EXCEPT !.infinite = TRUE, !.limit = -1]
    [] c.op = "setArgumentsLimit" -> [d EXCEPT !.limit = c.max, !.infinite = FALSE]
    [] c.op = "setFinalArgument" -> [d EXCEPT !.final = TRUE]
    [] c.op = "allowRelaxedSyntax" -> [d EXCEPT !.relaxed = TRUE]

Refused(c) == \/ c.op = "shortsynonym" /\ c.of \notin d.shortreps
              \/ c.op = "synonym" /\ c.of \notin d.reps
              \/ c.op = "shortalias" /\ c.name \notin d.shorts
              \/ c.op = "alias" /\ c.name \notin d.options
              \/ c.op = "shortsupervisor" /\ c.name \notin d.shortreps
              \/ c.op = "supervisor" /\ c.name \notin d.reps

Declare ==
  /\ outcome = "declaring" /\ program # <<>>
  /\ program' = Tail(program)
  /\ IF Refused(Head(program)) THEN outcome' = "refused" /\ UNCHANGED d
     ELSE d' = After(Head(program)) /\ UNCHANGED outcome
  /\ UNCHANGED parsing

Start ==
  /\ outcome = "declaring" /\ program = <<>>
  /\ words' \in CommandLines /\ outcome' = "parsing" /\ expected' = d.arguments
  /\ UNCHANGED <<program, d, at, ended, supervised, pending, key, counter, got, parseerror>>

-----------------------------------------------------------------------------
(* parse()                                                                 *)

(* getRepresentative(): a name that is a synonym stands for the first name *)
(* that has it; the programs here give it to one.                          *)
RepresentativeIn(pairs, name) ==
  LET reps == {p[1] : p \in {q \in pairs : q[2] = name}}
  IN  IF reps = {} THEN name ELSE CHOOSE r \in reps : TRUE
Representative(name)      == RepresentativeIn(d.synonyms, name)
ShortRepresentative(name) == RepresentativeIn(d.shortsynonyms, name)

WordIs(kinds) == /\ outcome = "parsing" /\ at <= Len(words) /\ pending = "none"
                 /\ (ended /\ "argument" \in kinds) \/ (~ended /\ words[at].kind \in kinds)
                 /\ at' = at + 1
                 /\ UNCHANGED <<program, d, words, outcome>>

WithParameter(g, k, value) == [g EXCEPT !.params = Put(@, k, value), !.found = @ \cup {k}]
WithMulti(g, k, value)     == [g EXCEPT !.multis = AddTo(@, k, value)]

(* The word behind "--key" is its value, whatever it looks like.           *)
PendingValue ==
  /\ outcome = "parsing" /\ at <= Len(words) /\ pending # "none"
  /\ at' = at + 1 /\ pending' = "none"
  /\ got' = IF pending = "param" THEN WithParameter(got, key, words[at].text) ELSE WithMulti(got, key, words[at].text)
  /\ UNCHANGED <<program, d, words, ended, supervised, key, counter, expected, parseerror, outcome>>

(* A bug for comparison: the names of the arguments do not go around.      *)
Argument_NoCycling ==
  /\ WordIs({"argument", "plain", "dash"})
  /\ IF counter < Len(expected)
     THEN /\ got' = [got EXCEPT !.mandatory = Put(@, Head(expected), words[at].text)]
          /\ UNCHANGED expected
     ELSE got' = [got EXCEPT !.arguments = Append(@, words[at].text)] /\ UNCHANGED expected
  /\ counter' = counter + 1
  /\ UNCHANGED <<ended, supervised, pending, key, parseerror>>

(* The first arguments are the mandatory ones; the list of their names     *)
(* goes around.                                                            *)
Argument ==
  /\ WordIs({"argument", "plain", "dash"})
  /\ IF counter < Len(expected)
     THEN /\ got' = [got EXCEPT !.mandatory = Put(@, Head(expected), words[at].text)]
          /\ expected' = Append(Tail(expected), Head(expected))
     ELSE got' = [got EXCEPT !.arguments = Append(@, words[at].text)] /\ UNCHANGED expected
  /\ counter' = counter + 1
  /\ UNCHANGED <<ended, supervised, pending, key, parseerror>>

EndOfOptions ==
  /\ WordIs({"end"})
  /\ ended' = TRUE
  /\ UNCHANGED <<supervised, pending, key, counter, expected, got, parseerror>>

(* Each character is an alias, an option, or an error.                     *)
Shortoptions ==
  /\ WordIs({"short"})
  /\ LET given   == {ShortRepresentative(c) : c \in ToSet(words[at].chars)}
         options == (given \cap d.shorts) \ DOMAIN d.shortaliases
     IN  /\ got' = [got EXCEPT !.shorts =
                      @ \cup options \cup UNION {d.shortaliases[c] : c \in given \cap DOMAIN d.shortaliases}]
         /\ parseerror' = (parseerror \/ given \ (d.shorts \cup DOMAIN d.shortaliases) # {})
         /\ supervised' = (supervised \/ options \cap d.shortsupervisors # {})
  /\ UNCHANGED <<ended, pending, key, counter, expected>>

(* --key=value                                                             *)
Assignment ==
  /\ WordIs({"assign"})
  /\ key' = Representative(words[at].key)
  /\ LET value == words[at].value
         known == key' \in d.params \cup d.multis
     IN  /\ got' = CASE ~known \/ value = "" -> got
                     [] known /\ value # "" /\ key' \in d.params -> WithParameter(got, key', value)
                     [] OTHER -> WithMulti(got, key', value)
         /\ parseerror' = (parseerror \/ ~known \/ value = "")
  /\ UNCHANGED <<ended, supervised, pending, counter, expected>>

(* --key                                                                   *)
LongWord ==
  /\ WordIs({"long"})
  /\ key' = Representative(words[at].key)
  /\ pending' = CASE d.relaxed /\ key' \in d.params -> "param"
                  [] d.relaxed /\ key' \in d.multis \ d.params -> "multi"
                  [] OTHER -> "none"
  /\ IF pending' = "none" /\ key' \in DOMAIN d.aliases
     THEN got' = [got EXCEPT !.options = @ \cup d.aliases[key']] /\ UNCHANGED <<parseerror, supervised>>
     ELSE IF pending' = "none" /\ key' \in d.options
          THEN /\ got' = [got EXCEPT !.options = @ \cup {key'}]
               /\ supervised' = (supervised \/ key' \in d.supervisors) /\ UNCHANGED parseerror
          ELSE parseerror' = (parseerror \/ pending' = "none") /\ UNCHANGED <<got, supervised>>
  /\ UNCHANGED <<ended, counter, expected>>

(* After the last word: the final argument, and what is missing or too     *)
(* much.                                                                   *)
Finish ==
  /\ outcome = "parsing" /\ at > Len(words)
  /\ got' = IF d.final /\ got.arguments # <<>>
            THEN [got EXCEPT !.final = <<Last(got.arguments)>>, !.arguments = Front(@)] ELSE got
  /\ parseerror' = \/ parseerror
                   \/ d.final /\ got.arguments = <<>>
                   \/ d.mandatory \ got.found # {}
                   \/ counter < Len(expected)
                   \/ d.limit # -1 /\ counter > d.limit
                   \/ got'.arguments # <<>> /\ expected = <<>> /\ ~d.infinite /\ ~d.final
  /\ outcome' = IF parseerror' /\ ~supervised THEN "thrown" ELSE "parsed"
  /\ UNCHANGED <<program, d, words, at, ended, supervised, pending, key, counter, expected>>

CmdlNext == \/ Declare \/ Start \/ PendingValue \/ Argument \/ EndOfOptions
            \/ Shortoptions \/ Assignment \/ LongWord \/ Finish

CmdlSpec == CmdlInit /\ [][CmdlNext]_cmdlVars

-----------------------------------------------------------------------------
(* What a command line means: what each word is, and what follows.         *)
role[i \in DOMAIN words] ==
  IF i > 1 /\ role[i - 1] = "opens" THEN "value"
  ELSE IF \E j \in 1..(i - 1) : role[j] = "end" THEN "argument"
  ELSE CASE words[i].kind \in {"plain", "dash"} -> "argument"
         [] words[i].kind = "long" /\ d.relaxed /\ Representative(words[i].key) \in d.params \cup d.multis -> "opens"
         [] OTHER -> words[i].kind

With(what) == {i \in DOMAIN words : role[i] = what}

(* The arguments in their order; Rank says which one the word at i is.     *)
Rank(i)   == Cardinality({j \in With("argument") : j <= i})
Arguments == [n \in 1..Cardinality(With("argument")) |-> words[CHOOSE i \in With("argument") : Rank(i) = n].text]

(* The words that give key k a value, and the value.                       *)
Gives(k) == {i \in With("assign") : Representative(words[i].key) = k /\ words[i].value # ""}
              \cup {i \in With("value") : Representative(words[i - 1].key) = k}
ValueAt(i) == IF role[i] = "assign" THEN words[i].value ELSE words[i].text

GivenOptions == {Representative(words[i].key) : i \in With("long")}
GivenShorts  == {ShortRepresentative(c) : c \in UNION {ToSet(words[i].chars) : i \in With("short")}}
Supervised   == \/ (GivenOptions \ DOMAIN d.aliases) \cap d.options \cap d.supervisors # {}
                \/ (GivenShorts \ DOMAIN d.shortaliases) \cap d.shorts \cap d.shortsupervisors # {}

(* The bounds for arguments that cmdlparser.hpp:430-450 documents: at      *)
(* least the mandatory ones and the final one, at most the limit that      *)
(* setArgumentsLimit() sets.                                               *)
Fits == LET n == Len(Arguments)
            m == Len(d.arguments)
        IN  /\ n >= (IF d.final THEN m + 1 ELSE m)
            /\ d.limit = -1 \/ n <= d.limit

(* Arguments that parse() refuses although they fit: there are none that   *)
(* are mandatory or final, and setInfiniteArguments(), which by its        *)
(* comment only informs usage(), was not called, or was overridden by a    *)
(* limit.                                                                  *)
Unannounced == Arguments # <<>> /\ d.arguments = <<>> /\ ~d.infinite /\ ~d.final

WellFormed ==
  /\ GivenOptions \subseteq d.options \cup DOMAIN d.aliases
  /\ GivenShorts \subseteq d.shorts \cup DOMAIN d.shortaliases
  /\ \A i \in With("assign") : Representative(words[i].key) \in d.params \cup d.multis /\ words[i].value # ""
  /\ \A k \in d.mandatory : Gives(k) # {}
  /\ Fits

(* parse() throws exactly for the lines that are not as declared, and for  *)
(* unannounced arguments, unless there is a supervisor; and when it does   *)
(* not, every option, value and argument is found where it was given: the  *)
(* first arguments under the mandatory names, in order (a name declared    *)
(* twice stands for the last one), the last one as the final one, of a     *)
(* parameter the last value, of a multi-parameter all of them.             *)
ParsesAsDeclared ==
  outcome \in {"parsed", "thrown"} =>
    /\ outcome = "parsed" <=> (WellFormed /\ ~Unannounced) \/ Supervised
    /\ outcome = "parsed" =>
         LET n    == Len(Arguments)
             m    == Min({Len(d.arguments), n})
             last == IF d.final /\ n > m THEN n - 1 ELSE n
         IN  /\ got.options = ((GivenOptions \cap d.options) \ DOMAIN d.aliases)
                                \cup UNION {d.aliases[k] : k \in GivenOptions \cap DOMAIN d.aliases}
             /\ got.shorts = ((GivenShorts \cap d.shorts) \ DOMAIN d.shortaliases)
                                \cup UNION {d.shortaliases[k] : k \in GivenShorts \cap DOMAIN d.shortaliases}
             /\ DOMAIN got.params = {k \in d.params : Gives(k) # {}}
             /\ \A k \in DOMAIN got.params : got.params[k] = ValueAt(Max(Gives(k)))
             /\ DOMAIN got.multis = {k \in d.multis \ d.params : Gives(k) # {}}
             /\ \A k \in DOMAIN got.multis : got.multis[k] = {ValueAt(i) : i \in Gives(k)}
             /\ DOMAIN got.mandatory = {d.arguments[i] : i \in 1..m}
             /\ \A i \in 1..m : (\A j \in (i + 1)..m : d.arguments[j] # d.arguments[i])
                                  => got.mandatory[d.arguments[i]] = Arguments[i]
             /\ got.arguments = SubSeq(Arguments, m + 1, last)
             /\ got.final = SubSeq(Arguments, last + 1, n)
===============================================================================
