-------------------------------- MODULE MCTexts --------------------------------
(***************************************************************************)
(* Instances of what reads texts: Calculator, Formula, Lexer, CmdlParser   *)
(* and PropertyReader.  They share no state: a behaviour is one of the     *)
(* part that is chosen at the start, and the others stay as they are       *)
(* before their first step.                                                *)
(***************************************************************************)
EXTENDS Calculator, Evaluation, TokenReader, CmdlParser

Words(set, n) == UNION {[1..k -> set] : k \in 0..n}

-----------------------------------------------------------------------------
(* Sessions of fizzcal: entries that depend on each other through          *)
(* variables, functions and the one predefined variable.  A half is what   *)
(* is lost or rounded up by a save without digits behind the point.        *)
Pi == [pi |-> 7]

Whole1 == Num(2)
Whole2 == Num(4)

MCEntries == {
  Assign("a", Num(3)),
  Assign("a", Plus(Var("a"), Whole1)),
  Assign("pi", Whole2),
  Assign("f", Whole2),
  Plus(Var("a"), Assign("a", Whole2)),
  Define("f", "x", Plus(Var("x"), Num(1))),
  Define("f", "x", Plus(Var("x"), Var("a"))),
  Define("f", "x", ApplyTo("g", Var("x"))),
  Define("g", "x", Plus(ApplyTo("f", Var("x")), Assign("b", Var("x")))),
  Define("g", "pi", Assign("pi", Plus(Var("pi"), Num(1)))),
  ApplyTo("f", Assign("a", Whole2)),
  ApplyTo("g", Whole1),
  SumOf("k", Assign("a", Whole1), Whole2, Assign("a", Plus(Var("a"), Var("k")))),
  SumOf("k", Whole1, Var("a"), ApplyTo("g", Var("k"))),
  SumOf("pi", Whole1, Whole2, Var("pi"))}

-----------------------------------------------------------------------------
(* Formulas: all short ones, three operands of every kind with any         *)
(* operators between them, and longer ones of other forms.                 *)
ShortFormulas == UNION {[1..n -> {"2", "x", "sin", "+", "^", "!", "(", ")", ",", " "}] : n \in 0..4}

Parts == {<<"2">>, <<"-", "x">>, <<"sin", "x">>, <<"x", "!">>,
          <<"(", "-", "1", "*", "-", "1", ")">>, <<"f", "(", "2", ",", "x", ")">>}
Ops   == {<<"+">>, <<"*">>, <<"^">>, <<",">>, <<"=">>, <<>>}
LongFormulas == {a \o o \o b \o p \o c : a, b, c \in Parts, o, p \in Ops}

OtherFormulas == {
  <<"sin", "^", "2", "x", "^", "y">>, <<"2", "^", "sin", "^", "(", "x", "+", "y", ")", "x", "@", "2">>,
  <<"sin", "^", "2", "x", "+", "sin", "^", "-", "1", "x">>, <<"sin", "^", "^", "2", "x">>,
  <<"Sum", "[", "y", "=", "1", ";", "x", "]", "y", "^", "2", "*", "x", "+", "2">>,
  <<"Prod", "[", "y", "=", "1", ";", "2", "]", "y", "(", "x", "+", "y", ")">>,
  <<"Sum", "[", "y", "=", "1", "]", "y">>, <<"Sum", "[", "1", ";", "2", "]", "y">>, <<"Sum", "y">>,
  <<"log", "[", "2", "]", "x", "!">>, <<"log", "[", "2", "]", "^", "2", "x", "+", "1">>,
  <<"log", "x">>, <<"log", "[", "2", "]", "[", "x", "]", "2">>, <<"sin", "[", "2", "]", "x">>,
  <<"g", "(", "y", ",", "z", ")", "=", "y", "(", "z", "+", "1", ")">>,
  <<"g", "(", "y", ")", "=", "z", "(", "y", ")", "+", "2">>, <<"g", "=", "x", "=", "2">>,
  <<"(", "1", ",", "2", ",", "x", ")", "+", "(", "y", ",", "z", ",", "(", "1", ",", "2", ")", ")">>,
  <<"f", "(", "1", ",", "y", "=", "2", ",", "z", ";", "x", ")">>, <<"1", ",", "2", ",", " ">>,
  <<"f", "(", ")", "+", "2">>, <<"2", " ", "x", " ", " ", "(", " ", "2", ")">>,
  <<"g", "(", "x", ",", "y", ",", "z", ")", "=", "x", "(", "z", ")", "+", "z">>,
  <<"g", "(", "y", ")", "=", "f", "(", "(", "y", ",", "1", ")", ")", "+", "(", "y", ",", "2", ")">>,
  <<"g", "(", "y", ")", "=", "1", ",", "y">>, <<"g", "(", "y", ")", "=", "(", "1", ",", "y", ")">>,
  <<"g", "(", "y", ")", "=", "(", "-", "1", ")", "!", "*", "sin", "(", "-", "y", "!", ")", "^", "-", "2">>,
  <<"g", "(", "x", ",", "y", ",", "z", ")", "=", "y", "(", "z", ")">>}

MCFormulas == ShortFormulas \cup LongFormulas \cup OtherFormulas

-----------------------------------------------------------------------------
(* Texts for the lexer: all short ones of the characters that matter, and  *)
(* longer ones about comments, quotes and line breaks.                     *)
LongTexts == {
  <<"a", "/", "*", "LF", "*", "/", "b", " ", "1">>,
  <<"/", "*", "/", "*", "a", "*", "/", "LF", "b", "*", "/", "a">>,
  <<"a", "/", "/", "b", "esc", "LF", "1", "/", "/", "LF", "LF", "a">>,
  <<"quote", "/", "*", "a", "quote", "b", "*", "/", "quote", "1", "quote">>,
  <<"quote", "a", "esc", "quote", "b", "esc", "CR", "LF", "quote", "a", "LF">>,
  <<"a", "CR", "LF", "CR", "LF", "LF", "b", "esc", "CR", "LF", "a", "CR", "b">>,
  <<" ", "/", "*", "CR", "LF", "*", "/", " ", " ", "a", " ", " ", "LF", "a">>,
  <<"1", "/", "*", "*", "/", "1", "+", "1", "a", "1", "*", "b">>,
  <<"esc", "LF", "a", " ", "b", "esc", "LF", " ", "a", "esc", "a">>,
  <<"a", "+", "1", "1", " ", "+", "a", "+", "+", "1", "LF">>}

MCTexts == Words({"a", "1", " ", "LF", "quote", "esc", "/", "*"}, 3)
             \cup Words({"a", "LF", "quote", "esc", "/", "*"}, 4)
             \cup Words({"a", "1", " ", "LF", "CR", "+"}, 3) \cup LongTexts

Plainly == [modern |-> TRUE, nested |-> FALSE, uncollapsed |-> FALSE, white |-> FALSE, eol |-> FALSE,
            signed |-> FALSE, digit |-> FALSE, raw |-> FALSE, real |-> FALSE, lines |-> FALSE]

MCOptions == {
  Plainly,
  [Plainly EXCEPT !.nested = TRUE, !.eol = TRUE, !.signed = TRUE, !.real = TRUE],
  [Plainly EXCEPT !.white = TRUE, !.eol = TRUE, !.raw = TRUE, !.modern = FALSE],
  [Plainly EXCEPT !.white = TRUE, !.eol = TRUE, !.uncollapsed = TRUE, !.signed = TRUE, !.digit = TRUE],
  [Plainly EXCEPT !.lines = TRUE]}

-----------------------------------------------------------------------------
(* Files of properties: all short ones, which are read and written once,   *)
(* and some longer ones with more calls.                                   *)
LongFiles == {
  <<"a", "=", "b", "LF", "#", "LF", "[", "S", "]", "LF", "b", "=", "a", "LF">>,
  <<"[", "S", "]", "LF", "#", "a", "LF", "a", "=", "b", "LF", "[", "]", "LF", "b", "=", "b", "LF">>,
  <<"[", "S", "]", "LF", "a", "=", "a", "LF", "[", "a", "]", "LF", "b", "=", "a", "LF", "[", "S", "]", "LF", "b", "=", "b">>,
  <<" ", "a", " ", "=", " ", "b", " ", "b", " ", "LF", "a", "=", "LF", "#", "b">>,
  <<"#", "LF", "LF", "a", "=", "a", "LF", "a", "=", "b", "LF", "b", " ", "b", "LF">>}

Added == [k \in {<<"a">>} |-> <<"a", "b">>]

MCStarts ==
  [file : Words({"a", "b", "=", "LF", " "}, 5) \cup Words({"a", "=", "LF", "#", "[", "]"}, 5), parameters : {<<>>}, calls : {1}]
    \cup [file : Words({"a", "=", "LF", "#", "[", "]"}, 3), parameters : {<<>>}, calls : {2}]
    \cup [file : LongFiles \cup {<<>>}, parameters : {<<>>, Added}, calls : {4}]

MCNames == {<<"a">>, <<"b">>}
MCValues == {<<"a", " ", "b">>}
MCSections == {<<"NO">>, <<"S">>, <<"a">>}
MCCharOrder == <<"LF", " ", "#", "=", "NO", "S", "[", "]", "a", "b">>

-----------------------------------------------------------------------------
(* What programs declare, and command lines.                              *)
Declares(op, name, of) == [op |-> op, name |-> name, of |-> of, max |-> 0]
Limit(n) == [op |-> "setArgumentsLimit", name |-> "", of |-> "", max |-> n]

Usual == <<Declares("addShortoption", "h", ""), Declares("addShortoption", "q", ""), Declares("addOption", "help", ""),
           Declares("addOption", "quiet", ""), Declares("addParameter", "color", ""), Declares("addMultiParameter", "lib", ""),
           Declares("shortsynonym", "s", "q"), Declares("synonym", "silent", "quiet"), Declares("synonym", "colour", "color"),
           Declares("shortalias", "q", "a"), Declares("shortalias", "h", "a"), Declares("alias", "quiet", "all"), Declares("alias", "help", "all"),
           Declares("shortsupervisor", "h", ""), Declares("supervisor", "help", "")>>

MCPrograms == {
  Usual, Usual \o <<Limit(1)>>,
  Usual \o <<Declares("allowRelaxedSyntax", "", ""), Declares("addMandatoryArgument", "from", ""), Declares("addMandatoryArgument", "to", "")>>,
  Usual \o <<Declares("addParameter", "color", "mandatory"), Limit(1), Declares("setInfiniteArguments", "", "")>>,
  Usual \o <<Declares("addMandatoryArgument", "from", ""), Declares("setFinalArgument", "", ""), Declares("allowRelaxedSyntax", "", "")>>,
  Usual \o <<Declares("setInfiniteArguments", "", ""), Declares("addMandatoryArgument", "from", ""),
             Declares("addMandatoryArgument", "from", ""), Limit(2)>>,
  <<Declares("alias", "quiet", "all"), Declares("addOption", "quiet", "")>>,
  <<Declares("shortsupervisor", "h", "")>>, <<Declares("synonym", "silent", "quiet")>>}

Word(kind, whole, k, chars, value) == [kind |-> kind, text |-> whole, key |-> k, chars |-> chars, value |-> value]

MCWords == {
  Word("plain", "file", "", <<>>, ""), Word("dash", "-", "", <<>>, ""), Word("end", "--", "", <<>>, ""),
  Word("short", "-sh", "", <<"s", "h">>, ""), Word("short", "-a", "", <<"a">>, ""), Word("short", "-qx", "", <<"q", "x">>, ""),
  Word("long", "--silent", "silent", <<>>, ""), Word("long", "--help", "help", <<>>, ""), Word("long", "--all", "all", <<>>, ""),
  Word("long", "--colour", "colour", <<>>, ""), Word("long", "--lib", "lib", <<>>, ""),
  Word("assign", "--colour=red", "colour", <<>>, "red"), Word("assign", "--lib=c", "lib", <<>>, "c"),
  Word("assign", "--lib=", "lib", <<>>, ""), Word("assign", "--quiet=1", "quiet", <<>>, "1")}

FewWords == {w \in MCWords : w.text \in {"file", "--", "-sh", "--colour", "--lib=c"}}
MCLines == UNION {[1..n -> MCWords] : n \in 0..3} \cup [1..4 -> FewWords]

-----------------------------------------------------------------------------
VARIABLES part,                                                    \* the part that runs
          formula, node, calls, locals, verdict, printed,          \* Formula
          properties, parameters, mem, status, errorline, did, left     \* PropertyReader

MCEval(e, vs, fs, c) == Eval(e, vs, fs, c)

(* By the help of fizzcal functions bind more than "^", and less than "@". *)
MCReach(f) == 35

Form == INSTANCE Formula WITH Reach <- MCReach,
          Formulas <- MCFormulas, Digits <- {"1", "2"},
          Names <- {"x", "y", "z", "f", "g", "sin", "log", "Sum", "Prod"},
          Builtins <- {"sin", "log", "Sum", "Prod"}, Known <- {"f"}, Declared <- {"x"}, outcome <- verdict

Lex == INSTANCE Lexer

MCScan(t, o, s, l, p) == Lex!Scan(t, o, s, l, p)

Prop == INSTANCE PropertyReader WITH
          Starts <- MCStarts, Names <- MCNames, NewValues <- MCValues, Sections <- MCSections,
          CharOrder <- MCCharOrder, file <- properties

formulaVars  == <<formula, node, calls, locals, verdict, printed>>
propertyVars == <<properties, parameters, mem, status, errorline, did, left>>

FormulaIdle  == /\ formula = <<>> /\ node = <<>> /\ calls = <<>> /\ locals = {}
                /\ verdict = "parsing" /\ printed = <<>>
LexerIdle    == /\ text = <<>> /\ opts = Plainly /\ stream = [at |-> 1, fail |-> FALSE, eof |-> FALSE]
                /\ line = 1 /\ prev = "NONE" /\ token = NoToken /\ saved = NoToken /\ back = FALSE
                /\ out = <<>> /\ putbacks = 0 /\ reading = "reading"
PropertyIdle == /\ properties = <<>> /\ parameters = <<>> /\ mem = <<>> /\ status = "ok"
                /\ errorline = 0 /\ did = "nothing" /\ left = 0
CmdlIdle     == /\ program = <<>> /\ d = Nothing /\ words = <<>> /\ at = 1 /\ ended = FALSE /\ supervised = FALSE
                /\ pending = "none" /\ key = "" /\ counter = 0 /\ expected = <<>> /\ got = NotGiven
                /\ parseerror = FALSE /\ outcome = "declaring"

MCInit == /\ part \in {"calculator", "formula", "lexer", "properties", "cmdl"}
          /\ Init /\ (part # "calculator" => precision = Exact)
          /\ IF part = "formula" THEN Form!Init ELSE FormulaIdle
          /\ IF part = "lexer" THEN ReaderInit ELSE LexerIdle
          /\ IF part = "properties" THEN Prop!Init ELSE PropertyIdle
          /\ IF part = "cmdl" THEN CmdlInit ELSE CmdlIdle

(* The program need not call the lexer, the properties or the parser of the *)
(* command line again; a formula and a session always go on to their end.   *)
MCNext ==
  /\ UNCHANGED part
  /\ \/ part = "calculator" /\ Next /\ UNCHANGED <<formulaVars, readerVars, propertyVars, cmdlVars>>
     \/ part = "formula" /\ Form!Next /\ UNCHANGED <<cvars, readerVars, propertyVars, cmdlVars>>
     \/ part = "lexer" /\ ReaderNext /\ UNCHANGED <<cvars, formulaVars, propertyVars, cmdlVars>>
     \/ part = "properties" /\ Prop!Next /\ UNCHANGED <<cvars, formulaVars, readerVars, cmdlVars>>
     \/ part = "cmdl" /\ CmdlNext /\ UNCHANGED <<cvars, formulaVars, readerVars, propertyVars>>
     \/ /\ part \in {"lexer", "properties", "cmdl"}
        /\ UNCHANGED <<cvars, formulaVars, readerVars, propertyVars, cmdlVars>>

MCSpec == MCInit /\ [][MCNext]_<<part, cvars, formulaVars, readerVars, propertyVars, cmdlVars>>

(* What was saved is restored: the lists in their order (Calculator), and  *)
(* every formula as the tree that it was (Formula), but for lists as said  *)
(* there.                                                                  *)
SavedIsRestored == ListsAreRestored /\ Form!PrintedReadsAgain

(* See Formula, Lexer and PropertyReader.                                  *)
ReadsAsMeant   == Form!ReadsAsMeant
EndsInOrder    == Form!EndsInOrder
TokensAreRight == Lex!TokensAreRight
LinesAreRight  == Lex!LinesAreRight
ReadsTheFile   == Prop!ReadsTheFile
SavesWhatItHas == Prop!SavesWhatItHas
ReadsEveryFile == Prop!ReadsEveryFile
================================================================================
