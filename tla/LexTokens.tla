------------------------------- MODULE LexTokens -------------------------------
(***************************************************************************)
(* What the tokens of a text are, stated without a reader: the text is cut *)
(* into atoms (characters, escaped characters, quoted ones, comments), and *)
(* a token is the longest run of atoms that belong together.               *)
(***************************************************************************)
EXTENDS Integers, Sequences, FiniteSets, SequencesExt

(* Character classes of the common syntax: one or two members stand for    *)
(* each.                                                                   *)
IntroducingWord == {"a", "b"}
NumberConstituent == {"1"}
WordConstituent == IntroducingWord \cup NumberConstituent
Whitespace == {" "}
Eols == {"LF", "CR"}
Signs == {"+"}
Quote == "quote"
Escape == "esc"
BlockStart == <<"/", "*">>
BlockStop  == <<"*", "/">>
LineComment == <<"/", "/">>

IntroducesComment(c) == c = BlockStart[1] \/ c = LineComment[1]

-----------------------------------------------------------------------------
At(t, i, word) == i + Len(word) - 1 <= Len(t) /\ SubSeq(t, i, i + Len(word) - 1) = word

(* Positions behind a piece of the text.                                   *)
BehindEol(t, i) == IF At(t, i, <<"CR", "LF">>) THEN i + 2 ELSE i + 1
LineEnd(t, i)   == CHOOSE j \in i..(Len(t) + 1) :
                     /\ j = Len(t) + 1 \/ t[j] \in Eols
                     /\ \A k \in i..(j - 1) : t[k] \notin Eols

RECURSIVE BlockEnd(_, _, _, _)
BlockEnd(t, i, depth, nested) ==
  CASE depth = 0 \/ i > Len(t) -> i
    [] depth > 0 /\ At(t, i, BlockStop) -> BlockEnd(t, i + 2, depth - 1, nested)
    [] nested /\ depth > 0 /\ At(t, i, BlockStart) -> BlockEnd(t, i + 2, depth + 1, nested)
    [] OTHER -> BlockEnd(t, i + 1, depth, nested)

(* Line breaks in a piece of the text.                                     *)
Breaks(t, i, j) == Cardinality({k \in i..j : t[k] = "CR" \/ (t[k] = "LF" /\ ~(k > 1 /\ t[k - 1] = "CR"))})
LineOf(t, i) == 1 + Breaks(t, 1, i - 1)

(* An atom of t from i to j - 1: its character ("" when it stands for      *)
(* none), whether it is escaped, the quote it is in (0: in none), and the  *)
(* lines where it begins and ends.                                         *)
Atom(t, i, j, c, escaped, quote) ==
  [c |-> IF c = "CR" THEN "LF" ELSE c, escaped |-> escaped, quote |-> quote,
   from |-> LineOf(t, i), to |-> LineOf(t, j)]

(* Quotes and comments count if quotes is TRUE (nextToken()), comments     *)
(* alone otherwise (nextLine()).                                           *)
RECURSIVE Atoms(_, _, _, _)
Atoms(t, i, quote, o) ==
  LET rest(j, q) == Atoms(t, j, q, o)
      one(j, c, escaped) == <<Atom(t, i, j, c, escaped, quote)>>
  IN  CASE i > Len(t) -> IF quote = 0 THEN <<>> ELSE one(i, "exception", FALSE)
        [] i = Len(t) /\ t[i] = Escape -> one(i + 1, "", TRUE) \o rest(i + 1, quote)
        [] i < Len(t) /\ t[i] = Escape ->
             LET j == IF t[i + 1] \in Eols THEN BehindEol(t, i + 1) ELSE i + 2
             IN  one(j, t[i + 1], TRUE) \o rest(j, quote)
        [] i <= Len(t) /\ t[i] = Quote /\ ~o.lines ->
             <<Atom(t, i, i + 1, Quote, FALSE, IF quote = 0 THEN i ELSE quote)>> \o rest(i + 1, IF quote = 0 THEN i ELSE 0)
        [] i <= Len(t) /\ t[i] \in Eols ->
             IF quote = 0 THEN one(BehindEol(t, i), "LF", FALSE) \o rest(BehindEol(t, i), 0)
             ELSE one(i, "exception", FALSE)
        [] quote = 0 /\ At(t, i, LineComment) -> one(LineEnd(t, i), "", FALSE) \o rest(LineEnd(t, i), 0)
        [] quote = 0 /\ At(t, i, BlockStart) ->
             LET j == BlockEnd(t, i + 2, 1, o.nested) IN one(j, "", FALSE) \o rest(j, 0)
        [] OTHER -> one(i + 1, t[i], FALSE) \o rest(i + 1, quote)

-----------------------------------------------------------------------------
Comment(x)    == x.c = "" /\ ~x.escaped
Nothing(x)    == x.c = "" \/ (x.c = "LF" /\ x.escaped)
Plain(x, set) == x.quote = 0 /\ x.c \in set
Break(x)      == Plain(x, {"LF"}) /\ ~x.escaped

(* The last atom of a run that begins behind i, i if there is none.        *)
Run(x, i, InRun(_)) ==
  LET first == {j \in (i + 1)..Len(x) : ~InRun(x[j])}
  IN  IF first = {} THEN Len(x) ELSE (CHOOSE j \in first : \A k \in first : j <= k) - 1

(* What an atom adds to a word: raw, quotes and escapes stay.              *)
Adds(x, first, o) ==
  (IF o.raw /\ x.escaped /\ ~first THEN <<Escape>> ELSE <<>>)
    \o (IF Nothing(x) \/ x.c = "LF" \/ (x.c = Quote /\ ~x.escaped /\ x.quote # 0 /\ ~o.raw) THEN <<>> ELSE <<x.c>>)

Word(x, i, j, o) == FlattenSeq([k \in 1..(j - i + 1) |-> Adds(x[i + k - 1], k = 1, o)])

(* Where the token that begins at atom i ends, and what it is.             *)
InWord(x)   == Nothing(x) \/ Plain(x, WordConstituent)
InNumber(x) == Nothing(x) \/ Plain(x, NumberConstituent)
InWhite(x)  == Comment(x) \/ Plain(x, Whitespace)

TokenAt(x, i, o) ==
  LET c == x[i]
      is(type, sval, j) == [type |-> type, sval |-> sval, last |-> j]
      number == Run(x, i, InNumber)
      white == Run(x, i, InWhite)
      quoted == Run(x, i, LAMBDA y : y.quote = c.quote)
      word == Run(x, IF c.quote = 0 THEN i ELSE quoted, InWord)
      broken == c.quote # 0 /\ x[quoted].c = "exception"
  IN  CASE broken -> is("exception", <<>>, Len(x))
        [] ~broken /\ (c.quote # 0 \/ c.c \in IntroducingWord) -> is("WORD", Word(x, i, word, o), word)
        [] c.quote = 0 /\ (c.c \in NumberConstituent
                             \/ (o.signed /\ c.c \in Signs /\ i < Len(x) /\ Plain(x[i + 1], NumberConstituent))) ->
             is(IF o.real THEN "NUMBER" ELSE IF number = Len(x) THEN "WORD" ELSE "NUMBERWORD", Word(x, i, number, [o EXCEPT !.raw = FALSE]), number)
        [] Plain(c, Whitespace) ->
             IF o.white /\ white < Len(x) /\ ~Break(x[white + 1])
             THEN is("WHITE", IF o.uncollapsed THEN Word(x, i, white, o) ELSE <<>>, white) ELSE is("", <<>>, white)
        [] Nothing(c) -> is("", <<>>, i)
        [] Break(c) -> is(IF o.eol THEN "EOL" ELSE "", <<>>, i)
        [] OTHER -> is(c.c, <<>>, i)

(* A line as lex.hpp:698 documents it: all that stands on it, untruncated, *)
(* but for comments; an escape joins it with the next.  A line on which    *)
(* nothing stands is none.                                                 *)
LineAt(x, i, o) ==
  LET end  == IF Break(x[i]) THEN i ELSE Run(x, i, LAMBDA y : ~Break(y))
      word == IF Break(x[i]) THEN <<>> ELSE Word(x, i, end, o)
  IN  [type |-> IF word = <<>> THEN "" ELSE "WORD", sval |-> word, last |-> end]

(* The tokens from atom i on, with the lines they stand on.  A second EOL  *)
(* in a row is none; lead is the line where skipped atoms before a token   *)
(* begin.                                                                  *)
RECURSIVE TokensFrom(_, _, _, _, _)
TokensFrom(x, i, lead, prev, o) ==
  IF i > Len(x)
  THEN <<[type |-> "EOF", sval |-> <<>>, from |-> lead, to |-> IF x = <<>> THEN 1 ELSE Last(x).to]>>
  ELSE LET tok  == IF o.lines THEN LineAt(x, i, o) ELSE TokenAt(x, i, o)
           none == tok.type = "" \/ (tok.type = "EOL" /\ prev = "EOL")
           this == <<[type |-> tok.type, sval |-> tok.sval, from |-> lead, to |-> x[tok.last].to]>>
       IN  CASE none -> TokensFrom(x, tok.last + 1, IF Break(x[i]) THEN x[i].to ELSE lead, prev, o)
             [] ~none /\ tok.type = "exception" -> this
             [] OTHER -> this \o TokensFrom(x, tok.last + 1, x[tok.last].to, tok.type, o)

Tokens(t, o) == TokensFrom(Atoms(t, 1, 0, o), 1, 1, "NONE", o)
=============================================================================
