--------------------------------- MODULE Lexer ---------------------------------
(***************************************************************************)
(* The scanner behind the reader (fztooltempl/lex.cpp): what a call of     *)
(* TokenReader makes of its text is what Scanner says, and what the calls  *)
(* give are the tokens that LexTokens defines.                             *)
(***************************************************************************)
EXTENDS LexTokens

VARIABLES text, opts,   \* those of TokenReader
          out, reading

Scanning(t, o, s, l, p) == INSTANCE Scanner WITH text <- t, opts <- o, stream <- s, line <- l, prev <- p

Scan(t, o, s, l, p) == Scanning(t, o, s, l, p)!Reads

-----------------------------------------------------------------------------
(* Properties                                                              *)

(* What is left out of the properties.  A lone first character of a        *)
(* comment, or a sign, at the end of the text: the stream fails, and a     *)
(* library of today gives tokens for ever.                                 *)
EndsBadly == text # <<>> /\ (IntroducesComment(Last(text)) \/ (opts.signed /\ Last(text) \in Signs))

(* An escape outside of quotes whose effect is lost: its character is put  *)
(* back, or it begins a line; an escaped line break behind a number.       *)
BeginsLine(x, k) == \A j \in 1..(k - 1) : InWhite(x[j]) \/ \E i \in j..(k - 1) : Break(x[i])
EscapeIsLost ==
  LET x == Atoms(text, 1, 0, opts)
  IN  \E k \in DOMAIN x :
        /\ x[k].escaped /\ x[k].quote = 0
        /\ IF opts.lines THEN BeginsLine(x, k)
           ELSE \/ x[k].c \notin WordConstituent \cup {"", "LF"}
                \/ x[k].c = "LF" /\ \E j \in 1..(k - 1) : Plain(x[j], NumberConstituent)

(* Blanks at the beginning of a line, which nextLine() drops (lex.cpp:782) *)
(* although a line is documented as untruncated (lex.hpp:698).             *)
BeginsWithBlanks ==
  LET x == Atoms(text, 1, 0, opts)
  IN  opts.lines /\ \E k \in DOMAIN x : Plain(x[k], Whitespace) /\ BeginsLine(x, k)

Regular == ~EndsBadly /\ ~EscapeIsLost /\ ~BeginsWithBlanks

(* nextToken() and nextLine() give the tokens of the text, in order, with  *)
(* their words, whatever is put back meanwhile, and an exception for an    *)
(* open quote; they are not more than there are characters.  Left out are  *)
(* the texts whose tokens or lines are not those (Regular).                *)
Shape(seq) == [k \in DOMAIN seq |-> [type |-> seq[k].type, sval |-> IF seq[k].type = "exception" THEN <<>> ELSE seq[k].sval]]
TokensAreRight ==
  Regular => IF reading = "reading" THEN Len(out) <= Len(text) ELSE Shape(out) = Shape(Tokens(text, opts))

(* The line a token tells is one it stands on, with the comments and line  *)
(* breaks that are skipped before it and in it.                            *)
LinesAreRight ==
  Regular /\ reading = "done" =>
    LET right == Tokens(text, opts)
    IN  \A k \in DOMAIN out : out[k].type # "EOF" => out[k].line \in right[k].from..right[k].to
=============================================================================
