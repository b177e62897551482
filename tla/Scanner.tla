-------------------------------- MODULE Scanner --------------------------------
(***************************************************************************)
(* parse::LexScanner and LexScreener (fztooltempl/lex.cpp): one call of    *)
(* nextToken() or nextLine(), from a given state of the object.  Lower     *)
(* case mode and the tables of character classes other than the common     *)
(* syntax are left out.                                                    *)
(***************************************************************************)
EXTENDS LexTokens

CONSTANTS text, opts,   \* the text, and how the scanner is set up
          stream,       \* the istream: position, failbit and eofbit
          line, prev    \* line_number and previous_token_type

-----------------------------------------------------------------------------
(* The stream.  A putback on a failed stream does nothing, but with a      *)
(* library of today it takes the eofbit away.                              *)
Get(s) == IF s.fail THEN s
          ELSE IF s.at > Len(text) THEN [s EXCEPT !.fail = TRUE, !.eof = TRUE] ELSE [s EXCEPT !.at = @ + 1]
Char(s, old) == IF s.fail THEN old ELSE text[s.at - 1]
Unget(s) == IF s.fail THEN [s EXCEPT !.eof = @ /\ ~opts.modern] ELSE [s EXCEPT !.at = @ - 1]

(* skipIfMatchingWord(): the rest of the word behind its first character.  *)
(* What was read before the end of the text cannot be put back.            *)
Match(s, c, word) ==
  LET rest == SubSeq(text, s.at, s.at + Len(word) - 2)
      has  == Len(text) - s.at + 1
  IN  CASE word[1] # c -> [s |-> s, match |-> FALSE]
        [] s.fail -> [s |-> s, match |-> FALSE]
        [] has >= Len(word) - 1 /\ rest = Tail(word) -> [s |-> [s EXCEPT !.at = @ + Len(word) - 1], match |-> TRUE]
        [] has < Len(word) - 1 /\ SubSeq(text, s.at, Len(text)) = SubSeq(word, 2, has + 1) ->
             [s |-> [s EXCEPT !.at = Len(text) + 1, !.fail = TRUE, !.eof = TRUE], match |-> FALSE]
        [] OTHER -> [s |-> s, match |-> FALSE]

(* A bug for comparison: the character behind a CR is always put back.     *)
Return_PutsBack(s, c) ==
  LET next == Get(s)
  IN  CASE c = "LF" -> [s |-> s, lines |-> 1]
        [] c = "CR" -> [s |-> IF next.eof THEN next ELSE Unget(next), lines |-> 1]
        [] OTHER    -> [s |-> s, lines |-> 0]

(* skipIfReturn(): CR LF is one return. *)
Return(s, c) ==
  LET next == Get(s)
  IN  CASE c = "LF" -> [s |-> s, lines |-> 1]
        [] c = "CR" -> [s |-> IF next.eof \/ Char(next, c) = "LF" THEN next ELSE Unget(next), lines |-> 1]
        [] OTHER    -> [s |-> s, lines |-> 0]

-----------------------------------------------------------------------------
(* LexScreener::screen(), a turn of its loop at a time.                    *)
ScreenTurn(r) ==
  LET s1   == Get(r.s)
      c    == Char(s1, "uninitialised")
      lc   == Match(s1, c, LineComment)
      bc   == Match(lc.s, c, BlockStart)
      stop == Match(s1, c, BlockStop)
      open == Match(stop.s, c, BlockStart)
      on(s) == [r EXCEPT !.s = s, !.first = FALSE]
      ret(s) == LET x == Return(s, c) IN [on(x.s) EXCEPT !.lines = @ + x.lines]
      closed == IF r.nesting > 1 THEN [on(stop.s) EXCEPT !.nesting = @ - 1]
                ELSE [on(stop.s) EXCEPT !.nesting = 0, !.mode = "text", !.end = ~r.white]
  IN  CASE s1.eof -> [r EXCEPT !.s = s1, !.end = TRUE]
        [] ~s1.eof /\ r.mode = "text" /\ c \in Whitespace ->
             [on(s1) EXCEPT !.skipped = TRUE, !.white = @ \/ r.first, !.whites = Append(@, c)]
        [] ~s1.eof /\ r.mode = "text" /\ c \notin Whitespace ->
             CASE lc.match -> [on(lc.s) EXCEPT !.skipped = TRUE, !.mode = "line"]
               [] ~lc.match /\ bc.match -> [on(bc.s) EXCEPT !.skipped = TRUE, !.mode = "block",
                                                          !.nesting = IF opts.nested THEN @ + 1 ELSE @]
               [] OTHER -> [on(Unget(bc.s)) EXCEPT !.end = TRUE]
        [] ~s1.eof /\ r.mode = "block" ->
             CASE stop.match -> closed
               [] ~stop.match /\ opts.nested /\ open.match -> [on(open.s) EXCEPT !.nesting = @ + 1]
               [] OTHER -> ret(IF opts.nested THEN open.s ELSE stop.s)
        [] ~s1.eof /\ r.mode = "line" ->
             IF c \in Eols THEN [on(Unget(s1)) EXCEPT !.end = TRUE] ELSE on(s1)

RECURSIVE ScreenLoop(_)
ScreenLoop(r) == IF r.end THEN r ELSE ScreenLoop(ScreenTurn(r))

Screen(s) == ScreenLoop([s |-> s, first |-> TRUE, white |-> FALSE, mode |-> "text", nesting |-> 0,
                         skipped |-> FALSE, lines |-> 0, whites |-> <<>>, end |-> FALSE])

-----------------------------------------------------------------------------
(* nextToken(): l holds its local variables and what it changes; done says *)
(* whether the loop goes on, was left, or the call returned.               *)

Give(l) == [l EXCEPT !.done = "return", !.prev = l.token.type]
Is(l, type) == [l EXCEPT !.token.type = type]
With(l, c)  == [l EXCEPT !.token.sval = Append(@, c)]
AtLine(l)   == [l EXCEPT !.token.line = l.line]

(* A comment may begin here: if none does, the character is an ordinary    *)
(* one when it is read again.                                              *)
Screened(l) == LET r == Screen(Unget(l.s))
               IN  [l EXCEPT !.s = r.s, !.esc = ~r.skipped, !.line = @ + r.lines, !.whites = r.whites]

Returned(l, c) == LET x == Return(l.s, c) IN [l EXCEPT !.s = x.s, !.line = @ + x.lines]

(* Behind blanks: they are a token unless the line or the text ends.  On a *)
(* stream that failed without an end of file there is no way out.          *)
BehindWhite(l, r) ==
  LET s == Get(r.s)
      w == [r EXCEPT !.s = Unget(s), !.token.sval = IF opts.uncollapsed THEN r.whites ELSE <<>>]
  IN  CASE l.s.fail -> [l EXCEPT !.done = "hangs"]
        [] ~l.s.fail /\ ~opts.white -> AtLine(r)
        [] opts.white /\ s.eof -> AtLine([r EXCEPT !.s = s])
        [] opts.white /\ ~s.eof /\ Char(s, "") \in Eols -> AtLine([r EXCEPT !.s = Unget(s)])
        [] OTHER -> Give(Is(w, "WHITE"))

White(l) == BehindWhite(l, Screened(l))

(* Behind the text, next is uninitialised. *)
Signed(l, c) ==
  LET s == Get(l.s)
      r == [l EXCEPT !.s = Unget(s)]
  IN  IF (IF s.fail THEN opts.digit ELSE Char(s, "") \in NumberConstituent) THEN [Is(r, "NUMBER") EXCEPT !.number = <<c>>]
      ELSE Give(Is(r, c))

EndOfLine(l, c) ==
  LET r == Returned(l, c)
  IN  CASE l.treat                         -> r
        [] ~l.treat /\ opts.eol /\ l.prev # "EOL" -> Give(Is(r, "EOL"))
        [] OTHER                           -> AtLine(r)

TurnNone(l, c) ==
  CASE IntroducesComment(c) /\ ~l.treat -> AtLine(Screened(l))
    [] c \in Whitespace        -> White(l)
    [] c \in IntroducingWord   -> Is(With(l, c), "WORD")
    [] c \in NumberConstituent -> [Is(l, "NUMBER") EXCEPT !.number = <<c>>]
    [] c \in Signs /\ opts.signed -> Signed(l, c)
    [] c = Quote -> LET q == [Is(l, "WORD") EXCEPT !.quote = TRUE] IN IF opts.raw THEN With(q, c) ELSE q
    [] c \in Eols -> EndOfLine(l, c)
    [] OTHER -> Give(AtLine(Is(l, c)))

TurnQuoted(l, c) ==
  CASE c = Quote /\ ~l.treat   -> LET q == AtLine([l EXCEPT !.quote = FALSE]) IN IF opts.raw THEN With(q, c) ELSE q
    [] c \in Eols /\ ~l.treat  -> [l EXCEPT !.s = Unget(@), !.done = "left"]
    [] c \in Eols /\ l.treat   -> Returned(l, c)
    [] OTHER                   -> With(l, c)

(* A bug for comparison: the character that ends the word is gone. *)
TurnWord_Eats(l, c) ==
  CASE c \in IntroducingWord \cup WordConstituent -> With(l, c)
    [] IntroducesComment(c) /\ ~l.treat -> AtLine(Screened(l))
    [] c \in Eols /\ l.treat            -> Returned(l, c)
    [] OTHER                            -> Give(l)

TurnWord(l, c) ==
  CASE c \in IntroducingWord \cup WordConstituent -> With(l, c)
    [] IntroducesComment(c) /\ ~l.treat -> AtLine(Screened(l))
    [] c \in Eols /\ l.treat            -> Returned(l, c)
    [] OTHER                            -> Give([l EXCEPT !.s = Unget(@)])

TurnNumber(l, c) ==
  CASE c \in NumberConstituent -> [l EXCEPT !.number = Append(@, c)]
    [] IntroducesComment(c) /\ ~l.treat -> AtLine(Screened(l))
    [] OTHER -> Give([l EXCEPT !.s = Unget(@), !.token.type = IF opts.real THEN "NUMBER" ELSE "NUMBERWORD",
                               !.token.sval = l.number])

Turn(l) ==
  LET s == Get(l.s)
      c == Char(s, l.c)
      n == [l EXCEPT !.s = s, !.c = c, !.esc = FALSE, !.treat = l.esc]
      r == CASE n.token.type = "NONE"             -> TurnNone(n, c)
             [] n.token.type = "WORD" /\ n.quote  -> TurnQuoted(n, c)
             [] n.token.type = "WORD" /\ ~n.quote -> TurnWord(n, c)
             [] n.token.type = "NUMBER"           -> TurnNumber(n, c)
  IN  CASE s.eof -> [l EXCEPT !.s = s, !.done = "left"]
        [] ~s.eof /\ c = Escape /\ ~n.treat ->
             [(IF n.token.type = "WORD" /\ opts.raw THEN With(n, c) ELSE n) EXCEPT !.esc = TRUE]
        [] OTHER -> r

RECURSIVE Loop(_)
Loop(l) == IF l.done = "no" THEN Loop(Turn(l)) ELSE l

(* A number at the end of the text is a word. *)
AtEof(l) ==
  CASE l.quote -> [l EXCEPT !.done = "thrown"]
    [] ~l.quote /\ l.token.type = "NUMBER" ->
         Give([l EXCEPT !.token.type = IF opts.real THEN "NUMBER" ELSE "WORD", !.token.sval = l.number])
    [] ~l.quote /\ l.token.type = "NONE" -> Give(Is(l, "EOF"))
    [] OTHER -> Give(l)

Fresh == [s |-> stream, c |-> "NUL", treat |-> FALSE, esc |-> FALSE, number |-> <<>>, quote |-> FALSE,
          whites |-> <<>>, line |-> line, prev |-> prev, done |-> "no",
          token |-> [type |-> "NONE", sval |-> <<>>, line |-> line]]

Ended(l) == IF l.done = "left" THEN AtEof(l) ELSE l
Scanned  == Ended(Loop(Fresh))

-----------------------------------------------------------------------------
(* nextLine()                                                              *)

LineBegins(l, c) ==
  CASE IntroducesComment(c) /\ ~l.treat -> Screened(l)
    [] c \in Whitespace -> Screened(l)
    [] c \in Eols -> AtLine(Returned(l, c))
    [] OTHER -> Is(With(l, c), "WORD")

LineGoesOn(l, c) ==
  CASE c = Escape /\ ~l.treat            -> [l EXCEPT !.esc = TRUE]
    [] IntroducesComment(c) /\ ~l.treat -> Screened(l)
    [] c \in Eols /\ ~l.treat           -> [l EXCEPT !.s = Unget(@), !.done = "left"]
    [] c \in Eols /\ l.treat            -> Returned(l, c)
    [] OTHER                            -> With(l, c)

(* A stream that failed without an end of file gives the same character    *)
(* for ever.                                                               *)
LineTurn(l) ==
  LET s == Get(l.s)
      c == Char(s, l.c)
      n == [l EXCEPT !.s = s, !.c = c, !.esc = FALSE, !.treat = l.esc]
  IN  CASE s.eof -> [l EXCEPT !.s = s, !.done = "left"]
        [] s.fail /\ ~s.eof -> [n EXCEPT !.done = "hangs"]
        [] ~s.fail /\ n.token.type = "NONE" -> LineBegins(n, c)
        [] OTHER -> LineGoesOn(n, c)

RECURSIVE LineLoop(_)
LineLoop(l) == IF l.done = "no" THEN LineLoop(LineTurn(l)) ELSE l

LineEnded(l) == IF l.token.type = "NONE" THEN Is(l, "EOF") ELSE l
ScannedLine  == LineEnded(LineLoop(Fresh))

Reads == IF opts.lines THEN ScannedLine ELSE Scanned
================================================================================
