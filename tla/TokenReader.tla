----------------------------- MODULE TokenReader -----------------------------
(***************************************************************************)
(* The calls of parse::LexScanner (fztooltempl/lex.cpp): nextToken() or    *)
(* nextLine(), and one token of putback().  What the scanner makes of the  *)
(* text is a parameter here, which Scanner.tla defines: the object as it   *)
(* is after the call, [s, line, prev, token, done], where done says        *)
(* whether the call was left by an exception ("thrown") or never           *)
(* ("hangs").                                                              *)
(***************************************************************************)
EXTENDS Integers, Sequences, SequencesExt

CONSTANTS Texts,        \* the texts that are read
          Options,      \* how the scanner is set up
          MaxPutbacks,  \* bound: calls of putback()
          AfterCall(_, _, _, _, _)  \* the object after a call, from the text, the options,
                                    \* the stream, the line and the type of the token before

VARIABLES text, opts,
          stream,       \* the istream: position, failbit and eofbit
          line, prev,   \* line_number and previous_token_type
          token, saved, back,
          out,          \* history: the tokens as they were given first
          putbacks,
          reading       \* "reading", "done" (EOF was given), "failed" (an exception, or no return)

readerVars == <<text, opts, stream, line, prev, token, saved, back, out, putbacks, reading>>

-----------------------------------------------------------------------------
NoToken == [type |-> "NONE", sval |-> <<>>, line |-> 0]

ReaderInit ==
  /\ text \in Texts /\ opts \in Options
  /\ stream = [at |-> 1, fail |-> FALSE, eof |-> FALSE]
  /\ line = 1 /\ prev = "NONE"
  /\ token = NoToken /\ saved = NoToken /\ back = FALSE
  /\ out = <<>> /\ putbacks = 0 /\ reading = "reading"

(* The token that was put back is given again. *)
Again ==
  /\ back /\ back' = FALSE
  /\ token' = saved /\ saved' = token
  /\ UNCHANGED <<text, opts, stream, line, prev, out, putbacks, reading>>

(* What the call leaves in the object. *)
Left(l) ==
  /\ stream' = l.s /\ line' = l.line /\ prev' = l.prev
  /\ saved' = token /\ token' = l.token
  /\ out' = Append(out, IF l.done = "thrown" THEN [l.token EXCEPT !.type = "exception"] ELSE l.token)
  /\ reading' = CASE l.done \in {"thrown", "hangs"} -> "failed"
                  [] l.done \notin {"thrown", "hangs"} /\ l.token.type = "EOF" -> "done"
                  [] OTHER -> "reading"

(* nextToken(), or nextLine().  Nobody reads on when the text is at its    *)
(* end, nor for ever.                                                      *)
Next1 ==
  /\ ~back /\ reading = "reading" /\ Len(out) < Len(text) + 2
  /\ Left(AfterCall(text, opts, stream, line, prev))
  /\ UNCHANGED <<text, opts, back, putbacks>>

(* A bug for comparison: the token stays where it is. *)
PutBack_Stays ==
  /\ out # <<>> /\ reading # "failed" /\ ~back /\ putbacks < MaxPutbacks
  /\ back' = TRUE /\ saved' = token /\ UNCHANGED token
  /\ putbacks' = putbacks + 1
  /\ UNCHANGED <<text, opts, stream, line, prev, out, reading>>

(* putback(); a second one does nothing. *)
PutBack ==
  /\ out # <<>> /\ reading # "failed" /\ ~back /\ putbacks < MaxPutbacks
  /\ back' = TRUE /\ token' = saved /\ saved' = token
  /\ putbacks' = putbacks + 1
  /\ UNCHANGED <<text, opts, stream, line, prev, out, reading>>

ReaderNext == Again \/ Next1 \/ PutBack

ReaderSpec == ReaderInit /\ [][ReaderNext]_readerVars

-----------------------------------------------------------------------------
(* Properties                                                              *)

(* The user always sees the token that was read last, or after putback()   *)
(* the one before it, and gets it again.                                   *)
TokenIsCurrent == out # <<>> =>
  /\ reading = "failed" \/ (IF back THEN saved ELSE token) = Last(out)
  /\ back => token = (IF Len(out) = 1 THEN NoToken ELSE out[Len(out) - 1])
==============================================================================
