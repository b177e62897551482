------------------------------- MODULE LLParser -------------------------------
(***************************************************************************)
(* llp::LLParser (fztooltempl/llparser.cpp): a prepared grammar reads the  *)
(* tokens of a Tokenizer, depth first or breadth first.  A step is one     *)
(* turn of the inner loop of parseDFS(), or of parseBFS().                 *)
(***************************************************************************)
EXTENDS Grammar

CONSTANTS Grammars,   \* the grammars that are tried, as they are written
          Inputs      \* the sequences of tokens that are read

VARIABLES written, input, method,
          grammar,    \* what prepare() left of the written grammar
          reader,     \* the tokenizer and the stack of tokens before it
          frames,     \* the running calls of parseDFS()
          queue,      \* parseBFS(): the productions, and End between rounds
          token, matched,   \* and its token of the round and token_match
          outcome

pvars == <<written, input, method, grammar, reader, frames, queue, token, matched, outcome>>

Eof  == [type |-> "EOF", name |-> ""]
None == [type |-> "NONE", name |-> ""]   \* between two rounds
End  == <<[kind |-> "end", name |-> ""]>>   \* the null pointer among the productions

-----------------------------------------------------------------------------
(* The reader.  sp points into the stack, past its end when it is at end(). *)

NewReader == [at |-> 0, back |-> FALSE, stack |-> <<>>, sp |-> 1, from |-> "NONE"]

AtEnd(r) == r.sp = Len(r.stack) + 1

(* The tokenizer gives its last token again when it was put back. *)
Scan(r) == [r EXCEPT !.back = FALSE, !.at = IF r.back \/ @ > Len(input) THEN @ ELSE @ + 1]
Scanned(r) == IF r.at <= Len(input) THEN input[r.at] ELSE Eof

Next1(r) ==
  IF AtEnd(r) THEN LET s == Scan(r) IN [token |-> Scanned(s), reader |-> [s EXCEPT !.from = "STREAM"]]
  ELSE [token |-> r.stack[r.sp], reader |-> [r EXCEPT !.sp = @ + 1, !.from = "STACK"]]

(* The token that was the last of the stack is put back in the tokenizer.  *)
Putback(r) == IF AtEnd(r) THEN [r EXCEPT !.back = TRUE] ELSE [r EXCEPT !.sp = @ - 1]

LookAhead(r) == LET n == Next1(r) IN [token |-> n.token, reader |-> Putback(n.reader)]

Push(r, t) == IF r.from # "STREAM" THEN r
              ELSE [r EXCEPT !.stack = Append(@, t), !.sp = IF AtEnd(r) THEN @ + 1 ELSE @]

(* restoreTerminals(); 0: the stack is exceeded. *)
Restored(r, n) == [r EXCEPT !.sp = IF n < @ THEN @ - n ELSE 0]

-----------------------------------------------------------------------------
(* clone(): the alternatives of n that the lookahead allows.               *)

Allows(i, n, la) ==
  CASE la.name = ""    -> TRUE
    [] la.type = "W"   -> \E t \in grammar.director[n][i] : t = la.name /\ grammar.type[t] = "W"
    [] la.type = "N"   -> \E t \in grammar.director[n][i] : grammar.type[t] = "N"

(* A bug for comparison: the first alternative that is allowed, always. *)
Clone_FirstOnly(n, la) ==
  LET allowed == SelectSeq([i \in DOMAIN grammar.rules[n] |-> i], LAMBDA i : Allows(i, n, la))
  IN  IF allowed = <<>> THEN <<>> ELSE <<grammar.rules[n][allowed[1]]>>

Clone(n, la) ==
  LET allowed == SelectSeq([i \in DOMAIN grammar.rules[n] |-> i], LAMBDA i : Allows(i, n, la))
      taken   == IF grammar.ll1 /\ la.name # "" /\ allowed # <<>> THEN <<allowed[1]>> ELSE allowed
  IN  [i \in DOMAIN taken |-> grammar.rules[n][taken[i]]]

StartAlts == <<<<Non(written.start)>>>>

(* parse() is called: the rule S'->S is cloned. *)
Init == /\ written \in Grammars
        /\ grammar = Prepare(Build(written))
        /\ input \in Inputs
        /\ method \in {"BFS", "DFS"}
        /\ outcome = IF grammar.end = "prepared" THEN "parsing" ELSE grammar.end
        /\ reader = NewReader
        /\ frames = IF method = "DFS" THEN <<[alts |-> StartAlts, shifted |-> 0, backtrack |-> FALSE]>> ELSE <<>>
        /\ queue = IF method = "BFS" THEN Append(StartAlts, End) ELSE <<>>
        /\ token = None /\ matched = FALSE

(* The end of parse(): after everything comes the end of the input. *)
Finish(r, result) ==
  /\ outcome' = IF LookAhead(r).token.type = "EOF" /\ result THEN "accepted" ELSE "rejected"
  /\ reader' = r

-----------------------------------------------------------------------------
(* parseDFS()                                                              *)

DFS == outcome = "parsing" /\ method = "DFS" /\ UNCHANGED <<written, input, method, grammar, queue, token, matched>>

Top == frames[Len(frames)]
Symbols1 == Head(Top.alts)

(* The alternative of frame f fails, with reader r. *)
GiveUp(callers, f, r) ==
  LET back == Restored(r, f.shifted)
  IN  IF back.sp = 0 THEN outcome' = "exception" /\ UNCHANGED <<reader, frames>>
      ELSE /\ reader' = back
           /\ frames' = Append(callers, [f EXCEPT !.shifted = 0, !.alts = Tail(@)])
           /\ UNCHANGED outcome

Return(f, result) ==
  LET callers == Front(frames)
      caller  == [callers[Len(callers)] EXCEPT !.shifted = @ + f.shifted]
  IN  CASE callers = <<>> -> Finish(reader, result) /\ frames' = <<>>
        [] callers # <<>> /\ result ->
             frames' = Append(Front(callers), caller) /\ UNCHANGED <<reader, outcome>>
        [] callers # <<>> /\ ~result -> GiveUp(Front(callers), caller, reader)

AlternativesExhausted == DFS /\ frames # <<>> /\ Top.alts = <<>> /\ Return(Top, FALSE)

ProductionDone == DFS /\ frames # <<>> /\ Top.alts # <<>> /\ Symbols1 = <<>> /\ Return(Top, TRUE)

Rest(f) == [f EXCEPT !.alts[1] = Tail(@)]

(* A word where a number is expected, a number where a word is, or the end *)
(* of a line: nothing is done about it, the token is gone.                 *)
TerminalDFS ==
  /\ DFS /\ frames # <<>> /\ Top.alts # <<>> /\ Symbols1 # <<>> /\ Head(Symbols1).kind = "T"
  /\ LET n    == Next1(reader)
         type == grammar.type[Head(Symbols1).name]
         fits == n.token.type = type /\ (type = "W" => n.token.name = Head(Symbols1).name)
     IN  IF n.token.type = "EOF" \/ (n.token.type = "W" /\ type = "W" /\ ~fits)
         THEN GiveUp(Front(frames), Top, Putback(n.reader))
         ELSE /\ UNCHANGED outcome
              /\ IF fits /\ Top.backtrack
                 THEN /\ reader' = Push(n.reader, n.token)
                      /\ frames' = Append(Front(frames), [Rest(Top) EXCEPT !.shifted = @ + 1])
                 ELSE reader' = n.reader /\ frames' = Append(Front(frames), Rest(Top))

NonterminalDFS ==
  /\ DFS /\ frames # <<>> /\ Top.alts # <<>> /\ Symbols1 # <<>> /\ Head(Symbols1).kind = "N"
  /\ LET la == LookAhead(reader)
     IN  /\ reader' = la.reader
         /\ frames' = Front(frames) \o
              <<Rest(Top), [alts |-> Clone(Head(Symbols1).name, la.token), shifted |-> 0, backtrack |-> TRUE]>>
  /\ UNCHANGED outcome

-----------------------------------------------------------------------------
(* parseBFS()                                                              *)

BFS == outcome = "parsing" /\ method = "BFS" /\ UNCHANGED <<written, input, method, grammar, frames>>

(* A bug for comparison: the token that is left is not looked at. *)
RoundBegins_Unchecked ==
  /\ BFS /\ token = None
  /\ LET n == Next1(reader)
     IN  IF Head(queue) = End
         THEN Finish(n.reader, TRUE) /\ UNCHANGED <<queue, token, matched>>
         ELSE reader' = n.reader /\ token' = n.token /\ matched' = FALSE /\ UNCHANGED <<queue, outcome>>

(* The next round takes the next token; when there is no production left,  *)
(* there should be none.                                                   *)
RoundBegins ==
  /\ BFS /\ token = None
  /\ LET n == Next1(reader)
     IN  IF Head(queue) = End
         THEN Finish(n.reader, n.token.type = "EOF") /\ UNCHANGED <<queue, token, matched>>
         ELSE reader' = n.reader /\ token' = n.token /\ matched' = FALSE /\ UNCHANGED <<queue, outcome>>

RoundEnds ==
  /\ BFS /\ token # None /\ Head(queue) = End
  /\ IF matched
     THEN /\ queue' = Append(Tail(queue), End) /\ token' = None
          /\ UNCHANGED <<reader, matched, outcome>>
     ELSE Finish(reader, FALSE) /\ UNCHANGED <<queue, token, matched>>

Taken == BFS /\ token # None /\ Head(queue) # End

Drop == queue' = Tail(queue) /\ UNCHANGED <<reader, token, matched, outcome>>

(* At the end of the input: a production that is used up is the result, a  *)
(* nonterminal that may be empty is left out.                              *)
AtInputsEnd ==
  /\ Taken /\ token.type = "EOF"
  /\ CASE Head(queue) = <<>> -> Finish(reader, TRUE) /\ UNCHANGED <<queue, token, matched>>
       [] Head(queue) # <<>> /\ Head(Head(queue)).kind = "N" /\ Head(Head(queue)).name \in grammar.nullable ->
            /\ queue' = <<Tail(Head(queue))>> \o Tail(queue)
            /\ matched' = TRUE
            /\ UNCHANGED <<reader, token, outcome>>
       [] OTHER -> Drop

(* The alternatives of a nonterminal, each before the rest, last one first. *)
Unfolded(symbols) ==
  LET alts == Clone(Head(symbols).name, token)
  IN  Reverse([i \in DOMAIN alts |-> alts[i] \o Tail(symbols)])

UseToken ==
  /\ Taken /\ token.type # "EOF"
  /\ CASE Head(queue) = <<>> -> Drop
       [] Head(queue) # <<>> /\ Head(Head(queue)).kind = "T" ->
            LET s == Head(Head(queue))
            IN  IF /\ grammar.type[s.name] = IF token.type = "N" THEN "N" ELSE "W"
                   /\ token.type = "N" \/ token.name = s.name
                THEN /\ queue' = Append(Tail(queue), Tail(Head(queue)))
                     /\ matched' = TRUE
                     /\ UNCHANGED <<reader, token, outcome>>
                ELSE Drop
       [] OTHER -> /\ queue' = Unfolded(Head(queue)) \o Tail(queue)
                   /\ matched' = TRUE
                   /\ UNCHANGED <<reader, token, outcome>>

-----------------------------------------------------------------------------
Next == \/ AlternativesExhausted \/ ProductionDone \/ TerminalDFS \/ NonterminalDFS
        \/ RoundBegins \/ RoundEnds \/ AtInputsEnd \/ UseToken

Spec == Init /\ [][Next]_pvars /\ WF_pvars(Next)

-----------------------------------------------------------------------------
(* A name is declared with one type only, and the start before its rule.   *)
WellWritten ==
  /\ ~written.startLast
  /\ \A s, t \in Terminals(written) : s.name = t.name => s = t
  /\ Nonterminals(written) \subseteq Names(written)

(* llparser.hpp:136-166: prepare() finds a left recursion exactly when     *)
(* there is one, the terminals each rule can begin with, and at least      *)
(* those that can follow it; except that it crashes, in the follow sets,   *)
(* when rules end in each other.                                           *)
SetsAreRight ==
  input = <<>> /\ outcome \notin {"idle", "parsing"} /\ WellWritten =>
    /\ (grammar.end = "refused") <=> LeftRecursive(written)
    /\ grammar.end = "prepared" =>
         /\ grammar.nullable = MayVanish(written)
         /\ \A n \in Names(written) : /\ grammar.first[n] = First(written, n)
                                      /\ Follow(written, n) \subseteq grammar.follow[n]

(* Breadth first, whatever the written grammar derives is accepted; depth  *)
(* first, when one token of lookahead is enough to choose.                 *)
AcceptsLanguage ==
  /\ outcome = "rejected" /\ WellWritten /\ (method = "BFS" \/ grammar.ll1)
  => ~InLanguage(written, input)

(* Breadth first, only the last token may be wrong, or missing behind it;  *)
(* depth first, with a grammar of words that is LL1, nothing may.          *)
AcceptsLittleElse ==
  outcome = "accepted" /\ WellWritten =>
    \/ InLanguage(written, input)
    \/ method = "BFS" /\ input # <<>> /\ Left(written, Front(input)) # {}
    \/ method = "DFS" /\ (~grammar.ll1 \/ \E t \in Range(grammar.type) : t = "N"
                           \/ \E i \in DOMAIN input : input[i].type # "W")

(* llparser.hpp:473 "true if word is accepted, false otherwise". *)
AcceptsOnlyLanguage == outcome = "accepted" /\ WellWritten => InLanguage(written, input)

(* The parser comes to an end. *)
ParserEnds == <>(outcome # "parsing")
=============================================================================
