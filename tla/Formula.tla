-------------------------------- MODULE Formula --------------------------------
(***************************************************************************)
(* mexp::MathExpression (fztooltempl/mathexpression.cpp): parse() builds   *)
(* the tree of a formula from left to right, hanging each new node into    *)
(* the right edge of what it has; the constructor then checks the tree.    *)
(* A step is one turn of parse()'s loop.  A formula is a sequence of       *)
(* tokens; blanks between them, and positions in messages, are left out.   *)
(* What is read can be printed, as a save does it, and read once more.     *)
(***************************************************************************)
EXTENDS Notation

VARIABLES formula,
          node,     \* the heap: a sequence of nodes, 0 is the null pointer
          calls,    \* the running calls of parse(), the last one innermost
          locals,   \* names that are variables in this formula
          outcome,  \* "parsing", "parsed", "error" or "crash"
          printed   \* the trees that have been printed: at most one

vars == <<formula, node, calls, locals, outcome, printed>>

(* A node as the constructor leaves it. *)
Node(kind, text, type) == [kind |-> kind, text |-> text, type |-> type, left |-> 0,
                           mid |-> <<>>, right |-> 0, pred |-> 0]

(* parse() of s begins; goal is what its caller does with the result.  act *)
(* is what the pointer actn still holds, list the "," that is being filled. *)
Call(s, goal) == [s |-> s, at |-> 1, top |-> 0, prev |-> 0, act |-> 0, list |-> 0,
                  goal |-> goal]

Init == /\ formula \in Formulas
        /\ node = <<>>
        /\ calls = <<Call(formula, "formula")>>
        /\ locals = {}
        /\ outcome = "parsing"
        /\ printed = <<>>

-----------------------------------------------------------------------------
(* Priorities and the right edge of the tree.                              *)

(* A bug for comparison: the product as low as the sum. *)
PriProdAsSum(text) == CASE text = ";" -> 1 [] text = "=" -> 2 [] text = "," -> 5
                        [] text \in {"+", "-", "Sum", "Prod"} -> 10
                        [] text \in {"*", "/", "%"} -> 15
                        [] text = "^" -> 30 [] text = "@" -> 40 [] text = "!" -> 50
                        [] OTHER -> 20

Pri(text) == CASE text = ";"                        -> 1
               [] text = "="                        -> 2
               [] text = ","                        -> 5
               [] text \in {"+", "-", "Sum"}       -> 10
               [] text \in {"*", "/", "%", "Prod"}  -> 15
               [] text = "^"                        -> 30
               [] text = "@"                        -> 40
               [] text = "!"                        -> 50
               [] OTHER                             -> 20

IsOp(h, n) == n # 0 /\ h[n].kind = "op"

IsFunction(text) == text \in Builtins \cup Known

Hang(h, parent, child) == [h EXCEPT ![parent].right = child, ![child].pred = parent]

(* Where the loop of searchAndSetLowerPriNode() stops, going up from n; in *)
(* a circle of predecessors it does not.                                   *)
RECURSIVE Climb(_, _, _, _)
Climb(h, text, n, turns) ==
  CASE h[n].pred = 0 \/ Pri(text) > Pri(h[n].text) -> n
    [] turns > Len(h)                              -> 0
    [] OTHER                                       -> Climb(h, text, h[n].pred, turns + 1)

(* searchAndSetLowerPriNode(): the new node a takes the place of what has  *)
(* a higher or the same priority, as its left operand.  The pointer to the *)
(* predecessor of that operand keeps its value, when it is not on top.     *)
Lower(h, c, a) ==
  LET start == h[c.prev].pred
      n     == IF start = 0 THEN c.prev ELSE Climb(h, h[a].text, start, 1)
  IN  CASE n = 0 -> [heap |-> h, call |-> [c EXCEPT !.at = 0]]
        [] n # 0 /\ (start = 0 \/ Pri(h[a].text) <= Pri(h[n].text)) ->
             [heap |-> [h EXCEPT ![a].left = n, ![n].pred = a], call |-> [c EXCEPT !.top = a]]
        [] OTHER ->
             [heap |-> [h EXCEPT ![a].left = h[n].right, ![a].pred = n, ![n].right = a],
              call |-> c]

(* A sign without a left operand becomes a multiplication with 1 or -1.    *)
Sign(h, a) == h[a].text \in {"+", "-"} /\ h[a].left = 0

Signed(h, a) ==
  LET times == Len(h) + 1
  IN  Append([h EXCEPT ![a].kind = "value", ![a].pred = times, ![a].type = "none",
                       ![a].text = IF @ = "-" THEN "-1" ELSE "1"],
             [Node("op", "*", "operation") EXCEPT !.left = a])

(* The end of parse()'s loop: node a is put into the tree, and the next    *)
(* turn starts behind the first n tokens.                                  *)
Insert(h, c, a, at) ==
  LET sign == Sign(h, a) /\ (c.prev = 0 \/ (IsOp(h, c.prev) /\ h[c.prev].right = 0))
      s    == IF sign THEN Signed(h, a) ELSE h
      b    == IF sign THEN Len(s) ELSE a
      low  == Lower(h, c, a)
      hang == /\ c.prev # 0
              /\ \/ sign
                 \/ ~IsOp(h, a)
                 \/ IsOp(h, c.prev) /\ h[c.prev].right = 0
  IN  CASE c.prev = 0 -> [heap |-> s, call |-> [c EXCEPT !.prev = b, !.top = b, !.at = at]]
        [] hang       -> [heap |-> Hang(s, c.prev, b), call |-> [c EXCEPT !.prev = b, !.at = at]]
        [] OTHER      -> [heap |-> low.heap,
                          call |-> [low.call EXCEPT !.prev = a, !.at = IF @ = 0 THEN 0 ELSE at]]

-----------------------------------------------------------------------------
Current == Last(calls)
At      == IF Current.at <= Len(Current.s) THEN Current.s[Current.at] ELSE "end"
Prev    == Current.prev

(* PrevNode is an operator that waits for its right operand.               *)
Open == IsOp(node, Prev) /\ node[Prev].right = 0

Replace(c) == [calls EXCEPT ![Len(calls)] = c]

Become(h, c) == /\ node' = h
                /\ calls' = Replace(c)
                /\ UNCHANGED <<formula, locals, outcome>>

Fail(how) == outcome' = how /\ UNCHANGED <<formula, node, calls, locals>>

(* What has been inserted is there, if the search for its place ended. *)
Turned(r) == IF r.call.at = 0 THEN Fail("endless") ELSE Become(r.heap, r.call)

Add(n) == Turned(Insert(Append(node, n), Current, Len(node) + 1, Current.at + 1))

Operands(h, n) == {h[n].left, h[n].right} \ {0}
Children(h, n) == Operands(h, n) \cup Range(h[n].mid)

(* What is reached from the nodes of S. *)
RECURSIVE Below(_, _)
Below(h, S) == LET more == S \cup UNION {Children(h, n) : n \in S}
               IN  IF more = S THEN S ELSE Below(h, more)

Circular(h, n) == \E m \in Below(h, {n}) : m \in Below(h, Children(h, m))

(* The names that addVariablesToList() finds below n: it passes over the   *)
(* middle elements of a list.                                              *)
RECURSIVE NamesIn(_, _)
NamesIn(h, n) == (IF h[n].kind = "variable" THEN {h[n].text} ELSE {})
                   \cup UNION {NamesIn(h, m) : m \in Operands(h, n)}

(* The matching bracket, or 0: copyBracketContent() looks at one kind of   *)
(* brackets only.                                                          *)
Depth(s, from, to, open, close) ==
  Cardinality({i \in from..to : s[i] = open}) - Cardinality({i \in from..to : s[i] = close})

Matching(s, from, open, close) ==
  LET ends == {i \in from..Len(s) : Depth(s, from, i, open, close) = 0}
  IN  IF ends = {} THEN 0 ELSE CHOOSE i \in ends : \A j \in ends : i <= j

(* parse() calls itself for what is in brackets.                           *)
Nested(c, from, goal) ==
  LET open  == c.s[from]
      close == IF open = "[" THEN "]" ELSE ")"
      end   == Matching(c.s, from, open, close)
  IN  IF end = 0 THEN <<>>
      ELSE <<[c EXCEPT !.at = end + 1], Call(SubSeq(c.s, from + 1, end - 1), goal)>>

Descend(c, from, goal) ==
  LET deeper == Nested(c, from, goal)
  IN  IF deeper = <<>> THEN Fail("error")
      ELSE /\ calls' = Front(calls) \o deeper
           /\ UNCHANGED <<formula, node, locals, outcome>>

-----------------------------------------------------------------------------
(* The turns of the loop.                                                  *)

Blank == At = " " /\ Become(node, [Current EXCEPT !.at = @ + 1])

(* A bug for comparison: a closing bracket too many is skipped. *)
CloseBracketSkipped == At = ")" /\ Become(node, [Current EXCEPT !.at = @ + 1])

CloseBracket == At = ")" /\ Fail("error")

(* A name that is no variable and is followed by a bracket is a function.  *)
NameIsFunction ==
  /\ At = "(" /\ Prev # 0
  /\ node[Prev].kind = "variable"
  /\ node[Prev].text \notin Declared \cup locals
  /\ Become([node EXCEPT ![Prev].kind = "op", ![Prev].type = "function"], Current)

(* A bracket, a number or a name behind a complete operand: a "*" is put   *)
(* in, and the token is looked at again.                                   *)
ImplicitTimes ==
  /\ At \in {"("} \cup Digits \cup Names
  /\ Prev # 0 /\ ~Open
  /\ At = "(" => node[Prev].kind # "variable" \/ node[Prev].text \in Declared \cup locals
  /\ Turned(Insert(Append(node, Node("op", "*", "operation")), Current, Len(node) + 1,
                   Current.at))

Bracket == /\ At = "(" /\ (Prev = 0 \/ Open)
           /\ Descend(Current, Current.at, "operand")

(* The limits of a sum or a product, the base of a logarithm. *)
Limits ==
  /\ At = "["
  /\ IF /\ IsOp(node, Prev)
        /\ node[Prev].text \in {"log", "Sum", "Prod"}
        /\ node[Prev].left = 0
     THEN Descend(Current, Current.at, "limits")
     ELSE Fail("error")

Number == /\ At \in Digits /\ (Prev = 0 \/ Open)
          /\ Add(Node("value", At, "none"))

Name == /\ At \in Names /\ (Prev = 0 \/ Open)
        /\ Add(IF IsFunction(At) THEN Node("op", At, "function") ELSE Node("variable", At, "none"))

(* sin^2(x): the "^" gets the function as its left operand, which goes on  *)
(* waiting for its argument, and the exponent is read at once.             *)
IsFunctionPower == At = "^" /\ Open /\ Pri(node[Prev].text) = 20

IsLeft(n) == node[n].pred # 0 /\ node[node[n].pred].left = n

RECURSIVE Leftmost(_, _)
Leftmost(h, n) == IF h[n].left = 0 THEN n ELSE Leftmost(h, h[n].left)

(* A second "^" is made a malformed tree, for the check to find. *)
SecondFunctionPower ==
  /\ IsFunctionPower /\ IsLeft(Prev)
  /\ LET end == Leftmost(node, Prev)
     IN  Become([Append(node, [Node("op", "^", "operation") EXCEPT !.pred = end])
                   EXCEPT ![end].left = Len(node) + 1],
                [Current EXCEPT !.at = @ + 1])

(* What can be the exponent of a function, without brackets. *)
ExponentsAreNumbers == Digits      \* a bug for comparison
Exponents == Digits \cup Names

(* Without an exponent it is what actn points to that becomes one. *)
FunctionPower ==
  /\ IsFunctionPower /\ ~IsLeft(Prev)
  /\ LET up   == node[Prev].pred
         a    == Len(node) + 1
         new  == Append(node, [Node("op", "^", "operation") EXCEPT !.left = Prev, !.pred = up])
         h    == [IF up = 0 THEN new ELSE Hang(new, up, a) EXCEPT ![Prev].pred = a]
         c    == [Current EXCEPT !.at = @ + 1, !.top = IF up = 0 THEN a ELSE @]
         next == IF c.at <= Len(c.s) THEN c.s[c.at] ELSE "end"
         exponent == Node(IF next \in Digits THEN "value" ELSE "variable", next, "none")
         deeper   == Nested(c, c.at, "exponent")
     IN  CASE next = "end" -> Become(h, c)
           [] next \in Exponents ->
                Become(Hang(Append(h, exponent), a, a + 1),
                       [c EXCEPT !.at = @ + 1, !.act = a])
           [] next = "(" ->
                IF deeper = <<>> THEN Fail("error")
                ELSE /\ node' = h
                     /\ calls' = Front(calls) \o deeper
                     /\ UNCHANGED <<formula, locals, outcome>>
           [] OTHER -> IF c.act = 0 THEN Fail("crash")
                       ELSE Become(Hang(h, a, c.act), [c EXCEPT !.act = a])

(* A bug for comparison: the node above still points to PrevNode. *)
FacultyBesides ==
  /\ At = "!" /\ Prev # 0
  /\ Become(Hang(Append(node, Node("op", "!", "operation")), Len(node) + 1, Prev),
            [Current EXCEPT !.at = @ + 1, !.act = Len(node) + 1,
                            !.top = IF node[Prev].pred = 0 THEN Len(node) + 1 ELSE @])

(* The "!" takes the place of PrevNode, which stays the one to go on with. *)
Faculty ==
  /\ At = "!" /\ Prev # 0
  /\ LET a    == Len(node) + 1
         up   == node[Prev].pred
         new  == Append(node, Node("op", "!", "operation"))
         hung == IF up = 0 THEN new ELSE Hang(new, up, a)
     IN  Become(Hang(hung, a, Prev),
                [Current EXCEPT !.at = @ + 1, !.act = a, !.top = IF up = 0 THEN a ELSE @])

(* What copyCommaContent() takes: up to the next comma or closing bracket  *)
(* outside of brackets.                                                    *)
ElementEnd(s, from) ==
  LET Nesting(i) == Cardinality({j \in from..i : s[j] \in {"(", "["}})
                      - Cardinality({j \in from..i : s[j] \in {")", "]"}})
      stops == {i \in from..Len(s) : Nesting(i - 1) = 0 /\ s[i] \in {",", ")", "]"}}
  IN  IF stops = {} THEN Len(s) ELSE (CHOOSE i \in stops : \A j \in stops : i <= j) - 1

(* The loop of parseCommaOperator(): c stands on a comma. *)
NextElement(h, callers, c) ==
  LET end == ElementEnd(c.s, c.at + 1)
  IN  IF end = c.at
      THEN Fail("error")
      ELSE /\ node' = h
           /\ calls' = callers \o <<[c EXCEPT !.at = end + 1],
                                    Call(SubSeq(c.s, c.at + 1, end), "element")>>
           /\ UNCHANGED <<formula, locals, outcome>>

(* The list gets all its elements before the loop goes on. *)
Comma ==
  /\ At = "," /\ Prev # 0
  /\ LET a   == Len(node) + 1
         low == Lower(Append(node, Node("op", ",", "parameter")), Current, a)
     IN  IF low.call.at = 0 THEN Fail("endless")
         ELSE NextElement(low.heap, Front(calls), [low.call EXCEPT !.list = a])

Operator ==
  /\ At \notin Digits \cup Names \cup {"(", ")", "[", " ", "end"}
  /\ ~IsFunctionPower
  /\ ~(At \in {"!", ","} /\ Prev # 0)
  /\ LET r == Insert(Append(node, Node("op", At, "operation")), Current,
                     Len(node) + 1, Current.at + 1)
     IN  IF r.call.at = 0 THEN Fail("endless")
         ELSE /\ node' = r.heap
              /\ calls' = Replace(r.call)
              /\ locals' = locals \cup (IF At = "=" /\ Prev # 0 THEN NamesIn(node, Prev) ELSE {})
              /\ UNCHANGED <<formula, outcome>>

-----------------------------------------------------------------------------
(* checkSyntaxAndOptimize(): the operators it looks below of, and what it  *)
(* asks of each.                                                           *)

Empty(h, n) == h[n].kind = "empty"

RECURSIVE Accepted(_, _)
Accepted(h, n) ==
  LET t == h[n]
      Filled == t.left # 0 /\ t.right # 0 /\ ~Empty(h, t.left) /\ ~Empty(h, t.right)
      Range1 == h[t.left]
  IN  CASE t.kind # "op" -> TRUE
        [] t.kind = "op" /\ t.text = "=" ->
             /\ Filled
             /\ \/ h[t.left].kind = "variable" /\ Operands(h, t.left) = {}
                \/ IsOp(h, t.left) /\ h[t.left].left = 0 /\ h[t.left].right # 0
             /\ Accepted(h, t.right)
        [] t.kind = "op" /\ t.text = "!" ->
             t.left = 0 /\ t.right # 0 /\ ~Empty(h, t.right)
        [] t.kind = "op" /\ t.text = "," -> \A c \in Children(h, n) : Accepted(h, c)
        [] t.kind = "op" /\ t.text \in {"Sum", "Prod"} ->
             /\ Filled
             /\ Range1.text = ";" /\ Range1.left # 0 /\ Range1.right # 0
             /\ ~Empty(h, Range1.left) /\ ~Empty(h, Range1.right)
             /\ h[Range1.left].text = "="
             /\ \A c \in {Range1.left, Range1.right, t.right} : Accepted(h, c)
        [] t.kind = "op" /\ t.text \in (Builtins \cup Known) \ {"log", "Sum", "Prod"} ->
             /\ t.left = 0 /\ t.right # 0
             /\ t.text \in Builtins => ~Empty(h, t.right)
             /\ Accepted(h, t.right)
        [] t.kind = "op" /\ t.text \in Names \ (Builtins \cup Known) -> TRUE
        [] OTHER -> Filled /\ Accepted(h, t.left) /\ Accepted(h, t.right)

(* The tree as it is then: +-1 times +-1 is made one number, where the     *)
(* check has been.                                                         *)
Product(s, t) == Leaf("value", IF s.text = t.text THEN "1" ELSE "-1")

Reduced(t) == IF t.text = "*" /\ Len(t.args) = 2 /\ IsUnit(t.args[1]) /\ IsUnit(t.args[2])
              THEN Product(t.args[1], t.args[2]) ELSE t

RECURSIVE Tree(_, _, _)
Tree(h, n, checked) ==
  LET t       == h[n]
      unknown == t.text \in Names \ (Builtins \cup Known)
      Sub(m, visited) == IF m = 0 THEN <<>> ELSE <<Tree(h, m, checked /\ visited)>>
      Mid     == [i \in 1..Len(t.mid) |-> Tree(h, t.mid[i], checked)]
      tree    == [kind |-> t.kind, text |-> t.text, type |-> t.type,
                  args |-> Sub(t.left, t.text # "=") \o Mid
                             \o Sub(t.right, t.text # "!" /\ ~unknown)]
  IN  IF t.kind # "op" THEN Leaf(t.kind, t.text)
      ELSE IF checked THEN Reduced(tree) ELSE tree

(* The constructor of the formula: without a tree it goes through the null *)
(* pointer, and in a circle the check does not end.                        *)
Verdict(h, top) == CASE top = 0                        -> "crash"
                     [] top # 0 /\ Circular(h, top)    -> "crash"
                     [] OTHER -> IF Accepted(h, top) THEN "parsed" ELSE "error"

-----------------------------------------------------------------------------
(* parse() returns to its caller.                                          *)

Caller == calls[Len(calls) - 1]

(* An empty bracket is an empty node; a list in brackets is a tuple, if it *)
(* is not the parameters of the function before it.                        *)
Delivered(parameters) ==
  IF Current.top = 0 THEN Append(node, Node("empty", "", "none"))
  ELSE IF node[Current.top].type = "parameter" /\ ~parameters
       THEN [node EXCEPT ![Current.top].type = "tuple"]
       ELSE node

Result == IF Current.top = 0 THEN Len(node) + 1 ELSE Current.top

Return(h, c) == /\ node' = h
                /\ calls' = Append(SubSeq(calls, 1, Len(calls) - 2), c)
                /\ UNCHANGED <<formula, outcome>>

Ended(goal) == At = "end" /\ Current.goal = goal

EndFormula == /\ Ended("formula")
              /\ outcome' = Verdict(node, Current.top)
              /\ UNCHANGED <<formula, node, calls, locals>>

EndOperand ==
  /\ Ended("operand")
  /\ LET called == IsOp(node, Caller.prev) /\ node[Caller.prev].type = "function"
         r == Insert(Delivered(called), Caller, Result, Caller.at)
     IN  IF r.call.at = 0 THEN Fail("endless")
         ELSE Return(r.heap, r.call) /\ UNCHANGED locals

EndLimits ==
  /\ Ended("limits")
  /\ LET h == Delivered(TRUE)
     IN  /\ Return([h EXCEPT ![Caller.prev].left = Result, ![Result].pred = Caller.prev], Caller)
         /\ locals' = locals \cup NamesIn(h, Result)

EndExponent ==
  /\ Ended("exponent")
  /\ LET power == node[Caller.prev].pred
     IN  Return(Hang(Delivered(FALSE), power, Result), [Caller EXCEPT !.act = power])
  /\ UNCHANGED locals

(* addElement(): the first goes left, the others follow, the last is right *)
EndElement ==
  /\ Ended("element")
  /\ LET list == Caller.list
         more == [node EXCEPT ![list].mid = IF node[list].right = 0 THEN @
                                            ELSE Append(@, node[list].right)]
         h    == Hang(more, list, Current.top)
     IN  CASE Current.top = 0 -> Fail("crash")
           [] Current.top # 0 /\ Caller.at <= Len(Caller.s) /\ Caller.s[Caller.at] = "," ->
                NextElement(h, SubSeq(calls, 1, Len(calls) - 2), Caller)
           [] OTHER -> /\ Return(h, [Caller EXCEPT !.list = 0])
                       /\ UNCHANGED locals

Done == outcome # "parsing" /\ UNCHANGED vars

-----------------------------------------------------------------------------
(* toString(): everything gets its brackets, the limits of a function too. *)
Joined(parts, sign) == FoldLeft(LAMBDA s, p : IF s = <<>> THEN p ELSE s \o sign \o p, <<>>, parts)

RECURSIVE Written(_)
Written(t) ==
  LET parts == [i \in DOMAIN t.args |-> Written(t.args[i])]
      inner == CASE t.kind = "empty"      -> <<>>
                 [] t.text = "-1"         -> <<"-", "1">>
                 [] t.kind \in {"value", "variable"} /\ t.text # "-1" -> <<t.text>>
                 [] t.text = "!"          -> parts[1] \o <<"!">>
                 [] t.type = "function"   -> <<t.text>> \o (IF Len(parts) = 1 THEN parts[1]
                                               ELSE <<"[">> \o parts[1] \o <<"]">> \o parts[2])
                 [] OTHER                 -> Joined(parts, <<t.text>>)
  IN  <<"(">> \o inner \o <<")">>

IsFunctionDefinition(t) == t.text = "=" /\ t.args[1].type = "function"

(* A formula that defines no function is taken as the body of one. *)
Body(t) == IF IsFunctionDefinition(t) THEN t.args[2] ELSE t
FunctionHead(t) == IF IsFunctionDefinition(t)
                   THEN <<t.args[1].text>> \o Written(t.args[1].args[1]) \o <<"=">> ELSE <<>>

(* A bug for comparison: without the outermost brackets a tuple is a list. *)
LineBare(t) == FunctionHead(t) \o Front(Tail(Written(Body(t))))
Line(t) == FunctionHead(t) \o Written(Body(t))

(* checkBody() knows every function, and no variable that is named as one. *)
RECURSIVE Checked(_)
Checked(t) == /\ t.kind = "variable" => ~IsFunction(t.text)
              /\ t.type = "function" => IsFunction(t.text)
              /\ \A i \in DOMAIN t.args : Checked(t.args[i])

(* A function that was defined is saved, and loaded from the file. *)
SaveAndLoad ==
  /\ outcome = "parsed" /\ printed = <<>>
  /\ Whole(SelectSeq(formula, LAMBDA t : t # " "), {}) # None
  /\ LET t == Tree(node, Current.top, TRUE)
     IN  /\ Checked(Body(t))
         /\ printed' = <<t>>
         /\ formula' = Line(t)
         /\ calls' = <<Call(Line(t), "formula")>>
  /\ node' = <<>> /\ locals' = {} /\ outcome' = "parsing"

Turn == \/ Blank \/ CloseBracket \/ NameIsFunction \/ ImplicitTimes \/ Bracket
        \/ Limits \/ Number \/ Name \/ SecondFunctionPower \/ FunctionPower
        \/ Faculty \/ Comma \/ Operator
        \/ EndFormula \/ EndOperand \/ EndLimits \/ EndExponent \/ EndElement

Next == (outcome = "parsing" /\ Turn /\ UNCHANGED printed) \/ SaveAndLoad \/ Done

Spec == Init /\ [][Next]_vars

-----------------------------------------------------------------------------
(* Properties                                                              *)

Text    == SelectSeq(formula, LAMBDA t : t # " ")
Meaning == Whole(Text, {})

(* The priorities of functions in mathexpression.hpp:293-301, which are    *)
(* lower than those in the help of fizzcal: Reach is the help's.           *)
HeaderReach(f) == CASE f = "Sum" -> 10 [] f = "Prod" -> 15 [] OTHER -> 20
Header == INSTANCE Notation WITH Reach <- HeaderReach

(* A power behind a function and its operand, or anything behind a sum and *)
(* its operand: by the help it is applied to the function's value, by the  *)
(* header to the operand.                                                  *)
Disputed(s, i) ==
  \E j \in 1..(i - 2) : \/ s[i] = "^" /\ IsFunctionAt(s, j, {})
                       \/ s[j] \in Summing

(* Tokens before which an operand is missing. *)
IsOperand(t) == t \in Digits \cup (Names \ (Builtins \cup Known)) \cup {")", "]", "!"}
Stray(s, i)  == s[i] \in {"!", ",", ")"} /\ ~IsOperand(Token(s, i - 1))

(* A power behind a function that has no exponent at once. *)
BarePower(s, i) == s[i] = "^" /\ ~IsOperand(Token(s, i - 1))
                     /\ Token(s, i + 1) \notin Digits \cup Names \cup {"("}

(* The second of three parameters is not known as a variable in the body.  *)
Overlooked(s, i) == /\ s[i] \in Names
                    /\ Token(s, i - 1) = "," /\ Token(s, i + 1) = ","
                    /\ \E j \in (i + 1)..Len(s) : s[j] = s[i] /\ Token(s, j + 1) = "("

(* A formula of the language is accepted, and what parse() makes of it, by *)
(* looking up and down the right edge of what it has, is the tree that it  *)
(* has by the grammar and the priorities of the header.  By those that the *)
(* help states (fizzcal/src/main.cpp:667-680) it is the same tree, but for *)
(* disputed formulas.                                                      *)
TreesAreRight ==
  outcome # "parsing" /\ Meaning # None =>
    LET tree == Simple(Tree(node, Current.top, TRUE))
    IN  \/ /\ outcome = "parsed"
           /\ tree = Simple(Header!Whole(Text, {}).tree)
           /\ tree = Simple(Meaning.tree) \/ \E i \in 1..Len(Text) : Disputed(Text, i)
        \/ \E i \in 1..Len(Text) : Overlooked(Text, i)

(* What is accepted is a formula of the language, but for what has a "!",  *)
(* a "," or a ")" behind a missing operand, a function's power without     *)
(* exponent, the definition of a faculty, and a disputed formula.          *)
RefusesOther == outcome = "parsed" /\ Meaning = None =>
  \/ \E i \in 1..Len(formula) : BarePower(formula, i)
  \/ \E i \in 1..Len(Text) : \/ Stray(Text, i)
                             \/ Text[i] = "!" /\ Token(Text, i + 1) = "="
                             \/ Disputed(Text, i) /\ Header!Whole(Text, {}) # None

(* A list is read as parameters behind a function and as a tuple elsewhere. *)
RECURSIVE Listed(_, _)
Listed(t, parameters) ==
  [t EXCEPT !.type = CASE t.text # "," -> @
                       [] t.text = "," /\ parameters  -> "parameter"
                       [] t.text = "," /\ ~parameters -> "tuple",
            !.args = [i \in DOMAIN @ |-> Listed(@[i], t.type = "function" /\ i = Len(@))]]

(* What is printed is accepted again, and as the tree that was printed.    *)
(* Only the kind of a list can change: one without brackets of its own     *)
(* becomes a tuple, a tuple that is the only argument becomes parameters.  *)
PrintedReadsAgain ==
  outcome # "parsing" /\ printed # <<>> =>
    /\ outcome = "parsed"
    /\ Simple(Tree(node, Current.top, TRUE)) = Listed(Simple(printed[1]), FALSE)

(* parse() takes the formulas of the language, as they are meant.          *)
ReadsAsMeant == TreesAreRight /\ RefusesOther

(* Only formulas with such gaps, or nothing at all, take the program down  *)
(* or keep it in the loop of searchAndSetLowerPriNode() for ever.          *)
EndsInOrder == outcome \in {"crash", "endless"} =>
  \/ Text = <<>>
  \/ \E i \in 1..Len(formula) : BarePower(formula, i)
  \/ \E i \in 1..Len(Text) : Stray(Text, i) \/ (Text[i] = "," /\ Token(Text, i + 1) = "end")
================================================================================
