------------------------------- MODULE Notation -------------------------------
(***************************************************************************)
(* What a formula means, as a grammar and not as the program reads it:     *)
(* operators of priorities that bind to the left, functions that need no   *)
(* brackets, products without a "*", lists, definitions, sums.  A reading  *)
(* is a tree and the place where it ends; where there is none, the formula *)
(* is not in the language.  mexp::MathExpression (Formula.tla) is held     *)
(* against it.                                                             *)
(***************************************************************************)
EXTENDS Integers, FiniteSets, Sequences, SequencesExt

CONSTANTS Formulas,   \* the token sequences that are entered
          Digits,     \* numbers
          Names,      \* identifiers
          Builtins,   \* the functions the program knows
          Known,      \* the user's functions
          Declared,   \* the user's variables
          Reach(_)    \* the operand of a function ends before what does not bind more

Leaf(kind, text)  == [kind |-> kind, text |-> text, type |-> "none", args |-> <<>>]
Apply(text, args) == [kind |-> "op", text |-> text, type |-> "operation", args |-> args]
Invoke(f, args)   == [kind |-> "op", text |-> f, type |-> "function", args |-> args]

Level == [o \in {";"} |-> 1] @@ [o \in {"="} |-> 2] @@ [o \in {","} |-> 5]
           @@ [o \in {"+", "-"} |-> 10] @@ [o \in {"*", "/", "%"} |-> 15]
           @@ [o \in {"^"} |-> 30] @@ [o \in {"@"} |-> 40]

Summing == {"Sum", "Prod"}

(* +-1 times +-1 is the same as one number. *)
IsUnit(t) == t.kind = "value" /\ t.text \in {"1", "-1"}

RECURSIVE Simple(_)
Simple(t) ==
  LET args == [i \in DOMAIN t.args |-> Simple(t.args[i])]
  IN  IF t.text = "*" /\ IsUnit(args[1]) /\ IsUnit(args[2])
      THEN Leaf("value", IF args[1].text = args[2].text THEN "1" ELSE "-1")
      ELSE [t EXCEPT !.args = args]

None == [at |-> 0]
Read(tree, at, scope) == [at |-> at, tree |-> tree, scope |-> scope]

(* All names in a tree. *)
RECURSIVE Variables(_)
Variables(t) == (IF t.kind = "variable" THEN {t.text} ELSE {})
                  \cup UNION {Variables(t.args[i]) : i \in DOMAIN t.args}

IsDefinition(t) == t.text = "=" => \/ t.args[1].kind = "variable"
                                   \/ t.args[1].type = "function" /\ Len(t.args[1].args) = 1

(* Where the bracket that opens at i closes. *)
Balance(s, i, j) == Cardinality({k \in i..j : s[k] \in {"(", "["}})
                      - Cardinality({k \in i..j : s[k] \in {")", "]"}})
Closing(s, i) ==
  LET ends == {j \in i..Len(s) : Balance(s, i, j) = 0}
      end  == CHOOSE j \in ends : \A k \in ends : j <= k
  IN  IF ends # {} /\ s[end] = (IF s[i] = "(" THEN ")" ELSE "]") THEN end ELSE 0

Inside(s, i) == SubSeq(s, i + 1, Closing(s, i) - 1)

RECURSIVE Whole(_, _), Expr(_, _, _, _, _), Primary(_, _, _, _), Rest(_, _, _), Function(_, _, _),
          Elements(_, _, _, _)

(* All of s, with its names in scope. *)
UpToEnd(s, r) == IF r.at = Len(s) + 1 /\ s # <<>> THEN r ELSE None
Whole(s, scope) == UpToEnd(s, Expr(s, 1, 0, scope, FALSE))

(* What the bracket at i holds; a list in it is a tuple. *)
Bracketed(s, i, scope) == IF Closing(s, i) = 0 THEN None ELSE Whole(Inside(s, i), scope)
AsTuple(t) == IF t.type = "parameter" THEN [t EXCEPT !.type = "tuple"] ELSE t

Token(s, i) == IF i \in 1..Len(s) THEN s[i] ELSE "end"

Faculties(s, r) ==
  LET n == CHOOSE n \in 0..Len(s) : /\ \A i \in r.at..(r.at + n - 1) : Token(s, i) = "!"
                                    /\ Token(s, r.at + n) # "!"
      T[i \in 0..n] == IF i = 0 THEN r.tree ELSE Apply("!", <<T[i - 1]>>)
  IN  Read(T[n], r.at + n, r.scope)

IsFunctionAt(s, i, scope) ==
  \/ Token(s, i) \in Builtins \cup Known
  \/ /\ Token(s, i) \in Names \ (scope \cup Declared)
     /\ Token(s, i + 1) = "("

Group(s, i, inner, parameters) ==
  IF inner = None THEN None
  ELSE Faculties(s, Read(IF parameters \/ inner.tree.text # "," THEN inner.tree ELSE AsTuple(inner.tree),
                         Closing(s, i) + 1, inner.scope))

WithSign(sign, r) ==
  IF r = None THEN None
  ELSE Read(Apply("*", <<Leaf("value", IF sign = "-" THEN "-1" ELSE "1"), r.tree>>), r.at, r.scope)

(* A sign can stand before any operand. *)
Primary(s, i, scope, parameters) ==
  LET t == Token(s, i)
  IN  CASE t \in Digits -> Faculties(s, Read(Leaf("value", t), i + 1, scope))
        [] IsFunctionAt(s, i, scope) -> Function(s, i, scope)
        [] t \in Names /\ ~IsFunctionAt(s, i, scope) ->
             Faculties(s, Read(Leaf("variable", t), i + 1, scope))
        [] t = "(" -> Group(s, i, Bracketed(s, i, scope), parameters)
        [] t \in {"+", "-"} -> WithSign(t, Expr(s, i + 1, 15, scope, FALSE))
        [] OTHER -> None

(* f arg, f[limits] arg, f^exponent arg: the last one is a power of f arg. *)
(* What was read of it so far: the limits, an exponent if there is one.    *)
Wanted(f) == f \in Summing \cup {"log"}

LimitsAre(s, i, r) ==
  IF r = None THEN None ELSE Read(<<r.tree>>, Closing(s, i) + 1, r.scope \cup Variables(r.tree))

FunctionLimits(s, i, scope) ==
  CASE Token(s, i + 1) # "[" -> IF Wanted(s[i]) THEN None ELSE Read(<<>>, i + 1, scope)
    [] Token(s, i + 1) = "[" -> IF Wanted(s[i]) THEN LimitsAre(s, i + 1, Bracketed(s, i + 1, scope)) ELSE None

AsExponent(s, e, r) == IF r = None THEN None ELSE Read(AsTuple(r.tree), Closing(s, e) + 1, r.scope)

Exponent(s, e, scope) ==
  CASE Token(s, e) \in Digits -> Read(Leaf("value", s[e]), e + 1, scope)
    [] Token(s, e) \in Names  -> Read(Leaf("variable", s[e]), e + 1, scope)
    [] Token(s, e) = "("      -> AsExponent(s, e, Bracketed(s, e, scope))
    [] OTHER -> None

Called(f, limits, power, arg) ==
  LET call == Invoke(f, limits.tree \o <<arg.tree>>)
  IN  IF arg = None THEN None
      ELSE Read(IF power = None THEN call ELSE Apply("^", <<call, power.tree>>), arg.at, arg.scope)

(* A sum's limits are the definition of its index and the last value. *)
IsSum(f, limits) ==
  f \in Summing => limits.tree[1].text = ";" /\ limits.tree[1].args[1].text = "="

Powered(s, f, limits, power) ==
  IF power = None THEN None ELSE Called(f, limits, power, Expr(s, power.at, Reach(f), power.scope, TRUE))

Limited(s, f, limits) ==
  CASE limits = None -> None
    [] limits # None /\ ~IsSum(f, limits) -> None
    [] limits # None /\ IsSum(f, limits) ->
         IF Token(s, limits.at) = "^" /\ f \notin Summing
         THEN Powered(s, f, limits, Exponent(s, limits.at + 1, limits.scope))
         ELSE Called(f, limits, None, Expr(s, limits.at, Reach(f), limits.scope, TRUE))

Function(s, i, scope) == Limited(s, s[i], FunctionLimits(s, i, scope))

(* An operand and what follows it, as long as it binds more than min. *)
Expr(s, i, min, scope, parameters) == Rest(s, Primary(s, i, scope, parameters), min)

Both(op, left, right) ==
  IF right = None \/ ~IsDefinition(Apply(op, <<left.tree, right.tree>>)) THEN None
  ELSE Read(Apply(op, <<left.tree, right.tree>>), right.at, right.scope)

Rest(s, left, min) ==
  LET t == IF left = None THEN "end" ELSE Token(s, left.at)
  IN  CASE t \in Digits \cup Names \cup {"("} /\ 15 > min ->
             Rest(s, Both("*", left, Expr(s, left.at, 15, left.scope, FALSE)), min)
        [] t = "," /\ 5 > min -> Elements(s, left.at, left, <<left.tree>>)
        [] t \in DOMAIN Level \ {","} /\ Level[t] > min ->
             Rest(s, Both(t, left, Expr(s, left.at + 1, Level[t],
                                        left.scope \cup (IF t = "=" THEN Variables(left.tree) ELSE {}), FALSE)), min)
        [] OTHER -> left

(* The elements of a list are formulas of their own; a list is the last    *)
(* thing in its bracket.                                                   *)
NextElements(s, end, r, trees) ==
  CASE r = None -> None
    [] r # None /\ end < Len(s) -> Elements(s, end + 1, r, Append(trees, r.tree))
    [] OTHER -> Read([Apply(",", Append(trees, r.tree)) EXCEPT !.type = "parameter"], Len(s) + 1, r.scope)

Elements(s, i, before, trees) ==
  LET stops == {j \in (i + 1)..Len(s) : s[j] = "," /\ Balance(s, i, j) = 0}
      end   == IF stops = {} THEN Len(s) ELSE (CHOOSE j \in stops : \A k \in stops : j <= k) - 1
  IN  NextElements(s, end, Whole(SubSeq(s, i + 1, end), before.scope), trees)
================================================================================
