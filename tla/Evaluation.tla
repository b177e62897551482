------------------------------ MODULE Evaluation ------------------------------
(***************************************************************************)
(* The evaluation of formulas (fztooltempl/mathexpression.cpp) by their    *)
(* trees (Formula.tla builds them).  Numbers count halves, so that there   *)
(* are some that a print without digits behind the point does not show;    *)
(* "+" and the product stand for the operators.                            *)
(***************************************************************************)
EXTENDS VariableLists

One == 2
IsNatural(n) == n >= 0 /\ n % One = 0

(* Printing: a number that lies between two is shown as the even one; so   *)
(* are the numbers of a formula.                                           *)
Shown(n, digits) ==
  IF digits > 0 \/ n % One = 0 THEN n ELSE CHOOSE m \in {n - 1, n + 1} : m % (2 * One) = 0
HalfDigit(digits) == IF digits > 0 THEN 0 ELSE One \div 2

RECURSIVE Printed(_, _)
Printed(e, digits) ==
  CASE e.op = "num" -> Num(Shown(e.value, digits))
    [] e.op = "var" -> e
    [] OTHER -> [e EXCEPT !.args = [i \in DOMAIN e.args |-> Printed(e.args[i], digits)]]

(* Reading: which names are variables is decided while the tree is built.  *)

RECURSIVE Locals(_)
Locals(e) == (IF e.op \in {"=", "Sum"} THEN {e.name} ELSE {})
               \cup (IF e.op \in {"num", "var"} THEN {}
                     ELSE UNION {Locals(e.args[i]) : i \in DOMAIN e.args})

(* A function's name in the place of a variable is a syntax error. *)
RECURSIVE Readable(_, _)
Readable(e, fs) ==
  /\ e.op \in {"var", "=", "Sum"} => e.name \notin FunNames(fs)
  /\ e.op = "def" => e.param \notin FunNames(fs)
  /\ e.op \notin {"num", "var"} => \A i \in DOMAIN e.args : Readable(e.args[i], fs)

RECURSIVE Resolved(_, _)
Resolved(e, scope) ==
  IF e.op \in {"num", "var"} THEN e
  ELSE LET inner == scope \cup (IF e.op = "def" THEN {e.param}
                                ELSE IF e.op \in {"=", "Sum"} THEN {e.name} ELSE {})
           args  == [i \in DOMAIN e.args |-> Resolved(e.args[i], inner)]
       IN  IF e.op = "apply" /\ e.name \in scope THEN Times(Var(e.name), args[1])
           ELSE [e EXCEPT !.args = args]

(* The names that a formula assigns. *)
RECURSIVE Assigned(_)
Assigned(e) == (IF e.op = "=" THEN {e.name} ELSE {})
                 \cup (IF e.op \in {"num", "var"} THEN {}
                       ELSE UNION {Assigned(e.args[i]) : i \in DOMAIN e.args})

-----------------------------------------------------------------------------
(* Evaluation.  how is "ok", "error" (an exception), "null" (the null      *)
(* pointer of an empty sum), "crash" (it was used) or "endless"; vars is   *)
(* the list as it is left, set whether its modified flag was set.          *)

Out(how, value, vs, set) == [how |-> how, value |-> value, vars |-> vs, set |-> set]
Stop(r, set) == Out(IF r.how = "null" THEN "crash" ELSE r.how, 0, r.vars, r.set \/ set)

RECURSIVE Eval(_, _, _, _), Add(_, _, _, _, _, _)

(* The body for i..to, the index counting up in the copy of the list: what *)
(* was added and the list at the end.                                      *)
Add(e, i, to, vs, fs, c) ==
  LET r    == Eval(e.args[3], vs, fs, c)
      rest == Add(e, i + One, to, Insert(r.vars, e.name, i + One), fs, c)
  IN  IF i > to THEN Out("ok", 0, vs, FALSE)
      ELSE IF r.how # "ok" THEN Stop(r, FALSE)
      ELSE [rest EXCEPT !.value = @ + r.value]

(* What a sum over k leaves in the list it works for. *)
BackAll(vs, k) == [v \in Free(vs) |-> vs[v]]      \* a bug for comparison: the index too
Back(vs, k)    == [v \in Free(vs) \ {k} |-> vs[v]]

(* sumProd(): the first index is evaluated in the list, all else in a copy *)
(* made before; what is not protected is written back, but the index.      *)
SumProd(e, vs, fs, c) ==
  LET from  == Eval(e.args[1], vs, fs, c)
      to    == Eval(e.args[2], Insert(vs, e.name, from.value), fs, c)
      once  == Eval(e.args[3], to.vars, fs, c)
      all   == Add(e, from.value, to.value, once.vars, fs, c)
  IN  CASE from.how # "ok" -> Stop(from, FALSE)
        [] from.how = "ok" /\ ~(Accepts(vs, e.name) /\ IsNatural(from.value)) ->
             Out("error", 0, from.vars, from.set)
        [] OTHER ->
             CASE to.how # "ok" -> [Stop(to, FALSE) EXCEPT !.vars = from.vars, !.set = from.set]
               [] to.how = "ok" /\ ~IsNatural(to.value) -> Out("error", 0, from.vars, from.set)
               [] to.how = "ok" /\ IsNatural(to.value) /\ to.value < from.value ->
                    Out("null", 0, from.vars, from.set)
               [] to.how = "ok" /\ IsNatural(to.value) /\ to.value >= from.value /\ once.how # "ok" ->
                    [Stop(once, FALSE) EXCEPT !.vars = from.vars, !.set = from.set]
               [] OTHER -> IF all.how # "ok" THEN [all EXCEPT !.vars = from.vars, !.set = from.set]
                           ELSE Out("ok", all.value, Back(all.vars, e.name) @@ from.vars, from.set)

(* A bug for comparison: the body works on the caller's list itself. *)
EvalFunctionInPlace(e, vs, fs, c) ==
  LET f    == Fun(fs, e.name)
      arg  == Eval(e.args[1], vs, fs, c)
      body == Eval(f.body, Insert(Unprotected(vs), f.param, arg.value), fs,
                   [c EXCEPT !.active = @ \cup {e.name}])
  IN  IF arg.how # "ok" THEN Stop(arg, FALSE)
      ELSE IF e.name \in c.active THEN Out("endless", 0, arg.vars, arg.set)
      ELSE body

(* evalFunction(): the body sees a copy of the caller's list, without any  *)
(* protection, in which the parameter has the value of the argument.       *)
EvalFunction(e, vs, fs, c) ==
  LET f    == Fun(fs, e.name)
      arg  == Eval(e.args[1], vs, fs, c)
      body == Eval(f.body, Insert(Unprotected(vs), f.param, arg.value), fs,
                   [c EXCEPT !.active = @ \cup {e.name}])
  IN  CASE arg.how # "ok"             -> Stop(arg, FALSE)
        [] arg.how = "ok" /\ e.name \in c.active -> Out("endless", 0, arg.vars, arg.set)
        [] OTHER -> [body EXCEPT !.vars = arg.vars, !.set = arg.set]

(* eval(): c.active are the functions that are being called, c.order which *)
(* operand of an operator is evaluated first.                              *)
Eval(e, vs, fs, c) ==
  CASE e.op = "num" -> Out("ok", e.value, vs, FALSE)
    [] e.op = "var" -> IF e.name \in DOMAIN vs THEN Out("ok", vs[e.name].value, vs, FALSE)
                       ELSE Out("error", 0, vs, FALSE)
    [] e.op \in {"+", "*"} ->
         LET i == IF c.order = "left" THEN 1 ELSE 2
             a == Eval(e.args[i], vs, fs, c)
             b == Eval(e.args[3 - i], a.vars, fs, c)
         IN  IF a.how # "ok" THEN Stop(a, FALSE)
             ELSE IF b.how # "ok" THEN Stop(b, a.set)
             ELSE Out("ok", IF e.op = "+" THEN a.value + b.value ELSE (a.value * b.value) \div One,
                      b.vars, a.set \/ b.set)
    [] e.op = "=" ->
         LET r == Eval(e.args[1], vs, fs, c)
         IN  CASE r.how # "ok" -> Stop(r, FALSE)
               [] r.how = "ok" /\ ~Accepts(r.vars, e.name) -> Out("error", 0, r.vars, r.set)
               [] OTHER -> Out("ok", r.value, Insert(r.vars, e.name, r.value), TRUE)
    [] e.op = "Sum"   -> SumProd(e, vs, fs, c)
    [] e.op = "apply" -> IF e.name \in FunNames(fs) THEN EvalFunction(e, vs, fs, c)
                         ELSE Out("error", 0, vs, FALSE)

(* checkBody(): every name of a body is known; a name next to a "=" is     *)
(* known from then on.                                                     *)
RECURSIVE Unknown(_, _, _)
Unknown(e, names, fs) ==
  LET more == names \cup (IF e.op \in {"=", "Sum"} THEN {e.name} ELSE {})
                    \cup (IF e.op = "=" /\ e.args[1].op = "var" THEN {e.args[1].name} ELSE {})
                    \cup (IF e.op = "Sum" /\ e.args[1].op = "var" THEN {e.args[1].name} ELSE {})
      Known(i) == more \cup UNION {Locals(e.args[j]) : j \in 1..(i - 1)}
  IN  CASE e.op = "num" -> FALSE
        [] e.op = "var" -> e.name \notin names
        [] OTHER -> \/ e.op = "apply" /\ e.name \notin FunNames(fs)
                    \/ \E i \in DOMAIN e.args : Unknown(e.args[i], Known(i), fs)

(* A bug for comparison: the body is not looked at. *)
DefinableUnseen(e, vs, fs) == e.name \notin DOMAIN vs \cup FunNames(fs)

(* defineFunction() *)
Definable(e, vs, fs) == /\ e.name \notin DOMAIN vs \cup FunNames(fs)
                        /\ ~Unknown(e.args[1], DOMAIN vs \cup {e.param}, fs)
===============================================================================
