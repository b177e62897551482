---------------------------- MODULE VariableLists ----------------------------
(***************************************************************************)
(* The trees of formulas and the lists of variables and functions that     *)
(* they are evaluated with (fztooltempl/mathexpression.cpp).  A list of    *)
(* variables takes a name to [value, protect]; a list of functions is a    *)
(* sequence of [name, param, body].                                        *)
(***************************************************************************)
EXTENDS Integers, FiniteSets, Sequences, SequencesExt

(* Trees.  "apply" is a name before a bracket, that is a call or a product *)
Num(n)          == [op |-> "num", value |-> n]
Var(v)          == [op |-> "var", name |-> v]
Plus(l, r)      == [op |-> "+", args |-> <<l, r>>]
Times(l, r)     == [op |-> "*", args |-> <<l, r>>]
Assign(v, e)    == [op |-> "=", name |-> v, args |-> <<e>>]
ApplyTo(f, e)   == [op |-> "apply", name |-> f, args |-> <<e>>]
SumOf(k, i, j, e) == [op |-> "Sum", name |-> k, args |-> <<i, j, e>>]
Define(f, p, e) == [op |-> "def", name |-> f, param |-> p, args |-> <<e>>]

-----------------------------------------------------------------------------
FunNames(fs)   == {fs[i].name : i \in DOMAIN fs}
Fun(fs, f)     == fs[CHOOSE i \in DOMAIN fs : fs[i].name = f]

Free(vs)       == {v \in DOMAIN vs : ~vs[v].protect}
Values(vs)     == [v \in Free(vs) |-> vs[v].value]

WithoutVariable(vs, v) == [w \in DOMAIN vs \ {v} |-> vs[w]]
WithoutFunction(fs, f) == SelectSeq(fs, LAMBDA g : g.name # f)
WithFunction(fs, e)    == Append(fs, [name |-> e.name, param |-> e.param, body |-> e.args[1]])

(* VariableList::insert() *)
Accepts(vs, v)    == v \in DOMAIN vs => ~vs[v].protect
Insert(vs, v, n)  == (v :> [value |-> n, protect |-> FALSE]) @@ vs
Unprotected(vs)   == [v \in DOMAIN vs |-> [vs[v] EXCEPT !.protect = FALSE]]
==============================================================================
