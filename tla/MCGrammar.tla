------------------------------- MODULE MCGrammar -------------------------------
(***************************************************************************)
(* Instances of SCC and of LLParser for TLC.  They share no state: a       *)
(* behaviour is one of the search for components, or one of the parser,    *)
(* and the variables of the other are idle.                                *)
(***************************************************************************)
EXTENDS SCC

CONSTANTS n1, n2, n3, n4

AllGraphs == [{n1, n2, n3} -> SUBSET {n1, n2, n3}]

Edges(g) == UNION {{n} \X g[n] : n \in DOMAIN g}

(* All graphs of three nodes, and those of four that are not too dense.    *)
SomeGraphs == AllGraphs \cup {g \in [Nodes -> SUBSET Nodes] :
                                 /\ \A n \in Nodes : n \notin g[n]
                                 /\ Cardinality(Edges(g)) <= 5}

-----------------------------------------------------------------------------
VARIABLES written, input, method, grammar, reader, running, queue, token, matched, outcome

llvars == <<written, input, method, grammar, reader, running, queue, token, matched, outcome>>

TerminalW(x) == [kind |-> "T", name |-> x, type |-> "W"]
TerminalN(x) == [kind |-> "T", name |-> x, type |-> "N"]
NonT(x)      == [kind |-> "N", name |-> x]

UpToTwo(sym) == {<<>>} \cup {<<x>> : x \in sym} \cup (sym \X sym)

a == TerminalW("a")
b == TerminalW("b")
num == TerminalN("num")
S == NonT("S")
A == NonT("A")

RulesForA == {<<<<b, A>>, <<>>>>, <<<<a>>, <<>>>>, <<<<a>>, <<a, S>>>>,
              <<<<num>>, <<A, a>>>>, <<<<S>>>>, <<<<num>>, <<a, a>>>>}

Written(p, q, last) == [start |-> "S", startLast |-> last,
                        rules |-> <<[name |-> "S", alts |-> p], [name |-> "A", alts |-> q]>>]

(* The last three are not written as they should be: the start at the end, *)
(* one name for a word and a number, a nonterminal without a rule.         *)
TheGrammars ==
  {Written(p, q, FALSE) : p \in UpToTwo({a, b, A}) \X UpToTwo({a, b, A}), q \in RulesForA}
    \cup {Written(<<<<a, A>>>>, <<<<b>>>>, TRUE), Written(<<<<a, A>>>>, <<<<TerminalN("a")>>>>, FALSE),
          Written(<<<<a, NonT("B")>>>>, <<<<b>>>>, FALSE)}

W(x) == [type |-> "W", name |-> x]
Seven == [type |-> "N", name |-> "7"]
EndOfLine == [type |-> "EOL", name |-> ""]

TheInputs == UNION {[1..k -> {W("a"), W("b")}] : k \in 0..3}
               \cup {<<Seven>>, <<W("a"), Seven>>, <<Seven, W("a")>>, <<W("a"), EndOfLine>>}

LL == INSTANCE LLParser WITH Grammars <- TheGrammars, Inputs <- TheInputs, frames <- running

SCCIdle == graph = <<>> /\ values = <<>> /\ nodestack = <<>> /\ frames = <<>> /\ components = <<>>

LLIdle == /\ written = <<>> /\ input = <<>> /\ method = "" /\ grammar = <<>> /\ reader = <<>>
          /\ running = <<>> /\ queue = <<>> /\ token = <<>> /\ matched = FALSE /\ outcome = "idle"

MCInit == (Init /\ LLIdle) \/ (LL!Init /\ SCCIdle)
MCNext == (Next /\ UNCHANGED llvars) \/ (LL!Next /\ UNCHANGED vars)
MCSpec == MCInit /\ [][MCNext]_<<vars, llvars>> /\ WF_<<vars, llvars>>(MCNext)

(* See LLParser. *)
SetsAreRight == LL!SetsAreRight
AcceptsLanguage == LL!AcceptsLanguage
AcceptsLittleElse == LL!AcceptsLittleElse
AcceptsOnlyLanguage == LL!AcceptsOnlyLanguage

(* The search visits every node, and the parser comes to an end.           *)
BothEnd == <>Found /\ LL!ParserEnds
=============================================================================
