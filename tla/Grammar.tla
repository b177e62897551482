-------------------------------- MODULE Grammar --------------------------------
(***************************************************************************)
(* llp::Grammar (fztooltempl/llparser.cpp): a grammar is put together by a *)
(* sequence of calls and prepared: nullability, left recursion, first,     *)
(* follow and director sets, the LL1 property.  The orders in which the    *)
(* sets of pointers are walked do not change what is found; the components *)
(* of the two graphs are found by SCC.tla.                                 *)
(***************************************************************************)
EXTENDS Integers, Sequences, FiniteSets, SequencesExt, Functions

(* A grammar as it is written down: the start and its rules in their order. *)
Word(a)        == [kind |-> "T", name |-> a, type |-> "W"]
Number(a)      == [kind |-> "T", name |-> a, type |-> "N"]
Non(n)         == [kind |-> "N", name |-> n]
RuleOf(n, as)  == [name |-> n, alts |-> as]

-----------------------------------------------------------------------------
(* The calls that build it, and the object they work on.                   *)

Empty == [rules |-> <<>>, nonterminals |-> {}, orphans |-> {}, type |-> <<>>, start |-> "",
          rule |-> "", sym |-> "", mode |-> " ", accessed |-> FALSE]

(* setStart() makes a nonterminal of its own: one of this name that there  *)
(* is already, or its namesake, remains without the rule.                  *)
SetStart(b, n) == [b EXCEPT !.start = n, !.mode = " ",
                            !.orphans = IF n \in b.nonterminals THEN @ \cup {n} ELSE @,
                            !.nonterminals = @ \cup {n}]

StartRule(b, n) == [b EXCEPT !.nonterminals = @ \cup {n}, !.rule = n, !.sym = "", !.accessed = FALSE,
                             !.rules = IF n \in DOMAIN @ THEN @ ELSE @ @@ (n :> <<>>)]

NewProduction(b) == [b EXCEPT !.rules[b.rule] = Append(@, <<>>), !.accessed = TRUE]

Shift(b, s) == [(IF b.accessed THEN b ELSE NewProduction(b)) EXCEPT !.sym = s, !.mode = "P"]
Or(b, s)    == [NewProduction(b) EXCEPT !.sym = s, !.mode = "P"]
Lambda(b)   == [NewProduction(b) EXCEPT !.mode = " "]

AddSymbol(b, kind) ==
  [b EXCEPT !.rules[b.rule] = [@ EXCEPT ![Len(@)] = Append(@, [kind |-> kind, name |-> b.sym])]]

(* operator,(): a terminal is looked for by its name alone, so that a type *)
(* that is given later is the type of all its occurrences.                 *)
Comma(b, c) ==
  CASE b.mode = "P" /\ c = "T" ->
         [AddSymbol(b, "T") EXCEPT !.mode = "T",
            !.type = IF b.sym \in DOMAIN @ THEN @ ELSE @ @@ (b.sym :> "none")]
    [] b.mode = "P" /\ c = "N" -> [AddSymbol(b, "N") EXCEPT !.mode = " ", !.nonterminals = @ \cup {b.sym}]
    [] b.mode = "T"            -> [b EXCEPT !.mode = " ", !.type[b.sym] = c]

(* What is called to write the alternatives down. *)
SymbolCalls(s) == IF s.kind = "T" THEN <<<<",", "T">>, <<",", s.type>>>> ELSE <<<<",", "N">>>>

AltCalls(alt, first) ==
  IF alt = <<>> THEN <<<<"lambda", "">>>>
  ELSE FlattenSeq([i \in DOMAIN alt |->
         <<<<IF i = 1 /\ ~first THEN "|" ELSE "<<", alt[i].name>>>> \o SymbolCalls(alt[i])])

RuleCalls(r) == <<<<"rule", r.name>>>> \o FlattenSeq([i \in DOMAIN r.alts |-> AltCalls(r.alts[i], i = 1)])

Calls(w) ==
  LET rules == FlattenSeq([i \in DOMAIN w.rules |-> RuleCalls(w.rules[i])])
  IN  IF w.startLast THEN Append(rules, <<"start", w.start>>) ELSE <<<<"start", w.start>>>> \o rules

Called(b, c) == CASE c[1] = "start"  -> SetStart(b, c[2])
                  [] c[1] = "rule"   -> StartRule(b, c[2])
                  [] c[1] = "<<"     -> Shift(b, c[2])
                  [] c[1] = "|"      -> Or(b, c[2])
                  [] c[1] = "lambda" -> Lambda(b)
                  [] c[1] = ","      -> Comma(b, c[2])

Build(w) == FoldLeft(Called, Empty, Calls(w))

(* Nonterminals without a rule: the pointers to them are followed. *)
Ruleless(b) == b.orphans \cup (b.nonterminals \ DOMAIN b.rules)

-----------------------------------------------------------------------------
(* calculateDFNL(): d knows what was visited, is free of circles, may be   *)
(* empty, and the terminals the rules begin with.                          *)

Unvisited(b) == [visited |-> {}, circlefree |-> {}, nullable |-> {}, leftrecursive |-> FALSE,
                 direct |-> [n \in DOMAIN b.rules |-> {}]]

(* A bug for comparison: an alternative that begins with a nonterminal     *)
(* that may be empty is not looked at any further.                         *)
RECURSIVE Traverse_FirstOnly(_, _, _), Traverse(_, _, _)
Traverse_FirstOnly(b, d, n) ==
  IF n \in d.visited THEN [d EXCEPT !.leftrecursive = @ \/ n \notin d.circlefree]
  ELSE LET alternative(acc, alt) ==
             CASE acc.leftrecursive  -> acc
               [] alt = <<>>         -> [acc EXCEPT !.nullable = @ \cup {n}]
               [] OTHER -> IF alt[1].kind = "T" THEN [acc EXCEPT !.direct[n] = @ \cup {alt[1].name}]
                           ELSE Traverse_FirstOnly(b, acc, alt[1].name)
       IN  [FoldLeft(alternative, [d EXCEPT !.visited = @ \cup {n}], b.rules[n])
              EXCEPT !.circlefree = @ \cup {n}]

(* traverseDFNL(): an alternative is read up to its first symbol that      *)
(* cannot be empty; a rule that comes back to itself is left recursive,    *)
(* and the exception ends the search.                                      *)
Traverse(b, d, n) ==
  IF n \in d.visited THEN [d EXCEPT !.leftrecursive = @ \/ n \notin d.circlefree]
  ELSE LET symbol(acc, s) ==    \* acc.more: everything so far may be empty
             CASE ~acc.more \/ acc.d.leftrecursive -> acc
               [] s.kind = "T" -> [more |-> FALSE, d |-> [acc.d EXCEPT !.direct[n] = @ \cup {s.name}]]
               [] OTHER        -> LET d2 == Traverse(b, acc.d, s.name)
                                  IN  [more |-> s.name \in d2.nullable, d |-> d2]
           alternative(acc, alt) ==
             LET read == FoldLeft(symbol, [more |-> TRUE, d |-> acc], alt)
             IN  IF read.more /\ ~read.d.leftrecursive THEN [read.d EXCEPT !.nullable = @ \cup {n}]
                 ELSE read.d
           done == FoldLeft(alternative, [d EXCEPT !.visited = @ \cup {n}], b.rules[n])
       IN  IF done.leftrecursive THEN done ELSE [done EXCEPT !.circlefree = @ \cup {n}]

DFNL(b) == FoldLeft(LAMBDA d, n : IF d.leftrecursive THEN d ELSE Traverse(b, d, n), Unvisited(b),
                    SetToSeq(DOMAIN b.rules))

(* The nonterminals an alternative may begin with. *)
Leading(d, alt) ==
  LET plain(i) == alt[i].kind = "N" /\ alt[i].name \in d.nullable
      stop     == SelectInSeq([i \in DOMAIN alt |-> plain(i)], LAMBDA x : ~x)
      upto     == IF stop = 0 THEN Len(alt) ELSE stop
  IN  {alt[i].name : i \in {j \in 1..upto : alt[j].kind = "N"}}

(* FirstSetGraph, and its sets component by component; a grammar that is   *)
(* not left recursive has components of one rule.                          *)
FirstNeighbours(b, d, n) == UNION {Leading(d, b.rules[n][i]) : i \in DOMAIN b.rules[n]}

RECURSIVE FirstSet(_, _, _)
FirstSet(b, d, n) == d.direct[n] \cup UNION {FirstSet(b, d, m) : m \in FirstNeighbours(b, d, n)}

(* FollowSetGraph::constructGraph(): what comes after each occurrence.     *)
(* Behind a neighbour that may be empty it looks at the follow set of the  *)
(* neighbour, not at what follows in this alternative.                     *)
FollowEdges(b, d, x) ==
  UNION {UNION {LET alt == b.rules[n][i]
                    at  == {j \in DOMAIN alt : alt[j] = Non(x)}
                IN  UNION {CASE j = Len(alt) -> {<<"follow", n>>}
                             [] alt[j + 1].kind = "T" -> {<<"terminal", alt[j + 1].name>>}
                             [] alt[j + 1].name \in d.nullable ->
                                  {<<"first", alt[j + 1].name>>, <<"follow", alt[j + 1].name>>}
                             [] OTHER -> {<<"first", alt[j + 1].name>>} : j \in at}
                : i \in DOMAIN b.rules[n]} : n \in DOMAIN b.rules}

FollowNeighbours(b, d, x) == {e[2] : e \in {f \in FollowEdges(b, d, x) : f[1] = "follow"}} \ {x}

RECURSIVE ReachesFollow(_, _, _, _)
ReachesFollow(b, d, from, x) ==
  LET new == UNION {FollowNeighbours(b, d, n) : n \in from} \ from
  IN  x \in UNION {FollowNeighbours(b, d, n) : n \in from}
        \/ (new # {} /\ ReachesFollow(b, d, from \cup new, x))

(* processComponentNode() reads the follow set of a neighbour in the same  *)
(* component that has none yet: the null pointer.                          *)
FollowCrashes(b, d) == \E x \in DOMAIN b.rules : ReachesFollow(b, d, {x}, x)

RECURSIVE FollowSet(_, _, _, _)
FollowSet(b, d, first, x) ==
  UNION {CASE e[1] = "terminal" -> {e[2]}
           [] e[1] = "first"    -> first[e[2]]
           [] e[1] = "follow"   -> IF e[2] = x THEN {} ELSE FollowSet(b, d, first, e[2])
         : e \in FollowEdges(b, d, x)}

(* calculateDirectorSets() of one alternative of rule n.                   *)
DirectorSet(b, d, first, follow, n, alt) ==
  LET empty(i) == alt[i].kind = "N" /\ alt[i].name \in d.nullable
      reach    == {i \in DOMAIN alt : \A j \in 1..(i - 1) : empty(j)}
  IN  UNION {IF alt[i].kind = "T" THEN {alt[i].name} ELSE first[alt[i].name] : i \in reach}
        \cup IF \A i \in DOMAIN alt : empty(i) THEN follow[n] ELSE {}

Disjoint(sets) == \A i, j \in DOMAIN sets : i # j => sets[i] \cap sets[j] = {}

(* prepare(): how it ends, and what it leaves behind.                      *)
Prepare(b) ==
  IF Ruleless(b) # {} THEN [end |-> "crash", why |-> "rule"]
  ELSE LET d == DFNL(b)
       IN  IF d.leftrecursive THEN [end |-> "refused", why |-> "leftrecursive"]
           ELSE IF FollowCrashes(b, d) THEN [end |-> "crash", why |-> "follow"]
           ELSE LET first  == [n \in DOMAIN b.rules |-> FirstSet(b, d, n)]
                    follow == [n \in DOMAIN b.rules |-> FollowSet(b, d, first, n)]
                    dirs   == [n \in DOMAIN b.rules |-> [i \in DOMAIN b.rules[n] |->
                                 DirectorSet(b, d, first, follow, n, b.rules[n][i])]]
                IN  [end |-> "prepared", rules |-> b.rules, type |-> b.type, start |-> b.start,
                     nullable |-> d.nullable, first |-> first, follow |-> follow, director |-> dirs,
                     ll1 |-> \A n \in DOMAIN b.rules : Disjoint(dirs[n])]

-----------------------------------------------------------------------------
(* What the written grammar means.                                         *)

Names(w)   == {w.rules[i].name : i \in DOMAIN w.rules}
Alts(w, n) == UNION {ToSet(w.rules[i].alts) : i \in {j \in DOMAIN w.rules : w.rules[j].name = n}}
Productions(w) == UNION {{n} \X Alts(w, n) : n \in Names(w)}
Symbols(w) == UNION {ToSet(p[2]) : p \in Productions(w)}
Terminals(w)    == {s \in Symbols(w) : s.kind = "T"}
Nonterminals(w) == {s.name : s \in {t \in Symbols(w) : t.kind = "N"}} \cup {w.start}

(* The least set that F allows: F is repeated more often than it can grow. *)
Least(w, F(_)) ==
  LET rounds == Cardinality(Names(w)) * (Cardinality(Symbols(w)) + 1)
  IN  FoldLeft(LAMBDA X, i : F(X), {}, [i \in 1..rounds |-> i])

Vanishes(alt, V) == \A i \in DOMAIN alt : alt[i].kind = "N" /\ alt[i].name \in V

MayVanish(w) ==
  Least(w, LAMBDA V : {n \in Names(w) : \E alt \in Alts(w, n) : Vanishes(alt, V)})

(* Pairs <<n, s>>: a form derived from n may begin with the symbol s.      *)
Begins(w) ==
  LET V    == MayVanish(w)
      once == {x \in Names(w) \X Symbols(w) : \E alt \in Alts(w, x[1]) : \E i \in DOMAIN alt :
                 alt[i] = x[2] /\ Vanishes(SubSeq(alt, 1, i - 1), V)}
  IN  Least(w, LAMBDA R : once \cup {x \in Names(w) \X Symbols(w) :
                 \E n \in Names(w) : <<x[1], Non(n)>> \in once /\ <<n, x[2]>> \in R})

LeftRecursive(w) == \E n \in Names(w) : <<n, Non(n)>> \in Begins(w)

First(w, n) == {t.name : t \in {u \in Terminals(w) : <<n, u>> \in Begins(w)}}

(* Pairs <<n, m>>: what a form derived from n ends in, may be the m of it. *)
EndsOnce(w) ==
  {x \in Names(w) \X Names(w) : \E alt \in Alts(w, x[1]) : \E i \in DOMAIN alt :
     alt[i] = Non(x[2]) /\ Vanishes(SubSeq(alt, i + 1, Len(alt)), MayVanish(w))}

(* Pairs <<n, t>>: the terminal t may come right after an n.               *)
Follows(w) ==
  LET V == MayVanish(w)
      B == Begins(w)
      inside == {x \in Names(w) \X Terminals(w) : \E p \in Productions(w) : \E i, j \in DOMAIN p[2] :
                   /\ i < j /\ p[2][i] = Non(x[1]) /\ Vanishes(SubSeq(p[2], i + 1, j - 1), V)
                   /\ p[2][j] = x[2] \/ (p[2][j].kind = "N" /\ <<p[2][j].name, x[2]>> \in B)}
  IN  Least(w, LAMBDA R : inside \cup {x \in Names(w) \X Terminals(w) :
                 \E n \in Names(w) : <<n, x[1]>> \in EndsOnce(w) /\ <<n, x[2]>> \in R})

Follow(w, n) == {t.name : t \in {u \in Terminals(w) : <<n, u>> \in Follows(w)}}

(* The forms that begin with a terminal, or are empty, and are derived     *)
(* from a form by replacing its first symbol; the grammar is not left      *)
(* recursive.                                                              *)
RECURSIVE Unfold(_, _)
Unfold(w, form) ==
  IF form = <<>> \/ form[1].kind = "T" THEN {form}
  ELSE UNION {Unfold(w, alt \o Tail(form)) : alt \in Alts(w, form[1].name)}

Matches(s, token) == IF s.type = "N" THEN token.type = "N" ELSE token = [type |-> "W", name |-> s.name]

(* The forms that are left when the words has been read.                   *)
RECURSIVE Left(_, _)
Left(w, word) ==
  IF word = <<>> THEN Unfold(w, <<Non(w.start)>>)
  ELSE UNION {Unfold(w, Tail(f)) :
                f \in {g \in Left(w, Front(word)) : g # <<>> /\ Matches(g[1], word[Len(word)])}}

InLanguage(w, word) == <<>> \in Left(w, word)
=============================================================================
