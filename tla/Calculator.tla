------------------------------ MODULE Calculator ------------------------------
(***************************************************************************)
(* fizzcal (fizzcal/src/main.cpp): a session that defines variables and    *)
(* functions, evaluates, saves to a file, and is started again from it.    *)
(* A formula is its tree; how it is read and evaluated are parameters      *)
(* here, which Evaluation.tla defines.                                     *)
(***************************************************************************)
EXTENDS VariableLists

CONSTANTS Entries,     \* the formulas that are typed in
          Locked,      \* the predefined variables, with their values
          Removable,   \* what undefvar and undeffun are called with
          Precisions,  \* the numbers of digits that are set
          Exact,       \* the number of digits that shows every number in full
          MaxCommands, \* bound: commands in all sessions
          CanRead(_, _),        \* can the formula be read, when there are these functions
          AsRead(_, _),         \* the formula as it is read, when there are these variables
          Evaluate(_, _, _, _), \* its outcome: [how, value, vars, set]
          CanDefine(_, _, _),   \* can the function be defined
          AsPrinted(_, _),      \* the formula that the printed one stands for
          Half(_),              \* the half of the last digit that is printed
          AssignedBy(_)         \* the names that the formula assigns

VARIABLES vars,        \* varlist: name -> [value, protect]
          funs,        \* functionlist: a sequence of [name, param, body]
          varMod, funMod,   \* the modified flags of the two lists
          file,        \* the file: its lines, and what they stand for; or None
          precision,   \* the digits that are printed behind the point
          phase,       \* "running", "asked", "ended", "crashed", "endless"
          commands,    \* commands so far
          removed,     \* something was undefined since the first session began
          base,        \* what was in the lists at the last save or start
          silent       \* something changed that sets no flag

cvars == <<vars, funs, varMod, funMod, file, precision, phase, commands, removed, base, silent>>

None == [lines |-> <<>>, exists |-> FALSE, vars |-> <<>>, funs |-> <<>>, removed |-> FALSE,
         digits |-> Exact]

-----------------------------------------------------------------------------
(* One formula, typed or loaded: the lists after it.                       *)
Entered(line, vs, fs, order) ==
  LET e == AsRead(line, DOMAIN vs)
      r == Evaluate(e, vs, fs, [active |-> {}, order |-> order])
      Same(how) == [how |-> how, vars |-> vs, funs |-> fs, set |-> FALSE, defined |-> FALSE]
  IN  CASE ~CanRead(line, fs) -> Same("error")
        [] CanRead(line, fs) /\ e.op = "def" ->
             IF CanDefine(e, vs, fs)
             THEN [Same("ok") EXCEPT !.defined = TRUE, !.funs = WithFunction(fs, e)]
             ELSE Same("error")
        [] OTHER -> [Same(r.how) EXCEPT !.vars = r.vars, !.set = r.set]

(* save() writes the free variables, then the functions in their order.   *)
(* Numbers, and those in the bodies, get as many digits as are set.        *)
VariableLines(vs, digits) ==
  [i \in 1..Cardinality(Free(vs)) |->
     LET v == SetToSeq(Free(vs))[i] IN Assign(v, AsPrinted(Num(vs[v].value), digits))]

FunctionLines(fs, digits) ==
  [i \in DOMAIN fs |-> Define(fs[i].name, fs[i].param, AsPrinted(fs[i].body, digits))]

(* A bug for comparison: functions before the variables they need. *)
LinesFunctionsFirst(vs, fs, digits) == FunctionLines(fs, digits) \o VariableLines(vs, digits)
Lines(vs, fs, digits) == VariableLines(vs, digits) \o FunctionLines(fs, digits)

(* load() evaluates line by line; what fails is reported and passed over. *)
Loaded(lines, vs, fs) ==
  FoldLeft(LAMBDA s, line : LET r == Entered(line, s.vars, s.funs, "left")
                            IN  [vars |-> r.vars, funs |-> r.funs],
           [vars |-> vs, funs |-> fs], lines)

Fresh == [v \in DOMAIN Locked |-> [value |-> Locked[v], protect |-> TRUE]]

Content(vs, fs) == <<Values(vs), fs>>

-----------------------------------------------------------------------------
Init == /\ vars = Fresh /\ funs = <<>> /\ varMod = FALSE /\ funMod = FALSE
        /\ file = None /\ precision \in Precisions /\ phase = "running" /\ commands = 0
        /\ removed = FALSE /\ base = Content(Fresh, <<>>) /\ silent = FALSE

Command == phase = "running" /\ commands < MaxCommands /\ commands' = commands + 1

(* A formula is typed in. *)
Enter(line, order) ==
  /\ Command
  /\ LET r == Entered(line, vars, funs, order)
     IN  /\ vars' = r.vars
         /\ funs' = r.funs
         /\ varMod' = (varMod \/ r.set)
         /\ funMod' = (funMod \/ r.defined)
         /\ silent' = (silent \/ (r.vars # vars /\ ~r.set))
         /\ phase' = CASE r.how \in {"null", "crash"} -> "crashed"
                       [] r.how = "endless"           -> "endless"
                       [] OTHER                       -> "running"
  /\ UNCHANGED <<file, precision, removed, base>>

RemoveVariable(v) ==
  /\ Command /\ v \in DOMAIN vars
  /\ vars' = WithoutVariable(vars, v)
  /\ removed' = TRUE /\ silent' = TRUE
  /\ UNCHANGED <<funs, varMod, funMod, file, precision, phase, base>>

UndefineFunction(f) ==
  /\ Command /\ f \in FunNames(funs)
  /\ funs' = WithoutFunction(funs, f)
  /\ removed' = TRUE /\ silent' = TRUE
  /\ UNCHANGED <<vars, varMod, funMod, file, precision, phase, base>>

(* The user may refuse to overwrite a file, and it may not be writable. *)
Save ==
  /\ Command
  /\ \/ /\ file' = [lines |-> Lines(vars, funs, precision), exists |-> TRUE, removed |-> removed,
                    vars |-> Values(vars), funs |-> funs, digits |-> precision]
        /\ varMod' = FALSE /\ funMod' = FALSE
        /\ base' = Content(vars, funs) /\ silent' = FALSE
     \/ UNCHANGED <<file, varMod, funMod, base, silent>>
  /\ UNCHANGED <<vars, funs, precision, phase, removed>>

(* The flags are put back as they were. *)
Load ==
  /\ Command /\ file.exists
  /\ LET s == Loaded(file.lines, vars, funs)
     IN  vars' = s.vars /\ funs' = s.funs
  /\ silent' = TRUE
  /\ UNCHANGED <<varMod, funMod, file, precision, phase, removed, base>>

SetPrecision(digits) ==
  /\ Command
  /\ precision' = digits
  /\ UNCHANGED <<vars, funs, varMod, funMod, file, phase, removed, base, silent>>

(* A bug for comparison: only the variables are asked for. *)
QuitWithFunctions ==
  /\ phase = "running"
  /\ phase' = IF varMod THEN "asked" ELSE "ended"
  /\ UNCHANGED <<vars, funs, varMod, funMod, file, precision, commands, removed, base, silent>>

(* quit, or the end of the input *)
Quit ==
  /\ phase = "running"
  /\ phase' = IF varMod \/ funMod THEN "asked" ELSE "ended"
  /\ UNCHANGED <<vars, funs, varMod, funMod, file, precision, commands, removed, base, silent>>

Answer ==
  /\ phase = "asked"
  /\ phase' \in {"running", "left"}
  /\ UNCHANGED <<vars, funs, varMod, funMod, file, precision, commands, removed, base, silent>>

(* fizzcal -c file [-p digits]: a new session begins with what was saved. *)
Restart ==
  /\ phase \in {"ended", "left", "crashed", "endless"} /\ commands < MaxCommands
  /\ LET s == IF file.exists THEN Loaded(file.lines, Fresh, <<>>)
              ELSE [vars |-> Fresh, funs |-> <<>>]
     IN  vars' = s.vars /\ funs' = s.funs /\ base' = Content(s.vars, s.funs)
  /\ varMod' = FALSE /\ funMod' = FALSE /\ silent' = FALSE
  /\ precision' \in Precisions
  /\ phase' = "running" /\ removed' = (file.exists /\ file.removed)
  /\ UNCHANGED <<file, commands>>

Off == phase \in {"ended", "left", "crashed", "endless"} /\ UNCHANGED cvars

Next == \/ \E line \in Entries, order \in {"left", "right"} : Enter(line, order)
        \/ \E n \in Removable : RemoveVariable(n) \/ UndefineFunction(n)
        \/ \E digits \in Precisions : SetPrecision(digits)
        \/ Save \/ Load \/ Quit \/ Answer \/ Restart \/ Off

Spec == Init /\ [][Next]_cvars

-----------------------------------------------------------------------------
(* Properties                                                              *)

(* The lists that were saved are what a new session starts with, as long   *)
(* as nothing had been undefined: every line is accepted again, in this    *)
(* order, no value is off by more than half of the last digit that was     *)
(* printed, and what is saved again is the same file.  With enough digits  *)
(* for every number, nothing at all has changed.                           *)
ListsAreRestored ==
  file.exists /\ ~file.removed =>
    LET s   == Loaded(file.lines, Fresh, <<>>)
        now == Values(s.vars)
        off == Half(file.digits)
    IN  /\ DOMAIN now = DOMAIN file.vars
        /\ \A v \in DOMAIN now : now[v] - file.vars[v] \in -off..off
        /\ Lines(s.vars, s.funs, file.digits) = file.lines
        /\ file.digits = Exact => Content(s.vars, s.funs) = <<file.vars, file.funs>>

(* The program does not end without asking when variables or functions     *)
(* have changed, but for what sets no flag: undefining, what a sum writes  *)
(* back, and what is loaded.                                               *)
QuitAsksWhenChanged == phase = "ended" /\ ~silent => Content(vars, funs) = base

(* Predefined variables keep their values: calls and sums work on copies,  *)
(* in which alone the protection is taken away.                            *)
ConstantsStay == ~removed => \A v \in DOMAIN Locked : v \in DOMAIN vars /\ vars[v] = Fresh[v]

(* A call ends: functions are defined of functions there are already, so   *)
(* that there is no recursion unless one of them is undefined and defined  *)
(* again.                                                                  *)
CallsEnd == phase = "endless" => removed

(* Names that are used as parameters and indices only do not become        *)
(* variables of the session.                                               *)
LocalsStayLocal == DOMAIN vars \subseteq DOMAIN Locked \cup UNION {AssignedBy(e) : e \in {d \in Entries : d.op # "def"}}

(* What calls and sums do stays within them.                               *)
ScopesAreKept == LocalsStayLocal /\ ConstantsStay
================================================================================
