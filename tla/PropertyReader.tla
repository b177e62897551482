----------------------------- MODULE PropertyReader -----------------------------
(***************************************************************************)
(* utils::PropertyReader (fztooltempl/propertyreader.cpp): key=value pairs *)
(* in sections, read from a file, changed in memory, and written, or       *)
(* merged into what the file holds.  A step is a call.  A text is a        *)
(* sequence of characters; a tab, a carriage return and a colon are like   *)
(* the blank, the line feed and the equals sign.                           *)
(***************************************************************************)
EXTENDS Integers, Sequences, FiniteSets, SequencesExt, Functions

CONSTANTS Starts,      \* files to begin with, what a CmdlParser adds (key -> value),
                       \* and the number of calls made then
          Names, NewValues, Sections,  \* what is set in memory
          CharOrder    \* the characters, in their order

VARIABLES file,       \* the file's text
          parameters, \* the CmdlParser's
          mem,        \* sections: [section -> [key -> value]]
          status,     \* how the last call ended: "ok", or what was thrown
          errorline,  \* the line that read() told
          did,        \* the last call
          left        \* bound: calls that are left

pvars == <<file, parameters, mem, status, errorline, did, left>>

NoSection == <<"NO">>
Zero == "zero"
Delimitors == {"LF", Zero}
Separators == {"="}
Blanks == {" "}

-----------------------------------------------------------------------------
(* Parser: reads t a character at a time.  The end shows when a read       *)
(* fails; the character is then the one before.                            *)

Parser == [at |-> 1, eof |-> FALSE, c |-> Zero, line |-> 0, section |-> NoSection, store |-> <<>>]

ReadChar(t, p) == IF p.at > Len(t) THEN [p EXCEPT !.eof = TRUE] ELSE [p EXCEPT !.c = t[p.at], !.at = @ + 1]

(* skipSpaces() *)
RECURSIVE SkipSpaces(_, _)
SkipSpaces(t, p) == IF p.c \notin Blanks \/ p.eof THEN p ELSE SkipSpaces(t, ReadChar(t, p))

(* To the end of the line; what is read is kept if store is TRUE.          *)
RECURSIVE SkipLine(_, _, _)
SkipLine(t, p, store) ==
  LET q == ReadChar(t, p)
      r == IF store THEN [q EXCEPT !.store = Append(@, q.c)] ELSE q
  IN  IF p.eof THEN p ELSE IF q.c \in Delimitors THEN r ELSE SkipLine(t, r, store)

(* overreadCommentline(), skipRestOfLine() *)
CommentLine(t, p) == LET r == SkipLine(t, [p EXCEPT !.store = Append(@, p.c)], TRUE)
                     IN  IF r.eof THEN r ELSE [r EXCEPT !.line = @ + 1]
RestOfLine(t, p) == SkipLine(t, p, FALSE)

Thrown(p, what) == [p |-> p, result |-> what]

(* String::trim() *)
Trim(s) ==
  LET ink == {i \in DOMAIN s : s[i] \notin Blanks}
  IN  IF ink = {} THEN <<>>
      ELSE SubSeq(s, CHOOSE i \in ink : \A j \in ink : i <= j, CHOOSE i \in ink : \A j \in ink : i >= j)

(* readCurrentSection() *)
RECURSIVE Section(_, _, _)
Section(t, p, name) ==
  LET q == ReadChar(t, p)
      named == [q EXCEPT !.section = IF Trim(name) = <<>> THEN NoSection ELSE Trim(name)]
  IN  CASE p.eof -> Thrown(p, "EOF")
        [] ~p.eof /\ q.c = "]" -> LET r == RestOfLine(t, named) IN Thrown(r, IF r.eof THEN "EOF" ELSE "ok")
        [] ~p.eof /\ q.c \in Delimitors -> Thrown(q, "Syntax")
        [] OTHER -> Section(t, q, Append(name, q.c))

(* A bug for comparison: blank lines are not counted. *)
Leading_NotCounted(p) == p

(* A blank line. *)
Leading(p) == [p EXCEPT !.line = @ + 1]

(* nextKeyValuePair(), to the first character of a key.                    *)
RECURSIVE Lead(_, _)
Lead(t, p) ==
  LET q == SkipSpaces(t, ReadChar(t, p))
      s == Section(t, q, <<>>)
  IN  CASE p.eof \/ (q.eof /\ q.c \in Blanks) -> Thrown(p, "EOF")
        [] ~p.eof /\ q.c = "#" -> LET r == CommentLine(t, q) IN IF r.eof THEN Thrown(r, "EOF") ELSE Lead(t, r)
        [] ~p.eof /\ q.c = "[" -> IF s.result = "ok" THEN Lead(t, s.p) ELSE s
        [] ~p.eof /\ q.c \in Delimitors -> Lead(t, Leading([q EXCEPT !.store = Append(@, "LF")]))
        [] OTHER -> Thrown(q, "ok")

(* The key, and the separator behind it.                                   *)
RECURSIVE Key(_, _, _)
Key(t, p, key) ==
  LET s == SkipSpaces(t, p)
      ended(q) == [p |-> ReadChar(t, q), result |-> IF key = <<>> THEN "NoID" ELSE "ok", key |-> key]
  IN  CASE p.eof -> Thrown(p, "NoVal")
        [] ~p.eof /\ p.c \in Separators -> ended(p)
        [] ~p.eof /\ p.c \in Delimitors -> Thrown(p, "NoVal")
        [] ~p.eof /\ p.c \in Blanks ->
             CASE s.eof -> Thrown(s, "NoVal")
               [] ~s.eof /\ s.c \notin Separators -> Thrown(s, "Syntax")
               [] OTHER -> ended(s)
        [] OTHER -> Key(t, ReadChar(t, p), Append(key, p.c))

(* The value: blanks count when something follows them.                    *)
RECURSIVE Value(_, _, _, _)
Value(t, p, value, blanks) ==
  LET ink  == p.c \notin Blanks
      more == IF ink THEN value \o blanks \o <<p.c>> ELSE value
  IN  CASE p.c \in Delimitors -> [p |-> p, result |-> IF value = <<>> THEN "NoVal" ELSE "ok", value |-> value]
        [] p.c \notin Delimitors /\ p.eof -> [p |-> p, result |-> "ok", value |-> more]
        [] OTHER -> Value(t, ReadChar(t, p), more, IF ink THEN <<>> ELSE Append(blanks, p.c))

(* nextKeyValuePairSaveComments(): what is before the key, the key, the    *)
(* blanks before the value, the value.                                     *)
Pair(key, value) == IF value.result # "ok" THEN value
                    ELSE [p |-> value.p, result |-> "ok", key |-> key, value |-> value.value]
FromValue(t, key, start) == IF start.c \in Blanks THEN Thrown(start, "NoVal") ELSE Pair(key, Value(t, start, <<>>, <<>>))
BehindKey(t, key)  == IF key.result # "ok" THEN key ELSE FromValue(t, key.key, SkipSpaces(t, key.p))
BehindLead(t, lead) == IF lead.result # "ok" THEN lead ELSE BehindKey(t, Key(t, lead.p, <<>>))
NextPair(t, p) == BehindLead(t, Lead(t, [p EXCEPT !.line = @ + 1, !.c = Zero]))

-----------------------------------------------------------------------------
(* The sections in memory.                                                 *)

Put(m, s, k, v) == [x \in DOMAIN m \cup {s} |->
                      IF x # s THEN m[x]
                      ELSE [y \in (IF s \in DOMAIN m THEN DOMAIN m[s] ELSE {}) \cup {k} |-> IF y = k THEN v ELSE m[s][y]]]
Drop(m, s, k) == IF s \notin DOMAIN m THEN m ELSE [m EXCEPT ![s] = [y \in DOMAIN @ \ {k} |-> @[y]]]

(* std::map goes through its keys in the order of their texts.             *)
Rank(c) == CHOOSE i \in DOMAIN CharOrder : CharOrder[i] = c
TextLess(x, y) ==
  \/ IsStrictPrefix(x, y)
  \/ \E i \in DOMAIN x \cap DOMAIN y : SubSeq(x, 1, i - 1) = SubSeq(y, 1, i - 1) /\ Rank(x[i]) < Rank(y[i])
InOrder(set) == SetToSortSeq(set, TextLess)

Line(k, v)   == k \o <<"=">> \o v \o <<"LF">>
Header(s)    == <<"[">> \o s \o <<"]", "LF">>
Lines(props) == FlattenSeq([i \in DOMAIN InOrder(DOMAIN props) |->
                              LET k == InOrder(DOMAIN props)[i] IN Line(k, props[k])])

-----------------------------------------------------------------------------
(* The loop of read(): r is the pair that was read; pairs without a value  *)
(* are left out.                                                           *)
RECURSIVE ReadLoop(_, _, _)
ReadLoop(t, r, m) ==
  CASE r.result = "ok"    -> ReadLoop(t, NextPair(t, r.p), Put(m, r.p.section, r.key, r.value))
    [] r.result = "NoVal" -> ReadLoop(t, NextPair(t, r.p), m)
    [] OTHER -> [m |-> m, result |-> r.result, line |-> r.p.line]

AddParameters(m) ==
  IF parameters = <<>> THEN m
  ELSE [x \in DOMAIN m \cup {NoSection} |->
          IF x # NoSection THEN m[x] ELSE parameters @@ (IF NoSection \in DOMAIN m THEN m[NoSection] ELSE <<>>)]

(* The loop of update(): u holds the parser, with the new text in its      *)
(* store, the properties that are still to be written, and the section     *)
(* that is being written (<<>> in the beginning).                          *)
EnterSection(u, section) ==
  LET rest   == IF u.written = <<>> THEN <<>> ELSE Lines(u.todo[u.written])
      todo   == IF u.written = <<>> THEN u.todo ELSE [u.todo EXCEPT ![u.written] = <<>>]
      header == IF u.written = <<>> /\ section = NoSection THEN <<>> ELSE Header(section)
  IN  [u EXCEPT !.todo = todo, !.written = section,
                !.p.store = @ \o rest \o (IF rest = <<>> THEN <<>> ELSE <<"LF">>) \o header]

(* A bug for comparison: a property is written each time the file has it,  *)
(* and again in the end.                                                   *)
Merge_Stays(u, key) ==
  LET s == u.written
  IN  IF key \in DOMAIN u.todo[s] THEN [u EXCEPT !.p.store = @ \o Line(key, u.todo[s][key]), !.todo[s][key] = <<"b">>]
      ELSE u

(* A property of the file is written with its value in memory, or left out.*)
Merge(u, key) ==
  LET s == u.written
  IN  IF key \in DOMAIN u.todo[s]
      THEN [u EXCEPT !.p.store = @ \o Line(key, u.todo[s][key]), !.todo = Drop(@, s, key)]
      ELSE u

RECURSIVE UpdateLoop(_, _, _), UpdateNext(_, _)
UpdateNext(u, keep) == UpdateLoop(u, NextPair(file, u.p), keep)

UpdateLoop(u, r, keep) ==
  LET v == [u EXCEPT !.p = r.p]
      section == r.p.section
      w == IF v.written = section THEN v ELSE EnterSection(v, section)
      missing(s) == s # <<>> /\ s \notin DOMAIN mem
  IN  CASE r.result = "NoVal" -> UpdateNext(v, keep)
        [] r.result = "ok" /\ section \notin DOMAIN mem /\ ~keep -> UpdateNext(v, keep)
        [] r.result = "ok" /\ (section \in DOMAIN mem \/ keep) ->
             IF missing(u.written) \/ missing(section) THEN [u |-> v, result |-> "NoSection"]
             ELSE UpdateNext(Merge(w, r.key), keep)
        [] OTHER -> [u |-> v, result |-> r.result]

(* What the file does not have comes behind it.                            *)
AddSection(u, s) ==
  LET header == (u.written # NoSection /\ u.written # <<>>) \/ (u.written # s /\ s # NoSection)
  IN  IF u.todo[s] = <<>> THEN u
      ELSE [u EXCEPT !.written = s,
                     !.p.store = @ \o (IF header THEN <<"LF">> \o Header(s) ELSE <<>>) \o Lines(u.todo[s])]

Updated(keep) ==
  LET loop == UpdateNext([p |-> Parser, todo |-> mem, written |-> <<>>], keep)
      all  == FoldLeft(AddSection, loop.u, InOrder(DOMAIN mem))
  IN  IF loop.result = "EOF" THEN [result |-> "ok", text |-> all.p.store] ELSE [result |-> loop.result, text |-> file]

(* toString() *)
Shown ==
  LET others == InOrder(DOMAIN mem \ {NoSection})
  IN  Lines(mem[NoSection])
        \o FlattenSeq([i \in DOMAIN others |-> <<"LF">> \o Header(others[i]) \o Lines(mem[others[i]])])

-----------------------------------------------------------------------------
Init == /\ \E s \in Starts : file = s.file /\ parameters = s.parameters /\ left = s.calls
        /\ mem = <<>> /\ status = "ok" /\ errorline = 0 /\ did = "nothing"

Call(name) == left > 0 /\ left' = left - 1 /\ did' = name /\ UNCHANGED parameters

Read ==
  /\ Call("read")
  /\ LET r == ReadLoop(file, NextPair(file, Parser), mem)
     IN  /\ mem' = IF r.result = "EOF" THEN AddParameters(r.m) ELSE r.m
         /\ status' = IF r.result = "EOF" THEN "ok" ELSE r.result
         /\ errorline' = r.line
  /\ UNCHANGED file

InMemory(m) == mem' = m /\ status' = "ok" /\ UNCHANGED <<file, errorline>>

Set(s, k, v) == Call("set") /\ InMemory(Put(mem, s, k, v))

Erase(s, k) == Call("erase") /\ InMemory(Drop(mem, s, k))

(* get() makes a property that is not there. *)
Get(s, k) ==
  /\ Call("get")
  /\ IF s \notin DOMAIN mem THEN status' = "NoSection" /\ UNCHANGED <<file, mem, errorline>>
     ELSE InMemory(IF k \in DOMAIN mem[s] THEN mem ELSE Put(mem, s, k, <<>>))

Clear == Call("clear") /\ InMemory(<<>>)

Update(keep) ==
  /\ Call("update")
  /\ LET r == Updated(keep) IN file' = r.text /\ status' = r.result
  /\ UNCHANGED <<mem, errorline>>

(* write(): the file is emptied before toString() asks for the properties  *)
(* without a section.                                                      *)
Write ==
  /\ Call("write")
  /\ IF NoSection \in DOMAIN mem THEN file' = Shown /\ status' = "ok"
     ELSE file' = <<>> /\ status' = "NoSection"
  /\ UNCHANGED <<mem, errorline>>

Next == \/ Read \/ Clear \/ Write
        \/ \E keep \in BOOLEAN : Update(keep)
        \/ \E s \in Sections, k \in Names : Erase(s, k) \/ Get(s, k) \/ \E v \in NewValues : Set(s, k, v)

Spec == Init /\ [][Next]_pvars

-----------------------------------------------------------------------------
(* Properties: what a file means, line by line.                            *)

(* The lines of a text, without their line feeds.                          *)
LinesOf(t) ==
  LET end(i) == IF i > Len(t) THEN t # <<>> /\ Last(t) # "LF" ELSE t[i] = "LF"
      ends == SelectSeq([i \in 1..(Len(t) + 1) |-> i], end)
  IN  [i \in DOMAIN ends |-> SubSeq(t, IF i = 1 THEN 1 ELSE ends[i - 1] + 1, ends[i] - 1)]

Has(l, c) == \E i \in DOMAIN l : l[i] = c
Where(l, c) == CHOOSE i \in DOMAIN l : l[i] = c /\ \A j \in 1..(i - 1) : l[j] # c

(* A line: nothing, a comment, a section, a pair, or an error.             *)
Kind(l) ==
  LET x == Trim(l)
      key == SubSeq(x, 1, Where(x, "=") - 1)
  IN  CASE x = <<>> -> [kind |-> "nothing"]
        [] x # <<>> /\ x[1] = "#" -> [kind |-> "comment"]
        [] x # <<>> /\ x[1] = "[" ->
             IF ~Has(x, "]") THEN [kind |-> "Syntax"]
             ELSE LET s == Trim(SubSeq(x, 2, Where(x, "]") - 1)) IN [kind |-> "section", name |-> IF s = <<>> THEN NoSection ELSE s]
        [] x # <<>> /\ x[1] \notin {"#", "["} /\ ~Has(x, "=") ->
             [kind |-> IF Has(x, " ") \/ (Last(l) = " ") THEN "Syntax" ELSE "nothing"]
        [] OTHER ->
             CASE x[1] = "=" -> [kind |-> "NoID"]
               [] x[1] # "=" /\ Has(Trim(key), " ") -> [kind |-> "Syntax"]
               [] OTHER -> LET v == Trim(SubSeq(x, Len(key) + 2, Len(x)))
                           IN  IF v = <<>> THEN [kind |-> "nothing"] ELSE [kind |-> "pair", key |-> Trim(key), value |-> v]

(* What the file means for a reader that has m already.                    *)
Meaning(t, m) ==
  LET lines == LinesOf(t)
      take(r, l) ==
        LET k == Kind(l)
        IN  CASE r.result # "ok" -> r
              [] r.result = "ok" /\ k.kind \in {"nothing", "comment"} -> [r EXCEPT !.line = @ + 1]
              [] r.result = "ok" /\ k.kind = "section" -> [r EXCEPT !.line = @ + 1, !.section = k.name]
              [] r.result = "ok" /\ k.kind = "pair" -> [r EXCEPT !.line = @ + 1, !.m = Put(@, r.section, k.key, k.value)]
              [] OTHER -> [r EXCEPT !.line = @ + 1, !.result = k.kind]
  IN  FoldLeft(take, [m |-> m, result |-> "ok", section |-> NoSection, line |-> 0], lines)

Terminated(t) == t = <<>> \/ Last(t) = "LF"
HasSection(t) == \E i \in DOMAIN LinesOf(t) : Kind(LinesOf(t)[i]).kind = "section"

(* read() takes what the lines of the file say, in the section above them, *)
(* and tells the line of an error.  Left out: a last line without a line   *)
(* feed, and the number of a line below the name of a section, which does  *)
(* not count.                                                              *)
ReadIsRight(t) ==
  LET right == Meaning(t, mem)
  IN  /\ status' = right.result
      /\ mem' = IF right.result = "ok" THEN AddParameters(right.m) ELSE right.m
      /\ status' # "ok" /\ ~HasSection(t) => errorline' = right.line
ReadsTheFile == [][did' = "read" /\ Terminated(file) => ReadIsRight(file)]_pvars

(* The same of every file.                                                 *)
ReadsEveryFile == [][did' = "read" => ReadIsRight(file)]_pvars

(* What a file can hold: no empty values, and no empty sections.           *)
Full(m) == LET props(s) == {k \in DOMAIN m[s] : m[s][k] # <<>>}
           IN  [s \in {x \in DOMAIN m : props(x) # {}} |-> [k \in props(s) |-> m[s][k]]]
Comments(t) == LET x == LinesOf(t) IN SelectSeq([i \in DOMAIN x |-> Trim(x[i])], LAMBDA l : l # <<>> /\ l[1] = "#")

(* What update() and write() leave in the file is what is in memory, for a *)
(* reader that begins with nothing; update() keeps the comments; a call    *)
(* that throws leaves the file alone.  Left out: a last line without a     *)
(* line feed, and write() without the unnamed section, which empties the   *)
(* file.                                                                   *)
FileIsSaved ==
  LET after == Meaning(file', <<>>)
  IN  /\ status' = "ok" => after.result = "ok" /\ after.m = Full(mem)
      /\ did' = "update" => Comments(file') = Comments(file)
      /\ status' # "ok" => file' = file
SavesWhatItHas ==
  [][(did' = "update" /\ Terminated(file)) \/ (did' = "write" /\ status' = "ok") => FileIsSaved]_pvars
=============================================================================
