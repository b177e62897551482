# Verification of fizzware

fizzware is a collection of C++ libraries and small programs.  This directory holds TLA+ models
of its stateful parts, the TLC configurations that check them on small instances, and TLAPS
proofs of their main properties for every instance.  All paths below are relative to the
repository.

Contents: [inventory](#inventory) - [plan](#plan) - [modules](#modules) - [runs](#runs) -
[proofs](#proofs) - [what is not modelled](#not-modelled)

## Inventory

### The registration daemon and the system libraries it runs on

| component | state | operations | what makes it correct |
|---|---|---|---|
| `MsgQueueList` (msgqrd/src/msgqueuelist.*) | a `std::list` of (name, id) | insert, find, erase, get | sorted, no name twice |
| `Scanner`, `Token` (msgqrd/src/scanner.*) | a file descriptor | nextToken, nextULongToken, `==` | a token is what arrived up to the next NUL; a command is recognised |
| `MsgQueueRegDaemon` (msgqrd/src/msgqueueregdaemon.*) | in the service: the list; in each handler: `status`, the reply queue, the client's socket | parse, handleMessage, alarmhandler, pipehandler | a client is told the result of its own command; registrations are neither lost nor invented; reply queues are removed; time-outs end handlers |
| `StdMessageServer` (fzsystools/stdmessageserver.*) | pid file, process ids, `messagequeue`, server socket | start, handleClient, connectionHandler, signal handlers | one service at a time; a failing handler does not take the service down; everything is cleaned up at the end |
| `MessageQueue`, `Message` (fzsystools/messagequeue.*) | a SysV queue id, a removal flag | create, send, receive, exists, destructor | a queue is removed by its owner, once |
| `MsgQueueRegClient` (fzsystools/msgqueueregclient.*) | a socket | addPort, findPort, removePort, nextToken | the answer is the one to the request |
| `TCPServer`, `TCPClient`, `Socket` (fzsystools) | sockets, the path of a unix socket | init, waitForConnection, shutdown | a client does not disturb the server's address |
| `SignalHandler` (fzsystools/signalhandler.*) | a set of signals and a disposition | addSignal, setHandler, init | signals interrupt blocking calls (no `SA_RESTART`) |
| `Semaphor` (fzsystools/semaphor.*) | a SysV semaphore, a removal flag | create, p, v, block, destructor | mutual exclusion, no unit lost, no lost wake-up |
| `Process` (process/src) | a child's pid, flags | launch, abort, terminate, sendSignal, wait, destructor | only one's own children are signalled; none is left behind |

The daemon is the part where processes meet: a service process, a connection observer and one
protocol handler per connection, which share no memory and talk through SysV message queues,
signals and sockets.  A client connects, the observer forks a handler; the handler creates a
reply queue, arms an alarm, scans a command, sends it to the service's queue together with the
id of its reply queue, and waits; the service executes the commands one at a time on the list it
owns and sends each result to the reply queue named; the handler forwards it to the client,
removes its reply queue and ends.  A signal can interrupt each blocking call of each process.

### The template library (fztooltempl)

| component | state | operations | what makes it correct |
|---|---|---|---|
| `ds::RingBuffer` | a fixed array, two indices, a count | enqueue, dequeue, `[]`, skip | a first-in first-out queue of bounded length |
| `ds::DynamicBuffer` | a list of blocks, an offset, counts | put, merge, clear; get() cannot be instantiated | merge returns what was put, also after clear and a second merge |
| `ds::BTree`, `BinaryTreeBranch` | a binary tree whose nodes are also linked in order | insert, erase, find, iterators, destructor | the links visit each element once and in order, also while an iterator is on its way |
| `ds::Stack`, `MemPointer`, `BitMatrix` | wrappers | push/pop, get, bit access | - |
| `util::Observable`, `Observer`, `ChangeNotifier`, `SmartObserver` | a set of observers per notifier, a set of notifiers per SmartObserver, a flag, a value | addObserver, addToNotifier, removals, setValue, notifyObservers, destructors; each may be called from an update() | both sides agree; nobody is notified after its end; everybody knows the stored value when the flag is clear |
| `graph::SCCProcessor`, collectors | per-vertex numbers, a stack, the recursion | find_scc, scc_visit, processComponentNode | every node in one component, connected nodes in the same one |
| `parse::LexScreener`, `LexScanner` | an istream, a line number, the current token and the one before | nextToken, nextLine, putback | the tokens are those of the text, each on its line; what was put back comes again |
| `llp::Grammar`, `LLParser` | rules, symbols, sets per symbol; a stack of tokens, productions | the operators that write a grammar, prepare, parse depth first or breadth first | the sets are the least fixed points; a word is accepted if and only if the grammar derives it; the parser ends |
| `mexp::MathExpression` | the tree of a formula, lists of variables and functions with a modified flag each | parse, check, eval, assign, define, call | the tree is what the priorities say; nothing but what an assignment names changes |
| `cmdl::CmdlParser` | sets of options, parameters, synonyms, aliases; what was found | the declarations, parse | what is found is what was given; a line is refused if and only if it is not as declared |
| `utils::PropertyReader` | values by key and section; a file | read, update, write, set, get, erase, clear | what is written is what is read again; comments survive an update |
| `primlist`, `test`, `exception`, `functions` | - | - | - |

### Programs

`fizzcal` is a calculator on `mexp`: a session with variables and functions that can be saved to
a file, from which the next one begins.  `matchit` is a matcher with an automaton over bash
patterns; `hpreis`, `prim`, `primfak`, `msgqrclient`, `fztestenv` and the demonstrations under
`test/` are command line front ends, one thread of control each.

### Hard behaviours

`PROJECT.json` lists them under "hazards", each at its line.  In short: orders of signals and
blocking calls (the alarm, the termination signals), a handler that gives up while its command
is being executed, resources of the kernel that outlive the process that created them, checks
that are stale when they are used (the pid file, the registered queue id), the index arithmetic
of the buffers, re-entrant notification, two structures over the same nodes (the tree and its
links), the end of a text that shows only after it was read, what can be put back and what
cannot, pointers that an earlier turn of a loop has left, and files whose lines depend on each
other's order.

## Plan

The daemon comes first, because that is where processes meet; then the libraries it rests on;
then the template library, in the order of how much state a class keeps.

| step | module | what | state |
|---|---|---|---|
| 1 | `MsgQueueList`, `Registry`, `MsgQRD` | the list, the abstract registry, the daemon that implements it | modelled, checked, safety and refinement proved |
| 2 | `ServerLifecycle` | two instances from pid file to end, with signals and the socket's path | modelled, checked, safety proved |
| 3 | `Semaphor`, `Process` | the two wrappers around the kernel | modelled, checked, safety proved |
| 4 | `BoundedFifo`, `RingBuffer` | a queue and the array that implements it | modelled, checked, refinement proved |
| 5 | `DynamicBuffer`, `Observers`, `SCC` | block buffer, re-entrant notification, component search | modelled, checked, safety proved |
| 6 | `SortedBag`, `BTree` | a sorted bag, and the threaded tree that implements it | modelled, checked, safety and refinement proved |
| 7 | `Grammar`, `LLParser` | prepare() over the sets it finds, both parsers against derivation | modelled, checked |
| 8 | `LexTokens`, `Scanner`, `TokenReader`, `Lexer` | the tokens of a text by definition, the scanner that finds them, its calls | modelled, checked; `TokenReader` proved |
| 9 | `Notation`, `Formula`, `VariableLists`, `Evaluation`, `Calculator` | formulas by grammar, the parser that hangs nodes into a tree, evaluation, sessions of fizzcal | modelled, checked; the question at the end of a session proved |
| 10 | `PropertyReader`, `CmdlParser` | file format, options | modelled, checked; `CmdlParser` proved |
| 11 | `RegClient` | the client of the registry: how it reads answers, composed with the answers `MsgQRD` writes | left |
| 12 | `Workers` | process/src/main.cpp: `Process` and `Semaphor` composed, with a child whose main() throws | left |
| 13 | `BashAutomat`, `MemPointer` | shell patterns, ownership | left |

Abstract specifications: `Registry` (for `MsgQRD`), `BoundedFifo` (for `RingBuffer`) and
`SortedBag` (for `BTree`) are implemented by refinement; `LexTokens`, `Notation` and the
derivations in `LLParser` are definitions that the reading of a text is held against.

## Modules

Each module's header names its files, and "map" in `PROJECT.json` gives the lines of each
definition.  A definition whose comment begins with "Variant:" or "A bug for comparison:" is not
part of the model: it is a defective form of the definition that follows it, used to see that a
property notices.

### MsgQueueList, Registry, MsgQRD

`MsgQueueList` has the list's operators: `Find`, `Insert`, `Erase` on a sequence of (name, id),
with `Sorted` as what keeps them right.  Names are numbers, which are ordered as the strings
are.

`MsgQRD` is the daemon between its start and its end.  Its processes:

* the **service** (`mpc`, `list`, `mainq`, `mreply`): `HandleMessage` takes one message and
  executes it on the list (`HandleAdd`, `HandleFind`, `HandleRemove`, including the look at
  whether the named queue still exists), `SendResult` sends the answer, `Terminate` is SIGTERM
  in msgrcv(), `StopGroup` the SIGTERM it sends to its group in the end;
* one **handler** per connection (`hpc`, `alarm`, `status` as the control points, `rqueues`,
  `replyq`, `hreply`): `OpenReplyQueue`, `ResetStatus`, `ScanCommand`, `ScanName`, `ScanId`,
  `SendCommand`, `ReceiveReply`, `Forward`, `Finish`, `Close` follow parse() statement by
  statement, each blocking call being a step of its own; `Alarm` is the signal handler, which
  interrupts a blocking call or meets none;
* the **client** (`req`, `sent`, `conn`, `out`): `Connect`, `ClientWrites` (one token at a
  time), `ClientCloses` at any time;
* the kernel and the owners of the registered ports: `PortVanishes`.

`result` is a history of what was decided for each handler.  `CountSurvivesMerge` chooses
between the scanner as it is (FALSE: the size of every token is 0, so that every command is
skipped; run "dropped") and as the code around it expects it (TRUE); without that no command
would be executed and nothing else could be seen.  `Registry` is what the service promises: a
map from names to ids, on which each call takes effect once, between its request and its answer.

msgget() may fail at any time, because the kernel's queues are shared with other programs. Left
out: names of 10 characters and more; messages that did not come from a handler; the reuse of
queue ids by the kernel; `exists()` and the insertion that follows are one step of the only
process that changes the list.

### ServerLifecycle

`StdMessageServer::start()` for several instances and clients: the pid file (`Check`, `Create`,
two steps), the signals (`InitSignals`), the queue (`OpenQueue`), the observer (`Fork`, then
`ObserverReady` ... `ObserverKills`), the loop (`Receive`, `Awake`, `Handle`) and the two ways
out (`KillObserver`, `ErasePidFile`, `Leave`), including the unwinding of an instance that is
refused, whose MessageQueue object removes the queue with the id it was never given. `Terminate`
is SIGTERM at any moment; what it does depends on where it meets the process.  `asked`, `lost`
and `overwritten` are histories.  The handlers are in `MsgQRD`.  SIGKILL, a failing fork() and
other users' permissions are left out; daemonize() calls setsid(), so each instance signals its
own group only.

### Semaphor, Process

`Semaphor` has the creator (`Create`, `SetOwner`, `SetValue`, `Block`, `Remove`, `CreatorDies`)
and the users (`Open`, `P`, `PFails`, `V`, `End`, at any point), and the kernel's `undo` of each
process, which SETVAL clears (semctl(2)).  `Process` has objects and children: launch, abort,
terminate, sendSignal, wait in two steps (`Wait`, then `WaitReturns` or, when a signal interrupts
it, `WaitInterrupted`: process.cpp:41-43 forgets the child whatever waitpid() returned), the
destructor (`Destroy`, which terminates and waits) and the children's ends.  Calls that throw
change nothing and are no actions.

### RingBuffer, BoundedFifo, DynamicBuffer

`RingBuffer` has the arithmetic of size_t modulo `SizeMax + 1`, `last` being the largest number
in an empty buffer; overwrite mode and the other; `Enqueue`, `Dequeue`, `Read`, `Assign`, `Skip`
with their exceptions.  `BoundedFifo` says the same with a sequence.  Size 0 is left out, as no
caller uses it (the first enqueue would write outside of the array).  `DynamicBuffer` has the
blocks, the offset of the next element and the counts in terms of bytes, since merge() copies
bytes: what it copies where, the area allocated (whose bytes hold what was copied there last),
and whether it writes beyond it.

### Observers

Observable, ChangeNotifier and SmartObserver with a stack of running calls: an `update()` is the
program's code and may call any operation again, return or throw.  What a program must not do in
a round of notifyObservers() (take the very observer off that is being called, destroy one of the
two) is `Calling` and `InUse`; nor may a SmartObserver be destroyed in its own addToNotifier().
Everything else may happen in an update(), also in the one that addObserver() makes, where
nothing is iterated: the observer may be taken off again and the notifier be destroyed before
addToNotifier() goes on and inserts the notifier (`Remember`, utils.hpp:384).  Two histories say
where the promises end: `parted`, the pairs that a call on one side has made disagree, and
`overtaken`, the notifiers whose value was set in the middle of a round.  A SmartObserver is
added with its own function; it is removed with its own or the notifier's.

### SCC

find_scc() and scc_visit() with the recursion as a stack of frames; `Look` is one turn of the
loop over the neighbours, `Leave` the rest of the call.  The order of nodes and neighbours is
left open, because it depends on the iterators.

### SortedBag, BTree

`BTree` has the nodes as a heap of records: `Insert` and `EraseNode` change the tree and the links
apart, as breakLeft(), breakRight(), insertLeft() and insertRight() do.  An iterator walks both ways
while elements come and go; one whose node is erased must not be used any more, and starts again.  A
write through the null pointer makes a node of it, so that the properties see it.  One free address
stands for all, because the code does not compare them.  The loops that follow pointers are recursive
functions on the nodes.  `SortedBag` says the same with a sequence;
an element is inserted behind its equals.  A copy of a BTree shares its nodes with the original; as
nothing in the repository copies one, that is left out.

### Grammar, LLParser

`Grammar` has the calls behind the operators (`SetStart`, `StartRule`, `Shift`, `Or`, `Lambda`,
...) on the object they work on, and prepare(): nullability, left recursion, first, follow and
director sets, LL1. Sets are walked in the order of pointers there, and what they hold does not
depend on it.  `LLParser` has the reader with its stack of tokens, the turn of parseDFS()'s loop
and that of parseBFS(). debug is FALSE.  What the code does, and the properties therefore name:

* depth first is an ordered choice without going back over a rule that has succeeded: it is
  exact only for LL1 grammars of words; a token whose type does not fit is passed over without a
  word;
* when the last token of the stack was looked at, it is put back into the tokenizer instead;
* breadth first checks every token but the last one (finding "accepts");
* rules that end in each other make prepare() walk through a null pointer, so does a start that
  is set after its rule, or a nonterminal without one; terminals of one name share the type of
  the last; the director sets may be larger than they need be, never smaller.

### LexTokens, Scanner, TokenReader, Lexer

`LexTokens` cuts a text into atoms (characters, escaped ones, quoted ones, comments) and these into
tokens. `Scanner` is one call of nextToken() or nextLine(), with its stream's position and flags.
`TokenReader` has the calls (those two, and putback()) as its steps; what the scanner makes of the
text is a parameter, `AfterCall`. `Lexer` puts the two together and says what the tokens should be.
`opts` has the settings of the scanner, and two of the library it was built with: `modern`, whether
a putback takes the eofbit away (since C++11 it does), and `digit`, what the variable next holds
before it is ever assigned. `EndsBadly`, `EscapeIsLost` and `BeginsWithBlanks` name the texts whose
tokens or lines are not those of `LexTokens`: nextLine() drops the blanks a line begins with
(lex.cpp:782) and passes over lines that hold no character, although lex.hpp:698 promises the line
untruncated, which is what `LineAt` says; what was read before the end of the text cannot be put
back, so that the number at its end is a word, and a lone first character of a comment is lost; and
a character that ends a word is put back without the escape it had. Comments do not separate words
or numbers, and put the line behind them.

### Notation, Formula, VariableLists, Evaluation, Calculator

`Notation` is the language of formulas as a grammar.  `Formula` is parse() with a heap of nodes,
`Pri` and the climb along the right edge (searchAndSetLowerPriNode), the exponents of functions,
lists, definitions, sums, and the checks of the constructor.  A step is a turn of parse()'s
loop.  What it shows beside the properties:

* `sin^` without an exponent uses the pointer of an earlier turn: null (the end of the program),
  or a node of another place, which gets two parents or closes a circle (an endless loop);
* a misplaced `!`, `,` or `)` and the definition `x!=4` are accepted; an empty formula and a
  blank at the end of a list end the program;
* fizzcal's help (fizzcal/src/main.cpp:667-680) has functions bind tighter than `^`; by their
  priority (mathexpression.hpp:293-301) they are lower, and a sum or product lower still.
  `Notation` has the help's priorities (`Reach`, 35 in `MCTexts`), `Header` the same grammar with
  those of the header.  `TreesAreRight` demands the header's tree of every formula, and the help's
  as well but for the `Disputed` ones: a power behind a function's operand, or anything behind a
  sum's;
* a sign may stand before any operand, although the help says that it is allowed at the beginning
  of an expression only (main.cpp:614-616).

A formula that was read is printed and read once more (`SaveAndLoad`): `Written` is toString(),
which puts brackets around every node, and `Line` what a save writes of a function.  The printed
formula is accepted and has the tree that was printed, but for the kind of a list
(`PrintedReadsAgain`): one without brackets of its own comes back as a tuple, and a tuple that is a
function's only argument as its parameters.  A `-1` below a `!` is read as a product with -1, since
a sign in brackets is hung in so.

`VariableLists` has the trees and the lists of variables and functions; `Evaluation` evaluates trees
with their side effects on the lists, and says what can be read and defined. `Calculator` is the
session: an entry, undefining, `SetPrecision`, saving, loading, quitting with its question, a new
start; how a formula is read and evaluated are its parameters, to which `MCTexts.cfg` gives the
operators of `Evaluation`. Numbers count halves, and `+` stands for the operators. What is printed,
the values of variables and the numbers in bodies, has as many digits as the session's precision
says: with none a half is rounded to the even number (`Shown`), with one (`Exact`) it is kept. So
`ListsAreRestored` says that a save and a load keep all names in their order, change no value by
more than half of the last digit, lead to the same file when they are repeated, and with enough
digits change nothing. A sum whose limits are not natural is an error (`IsNatural`). An infinite
value is printed as `inf`, which is read as a name and fails: infinity is not modelled. `silent` is
the history of changes that set no modified flag (undefining, what a sum writes back, loading). A
sum without terms is a null pointer, the end of the program; a function that is undefined and
defined by one that calls it makes a call without end.

### PropertyReader, CmdlParser

`PropertyReader` reads a file character by character (`Parser`), and writes or merges it again;
a step is a call. An empty value or section does not survive a file; get() inserts what it does
not find; a line below a section's name is counted without it; each update appends a blank line
and puts the comments before the sections; without the unnamed section write() empties the file
before it throws; a file is truncated and then written, so a crash between the two loses it,
which is left out, as no caller looks for it.

`CmdlParser` has the declarations and the words of a command line; a step is a declaration or a
word. What the code does and `ParsesAsDeclared` takes as it is: an alias that stands for a
supervisor does not supervise; with relaxed syntax a parameter may be the last word without its
value, and a value may look like an option; the limit counts the mandatory arguments; a synonym
hides an option of its name; a mandatory argument declared twice is found under its last place;
each of setInfiniteArguments() and setArgumentsLimit() undoes the other.  `Fits` has the bounds
that cmdlparser.hpp:430-450 documents; `Unannounced` names what parse() refuses besides: arguments
of a program without mandatory or final ones that did not call setInfiniteArguments() (for usage()
only, by its comment), or called it before it set a limit.

## Runs

All actions of each module are taken in its passing runs.  Deadlock checking is off where the
processes end, or the program may stop calling; elsewhere it is on.  Three runs hold several modules
that share no state: in `classes` and `texts` a constant variable `part` chooses the one that moves,
in `grammar` the initial state does, and the others stay as they are constructed.  Modules that
stand beside others in one run begin their names with a prefix of their own (`Sem`, `Proc`, `Dyn`,
`Cmdl`).

| run | instance | what it shows |
|---|---|---|
| safety | 2 handlers, 2 names, 1 port, service queue of 1 | `OwnResultOnly`: no client gets the other's result; `RegistrationsConserved`, `ImplementsRegistry`; `LeakOnlyByKill` and `AbortOnlyAfterTimeout` name the one cause of leaked queues and of the service's abort |
| liveness | 2 handlers, clients that disconnect in the end | `HandlersEnd`, `CommandsTakeEffect` |
| dropped (violation) | the scanner as it is | no command is executed |
| lifecycle | 2 instances with and without --force, 1 client | who holds the pid file, the queue and the path, and what is left in the end |
| lifecycle_ends | 2 instances, SIGTERM at any time | both processes end unless a signal was lost |
| classes | ring buffers of 1 to 3 (SizeMax 9, 2 values); dynamic buffers with elements of 1 and 2 bytes, blocks of 1 to 3, up to 5 elements; trees of up to 4 nodes with 3 keys; 3 processes at a semaphore of 2, block and death at any time; 2 Process objects, 3 launches | refinement of `BoundedFifo` and `SortedBag`; `KeepsWhatIsPut`; `WalksTheTree`; `UnitsConserved`, `WaitersPass`; `PidsAreValid`, `NoChildLeft` |
| observers | a smart and a plain observer, 2 notifiers, 2 values, calls 2 deep | both sides agree, no call after the end, the flag tells the truth |
| grammar | all graphs of 3 nodes, those of 4 with up to 5 edges; a thousand grammars of two rules with up to two symbols a side, inputs of up to 3 words, numbers and ends of lines among them | `ComponentsAreRight`; `SetsAreRight`; `AcceptsLanguage`, `AcceptsLittleElse`; search and parsers end |
| scc_maximal (violation) | all graphs of 3 nodes | a component is handed over in parts |
| accepts (violation) | the grammars of `grammar` | breadth first, a word is accepted that is not derived |
| texts | formulas of up to 4 tokens and 3 operands of all kinds with any operators; each function they define saved and loaded; sessions of up to 5 commands of 15 entries, printed with 0 and with 1 digit; texts of up to 3 of 8 characters, 4 of 6, and longer ones under 5 settings, a putback; files of up to 5 characters and longer ones with up to 4 calls; 9 programs with command lines of up to 4 words | each text is read as its definition says |
| lastline (violation) | the files of `texts` | the last character is read twice |

Many properties hold with an exception, which is a history variable or a condition.  Each
exception is reachable, and says where the code falls short of what its comments promise:

* `AbortOnlyAfterTimeout`: a handler whose alarm goes off while its command is under way removes
  its reply queue, msgsnd() of the result fails, and the service ends of an exception it does
  not catch (stdmessageserver.cpp:146; stdmessageserver.hpp:66 says it "will not crash").
* `HandlersEnd` needs clients that disconnect: an alarm that goes off before the handler blocks
  in read() is used up (msgqueueregdaemon.cpp:54: "nach timeout wird prozess beendet").
* `EndsUnlessLost`: SIGTERM ends the service only when it interrupts msgrcv()
  (stdmessageserver.cpp:143).
* `CleanAfterEnd`: SIGTERM between the creation of the pid file and the installation of the
  signal handler leaves the pid file behind, and later starts are refused
  (stdmessageserver.cpp:64).
* `PathLostOnlyByOthers`: a client unlinks the path of the server's socket before it connects to
  it (tcpclient.cpp:47), and so does a second instance's observer.
* `QueueLostOnlyByRefused`: a refused instance removes the message queue with the id 0.
* `UnitsConserved` is an equation only until block(): a process that is inside then lets another
  one in when it leaves (semaphor.hpp:127: "blocks a semaphor that no process gets access").
* `WaitersPass`: a creator that is killed before SETVAL leaves a semaphore nobody gets past.
* `NoChildLeft`: after sendSignal() (process.cpp:102), and after a wait() that a signal
  interrupted (process.cpp:41-43, the destructor's wait() too), an object has forgotten its child:
  it may launch a second one beside it, and leaves the forgotten one behind when it is destroyed.
* `KeepsWhatIsPut`: with elements of more than one byte, merge() of several blocks scatters them
  and writes beyond the area it has allocated (datastructures.hpp:915); the repository's own
  buffers are of char.
* `NobodyIsCalledAfterItsEnd`, `BothSidesAgree`: after removeObserver() or removeObservers(),
  which the test "reversed" of test/observer calls, a SmartObserver's destructor calls a notifier
  that has been destroyed; an update() that throws out of addToNotifier() leaves an observer that
  will not remove itself (utils.hpp:356); and when the update() that addToNotifier() makes takes
  the observer off again, or destroys the notifier, the notifier is inserted all the same
  (utils.hpp:383-384), and the destructor calls it after its end.
* `ToldWhatIsStored`: when an update() sets the value it is being told, the outer round goes on
  with the old one (utils.hpp:263).
* `SetsAreRight` and the two about acceptance: `WellWritten` grammars, those prepare() does not
  crash of, and the parsers' limits named [above](#grammar-llparser); `TokensAreRight`,
  `LinesAreRight`: `Regular` texts, where lex.hpp:698 has "the line is untruncted" and lines that
  begin with blanks are not; `ReadsAsMeant`, `EndsInOrder`: formulas without the gaps that are
  named there, and for the priorities in the help (fizzcal/src/main.cpp:667-680) those that are not
  `Disputed`.
* `SavedIsRestored` until something is undefined, within what the print shows, and but for the kind
  of lists; `QuitAsksWhenChanged` but for what sets no flag.
* `ParsesAsDeclared`: arguments that are `Unannounced` are refused, although a comment has
  setInfiniteArguments() only inform usage() (cmdlparser.hpp:430).
* `ReadsTheFile`, `SavesWhatItHas`: files whose last line ends with a line feed.

Why the bounds are enough.  `MsgQRD`: handlers interact through the service's queue, the reply
queues and the list only, and pairwise; two handlers with a queue of one message give a full queue,
a message that waits behind another and a result that arrives after its handler gave up.
`ServerLifecycle`: every property relates at most two instances, and a client only unlinks the path;
three instances exceed the time a check should take, and the proofs cover any number. `RingBuffer`:
size 1 is where first and last coincide in both states, size 3 has positions that wrap in the
middle, `SizeMax` 9 leaves numbers beyond every size, and the refinement is proved for every size.
`DynamicBuffer`: 5 elements are two full blocks of two and a begun one; any number is proved.
`BTree`: 4 nodes give a node with two branches that hangs below another one and is erased, and two
equal keys on either side of a third; any tree is proved.  `Semaphor`: 3 processes for 2 units make
one wait; any number is proved.  `Observers`: the second level is a call from within a round or an
addition, whose own update() returns or throws; deeper ones repeat pairs of it, and any depth is
proved.  `SCC`: the smallest graph that breaks a property has 3 nodes; 4 add a component beside it,
and any number is proved.  Grammars: two rules call each other in every way (left, right, middle,
both), with and without empty sides; 3 words are two behind each other and one after the end of the
rule.  Formulas: priorities are decided between two neighbouring operators, so that three operands
show each pair in both orders; functions, signs and faculties stand in each of the three places.
Sessions: the two precisions are one that shows every number and one that does not; a recursion
takes 5 commands.  Texts for the lexer: a token is decided by at most two characters behind it (CR
LF, or a comment's begin and an escape); the longer ones nest and continue them.  Files: 5
characters are a key, a separator, a value and two that may be a comment, a section's bracket or the
end of a line.  Command lines: an option never looks further than one word; 4 words exceed each
declared count; any program and any line are proved.

Fairness.  Weak fairness of each process's next step is the scheduler's.  The kernel's alarm
goes off (WF of `Alarm`).  Clients disconnect only in `PatientSpec`, which the property's
comment says.  SF of `P` stands for the kernel's first-come first-served queue of waiting
processes, and nobody stays inside a semaphore for ever.  `grammar` assumes that a sequential
program goes on (WF of its next step).  No fairness is assumed of a user, of incoming messages
and connections, of children, or of signals.

Findings.  The four runs that expect a violation check a statement of the repository's comments
each and find it broken; `PROJECT.json` quotes the statement and says why.

## Proofs

`MsgQRDProofs` (list and daemon), `ServerLifecycleProofs`, `ClassProofs` (semaphores, processes and
buffers), `BTreeProofs`, `ObserversProofs`, `SCCProofs`, `CmdlParserProofs` and `SessionProofs`
(calculator and token reader) hold for all values of the constants that fulfil the named
assumptions: finite sets are not assumed unless an assumption says so, and queue lengths, numbers of
handlers, instances, processes, observers, names, nodes, declarations, words and sizes are
arbitrary.

* **List.** `InsertKeepsSorted` and `EraseKeepsSorted`: `Insert` into a sorted list leaves it
  sorted, without a name twice, and with the entries it had and the new one; `Erase` takes the one
  away.  They rest on what the insertion position is (`InsertPositionProperties`).
  `FindAfterInsert` and `FindAfterErase` say the same in terms of `Find`, for each name at once: the
  list behaves as a map.
* **Daemon.** `Invariant`: `IInv` is inductive.  Its parts beyond the type: `RequestKnown` (who
  has connected has a request), `CommandTracked` (where a handler's command is: nowhere before
  it is sent, then once in the queue, then answered, then in the reply queue or in the handler's
  hands or at the client, each with the recorded result), `ReplyQueueTracked` (a reply queue
  exists while its handler runs, and a command under way has its handler either waiting or timed
  out).  `OwnResultOnly` is not inductive: a client's output is right only because what is in
  the reply queue is, and that because the service's copy names the right queue.  From it follow
  `TypeCorrect`, `RegistryStaysSorted`, `NoResultIsMixedUp`, `OnlyKilledHandlersLeak`;
  `AbortNeedsTimeout` needs, besides, that a handler that gave up does not change any more.
  `RegistrationsAreConserved`: for each name, the additions that were granted are as many as the
  removals, or one more while it is registered; the step that records a result changes one
  handler's membership in one of the two sets, whose cardinalities are then known, and the list
  by an entry of the same name (`FindAfterInsert`, `FindAfterErase`).
  `DaemonImplementsRegistry`: every step of the daemon is one of `Registry`, or none, under a
  mapping that reads requests, results and answers off the handlers.  It needs `CommandTracked`:
  a call takes effect once and only between its request and its answer, because a command in the
  queue has no result yet, and one that has a result is in the queue no more.
* **Buffers.** `IndicesAgree`: type and `LastAgrees` (last is where first and count put it);
  `Implementation`: every step of `RingBuffer` is one of `BoundedFifo` under the mapping
  `Contents`, so `Spec => Fifo!Spec`.  The arguments about indices modulo the size are lemmas of
  their own.  `NothingPutIsLost`: `KeepsWhatIsPut` for elements and blocks of any size.  The
  invariant `DynInv` says that the counters agree with what was put, and that the element with
  number n lies in block n / blksize at n % blksize; that merge() brings it back follows from
  the uniqueness of quotient and rest, since with elements of one byte each byte of the area is
  the target of exactly one copy.
* **Life of an instance.** `TypeCorrect`; `Exclusive`: without --force and without the race
  between looking and creating, the owner of the pid file is unique, by the invariant that an
  owner's entry can be replaced only by one that has passed `Check`; `QueueLost`: a serving
  instance's queue disappears only if its id is 0 and another instance was refused, by the
  invariant that ids are handed out once.  `PathLost`: a bound socket's path disappears only
  through a client or another instance's observer; `NothingLeft`: `CleanAfterEnd` for any number
  of instances.  Both by `LeftInv`: whoever holds the path, a queue or the pid file is at a place
  from which its way out gives it back (`PathHeld`, `QueuesHeld`, `PidHeld`), and there is one
  observer, forked before the loop and gone before the queue (`ForkedOnce`).
* **Semaphore.** `Conserved`, for any initial value and finitely many processes:
  `UnitsConserved` by the invariant that what the kernel would undo for a process is 1 while it
  is inside and 0 outside, until block() forgets it; afterwards it is at most what it was, so
  that the end of a process never makes a unit.  Before the value is set nobody is inside, so
  that setting it neither loses nor doubles one.
* **Processes.** `PidsValid` and `NoneLeft`, for any objects and launches: a child belongs to
  one object, and an object knows the only child of its own that was neither waited for nor
  forgotten; the destructor looks at pprotect, which is what the constructor was told as long as
  there is a child.
* **Trees.** `TreeStaysWhole`, `TreeIsWalked` (`WalksTheTree`) and `TreeImplementsBag`
  (`ImplementsSortedBag`), for any keys and any number of nodes.  `LinksFollowTree` is not
  inductive: while insert() and erase() work, there are several trees whose links are cut and
  tied one by one, and keys do not occur in it, although they decide where a branch is hung up
  again.  `TreeInv` has three functions as witnesses: the nodes below each node (`sub`), the
  nodes of its tree (`comp`), and its place in the order (`pos`).  A `Forest` says of each node
  that parent and children agree (`ParentsRight`, `BranchesRight`), that its links lead to the
  next node of its tree (`LinksRight`), that keys ascend with the places, and strictly to the
  left of a node in its branch (`KeysRight`), and that a branch has no gap (`NoGaps`).  A leaf put in
  (`AddForest`), a branch cut off (`CutForest`), two trees joined (`ConcatForest`) and a node
  taken out (`DropForest`) take a forest to another, with the witnesses changed in one place;
  erase() is a sequence of those.  It joins a branch below the parent, and the right branch below
  the left one, always at the one place where no link of another node crosses.  That a search for
  a place or a key comes to an end, and where, follows from ranks (`LeastRank`): the functions
  that the loops stand for are found by what they do at their smallest counterexample.  Read from
  left to right the tree is the sequence of its places, which is also what the links lead through;
  the refinement compares that sequence before and after a step.
* **Observers.** `SidesAgree`, `NobodyCalledDead` and `StoredIsTold`, for any observers, notifiers
  and values and calls nested to any depth.  The invariant adds what the running calls have still to
  do: `FramesValid` (a round calls an observer of its notifier, and both exist; in addToNotifier()
  at least the observer does), `DeadAreParted` (whoever has come to its end is in nobody's set,
  unless the pair was parted), and `RoundsTell` (a round whose value is in force tells that value,
  and everybody up to the one whose turn it is knows it).
* **Components.** `HandsOverComponents`: in any graph of at most `MaxNodes` nodes, every node is
  handed over exactly once, when it is done, nothing stays on the stack in the end, and the nodes
  handed over together reach each other.  The numbers are depths of the recursion and not
  unique, so that the usual argument about the order of visits is of no use.  The invariant
  speaks of the running calls instead: what lies above a call's node on the stack has a greater
  number and is reached from it (`Above`); everything on the stack reaches the node of a running
  call that lies no higher and whose number is no greater (`Leads`); a call's minimum is the
  number of a node on the stack that its own reaches (`MinimumIsReached`).  That the components
  are maximal is false (finding "scc_maximal").
* **Command lines.** `FindsWhatIsGiven`: `ParsesAsDeclared` for all programs and all lines; that
  parse() refuses what does not fit or is `Unannounced`, and nothing else, is `ErrorsAreRight`.  The
  property understands a word by looking back from it (`role`), parse() goes forward with three
  flags and a counter.  The invariant says of each variable of parse() what it has to do with the
  words that were read (`Seen`): `ended` and `pending` are the role of what comes next
  (`StateRight`), the list of names that goes around begins with the name of the next argument
  (`NamesGoAround`), and what was found is what those words mean (`OptionsFound`,
  `ParametersFound`, `MandatoryFound`, `SurplusIs`, ...).  An argument's number is the
  cardinality of those up to it, which no later word changes (`RankStep`).  `role` is recursive:
  that a function of its kind exists is proved from the smallest number of words for which there
  were none (`RoleExists`).
* **Sessions.** `QuitAsks`: `QuitAsksWhenChanged` for any formulas and any way to read and
  evaluate them.  Each flag is about one list: while it is not set and nothing changed silently,
  the list is as it was at the last save or start (`FlagsTell`); a formula that is not a
  definition leaves the functions alone (`OnlyDefinitionsChangeFunctions`), and a quit without a
  question finds both flags unset (`EndsUnasked`).  `silent` takes in whatever an evaluation
  changes without setting the flag, so that the theorem says nothing of those changes; that they
  are what sums write back is seen in `Evaluation`.
* **Tokens.** `CurrentToken`: `TokenIsCurrent` for any text and any scanner.  The invariant says
  which of the two tokens is in which place, before and after a putback (`TokenPlaces`), and that
  nothing can be put back once the scanner has thrown.

Only model-checked: everything about liveness (the prover has no rules for fairness or ENABLED),
and all that is read, searched or evaluated by recursion over data (`Grammar`, `LLParser`,
`Scanner`, `Formula`, `Evaluation` and with it `SavedIsRestored`, `CallsEnd` and `ScopesAreKept` of
`Calculator`, `PropertyReader`): what a recursive operator computes for every input is beyond the
prover.

## Not modelled

`PROJECT.json` lists every component with its state.  In short: the client's reading of answers
(the order of calls in its nextToken() is that of the daemon's scanner), the observer's
bookkeeping of pids, internet sockets, formatting and debug output, the numerics of the
calculator's functions, the graph of components in `graph.hpp`, the lower-case mode of the lexer
and character classes other than the common syntax, the automaton of `matchit`, and the command
line front ends.  `MemPointer`, `Stack`, `BitMatrix`, `String`, `functions` and `test` are
wrappers or helpers without behaviour over time.
