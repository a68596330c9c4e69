# jrq: a verification project

jrq reads JSON from its standard input with a streaming parser of its own, selects the
members named on its command line, and prints them. It is a C program (`src/src/jrq.c`)
that runs six scripts in Duktape, a JavaScript engine it carries along as one C file. This
project models the scripts, the process around them, and the two parts of the engine that
manage its memory: the table of strings and the heap of objects. The models are written in
TLA+, checked with TLC on small instances, and their central properties are proved with
TLAPS.

Paths below are relative to the repository root; line numbers are those of the commit
the project was written for.

## 1. The system

One thread, no timers, no concurrency: every behaviour that is hard comes from
recursion, callbacks, the places where `read(2)` cuts the text, system calls that fail, and
a garbage collector that may run in any allocation.

| component | state | operations | correct when |
|---|---|---|---|
| `jrq.c`, the host | the descriptors, a 4096-byte buffer | `jrq.read`, `jrq.write`, `print`; loads the scripts, calls `jrqMain` | every byte read is delivered once, in order; every byte written arrives |
| `fakestream.js` | `_internalBuffer`, `_eof` | `read`, `unshift`, `isReadable`, `write`, `writeLine`, `flush` | what is given back is read next; after the end `read` returns null for ever |
| `events.js` | for each event, a list of handlers | `on`, `emit` | an event reaches the handlers that were registered for it |
| `json.js`, `JsonParse` | `_state`, `_to_parse`, `_cur_key`, `_cur_value`, `_array_index`, `_is_array`, the expected end | `parse`, 14 handlers of `_parse` | the events are the structure of the text, wherever it is cut; text outside of documents is passed on; it comes to its end |
| `json_create.js`, `JsonCreate` | `curObject`, `objectStack` of each `parse()` | `parse`, and six handlers that stay registered | returns the value the text stands for |
| `jrq.js`, `parseArguments` | `a`, `argv`, `i`, `opts` | splits the arguments, then takes an option at a turn | options mean what they spell |
| `jrq.js`, `writeFoundKeys` | none | writes the values of the arguments with delimiters and line ends | the lines of the answer, whatever is missing |
| `duktape.c`, strings | the string table, its marks, the count of used slots, the cache of positions | intern, cut, trim, free, grow and rebuild the table | one string for each text; characters are cut where they begin and end |
| `duktape.c`, objects | allocated objects, their counts, marks, temporary roots | allocate, set a reference, free a cascade, mark and sweep | what can be reached stays, what cannot goes |
| `jrq.js`, `innerMain` | `keyStack`, `objectDepth`, `initialObject`, `argOutput`, `foundKeys` | seven handlers, `addSelected`, `writeFoundKeys`, the document loop | the members at the selected paths, of this document, in the order of the arguments |

How they interact. `innerMain` creates a `JsonParse` on the standard input and registers
its handlers on it; without selectors, or for a selected object, it has a `JsonCreate`
register its own handlers on the same parser (or on the parser of the nested object) and
run `parse()` from within a handler. `JsonParse` reads from `FakeStream`; at a nested
object or array it gives the rest of its text back to the stream with `unshift`, creates
another `JsonParse` *with the same table of handlers* on the same stream, calls its
`parse()`, and goes on when that returns. So parsers form a call stack, every container
is announced twice (by its parent's parser, at its key, and by its own, without one), and
the text travels between parsers through the stream's buffer.

What is hard here:

- a read may end anywhere, so each handler must go on from a partial key, string, token;
- the text is handed from parser to parser through a buffer whose `unshift` adds at the
  wrong end;
- the events of two parsers interleave, and their listeners keep a depth and a stack that
  are only right if the events keep a protocol that is written nowhere;
- the loop of `_parse()` spins if a handler neither consumes text nor changes the state;
- the input may end within a document at any depth;
- one parser is used for document after document;
- handlers are registered from within handlers, and never removed;
- `write(2)` may write less than it was asked to, and only C code can know;
- a collection may free strings, and replace their table, between the two halves of an
  intern; the address of a freed string or object is used again;
- marking the heap recurs, must not do so deeper than a limit, and must be complete all
  the same; garbage refers to garbage, in cycles, and each reference is counted.

The engine's two parts are connected with the scripts by what the scripts rely upon and
cannot see: that a text has one string, so that `===` may compare addresses, and that an
object they hold is not freed. So the models of the scripts take strings and objects for
values, and the models of the engine show that they may.

`PROJECT.json` lists these as hazards, each at its line.

## 2. Plan

1. `JsString`, `FakeStream`, `JsonParse` — the parser over the stream (done);
   `EventProtocol`, the abstract specification of its events (done, refinement
   checked, and proved under 7); `JsonText`, `JsonDocuments` — the reference it is compared with (done).
2. `JsonParseProofs` — type correctness and what happens to the text (done).
3. `JsonCreate`, `Jrq` — the hydraters, the emitter that calls them live, and the selection
   of `innerMain` (done); `KeyPath` — the key stack against the containers that are open, and
   `JrqSessions` — what each request should print (done);
   `JrqProofs` — type correctness, and that values stay free of cycles (done).
4. `Arguments`, `Output`, `Program` — from the command line to the exit status, with every
   system call that may fail or fall short (done); `Requests` — what command lines should
   mean and answer (done); `ProgramProofs` — that the answer arrives, and before more input is
   asked for (done).
5. `Characters`, `StringTable` — the strings of the engine (done); `StringPool`, the abstract
   specification (done, refinement checked and proved in `StringTableProofs`).
6. `Reachability`, `ObjectHeap` — its objects and the collector (done); `ObjectGraph`, the
   abstract specification (done, refinement checked and proved in `ObjectHeapProofs`).
7. `EventProtocolProofs` — that `JsonParse` implements `EventProtocol` (done).
8. `SettledProofs` — that every script of complete documents leaves the listeners
   `Settled`, that the key stack is the path of the open containers meanwhile, and that
   results stay as they were found until they are written (done).
9. `Recursion` — induction and recursion over numbers, for the provers (done).
10. `MeansWhatItSpells` for every list of requests, by induction over the list (done, in
   `ProgramProofs`).
11. The property tables of the engine's objects, whose order is the order in which jrq prints
   the members of an object.

## 3. The modules

`JsString` — strings as sequences of character classes. The parser distinguishes a few
characters; every other one is `x`. Numbers and the literals are reduced to the class
of characters the code accepts in them. `SkipWhiteSpace`, `Blank` (`trim()`), the quotes a
string scan finds, `Unquote` (`JSON.parse` of a key).

`FakeStream` — `input` (a text and the offsets where `read(2)` may end), `offset`,
`buffer`, `eof`. `ReadResults` is what `read` may return: the head of the buffer, else a
piece of the text, else null. `Unshift` adds at the tail, as the code does.

`JsonParse` — the objects of class `JsonParse` as records, and the ones whose `parse()` is
running as `stack`. `pc` tells where the innermost one is: about to read (`read`), in the
loop of `_parse()` (`parse`), behind the loop of `parse()` after null (`leave`), returned
(`return`); or the program is over (`done`, `failed`). Each handler of `_parse()` is an
action; `StartDocument`, `ReadMore`, `EndOfInput`, `Leave` are the turns and the end of
`parse()`'s loop; `ParseObject`, `ParseArray` push a parser, `Return` pops it; and
`NextDocument`, `Finish` are the loop of `innerMain`. A syntax error is `Throw`: it
unwinds the stack. `events` is the log of what was emitted; `passed` is the data of the
`unparsed` events.

`EventProtocol` — the abstract specification: levels of containers, each with the member
its next value belongs to and what is known of a nested container at it. `Start`,
`Announce`, `FoundKey`, `FoundScalar`, `FoundNested`, `End`, `Conclude`, `Abandon` are the
events a listener can meet, in the order it can meet them. `JsonParse` maps its stack to
levels (`Open`) and has `KeepsProtocol == Protocol!Spec` as a property.

`JsonText` — a reference: documents as trees, the text each is written as, the events it
should give rise to, and the cuts a supported read may make. `JsonDocuments` states what
the parser owes such an input. `MCDocuments`, `MCTexts`, `MCFindings` are the instances.

`JsonCreate` — the closures that `JsonCreate.prototype.parse` leaves behind, `hydraters`, and
the JavaScript objects they make and share, `heap`. `Hydrates(h, e)` is what the handlers of
hydrater `h` do with event `e`; `Conclude` and `Result` are the end of `parse()`. `Tree` is a
value as `JSON.stringify` walks it.

`Jrq` — `innerMain` and its handlers. `calls` is the call stack within it: a frame is
`parse` (of a parser), `create` (the `parse()` of a hydrater) or `emit`, with the event and the
number of the handler whose turn it is. `emit` takes one step per handler and looks at the
length of the list at each (`HydraterHandles`, `EmitDone`); a handler of `innerMain` that
hydrates pushes `create` and `parse` (`Create`) and is finished by `CreateReturns`, while the
events of the nested parser are emitted above it on the stack. `Throw` unwinds it. `ParseTurn`
and `WriteTurn` are the two halves of the document loop. `written` is the list of what was
printed: the values of `argOutput`, or keys.

The parser is a *script* in `Jrq`: the events it emits, with marks where a nested `parse()` is
called and where it returns, read by the index `at`. This separates the two halves of the
program along the interface they have: `JsonParse` does not look at what its listeners do,
and `ReportsDocuments` says that what it emits for a document is `Inside(doc)` of `JsonText`,
from which `JrqSessions` makes the scripts (`ScriptOf`). A handler may run the nested parser
itself, before the parser that announced the container gets to it; `Create` then steps over
the mark, as `completed()` makes the code do. Scripts cut short (`CutOff`) are what the
parser emits when the input ends within a document. `Bracketed` says which scripts are those of
complete documents: `Takes` is what each item does to the place a script is at (`Levels`).

`KeyPath` — the containers a script has announced and not concluded (`OpenItems`), and which of
them belong to an emission that its own parser interrupts (`Hydrating`): the parsers called
before an emission say the place of its container among the open ones. `Undisturbed` says
which requests `ResultsAlwaysKeep` is about.
`JrqSessions` — the reference for `Jrq`: the value of a document, the part of it at a path, the
answer to a request. `MCJrq`, `MCJrqAny`, `MCJrqFindings` are the instances.

`Arguments` — `parseArguments`. An argument is a sequence of letters, words and signs;
`Split` and `WordsOf` are the first pass, that takes arguments apart before it is known what
they are, and `OptionTurn` the second, with a case of the switch in each of its disjuncts.
`Output` — `writeFoundKeys` and the names of `-k`: the calls of `FakeStream.write` an answer is
made of. `Program` — `main()`, `jrq_read`, `jrq_write` and the loop of `innerMain` between
them. An execution is given by its arguments, by whether the script is good, and by what each
call of `FakeStream.read` leads to (`Pieces`): whether the piece was kept in the buffer or comes from
`read(2)`, the text in it that is outside of documents, which `jrqUnparsed` writes to stdout as it is
(`UnparsedTexts`), and the rows that it completes (`RowTexts`). `json.js:114-121` emits the text
before it parses the rest of the piece, so that is the order of the writes. `pc` is the place in
the program. `ReadPiece`, `ReadFails`, `WriteAll`,
`WriteShort`, `WriteFails`, `WriteNothing` are the outcomes of the system calls, `Dies`,
`Throws` and `Ended` the ways to an exit status. `Requests` is the reference: what is asked for,
the command lines that spell it (short, joined, long, with `=`), and the text that answers
it. `MCProgram` is the instance.

`Characters` — pure operators: the length in characters of bytes that may be cut anywhere, the
scans forwards and backwards from the start, the end or a remembered position, `Slice`, `Trim`
with the decoder it calls. `StringTable` — `PushString`, `PushChar` (a character, cut with the
cache) and `PushTrimmed` intern a text; `StartsGrow`, `AllocTable`, `Rehash`, `FinishRehash` are
the table that grows, one slot at a time; `AllocString` is what happens between a lookup and
the insertion; `Collect` may start in any of them; after `RefZero` a string is gone, after
`BecomesGarbage` it waits for a collection. `StringPool` — the abstract specification: texts in
use and their addresses.
`MCStrings` is the instance.

`ObjectHeap` — objects at addresses, with slots that refer to others; strings and other
values are Null there. `New` and `SetRef` are the program; `FreeNext` is a turn of
`duk__refzero_free_pending`; `Collect` starts a collection, whose marking is a stack of calls
(`SkipSlot`, `MarkMember`, `Return`), broken off at `RecursionLimit` (`BecomesTempRoot`) and
resumed by scans (`StartScan`, `ScanNext`), followed by `FinalizeRefcounts` and `Sweep`.
`Root` is the heap's thread: its slots are the value stack and the other roots.
`ObjectGraph` — the abstract specification: a graph whose reachable part only the program
changes. `Reachability` — what the two share. `MCHeap` is the instance.

`JsonParseProofs`, `EventProtocolProofs`, `JrqProofs`, `SettledProofs`, `ProgramProofs`,
`StringTableProofs`, `ObjectHeapProofs` — the theorems (section 6). `Recursion` — what they need of
induction over numbers and of sequences of sequences.

## 4. The runs

| run | shows |
|---|---|
| `documents` | for flat and nested documents, with white space, with other text around them, one or two in a row, every supported cut: the events are a prefix of, and at the end equal to, the reference (`ReportsDocuments`); text outside is passed on (`PassesOnTheRest`); the program ends without an exception (`Terminates`) |
| `texts` | arbitrary text, mostly malformed, cut anywhere: types, `SoleHolder`, `UnreadIsLatest`, `NeverRereads`, `NeverUnfinished`, and the event protocol |
| `selection` | requests that jrq answers (no object selected, no object in a printed array, documents of one type with `-a`): it prints exactly the answers, in order (`AnswersRequest`); the key stack is the path of the open containers (`KeyStackIsPath`); every document starts from a settled state (`Settled`); values waiting to be printed are not changed by stale hydraters (`ResultsKeep`) |
| `listeners` | every combination of options, several arguments, any document, values that do not parse, every end of the input: frames and references are sound (`TypeOK`), no value contains itself (`Acyclic`), and the key stack is the path of the open containers, without the selected objects that are being hydrated, whose key is pushed afterwards (`KeyStackIsPath`) |
| `program` | for command lines in all their spellings: the options are what was asked for (`MeansWhatItSpells`); what arrives at stdout is the answer, with the text outside of documents where it was, or a beginning of it, the whole answer if nothing failed, and with a gap where a write was short (`OutputAnswers`); before every further read, all that was found or passed on so far has arrived (`AnswersPrecedeReads`) |
| `strings` | while strings are made, cut, freed and collected and the table grows: one string for each text (`OneCopy`), each found by its probes (`Placed`), which end (`ProbesEnd`); the cache knows living strings only (`CachedOnce`); characters are cut where they begin and end (`CutsCharacters`), `trim()` trims (`Trims`); and `StringPool` is implemented (`KeepsPool`) |
| `heap` | nothing that is allocated refers to anything freed (`NoDangling`), counts are exact (`CountsExact`), garbage cancels out before it is swept (`SweepsUncounted`), a collection leaves what can be reached and nothing else (`CollectsAll`), every step of a cascade or a collection decreases a variant (`Advances`), and `ObjectGraph` is implemented (`KeepsGraph`) |
| `selected_objects` | a request that jrq answers wrongly (against `AnswersRequest`), beside some of the same kind that it answers |
| `nested_arrays`, `split_numbers`, `truncated` | three disagreements between the parser and what the repository says of it; each run has documents of the same shape that work |
| `split_characters` | a string that begins within a character, as one does when a read ends there: what is cut out of it are not the characters its length counts |

Bounds. `MCTexts` has every text of up to three characters over eleven classes behind eight
beginnings: a beginning puts the parser, or two or three of them, in a state that the empty
one would need five to seven characters for, and three further characters are enough for every
handler to be entered, left in each of its ways, and returned through. `MCDocuments` nests
three levels deep and gives every container a sibling behind it, because what breaks is
the state of the parent after a child. Reads may be cut after each character (in
`MCDocuments`: at each place where the code supports a cut; the others are findings).

`MCJrq` has 582 requests over documents of up to four levels, with one to three arguments
(a member, a member of a member, the same path twice, an index), one or two documents, and
each of the options alone and together where jrq answers them. Two documents are enough for
what the first leaves behind (hydraters, `initialObject`, the key stack), two elements for
what the first element does. `MCJrqAny` takes all combinations, and cuts the input after each
item. Arrays within arrays only occur where the parser still works (before the inner one
ends; see `nested_arrays`), empty objects and blank strings not at all.

More forms that the models have and the passing runs leave out, because the code does
not get them right: with `-a` and no arguments, an object (of whose containers at depth 1 the
last is printed in its place, while `src/Makefile:42` compares with the whole object); with `-a`,
an array after an object or the other way round (the first document decides how the paths of
all are computed); an escape that a read ends in (`_parseString` takes the quote behind it for
the end); an empty object (`_findKey` takes its `}` for the beginning of a key, and
the document never ends), a string value that begins with a blank (`_parseString` skips it,
`json.js:641`), and an array of objects that is printed as a whole (`json_create.js:82` never
stores an object under an index).

Things `Jrq` does that no document of the repository speaks about, and the runs therefore
allow: an empty line for the parse that only meets the end of the input, or for a selected
array (which is never printed); and with `-a` and no arguments nothing for elements that are
scalars. `Printed` ignores the empty lines, and `MCJrq` has no requests for arrays by path.
In `Program`, what is passed on: the end of a line between two documents is text outside of
documents, so `printf '{"a":1}\n{"a":2}\n' | jrq -g a` gives an empty line between the two answers.
It gives none where a read ends between the line end and the next document, because
the rest of a piece is given back only if it is not blank (`json.js:124`). Which of the two a turn
met is part of its pieces, and `Requests` has the text where it was passed on.

`MCProgram` combines each option with each other and with operands, in the four styles, over
one short answer, and gives answers of all shapes (one value to three, one for each operand;
strings, objects, values that are missing, `-k`, several documents, several reads) the options
that change their layout. Documents stand one behind the other or on lines of their own, whose
ends are read with the document behind them or kept with it, and there is other text before,
between and behind them, in pieces of its own too. Every system call of every execution may
fail, and one write (`MaxShort`) may be short, of which `OutputAnswers` only says that a piece is
missing. `IsRegular` says which answers the code lays out as asked. It leaves out, because the
code does not get them right: values without `-a` of which some are missing (the delimiter is
written in place of the line end), an object after a single value (`jrq.js:346` tests `a-1 > 0`, so
`jrq a b` prints both on a line), `-d` without a value. Command lines that the code takes for
others, and that are modelled but not asked for: a value that is itself an option (`-da`),
letters behind `--` (`-- -xy` is taken apart like an option), an argument named `constructor`.

`MCStrings` has three addresses for 20 texts that are cut out of three, tables of 3, 5 and 7
slots, a cache of two entries used for texts of two characters or more, and hashes that are
the lengths, so that most probes collide, marks are on the way of other strings, and the table
both grows and is rebuilt full of marks. How many collections run in one allocation is not
bounded, which allows more than the code does.

`MCHeap` has three objects beside the root with two references each, which is every shape of
cycle, objects that are referred to twice and from themselves, objects that free two others
at once, and chains of three while marking stops at a depth of one: collections scan the
heap up to three times. With that limit `MarkMember` only takes the branch of a temporary root;
the one that recurs is in the instance with `RecursionLimit = 2`, where all of these properties hold
too, but no scan reaches the limit again. The theorems are about any limit; that of the build is
256. Symmetry in the objects other than
the root is sound, as no property of this run is about liveness.

Deadlock is checked: `Exited` (`JrqExited` in `Jrq`, `Ended` in `Program`) is the only state the program may stay in.

## 5. Fairness

`FairSpec` is `WF_vars(Next)`: one thread runs the scripts, nothing can preempt it for
good, and every `read(2)` is assumed to return. A writer that never closes its end of the pipe
is outside of this assumption. The other specifications state no fairness and no liveness:
that the collector comes to an end is `Advances`, a variant that decreases lexicographically
with every step, so that it holds for every scheduling and is proved.

## 6. What is proved

For every alphabet-conforming input set, every text, every cut and both values of `Repeat`:

- `TypeCorrect`: `Spec => []TypeOK`. `TypeOK` is not inductive: `ParseString` appends to
  `_cur_value` whatever it is, and `Return` pops to a parser whatever its state. `TypeInv`
  adds that a parser in `PARSE_STRING` has a `_cur_value` and that every parser below the
  top is in `PARSE_OBJECT` or `PARSE_ARRAY`. One lemma per action.
- `OneHolder`, `NothingLost`, `NeverBack`, `NeverReported`: `SoleHolder`, `UnreadIsLatest`,
  `NeverRereads`, `NeverUnfinished`. The argument: each handler leaves a suffix of the text
  it was called with (`Consumes`, one lemma per handler); a step that reads nothing leaves a
  suffix of what was unread (`SuffixStep`), a step that reads leaves a suffix of what it read
  (`ReadStep`), which begins at `offset`. A suffix of the last part of the input is its last
  part and begins no earlier. That `unshift` at the tail is `unshift` at the head needs the
  buffer to be empty, which is `SoleHolder`; that the check for an unfinished
  document never fires needs to know why the loop of `parse()` was left, which `TextInv`
  records for `pc = "leave"`.
- `ImplementsProtocol`: `Spec => KeepsProtocol`, the refinement of `EventProtocol`. Under
  `Open`, every step of a handler is one event of the protocol or none. Which one it may be
  depends on what the innermost parser has come through: that it stands at a key before it
  stands at a value, or is an array, which needs none (`KeyOK`, of every parser, because the
  outer ones go on where they stopped); that `_findValue` enters the state of a nested
  container, or of a number or literal, only at its first character, which then passes through
  `unshift` to the nested parser, so that the container that is started has the type that was
  announced; that `ARRAY_END` is reached by arrays only; and that a parser that returns
  has completed its container or has met the end of the input, so that only the latter
  abandons one (`TopOK`). One lemma per action.

For every set of options, arguments and scripts, well-formed or not:

- `JrqTypeCorrect`: `Spec => []TypeOK` of `Jrq`. That the handlers of `innerMain` may take the
  caller's event for the one they were called with, and that `argOutput` has one place only
  when there are no arguments, depends on who called whom: `Callings` says that a `create`
  frame lies at the bottom, when there are no arguments, or directly above an emission whose first
  handler has the turn.
- `NoCycles`: `Spec => []Acyclic`. A hydrater stores the object it works on in the one below
  it on its stack, or below that after a `pop`; `HeapInv` says that the stack of every hydrater ascends in
  the order of creation towards the object it works on, so an object is only ever stored in one
  that was made before it. It holds for each hydrater by itself, whatever the others do, because
  an object belongs to the stack of the one that made it. One lemma per operation of a
  hydrater (`PushKeeps` and its like), then one per action of `Jrq`.

For every set of options and arguments, and every script of complete documents:

- `AlwaysSettled`: `Spec => []Settled` of `Jrq`, under `ScriptsBracketed`: in every script each
  nested parser is called between the announcement of its container, with a key, and the
  conclusion, and starts and ends the container without a key before it returns (`Bracketed`;
  `MCJrq` has TLC evaluate that the scripts of the run `selection` are of this form). Nothing is
  assumed of the members, keys and values in between. The invariant `Progress` compares
  `objectDepth`, the key stack and the stack of every hydrater with the place the script has come to
  (`Depth`, `KeyDepth`), less what the emission in progress still owes (`Owed`) and less what the
  emissions that wait for a nested parser below it owe (`Waiting`, which `Stacked` counts along the
  calls): an emission whose first handler calls the nested parser reaches its other handlers
  only when that parser has returned, so a later handler meets the announcement of a container
  after everything the container's own parser reported. A `pop` of an empty stack does nothing, so the lengths are bounded from above only;
  `Room`, that no more emissions wait than containers with a key are open, keeps the bound from
  going below zero, and between documents it is zero. One lemma per action.
- `KeyStackAlways`: `Spec => []KeyStackIsPath` of `Jrq`, under the same hypothesis. That the stack
  has the right length is not enough: a key that is pushed or popped in the wrong order selects
  other members. The invariant is `PathSoFar`, beside what `AlwaysSettled` rests upon. `OnPath` is
  the property, with what an emission whose first handler has not had its turn still owes taken
  into account. `Announcing` says that an emission that owes a key is about the innermost open
  container, or about the one just concluded; `Marked`, that an emission that waits for a nested
  parser finds its own container in the open ones, at the place the number of parsers called
  before it gives, so that the key it pushes when the hydrater returns is the one that was left
  out. No two emissions have the same place (`EmissionsBelow`), so it is the last one and
  the push is at the end of the stack. One lemma per action.
- `ResultsAlwaysKeep`: `Spec => ResultsKeep` of `Jrq`, under the same hypothesis and one on the
  requests, `SessionsUndisturbed`, because the code does change what waits when an argument names an
  object (the requests of the run `selected_objects`). A request is undisturbed (`Undisturbed` in `KeyPath`)
  with `-k`; for whole documents; with arguments of which none is the path of an object
  (`NamesNoObject`); or with `-a` and no arguments, when the document is an array whose containers are objects
  and each of them is concluded, and found without a value, as soon as its parser returns
  (`ListsObjects`), as `JsonParse` does. TLC evaluates that every request of the run `selection` is one. Nothing
  is assumed of what the elements or documents contain. `ResultsInv` has a part for each kind. With `-k`, or
  with arguments, no hydrater is ever called: the second needs `KeyPathInv`, to know that the path
  that is compared with the arguments is that of the script, and that no emission waits. A whole
  document waits only when no call is in progress. An element waits from the return of its parser on
  (`ElementsInv`): every hydrater meets its announcement, which makes an object in the heap, and its end, which
  stores no element of an array, and `innerMain` writes the element at the value that follows, before
  a hydrater meets that; `Finishing` says how far this has come, and it needs the depth from
  `AlwaysSettled` to know that `innerMain` will write. The objects made meanwhile change no value,
  since an object only refers to later ones (`Acyclic`): `TreesStay`, by induction from the last
  object on over the function that defines `Tree`.

For every set of command lines and inputs, of any length and over any letters and values:

- `OutputAnswersAlways`: `Spec => []OutputAnswers` of `Program`, whatever `MaxShort` is and whichever
  system calls fail. The invariant is `ProgramInv`. Up to the loop of `innerMain` nothing has gone
  to stdout (`BeforeOK`). In the loop, what has arrived followed by the texts of the writes that are
  due is what was found and passed on so far, or has one piece less if one write was short (`LoopOK`,
  with `Delivered`): `DeliverAll` and `DeliverShort` are a write that arrives and one that does not
  wholly, `DeliverMore` is a read that finds more. At the end `Answered` holds (`EndOK`). It is needed
  because `OutputAnswers` alone says nothing of what is due, and what arrives next comes from there.
  That what was found so far is a beginning of the whole answer, and grows by what each step
  writes, is `SoFarIsPart` and `SoFarGrows`; that a piece writes the text outside of documents and then
  its rows, as the answer has them, is `PiecesWritten`; that the texts `writeFoundKeys` writes one by one for
  a row are, joined, the lines the reference has for it is `RowWrittenIsLines`. The code decides
  what separates two values when it comes to the second, the reference has runs of values between
  objects; the proof adds up the writes of both sides from the left (`Row`) and compares the sums at
  every place where a run ends. That needs every option to be typed (`OptionsTyped`), through both
  passes over the arguments.
- `AnswersPrecedeReadsAlways`: `Spec => AnswersPrecedeReads`, an action property, from the same
  invariant: `ReadPiece`, `ReadFails` and `FinishTurn` are only taken when no write is due, and then
  what was found so far has arrived, the text that was passed on included.
- `MeansWhatItSpellsAlways`: `Spec => []MeansWhatItSpells`, for every list of requests, of any
  length, under `RequestsSpelled`: the command line is the requests' spelling in one of the four
  styles, the value of an option or operand is written as it is, with `\t` for a tab, within `["` and
  `"]` for an operand (`IsTyped`), begins with no dash, and has no `=` where a first one is
  before it; `--` comes last. `MCProgram` has TLC evaluate that its command lines are of this
  form. The argument is an induction over the requests, in three parts. First, whatever the
  style, the first pass makes the same words of a request, save those of its name
  (`AloneIsAsked`), also when a letter joins the argument before it (`LetterAdded`); so the words of
  a command line are those of its requests, one after another (`SpelledWords`). Second, the
  second pass takes as many words as the request has and does to the options what the request
  means (`TurnReadsRequest`): the property speaks of the end of the options only, so the invariant
  `MeaningInv` says that while the loop runs, the words left are those of the requests left, and
  the options those of the requests before. Third, that the completion of the options and a
  change of them commute (`ChangedIsApplied`), so that the defaults may be set at the end.

For any number of addresses and texts, any hash function, any sizes and probe steps that
come to every slot:

- `OneCopyAlways`, `PlacedAlways`, `CachedOnceAlways`: `OneCopy`, `Placed`, `CachedOnce`; and
  `TableKeepsPool`: the table implements `StringPool`. None of the invariants is inductive by itself.
  That a text has one string needs that a lookup that finds nothing is right, which is `Placed`;
  that it stays right until the insertion is `WantedIsNew`, because a collection in between frees
  strings and adds none; and that `Placed` survives the rebuilding of the table is `NewTableOK`,
  about the half of the slots that were moved already. The invariant adds types (`HeapOK`,
  `TableOK`, `CacheOK`) and what is under way (`ControlOK`).
- `ProbesEndAlways`: the count of used slots counts marks too and stays below the size
  (`CountsOK`, of the table in use and of the one that is being built, in which what is left of
  the old one must still have room).
- `CutsCharactersAlways`: where no text that is given begins within a character
  (`InputsBegin`), the cache remembers positions that are those of the characters they name
  (`PositionsOK`), and the scan comes to the right place from either end and from such a
  position. The hypothesis holds for the texts of the run `strings`; without it the property is
  false, which the run `split_characters` shows.
- `TrimsAlways`: for every text whose characters are whole. What the loop of `trim()` at the end
  of a text comes to (`TrimEnd`, a recursive function) is shown by induction over the position.

For any number of objects and references and any positive limit on recursion:

- `NeverDangling`, `CountsAlwaysExact`, `SweepsOnlyUncounted`, `CollectionsAreComplete`,
  `AlwaysAdvances`, and `HeapKeepsGraph`: the heap implements `ObjectGraph`. The argument for marking is
  `MarkOK`: whatever a marked object refers to is marked, or a call will come to that slot, or
  the object is a temporary root that a scan will come to or that has asked for another
  scan. When there are no calls, no scan and no request left, the marked objects are closed
  under their references, hence all that can be reached (`FinalizeRefcountsInv`). The argument
  for counts is that they are cardinalities of sets of references (`ReferencesAdd`,
  `OneReferenceChanges`): after the counts are finalized, those from marked objects alone
  (`CountsOK`), which garbage has none of (`GarbageIsUnreferenced`).

`Recursion` has what the provers lack. An induction theorem takes a predicate as its
parameter, which none of them can instantiate; so `Induction` says of a *set* of numbers that it
has all of them, from the well-foundedness of finite sets (`LeastNumber`), and `RecursionDefines`
that a *function* defined by a step function is what its definition says. With these the folds and
recursive functions of the models can be unfolded (`FlattenConcat`, `FlattenFlatten`, and
`StepsDefine` for a function that goes through a sequence element by element); recursive
operators still cannot.

Assumptions: `Undefined` is none of the values it is told apart from, no type of a container
(`UndefinedIsNoType`), no word (`UndefinedIsNoWord`) and no exit status (`UndefinedIsNoStatus`); the inputs are texts over `Chars`;
command lines are words over `Symbols`, which have the letters of the options (`SymbolsSuffice`),
and so are the values that are no code (`BadCodeIsWords`) and the text outside of documents; an
execution has at least one turn, a turn is made of pieces, and a row that was found is not empty
(`ExecutionsAreComplete`); `MaxShort` is a number; the sizes of
string tables suffice and their steps divide none of them; objects are finite. TLC evaluates them
in every run.

Only model-checked: termination (liveness); the comparison of the parser's events and of jrq's
answers with the reference documents (`ReportsDocuments`, `PassesOnTheRest`, `AnswersRequest`: the
references are recursive operators over trees).

## 7. What is not modelled

Line and column numbers; the `stateChange` event; the build. The letters within
`true`, `false`, `null` and the digits of a number are one class each, as the code checks
them no more closely. Zero bytes in the input. In `Jrq` the names of members have no dots and are no numbers, so
that a path is the sequence of its keys; properties that JavaScript objects inherit (an
argument `constructor`, a member `__proto__`) are outside of the model. `-c` and `-e` compile
their value and do nothing with it; what is code and what is not is a set the instance gives.

Most of the engine: the compiler and the bytecode, property tables, the built-in functions,
numbers, regular expressions, exceptions and call stacks — some 80000 lines that are vendored
and that jrq uses as it uses libc. The share of the repository's lines that is modelled is
small for this reason only.

Of the strings: white space of more than one byte, the strings that are built in and stay
for ever, and the pieces of arrays that an emergency collection turns into strings. Of the
objects: finalizers (no script sets one, so nothing is rescued and no collection finds a
cascade under way), buffers, and the compaction of property tables. That a new object is not
reachable before its first reference is set, without an allocation in between
(`duktape.c:45020-45022`), is taken from the code of `duk_push_object_helper`; the other places
that allocate objects follow the same rule.
