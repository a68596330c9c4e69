-------------------------------- MODULE Jrq --------------------------------
(***************************************************************************)
(* innerMain of src/jrq.js and the handlers it registers, together with    *)
(* the hydraters it makes and with the emitter of src/events.js that calls *)
(* them all.  The parser is a script of the events it emits, in which Call *)
(* and Return say where parse() of a nested parser begins and ends:        *)
(* JsonParse emits the same events whoever listens.                        *)
(*                                                                         *)
(* A handler may run the parser of the container it was called for, and so *)
(* emissions nest; and emit() looks at the length of the list of handlers  *)
(* in every turn, so a handler that was registered meanwhile is called,    *)
(* too.  innerMain's handlers are the first of every list.                 *)
(*                                                                         *)
(* Left out: the texts that separate what is written and those that are    *)
(* passed on unparsed; the names a JavaScript object inherits, so keyPaths *)
(* has no paths but the arguments; and what nothing depends on: desired,   *)
(* curKeyPath, objectStack and the handler of stateChange.                 *)
(***************************************************************************)
EXTENDS JsonCreate

CONSTANT Sessions   \* records [keys, array, group, args, parses, ...]

\* What the parser of a script does: the call of a nested parser, the return of
\* one, or the emission of an event.  It never finds a blank value (json.js:480).
Items == [event : {"call", "return", "startObject", "endObject", "startArray", "endArray",
                   "foundKey", "foundValue"},
          key : Maybe(Keys), value : Maybe({text \in Texts : ~Blank(text)})]

ASSUME SessionsAreRequests ==
    \A s \in Sessions :
        /\ s.keys \in BOOLEAN /\ s.array \in BOOLEAN /\ s.group \in BOOLEAN
        /\ s.args \in Seq(Seq(Keys))
        /\ s.parses \in Seq(Seq(Items)) /\ s.parses # <<>>

ASSUME UndefinedIsNoType == Undefined \notin {"object", "array"}

VARIABLES
    session,        \* the options, arguments and scripts of this execution
    count,          \* which call of the outermost parse() this is
    at,             \* the next item of its script
    main,           \* where innerMain is
    calls,          \* the calls in progress within it, innermost last
    keyStack,
    objectDepth,
    initialObject,
    argOutput,
    foundKeys,
    written         \* what was written to stdout

selectionVars == <<keyStack, objectDepth, initialObject, argOutput, foundKeys, written>>

vars == <<session, count, at, main, calls, selectionVars, createVars>>

---------------------------------------------------------------------------
(* Calls. *)

Parsing     == [call |-> "parse"]
Creating(h) == [call |-> "create", hydrater |-> h]
Emitting(e) == [call |-> "emit", event |-> e, handler |-> 1]

Running(call) == calls # <<>> /\ calls[Len(calls)].call = call
Current == calls[Len(calls)]
Callers == SubSeq(calls, 1, Len(calls) - 1)

Call   == [event |-> "call", key |-> Undefined, value |-> Undefined]
Return == [event |-> "return", key |-> Undefined, value |-> Undefined]

Script == session.parses[count]
Item   == IF at > Len(Script) THEN Return ELSE Script[at]

\* An exception unwinds everything up to jrqMain.
Throw ==
    /\ main' = "failed"
    /\ calls' = <<>>
    /\ UNCHANGED <<session, count, at, selectionVars, createVars>>

---------------------------------------------------------------------------
(* The parsers. *)

ParserEmits ==
    /\ Running("parse") /\ Item.event \notin {"call", "return"}
    /\ calls' = Append(calls, Emitting(Item))
    /\ at' = at + 1
    /\ UNCHANGED <<session, count, main, selectionVars, createVars>>

\* The parser of the outer container parses the nested one, unless a handler
\* has done so: then the script is past this.
ParserCalls ==
    /\ Running("parse") /\ Item = Call
    /\ calls' = Append(calls, Parsing)
    /\ at' = at + 1
    /\ UNCHANGED <<session, count, main, selectionVars, createVars>>

ParserReturns ==
    /\ Running("parse") /\ Item = Return
    /\ calls' = Callers
    /\ at' = at + 1
    /\ UNCHANGED <<session, count, main, selectionVars, createVars>>

---------------------------------------------------------------------------
(* The emitter. *)

Handlers == Len(hydraters) + 1

EmitDone ==
    /\ Running("emit") /\ Current.handler > Handlers
    /\ calls' = Callers
    /\ UNCHANGED <<session, count, at, main, selectionVars, createVars>>

Handled(frames) == [frames EXCEPT ![Len(frames)].handler = @ + 1]

HydraterHandles ==
    /\ Running("emit") /\ Current.handler \in 2..Handlers
    /\ LET h == Current.handler - 1
           e == Current.event
       IN \/ /\ e.event = "foundValue" /\ Refuses(h, e.value)
             /\ Throw
          \/ /\ ~(e.event = "foundValue" /\ Refuses(h, e.value))
             /\ Hydrates(h, e)
             /\ calls' = Handled(calls)
             /\ UNCHANGED <<session, count, at, main, selectionVars>>

---------------------------------------------------------------------------
(* What innerMain's handlers do. *)

OnEvent(event) == Running("emit") /\ Current.handler = 1 /\ Current.event.event = event

Key == Current.event.key

\* Mutant: the index of the element is never taken off.
WholePath(key) == Append(keyStack, key)

\* keyInPath: the path the arguments are compared with.  join('.') loses nothing:
\* the names of members have no dots and are no numbers.
Path(key) ==
    LET inElement == session.array /\ initialObject = "array"
    IN Append(IF inElement THEN SubSeq(keyStack, 2, Len(keyStack)) ELSE keyStack, key)

Paths(key) == {i \in 1..Len(session.args) : session.args[i] = Path(key)}

\* Mutant: what has no key is pushed, too.
PushedAlways(key) == Append(keyStack, key)

Pushed(key) == IF key = Undefined THEN keyStack ELSE Append(keyStack, key)

\* Mutant: what has no key pops one, too.
PoppedAlways(key) == IF keyStack = <<>> THEN <<>> ELSE SubSeq(keyStack, 1, Len(keyStack) - 1)

\* popKey: pop() of an empty array does nothing.
Popped(key) ==
    IF key = Undefined \/ keyStack = <<>> THEN keyStack
    ELSE SubSeq(keyStack, 1, Len(keyStack) - 1)

\* Mutant: the new array has no places.
EmptyOutput == <<>>

NewOutput == [i \in 1..Len(session.args) |-> Undefined]

\* addSelected
Selected(key, value) ==
    LET output == IF argOutput = Undefined THEN NewOutput ELSE argOutput
    IN IF value = Undefined \/ Paths(key) = {} THEN argOutput
       ELSE [i \in DOMAIN output |-> IF i \in Paths(key) THEN value ELSE output[i]]

\* writeFoundKeys
Output(values) ==
    IF values = Undefined THEN written
    ELSE Append(written, [values |-> [i \in DOMAIN values |-> Tree(values[i])]])

JrqReturns == calls' = Handled(calls) /\ UNCHANGED <<session, count, at, main, createVars>>

\* hydrater.parse(): a new closure, whose parser is called at once.
Create ==
    /\ hydraters' = Append(hydraters, NewHydrater)
    /\ calls' = calls \o <<Creating(Len(hydraters) + 1), Parsing>>
    /\ UNCHANGED <<session, count, heap>>

\* -a without arguments: every container in the outermost one is hydrated.
WantsElement == session.array /\ session.args = <<>> /\ objectDepth' = 1

---------------------------------------------------------------------------
(* The handlers of innerMain. *)

JrqFoundKey ==
    /\ OnEvent("foundKey")
    /\ foundKeys' = IF session.keys /\ objectDepth = 0 THEN Append(foundKeys, Key) ELSE foundKeys
    /\ JrqReturns
    /\ UNCHANGED <<keyStack, objectDepth, initialObject, argOutput, written>>

JrqFoundValue ==
    /\ OnEvent("foundValue")
    /\ LET value    == Current.event.value
           selected == Selected(Key, IF value = Undefined THEN Undefined ELSE Parsed(value))
           refuses  == value \in Malformed /\ Paths(Key) # {}
           writes   == session.array /\ objectDepth = 0 /\ initialObject = "array"
       IN \/ /\ session.keys
             /\ JrqReturns
             /\ UNCHANGED selectionVars
          \/ ~session.keys /\ refuses /\ Throw
          \/ /\ ~session.keys /\ ~refuses
             /\ written' = IF writes THEN Output(selected) ELSE written
             /\ argOutput' = IF writes THEN Undefined ELSE selected
             /\ JrqReturns
             /\ UNCHANGED <<keyStack, objectDepth, initialObject, foundKeys>>

StartContainer(type) ==
    /\ objectDepth' = objectDepth + 1
    /\ initialObject' = IF initialObject = Undefined THEN type ELSE initialObject

\* A selected object is hydrated before its key is pushed.  (initialObject is
\* set before the path is computed, but never by an event with a key.)
JrqStartObject ==
    /\ OnEvent("startObject")
    /\ StartContainer("object")
    /\ LET member   == Key # Undefined /\ ~session.keys
           selected == Paths(Key) # {}
       IN \/ /\ ~member
             /\ JrqReturns
             /\ UNCHANGED keyStack
          \/ /\ member /\ selected
             /\ Create
             /\ at' = at + 1
             /\ UNCHANGED <<main, keyStack>>
          \/ /\ member /\ ~selected
             /\ keyStack' = Pushed(Key)
             /\ IF WantsElement THEN Create /\ at' = at + 1 /\ UNCHANGED main ELSE JrqReturns
    /\ UNCHANGED <<argOutput, foundKeys, written>>

JrqStartArray ==
    /\ OnEvent("startArray")
    /\ StartContainer("array")
    /\ keyStack' = Pushed(Key)
    /\ IF WantsElement /\ ~session.keys
       THEN Create /\ at' = at + 1 /\ UNCHANGED main
       ELSE JrqReturns
    /\ UNCHANGED <<argOutput, foundKeys, written>>

JrqEnd ==
    /\ OnEvent("endObject") \/ OnEvent("endArray")
    /\ objectDepth' = objectDepth - 1
    /\ keyStack' = Popped(Key)
    /\ JrqReturns
    /\ UNCHANGED <<initialObject, argOutput, foundKeys, written>>

---------------------------------------------------------------------------
(* The end of hydrater.parse(), and what its caller does with the value. *)

StackTooLong == Running("create") /\ TooLong(Current.hydrater) /\ Throw

CreateReturns ==
    /\ Running("create") /\ ~TooLong(Current.hydrater)
    /\ Conclude(Current.hydrater)
    /\ LET value == Result(Current.hydrater)
           key   == Callers[Len(Callers)].event.key
       IN \/ /\ Callers = <<>> \/ session.args = <<>>   \* the document, or an element
             /\ argOutput' = <<value>>
             /\ UNCHANGED keyStack
          \/ /\ Callers # <<>> /\ session.args # <<>>  \* a selected object
             /\ argOutput' = Selected(key, value)
             /\ keyStack' = Pushed(key)
    /\ calls' = IF Callers = <<>> THEN <<>> ELSE Handled(Callers)
    /\ UNCHANGED <<session, count, at, main, objectDepth, initialObject, foundKeys, written>>

---------------------------------------------------------------------------
(* The loop of innerMain. *)

ParseTurn ==
    /\ main = "loop"
    /\ main' = "parsing"
    /\ argOutput' = Undefined
    /\ foundKeys' = <<>>
    /\ IF ~session.keys /\ ~session.array /\ session.args = <<>>
       THEN Create
       ELSE calls' = <<Parsing>> /\ UNCHANGED <<session, count, createVars>>
    /\ UNCHANGED <<at, keyStack, objectDepth, initialObject, written>>

\* stdin.isReadable(): the last of the parses is the one that meets the end of
\* the input.
WriteTurn ==
    /\ main = "parsing" /\ calls = <<>>
    /\ \/ /\ session.keys
          /\ written' = written \o
                IF session.array THEN [i \in DOMAIN foundKeys |-> [keys |-> <<foundKeys[i]>>]]
                ELSE <<[keys |-> foundKeys]>>
          /\ UNCHANGED argOutput
       \/ /\ ~session.keys
          /\ written' = Output(argOutput)
          /\ argOutput' = Undefined
    /\ \/ /\ session.array \/ session.group
          /\ count < Len(session.parses)
          /\ main' = "loop" /\ count' = count + 1 /\ at' = 1
       \/ /\ ~((session.array \/ session.group) /\ count < Len(session.parses))
          /\ main' = "done" /\ UNCHANGED <<count, at>>
    /\ UNCHANGED <<session, calls, keyStack, objectDepth, initialObject, foundKeys, createVars>>

\* jrqMain has returned.
JrqExited == main \in {"done", "failed"} /\ UNCHANGED vars

---------------------------------------------------------------------------
Init ==
    /\ session \in Sessions
    /\ count = 1 /\ at = 1
    /\ main = "loop"
    /\ calls = <<>>
    /\ keyStack = <<>>
    /\ objectDepth = -1
    /\ initialObject = Undefined
    /\ argOutput = Undefined
    /\ foundKeys = <<>>
    /\ written = <<>>
    /\ heap = <<>> /\ hydraters = <<>>

Next ==
    \/ ParserEmits \/ ParserCalls \/ ParserReturns
    \/ EmitDone \/ HydraterHandles
    \/ JrqFoundKey \/ JrqFoundValue \/ JrqStartObject \/ JrqStartArray \/ JrqEnd
    \/ StackTooLong \/ CreateReturns
    \/ ParseTurn \/ WriteTurn \/ JrqExited

Spec == Init /\ [][Next]_vars

---------------------------------------------------------------------------
(* The scripts of complete documents. *)

\* Where a script is: how many parsers have been called and not returned, and
\* where the last of them is: outside of its container, inside, or at a nested
\* container, which is announced before its parser is called.
Levels == [parsers : Nat, where : {"outside", "inside", "announced", "nested"}]

Starts(item) == item.event \in {"startObject", "startArray"}
Ends(item)   == item.event \in {"endObject", "endArray"}
Keyed(item)  == item.key # Undefined

\* The parser of a container starts and ends it without a key, that of the
\* container around it with its key.
Takes(from, item, to) ==
    LET Move(a, b) == from.where = a /\ to = [from EXCEPT !.where = b]
    IN \/ Starts(item) /\ ~Keyed(item) /\ Move("outside", "inside")
       \/ Starts(item) /\ Keyed(item) /\ Move("inside", "announced")
       \/ Ends(item) /\ Keyed(item) /\ Move("nested", "inside")
       \/ Ends(item) /\ ~Keyed(item) /\ Move("inside", "outside")
       \/ item.event \in {"foundKey", "foundValue"} /\ from.where # "announced" /\ to = from
       \/ item = Call /\ from.where = "announced"
          /\ to = [parsers |-> from.parsers + 1, where |-> "outside"]
       \/ item = Return /\ from.where = "outside"
          /\ to = [parsers |-> from.parsers - 1, where |-> "nested"]

\* levels[i] is where the script is after i items; its end is the return of the
\* outermost parser, which does not return before.
IsTrail(levels, script) ==
    /\ levels[0] = [parsers |-> 1, where |-> "outside"]
    /\ \A i \in 0..Len(script) : levels[i].parsers > 0
    /\ levels[Len(script) + 1].parsers = 0
    /\ \A i \in 0..Len(script) :
          Takes(levels[i], IF i = Len(script) THEN Return ELSE script[i + 1], levels[i + 1])

Bracketed(script) == \E levels \in [0..(Len(script) + 1) -> Levels] : IsTrail(levels, script)

---------------------------------------------------------------------------
(* Properties. *)

Frames ==
    {Parsing}
    \cup [call : {"create"}, hydrater : 1..Len(hydraters)]
    \cup [call : {"emit"}, event : Items, handler : 1..(Handlers + 1)]

\* argOutput has a place for every argument, or one for the whole.
Places == IF session.args = <<>> THEN 1..1 ELSE 1..Len(session.args)

\* The variables have these types: a frame names a handler that exists, and a
\* reference an object that does.
TypeOK ==
    /\ count \in 1..Len(session.parses)
    /\ at \in Nat \ {0}
    /\ main \in {"loop", "parsing", "done", "failed"}
    /\ calls \in Seq(Frames)
    /\ keyStack \in Seq(Keys)
    /\ objectDepth \in Int
    /\ initialObject \in Maybe({"object", "array"})
    /\ argOutput \in Maybe([Places -> Maybe(Values)])
    /\ foundKeys \in Seq(Maybe(Keys))
    /\ hydraters \in Seq([cur : Maybe(Objects), stack : Seq(Objects)])
    /\ \A n \in Objects : \A key \in DOMAIN heap[n].members : heap[n].members[key] \in Values

\* Between documents nothing is left of the last one: innerMain is back at the
\* outermost level, and so is every hydrater.
Settled ==
    main \in {"loop", "done"} =>
        /\ keyStack = <<>>
        /\ objectDepth = -1
        /\ \A h \in 1..Len(hydraters) : hydraters[h].stack = <<>>

\* What waits in argOutput to be written stays as it was found: the handlers of
\* the hydrater that made it, still registered, do not add to it.
ResultsKeep ==
    [][argOutput # Undefined /\ argOutput' = argOutput =>
         \A i \in DOMAIN argOutput : Tree(argOutput[i])' = Tree(argOutput[i])]_vars
===========================================================================
