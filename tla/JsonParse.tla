----------------------------- MODULE JsonParse -----------------------------
(***************************************************************************)
(* The streaming parser of src/json.js.  A JsonParse object is a record;   *)
(* the objects whose parse() is running form a call stack, because every   *)
(* nested object or array is parsed by a JsonParse of its own on the same  *)
(* stream.  One action is one handler of the _parse() loop, or one turn of *)
(* the loop of parse().                                                    *)
(*                                                                         *)
(* Line and column counters serve only the text of an error and are left   *)
(* out, and so is the stateChange event, whose one handler is empty.       *)
(***************************************************************************)
EXTENDS FakeStream

CONSTANT
    Repeat      \* options.array || options.group: parse document after document

ASSUME RepeatIsBoolean == Repeat \in BOOLEAN

Types == {"object", "array"}

\* The key of a member: the index of an element, or the name of a member.
Key == [index : Int] \cup [name : Seq(Chars)]

ASSUME UndefinedIsNoKey == Undefined \notin Key \cup Types

\* What an exception complains of.
Reasons == {"key", "colon", "value", "token", "end", "unfinished"}

ASSUME UndefinedIsNoReason == Undefined \notin Reasons

VARIABLES
    stack,      \* the JsonParse objects inside parse(), innermost last
    pc,         \* where the innermost one is
    error,      \* the exception that reached jrqMain
    events,     \* the structural events emitted so far
    passed      \* the data of the "unparsed" events, which is written to stdout

vars == <<input, offset, buffer, eof, stack, pc, error, events, passed>>

Top == stack[Len(stack)]

---------------------------------------------------------------------------
(* JsonParse objects. *)

\* Mutant: _init leaves the parser in the state of an object that has begun.
BegunParser ==
    [state |-> "IN_OBJECT", to_parse |-> Undefined, cur_key |-> Undefined,
     cur_value |-> Undefined, array_index |-> -1, is_array |-> FALSE,
     initial |-> Undefined]

NewParser ==
    [state |-> "UNPARSED", to_parse |-> Undefined, cur_key |-> Undefined,
     cur_value |-> Undefined, array_index |-> -1, is_array |-> FALSE,
     initial |-> Undefined]

\* Mutant: _expectedEndState stays what _init makes it.
CompletedObject(p) == p.state = "OBJECT_END"

\* completed(), with _expectedEndState, which always follows the type.
Completed(p) ==
    p.state = IF p.initial = "array" THEN "ARRAY_END" ELSE "OBJECT_END"

\* _curKey()
CurKey(p) ==
    IF p.is_array THEN [index |-> p.array_index]
    ELSE IF p.cur_key = Undefined THEN Undefined
    ELSE [name |-> Unquote(p.cur_key)]

Event(name, key, value) == [event |-> name, key |-> key, value |-> value]

StartEvent == [object |-> "startObject", array |-> "startArray"]
EndEvent   == [object |-> "endObject", array |-> "endArray"]

---------------------------------------------------------------------------
(* What the actions do to the innermost object. *)

Update(p) == stack' = [stack EXCEPT ![Len(stack)] = p]

Emit(e) == events' = Append(events, e)

\* An exception unwinds every parse() on the stack up to jrqMain.
Throw(reason) ==
    /\ pc' = "failed"
    /\ error' = reason
    /\ UNCHANGED <<streamVars, stack, events, passed>>

\* The condition of the loop in _parse().  SYNTAX_ERROR is never entered.
Handles(p) ==
    /\ ~Completed(p)
    /\ p.to_parse # Undefined
    /\ ~Blank(p.to_parse)

InState(states) == pc = "parse" /\ Handles(Top) /\ Top.state \in states

\* _curValueAppend, the part that changes _cur_value.
ValueAppend(value, str) == IF Blank(str) THEN value ELSE OrEmpty(value) \o str

\* _isEnd: the state after the delimiter c, or Undefined.
IsEnd(p, c) ==
    CASE c = ","               -> IF p.is_array THEN "NEED_VALUE" ELSE "IN_OBJECT"
      [] c = "}"               -> "OBJECT_END"
      [] c = "]" /\ p.is_array -> "ARRAY_END"
      [] OTHER                 -> Undefined

\* _maybeEnd at the delimiter s[i], with _foundValue.
FoundValue(p, s, i) ==
    /\ Emit(Event("foundValue", CurKey(p), ValueAppend(p.cur_value, SubSeq(s, 1, i - 1))))
    /\ Update([p EXCEPT !.to_parse = From(s, i + 1),
                        !.cur_value = Undefined,
                        !.cur_key = IF p.is_array THEN @ ELSE Undefined,
                        !.array_index = IF p.is_array THEN @ + 1 ELSE @,
                        !.state = IsEnd(p, s[i])])
    /\ UNCHANGED <<streamVars, pc, error, passed>>

---------------------------------------------------------------------------
(* The handlers of _parse(). *)

\* A key is collected from wherever IN_OBJECT finds itself up to the second
\* quote, piece by piece if need be: characters before the first quote are
\* not looked at.
FindKey ==
    /\ InState({"IN_OBJECT", "HAVE_KEY"})
    /\ LET inObject == Top.state = "IN_OBJECT"
           s      == IF inObject THEN SkipWhiteSpace(Top.to_parse) ELSE Top.to_parse
           key    == OrEmpty(Top.cur_key)
           closes == {q \in Quotes(s) : inObject => \E open \in Quotes(s) : open < q}
       IN \/ \E i \in closes :
                /\ \A j \in closes : i <= j
                /\ Update([Top EXCEPT !.cur_key = key \o SubSeq(s, 1, i),
                                      !.to_parse = From(s, i + 1),
                                      !.state = "NEED_COLON"])
          \/ /\ closes = {}
             /\ Update([Top EXCEPT !.cur_key = key \o s,
                                   !.to_parse = Undefined,
                                   !.state = IF Quotes(s) = {} THEN @ ELSE "HAVE_KEY"])
    /\ UNCHANGED <<streamVars, pc, error, events, passed>>

\* The key is parsed here for the first time, so this is where a malformed
\* one throws.
FindColon ==
    /\ InState({"NEED_COLON"})
    /\ LET s == SkipWhiteSpace(Top.to_parse)
       IN \/ /\ Head(s) = ":"
             /\ IsJsonString(Top.cur_key)
             /\ Emit(Event("foundKey", CurKey(Top), Undefined))
             /\ Update([Top EXCEPT !.to_parse = Tail(s), !.state = "NEED_VALUE"])
             /\ UNCHANGED <<streamVars, pc, error, passed>>
          \/ Head(s) = ":" /\ ~IsJsonString(Top.cur_key) /\ Throw("key")
          \/ Head(s) # ":" /\ Throw("colon")

\* The first character of a value decides how it is parsed.
ValueState ==
    [c \in {"num", "t", "f", "n", "{", "["} |->
        CASE c = "num" -> "PARSE_NUMBER"
          [] c = "t"   -> "PARSE_TRUE"
          [] c = "f"   -> "PARSE_FALSE"
          [] c = "n"   -> "PARSE_NULL"
          [] c = "{"   -> "PARSE_OBJECT"
          [] c = "["   -> "PARSE_ARRAY"]

FindValue ==
    /\ InState({"NEED_VALUE"})
    /\ LET s == SkipWhiteSpace(Top.to_parse)
           emptyArray == Head(s) = "]" /\ Top.is_array
       IN \/ /\ Head(s) = "quote"
             /\ Update([Top EXCEPT !.to_parse = Tail(s),
                                   !.cur_value = <<"quote">>,
                                   !.state = "PARSE_STRING"])
             /\ UNCHANGED <<streamVars, pc, error, events, passed>>
          \/ /\ Head(s) \in DOMAIN ValueState
             /\ Update([Top EXCEPT !.to_parse = s,
                                   !.cur_value = OrEmpty(@),
                                   !.state = ValueState[Head(s)]])
             /\ UNCHANGED <<streamVars, pc, error, events, passed>>
          \/ /\ emptyArray
             /\ Update([Top EXCEPT !.to_parse = Tail(s),
                                   !.cur_value = OrEmpty(@),
                                   !.state = "ARRAY_END"])
             /\ UNCHANGED <<streamVars, pc, error, events, passed>>
          \/ /\ Head(s) \notin {"quote"} \cup DOMAIN ValueState
             /\ ~emptyArray
             /\ Throw("value")

\* Leading white space is skipped in the text after the opening quote, and
\* again in every further piece of the string.
ParseString ==
    /\ InState({"PARSE_STRING"})
    /\ LET s == SkipWhiteSpace(Top.to_parse)
       IN \/ \E i \in Quotes(s) :
                /\ \A j \in Quotes(s) : i <= j
                /\ Update([Top EXCEPT !.to_parse = From(s, i + 1),
                                      !.cur_value = ValueAppend(@, SubSeq(s, 1, i)),
                                      !.state = "NEED_END"])
          \/ /\ Quotes(s) = {}
             /\ Update([Top EXCEPT !.to_parse = Undefined, !.cur_value = @ \o s])
    /\ UNCHANGED <<streamVars, pc, error, events, passed>>

\* The characters _parseNumber, _parseTrue, _parseFalse and _parseNull accept,
\* in any order.
TokenChars ==
    [PARSE_NUMBER |-> {"num", "exp"}, PARSE_TRUE |-> {"t"},
     PARSE_FALSE |-> {"f"}, PARSE_NULL |-> {"n"}]

\* The four handlers scan to the first character that does not belong to the
\* token.  When the text ends first they leave everything as it was, and the
\* loop of _parse() calls them again.
ParseToken ==
    /\ InState(DOMAIN TokenChars)
    /\ LET s == SkipWhiteSpace(Top.to_parse)
           i == Span(s, TokenChars[Top.state]) + 1
       IN \/ /\ i > Len(s)
             /\ Update([Top EXCEPT !.to_parse = s])
             /\ UNCHANGED <<streamVars, pc, error, events, passed>>
          \/ /\ i <= Len(s) /\ s[i] = "ws"
             /\ Update([Top EXCEPT !.to_parse = From(s, i),
                                   !.cur_value = ValueAppend(@, SubSeq(s, 1, i - 1)),
                                   !.state = "NEED_END"])
             /\ UNCHANGED <<streamVars, pc, error, events, passed>>
          \/ i <= Len(s) /\ IsEnd(Top, s[i]) # Undefined /\ FoundValue(Top, s, i)
          \/ /\ i <= Len(s) /\ s[i] # "ws" /\ IsEnd(Top, s[i]) = Undefined
             /\ Throw("token")

FindEnd ==
    /\ InState({"NEED_END"})
    /\ LET s == SkipWhiteSpace(Top.to_parse)
       IN \/ IsEnd(Top, s[1]) # Undefined /\ FoundValue(Top, s, 1)
          \/ IsEnd(Top, s[1]) = Undefined /\ Throw("end")

\* _parseObject and _parseArray give the rest of the text back to the stream
\* and start a parser of their own on it.
ParseNested(state, type) ==
    /\ InState({state})
    /\ Unshift(SkipWhiteSpace(Top.to_parse))
    /\ Emit(Event(StartEvent[type], CurKey(Top), Undefined))
    /\ stack' = Append([stack EXCEPT ![Len(stack)].to_parse = Undefined], NewParser)
    /\ pc' = "read"
    /\ UNCHANGED <<error, passed>>

ParseObject == ParseNested("PARSE_OBJECT", "object")
ParseArray  == ParseNested("PARSE_ARRAY", "array")

\* The end state of the other type of container: the switch of _parse() does
\* nothing in it and the loop goes round again.
WrongEnd ==
    /\ InState({"OBJECT_END", "ARRAY_END"})
    /\ UNCHANGED vars

\* The loop of _parse() is over.
ParseDone ==
    /\ pc = "parse" /\ ~Handles(Top)
    /\ pc' = "read"
    /\ UNCHANGED <<streamVars, stack, error, events, passed>>

---------------------------------------------------------------------------
(* parse() *)

Reads(p) == p.state = "UNPARSED" \/ (~Completed(p) /\ IsReadable)

\* Mutant: only objects are looked for.
OpeningObject(s) == Span(s, Chars \ {"{"}) + 1

Opening(s) == Span(s, Chars \ {"{", "["}) + 1

\* A new parser looks for the first bracket and passes on what precedes it.
StartDocument ==
    /\ pc = "read" /\ Top.state = "UNPARSED"
    /\ \E result \in ReadResults :
         /\ result.str # Undefined
         /\ Read(result)
         /\ LET i    == Opening(result.str)
                type == IF result.str[i] = "{" THEN "object" ELSE "array"
            IN \/ /\ i <= Len(result.str)
                  /\ Emit(Event(StartEvent[type], CurKey(Top), Undefined))
                  /\ passed' = passed \o SubSeq(result.str, 1, i - 1)
                  /\ Update([Top EXCEPT
                               !.state = IF type = "object" THEN "IN_OBJECT" ELSE "NEED_VALUE",
                               !.initial = type,
                               !.is_array = type = "array",
                               !.array_index = IF type = "array" THEN 0 ELSE @,
                               !.to_parse = From(result.str, i + 1)])
                  /\ pc' = "parse"
               \/ /\ i > Len(result.str)
                  /\ passed' = passed \o result.str
                  /\ UNCHANGED <<stack, pc, events>>
    /\ UNCHANGED error

ReadMore ==
    /\ pc = "read" /\ Top.state # "UNPARSED" /\ Reads(Top)
    /\ \E result \in ReadResults :
         /\ result.str # Undefined
         /\ Read(result)
         /\ Update([Top EXCEPT !.to_parse = result.str])
    /\ pc' = "parse"
    /\ UNCHANGED <<error, events, passed>>

\* read() returned null and the loop breaks.
EndOfInput ==
    /\ pc = "read" /\ Reads(Top)
    /\ \E result \in ReadResults : result.str = Undefined /\ Read(result)
    /\ pc' = "leave"
    /\ UNCHANGED <<stack, error, events, passed>>

\* Mutant: _endArray emits its event before it clears _is_array.
EndedLater(p, type) == p

\* _endObject and _endArray of p: the latter clears _is_array first.
Ended(p, type) == IF type = "array" THEN [p EXCEPT !.is_array = FALSE] ELSE p

\* What follows the loop: the rest of the text goes back to the stream, and
\* the container is ended or found to be unfinished.
Leave ==
    /\ pc = "leave" \/ (pc = "read" /\ ~Reads(Top))
    /\ LET rest == Top.to_parse # Undefined /\ ~Blank(Top.to_parse)
           left == IF rest THEN [Top EXCEPT !.to_parse = Undefined] ELSE Top
           p    == Ended(left, Top.initial)
       IN \/ /\ Top.state # "UNPARSED" /\ Completed(Top)
             /\ IF rest THEN Unshift(Top.to_parse) ELSE UNCHANGED streamVars
             /\ Emit(Event(EndEvent[Top.initial], CurKey(p), Undefined))
             /\ Update(p)
             /\ pc' = "return"
             /\ UNCHANGED <<error, passed>>
          \/ /\ ~(Top.state # "UNPARSED" /\ Completed(Top))
             /\ ~(rest \/ IsReadable)
             /\ pc' = "return"
             /\ UNCHANGED <<streamVars, stack, error, events, passed>>
          \/ /\ ~(Top.state # "UNPARSED" /\ Completed(Top))
             /\ rest \/ IsReadable
             /\ Throw("unfinished")

\* _parseObject or _parseArray goes on when parse() of the nested parser is over.
Return ==
    /\ pc = "return" /\ Len(stack) > 1
    /\ LET outer == stack[Len(stack) - 1]
           type  == IF outer.state = "PARSE_ARRAY" THEN "array" ELSE "object"
           p     == Ended([outer EXCEPT !.cur_value = Undefined, !.state = "NEED_END"], type)
       IN /\ Emit(Event(EndEvent[type], CurKey(p), Undefined))
          /\ stack' = Append(SubSeq(stack, 1, Len(stack) - 2), p)
    /\ pc' = "parse"
    /\ UNCHANGED <<streamVars, error, passed>>

\* The loop of innerMain: another document, or the end.
NextDocument ==
    /\ pc = "return" /\ Len(stack) = 1
    /\ Repeat /\ IsReadable
    /\ stack' = <<NewParser>>
    /\ pc' = "read"
    /\ UNCHANGED <<streamVars, error, events, passed>>

Finish ==
    /\ pc = "return" /\ Len(stack) = 1
    /\ ~(Repeat /\ IsReadable)
    /\ pc' = "done"
    /\ UNCHANGED <<streamVars, stack, error, events, passed>>

---------------------------------------------------------------------------
\* jrqMain has returned.
Exited == pc \in {"done", "failed"} /\ UNCHANGED vars

Init ==
    /\ StreamInit
    /\ stack = <<NewParser>>
    /\ pc = "read"
    /\ error = Undefined
    /\ events = <<>>
    /\ passed = <<>>

Next ==
    \/ StartDocument \/ ReadMore \/ EndOfInput
    \/ FindKey \/ FindColon \/ FindValue \/ FindEnd
    \/ ParseString \/ ParseToken \/ ParseObject \/ ParseArray
    \/ WrongEnd \/ ParseDone
    \/ Leave \/ Return \/ NextDocument \/ Finish \/ Exited

Spec == Init /\ [][Next]_vars

\* One thread runs until it returns, and every read(2) returns.
FairSpec == Spec /\ WF_vars(Next)

---------------------------------------------------------------------------
(* Types. *)

States == {"UNPARSED", "IN_OBJECT", "HAVE_KEY", "NEED_COLON", "NEED_VALUE",
           "NEED_END", "PARSE_STRING", "PARSE_NUMBER", "PARSE_TRUE",
           "PARSE_FALSE", "PARSE_NULL", "PARSE_OBJECT", "PARSE_ARRAY",
           "OBJECT_END", "ARRAY_END"}

Maybe(S) == S \cup {Undefined}

Text == Seq(Chars)

Parser == [state : States, to_parse : Maybe(Text), cur_key : Maybe(Text),
           cur_value : Maybe(Text), array_index : Int, is_array : BOOLEAN,
           initial : Maybe(Types)]

EventType == [event : {"startObject", "endObject", "startArray", "endArray",
                       "foundKey", "foundValue"},
              key : Maybe(Key), value : Maybe(Text)]

\* The variables have these types, and a parser that is past its first bracket
\* knows which one it was.
TypeOK ==
    /\ input.text \in Text
    /\ offset \in 0..Len(input.text)
    /\ buffer \in Seq(Text)
    /\ eof \in BOOLEAN
    /\ stack \in Seq(Parser) /\ stack # <<>>
    /\ \A i \in 1..Len(stack) : stack[i].state # "UNPARSED" => stack[i].initial # Undefined
    /\ pc \in {"read", "parse", "leave", "return", "done", "failed"}
    /\ error \in Maybe(Reasons)
    /\ events \in Seq(EventType)
    /\ passed \in Text

---------------------------------------------------------------------------
(* The text on its way from one parser to the next. *)

\* The text that has been read but not parsed: what a parser gave back to the
\* stream comes before what is read next.
Unread == OrEmpty(Top.to_parse) \o (IF buffer = <<>> THEN <<>> ELSE Head(buffer))

Position == offset - Len(Unread)

\* Of all the parsers on the stack and the stream only one ever holds text.
\* This is what makes FakeStream.unshift right although it adds at the end of
\* the buffer where it should add at its head, and what makes it safe that a
\* parser overwrites _to_parse with the next piece it reads.
SoleHolder ==
    /\ \A i \in 1..(Len(stack) - 1) : stack[i].to_parse = Undefined
    /\ Len(buffer) <= 1
    /\ buffer # <<>> => Top.to_parse = Undefined

\* What has not been parsed is always the last part of what has been read:
\* handing the text from parser to parser drops nothing in its middle, repeats
\* nothing and changes no order.
UnreadIsLatest ==
    /\ Position >= 0
    /\ Unread = SubSeq(input.text, Position + 1, offset)

\* No step makes a parser see a character again that was parsed before.
NeverRereads == [][Position' >= Position]_vars

\* The check for an unfinished document at the end of parse() never fires: it
\* asks whether the stream is readable, and the loop before it ends for an
\* unfinished document only when it is not.
NeverUnfinished == error # "unfinished"

---------------------------------------------------------------------------
(* The order of the events. *)

\* How many of the parsers have started a container and not ended it.
Started ==
    IF Top.state = "UNPARSED" \/ (pc \in {"return", "done"} /\ Completed(Top))
    THEN Len(stack) - 1 ELSE Len(stack)

MemberOf(p) ==
    IF p.state \in {"IN_OBJECT", "HAVE_KEY", "NEED_COLON"} THEN Undefined ELSE CurKey(p)

NestedIn(p, innermost) ==
    IF ~innermost THEN IF p.state = "PARSE_ARRAY" THEN "array" ELSE "object"
    ELSE IF p.state = "NEED_END" /\ p.cur_value = Undefined THEN "concluded"
    ELSE "none"

Open ==
    [i \in 1..Started |->
       [type   |-> stack[i].initial,
        member |-> MemberOf(stack[i]),
        nested |-> NestedIn(stack[i], i = Len(stack))]]

Protocol == INSTANCE EventProtocol
              WITH Names <- [name : Text], Texts <- Text \ {<<>>},
                   open <- Open, over <- eof, log <- events

\* Every text, well-formed or not and cut in any way, gives rise to a sequence
\* of events that the protocol allows.
KeepsProtocol == Protocol!Spec

\* Every execution comes to its end without an exception.
Terminates == <>(pc = "done")
===========================================================================
