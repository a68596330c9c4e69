------------------------ MODULE EventProtocolProofs ------------------------
(***************************************************************************)
(* JsonParse implements EventProtocol.  Whether the step of a handler is   *)
(* one the protocol allows depends on what the innermost parser knows of   *)
(* the member it is at: that it has a key (KeyOK), that the bracket of a   *)
(* nested container is the one it was announced with, on its way through   *)
(* the stream too (TopOK), and why the parser above it has returned.  Both *)
(* are inductive together with TypeInv and TextInv.                        *)
(***************************************************************************)
EXTENDS JsonParseProofs

\* The characters that the text of a value begins with, in the states that
\* _findValue enters without looking at what comes next.
Begins ==
    [PARSE_NUMBER |-> {"num"}, PARSE_TRUE |-> {"t"}, PARSE_FALSE |-> {"f"},
     PARSE_NULL |-> {"n"}, PARSE_OBJECT |-> {"{"}, PARSE_ARRAY |-> {"["}]

BeginsWith(s, C) == s \in Text /\ s # <<>> /\ s[1] \in C

\* The next event of p is about a value that has a key.
AtMember(p) ==
    \/ p.state \in DOMAIN Begins \cup {"NEED_VALUE", "PARSE_STRING"}
    \/ p.state = "NEED_END" /\ p.cur_value # Undefined

KeyOK(p) ==
    /\ p.state = "UNPARSED" => p = NewParser
    /\ p.is_array => p.initial = "array" /\ p.cur_key = Undefined
    /\ p.state \in {"IN_OBJECT", "HAVE_KEY", "NEED_COLON"} => ~p.is_array
    /\ p.state = "NEED_COLON" => p.cur_key # Undefined
    /\ AtMember(p) => p.is_array \/ p.cur_key # Undefined
    /\ p.state \in {"PARSE_STRING", "NEED_END"} => p.cur_value # <<>>
    /\ p.state = "OBJECT_END" /\ ~p.is_array => p.cur_key = Undefined

TopOK ==
    /\ Top.state \in DOMAIN Begins =>
         pc = "parse" /\ BeginsWith(Top.to_parse, Begins[Top.state])
    /\ Top.state = "UNPARSED" /\ Len(stack) > 1 =>
         /\ pc = "read" /\ buffer # <<>>
         /\ BeginsWith(buffer[1], Begins[stack[Len(stack) - 1].state])
    /\ Top.state = "ARRAY_END" /\ pc \notin {"return", "done"} => Top.is_array
    /\ pc = "return" => (Top.state # "UNPARSED" /\ Completed(Top)) \/ ~IsReadable

ProtocolInv ==
    /\ \A i \in 1..Len(stack) : KeyOK(stack[i])
    /\ pc # "failed" => TopOK

Inv == TypeInv /\ TextInv /\ ProtocolInv

\* What every action has to show.
Step == ProtocolInv' /\ [Protocol!Next]_(Protocol!vars)

---------------------------------------------------------------------------
(* The levels of the protocol that the parsers stand for. *)

Concluded(p) == p.state = "NEED_END" /\ p.cur_value = Undefined

\* The level of a parser that is the innermost one, and of one that waits.
LevelOf(p) == [type |-> p.initial, member |-> MemberOf(p),
               nested |-> IF Concluded(p) THEN "concluded" ELSE "none"]
Waiting(p) == [type |-> p.initial, member |-> MemberOf(p),
               nested |-> IF p.state = "PARSE_ARRAY" THEN "array" ELSE "object"]

LEMMA OpenLevels ==
  Open = [i \in 1..Started |->
            IF i = Len(stack) THEN LevelOf(stack[i]) ELSE Waiting(stack[i])]
BY DEF Open, LevelOf, Waiting, NestedIn, Concluded

LEMMA NextLevels ==
  Open' = [i \in 1..Started' |->
             IF i = Len(stack') THEN LevelOf(stack'[i]) ELSE Waiting(stack'[i])]
BY DEF Open, LevelOf, Waiting, NestedIn, Concluded

LEMMA LevelsAreASequence ==
  ASSUME NEW n \in Nat, NEW o, o = [i \in 1..n |-> o[i]]
  PROVE  /\ o \in Seq({o[i] : i \in 1..n})
         /\ Len(o) = n
         /\ o = <<>> <=> n = 0
<1> DEFINE S == {o[i] : i \in 1..n}
<1>1. \A i \in 1..n : o[i] \in S
  OBVIOUS
<1>2. o \in [1..n -> S]
  BY <1>1
<1>3. o \in Seq(S)
  BY <1>2, SeqDef
<1>4. Len(o) = n
  BY <1>2, <1>3, LenProperties
<1> QED
  BY <1>3, <1>4, EmptySeq

LEMMA RecordFields ==
  ASSUME NEW t, NEW m, NEW x, NEW l, l = [type |-> t, member |-> m, nested |-> x]
  PROVE  l.type = t /\ l.member = m /\ l.nested = x
BY Z3

LEMMA RecordExcept ==
  ASSUME NEW t, NEW m, NEW x, NEW y, NEW l, l = [type |-> t, member |-> m, nested |-> x]
  PROVE  /\ [l EXCEPT !.member = y] = [type |-> t, member |-> y, nested |-> x]
         /\ [l EXCEPT !.nested = y] = [type |-> t, member |-> m, nested |-> y]
<1>1. [l EXCEPT !.member = y] = [type |-> t, member |-> y, nested |-> x]
  BY Z3
<1>2. [l EXCEPT !.nested = y] = [type |-> t, member |-> m, nested |-> y]
  BY Z3
<1> QED
  BY <1>1, <1>2

LEMMA EmitEmits ==
  ASSUME TypeInv, NEW name, NEW key, NEW value, Emit(Event(name, key, value))
  PROVE  /\ Protocol!Emits(name, key, value)
         /\ Protocol!Emitted = [event |-> name, key |-> key, value |-> value]
<1> DEFINE e == Event(name, key, value)
           S == EventType \cup {e}
<1>1. events \in Seq(S) /\ e \in S
  BY SeqMonotonic DEF TypeInv
<1> HIDE DEF S
<1>2. events' = Append(events, e) /\ Len(events') = Len(events) + 1
      /\ events'[Len(events) + 1] = e
  BY <1>1, AppendProperties DEF Emit
<1> QED
  BY <1>2 DEF Protocol!Emits, Protocol!Emitted, Event

\* The levels as long as the innermost parser is within its container.
LEMMA OpenWithin ==
  ASSUME TypeInv, Started = Len(stack)
  PROVE  /\ Len(Open) = Len(stack) /\ Open # <<>>
         /\ Protocol!Inner = LevelOf(Top) /\ Len(Open) \in DOMAIN Open
         /\ Open = [i \in 1..Len(stack) |-> IF i = Len(stack) THEN LevelOf(stack[i]) ELSE Waiting(stack[i])]
<1>1. Len(stack) \in Nat \ {0}
  BY StackTop
<1>2. Open = [i \in 1..Len(stack) |-> IF i = Len(stack) THEN LevelOf(stack[i]) ELSE Waiting(stack[i])]
  BY OpenLevels
<1>3. Len(Open) = Len(stack) /\ Open # <<>>
  BY <1>1, <1>2, LevelsAreASequence
<1>4. Open[Len(stack)] = LevelOf(stack[Len(stack)]) /\ Len(stack) \in DOMAIN Open
  BY <1>1, <1>2
<1>5. Protocol!Inner = LevelOf(Top)
  BY <1>3, <1>4 DEF Protocol!Inner, Top
<1>6. Len(Open) \in DOMAIN Open
  BY <1>3, <1>4
<1> QED
  BY <1>2, <1>3, <1>5, <1>6

\* The step of a handler that leaves the innermost parser at p.
LEMMA WithinStep ==
  ASSUME TypeInv, NEW p \in SoundParser, Update(p),
         Started = Len(stack), Started' = Len(stack)
  PROVE  Open' = [Open EXCEPT ![Len(Open)] = LevelOf(p)]
<1>1. Len(stack) \in Nat \ {0}
  BY StackTop
<1>2. /\ Len(stack') = Len(stack) /\ stack'[Len(stack)] = p
      /\ \A i \in 1..(Len(stack) - 1) : stack'[i] = stack[i]
  BY UpdateTop DEF Top
<1>3. Open' = [i \in 1..Len(stack) |->
                 IF i = Len(stack) THEN LevelOf(stack'[i]) ELSE Waiting(stack'[i])]
  BY <1>2, NextLevels
<1>4. \A i \in 1..Len(stack) :
        Open'[i] = IF i = Len(stack) THEN LevelOf(p) ELSE Waiting(stack[i])
  BY <1>1, <1>2, <1>3
<1>5. \A i \in 1..Len(stack) : i # Len(stack) => Open[i] = Waiting(stack[i])
  BY OpenWithin
<1>6. /\ Open' = [i \in 1..Len(stack) |-> Open'[i]]
      /\ Open = [i \in 1..Len(stack) |-> Open[i]]
      /\ Len(Open) = Len(stack)
  BY <1>3, OpenWithin
<1> DEFINE o == Open
           q == Open'
           l == LevelOf(p)
<1>7. \A i \in 1..Len(stack) : q[i] = IF i = Len(stack) THEN l ELSE o[i]
  BY <1>4, <1>5
<1> HIDE DEF o, q, l
<1>8. q = [o EXCEPT ![Len(stack)] = l]
  BY <1>1, <1>6, <1>7 DEF o, q
<1> QED
  BY <1>6, <1>8 DEF o, q, l

---------------------------------------------------------------------------
(* The handlers of _parse(). *)

LEMMA UpdateKeeps ==
  ASSUME TypeInv, ProtocolInv, NEW p \in SoundParser, Update(p), KeyOK(p),
         pc' = "parse", p.state # "UNPARSED",
         p.state \in DOMAIN Begins => BeginsWith(p.to_parse, Begins[p.state]),
         p.state = "ARRAY_END" => p.is_array
  PROVE  ProtocolInv'
<1>1. Len(stack) \in Nat \ {0}
  BY StackTop
<1>2. /\ Len(stack') = Len(stack) /\ Top' = p /\ stack'[Len(stack)] = p
      /\ \A i \in 1..(Len(stack) - 1) : stack'[i] = stack[i]
  BY UpdateTop DEF Top
<1>3. \A i \in 1..Len(stack') : KeyOK(stack'[i])
  BY <1>1, <1>2 DEF ProtocolInv
<1>4. TopOK'
  BY <1>2 DEF TopOK
<1> QED
  BY <1>3, <1>4 DEF ProtocolInv

\* A step that changes nothing a listener can see.
LEMMA QuietStep ==
  ASSUME TypeInv, ProtocolInv, NEW p \in SoundParser, Update(p), KeyOK(p),
         pc \in {"read", "parse"}, pc' = "parse", Top.state # "UNPARSED", p.state # "UNPARSED",
         p.state \in DOMAIN Begins => BeginsWith(p.to_parse, Begins[p.state]),
         p.state = "ARRAY_END" => p.is_array,
         LevelOf(p) = LevelOf(Top),
         UNCHANGED <<eof, events>>
  PROVE  Step
<1>1. ProtocolInv'
  BY UpdateKeeps
<1>2. Started = Len(stack) /\ Started' = Len(stack)
  BY UpdateTop DEF Started
<1>3. Open' = [Open EXCEPT ![Len(Open)] = LevelOf(p)]
  BY <1>2, WithinStep
<1>4. Open[Len(Open)] = LevelOf(p)
  BY <1>2, OpenWithin DEF Protocol!Inner
<1>5. Open' = Open
  <2>1. Open = [i \in 1..Len(stack) |-> Open[i]]
    BY <1>2, OpenWithin
  <2> QED
    BY <1>3, <1>4, <2>1
<1> QED
  BY <1>1, <1>5 DEF Step, Protocol!vars

LEMMA SilentStep ==
  ASSUME TypeInv, ProtocolInv, NEW p \in SoundParser, Update(p), KeyOK(p),
         pc = "parse", Top.state # "UNPARSED", p.state # "UNPARSED",
         p.state \in DOMAIN Begins => BeginsWith(p.to_parse, Begins[p.state]),
         p.state = "ARRAY_END" => p.is_array,
         LevelOf(p) = LevelOf(Top),
         UNCHANGED <<streamVars, pc, events>>
  PROVE  Step
BY QuietStep DEF streamVars

LEMMA ThrowStep ==
  ASSUME TypeInv, ProtocolInv, NEW reason, Throw(reason), pc \in {"read", "parse", "leave"}
  PROVE  Step
<1>1. UNCHANGED <<stack, eof, events>> /\ pc' = "failed"
  BY DEF Throw, streamVars
<1>2. UNCHANGED <<Top, Started>>
  BY <1>1 DEF Top, Started
<1>3. Open' = Open
  BY <1>1, <1>2 DEF Open
<1> QED
  BY <1>1, <1>3 DEF Step, ProtocolInv, Protocol!vars

\* FoundValue leaves the parser at its next member, or at its end.
LEMMA FoundValueStep ==
  ASSUME Inv, NEW s \in Text, NEW i \in 1..Len(s),
         IsEnd(Top, s[i]) # Undefined, FoundValue(Top, s, i),
         pc = "parse", Top.state # "UNPARSED",
         MemberOf(Top) = CurKey(Top),
         NEW value, value = ValueAppend(Top.cur_value, SubSeq(s, 1, i - 1)),
         \/ ~Concluded(Top) /\ CurKey(Top) # Undefined /\ value \in Text \ {<<>>}
         \/ Concluded(Top) /\ value = Undefined
  PROVE  Step
<1> DEFINE p == [Top EXCEPT !.to_parse = From(s, i + 1),
                            !.cur_value = Undefined,
                            !.cur_key = IF Top.is_array THEN @ ELSE Undefined,
                            !.array_index = IF Top.is_array THEN @ + 1 ELSE @,
                            !.state = IsEnd(Top, s[i])]
           key == CurKey(Top)
           next == Protocol!NextMember(key)
<1>1. Top \in SoundParser /\ KeyOK(Top) /\ Len(stack) \in Nat \ {0}
  BY StackTop DEF Inv, ProtocolInv, Top
<1>2. p \in SoundParser /\ Update(p)
  BY <1>1, FoundValueParser DEF FoundValue, Inv
<1>3. /\ p.cur_value = Undefined /\ p.is_array = Top.is_array /\ p.initial = Top.initial
      /\ p.cur_key = (IF Top.is_array THEN Top.cur_key ELSE Undefined)
      /\ p.array_index = (IF Top.is_array THEN Top.array_index + 1 ELSE Top.array_index)
      /\ p.state = IsEnd(Top, s[i])
  BY <1>1 DEF SoundParser, Parser
<1> HIDE DEF p
<1>4. /\ p.state \in {"NEED_VALUE", "IN_OBJECT", "OBJECT_END", "ARRAY_END"}
      /\ p.state \in {"NEED_VALUE", "ARRAY_END"} => Top.is_array
      /\ p.state = "IN_OBJECT" => ~Top.is_array
  BY <1>3, IsEndState DEF IsEnd
<1>5. KeyOK(p)
  BY <1>1, <1>3, <1>4 DEF KeyOK, AtMember, Begins
<1>6. ProtocolInv'
  BY <1>2, <1>3, <1>4, <1>5, UpdateKeeps DEF FoundValue, Inv, Begins
<1>7. LevelOf(p) = [type |-> Top.initial, member |-> next, nested |-> "none"]
  <2>1. CASE Top.is_array
    <3>1. key = [index |-> Top.array_index] /\ MemberOf(p) = [index |-> Top.array_index + 1]
      BY <1>3, <1>4, <2>1 DEF MemberOf, CurKey
    <3>2. next = [index |-> Top.array_index + 1]
      BY <1>1, <3>1, UndefinedIsNoKey DEF Protocol!NextMember, Protocol!IsIndex, Key, SoundParser, Parser
    <3> QED
      BY <1>3, <1>4, <3>1, <3>2 DEF LevelOf, Concluded
  <2>2. CASE ~Top.is_array
    <3>1. MemberOf(p) = Undefined
      BY <1>3, <1>4, <2>2 DEF MemberOf, CurKey
    <3>2. key = Undefined \/ \E n : key = [name |-> n]
      BY <2>2 DEF CurKey
    <3>3. next = Undefined
      BY <3>2 DEF Protocol!NextMember, Protocol!IsIndex
    <3> QED
      BY <1>3, <1>4, <3>1, <3>3 DEF LevelOf, Concluded
  <2> QED
    BY <2>1, <2>2
<1>8. /\ Started = Len(stack) /\ Started' = Len(stack)
      /\ Open' = [Open EXCEPT ![Len(Open)] = LevelOf(p)]
  <2>1. Started = Len(stack) /\ Started' = Len(stack)
    BY <1>2, <1>3, <1>4, UpdateTop DEF Started, FoundValue, Inv
  <2> QED
    BY <1>2, <2>1, WithinStep DEF Inv
<1>9. /\ Open # <<>> /\ Len(Open) \in DOMAIN Open /\ Open[Len(Open)] = LevelOf(Top) /\ UNCHANGED eof
      /\ Protocol!Inner = LevelOf(Top)
  BY <1>8, OpenWithin DEF Inv, FoundValue, streamVars, Protocol!Inner
<1>10. LevelOf(Top) = [type |-> Top.initial, member |-> key, nested |-> IF Concluded(Top) THEN "concluded" ELSE "none"]
  BY DEF LevelOf
<1>11. Protocol!Emits("foundValue", key, value) /\ Protocol!Emitted.value = value
  BY EmitEmits DEF Inv, FoundValue
<1> HIDE DEF key, next
<1>12. Open' = [Open EXCEPT ![Len(Open)] = Protocol!AfterValue(@)]
  <2>1. LevelOf(Top).type = Top.initial /\ LevelOf(Top).member = key
    BY <1>10, RecordFields
  <2>2. LevelOf(p) = Protocol!AfterValue(LevelOf(Top))
    BY <1>7, <2>1 DEF Protocol!AfterValue, next
  <2> QED
    BY <1>8, <1>9, <2>2
<1>13. CASE ~Concluded(Top) /\ key # Undefined /\ value \in Text \ {<<>>}
  <2>1. Protocol!Inner.nested = "none" /\ Protocol!Inner.member = key
    BY <1>9, <1>10, <1>13, RecordFields
  <2>2. Protocol!FoundScalar
    BY <1>9, <1>11, <1>12, <1>13, <2>1 DEF Protocol!FoundScalar
  <2> QED
    BY <1>6, <2>2 DEF Step, Protocol!Next
<1>14. CASE Concluded(Top) /\ value = Undefined
  <2>1. Protocol!Inner.nested = "concluded" /\ Protocol!Inner.member = key
    BY <1>9, <1>10, <1>14, RecordFields
  <2>2. Protocol!FoundNested
    BY <1>9, <1>11, <1>12, <1>14, <2>1 DEF Protocol!FoundNested
  <2> QED
    BY <1>6, <2>2 DEF Step, Protocol!Next
<1> QED
  BY <1>13, <1>14 DEF key

\* What a handler starts from.
LEMMA AtHandler ==
  ASSUME Inv, NEW states, InState(states)
  PROVE  /\ pc = "parse" /\ Top.state \in states /\ Top \in SoundParser /\ Top \in Parser
         /\ KeyOK(Top) /\ TopOK /\ buffer = <<>>
         /\ SkipWhiteSpace(Top.to_parse) \in Text
         /\ Len(SkipWhiteSpace(Top.to_parse)) \in Nat \ {0}
<1>1. TypeInv /\ Len(stack) \in Nat \ {0} /\ Top = stack[Len(stack)]
  BY StackTop DEF Inv, Top
<1>2. /\ pc = "parse" /\ Top.state \in states /\ Top \in SoundParser /\ Top.to_parse \in Text
      /\ SkipWhiteSpace(Top.to_parse) \in Text
      /\ Len(SkipWhiteSpace(Top.to_parse)) \in Nat \ {0}
  BY <1>1, Handled
<1>3. KeyOK(Top) /\ TopOK
  BY <1>1, <1>2 DEF Inv, ProtocolInv
<1>4. buffer = <<>>
  BY <1>2, UndefinedIsNoString DEF Inv, TextInv, SoleHolder, Text
<1> QED
  BY <1>2, <1>3, <1>4 DEF SoundParser

LEMMA MemberHasKey ==
  ASSUME NEW p \in Parser, p.is_array \/ p.cur_key # Undefined
  PROVE  CurKey(p) # Undefined
<1>1. CASE p.is_array
  <2>1. [index |-> p.array_index] \in Key
    BY DEF Key, Parser
  <2> QED
    BY <1>1, <2>1, UndefinedIsNoKey DEF CurKey
<1>2. CASE ~p.is_array
  <2>1. CurKey(p) = [name |-> Unquote(p.cur_key)]
    BY <1>2 DEF CurKey
  <2>2. Unquote(p.cur_key) \in Text
    <3>1. p.cur_key \in Text
      BY <1>2 DEF Parser, Maybe
    <3>2. Span(p.cur_key, {"ws", "cr"}) + 2 \in Nat \ {0} /\ Len(p.cur_key) \in Nat
      BY <3>1, SpanType, LenProperties DEF Text
    <3> QED
      BY <3>1, <3>2, SubSeqType DEF Unquote
  <2>3. CurKey(p) \in Key
    BY <2>1, <2>2 DEF Key, Text
  <2> QED
    BY <2>3, UndefinedIsNoKey
<1> QED
  BY <1>1, <1>2

LEMMA FindKeyStep ==
  ASSUME Inv, FindKey
  PROVE  Step
<1> DEFINE inObject == Top.state = "IN_OBJECT"
           s == IF inObject THEN SkipWhiteSpace(Top.to_parse) ELSE Top.to_parse
           key == OrEmpty(Top.cur_key)
<1>1. InState({"IN_OBJECT", "HAVE_KEY"}) /\ TypeInv /\ ProtocolInv
  BY DEF FindKey, Inv
<1>2. /\ Top \in SoundParser /\ s \in Text /\ key \in Text /\ KeyOK(Top) /\ pc = "parse"
      /\ Top.state \in {"IN_OBJECT", "HAVE_KEY"} /\ Top \in Parser
  BY <1>1, AtHandler, Handled, OrEmptyType DEF SoundParser, Parser
<1>3. UNCHANGED <<streamVars, pc, events>>
  BY DEF FindKey
<1>4. ~Top.is_array /\ LevelOf(Top) = [type |-> Top.initial, member |-> Undefined, nested |-> "none"]
  BY <1>2 DEF KeyOK, LevelOf, MemberOf, Concluded
\* Whatever is collected, it is no member yet.
<1>5. ASSUME NEW k \in Text, NEW rest \in Maybe(Text),
             NEW state \in {"IN_OBJECT", "HAVE_KEY", "NEED_COLON"},
             Update([Top EXCEPT !.cur_key = k, !.to_parse = rest, !.state = state])
      PROVE  Step
  <2> DEFINE p == [Top EXCEPT !.cur_key = k, !.to_parse = rest, !.state = state]
  <2>1. /\ p \in Parser /\ p.state = state /\ p.cur_key = k /\ k # Undefined
        /\ p.initial = Top.initial /\ p.is_array = Top.is_array
    BY <1>2, UndefinedIsNoString DEF Parser, States, Maybe, Text
  <2> HIDE DEF p
  <2>2. p \in SoundParser
    BY <1>2, <2>1 DEF SoundParser
  <2>3. KeyOK(p)
    BY <1>4, <2>1 DEF KeyOK, AtMember, Begins
  <2>4. LevelOf(p) = LevelOf(Top)
    BY <1>4, <2>1 DEF LevelOf, MemberOf, Concluded
  <2>5. Update(p) /\ p.state \notin DOMAIN Begins \cup {"UNPARSED", "ARRAY_END"}
    BY <1>5, <2>1 DEF p, Begins
  <2> QED
    BY <1>1, <1>2, <1>3, <2>2, <2>3, <2>4, <2>5, SilentStep
<1>6. ASSUME NEW i \in Quotes(s),
             Update([Top EXCEPT !.cur_key = key \o SubSeq(s, 1, i),
                                !.to_parse = From(s, i + 1),
                                !.state = "NEED_COLON"])
      PROVE  Step
  <2>1. i \in 1..Len(s)
    BY DEF Quotes
  <2>2. key \o SubSeq(s, 1, i) \in Text /\ From(s, i + 1) \in Maybe(Text)
    BY <1>2, <2>1, PieceType, ConcatType DEF Maybe
  <2> QED
    BY <1>5, <1>6, <2>2
<1>7. ASSUME Update([Top EXCEPT !.cur_key = key \o s,
                                !.to_parse = Undefined,
                                !.state = IF Quotes(s) = {} THEN @ ELSE "HAVE_KEY"])
      PROVE  Step
  <2>1. key \o s \in Text /\ Undefined \in Maybe(Text)
    BY <1>2, ConcatType DEF Maybe
  <2> QED
    BY <1>2, <1>5, <1>7, <2>1
<1> QED
  BY <1>6, <1>7 DEF FindKey

LEMMA FindColonStep ==
  ASSUME Inv, FindColon
  PROVE  Step
<1> DEFINE s == SkipWhiteSpace(Top.to_parse)
           p == [Top EXCEPT !.to_parse = Tail(s), !.state = "NEED_VALUE"]
           key == CurKey(Top)
<1>1. InState({"NEED_COLON"}) /\ TypeInv /\ ProtocolInv
  BY DEF FindColon, Inv
<1>2. /\ Top \in SoundParser /\ KeyOK(Top) /\ pc = "parse" /\ Top.state = "NEED_COLON"
      /\ Tail(s) \in Text
  BY <1>1, AtHandler, Handled
<1>3. CASE Throw("key") \/ Throw("colon")
  BY <1>1, <1>2, <1>3, ThrowStep
<1>4. CASE /\ Emit(Event("foundKey", key, Undefined))
           /\ Update(p)
           /\ UNCHANGED <<streamVars, pc, error, passed>>
  <2>1. /\ p \in SoundParser /\ p.state = "NEED_VALUE" /\ p.initial = Top.initial
        /\ p.is_array = Top.is_array /\ p.cur_key = Top.cur_key
    BY <1>2 DEF SoundParser, Parser, States, Maybe
  <2>2. ~Top.is_array /\ Top.cur_key # Undefined
    BY <1>2 DEF KeyOK
  <2>3. key \in [name : Text] /\ CurKey(p) = key
    <3>1. key = [name |-> Unquote(Top.cur_key)]
      BY <2>2 DEF CurKey
    <3>2. key \in Maybe(Key) /\ Top \in Parser
      BY <1>2, CurKeyType DEF SoundParser
    <3>3. Unquote(Top.cur_key) \in Text
      <4>1. Top.cur_key \in Text
        BY <2>2, <3>2 DEF Parser, Maybe
      <4>2. Span(Top.cur_key, {"ws", "cr"}) + 2 \in Nat \ {0} /\ Len(Top.cur_key) \in Nat
        BY <4>1, SpanType, LenProperties DEF Text
      <4> QED
        BY <4>1, <4>2, SubSeqType DEF Unquote
    <3> QED
      BY <2>1, <2>2, <3>1, <3>3 DEF CurKey
  <2> HIDE DEF p, key
  <2>4. KeyOK(p)
    BY <2>1, <2>2 DEF KeyOK, AtMember, Begins
  <2>5. ProtocolInv'
    BY <1>1, <1>2, <1>4, <2>1, <2>4, UpdateKeeps DEF Begins
  <2>6. Started = Len(stack) /\ Started' = Len(stack)
    BY <1>1, <1>2, <1>4, <2>1, UpdateTop DEF Started
  <2>7. LevelOf(Top) = [type |-> Top.initial, member |-> Undefined, nested |-> "none"]
    BY <1>2 DEF LevelOf, MemberOf, Concluded
  <2>8. LevelOf(p) = [type |-> Top.initial, member |-> key, nested |-> "none"]
    BY <2>1, <2>3 DEF LevelOf, MemberOf, Concluded
  <2>9. /\ Open' = [Open EXCEPT ![Len(Open)] = LevelOf(p)]
        /\ Protocol!Inner = LevelOf(Top) /\ Open[Len(Open)] = LevelOf(Top) /\ Open # <<>>
    BY <1>1, <1>4, <2>1, <2>6, WithinStep, OpenWithin DEF Protocol!Inner
  <2>10. Open' = [Open EXCEPT ![Len(Open)].member = key]
    <3>1. [Open[Len(Open)] EXCEPT !.member = key] = LevelOf(p)
      BY <2>7, <2>8, <2>9, RecordExcept
    <3> QED
      BY <2>9, <3>1
  <2>11. Protocol!Emits("foundKey", key, Undefined) /\ Protocol!Emitted.key = key
    BY <1>1, <1>4, EmitEmits
  <2>12. Protocol!Inner.nested = "none" /\ Protocol!Inner.member = Undefined
    BY <2>7, <2>9, RecordFields
  <2>13. Protocol!FoundKey
    BY <1>4, <2>3, <2>9, <2>10, <2>11, <2>12 DEF Protocol!FoundKey, streamVars
  <2> QED
    BY <2>5, <2>13 DEF Step, Protocol!Next
<1> QED
  BY <1>3, <1>4 DEF FindColon

LEMMA FindEndStep ==
  ASSUME Inv, FindEnd
  PROVE  Step
<1> DEFINE s == SkipWhiteSpace(Top.to_parse)
<1>1. InState({"NEED_END"}) /\ TypeInv /\ ProtocolInv
  BY DEF FindEnd, Inv
<1>2. /\ Top \in Parser /\ KeyOK(Top) /\ pc = "parse" /\ Top.state = "NEED_END"
      /\ s \in Text /\ 1 \in 1..Len(s)
  BY <1>1, AtHandler
<1>3. CASE Throw("end")
  BY <1>1, <1>2, <1>3, ThrowStep
<1>4. CASE IsEnd(Top, s[1]) # Undefined /\ FoundValue(Top, s, 1)
  <2> DEFINE value == ValueAppend(Top.cur_value, SubSeq(s, 1, 0))
  <2>1. SubSeq(s, 1, 0) = <<>>
    BY SubSeqEmpty
  <2>2. value = Top.cur_value
    BY <2>1 DEF ValueAppend, Blank
  <2>3. MemberOf(Top) = CurKey(Top)
    BY <1>2 DEF MemberOf
  <2>4. CASE Top.cur_value = Undefined
    <3>1. Concluded(Top) /\ value = Undefined
      BY <1>2, <2>2, <2>4 DEF Concluded
    <3> QED
      BY <1>2, <1>4, <2>3, <3>1, FoundValueStep
  <2>5. CASE Top.cur_value # Undefined
    <3>1. ~Concluded(Top) /\ value \in Text \ {<<>>}
      BY <1>2, <2>2, <2>5 DEF Concluded, KeyOK, Parser, Maybe
    <3>2. CurKey(Top) # Undefined
      BY <1>2, <2>5, MemberHasKey DEF AtMember, KeyOK
    <3> QED
      BY <1>2, <1>4, <2>3, <3>1, <3>2, FoundValueStep
  <2> QED
    BY <2>4, <2>5
<1> QED
  BY <1>3, <1>4 DEF FindEnd

LEMMA FindValueStep ==
  ASSUME Inv, FindValue
  PROVE  Step
<1> DEFINE s == SkipWhiteSpace(Top.to_parse)
<1>1. InState({"NEED_VALUE"}) /\ TypeInv /\ ProtocolInv
  BY DEF FindValue, Inv
<1>2. /\ Top \in Parser /\ KeyOK(Top) /\ pc = "parse" /\ Top.state = "NEED_VALUE"
      /\ s \in Text /\ s # <<>> /\ Head(s) = s[1] /\ Tail(s) \in Text
      /\ OrEmpty(Top.cur_value) \in Text /\ Top \in SoundParser
  <2>1. Top \in Parser /\ Top.to_parse \in Text /\ ~Blank(Top.to_parse)
    BY <1>1, AtHandler, Handled
  <2>2. s # <<>> /\ Head(s) = s[1] /\ Tail(s) \in Text
    BY <2>1, SkipKeepsVisible
  <2> QED
    BY <1>1, <2>1, <2>2, AtHandler, OrEmptyType DEF Parser
<1>3. CASE Throw("value")
  BY <1>1, <1>2, <1>3, ThrowStep
<1>4. CASE ~Throw("value")
  <2>1. UNCHANGED <<streamVars, pc, events>>
    BY <1>4 DEF FindValue
  <2>2. ASSUME NEW rest \in Text, NEW v \in Text, NEW state \in States,
               state \in {"PARSE_STRING", "ARRAY_END"} \cup DOMAIN Begins,
               state = "PARSE_STRING" => v # <<>>,
               state = "ARRAY_END" => Top.is_array,
               state \in DOMAIN Begins => BeginsWith(rest, Begins[state]),
               Update([Top EXCEPT !.to_parse = rest, !.cur_value = v, !.state = state])
        PROVE  Step
    <3> DEFINE p == [Top EXCEPT !.to_parse = rest, !.cur_value = v, !.state = state]
    <3>1. /\ p \in Parser /\ p.state = state /\ p.cur_value = v /\ p.to_parse = rest
          /\ p.initial = Top.initial /\ p.is_array = Top.is_array
          /\ p.cur_key = Top.cur_key /\ p.array_index = Top.array_index
      BY <1>2 DEF Parser, Maybe
    <3> HIDE DEF p
    <3>2. state \notin {"UNPARSED", "NEED_END", "IN_OBJECT", "HAVE_KEY", "NEED_COLON", "OBJECT_END"}
      BY <2>2 DEF Begins
    <3>3. p \in SoundParser
      <4>1. Undefined \notin Text
        BY UndefinedIsNoString DEF Text
      <4> QED
        BY <1>2, <3>1, <4>1 DEF SoundParser
    <3>4. KeyOK(p)
      <4>1. Top.is_array \/ Top.cur_key # Undefined
        BY <1>2 DEF KeyOK, AtMember
      <4>2. Top.is_array => Top.initial = "array" /\ Top.cur_key = Undefined
        BY <1>2 DEF KeyOK
      <4> QED
        BY <2>2, <3>1, <3>2, <4>1, <4>2 DEF KeyOK
    <3>5. LevelOf(p) = LevelOf(Top)
      BY <1>2, <3>1, <3>2 DEF LevelOf, MemberOf, CurKey, Concluded
    <3>6. Update(p)
      BY <2>2 DEF p
    <3> QED
      BY <1>1, <1>2, <2>1, <2>2, <3>1, <3>2, <3>3, <3>4, <3>5, <3>6, SilentStep
  <2>3. CASE /\ Head(s) = "quote"
             /\ Update([Top EXCEPT !.to_parse = Tail(s), !.cur_value = <<"quote">>,
                                   !.state = "PARSE_STRING"])
    <3>1. <<"quote">> \in Text /\ <<"quote">> # <<>>
      <4>1. <<"quote">> \in Seq(Chars) /\ <<"quote">> # <<>>
        BY DEF Chars
      <4> QED
        BY <4>1 DEF Text
    <3> QED
      BY <1>2, <2>2, <2>3, <3>1 DEF States, Begins
  <2>4. CASE /\ Head(s) \in DOMAIN ValueState
             /\ Update([Top EXCEPT !.to_parse = s, !.cur_value = OrEmpty(@),
                                   !.state = ValueState[Head(s)]])
    <3>1. /\ ValueState[Head(s)] \in States /\ ValueState[Head(s)] \in DOMAIN Begins
          /\ ValueState[Head(s)] \notin {"PARSE_STRING", "ARRAY_END"}
          /\ Head(s) \in Begins[ValueState[Head(s)]]
      BY <2>4 DEF ValueState, States, Begins
    <3>2. BeginsWith(s, Begins[ValueState[Head(s)]])
      BY <1>2, <3>1 DEF BeginsWith
    <3> QED
      BY <1>2, <2>2, <2>4, <3>1, <3>2
  <2>5. CASE /\ Top.is_array
             /\ Update([Top EXCEPT !.to_parse = Tail(s), !.cur_value = OrEmpty(@),
                                   !.state = "ARRAY_END"])
    BY <1>2, <2>2, <2>5 DEF States, Begins
  <2> QED
    BY <1>4, <2>3, <2>4, <2>5 DEF FindValue
<1> QED
  BY <1>3, <1>4

LEMMA AppendFilled ==
  ASSUME NEW v \in Text, NEW t \in Text, v # <<>> \/ t # <<>>
  PROVE  v \o t \in Text \ {<<>>}
<1>1. v \o t \in Text
  BY ConcatType
<1>2. v \o t # <<>>
  BY ConcatEqualIffEmpty DEF Text
<1> QED
  BY <1>1, <1>2

LEMMA ParseStringStep ==
  ASSUME Inv, ParseString
  PROVE  Step
<1> DEFINE s == SkipWhiteSpace(Top.to_parse)
<1>1. InState({"PARSE_STRING"}) /\ TypeInv /\ ProtocolInv
  BY DEF ParseString, Inv
<1>2. /\ Top \in Parser /\ KeyOK(Top) /\ pc = "parse" /\ Top.state = "PARSE_STRING"
      /\ s \in Text /\ Top.cur_value \in Text \ {<<>>}
  <2>1. Top \in SoundParser /\ Top \in Parser /\ KeyOK(Top) /\ Top.state = "PARSE_STRING"
    BY <1>1, AtHandler
  <2>2. Top.cur_value \in Text \ {<<>>}
    BY <2>1 DEF SoundParser, Parser, Maybe, KeyOK
  <2> QED
    BY <1>1, <2>1, <2>2, AtHandler
<1>3. UNCHANGED <<streamVars, pc, events>>
  BY DEF ParseString
<1>4. ASSUME NEW rest \in Maybe(Text), NEW v \in Text \ {<<>>},
             NEW state \in {"PARSE_STRING", "NEED_END"},
             Update([Top EXCEPT !.to_parse = rest, !.cur_value = v, !.state = state])
      PROVE  Step
  <2> DEFINE p == [Top EXCEPT !.to_parse = rest, !.cur_value = v, !.state = state]
  <2>1. /\ p \in Parser /\ p.state = state /\ p.cur_value = v /\ v # Undefined
        /\ p.initial = Top.initial /\ p.is_array = Top.is_array
        /\ p.cur_key = Top.cur_key /\ p.array_index = Top.array_index
    BY <1>2, UndefinedIsNoString DEF Parser, States, Maybe, Text
  <2> HIDE DEF p
  <2>2. p \in SoundParser
    <3>1. Top.initial # Undefined
      BY <1>1, <1>2, StackTop DEF SoundParser
    <3> QED
      BY <2>1, <3>1 DEF SoundParser
  <2>3. KeyOK(p)
    BY <1>2, <2>1 DEF KeyOK, AtMember
  <2>4. LevelOf(p) = LevelOf(Top)
    BY <1>2, <2>1 DEF LevelOf, MemberOf, CurKey, Concluded
  <2>5. Update(p) /\ p.state \notin DOMAIN Begins \cup {"UNPARSED", "ARRAY_END"}
    BY <1>4, <2>1 DEF p, Begins
  <2> QED
    BY <1>1, <1>2, <1>3, <2>2, <2>3, <2>4, <2>5, SilentStep
<1>5. ASSUME NEW i \in Quotes(s),
             Update([Top EXCEPT !.to_parse = From(s, i + 1),
                                !.cur_value = ValueAppend(@, SubSeq(s, 1, i)),
                                !.state = "NEED_END"])
      PROVE  Step
  <2>1. i \in 1..Len(s)
    BY DEF Quotes
  <2>2. From(s, i + 1) \in Maybe(Text) /\ SubSeq(s, 1, i) \in Text
    BY <1>2, <2>1, PieceType DEF Maybe
  <2>3. ValueAppend(Top.cur_value, SubSeq(s, 1, i)) \in Text \ {<<>>}
    <3>1. OrEmpty(Top.cur_value) = Top.cur_value
      BY <1>2, UndefinedIsNoString DEF OrEmpty, Text
    <3> QED
      BY <1>2, <2>2, <3>1, AppendFilled DEF ValueAppend
  <2> QED
    BY <1>4, <1>5, <2>2, <2>3
<1>6. ASSUME Update([Top EXCEPT !.to_parse = Undefined, !.cur_value = @ \o s])
      PROVE  Step
  <2>1. Undefined \in Maybe(Text) /\ Top.cur_value \o s \in Text \ {<<>>}
    BY <1>2, AppendFilled DEF Maybe
  <2>2. [Top EXCEPT !.to_parse = Undefined, !.cur_value = @ \o s] =
          [Top EXCEPT !.to_parse = Undefined, !.cur_value = @ \o s, !.state = "PARSE_STRING"]
    BY <1>2 DEF Parser
  <2> QED
    BY <1>4, <1>6, <2>1, <2>2
<1> QED
  BY <1>5, <1>6 DEF ParseString

LEMMA SpanNothing ==
  ASSUME NEW s \in Text, NEW C, s # <<>>, s[1] \notin C
  PROVE  Span(s, C) = 0
<1> DEFINE P == {i \in 1..Len(s) : \A j \in 1..i : s[j] \in C}
<1>1. P = {}
  BY LenProperties DEF Text
<1> QED
  BY <1>1, FS_EmptySet DEF Span

LEMMA SpanSomething ==
  ASSUME NEW s \in Text, NEW C, s # <<>>, s[1] \in C
  PROVE  Span(s, C) \in 1..Len(s)
<1> DEFINE P == {i \in 1..Len(s) : \A j \in 1..i : s[j] \in C}
<1>1. Len(s) \in Nat \ {0}
  BY EmptySeq DEF Text
<1>2. 1 \in P
  BY <1>1
<1>3. IsFiniteSet(P)
  <2>1. IsFiniteSet(1..Len(s))
    BY <1>1, FS_Interval
  <2> QED
    BY <2>1, FS_Subset
<1>4. Cardinality(P) # 0
  BY <1>2, <1>3, FS_EmptySet
<1>5. Span(s, C) = Cardinality(P)
  BY DEF Span
<1>6. Span(s, C) \in 0..Len(s)
  BY SpanType
<1> HIDE DEF P
<1> QED
  BY <1>1, <1>4, <1>5, <1>6

LEMMA BeginsChars ==
  ASSUME NEW state \in DOMAIN Begins
  PROVE  /\ Begins[state] \cap {"ws", "cr"} = {}
         /\ state \in DOMAIN TokenChars => Begins[state] \subseteq TokenChars[state]
<1>1. state \in {"PARSE_NUMBER", "PARSE_TRUE", "PARSE_FALSE", "PARSE_NULL", "PARSE_OBJECT",
                "PARSE_ARRAY"}
  BY DEF Begins
<1>2. /\ Begins.PARSE_NUMBER = {"num"} /\ Begins.PARSE_TRUE = {"t"}
      /\ Begins.PARSE_FALSE = {"f"} /\ Begins.PARSE_NULL = {"n"}
      /\ Begins.PARSE_OBJECT = {"{"} /\ Begins.PARSE_ARRAY = {"["}
  BY DEF Begins
<1>3. /\ TokenChars.PARSE_NUMBER = {"num", "exp"} /\ TokenChars.PARSE_TRUE = {"t"}
      /\ TokenChars.PARSE_FALSE = {"f"} /\ TokenChars.PARSE_NULL = {"n"}
      /\ DOMAIN TokenChars = {"PARSE_NUMBER", "PARSE_TRUE", "PARSE_FALSE", "PARSE_NULL"}
  BY DEF TokenChars
<1> QED
  BY <1>1, <1>2, <1>3

\* There is no white space to skip before the text of a value.
LEMMA BeginsAtOnce ==
  ASSUME NEW state \in DOMAIN Begins, NEW s, BeginsWith(s, Begins[state])
  PROVE  SkipWhiteSpace(s) = s /\ s \in Text /\ s # <<>> /\ ~Blank(s) /\ s[1] \in Begins[state]
<1>1. s \in Text /\ s # <<>> /\ s[1] \in Begins[state]
  BY DEF BeginsWith
<1>2. s[1] \notin {"ws", "cr"}
  BY <1>1, BeginsChars
<1>3. Len(s) \in Nat \ {0}
  BY <1>1, EmptySeq DEF Text
<1>4. Span(s, {"ws"}) = 0
  BY <1>1, <1>2, SpanNothing
<1>5. SkipWhiteSpace(s) = From(s, 1)
  BY <1>3, <1>4 DEF SkipWhiteSpace
<1>6. From(s, 1) = s
  BY <1>1, SubSeqFull DEF From, Text
<1>7. ~Blank(s)
  BY <1>2, <1>3 DEF Blank
<1> QED
  BY <1>1, <1>5, <1>6, <1>7

LEMMA ParseTokenStep ==
  ASSUME Inv, ParseToken
  PROVE  Step
<1> DEFINE s == SkipWhiteSpace(Top.to_parse)
           n == Span(s, TokenChars[Top.state])
           i == n + 1
           value == ValueAppend(Top.cur_value, SubSeq(s, 1, i - 1))
<1>1. InState(DOMAIN TokenChars) /\ TypeInv /\ ProtocolInv
  BY DEF ParseToken, Inv
<1>2. /\ Top \in Parser /\ Top \in SoundParser /\ KeyOK(Top) /\ pc = "parse"
      /\ Top.state \in DOMAIN TokenChars /\ Top.state \in DOMAIN Begins
      /\ BeginsWith(Top.to_parse, Begins[Top.state])
  <2>1. /\ Top \in Parser /\ Top \in SoundParser /\ KeyOK(Top) /\ pc = "parse" /\ TopOK
        /\ Top.state \in DOMAIN TokenChars
    BY <1>1, AtHandler
  <2>2. Top.state \in DOMAIN Begins
    BY <2>1 DEF TokenChars, Begins
  <2> QED
    BY <2>1, <2>2 DEF TopOK
<1>3. s = Top.to_parse /\ s \in Text /\ s # <<>> /\ s[1] \in TokenChars[Top.state]
      /\ s[1] \notin {"ws", "cr"}
  <2>1. s = Top.to_parse /\ s \in Text /\ s # <<>> /\ s[1] \in Begins[Top.state]
    BY <1>2, BeginsAtOnce
  <2>2. Begins[Top.state] \subseteq TokenChars[Top.state] \ {"ws", "cr"}
    BY <1>2, BeginsChars
  <2> QED
    BY <2>1, <2>2
<1>4. Len(s) \in Nat /\ n \in 1..Len(s)
  BY <1>3, SpanSomething, LenProperties DEF Text
<1> HIDE DEF s, n
<1>5. value \in Text \ {<<>>} /\ value # Undefined
  <2> DEFINE t == SubSeq(s, 1, n)
  <2>1. t \in Text /\ Len(t) = n /\ t[1] = s[1]
    BY <1>3, <1>4, PrefixOf DEF Text
  <2>2. ~Blank(t) /\ t # <<>>
    BY <1>3, <1>4, <2>1, EmptySeq DEF Blank
  <2>3. i - 1 = n
    BY <1>4
  <2>4. OrEmpty(Top.cur_value) \in Text
    BY <1>2, OrEmptyType DEF Parser
  <2> HIDE DEF t
  <2>5. value = OrEmpty(Top.cur_value) \o t
    BY <2>2, <2>3 DEF ValueAppend, t
  <2>6. value \in Text \ {<<>>}
    BY <2>1, <2>2, <2>4, <2>5, AppendFilled
  <2> QED
    BY <2>6, UndefinedIsNoString DEF Text
<1>6. Top.is_array \/ Top.cur_key # Undefined
  BY <1>2 DEF KeyOK, AtMember
<1>7. Top.state \notin {"UNPARSED", "NEED_END", "IN_OBJECT", "HAVE_KEY", "NEED_COLON"}
  BY <1>2 DEF Begins
<1>8. CASE /\ Update([Top EXCEPT !.to_parse = s])
           /\ UNCHANGED <<streamVars, pc, events>>
  <2>1. [Top EXCEPT !.to_parse = s] = Top
    BY <1>2, <1>3 DEF Parser
  <2>2. Update(Top) /\ Top.state # "ARRAY_END"
    BY <1>2, <1>8, <2>1 DEF Begins
  <2> QED
    BY <1>1, <1>2, <1>7, <1>8, <2>2, SilentStep
<1>9. CASE /\ i <= Len(s)
           /\ Update([Top EXCEPT !.to_parse = From(s, i), !.cur_value = value,
                                 !.state = "NEED_END"])
           /\ UNCHANGED <<streamVars, pc, events>>
  <2> DEFINE p == [Top EXCEPT !.to_parse = From(s, i), !.cur_value = value,
                              !.state = "NEED_END"]
  <2>1. From(s, i) \in Text
    BY <1>3, <1>4, <1>9, PieceType
  <2> HIDE DEF i, value
  <2>2. /\ p \in Parser /\ p.state = "NEED_END" /\ p.cur_value = value
        /\ p.initial = Top.initial /\ p.is_array = Top.is_array
        /\ p.cur_key = Top.cur_key /\ p.array_index = Top.array_index
    BY <1>2, <1>5, <2>1 DEF Parser, States, Maybe
  <2>3. Update(p)
    BY <1>9
  <2> HIDE DEF p
  <2>4. p \in SoundParser
    BY <1>2, <1>7, <2>2 DEF SoundParser
  <2>5. KeyOK(p)
    BY <1>2, <1>5, <1>6, <2>2 DEF KeyOK, AtMember, Begins
  <2>6. LevelOf(p) = LevelOf(Top)
    BY <1>5, <1>7, <2>2 DEF LevelOf, MemberOf, CurKey, Concluded
  <2>7. p.state \notin DOMAIN Begins \cup {"UNPARSED", "ARRAY_END"}
    BY <2>2 DEF Begins
  <2> QED
    BY <1>1, <1>2, <1>7, <1>9, <2>3, <2>4, <2>5, <2>6, <2>7, SilentStep
<1>10. CASE i <= Len(s) /\ IsEnd(Top, s[i]) # Undefined /\ FoundValue(Top, s, i)
  <2>1. i \in 1..Len(s)
    BY <1>4, <1>10
  <2>2. MemberOf(Top) = CurKey(Top) /\ ~Concluded(Top)
    BY <1>7 DEF MemberOf, Concluded
  <2>3. CurKey(Top) # Undefined
    BY <1>2, <1>6, MemberHasKey
  <2> HIDE DEF i
  <2> QED
    BY <1>2, <1>3, <1>5, <1>7, <1>10, <2>1, <2>2, <2>3, FoundValueStep
<1>11. CASE Throw("token")
  BY <1>1, <1>2, <1>11, ThrowStep
<1> QED
  BY <1>8, <1>9, <1>10, <1>11 DEF ParseToken, s, n

\* A container is announced, and the text that begins with its bracket is on
\* its way to a parser of its own.
LEMMA ParseNestedStep ==
  ASSUME Inv, NEW state, NEW type,
         \/ state = "PARSE_OBJECT" /\ type = "object"
         \/ state = "PARSE_ARRAY" /\ type = "array",
         ParseNested(state, type)
  PROVE  Step
<1> DEFINE s == SkipWhiteSpace(Top.to_parse)
           p == [Top EXCEPT !.to_parse = Undefined]
           updated == [stack EXCEPT ![Len(stack)].to_parse = Undefined]
           key == CurKey(Top)
<1>1. InState({state}) /\ TypeInv /\ ProtocolInv /\ pc' = "read"
  BY DEF ParseNested, Inv
<1>2. /\ Top \in Parser /\ Top \in SoundParser /\ KeyOK(Top) /\ pc = "parse" /\ buffer = <<>>
      /\ Top.state = state /\ state \in DOMAIN Begins /\ BeginsWith(s, Begins[state])
  <2>1. /\ Top \in Parser /\ Top \in SoundParser /\ KeyOK(Top) /\ pc = "parse" /\ TopOK
        /\ Top.state = state /\ buffer = <<>>
    BY <1>1, AtHandler
  <2>2. state \in DOMAIN Begins
    BY DEF Begins
  <2>3. BeginsWith(Top.to_parse, Begins[state])
    BY <2>1, <2>2 DEF TopOK
  <2>4. s = Top.to_parse
    BY <2>2, <2>3, BeginsAtOnce
  <2> QED
    BY <2>1, <2>2, <2>3, <2>4
<1>3. Len(stack) \in Nat \ {0} /\ Len(stack) \in 1..Len(stack) /\ stack \in Seq(SoundParser)
  BY <1>1, StackTop DEF TypeInv, StackInv
<1>4. /\ p \in SoundParser /\ p.state = state /\ p.initial = Top.initial
      /\ p.is_array = Top.is_array /\ p.cur_key = Top.cur_key /\ p.cur_value = Top.cur_value
      /\ p.array_index = Top.array_index
  BY <1>2 DEF SoundParser, Parser, Maybe
<1>5. updated = [stack EXCEPT ![Len(stack)] = p]
  BY DEF Top
<1>6. stack' = Append(updated, NewParser)
  BY DEF ParseNested
<1>7. buffer' = Append(<<>>, s) /\ s \in Text /\ UNCHANGED eof
  BY <1>2 DEF ParseNested, Unshift, BeginsWith
<1>8. Emit(Event(StartEvent[type], key, Undefined))
  BY DEF ParseNested
<1> HIDE DEF updated, p, s
<1>9. /\ Len(updated) = Len(stack) /\ updated \in Seq(SoundParser)
      /\ \A i \in 1..Len(stack) : updated[i] = IF i = Len(stack) THEN p ELSE stack[i]
  BY <1>3, <1>4, <1>5, ExceptSeq
<1>10. /\ Len(stack') = Len(stack) + 1 /\ stack'[Len(stack) + 1] = NewParser
       /\ \A i \in 1..Len(stack) : stack'[i] = IF i = Len(stack) THEN p ELSE stack[i]
  BY <1>3, <1>6, <1>9, NewParserType, AppendProperties
<1>11. buffer' # <<>> /\ buffer'[1] = s
  <2>1. <<>> \in Seq(Text) /\ Len(<<>>) = 0
    BY EmptySeq
  <2> QED
    BY <1>7, <2>1, AppendProperties
<1>12. Top' = NewParser
  BY <1>10 DEF Top
<1>13. ProtocolInv'
  <2>1. KeyOK(p) /\ KeyOK(NewParser)
    BY <1>2, <1>4 DEF KeyOK, AtMember, NewParser, Begins
  <2>2. \A i \in 1..Len(stack') : KeyOK(stack'[i])
    BY <1>1, <1>3, <1>10, <2>1 DEF ProtocolInv
  <2>3. NewParser.state = "UNPARSED"
    BY DEF NewParser
  <2>4. stack'[Len(stack') - 1].state = state
    BY <1>3, <1>4, <1>10
  <2>5. TopOK'
    BY <1>1, <1>2, <1>11, <1>12, <2>3, <2>4 DEF TopOK, Begins
  <2> QED
    BY <2>2, <2>5 DEF ProtocolInv
<1>14. Started = Len(stack) /\ Started' = Len(stack)
  <2>1. Top.state # "UNPARSED" /\ Top'.state = "UNPARSED"
    BY <1>2, <1>12 DEF NewParser
  <2>2. Started = Len(stack)
    BY <1>2, <2>1 DEF Started
  <2>3. Started' = Len(stack') - 1
    BY <2>1 DEF Started
  <2> QED
    BY <1>3, <1>10, <2>2, <2>3
<1>15. /\ Open # <<>> /\ Protocol!Inner = LevelOf(Top) /\ Open[Len(Open)] = LevelOf(Top)
       /\ Len(Open) = Len(stack)
       /\ Open = [i \in 1..Len(stack) |->
                    IF i = Len(stack) THEN LevelOf(stack[i]) ELSE Waiting(stack[i])]
  BY <1>1, <1>14, OpenWithin DEF Protocol!Inner
<1>16. Open' = [i \in 1..Len(stack) |-> IF i = Len(stack) THEN Waiting(p) ELSE Waiting(stack[i])]
  <2>1. Open' = [i \in 1..Len(stack) |->
                   IF i = Len(stack) + 1 THEN LevelOf(stack'[i]) ELSE Waiting(stack'[i])]
    BY <1>10, <1>14, NextLevels
  <2> QED
    BY <1>3, <1>10, <2>1
<1>17. Open' = [Open EXCEPT ![Len(Open)] = Waiting(p)]
  BY <1>3, <1>15, <1>16
<1>18. LevelOf(Top) = [type |-> Top.initial, member |-> key, nested |-> "none"]
  BY <1>2 DEF LevelOf, MemberOf, Concluded
<1>19. Waiting(p) = [type |-> Top.initial, member |-> key, nested |-> type]
  BY <1>4 DEF Waiting, MemberOf, CurKey
<1>20. key # Undefined
  BY <1>2, MemberHasKey DEF KeyOK, AtMember
<1>21. Protocol!Emits(Protocol!StartOf[type], key, Undefined)
  BY <1>1, <1>8, EmitEmits DEF StartEvent, Protocol!StartOf
<1> HIDE DEF key
<1>22. Open' = [Open EXCEPT ![Len(Open)].nested = type]
  <2>1. [Open[Len(Open)] EXCEPT !.nested = type] = Waiting(p)
    BY <1>15, <1>18, <1>19, RecordExcept
  <2> QED
    BY <1>17, <2>1
<1>23. Protocol!Inner.nested = "none" /\ Protocol!Inner.member = key
  BY <1>15, <1>18, RecordFields
<1>24. Protocol!Announce(type)
  BY <1>7, <1>15, <1>20, <1>21, <1>22, <1>23 DEF Protocol!Announce
<1> QED
  BY <1>13, <1>24 DEF Step, Protocol!Next, Protocol!Types

---------------------------------------------------------------------------
(* parse() *)

LEMMA ReadGives ==
  ASSUME TypeInv, NEW result \in ReadResults, Read(result)
  PROVE  /\ result.str # Undefined => /\ UNCHANGED eof
                                      /\ buffer # <<>> => result.str = buffer[1]
         /\ result.str = Undefined => buffer = <<>> /\ buffer' = <<>> /\ eof' = TRUE
<1>1. buffer \in Seq(Text) /\ Undefined \notin Text
  BY UndefinedIsNoString DEF TypeInv, StreamInv, Text
<1>2. CASE Buffered
  <2>1. result.str = Head(buffer) /\ UNCHANGED eof /\ buffer # <<>>
    BY <1>2 DEF ReadResults, GivenBack, Outcome, Read, Buffered
  <2>2. Head(buffer) \in Text /\ Head(buffer) = buffer[1]
    BY <1>1, <2>1, HeadTailProperties
  <2> QED
    BY <1>1, <2>1, <2>2
<1>3. CASE ~Buffered /\ offset = Len(input.text)
  <2>1. result = AtEnd /\ buffer = <<>>
    BY <1>3 DEF ReadResults, Buffered
  <2> QED
    BY <2>1 DEF AtEnd, Outcome, Read
<1>4. CASE ~Buffered /\ offset # Len(input.text)
  <2>1. result \in Delivered /\ buffer = <<>>
    BY <1>4 DEF ReadResults, Buffered
  <2>2. PICK end \in ReadEnds :
          result = Outcome(SubSeq(input.text, offset + 1, end), buffer, end, eof)
    BY <2>1 DEF Delivered
  <2>3. SubSeq(input.text, offset + 1, end) \in Text
    BY InputText, SubSeqType DEF ReadEnds, TypeInv, StreamInv
  <2> QED
    BY <1>1, <2>1, <2>2, <2>3 DEF Outcome, Read
<1> QED
  BY <1>2, <1>3, <1>4

LEMMA ReadMoreStep ==
  ASSUME Inv, ReadMore
  PROVE  Step
<1>1. PICK result \in ReadResults :
        /\ result.str # Undefined
        /\ Read(result)
        /\ Update([Top EXCEPT !.to_parse = result.str])
  BY DEF ReadMore
<1> DEFINE p == [Top EXCEPT !.to_parse = result.str]
<1>2. TypeInv /\ ProtocolInv /\ pc = "read" /\ pc' = "parse" /\ UNCHANGED <<eof, events>>
  BY <1>1, ReadGives DEF Inv, ReadMore
<1>3. result.str \in Text
  BY <1>1, <1>2, ReadType
<1>4. Top \in SoundParser /\ KeyOK(Top) /\ TopOK /\ Top.state # "UNPARSED"
  <2>1. Len(stack) \in Nat \ {0} /\ Top \in SoundParser /\ Top = stack[Len(stack)]
    BY <1>2, StackTop DEF Top
  <2> QED
    BY <1>2, <2>1 DEF ProtocolInv, ReadMore
<1>5. /\ p \in SoundParser /\ p.state = Top.state /\ p.cur_value = Top.cur_value
      /\ p.initial = Top.initial /\ p.is_array = Top.is_array
      /\ p.cur_key = Top.cur_key /\ p.array_index = Top.array_index
  BY <1>3, <1>4 DEF SoundParser, Parser, Maybe
<1>6. Update(p)
  BY <1>1
<1> HIDE DEF p
<1>7. KeyOK(p)
  BY <1>4, <1>5 DEF KeyOK, AtMember
<1>8. LevelOf(p) = LevelOf(Top)
  BY <1>5 DEF LevelOf, MemberOf, CurKey, Concluded
<1>9. p.state \notin DOMAIN Begins /\ (p.state = "ARRAY_END" => p.is_array)
  BY <1>2, <1>4, <1>5 DEF TopOK
<1> QED
  BY <1>2, <1>4, <1>5, <1>6, <1>7, <1>8, <1>9, QuietStep

LEMMA EndOfInputStep ==
  ASSUME Inv, EndOfInput
  PROVE  Step
<1>1. PICK result \in ReadResults : result.str = Undefined /\ Read(result)
  BY DEF EndOfInput
<1>2. /\ TypeInv /\ ProtocolInv /\ buffer = <<>> /\ buffer' = <<>> /\ eof' = TRUE
      /\ eof \in BOOLEAN
  BY <1>1, ReadGives DEF Inv, TypeInv, StreamInv
<1>3. pc = "read" /\ pc' = "leave" /\ UNCHANGED <<stack, events>>
  BY DEF EndOfInput
<1>4. TopOK /\ UNCHANGED <<Top, Started>>
  BY <1>2, <1>3 DEF ProtocolInv, Top, Started
<1>5. TopOK'
  BY <1>2, <1>3, <1>4 DEF TopOK
<1>6. ProtocolInv'
  BY <1>2, <1>3, <1>5 DEF ProtocolInv
<1>7. UNCHANGED Open
  BY <1>3, <1>4 DEF Open
<1>8. CASE eof = TRUE
  BY <1>2, <1>3, <1>6, <1>7, <1>8 DEF Step, Protocol!vars
<1>9. CASE eof = FALSE
  <2>1. Protocol!InputOver
    BY <1>2, <1>3, <1>7, <1>9 DEF Protocol!InputOver
  <2> QED
    BY <1>6, <2>1 DEF Step, Protocol!Next
<1> QED
  BY <1>2, <1>8, <1>9

\* One more level than before.
LEMMA OpensOne ==
  ASSUME NEW S, NEW n \in Nat, NEW o \in [1..n -> S], NEW q \in [1..(n + 1) -> S],
         \A k \in 1..n : q[k] = o[k]
  PROVE  q = Append(o, q[n + 1])
<1> DEFINE l == q[n + 1]
           a == Append(o, l)
<1>1. o \in Seq(S) /\ Len(o) = n /\ q \in Seq(S) /\ Len(q) = n + 1 /\ l \in S
  BY SeqDef, LenProperties
<1>2. a \in Seq(S) /\ Len(a) = n + 1 /\ (\A k \in 1..n : a[k] = o[k]) /\ a[n + 1] = l
  BY <1>1, AppendProperties
<1> HIDE DEF a
<1>3. \A k \in 1..(n + 1) : q[k] = a[k]
  BY <1>2
<1>4. q = a
  BY <1>1, <1>2, <1>3, SeqEqual
<1> QED
  BY <1>4 DEF a

\* The bracket of a nested container.
LEMMA BeginsNested ==
  ASSUME NEW state \in {"PARSE_OBJECT", "PARSE_ARRAY"}
  PROVE  /\ state \in DOMAIN Begins
         /\ Begins[state] = IF state = "PARSE_ARRAY" THEN {"["} ELSE {"{"}
<1>1. Begins.PARSE_OBJECT = {"{"} /\ Begins.PARSE_ARRAY = {"["}
  BY DEF Begins
<1>2. {"PARSE_OBJECT", "PARSE_ARRAY"} \subseteq DOMAIN Begins
  BY DEF Begins
<1> QED
  BY <1>1, <1>2

\* The levels while the innermost parser is outside of its container.
LEMMA OpenOutside ==
  ASSUME TypeInv, Started = Len(stack) - 1
  PROVE  /\ Open = [k \in 1..(Len(stack) - 1) |-> Waiting(stack[k])]
         /\ Len(Open) = Len(stack) - 1
         /\ Open = <<>> <=> Len(stack) = 1
         /\ Len(stack) > 1 => /\ Protocol!Inner = Waiting(stack[Len(stack) - 1])
                              /\ Open[Len(Open)] = Waiting(stack[Len(stack) - 1])
<1>1. Len(stack) \in Nat \ {0}
  BY StackTop
<1>2. Open = [k \in 1..(Len(stack) - 1) |-> Waiting(stack[k])]
  BY <1>1, OpenLevels
<1>3. Len(Open) = Len(stack) - 1 /\ (Open = <<>> <=> Len(stack) = 1)
  <2>1. Len(stack) - 1 \in Nat /\ Open = [k \in 1..(Len(stack) - 1) |-> Open[k]]
    BY <1>1, <1>2
  <2>2. Len(Open) = Len(stack) - 1 /\ (Open = <<>> <=> Len(stack) - 1 = 0)
    BY <2>1, LevelsAreASequence
  <2> QED
    BY <1>1, <2>2
<1>4. ASSUME Len(stack) > 1
      PROVE  Open[Len(stack) - 1] = Waiting(stack[Len(stack) - 1])
  BY <1>1, <1>2, <1>4
<1> QED
  BY <1>2, <1>3, <1>4 DEF Protocol!Inner

\* A parser finds the bracket of its container.
LEMMA StartStep ==
  ASSUME TypeInv, ProtocolInv, pc = "read", pc' = "parse", Top = NewParser,
         UNCHANGED eof,
         NEW type \in Types, Emit(Event(StartEvent[type], Undefined, Undefined)),
         NEW p \in Parser, Update(p),
         p.initial = type, p.cur_key = Undefined, p.cur_value = Undefined,
         type = "object" => p.state = "IN_OBJECT" /\ ~p.is_array,
         type = "array" => p.state = "NEED_VALUE" /\ p.is_array /\ p.array_index = 0,
         Len(stack) > 1 =>
           type = IF stack[Len(stack) - 1].state = "PARSE_ARRAY" THEN "array" ELSE "object"
  PROVE  Step
<1>1. Len(stack) \in Nat \ {0} /\ type # Undefined
  BY StackTop, UndefinedIsNoKey
<1>2. p.state \in {"IN_OBJECT", "NEED_VALUE"} /\ (p.state = "NEED_VALUE" <=> p.is_array)
  BY DEF Types
<1>3. p \in SoundParser /\ p.state \notin DOMAIN Begins \cup {"UNPARSED", "ARRAY_END", "NEED_END"}
  BY <1>1, <1>2 DEF SoundParser, Begins
<1>4. KeyOK(p)
  BY <1>2, <1>3 DEF KeyOK, AtMember, Types
<1>5. ProtocolInv'
  BY <1>3, <1>4, UpdateKeeps
<1>6. LevelOf(p) = Protocol!Level(type)
  <2>1. CASE type = "object"
    BY <1>2, <2>1 DEF LevelOf, MemberOf, Concluded, Protocol!Level
  <2>2. CASE type = "array"
    BY <1>2, <2>2 DEF LevelOf, MemberOf, CurKey, Concluded, Protocol!Level
  <2> QED
    BY <2>1, <2>2 DEF Types
<1>7. /\ Len(stack') = Len(stack) /\ Top' = p /\ stack'[Len(stack)] = p
      /\ \A k \in 1..(Len(stack) - 1) : stack'[k] = stack[k]
  BY <1>3, UpdateTop DEF Top
<1>8. Started = Len(stack) - 1 /\ Started' = Len(stack)
  BY <1>3, <1>7 DEF Started, NewParser
<1>9. Open' = Append(Open, Protocol!Level(type))
  <2> DEFINE n == Len(stack) - 1
             o == Open
             q == Open'
             l == Protocol!Level(type)
  <2>1. n \in Nat /\ n + 1 = Len(stack)
    BY <1>1
  <2>2. o = [k \in 1..n |-> Waiting(stack[k])]
    BY <1>8, OpenOutside
  <2>3. q = [k \in 1..Len(stack) |-> IF k = Len(stack) THEN LevelOf(stack'[k]) ELSE Waiting(stack'[k])]
    BY <1>7, <1>8, NextLevels
  <2>4. q = [k \in 1..(n + 1) |-> q[k]] /\ o = [k \in 1..n |-> o[k]]
    BY <2>1, <2>2, <2>3
  <2>5. q[n + 1] = l
    BY <1>6, <1>7, <2>1, <2>3
  <2>6. \A k \in 1..n : q[k] = o[k]
    BY <1>7, <2>1, <2>2, <2>3
  <2> HIDE DEF n, o, q, l
  <2>7. q = Append(o, l)
    <3> DEFINE S == {q[k] : k \in 1..(n + 1)}
    <3>1. n \in Nat /\ q \in [1..(n + 1) -> S]
      BY <2>1, <2>4
    <3>2. \A k \in 1..n : o[k] \in S
      BY <2>1, <2>6
    <3>3. o \in [1..n -> S]
      BY <2>4, <3>2
    <3> HIDE DEF S
    <3> QED
      BY <2>5, <2>6, <3>1, <3>3, OpensOne
  <2> QED
    BY <2>7 DEF o, q, l
<1>10. Open = <<>> \/ Protocol!Inner.nested = type
  BY <1>1, <1>8, OpenOutside DEF Waiting
<1>11. Protocol!Emits(Protocol!StartOf[type], Undefined, Undefined)
  BY EmitEmits DEF StartEvent, Protocol!StartOf
<1>12. Protocol!Start(type)
  BY <1>9, <1>10, <1>11 DEF Protocol!Start
<1> QED
  BY <1>5, <1>12 DEF Step, Protocol!Next, Protocol!Types, Types

LEMMA StartDocumentStep ==
  ASSUME Inv, StartDocument
  PROVE  Step
<1>1. PICK result \in ReadResults :
        /\ result.str # Undefined
        /\ Read(result)
        /\ LET i    == Opening(result.str)
               type == IF result.str[i] = "{" THEN "object" ELSE "array"
           IN \/ /\ i <= Len(result.str)
                 /\ Emit(Event(StartEvent[type], CurKey(Top), Undefined))
                 /\ passed' = passed \o SubSeq(result.str, 1, i - 1)
                 /\ Update([Top EXCEPT
                              !.state = IF type = "object" THEN "IN_OBJECT" ELSE "NEED_VALUE",
                              !.initial = type,
                              !.is_array = type = "array",
                              !.array_index = IF type = "array" THEN 0 ELSE @,
                              !.to_parse = From(result.str, i + 1)])
                 /\ pc' = "parse"
              \/ /\ i > Len(result.str)
                 /\ passed' = passed \o result.str
                 /\ UNCHANGED <<stack, pc, events>>
  BY DEF StartDocument
<1> DEFINE str  == result.str
           i    == Opening(str)
           type == IF str[i] = "{" THEN "object" ELSE "array"
           p    == [Top EXCEPT
                      !.state = IF type = "object" THEN "IN_OBJECT" ELSE "NEED_VALUE",
                      !.initial = type,
                      !.is_array = type = "array",
                      !.array_index = IF type = "array" THEN 0 ELSE @,
                      !.to_parse = From(str, i + 1)]
<1>2. TypeInv /\ ProtocolInv /\ pc = "read" /\ Top.state = "UNPARSED" /\ UNCHANGED eof
  BY <1>1, ReadGives DEF Inv, StartDocument
<1>3. str \in Text /\ Len(str) \in Nat /\ i \in Nat \ {0}
  <2>1. str \in Text /\ Len(str) \in Nat
    BY <1>1, <1>2, ReadType, LenProperties DEF Text
  <2> DEFINE n == Span(str, Chars \ {"{", "["})
  <2>2. n \in 0..Len(str) /\ i = n + 1
    BY <2>1, SpanType DEF Opening
  <2> HIDE DEF n, i
  <2> QED
    BY <2>1, <2>2
<1>4. /\ Len(stack) \in Nat \ {0} /\ Top \in SoundParser /\ Top = NewParser /\ TopOK
      /\ \A k \in 1..Len(stack) : KeyOK(stack[k])
  <2>1. Len(stack) \in Nat \ {0} /\ Top \in SoundParser /\ Top = stack[Len(stack)]
    BY <1>2, StackTop DEF Top
  <2>2. KeyOK(Top) /\ TopOK
    BY <1>2, <2>1 DEF ProtocolInv
  <2> QED
    BY <1>2, <2>1, <2>2 DEF ProtocolInv, KeyOK
\* A nested container begins where its text does, with its own bracket.
<1>5. ASSUME Len(stack) > 1
      PROVE  /\ i = 1 /\ 1 <= Len(str)
             /\ type = IF stack[Len(stack) - 1].state = "PARSE_ARRAY" THEN "array" ELSE "object"
  <2> DEFINE state == stack[Len(stack) - 1].state
             B == Begins[state]
  <2>1. state \in {"PARSE_OBJECT", "PARSE_ARRAY"}
    BY <1>2, <1>4, <1>5 DEF TypeInv, StackInv
  <2>2. B = IF state = "PARSE_ARRAY" THEN {"["} ELSE {"{"}
    BY <2>1, BeginsNested
  <2>3. BeginsWith(str, B)
    BY <1>1, <1>2, <1>4, <1>5, ReadGives DEF TopOK
  <2> HIDE DEF state, B, str
  <2>4. str # <<>> /\ str[1] = IF state = "PARSE_ARRAY" THEN "[" ELSE "{"
    BY <2>2, <2>3 DEF BeginsWith
  <2> DEFINE n == Span(str, Chars \ {"{", "["})
  <2>5. n = 0 /\ i = n + 1
    BY <1>3, <2>4, SpanNothing DEF Opening
  <2> HIDE DEF n
  <2>6. Len(str) # 0
    BY <1>3, <2>4, EmptySeq DEF Text
  <2>7. i = 1
    BY <2>5
  <2>8. type = IF state = "PARSE_ARRAY" THEN "array" ELSE "object"
    BY <2>4, <2>7
  <2> HIDE DEF type
  <2> QED
    BY <1>3, <2>6, <2>7, <2>8 DEF state
<1> HIDE DEF i, type
<1>6. CASE i > Len(str) /\ UNCHANGED <<stack, pc, events>>
  <2> HIDE DEF str
  <2>1. Len(stack) = 1
    <3>1. ~(Len(stack) > 1)
      <4>1. ~(i = 1 /\ 1 <= Len(str))
        BY <1>3, <1>6
      <4> QED
        BY <1>5, <4>1
    <3> DEFINE n == Len(stack)
    <3>2. n \in Nat \ {0} /\ ~(n > 1)
      BY <1>4, <3>1
    <3> HIDE DEF n
    <3>3. n = 1
      BY <3>2
    <3> QED
      BY <3>3 DEF n
  <2>2. UNCHANGED <<Top, Started>>
    BY <1>6 DEF Top, Started
  <2>3. UNCHANGED Open
    BY <1>6, <2>2 DEF Open
  <2>4. Top'.state = "UNPARSED" /\ "UNPARSED" \notin DOMAIN Begins
    BY <1>2, <2>2 DEF Begins
  <2>5. TopOK'
    BY <1>2, <1>6, <2>1, <2>4 DEF TopOK
  <2>6. ProtocolInv'
    BY <1>4, <1>6, <2>5 DEF ProtocolInv
  <2> QED
    BY <1>2, <1>6, <2>3, <2>6 DEF Step, Protocol!vars
<1>7. CASE /\ i <= Len(str)
           /\ Emit(Event(StartEvent[type], CurKey(Top), Undefined))
           /\ Update(p)
           /\ pc' = "parse"
  <2>1. i \in 1..Len(str)
    BY <1>3, <1>7
  <2>2. From(str, i + 1) \in Text
    BY <1>3, <2>1, PieceType
  <2>3. type \in Types
    BY DEF type, Types
  <2>4. Len(stack) > 1 =>
          type = IF stack[Len(stack) - 1].state = "PARSE_ARRAY" THEN "array" ELSE "object"
    BY <1>5
  <2> HIDE DEF str
  <2>5. /\ p.state = (IF type = "object" THEN "IN_OBJECT" ELSE "NEED_VALUE")
        /\ p.initial = type /\ p.cur_key = Undefined /\ p.cur_value = Undefined
        /\ p.is_array = (type = "array")
        /\ p.array_index = (IF type = "array" THEN 0 ELSE -1)
    BY <1>4 DEF NewParser
  <2>6. p \in Parser
    <3>1. /\ (IF type = "object" THEN "IN_OBJECT" ELSE "NEED_VALUE") \in States
          /\ (IF type = "array" THEN 0 ELSE Top.array_index) \in Int
      BY <1>4 DEF SoundParser, Parser, States
    <3>2. Top \in Parser
      BY <1>4 DEF SoundParser
    <3> QED
      BY <2>2, <2>3, <3>1, <3>2 DEF Parser, Types, Maybe
  <2>7. CurKey(Top) = Undefined
    BY <1>4 DEF NewParser, CurKey
  <2>8. Update(p) /\ Emit(Event(StartEvent[type], Undefined, Undefined))
    BY <1>7, <2>7
  <2> HIDE DEF p
  <2>9. /\ type = "object" => p.state = "IN_OBJECT" /\ ~p.is_array
        /\ type = "array" => p.state = "NEED_VALUE" /\ p.is_array /\ p.array_index = 0
    BY <2>5
  <2> QED
    BY <1>2, <1>4, <1>7, <2>3, <2>4, <2>5, <2>6, <2>8, <2>9, StartStep
<1> QED
  BY <1>1, <1>6, <1>7 DEF i, type

\* One level less than before.
LEMMA ClosesOne ==
  ASSUME NEW S, NEW n \in Nat, NEW o \in [1..(n + 1) -> S], NEW q \in [1..n -> S],
         \A k \in 1..n : q[k] = o[k]
  PROVE  q = SubSeq(o, 1, Len(o) - 1)
<1> DEFINE a == SubSeq(o, 1, n)
<1>1. o \in Seq(S) /\ Len(o) = n + 1 /\ q \in Seq(S) /\ Len(q) = n
  BY SeqDef, LenProperties
<1>2. a \in Seq(S) /\ Len(a) = n /\ \A k \in 1..n : a[k] = o[k]
  BY <1>1, PrefixOf
<1> HIDE DEF a
<1>3. q = a
  BY <1>1, <1>2, SeqEqual
<1> QED
  BY <1>1, <1>3 DEF a

\* The levels outside of the innermost container.
LEMMA OuterLevels ==
  ASSUME TypeInv, NEW n \in Nat, n + 1 = Len(stack), Started = Len(stack),
         NEW q, q = [k \in 1..n |-> Waiting(stack[k])]
  PROVE  q = SubSeq(Open, 1, Len(Open) - 1)
<1> DEFINE o == Open
           S == {o[k] : k \in 1..(n + 1)}
<1>1. o = [k \in 1..(n + 1) |-> IF k = n + 1 THEN LevelOf(stack[k]) ELSE Waiting(stack[k])]
  BY OpenLevels
<1>2. o = [k \in 1..(n + 1) |-> o[k]] /\ q = [k \in 1..n |-> q[k]]
  BY <1>1
<1>3. \A k \in 1..n : q[k] = o[k]
  BY <1>1
<1> HIDE DEF o
<1>4. o \in [1..(n + 1) -> S]
  BY <1>2
<1>5. \A k \in 1..n : q[k] \in S
  BY <1>3
<1>6. q \in [1..n -> S]
  BY <1>2, <1>5
<1> HIDE DEF S
<1>7. q = SubSeq(o, 1, Len(o) - 1)
  BY <1>3, <1>4, <1>6, ClosesOne
<1> QED
  BY <1>7 DEF o

\* parse() of a parser that has come to the end of its container.
LEMMA EndStep ==
  ASSUME TypeInv, ProtocolInv, pc \in {"read", "leave"}, pc' = "return",
         Top.state # "UNPARSED", Completed(Top), UNCHANGED eof,
         NEW p \in SoundParser, Update(p),
         p.state = Top.state, p.initial = Top.initial, p.cur_key = Top.cur_key,
         p.cur_value = Top.cur_value,
         Top.initial = "array" => ~p.is_array,
         Top.initial = "object" => p.is_array = Top.is_array,
         Emit(Event(EndEvent[Top.initial], CurKey(p), Undefined))
  PROVE  Step
<1> DEFINE type == Top.initial
           n    == Len(stack) - 1
<1>1. Len(stack) \in Nat \ {0} /\ Top \in SoundParser /\ Top = stack[Len(stack)]
  BY StackTop DEF Top
<1>2. KeyOK(Top) /\ TopOK
  BY <1>1 DEF ProtocolInv
<1>3. type \in Types
  BY <1>1 DEF SoundParser, Parser, Maybe
<1>4. /\ type = "array" => Top.state = "ARRAY_END" /\ Top.is_array
      /\ type = "object" => Top.state = "OBJECT_END" /\ ~Top.is_array
  BY <1>2 DEF Completed, TopOK, KeyOK
<1>5. ~p.is_array /\ p.cur_key = Undefined /\ CurKey(p) = Undefined
      /\ MemberOf(Top) = CurKey(Top) /\ ~Concluded(Top)
      /\ (CurKey(Top) = Undefined <=> type = "object")
  <2>1. CASE type = "array"
    <3>1. CurKey(Top) = [index |-> Top.array_index] /\ Top.array_index \in Int
      BY <1>1, <1>4, <2>1 DEF CurKey, SoundParser, Parser
    <3>2. CurKey(Top) # Undefined
      BY <3>1, UndefinedIsNoKey DEF Key
    <3> QED
      BY <1>2, <1>4, <2>1, <3>2 DEF KeyOK, CurKey, MemberOf, Concluded
  <2>2. CASE type = "object"
    BY <1>2, <1>4, <2>2 DEF KeyOK, CurKey, MemberOf, Concluded
  <2> QED
    BY <1>3, <2>1, <2>2 DEF Types
<1>6. p.state \in {"OBJECT_END", "ARRAY_END"} /\ Completed(p)
  BY DEF Completed
<1>7. KeyOK(p)
  BY <1>5, <1>6 DEF KeyOK, AtMember, Begins
<1>8. /\ Len(stack') = Len(stack) /\ Top' = p /\ stack'[Len(stack)] = p
      /\ \A k \in 1..(Len(stack) - 1) : stack'[k] = stack[k]
  BY UpdateTop DEF Top
<1>9. ProtocolInv'
  <2>1. \A k \in 1..Len(stack') : KeyOK(stack'[k])
    BY <1>1, <1>7, <1>8 DEF ProtocolInv
  <2>2. TopOK'
    BY <1>6, <1>8 DEF TopOK, Begins
  <2> QED
    BY <2>1, <2>2 DEF ProtocolInv
<1>10. n \in Nat /\ n + 1 = Len(stack) /\ Started = Len(stack) /\ Started' = n
  BY <1>1, <1>6, <1>8 DEF Started
<1>11. Open' = [k \in 1..n |-> Waiting(stack[k])]
  BY <1>8, <1>10, NextLevels
<1> HIDE DEF n
<1>12. Open' = SubSeq(Open, 1, Len(Open) - 1)
  BY <1>10, <1>11, OuterLevels
<1>13. Open # <<>> /\ Protocol!Inner = LevelOf(Top)
  BY <1>10, OpenWithin
<1>14. LevelOf(Top) = [type |-> type, member |-> CurKey(Top), nested |-> "none"]
  BY <1>5 DEF LevelOf
<1>15. Protocol!Emits(Protocol!EndOf[type], Undefined, Undefined)
  BY <1>5, EmitEmits DEF EndEvent, Protocol!EndOf
<1> HIDE DEF type
<1>16. /\ Protocol!Inner.type = type /\ Protocol!Inner.nested = "none"
       /\ (Protocol!Inner.member = Undefined <=> type = "object")
  BY <1>5, <1>13, <1>14, RecordFields
<1>17. Protocol!End(type)
  BY <1>12, <1>13, <1>15, <1>16 DEF Protocol!End
<1> QED
  BY <1>3, <1>9, <1>17 DEF Step, Protocol!Next, Protocol!Types, Types

LEMMA LeaveStep ==
  ASSUME Inv, Leave
  PROVE  Step
<1> DEFINE rest == Top.to_parse # Undefined /\ ~Blank(Top.to_parse)
           left == IF rest THEN [Top EXCEPT !.to_parse = Undefined] ELSE Top
           p    == Ended(left, Top.initial)
<1>1. TypeInv /\ ProtocolInv /\ pc \in {"read", "leave"}
  BY DEF Inv, Leave
<1>2. Len(stack) \in Nat \ {0} /\ Top \in SoundParser /\ TopOK
  BY <1>1, StackTop DEF ProtocolInv
<1>3. CASE /\ Top.state # "UNPARSED" /\ Completed(Top)
           /\ IF rest THEN Unshift(Top.to_parse) ELSE UNCHANGED streamVars
           /\ Emit(Event(EndEvent[Top.initial], CurKey(p), Undefined))
           /\ Update(p)
           /\ pc' = "return"
  <2>1. UNCHANGED eof
    BY <1>3 DEF Unshift, streamVars
  <2>2. /\ left \in SoundParser /\ left.state = Top.state /\ left.initial = Top.initial
        /\ left.cur_key = Top.cur_key /\ left.cur_value = Top.cur_value
        /\ left.is_array = Top.is_array
    BY <1>2 DEF SoundParser, Parser, Maybe
  <2> HIDE DEF left
  <2>3. /\ p \in SoundParser /\ p.state = Top.state /\ p.initial = Top.initial
        /\ p.cur_key = Top.cur_key /\ p.cur_value = Top.cur_value
        /\ Top.initial = "array" => ~p.is_array
        /\ Top.initial = "object" => p.is_array = Top.is_array
    BY <2>2, EndedType DEF Ended, SoundParser, Parser
  <2> HIDE DEF p
  <2> QED
    BY <1>1, <1>3, <2>1, <2>3, EndStep
<1>4. CASE /\ ~(Top.state # "UNPARSED" /\ Completed(Top))
           /\ ~(rest \/ IsReadable)
           /\ pc' = "return"
           /\ UNCHANGED <<streamVars, stack, error, events, passed>>
  <2>1. UNCHANGED <<Top, Started, IsReadable>> /\ ~IsReadable
    BY <1>1, <1>4 DEF Top, Started, IsReadable, streamVars
  <2>2. UNCHANGED Open
    BY <1>4, <2>1 DEF Open
  <2>3. TopOK'
    BY <1>1, <1>2, <1>4, <2>1 DEF TopOK, IsReadable
  <2>4. ProtocolInv'
    BY <1>1, <1>4, <2>3 DEF ProtocolInv
  <2> QED
    BY <1>4, <2>2, <2>4 DEF Step, Protocol!vars, streamVars
<1>5. CASE Throw("unfinished")
  BY <1>1, <1>5, ThrowStep
<1> QED
  BY <1>3, <1>4, <1>5 DEF Leave

\* What the parent's parser does when parse() of the nested one is over.
LEMMA ReturnStep ==
  ASSUME Inv, Return
  PROVE  Step
<1>1. PICK n \in Nat \ {0} : n + 1 = Len(stack)
  <2> DEFINE l == Len(stack)
  <2>1. l \in Nat /\ l > 1
    BY StackTop DEF Inv, Return
  <2> HIDE DEF l
  <2>2. l - 1 \in Nat \ {0} /\ (l - 1) + 1 = l
    BY <2>1
  <2> QED
    BY <2>2 DEF l
<1> DEFINE outer == stack[n]
           type  == IF outer.state = "PARSE_ARRAY" THEN "array" ELSE "object"
           waits == [outer EXCEPT !.cur_value = Undefined, !.state = "NEED_END"]
           p     == Ended(waits, type)
           L     == [k \in 1..n |-> Waiting(stack[k])]
<1>2. /\ TypeInv /\ ProtocolInv /\ TopOK /\ pc = "return" /\ pc' = "parse"
      /\ Emit(Event(EndEvent[type], CurKey(p), Undefined))
      /\ stack' = Append(SubSeq(stack, 1, n - 1), p)
      /\ UNCHANGED eof /\ eof \in BOOLEAN
  <2>1. Len(stack) - 1 = n /\ Len(stack) - 2 = n - 1
    BY <1>1
  <2> QED
    BY <2>1 DEF Inv, Return, ProtocolInv, streamVars, TypeInv, StreamInv
<1>3. /\ n \in Nat \ {0} /\ n + 1 = Len(stack) /\ n \in 1..Len(stack)
      /\ \A k \in 1..n : k \in 1..Len(stack)
      /\ stack \in Seq(SoundParser)
  BY <1>1, <1>2 DEF TypeInv, StackInv
<1>4. /\ outer \in SoundParser /\ outer.state \in {"PARSE_OBJECT", "PARSE_ARRAY"} /\ KeyOK(outer)
      /\ type \in Types
  <2>1. outer \in SoundParser /\ KeyOK(outer)
    BY <1>2, <1>3, ElementOfSeq DEF ProtocolInv
  <2>2. n \in 1..(Len(stack) - 1)
    BY <1>3
  <2>3. outer.state \in {"PARSE_OBJECT", "PARSE_ARRAY"}
    BY <1>2, <2>2 DEF TypeInv, StackInv
  <2> QED
    BY <2>1, <2>3 DEF Types
<1>5. /\ waits \in SoundParser /\ waits.state = "NEED_END" /\ waits.cur_value = Undefined
      /\ waits.initial = outer.initial /\ waits.cur_key = outer.cur_key
      /\ waits.is_array = outer.is_array /\ waits.array_index = outer.array_index
  BY <1>4 DEF SoundParser, Parser, States, Maybe
<1> HIDE DEF waits
<1>6. /\ p \in SoundParser /\ p.state = "NEED_END" /\ p.cur_value = Undefined
      /\ p.initial = outer.initial /\ p.cur_key = outer.cur_key
      /\ p.array_index = outer.array_index
      /\ type = "array" => ~p.is_array
      /\ type = "object" => p.is_array = outer.is_array
  BY <1>4, <1>5, EndedType DEF Ended, SoundParser, Parser, Types
<1>7. waits = waits /\ (type = "array" <=> outer.state = "PARSE_ARRAY")
  OBVIOUS
<1> HIDE DEF p, type
\* The stack without its top.
<1>8. /\ Len(stack') = n /\ stack'[n] = p /\ Top' = p
      /\ \A k \in 1..(n - 1) : stack'[k] = stack[k]
  <2> DEFINE rest == SubSeq(stack, 1, n - 1)
  <2>1. rest \in Seq(SoundParser) /\ Len(rest) = n - 1 /\ \A k \in 1..(n - 1) : rest[k] = stack[k]
    BY <1>3, PrefixOf
  <2>2. stack' = Append(rest, p)
    BY <1>2
  <2> HIDE DEF rest
  <2>3. n - 1 + 1 = n
    BY <1>3
  <2>4. Len(stack') = n /\ stack'[n] = p /\ \A k \in 1..(n - 1) : stack'[k] = rest[k]
    BY <1>6, <2>1, <2>2, <2>3, AppendProperties
  <2> QED
    BY <2>1, <2>4 DEF Top
<1>9. KeyOK(p)
  <2>1. <<>> \in Seq(Chars)
    BY EmptySeq
  <2>2. Undefined # <<>>
    BY <2>1, UndefinedIsNoString
  <2> QED
    BY <1>4, <1>6, <2>2 DEF KeyOK, AtMember, Begins, Types
<1>10. ProtocolInv'
  <2>1. \A k \in 1..Len(stack') : KeyOK(stack'[k])
    <3>1. \A k \in 1..n : k # n => k \in 1..(n - 1)
      BY <1>3
    <3>2. \A k \in 1..n : KeyOK(stack[k])
      BY <1>2, <1>3 DEF ProtocolInv
    <3> HIDE DEF outer
    <3> QED
      BY <1>8, <1>9, <3>1, <3>2
  <2>2. TopOK'
    BY <1>2, <1>6, <1>8 DEF TopOK, Begins
  <2> QED
    BY <2>1, <2>2 DEF ProtocolInv
<1>11. Started' = n
  BY <1>2, <1>6, <1>8 DEF Started
<1>12. Open' = [k \in 1..n |-> IF k = n THEN LevelOf(p) ELSE Waiting(stack[k])]
  <2>1. Open' = [k \in 1..n |-> IF k = n THEN LevelOf(stack'[k]) ELSE Waiting(stack'[k])]
    BY <1>8, <1>11, NextLevels
  <2>2. \A k \in 1..n : k # n => k \in 1..(n - 1)
    BY <1>3
  <2> QED
    BY <1>8, <2>1, <2>2
<1>13. LevelOf(p) = Protocol!AfterNested(Waiting(outer))
  <2>1. Waiting(outer) = [type |-> outer.initial, member |-> CurKey(outer), nested |-> type]
    BY <1>4, <1>7 DEF Waiting, MemberOf, type
  <2>2. /\ Waiting(outer).type = outer.initial /\ Waiting(outer).member = CurKey(outer)
        /\ Waiting(outer).nested = type
    BY <2>1, RecordFields
  <2>3. LevelOf(p) = [type |-> outer.initial, member |-> CurKey(p), nested |-> "concluded"]
    BY <1>6 DEF LevelOf, MemberOf, Concluded
  <2>4. CurKey(p) = IF Protocol!IsIndex(CurKey(outer)) /\ type = "array"
                    THEN Undefined ELSE CurKey(outer)
    <3>1. CASE outer.is_array
      <4>1. CurKey(outer) = [index |-> outer.array_index] /\ outer.array_index \in Int
            /\ outer.cur_key = Undefined
        BY <1>4, <3>1 DEF CurKey, SoundParser, Parser, KeyOK
      <4>2. Protocol!IsIndex(CurKey(outer))
        BY <4>1, UndefinedIsNoKey DEF Protocol!IsIndex, Key
      <4>3. CASE type = "array"
        BY <1>6, <4>1, <4>2, <4>3 DEF CurKey
      <4>4. CASE type = "object"
        BY <1>6, <3>1, <4>1, <4>4 DEF CurKey
      <4> QED
        BY <1>4, <4>3, <4>4 DEF Types
    <3>2. CASE ~outer.is_array
      <4>1. ~p.is_array
        BY <1>4, <1>6, <3>2 DEF Types
      <4>2. CurKey(p) = CurKey(outer)
        BY <1>6, <3>2, <4>1 DEF CurKey
      <4>3. CurKey(outer) = Undefined \/ \E name : CurKey(outer) = [name |-> name]
        BY <3>2 DEF CurKey
      <4>4. ~Protocol!IsIndex(CurKey(outer))
        <5> DEFINE key == CurKey(outer)
        <5> HIDE DEF key
        <5>1. key = Undefined \/ \E name : key = [name |-> name]
          BY <4>3 DEF key
        <5>2. ~Protocol!IsIndex(key)
          BY <5>1 DEF Protocol!IsIndex
        <5> QED
          BY <5>2 DEF key
      <4> QED
        BY <4>2, <4>4
    <3> QED
      BY <3>1, <3>2
  <2> QED
    BY <2>2, <2>3, <2>4 DEF Protocol!AfterNested
<1>14. Protocol!AfterNested(Waiting(outer)).member = CurKey(p)
  BY <1>6, <1>13, RecordFields DEF LevelOf, MemberOf
<1>15. L # <<>> /\ Len(L) = n /\ L[n] = Waiting(outer)
  <2> DEFINE l == L
  <2>1. n \in Nat /\ l = [k \in 1..n |-> l[k]] /\ l[n] = Waiting(outer)
    BY <1>3
  <2> HIDE DEF l
  <2>2. Len(l) = n /\ l # <<>>
    BY <1>3, <2>1, LevelsAreASequence
  <2> QED
    BY <2>1, <2>2 DEF l
<1>16. Open' = [L EXCEPT ![Len(L)] = Protocol!AfterNested(Waiting(outer))]
  BY <1>3, <1>12, <1>13, <1>15
<1>17. Protocol!Emits(Protocol!EndOf[type], CurKey(p), Undefined)
  BY <1>2, EmitEmits DEF EndEvent, Protocol!EndOf
<1>18. Waiting(outer).nested = type
  BY <1>4, <1>7 DEF Waiting, type
<1>19. Protocol!Concludes(L, type)
  <2> HIDE DEF L
  <2>1. L[Len(L)] = Waiting(outer)
    BY <1>15
  <2> QED
    BY <1>2, <1>14, <1>15, <1>16, <1>17, <1>18, <2>1 DEF Protocol!Concludes
<1> HIDE DEF outer
<1>20. Top.state # "UNPARSED"
  BY <1>2, <1>3 DEF TopOK
<1>21. CASE Completed(Top)
  <2>1. Started = Len(stack) - 1
    BY <1>2, <1>21 DEF Started
  <2>2. Len(stack) - 1 = n
    BY <1>3
  <2>3. Open = L
    BY <1>2, <2>1, <2>2, OpenOutside
  <2>4. Protocol!Conclude(type)
    BY <1>19, <2>3 DEF Protocol!Conclude
  <2> QED
    BY <1>4, <1>10, <2>4 DEF Step, Protocol!Next, Protocol!Types, Types
<1>22. CASE ~Completed(Top)
  <2>1. eof = TRUE
    BY <1>2, <1>22 DEF TopOK, IsReadable
  <2>2. Started = Len(stack)
    BY <1>2, <1>20, <1>22 DEF Started
  <2>3. Len(Open) > 1
    <3>1. Len(Open) = Len(stack)
      BY <1>2, <2>2, OpenWithin
    <3> QED
      BY <1>3, <3>1
  <2>4. L = SubSeq(Open, 1, Len(Open) - 1)
    <3> DEFINE l == L
    <3>1. n \in Nat /\ l = [k \in 1..n |-> Waiting(stack[k])]
      BY <1>3
    <3> HIDE DEF l
    <3>2. l = SubSeq(Open, 1, Len(Open) - 1)
      BY <1>2, <1>3, <2>2, <3>1, OuterLevels
    <3> QED
      BY <3>2 DEF l
  <2>5. Protocol!Abandon(type)
    BY <1>19, <2>1, <2>3, <2>4 DEF Protocol!Abandon
  <2> QED
    BY <1>4, <1>10, <2>5 DEF Step, Protocol!Next, Protocol!Types, Types
<1> QED
  BY <1>21, <1>22

---------------------------------------------------------------------------
(* The steps that no listener sees. *)

LEMMA NextDocumentStep ==
  ASSUME Inv, NextDocument
  PROVE  Step
<1>1. /\ TypeInv /\ ProtocolInv /\ TopOK /\ pc = "return" /\ pc' = "read" /\ Len(stack) = 1
      /\ IsReadable /\ stack' = <<NewParser>> /\ UNCHANGED <<eof, events>>
  BY DEF Inv, ProtocolInv, NextDocument, streamVars
<1>2. Started = Len(stack) - 1
  BY <1>1 DEF TopOK, Started
<1>3. Open = <<>>
  BY <1>1, <1>2, OpenOutside
<1>4. Len(stack') = 1 /\ stack'[1] = NewParser /\ Top' = NewParser
  BY <1>1 DEF Top
<1>5. KeyOK(NewParser)
  BY DEF KeyOK, AtMember, NewParser, Begins
<1>6. Started' = 0
  BY <1>4 DEF Started, NewParser
<1>7. Open' = <<>>
  <2> DEFINE q == Open'
  <2>1. q = [k \in 1..0 |-> q[k]]
    BY <1>6, NextLevels
  <2> HIDE DEF q
  <2>2. q = <<>>
    BY <2>1, LevelsAreASequence
  <2> QED
    BY <2>2 DEF q
<1>8. TopOK'
  BY <1>1, <1>4 DEF TopOK, NewParser, Begins
<1>9. ProtocolInv'
  BY <1>4, <1>5, <1>8 DEF ProtocolInv
<1> QED
  BY <1>1, <1>3, <1>7, <1>9 DEF Step, Protocol!vars

LEMMA FinishStep ==
  ASSUME Inv, Finish
  PROVE  Step
<1>1. ProtocolInv /\ TopOK /\ pc = "return" /\ pc' = "done" /\ UNCHANGED <<stack, eof, events>>
  BY DEF Inv, ProtocolInv, Finish, streamVars
<1>2. UNCHANGED <<Top, Started>>
  BY <1>1 DEF Top, Started
<1>3. UNCHANGED Open
  BY <1>1, <1>2 DEF Open
<1>4. TopOK'
  BY <1>1, <1>2 DEF TopOK
<1> QED
  BY <1>1, <1>3, <1>4 DEF Step, ProtocolInv, Protocol!vars

LEMMA ParseDoneStep ==
  ASSUME Inv, ParseDone
  PROVE  Step
<1>1. /\ ProtocolInv /\ TopOK /\ pc = "parse" /\ pc' = "read" /\ ~Handles(Top)
      /\ UNCHANGED <<stack, eof, events>>
  BY DEF Inv, ProtocolInv, ParseDone, streamVars
<1>2. UNCHANGED <<Top, Started>>
  BY <1>1 DEF Top, Started
<1>3. UNCHANGED Open
  BY <1>1, <1>2 DEF Open
\* The text of a value is never blank, so its handler is called.
<1>4. Top.state \notin DOMAIN Begins
  <2> SUFFICES ASSUME Top.state \in DOMAIN Begins
               PROVE  Handles(Top)
    BY <1>1
  <2>1. BeginsWith(Top.to_parse, Begins[Top.state])
    BY <1>1 DEF TopOK
  <2>2. Top.to_parse \in Text /\ ~Blank(Top.to_parse)
    BY <2>1, BeginsAtOnce
  <2>3. Top.to_parse # Undefined
    BY <2>2, UndefinedIsNoString DEF Text
  <2>4. Top.state \notin {"OBJECT_END", "ARRAY_END"}
    BY DEF Begins
  <2> QED
    BY <2>2, <2>3, <2>4 DEF Handles, Completed
<1>5. TopOK'
  BY <1>1, <1>2, <1>4 DEF TopOK
<1> QED
  BY <1>1, <1>3, <1>5 DEF Step, ProtocolInv, Protocol!vars

LEMMA StillStep ==
  ASSUME Inv, UNCHANGED vars
  PROVE  Step
<1>1. ProtocolInv /\ UNCHANGED <<stack, pc, buffer, eof, events>>
  BY DEF Inv, vars
<1>2. UNCHANGED <<Top, Started, IsReadable>>
  BY <1>1 DEF Top, Started, IsReadable
<1>3. UNCHANGED Open
  BY <1>1, <1>2 DEF Open
<1> QED
  BY <1>1, <1>2, <1>3 DEF Step, ProtocolInv, TopOK, Protocol!vars

---------------------------------------------------------------------------

LEMMA InitStep == Init => ProtocolInv /\ Protocol!Init
<1> SUFFICES ASSUME Init PROVE ProtocolInv /\ Protocol!Init
  OBVIOUS
<1>1. /\ stack = <<NewParser>> /\ pc = "read" /\ eof = FALSE /\ events = <<>>
      /\ Len(stack) = 1 /\ stack[1] = NewParser /\ Top = NewParser
  BY DEF Init, StreamInit, Top
<1>2. KeyOK(NewParser)
  BY DEF KeyOK, AtMember, NewParser, Begins
<1>3. TopOK
  BY <1>1 DEF TopOK, NewParser, Begins
<1>4. Started = Len(stack) - 1
  BY <1>1 DEF Started, NewParser
<1>5. Open = <<>>
  BY <1>1, <1>4, InitType, OpenOutside
<1> QED
  BY <1>1, <1>2, <1>3, <1>5 DEF ProtocolInv, Protocol!Init

LEMMA NextStep ==
  ASSUME Inv, [Next]_vars
  PROVE  Inv' /\ [Protocol!Next]_(Protocol!vars)
<1>1. Step
  <2>1. CASE FindKey \/ FindColon \/ FindValue \/ FindEnd
    BY <2>1, FindKeyStep, FindColonStep, FindValueStep, FindEndStep
  <2>2. CASE ParseString \/ ParseToken
    BY <2>2, ParseStringStep, ParseTokenStep
  <2>3. CASE ParseObject \/ ParseArray
    BY <2>3, ParseNestedStep DEF ParseObject, ParseArray, Types
  <2>4. CASE StartDocument \/ ReadMore \/ EndOfInput
    BY <2>4, StartDocumentStep, ReadMoreStep, EndOfInputStep
  <2>5. CASE Leave \/ Return \/ NextDocument
    BY <2>5, LeaveStep, ReturnStep, NextDocumentStep
  <2>6. CASE ParseDone \/ Finish
    BY <2>6, ParseDoneStep, FinishStep
  <2>7. CASE WrongEnd \/ Exited \/ UNCHANGED vars
    BY <2>7, StillStep DEF WrongEnd, Exited
  <2> QED
    BY <2>1, <2>2, <2>3, <2>4, <2>5, <2>6, <2>7 DEF Next
<1> QED
  BY <1>1, StepAdvances DEF Inv, Step

\* JsonParse implements EventProtocol: whatever the text and however it is cut
\* into reads, and whether it is well-formed or not, the handlers of json.js
\* emit a sequence of events that the protocol allows.
THEOREM ImplementsProtocol == Spec => KeepsProtocol
<1>1. Init => Inv /\ Protocol!Init
  BY InitType, InitText, InitStep DEF Inv
<1>2. Inv /\ [Next]_vars => Inv' /\ [Protocol!Next]_(Protocol!vars)
  BY NextStep
<1> QED
  BY <1>1, <1>2, PTL DEF Spec, KeepsProtocol, Protocol!Spec

=============================================================================
