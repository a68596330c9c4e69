-------------------------- MODULE JsonParseProofs --------------------------
(***************************************************************************)
(* Type correctness of JsonParse.  TypeOK is not inductive: a string is    *)
(* appended to _cur_value only because _findValue has set it, and a parser *)
(* can be returned to only because it waits in PARSE_OBJECT or             *)
(* PARSE_ARRAY.  TypeInv adds both, SoundParser and StackInv; every action *)
(* has a lemma that it preserves TypeInv.  The second part of the module   *)
(* is about the text between the descriptor and the parsers.               *)
(***************************************************************************)
EXTENDS JsonParse, FiniteSetTheorems, SequenceTheorems, TLAPS

LEMMA NonEmpty ==
  ASSUME NEW s, Len(s) # 0
  PROVE  s # <<>>
BY EmptySeq

LEMMA PrefixOf ==
  ASSUME NEW S, NEW s \in Seq(S), NEW n \in 0..Len(s)
  PROVE  /\ SubSeq(s, 1, n) \in Seq(S)
         /\ Len(SubSeq(s, 1, n)) = n
         /\ \A i \in 1..n : SubSeq(s, 1, n)[i] = s[i]
<1>1. Len(s) \in Nat /\ n \in Int /\ 1 \in Int
  BY LenProperties
<1>2. \A i \in 1..n : s[i] \in S
  BY <1>1, ElementOfSeq
<1>3. /\ SubSeq(s, 1, n) \in Seq(S)
      /\ Len(SubSeq(s, 1, n)) = n
  BY <1>1, <1>2, SubSeqProperties
<1>4. \A i \in 1..n : SubSeq(s, 1, n)[i] = s[i]
  BY <1>1, <1>2, SubSeqProperties
<1> QED
  BY <1>3, <1>4

LEMMA SpanType ==
  ASSUME NEW s \in Text, NEW C
  PROVE  Span(s, C) \in 0..Len(s)
<1> DEFINE P == {i \in 1..Len(s) : \A j \in 1..i : s[j] \in C}
<1>1. Len(s) \in Nat
  BY DEF Text
<1>2. IsFiniteSet(1..Len(s)) /\ Cardinality(1..Len(s)) = Len(s)
  BY <1>1, FS_Interval
<1>3. IsFiniteSet(P) /\ Cardinality(P) <= Len(s)
  BY <1>2, FS_Subset
<1>4. Cardinality(P) \in Nat
  BY <1>3, FS_CardinalityType
<1> QED
  BY <1>1, <1>3, <1>4 DEF Span

LEMMA SubSeqType ==
  ASSUME NEW s \in Text, NEW i \in Nat \ {0}, NEW j \in Int, j <= Len(s)
  PROVE  /\ SubSeq(s, i, j) \in Text
         /\ Len(SubSeq(s, i, j)) = IF i <= j THEN j - i + 1 ELSE 0
<1>1. \A k \in i..j : s[k] \in Chars
  BY DEF Text
<1> QED
  BY <1>1, SubSeqProperties DEF Text

LEMMA FromType ==
  ASSUME NEW s \in Text, NEW i \in Nat \ {0}
  PROVE  From(s, i) \in Text
BY SubSeqType, LenProperties DEF From, Text

\* The pieces a text is taken apart into.
LEMMA PieceType ==
  ASSUME NEW s \in Text, NEW i \in 1..Len(s)
  PROVE  /\ Len(s) \in Nat /\ i \in Nat \ {0}
         /\ SubSeq(s, 1, i) \in Text /\ SubSeq(s, 1, i - 1) \in Text
         /\ From(s, i) \in Text /\ From(s, i + 1) \in Text
<1>1. Len(s) \in Nat
  BY LenProperties DEF Text
<1> QED
  BY <1>1, SubSeqType, FromType

LEMMA SkipType ==
  ASSUME NEW s \in Text
  PROVE  SkipWhiteSpace(s) \in Text
BY SpanType, FromType DEF SkipWhiteSpace

LEMMA SkipKeepsVisible ==
  ASSUME NEW s \in Text, ~Blank(s)
  PROVE  /\ SkipWhiteSpace(s) # <<>>
         /\ Head(SkipWhiteSpace(s)) = SkipWhiteSpace(s)[1]
         /\ Tail(SkipWhiteSpace(s)) = From(SkipWhiteSpace(s), 2)
         /\ Tail(SkipWhiteSpace(s)) \in Text
<1> DEFINE n == Span(s, {"ws"})
<1>1. s # <<>> /\ Len(s) \in Nat
  BY DEF Blank, Text
<1>2. n \in 0..Len(s)
  BY SpanType
<1>3. SkipWhiteSpace(s) # <<>>
  <2>1. CASE n = Len(s)
    BY <2>1, <1>1 DEF SkipWhiteSpace
  <2>2. CASE n # Len(s)
    <3>1. Len(SubSeq(s, n + 1, Len(s))) = Len(s) - n
      BY <2>2, <1>1, <1>2, SubSeqType
    <3>2. Len(s) - n # 0
      BY <2>2, <1>1, <1>2
    <3>3. SubSeq(s, n + 1, Len(s)) # <<>>
      BY <3>1, <3>2, NonEmpty
    <3> QED
      BY <3>3, <2>2 DEF SkipWhiteSpace, From
  <2> QED
    BY <2>1, <2>2
<1> QED
  BY <1>3, SkipType, TailIsSubSeq, HeadTailProperties DEF From, Text

---------------------------------------------------------------------------
(* Types. *)

\* A parser that keeps a string has begun to collect it.
SoundParser ==
    {p \in Parser : /\ p.state # "UNPARSED" => p.initial # Undefined
                    /\ p.state = "PARSE_STRING" => p.cur_value # Undefined}

StreamInv ==
    /\ input \in Inputs
    /\ offset \in 0..Len(input.text)
    /\ buffer \in Seq(Text)
    /\ eof \in BOOLEAN

\* Every parser but the innermost waits for the parser of a nested container.
StackInv ==
    /\ stack \in Seq(SoundParser) /\ stack # <<>>
    /\ \A i \in 1..(Len(stack) - 1) : stack[i].state \in {"PARSE_OBJECT", "PARSE_ARRAY"}

TypeInv ==
    /\ StreamInv
    /\ StackInv
    /\ pc \in {"read", "parse", "leave", "return", "done", "failed"}
    /\ error \in Maybe(Reasons)
    /\ events \in Seq(EventType)
    /\ passed \in Text

LEMMA InputText ==
  ASSUME StreamInv
  PROVE  input.text \in Text /\ Len(input.text) \in Nat
BY InputsAreTexts, LenProperties DEF StreamInv, Text

LEMMA StackTop ==
  ASSUME TypeInv
  PROVE  Len(stack) \in Nat \ {0} /\ Top \in SoundParser
BY EmptySeq, ElementOfSeq DEF TypeInv, StackInv, Top

LEMMA UpdateTop ==
  ASSUME TypeInv, NEW p \in SoundParser, Update(p)
  PROVE  /\ StackInv'
         /\ Len(stack') = Len(stack)
         /\ Top' = p
         /\ \A i \in 1..(Len(stack) - 1) : stack'[i] = stack[i]
<1>1. Len(stack) \in Nat \ {0}
  BY StackTop
<1>2. Len(stack) \in 1..Len(stack)
  BY <1>1
<1>3. stack' = [stack EXCEPT ![Len(stack)] = p]
  BY DEF Update
<1>4. /\ stack' \in Seq(SoundParser)
      /\ Len(stack') = Len(stack)
      /\ \A j \in 1..Len(stack) : stack'[j] = IF j = Len(stack) THEN p ELSE stack[j]
  BY <1>2, <1>3, ExceptSeq DEF TypeInv, StackInv
<1>5. stack' # <<>>
  BY <1>1, <1>4, NonEmpty
<1>6. StackInv'
  BY <1>1, <1>4, <1>5 DEF TypeInv, StackInv
<1> QED
  BY <1>1, <1>2, <1>4, <1>6 DEF Top

LEMMA EmitType ==
  ASSUME TypeInv, NEW e \in EventType, Emit(e)
  PROVE  events' \in Seq(EventType)
BY AppendProperties DEF TypeInv, Emit

\* A handler that only changes the innermost parser.
LEMMA SilentType ==
  ASSUME TypeInv, NEW p \in SoundParser, Update(p),
         UNCHANGED <<streamVars, pc, error, events, passed>>
  PROVE  TypeInv'
BY UpdateTop DEF TypeInv, StreamInv, streamVars

LEMMA CurKeyType ==
  ASSUME NEW p \in Parser
  PROVE  CurKey(p) \in Maybe(Key)
<1>1. CASE p.is_array
  BY <1>1 DEF CurKey, Parser, Key, Maybe
<1>2. CASE ~p.is_array /\ p.cur_key = Undefined
  BY <1>2 DEF CurKey, Maybe
<1>3. CASE ~p.is_array /\ p.cur_key # Undefined
  <2>1. p.cur_key \in Text
    BY <1>3 DEF Parser, Maybe
  <2>2. Span(p.cur_key, {"ws", "cr"}) + 2 \in Nat \ {0} /\ Len(p.cur_key) \in Nat
    BY <2>1, SpanType, LenProperties DEF Text
  <2>3. Unquote(p.cur_key) \in Text
    BY <2>1, <2>2, SubSeqType DEF Unquote
  <2> QED
    BY <1>3, <2>3 DEF CurKey, Key, Text, Maybe
<1> QED
  BY <1>1, <1>2, <1>3

LEMMA OrEmptyType ==
  ASSUME NEW s \in Maybe(Text)
  PROVE  OrEmpty(s) \in Text
BY EmptySeq DEF OrEmpty, Maybe, Text

LEMMA ConcatType ==
  ASSUME NEW s \in Text, NEW t \in Text
  PROVE  s \o t \in Text
BY ConcatProperties DEF Text

LEMMA ValueAppendType ==
  ASSUME NEW value \in Maybe(Text), NEW str \in Text
  PROVE  /\ ValueAppend(value, str) \in Maybe(Text)
         /\ value # Undefined => ValueAppend(value, str) # Undefined
<1>1. Undefined \notin Text
  BY UndefinedIsNoString DEF Text
<1>2. OrEmpty(value) \o str \in Text
  BY OrEmptyType, ConcatType
<1> QED
  BY <1>1, <1>2 DEF ValueAppend, Maybe

LEMMA IsEndState ==
  ASSUME NEW p, NEW c, IsEnd(p, c) # Undefined
  PROVE  IsEnd(p, c) \in {"NEED_VALUE", "IN_OBJECT", "OBJECT_END", "ARRAY_END"}
BY DEF IsEnd

\* What a handler starts from.
LEMMA Handled ==
  ASSUME TypeInv, NEW states, InState(states)
  PROVE  /\ pc = "parse" /\ Top \in SoundParser /\ Top.state \in states
         /\ Top.to_parse \in Text /\ ~Blank(Top.to_parse)
         /\ SkipWhiteSpace(Top.to_parse) \in Text
         /\ Len(SkipWhiteSpace(Top.to_parse)) \in Nat \ {0}
         /\ Tail(SkipWhiteSpace(Top.to_parse)) \in Text
<1>1. Top \in SoundParser
  BY StackTop
<1>2. Top.to_parse \in Text /\ ~Blank(Top.to_parse)
  BY <1>1 DEF InState, Handles, SoundParser, Parser, Maybe
<1>3. SkipWhiteSpace(Top.to_parse) \in Text /\ SkipWhiteSpace(Top.to_parse) # <<>>
  BY <1>2, SkipType, SkipKeepsVisible
<1>4. Len(SkipWhiteSpace(Top.to_parse)) \in Nat \ {0}
  BY <1>3, EmptySeq DEF Text
<1>5. Tail(SkipWhiteSpace(Top.to_parse)) \in Text
  BY <1>2, SkipKeepsVisible
<1> QED
  BY <1>1, <1>2, <1>3, <1>4, <1>5 DEF InState

LEMMA FoundValueParser ==
  ASSUME Top \in SoundParser, Top.state # "UNPARSED",
         NEW s \in Text, NEW i \in 1..Len(s), IsEnd(Top, s[i]) # Undefined
  PROVE  [Top EXCEPT !.to_parse = From(s, i + 1),
                     !.cur_value = Undefined,
                     !.cur_key = IF Top.is_array THEN @ ELSE Undefined,
                     !.array_index = IF Top.is_array THEN @ + 1 ELSE @,
                     !.state = IsEnd(Top, s[i])] \in SoundParser
<1> DEFINE q == [Top EXCEPT !.to_parse = From(s, i + 1),
                            !.cur_value = Undefined,
                            !.cur_key = IF Top.is_array THEN @ ELSE Undefined,
                            !.array_index = IF Top.is_array THEN @ + 1 ELSE @,
                            !.state = IsEnd(Top, s[i])]
<1>1. From(s, i + 1) \in Text
  BY PieceType
<1>2. IsEnd(Top, s[i]) \in {"NEED_VALUE", "IN_OBJECT", "OBJECT_END", "ARRAY_END"}
  BY IsEndState
<1>3. /\ (IF Top.is_array THEN Top.cur_key ELSE Undefined) \in Maybe(Text)
      /\ (IF Top.is_array THEN Top.array_index + 1 ELSE Top.array_index) \in Int
  BY DEF SoundParser, Parser, Maybe
<1>4. Top \in Parser /\ Top.initial # Undefined
  BY DEF SoundParser
<1>5. q \in Parser /\ q.state = IsEnd(Top, s[i]) /\ q.initial = Top.initial
  BY <1>1, <1>2, <1>3, <1>4 DEF Parser, States, Maybe
<1> QED
  BY <1>2, <1>4, <1>5 DEF SoundParser

LEMMA FoundValueType ==
  ASSUME TypeInv, Top \in SoundParser, Top.state # "UNPARSED",
         NEW s \in Text, NEW i \in 1..Len(s), IsEnd(Top, s[i]) # Undefined,
         FoundValue(Top, s, i)
  PROVE  TypeInv'
<1> DEFINE value == ValueAppend(Top.cur_value, SubSeq(s, 1, i - 1))
<1>1. Event("foundValue", CurKey(Top), value) \in EventType
  <2>1. CurKey(Top) \in Maybe(Key) /\ Top.cur_value \in Maybe(Text)
    BY CurKeyType DEF SoundParser, Parser
  <2>2. value \in Maybe(Text)
    BY <2>1, PieceType, ValueAppendType
  <2> QED
    BY <2>1, <2>2 DEF Event, EventType
<1>2. events' \in Seq(EventType)
  BY <1>1, EmitType DEF FoundValue
<1>3. StackInv'
  BY FoundValueParser, UpdateTop DEF FoundValue
<1> QED
  BY <1>2, <1>3 DEF TypeInv, StreamInv, FoundValue, streamVars

LEMMA ThrowType ==
  ASSUME TypeInv, NEW reason \in Reasons,
         Throw(reason)
  PROVE  TypeInv'
BY DEF TypeInv, StreamInv, StackInv, Throw, streamVars, Reasons, Maybe

LEMMA FindKeyType ==
  ASSUME TypeInv, FindKey
  PROVE  TypeInv'
<1> DEFINE inObject == Top.state = "IN_OBJECT"
           s == IF inObject THEN SkipWhiteSpace(Top.to_parse) ELSE Top.to_parse
           key == OrEmpty(Top.cur_key)
<1>1. /\ Top \in SoundParser /\ s \in Text /\ key \in Text
      /\ Top.state \in {"IN_OBJECT", "HAVE_KEY"}
  BY Handled, OrEmptyType DEF FindKey, SoundParser, Parser
<1>2. \E p \in SoundParser : Update(p)
  <2>1. ASSUME NEW i \in Quotes(s),
               Update([Top EXCEPT !.cur_key = key \o SubSeq(s, 1, i),
                                  !.to_parse = From(s, i + 1),
                                  !.state = "NEED_COLON"])
        PROVE  \E p \in SoundParser : Update(p)
    <3>1. i \in 1..Len(s)
      BY DEF Quotes
    <3>2. key \o SubSeq(s, 1, i) \in Text /\ From(s, i + 1) \in Text
      BY <1>1, <3>1, PieceType, ConcatType
    <3> QED
      BY <1>1, <2>1, <3>2 DEF SoundParser, Parser, States, Maybe
  <2>2. ASSUME Update([Top EXCEPT !.cur_key = key \o s,
                                  !.to_parse = Undefined,
                                  !.state = IF Quotes(s) = {} THEN @ ELSE "HAVE_KEY"])
        PROVE  \E p \in SoundParser : Update(p)
    <3>1. key \o s \in Text
      BY <1>1, ConcatType
    <3> QED
      BY <1>1, <2>2, <3>1 DEF SoundParser, Parser, States, Maybe
  <2> QED
    BY <2>1, <2>2 DEF FindKey
<1>3. UNCHANGED <<streamVars, pc, error, events, passed>>
  BY DEF FindKey
<1> QED
  BY <1>2, <1>3, SilentType

LEMMA FindColonType ==
  ASSUME TypeInv, FindColon
  PROVE  TypeInv'
<1> DEFINE s == SkipWhiteSpace(Top.to_parse)
           q == [Top EXCEPT !.to_parse = Tail(s), !.state = "NEED_VALUE"]
<1>1. Top \in SoundParser /\ Top.state = "NEED_COLON" /\ Tail(s) \in Text
  <2>1. InState({"NEED_COLON"})
    BY DEF FindColon
  <2> QED
    BY <2>1, Handled
<1>2. CASE /\ Emit(Event("foundKey", CurKey(Top), Undefined))
           /\ Update(q)
           /\ UNCHANGED <<streamVars, pc, error, passed>>
  <2>1. Event("foundKey", CurKey(Top), Undefined) \in EventType
    BY <1>1, CurKeyType DEF SoundParser, Event, EventType, Maybe
  <2>2. q \in SoundParser
    BY <1>1 DEF SoundParser, Parser, States, Maybe
  <2> QED
    BY <1>2, <2>1, <2>2, EmitType, UpdateTop DEF TypeInv, StreamInv, streamVars
<1>3. CASE Throw("key") \/ Throw("colon")
  BY <1>3, ThrowType DEF Reasons
<1> QED
  BY <1>2, <1>3 DEF FindColon

LEMMA FindValueType ==
  ASSUME TypeInv, FindValue
  PROVE  TypeInv'
<1> DEFINE s == SkipWhiteSpace(Top.to_parse)
<1>1. /\ Top \in SoundParser /\ Top.state = "NEED_VALUE"
      /\ s \in Text /\ Tail(s) \in Text
      /\ OrEmpty(Top.cur_value) \in Text /\ OrEmpty(Top.cur_value) # Undefined
  <2>1. InState({"NEED_VALUE"})
    BY DEF FindValue
  <2>2. Top \in SoundParser /\ Top.state = "NEED_VALUE" /\ s \in Text /\ Tail(s) \in Text
    BY <2>1, Handled
  <2> QED
    BY <2>2, OrEmptyType, UndefinedIsNoString DEF SoundParser, Parser, Text
<1>2. CASE Throw("value")
  BY <1>2, ThrowType DEF Reasons
<1>3. CASE ~Throw("value")
  <2>1. UNCHANGED <<streamVars, pc, error, events, passed>>
    BY <1>3 DEF FindValue
  <2>2. CASE Update([Top EXCEPT !.to_parse = Tail(s), !.cur_value = <<"quote">>,
                                !.state = "PARSE_STRING"])
    <3>1. <<"quote">> \in Text /\ <<"quote">> # Undefined
      <4>1. <<"quote">> \in Seq(Chars)
        BY DEF Chars
      <4> QED
        BY <4>1, UndefinedIsNoString DEF Text
    <3>2. [Top EXCEPT !.to_parse = Tail(s), !.cur_value = <<"quote">>,
                      !.state = "PARSE_STRING"] \in SoundParser
      BY <1>1, <3>1 DEF SoundParser, Parser, States, Maybe
    <3> QED
      BY <2>1, <2>2, <3>2, SilentType
  <2>3. CASE /\ Head(s) \in DOMAIN ValueState
             /\ Update([Top EXCEPT !.to_parse = s, !.cur_value = OrEmpty(@),
                                   !.state = ValueState[Head(s)]])
    <3>1. ValueState[Head(s)] \in States \ {"UNPARSED", "PARSE_STRING"}
      BY <2>3 DEF ValueState, States
    <3>2. [Top EXCEPT !.to_parse = s, !.cur_value = OrEmpty(@),
                      !.state = ValueState[Head(s)]] \in SoundParser
      BY <1>1, <3>1 DEF SoundParser, Parser, Maybe
    <3> QED
      BY <2>1, <2>3, <3>2, SilentType
  <2>4. CASE Update([Top EXCEPT !.to_parse = Tail(s), !.cur_value = OrEmpty(@),
                                !.state = "ARRAY_END"])
    <3>1. [Top EXCEPT !.to_parse = Tail(s), !.cur_value = OrEmpty(@),
                      !.state = "ARRAY_END"] \in SoundParser
      BY <1>1 DEF SoundParser, Parser, States, Maybe
    <3> QED
      BY <2>1, <2>4, <3>1, SilentType
  <2> QED
    BY <1>3, <2>2, <2>3, <2>4 DEF FindValue
<1> QED
  BY <1>2, <1>3

LEMMA ParseStringType ==
  ASSUME TypeInv, ParseString
  PROVE  TypeInv'
<1> DEFINE s == SkipWhiteSpace(Top.to_parse)
<1>1. /\ Top \in SoundParser /\ Top.state = "PARSE_STRING" /\ s \in Text
      /\ Top.cur_value \in Text
  <2>1. InState({"PARSE_STRING"})
    BY DEF ParseString
  <2>2. Top \in SoundParser /\ Top.state = "PARSE_STRING" /\ s \in Text
    BY <2>1, Handled
  <2> QED
    BY <2>2 DEF SoundParser, Parser, Maybe
<1>2. UNCHANGED <<streamVars, pc, error, events, passed>>
  BY DEF ParseString
<1>3. ASSUME NEW i \in Quotes(s),
             Update([Top EXCEPT !.to_parse = From(s, i + 1),
                                !.cur_value = ValueAppend(@, SubSeq(s, 1, i)),
                                !.state = "NEED_END"])
      PROVE  TypeInv'
  <2>1. i \in 1..Len(s)
    BY DEF Quotes
  <2>2. From(s, i + 1) \in Text /\ SubSeq(s, 1, i) \in Text
    BY <1>1, <2>1, PieceType
  <2>3. ValueAppend(Top.cur_value, SubSeq(s, 1, i)) \in Maybe(Text)
    BY <1>1, <2>2, ValueAppendType DEF Maybe
  <2>4. [Top EXCEPT !.to_parse = From(s, i + 1),
                    !.cur_value = ValueAppend(@, SubSeq(s, 1, i)),
                    !.state = "NEED_END"] \in SoundParser
    BY <1>1, <2>2, <2>3 DEF SoundParser, Parser, States, Maybe
  <2> QED
    BY <1>2, <1>3, <2>4, SilentType
<1>4. ASSUME Update([Top EXCEPT !.to_parse = Undefined, !.cur_value = @ \o s])
      PROVE  TypeInv'
  <2>1. Top.cur_value \o s \in Text /\ Top.cur_value \o s # Undefined
    BY <1>1, ConcatType, UndefinedIsNoString DEF Text
  <2>2. [Top EXCEPT !.to_parse = Undefined, !.cur_value = @ \o s] \in SoundParser
    BY <1>1, <2>1 DEF SoundParser, Parser, Maybe
  <2> QED
    BY <1>2, <1>4, <2>2, SilentType
<1> QED
  BY <1>3, <1>4 DEF ParseString

LEMMA ParseTokenType ==
  ASSUME TypeInv, ParseToken
  PROVE  TypeInv'
<1> DEFINE s == SkipWhiteSpace(Top.to_parse)
           i == Span(s, TokenChars[Top.state]) + 1
<1>1. /\ Top \in SoundParser /\ Top.state \in DOMAIN TokenChars /\ s \in Text
  <2>1. InState(DOMAIN TokenChars)
    BY DEF ParseToken
  <2> QED
    BY <2>1, Handled
<1>2. Top.state \notin {"UNPARSED", "PARSE_STRING"}
  BY <1>1 DEF TokenChars
<1>3. i \in Nat \ {0} /\ Len(s) \in Nat
  BY <1>1, SpanType, LenProperties DEF Text
<1>4. CASE /\ Update([Top EXCEPT !.to_parse = s])
           /\ UNCHANGED <<streamVars, pc, error, events, passed>>
  <2>1. [Top EXCEPT !.to_parse = s] \in SoundParser
    BY <1>1 DEF SoundParser, Parser, Maybe
  <2> QED
    BY <1>4, <2>1, SilentType
<1>5. CASE /\ i <= Len(s)
           /\ Update([Top EXCEPT !.to_parse = From(s, i),
                                 !.cur_value = ValueAppend(@, SubSeq(s, 1, i - 1)),
                                 !.state = "NEED_END"])
           /\ UNCHANGED <<streamVars, pc, error, events, passed>>
  <2>1. i \in 1..Len(s)
    BY <1>3, <1>5
  <2>2. From(s, i) \in Text /\ SubSeq(s, 1, i - 1) \in Text
    BY <1>1, <2>1, PieceType
  <2>3. ValueAppend(Top.cur_value, SubSeq(s, 1, i - 1)) \in Maybe(Text)
    BY <1>1, <2>2, ValueAppendType DEF SoundParser, Parser
  <2> HIDE DEF s, i
  <2>4. [Top EXCEPT !.to_parse = From(s, i),
                    !.cur_value = ValueAppend(@, SubSeq(s, 1, i - 1)),
                    !.state = "NEED_END"] \in SoundParser
    BY <1>1, <1>2, <2>2, <2>3 DEF SoundParser, Parser, States, Maybe
  <2> QED
    BY <1>5, <2>4, SilentType
<1>6. CASE i <= Len(s) /\ IsEnd(Top, s[i]) # Undefined /\ FoundValue(Top, s, i)
  <2>1. i \in 1..Len(s)
    BY <1>3, <1>6
  <2> HIDE DEF i
  <2> QED
    BY <1>1, <1>2, <1>6, <2>1, FoundValueType
<1>7. CASE Throw("token")
  BY <1>7, ThrowType DEF Reasons
<1> QED
  BY <1>4, <1>5, <1>6, <1>7 DEF ParseToken

LEMMA FindEndType ==
  ASSUME TypeInv, FindEnd
  PROVE  TypeInv'
<1> DEFINE s == SkipWhiteSpace(Top.to_parse)
<1>1. Top \in SoundParser /\ Top.state = "NEED_END" /\ s \in Text /\ 1 \in 1..Len(s)
  <2>1. InState({"NEED_END"})
    BY DEF FindEnd
  <2> QED
    BY <2>1, Handled
<1>2. CASE IsEnd(Top, s[1]) # Undefined /\ FoundValue(Top, s, 1)
  BY <1>1, <1>2, FoundValueType
<1>3. CASE Throw("end")
  BY <1>3, ThrowType DEF Reasons
<1> QED
  BY <1>2, <1>3 DEF FindEnd

LEMMA NewParserType == NewParser \in SoundParser
BY DEF NewParser, SoundParser, Parser, States, Maybe

LEMMA ParseNestedType ==
  ASSUME TypeInv, NEW state \in {"PARSE_OBJECT", "PARSE_ARRAY"},
         NEW type \in Types, ParseNested(state, type)
  PROVE  TypeInv'
<1> DEFINE s == SkipWhiteSpace(Top.to_parse)
           p == [Top EXCEPT !.to_parse = Undefined]
           updated == [stack EXCEPT ![Len(stack)].to_parse = Undefined]
<1>1. Top \in SoundParser /\ Top.state = state /\ s \in Text
  <2>1. InState({state})
    BY DEF ParseNested
  <2> QED
    BY <2>1, Handled
<1>2. buffer' \in Seq(Text) /\ UNCHANGED <<input, offset, eof>>
  <2>1. Unshift(s)
    BY DEF ParseNested
  <2> QED
    BY <1>1, <2>1, AppendProperties DEF Unshift, TypeInv, StreamInv
<1>3. events' \in Seq(EventType)
  <2>1. Event(StartEvent[type], CurKey(Top), Undefined) \in EventType
    BY <1>1, CurKeyType DEF SoundParser, Event, EventType, StartEvent, Types, Maybe
  <2> QED
    BY <2>1, EmitType DEF ParseNested
<1>4. StackInv'
  <2>1. p \in SoundParser /\ p.state = state
    BY <1>1 DEF SoundParser, Parser, Maybe
  <2>2. Len(stack) \in 1..Len(stack) /\ Len(stack) \in Nat
    BY StackTop
  <2>3. updated = [stack EXCEPT ![Len(stack)] = p]
    BY DEF Top
  <2>4. stack' = Append(updated, NewParser)
    BY DEF ParseNested
  <2> HIDE DEF updated, p
  <2>5. /\ updated \in Seq(SoundParser)
        /\ Len(updated) = Len(stack)
        /\ \A i \in 1..Len(stack) : updated[i] = IF i = Len(stack) THEN p ELSE stack[i]
    BY <2>1, <2>2, <2>3, ExceptSeq DEF TypeInv, StackInv
  <2>6. /\ stack' \in Seq(SoundParser) /\ stack' # <<>>
        /\ Len(stack') = Len(stack) + 1
        /\ \A i \in 1..Len(stack) : stack'[i] = IF i = Len(stack) THEN p ELSE stack[i]
    BY <2>2, <2>4, <2>5, NewParserType, AppendProperties
  <2> QED
    BY <2>1, <2>2, <2>6 DEF TypeInv, StackInv
<1> QED
  BY <1>2, <1>3, <1>4 DEF ParseNested, TypeInv, StreamInv

LEMMA ReadType ==
  ASSUME TypeInv, NEW result \in ReadResults, Read(result)
  PROVE  /\ StreamInv'
         /\ result.str # Undefined => result.str \in Text
<1>1. input.text \in Text /\ Len(input.text) \in Nat
  BY InputText DEF TypeInv
<1>2. /\ input \in Inputs /\ offset \in 0..Len(input.text)
      /\ buffer \in Seq(Text) /\ eof \in BOOLEAN
  BY DEF TypeInv, StreamInv
<1>3. UNCHANGED input /\ buffer' = result.buffer /\ offset' = result.offset /\ eof' = result.eof
  BY DEF Read
<1>4. CASE Buffered
  <2>1. result = [str |-> Head(buffer), buffer |-> Tail(buffer), offset |-> offset, eof |-> eof]
    BY <1>4 DEF ReadResults, GivenBack, Outcome
  <2>2. Head(buffer) \in Text /\ Tail(buffer) \in Seq(Text)
    BY <1>2, <1>4, HeadTailProperties DEF Buffered
  <2> QED
    BY <1>2, <1>3, <2>1, <2>2 DEF StreamInv
<1>5. CASE ~Buffered /\ offset = Len(input.text)
  <2>1. result = [str |-> Undefined, buffer |-> buffer, offset |-> offset, eof |-> TRUE]
    BY <1>5 DEF ReadResults, AtEnd, Outcome
  <2> QED
    BY <1>2, <1>3, <2>1 DEF StreamInv
<1>6. CASE ~Buffered /\ offset # Len(input.text)
  <2>1. PICK end \in ReadEnds :
          result = [str |-> SubSeq(input.text, offset + 1, end),
                    buffer |-> buffer, offset |-> end, eof |-> eof]
    BY <1>6 DEF ReadResults, Delivered, Outcome
  <2>2. end \in (offset + 1)..Len(input.text)
    BY DEF ReadEnds
  <2>3. SubSeq(input.text, offset + 1, end) \in Text
    BY <1>1, <1>2, <2>2, SubSeqType
  <2> QED
    BY <1>1, <1>2, <1>3, <2>1, <2>2, <2>3 DEF StreamInv
<1> QED
  BY <1>4, <1>5, <1>6

LEMMA StartDocumentType ==
  ASSUME TypeInv, StartDocument
  PROVE  TypeInv'
<1>1. PICK result \in ReadResults :
        /\ result.str # Undefined
        /\ Read(result)
        /\ LET i    == Opening(result.str)
               type == IF result.str[i] = "{" THEN "object" ELSE "array"
           IN \/ /\ i <= Len(result.str)
                 /\ Emit(Event(StartEvent[type], CurKey(Top), Undefined))
                 /\ passed' = passed \o SubSeq(result.str, 1, i - 1)
                 /\ Update([Top EXCEPT
                              !.state = IF type = "object" THEN "IN_OBJECT" ELSE "NEED_VALUE",
                              !.initial = type,
                              !.is_array = type = "array",
                              !.array_index = IF type = "array" THEN 0 ELSE @,
                              !.to_parse = From(result.str, i + 1)])
                 /\ pc' = "parse"
              \/ /\ i > Len(result.str)
                 /\ passed' = passed \o result.str
                 /\ UNCHANGED <<stack, pc, events>>
  BY DEF StartDocument
<1> DEFINE str  == result.str
           i    == Opening(str)
           type == IF str[i] = "{" THEN "object" ELSE "array"
           q    == [Top EXCEPT
                      !.state = IF type = "object" THEN "IN_OBJECT" ELSE "NEED_VALUE",
                      !.initial = type,
                      !.is_array = type = "array",
                      !.array_index = IF type = "array" THEN 0 ELSE @,
                      !.to_parse = From(str, i + 1)]
<1>2. StreamInv' /\ str \in Text
  BY <1>1, ReadType
<1>3. i \in Nat \ {0} /\ Len(str) \in Nat
  <2>1. Len(str) \in Nat
    BY <1>2, LenProperties DEF Text
  <2> DEFINE n == Span(str, Chars \ {"{", "["})
  <2>2. n \in 0..Len(str)
    BY <1>2, SpanType
  <2>3. i = n + 1
    BY DEF Opening
  <2> HIDE DEF n, i
  <2> QED
    BY <2>1, <2>2, <2>3
<1>4. Top \in SoundParser /\ type \in Types /\ UNCHANGED error /\ passed \in Text
  BY StackTop DEF StartDocument, TypeInv, Types
<1>5. CASE /\ i <= Len(str)
           /\ Emit(Event(StartEvent[type], CurKey(Top), Undefined))
           /\ passed' = passed \o SubSeq(str, 1, i - 1)
           /\ Update(q)
           /\ pc' = "parse"
  <2> HIDE DEF i, type
  <2>1. i \in 1..Len(str)
    BY <1>3, <1>5
  <2>2. From(str, i + 1) \in Text /\ SubSeq(str, 1, i - 1) \in Text
    BY <1>2, <2>1, PieceType
  <2>3. q \in Parser /\ q.initial = type /\ q.state # "PARSE_STRING"
    <3>1. /\ (IF type = "object" THEN "IN_OBJECT" ELSE "NEED_VALUE") \in States \ {"PARSE_STRING"}
          /\ (IF type = "array" THEN 0 ELSE Top.array_index) \in Int
      BY <1>4 DEF SoundParser, Parser, States
    <3>2. Top \in Parser
      BY <1>4 DEF SoundParser
    <3> QED
      BY <1>4, <2>2, <3>1, <3>2 DEF Parser, Types, Maybe
  <2>4. q.initial # Undefined
    BY <1>4, <2>3, UndefinedIsNoKey DEF Types
  <2>5. q \in SoundParser
    BY <2>3, <2>4 DEF SoundParser
  <2>6. Event(StartEvent[type], CurKey(Top), Undefined) \in EventType
    BY <1>4, CurKeyType DEF SoundParser, Event, EventType, StartEvent, Types, Maybe
  <2> QED
    BY <1>2, <1>4, <1>5, <2>2, <2>5, <2>6, UpdateTop, EmitType, ConcatType DEF TypeInv
<1>6. CASE /\ passed' = passed \o str
           /\ UNCHANGED <<stack, pc, events>>
  BY <1>2, <1>4, <1>6, ConcatType DEF TypeInv, StackInv
<1> QED
  BY <1>1, <1>5, <1>6

LEMMA ReadMoreType ==
  ASSUME TypeInv, ReadMore
  PROVE  TypeInv'
<1>1. PICK result \in ReadResults :
        /\ result.str # Undefined
        /\ Read(result)
        /\ Update([Top EXCEPT !.to_parse = result.str])
  BY DEF ReadMore
<1>2. StreamInv' /\ result.str \in Text
  BY <1>1, ReadType
<1>3. [Top EXCEPT !.to_parse = result.str] \in SoundParser
  BY <1>2, StackTop DEF SoundParser, Parser, Maybe
<1> QED
  BY <1>1, <1>2, <1>3, UpdateTop DEF ReadMore, TypeInv

LEMMA EndOfInputType ==
  ASSUME TypeInv, EndOfInput
  PROVE  TypeInv'
BY ReadType DEF EndOfInput, TypeInv, StackInv

LEMMA EndedType ==
  ASSUME NEW p \in SoundParser, NEW type
  PROVE  Ended(p, type) \in SoundParser
BY DEF Ended, SoundParser, Parser

LEMMA LeaveType ==
  ASSUME TypeInv, Leave
  PROVE  TypeInv'
<1> DEFINE rest == Top.to_parse # Undefined /\ ~Blank(Top.to_parse)
           left == IF rest THEN [Top EXCEPT !.to_parse = Undefined] ELSE Top
           p    == Ended(left, Top.initial)
<1>1. Top \in SoundParser
  BY StackTop
<1>2. CASE /\ Top.state # "UNPARSED"
           /\ IF rest THEN Unshift(Top.to_parse) ELSE UNCHANGED streamVars
           /\ Emit(Event(EndEvent[Top.initial], CurKey(p), Undefined))
           /\ Update(p)
           /\ pc' = "return"
           /\ UNCHANGED <<error, passed>>
  <2>1. left \in SoundParser
    BY <1>1 DEF SoundParser, Parser, Maybe
  <2>2. p \in SoundParser
    BY <2>1, EndedType
  <2>3. Top.initial \in Types
    BY <1>1, <1>2 DEF SoundParser, Parser, Maybe
  <2>4. Event(EndEvent[Top.initial], CurKey(p), Undefined) \in EventType
    BY <2>2, <2>3, CurKeyType DEF SoundParser, Event, EventType, EndEvent, Types, Maybe
  <2>5. StreamInv'
    <3>1. CASE rest /\ Unshift(Top.to_parse)
      <4>1. Top.to_parse \in Text
        BY <1>1, <3>1 DEF SoundParser, Parser, Maybe
      <4> QED
        BY <3>1, <4>1, AppendProperties DEF Unshift, TypeInv, StreamInv
    <3>2. CASE UNCHANGED streamVars
      BY <3>2 DEF streamVars, TypeInv, StreamInv
    <3> QED
      BY <1>2, <3>1, <3>2
  <2> HIDE DEF p
  <2> QED
    BY <1>2, <2>2, <2>4, <2>5, UpdateTop, EmitType DEF TypeInv
<1>3. CASE /\ pc' = "return"
           /\ UNCHANGED <<streamVars, stack, error, events, passed>>
  BY <1>3 DEF TypeInv, StreamInv, StackInv, streamVars
<1>4. CASE Throw("unfinished")
  BY <1>4, ThrowType DEF Reasons
<1> QED
  BY <1>2, <1>3, <1>4 DEF Leave

LEMMA ReturnType ==
  ASSUME TypeInv, Return
  PROVE  TypeInv'
<1> DEFINE outer == stack[Len(stack) - 1]
           type  == IF outer.state = "PARSE_ARRAY" THEN "array" ELSE "object"
           q     == [outer EXCEPT !.cur_value = Undefined, !.state = "NEED_END"]
           p     == Ended(q, type)
<1>1. Len(stack) \in Nat /\ Len(stack) > 1
  BY StackTop DEF Return
<1>2. outer \in SoundParser /\ outer.state \in {"PARSE_OBJECT", "PARSE_ARRAY"}
  BY <1>1, ElementOfSeq DEF TypeInv, StackInv
<1>3. p \in SoundParser
  <2>1. q \in SoundParser
    BY <1>2 DEF SoundParser, Parser, States, Maybe
  <2> QED
    BY <2>1, EndedType
<1>4. events' \in Seq(EventType)
  <2>1. Event(EndEvent[type], CurKey(p), Undefined) \in EventType
    BY <1>3, CurKeyType DEF SoundParser, Event, EventType, EndEvent, Types, Maybe
  <2> QED
    BY <2>1, EmitType DEF Return
<1>5. StackInv'
  <2> DEFINE below == SubSeq(stack, 1, Len(stack) - 2)
  <2>1. stack \in Seq(SoundParser) /\ Len(stack) - 2 \in 0..Len(stack)
    BY <1>1 DEF TypeInv, StackInv
  <2>2. /\ below \in Seq(SoundParser)
        /\ Len(below) = Len(stack) - 2
        /\ \A i \in 1..(Len(stack) - 2) : below[i] = stack[i]
    BY <2>1, PrefixOf
  <2>3. stack' = Append(below, p)
    BY DEF Return
  <2> HIDE DEF below, p
  <2>4. /\ stack' \in Seq(SoundParser) /\ stack' # <<>>
        /\ Len(stack') = Len(stack) - 1
        /\ \A i \in 1..(Len(stack) - 2) : stack'[i] = stack[i]
    BY <1>1, <1>3, <2>2, <2>3, AppendProperties
  <2> QED
    BY <1>1, <2>4 DEF TypeInv, StackInv
<1> QED
  BY <1>4, <1>5 DEF Return, TypeInv, StreamInv, streamVars

LEMMA InitType == Init => TypeInv
<1> SUFFICES ASSUME Init PROVE TypeInv
  OBVIOUS
<1>1. StreamInv
  <2>1. input \in Inputs /\ offset = 0 /\ buffer = <<>> /\ eof = FALSE
    BY DEF Init, StreamInit
  <2>2. Len(input.text) \in Nat
    BY <2>1, InputsAreTexts, LenProperties
  <2>3. offset \in 0..Len(input.text)
    BY <2>1, <2>2
  <2>4. buffer \in Seq(Text)
    BY <2>1, EmptySeq
  <2> QED
    BY <2>1, <2>3, <2>4 DEF StreamInv
<1>2. StackInv
  BY NewParserType DEF Init, StackInv
<1> QED
  BY <1>1, <1>2, EmptySeq DEF Init, TypeInv, Text, Maybe

LEMMA NextType ==
  ASSUME TypeInv, [Next]_vars
  PROVE  TypeInv'
<1>1. CASE UNCHANGED vars
  BY <1>1 DEF vars, TypeInv, StreamInv, StackInv
<1>2. CASE FindKey \/ FindColon \/ FindValue \/ FindEnd
  BY <1>2, FindKeyType, FindColonType, FindValueType, FindEndType
<1>3. CASE ParseString \/ ParseToken
  BY <1>3, ParseStringType, ParseTokenType
<1>4. CASE ParseObject \/ ParseArray
  BY <1>4, ParseNestedType DEF ParseObject, ParseArray, Types
<1>5. CASE StartDocument \/ ReadMore \/ EndOfInput
  BY <1>5, StartDocumentType, ReadMoreType, EndOfInputType
<1>6. CASE Leave \/ Return
  BY <1>6, LeaveType, ReturnType
<1>7. CASE WrongEnd \/ Exited
  BY <1>1, <1>7 DEF WrongEnd, Exited
<1>8. CASE ParseDone \/ Finish
  BY <1>8 DEF ParseDone, Finish, TypeInv, StreamInv, StackInv, streamVars
<1>9. CASE NextDocument
  <2>1. StackInv'
    BY <1>9, NewParserType DEF NextDocument, StackInv
  <2> QED
    BY <1>9, <2>1 DEF NextDocument, TypeInv, StreamInv, streamVars
<1> QED
  BY <1>1, <1>2, <1>3, <1>4, <1>5, <1>6, <1>7, <1>8, <1>9 DEF Next

\* The typed invariant is inductive.
THEOREM TypeInvariant == Spec => []TypeInv
<1>1. Init => TypeInv
  BY InitType
<1>2. TypeInv /\ [Next]_vars => TypeInv'
  BY NextType
<1> QED
  BY <1>1, <1>2, PTL DEF Spec

LEMMA TypeInvTypeOK == TypeInv => TypeOK
<1> SUFFICES ASSUME TypeInv PROVE TypeOK
  OBVIOUS
<1>1. \A i \in 1..Len(stack) : stack[i] \in SoundParser
  BY ElementOfSeq DEF TypeInv, StackInv
<1>2. stack \in Seq(Parser)
  BY SeqMonotonic DEF TypeInv, StackInv, SoundParser
<1> QED
  BY <1>1, <1>2, InputText DEF TypeInv, StreamInv, StackInv, SoundParser, TypeOK

\* The variables always have their types, for every text, every way to cut it
\* into reads, and with and without options that repeat parse().
THEOREM TypeCorrect == Spec => []TypeOK
BY TypeInvariant, TypeInvTypeOK, PTL

---------------------------------------------------------------------------
(***************************************************************************)
(* What JsonParse does to the text between the descriptor and the parsers. *)
(* Every handler of _parse() leaves a suffix of the text it was called     *)
(* with (Consumes); the steps that move text between parsers and stream    *)
(* leave a suffix of what was unread, or of what they read.  A suffix of   *)
(* the last part of the input that was read is again its last part, and    *)
(* begins no earlier, which gives UnreadIsLatest and NeverRereads.  Both   *)
(* rest on SoleHolder, and all of it on TextInv, which is inductive        *)
(* together with TypeInv.                                                  *)
(***************************************************************************)

\* t is what is left of s when a part at its head is taken away.

Suffix(t, s) == \E k \in 1..(Len(s) + 1) : t = From(s, k)

LEMMA FromLen ==
  ASSUME NEW s \in Text, NEW k \in 1..(Len(s) + 1)
  PROVE  From(s, k) \in Text /\ Len(From(s, k)) = Len(s) - k + 1
<1>1. Len(s) \in Nat
  BY LenProperties DEF Text
<1> QED
  BY <1>1, SubSeqType DEF From

LEMMA SuffixItself ==
  ASSUME NEW s \in Text
  PROVE  Suffix(s, s)
<1>1. Len(s) \in Nat
  BY LenProperties DEF Text
<1>2. From(s, 1) = s
  BY SubSeqFull DEF From, Text
<1> QED
  BY <1>1, <1>2 DEF Suffix

LEMMA SuffixEmpty ==
  ASSUME NEW s \in Text
  PROVE  Suffix(<<>>, s)
<1>1. Len(s) \in Nat
  BY LenProperties DEF Text
<1>2. From(s, Len(s) + 1) = <<>>
  BY <1>1, SubSeqEmpty DEF From
<1> QED
  BY <1>1, <1>2 DEF Suffix

LEMMA SuffixPiece ==
  ASSUME NEW s \in Text, NEW i \in 1..Len(s)
  PROVE  Suffix(From(s, i), s) /\ Suffix(From(s, i + 1), s)
<1>1. Len(s) \in Nat
  BY LenProperties DEF Text
<1> QED
  BY <1>1 DEF Suffix

LEMMA SuffixSkip ==
  ASSUME NEW s \in Text
  PROVE  Suffix(SkipWhiteSpace(s), s)
<1> DEFINE n == Span(s, {"ws"})
<1>1. n \in 0..Len(s) /\ Len(s) \in Nat
  <2>1. Len(s) \in Nat
    BY LenProperties DEF Text
  <2> QED
    BY <2>1, SpanType
<1>2. CASE n = Len(s)
  BY <1>2, SuffixItself DEF SkipWhiteSpace
<1>3. CASE n # Len(s)
  <2>1. n + 1 \in 1..(Len(s) + 1)
    BY <1>1
  <2>2. SkipWhiteSpace(s) = From(s, n + 1)
    BY <1>3 DEF SkipWhiteSpace
  <2> QED
    BY <2>1, <2>2 DEF Suffix
<1> QED
  BY <1>2, <1>3

LEMMA FromFrom ==
  ASSUME NEW s \in Text, NEW j \in 1..(Len(s) + 1), NEW k \in 1..(Len(From(s, j)) + 1)
  PROVE  From(From(s, j), k) = From(s, j + k - 1)
<1>1. Len(s) \in Nat
  BY LenProperties DEF Text
<1>2. From(s, j) \in Text /\ Len(From(s, j)) = Len(s) - j + 1
  BY FromLen
<1>3. CASE k = Len(s) - j + 2
  BY <1>1, <1>2, <1>3, SubSeqEmpty DEF From
<1>4. CASE k # Len(s) - j + 2
  <2>1. /\ j \in 1..Len(s) /\ Len(s) \in 1..Len(s)
        /\ k \in 1..(Len(s) - j + 1) /\ Len(s) - j + 1 \in 1..(Len(s) - j + 1)
    BY <1>1, <1>2, <1>4
  <2>2. SubSeq(SubSeq(s, j, Len(s)), k, Len(s) - j + 1) =
          SubSeq(s, j + k - 1, j + (Len(s) - j + 1) - 1)
    BY <2>1, SubSeqOfSubSeq DEF Text
  <2>3. j + (Len(s) - j + 1) - 1 = Len(s)
    BY <1>1
  <2> QED
    BY <1>2, <2>2, <2>3 DEF From
<1> QED
  BY <1>3, <1>4

LEMMA SuffixTransitive ==
  ASSUME NEW r, NEW s, NEW t \in Text, Suffix(s, t), Suffix(r, s)
  PROVE  Suffix(r, t)
<1>1. Len(t) \in Nat
  BY LenProperties DEF Text
<1>2. PICK j \in 1..(Len(t) + 1) : s = From(t, j)
  BY DEF Suffix
<1>3. PICK k \in 1..(Len(s) + 1) : r = From(s, k)
  BY DEF Suffix
<1>4. s \in Text /\ Len(s) = Len(t) - j + 1
  BY <1>2, FromLen
<1>5. r = From(t, j + k - 1)
  BY <1>2, <1>3, FromFrom
<1>6. j + k - 1 \in 1..(Len(t) + 1)
  BY <1>1, <1>4
<1> QED
  BY <1>5, <1>6 DEF Suffix

LEMMA TailSuffix ==
  ASSUME NEW t \in Text, ~Blank(t)
  PROVE  Suffix(Tail(SkipWhiteSpace(t)), t)
<1> DEFINE s == SkipWhiteSpace(t)
<1>1. s \in Text /\ s # <<>> /\ Tail(s) = From(s, 2) /\ Suffix(s, t)
  BY SkipType, SkipKeepsVisible, SuffixSkip
<1>2. 1 \in 1..Len(s)
  BY <1>1, EmptySeq DEF Text
<1>3. Suffix(From(s, 2), s)
  BY <1>1, <1>2, SuffixPiece
<1> QED
  BY <1>1, <1>3, SuffixTransitive

---------------------------------------------------------------------------
(* What a handler does to the text: it leaves a later part of it, or none, or  *)
(* it throws.                                                                  *)

Consumes(p) ==
    /\ Update(p)
    /\ p.state # "UNPARSED"
    /\ p.to_parse = Undefined \/ Suffix(p.to_parse, Top.to_parse)
    /\ UNCHANGED <<streamVars, pc, error>>

Throws == \E reason \in Reasons \ {"unfinished"} : Throw(reason)

LEMMA FoundValueConsumes ==
  ASSUME Top \in SoundParser, NEW s \in Text, NEW t \in Text, Suffix(s, t), t = Top.to_parse,
         NEW i \in 1..Len(s), IsEnd(Top, s[i]) # Undefined, FoundValue(Top, s, i)
  PROVE  \E p : Consumes(p)
<1> DEFINE q == [Top EXCEPT !.to_parse = From(s, i + 1),
                            !.cur_value = Undefined,
                            !.cur_key = IF Top.is_array THEN @ ELSE Undefined,
                            !.array_index = IF Top.is_array THEN @ + 1 ELSE @,
                            !.state = IsEnd(Top, s[i])]
<1>1. q.to_parse = From(s, i + 1) /\ q.state # "UNPARSED"
  BY IsEndState DEF SoundParser, Parser
<1>2. Suffix(From(s, i + 1), t)
  BY SuffixPiece, SuffixTransitive
<1>3. Update(q) /\ UNCHANGED <<streamVars, pc, error>>
  BY DEF FoundValue
<1> HIDE DEF q
<1> QED
  BY <1>1, <1>2, <1>3 DEF Consumes

LEMMA FindKeyConsumes ==
  ASSUME TypeInv, FindKey
  PROVE  \E p : Consumes(p)
<1> DEFINE inObject == Top.state = "IN_OBJECT"
           t == Top.to_parse
           s == IF inObject THEN SkipWhiteSpace(t) ELSE t
           key == OrEmpty(Top.cur_key)
<1>1. Top \in SoundParser /\ Top.state \in {"IN_OBJECT", "HAVE_KEY"} /\ t \in Text
  BY Handled DEF FindKey
<1>2. s \in Text /\ Suffix(s, t)
  BY <1>1, SkipType, SuffixSkip, SuffixItself
<1>3. UNCHANGED <<streamVars, pc, error>>
  BY DEF FindKey
<1>4. ASSUME NEW i \in Quotes(s),
             Update([Top EXCEPT !.cur_key = key \o SubSeq(s, 1, i),
                                !.to_parse = From(s, i + 1),
                                !.state = "NEED_COLON"])
      PROVE  \E p : Consumes(p)
  <2> DEFINE q == [Top EXCEPT !.cur_key = key \o SubSeq(s, 1, i),
                              !.to_parse = From(s, i + 1),
                              !.state = "NEED_COLON"]
  <2>1. q.to_parse = From(s, i + 1) /\ q.state = "NEED_COLON"
    BY <1>1 DEF SoundParser, Parser
  <2>2. i \in 1..Len(s)
    BY DEF Quotes
  <2>3. Suffix(From(s, i + 1), t)
    BY <1>1, <1>2, <2>2, SuffixPiece, SuffixTransitive
  <2>4. Update(q)
    BY <1>4
  <2> HIDE DEF q, s
  <2>5. Consumes(q)
    BY <1>3, <2>1, <2>3, <2>4 DEF Consumes
  <2> QED
    BY <2>5
<1>5. ASSUME Update([Top EXCEPT !.cur_key = key \o s,
                                !.to_parse = Undefined,
                                !.state = IF Quotes(s) = {} THEN @ ELSE "HAVE_KEY"])
      PROVE  \E p : Consumes(p)
  <2> DEFINE q == [Top EXCEPT !.cur_key = key \o s,
                              !.to_parse = Undefined,
                              !.state = IF Quotes(s) = {} THEN @ ELSE "HAVE_KEY"]
  <2>1. q.to_parse = Undefined /\ q.state # "UNPARSED"
    BY <1>1 DEF SoundParser, Parser
  <2>2. Update(q)
    BY <1>5
  <2> HIDE DEF q
  <2>3. Consumes(q)
    BY <1>3, <2>1, <2>2 DEF Consumes
  <2> QED
    BY <2>3
<1> QED
  BY <1>4, <1>5 DEF FindKey

LEMMA FindColonConsumes ==
  ASSUME TypeInv, FindColon
  PROVE  Throws \/ \E p : Consumes(p)
<1> DEFINE t == Top.to_parse
           s == SkipWhiteSpace(t)
           q == [Top EXCEPT !.to_parse = Tail(s), !.state = "NEED_VALUE"]
<1>1. Top \in SoundParser /\ t \in Text /\ ~Blank(t)
  <2>1. InState({"NEED_COLON"})
    BY DEF FindColon
  <2> QED
    BY <2>1, Handled
<1>2. Suffix(Tail(s), t)
  BY <1>1, TailSuffix
<1>3. q.to_parse = Tail(s) /\ q.state = "NEED_VALUE"
  BY <1>1 DEF SoundParser, Parser
<1>4. CASE Update(q) /\ UNCHANGED <<streamVars, pc, error, passed>>
  BY <1>2, <1>3, <1>4 DEF Consumes
<1>5. CASE Throw("key") \/ Throw("colon")
  BY <1>5 DEF Throws, Reasons
<1> QED
  BY <1>4, <1>5 DEF FindColon

LEMMA FindValueConsumes ==
  ASSUME TypeInv, FindValue
  PROVE  Throws \/ \E p : Consumes(p)
<1> DEFINE t == Top.to_parse
           s == SkipWhiteSpace(t)
<1>1. Top \in Parser /\ t \in Text /\ ~Blank(t)
  <2>1. InState({"NEED_VALUE"})
    BY DEF FindValue
  <2> QED
    BY <2>1, Handled DEF SoundParser
<1>2. Suffix(s, t) /\ Suffix(Tail(s), t)
  BY <1>1, SuffixSkip, TailSuffix
<1>3. CASE Throw("value")
  BY <1>3 DEF Throws, Reasons
<1>4. CASE ~Throw("value")
  <2>1. UNCHANGED <<streamVars, pc, error>>
    BY <1>4 DEF FindValue
  <2>2. ASSUME NEW text \in {s, Tail(s)}, NEW value, NEW state, state # "UNPARSED",
               Update([Top EXCEPT !.to_parse = text, !.cur_value = value, !.state = state])
        PROVE  \E p : Consumes(p)
    <3> DEFINE q == [Top EXCEPT !.to_parse = text, !.cur_value = value, !.state = state]
    <3>1. q.to_parse = text /\ q.state = state
      BY <1>1 DEF Parser
    <3>2. Suffix(text, t)
      BY <1>2
    <3>3. Update(q)
      BY <2>2
    <3> HIDE DEF q, s
    <3>4. Consumes(q)
      BY <2>1, <2>2, <3>1, <3>2, <3>3 DEF Consumes
    <3> QED
      BY <3>4
  <2>3. Head(s) \in DOMAIN ValueState => ValueState[Head(s)] # "UNPARSED"
    BY DEF ValueState
  <2> QED
    BY <1>4, <2>2, <2>3 DEF FindValue
<1> QED
  BY <1>3, <1>4

LEMMA ParseStringConsumes ==
  ASSUME TypeInv, ParseString
  PROVE  \E p : Consumes(p)
<1> DEFINE t == Top.to_parse
           s == SkipWhiteSpace(t)
<1>1. Top \in Parser /\ Top.state = "PARSE_STRING" /\ t \in Text /\ s \in Text
  <2>1. InState({"PARSE_STRING"})
    BY DEF ParseString
  <2> QED
    BY <2>1, Handled DEF SoundParser
<1>2. Suffix(s, t) /\ UNCHANGED <<streamVars, pc, error>>
  BY <1>1, SuffixSkip DEF ParseString
<1>3. ASSUME NEW i \in Quotes(s),
             Update([Top EXCEPT !.to_parse = From(s, i + 1),
                                !.cur_value = ValueAppend(@, SubSeq(s, 1, i)),
                                !.state = "NEED_END"])
      PROVE  \E p : Consumes(p)
  <2> DEFINE q == [Top EXCEPT !.to_parse = From(s, i + 1),
                              !.cur_value = ValueAppend(@, SubSeq(s, 1, i)),
                              !.state = "NEED_END"]
  <2>1. q.to_parse = From(s, i + 1) /\ q.state = "NEED_END"
    BY <1>1 DEF Parser
  <2>2. i \in 1..Len(s)
    BY DEF Quotes
  <2>3. Suffix(From(s, i + 1), t)
    BY <1>1, <1>2, <2>2, SuffixPiece, SuffixTransitive
  <2>4. Update(q)
    BY <1>3
  <2> HIDE DEF q, s
  <2>5. Consumes(q)
    BY <1>2, <2>1, <2>3, <2>4 DEF Consumes
  <2> QED
    BY <2>5
<1>4. ASSUME Update([Top EXCEPT !.to_parse = Undefined, !.cur_value = @ \o s])
      PROVE  \E p : Consumes(p)
  <2> DEFINE q == [Top EXCEPT !.to_parse = Undefined, !.cur_value = @ \o s]
  <2>1. q.to_parse = Undefined /\ q.state = "PARSE_STRING"
    BY <1>1 DEF Parser
  <2>2. Update(q)
    BY <1>4
  <2> HIDE DEF q, s
  <2>3. Consumes(q)
    BY <1>2, <2>1, <2>2 DEF Consumes
  <2> QED
    BY <2>3
<1> QED
  BY <1>3, <1>4 DEF ParseString

LEMMA ParseTokenConsumes ==
  ASSUME TypeInv, ParseToken
  PROVE  Throws \/ \E p : Consumes(p)
<1> DEFINE t == Top.to_parse
           s == SkipWhiteSpace(t)
           i == Span(s, TokenChars[Top.state]) + 1
<1>1. /\ Top \in SoundParser /\ Top \in Parser /\ Top.state \in DOMAIN TokenChars
      /\ t \in Text /\ s \in Text
  <2>1. InState(DOMAIN TokenChars)
    BY DEF ParseToken
  <2> QED
    BY <2>1, Handled DEF SoundParser
<1>2. Suffix(s, t) /\ Top.state # "UNPARSED"
  BY <1>1, SuffixSkip DEF TokenChars
<1>3. i \in Nat \ {0} /\ Len(s) \in Nat
  BY <1>1, SpanType, LenProperties DEF Text
<1>4. CASE Update([Top EXCEPT !.to_parse = s]) /\ UNCHANGED <<streamVars, pc, error>>
  <2> DEFINE q == [Top EXCEPT !.to_parse = s]
  <2>1. q.to_parse = s /\ q.state = Top.state
    BY <1>1 DEF Parser
  <2>2. Update(q)
    BY <1>4
  <2> HIDE DEF q, s
  <2>3. Consumes(q)
    BY <1>2, <1>4, <2>1, <2>2 DEF Consumes
  <2> QED
    BY <2>3
<1>5. CASE /\ i <= Len(s)
           /\ Update([Top EXCEPT !.to_parse = From(s, i),
                                 !.cur_value = ValueAppend(@, SubSeq(s, 1, i - 1)),
                                 !.state = "NEED_END"])
           /\ UNCHANGED <<streamVars, pc, error>>
  <2> DEFINE q == [Top EXCEPT !.to_parse = From(s, i),
                              !.cur_value = ValueAppend(@, SubSeq(s, 1, i - 1)),
                              !.state = "NEED_END"]
  <2>1. q.to_parse = From(s, i) /\ q.state = "NEED_END"
    BY <1>1 DEF Parser
  <2>2. Update(q) /\ i \in 1..Len(s)
    BY <1>3, <1>5
  <2> HIDE DEF i
  <2>3. Suffix(From(s, i), t)
    BY <1>1, <1>2, <2>2, SuffixPiece, SuffixTransitive
  <2> HIDE DEF q, s
  <2>4. Consumes(q)
    BY <1>5, <2>1, <2>2, <2>3 DEF Consumes
  <2> QED
    BY <2>4
<1>6. CASE i <= Len(s) /\ IsEnd(Top, s[i]) # Undefined /\ FoundValue(Top, s, i)
  <2>1. i \in 1..Len(s)
    BY <1>3, <1>6
  <2> HIDE DEF i
  <2> QED
    BY <1>1, <1>2, <1>6, <2>1, FoundValueConsumes
<1>7. CASE Throw("token")
  BY <1>7 DEF Throws, Reasons
<1> QED
  BY <1>4, <1>5, <1>6, <1>7 DEF ParseToken

LEMMA FindEndConsumes ==
  ASSUME TypeInv, FindEnd
  PROVE  Throws \/ \E p : Consumes(p)
<1> DEFINE t == Top.to_parse
           s == SkipWhiteSpace(t)
<1>1. Top \in SoundParser /\ t \in Text /\ s \in Text /\ 1 \in 1..Len(s)
  <2>1. InState({"NEED_END"})
    BY DEF FindEnd
  <2> QED
    BY <2>1, Handled
<1>2. Suffix(s, t)
  BY <1>1, SuffixSkip
<1>3. CASE IsEnd(Top, s[1]) # Undefined /\ FoundValue(Top, s, 1)
  BY <1>1, <1>2, <1>3, FoundValueConsumes
<1>4. CASE Throw("end")
  BY <1>4 DEF Throws, Reasons
<1> QED
  BY <1>3, <1>4 DEF FindEnd

LEMMA HandlerConsumes ==
  ASSUME TypeInv,
         FindKey \/ FindColon \/ FindValue \/ FindEnd \/ ParseString \/ ParseToken
  PROVE  /\ pc = "parse" /\ Top.to_parse \in Text
         /\ Throws \/ \E p : Consumes(p)
<1>1. \E states : InState(states)
  BY DEF FindKey, FindColon, FindValue, FindEnd, ParseString, ParseToken
<1>2. pc = "parse" /\ Top.to_parse \in Text
  BY <1>1, Handled
<1> QED
  BY <1>2, FindKeyConsumes, FindColonConsumes, FindValueConsumes, FindEndConsumes,
     ParseStringConsumes, ParseTokenConsumes

---------------------------------------------------------------------------
(* The text that is held. *)

LEMMA HeldText ==
  ASSUME NEW t \in Maybe(Text), NEW b \in Seq(Text), t = Undefined \/ b = <<>>
  PROVE  OrEmpty(t) \o (IF b = <<>> THEN <<>> ELSE Head(b)) =
           IF t # Undefined THEN t ELSE IF b = <<>> THEN <<>> ELSE Head(b)
<1>1. CASE t # Undefined
  <2>1. t \in Text /\ b = <<>> /\ OrEmpty(t) = t
    BY <1>1 DEF Maybe, OrEmpty
  <2> QED
    BY <1>1, <2>1, ConcatEmptySeq DEF Text
<1>2. CASE t = Undefined
  <2>1. OrEmpty(t) = <<>>
    BY <1>2 DEF OrEmpty
  <2>2. CASE b = <<>>
    BY <1>2, <2>1, <2>2, ConcatEmptySeq, EmptySeq
  <2>3. CASE b # <<>>
    <3>1. Head(b) \in Seq(Chars)
      BY <2>3, HeadTailProperties DEF Text
    <3> QED
      BY <1>2, <2>1, <2>3, <3>1, ConcatEmptySeq
  <2> QED
    BY <2>2, <2>3
<1> QED
  BY <1>1, <1>2

LEMMA UnreadHeld ==
  ASSUME TypeInv, SoleHolder
  PROVE  /\ Unread = IF Top.to_parse # Undefined THEN Top.to_parse
                     ELSE IF buffer = <<>> THEN <<>> ELSE Head(buffer)
         /\ Unread \in Text
<1>1. Top.to_parse \in Maybe(Text) /\ buffer \in Seq(Text)
  BY StackTop DEF SoundParser, Parser, TypeInv, StreamInv
<1>2. Top.to_parse = Undefined \/ buffer = <<>>
  BY DEF SoleHolder
<1>3. Unread = IF Top.to_parse # Undefined THEN Top.to_parse
               ELSE IF buffer = <<>> THEN <<>> ELSE Head(buffer)
  BY <1>1, <1>2, HeldText DEF Unread
<1>4. buffer # <<>> => Head(buffer) \in Text
  BY <1>1, HeadTailProperties
<1> QED
  BY <1>1, <1>3, <1>4, EmptySeq DEF Maybe, Text

LEMMA SuffixOfPart ==
  ASSUME NEW s \in Text, NEW from \in Nat, NEW end \in Nat, from <= end, end <= Len(s),
         NEW k \in 1..(end - from + 1)
  PROVE  /\ From(SubSeq(s, from + 1, end), k) = SubSeq(s, from + k, end)
         /\ Len(From(SubSeq(s, from + 1, end), k)) = end - from - k + 1
<1> DEFINE part == SubSeq(s, from + 1, end)
<1>1. Len(s) \in Nat
  BY LenProperties DEF Text
<1>2. part \in Text /\ Len(part) = end - from
  BY <1>1, SubSeqType
<1>3. Len(From(part, k)) = end - from - k + 1
  BY <1>2, FromLen
<1>4. CASE k = end - from + 1
  BY <1>1, <1>2, <1>4, SubSeqEmpty DEF From
<1>5. CASE k # end - from + 1
  <2>1. /\ from + 1 \in 1..Len(s) /\ end \in 1..Len(s)
        /\ k \in 1..(end - (from + 1) + 1)
        /\ end - from \in 1..(end - (from + 1) + 1)
    BY <1>1, <1>5
  <2>2. SubSeq(SubSeq(s, from + 1, end), k, end - from) =
          SubSeq(s, (from + 1) + k - 1, (from + 1) + (end - from) - 1)
    BY <2>1, SubSeqOfSubSeq DEF Text
  <2>3. (from + 1) + k - 1 = from + k /\ (from + 1) + (end - from) - 1 = end
    BY <1>1
  <2> QED
    BY <1>2, <2>2, <2>3 DEF From
<1> QED
  BY <1>3, <1>4, <1>5

\* A step that leaves a later part of the text to be parsed and reads nothing.
LEMMA SuffixStep ==
  ASSUME TypeInv, SoleHolder, UnreadIsLatest,
         UNCHANGED <<input, offset>>, Suffix(Unread', Unread)
  PROVE  UnreadIsLatest' /\ Position' >= Position
<1>1. /\ input.text \in Text /\ Len(input.text) \in Nat
      /\ offset \in Nat /\ offset <= Len(input.text)
  BY InputText DEF TypeInv, StreamInv
<1>2. Unread \in Text /\ Len(Unread) \in Nat
  BY UnreadHeld, LenProperties DEF Text
<1>3. /\ Position \in Nat /\ Position <= offset /\ Len(Unread) = offset - Position
      /\ Unread = SubSeq(input.text, Position + 1, offset)
  BY <1>1, <1>2 DEF UnreadIsLatest, Position
<1>4. PICK k \in 1..(Len(Unread) + 1) : Unread' = From(Unread, k)
  BY DEF Suffix
<1>5. k \in 1..(offset - Position + 1)
  BY <1>3, <1>4
<1>6. /\ Unread' = SubSeq(input.text, Position + k, offset)
      /\ Len(Unread') = offset - Position - k + 1
  BY <1>1, <1>3, <1>4, <1>5, SuffixOfPart
<1>7. Position' = Position + k - 1
  <2>1. Position' = offset - Len(Unread')
    BY DEF Position
  <2> QED
    BY <1>1, <1>3, <1>5, <1>6, <2>1
<1>8. Position' + 1 = Position + k
  BY <1>3, <1>5, <1>7
<1> QED
  BY <1>3, <1>5, <1>6, <1>7, <1>8 DEF UnreadIsLatest

\* A step that reads and leaves a part of what it has read.
LEMMA ReadStep ==
  ASSUME TypeInv, SoleHolder, UnreadIsLatest,
         NEW result \in ReadResults, result.str # Undefined, Read(result),
         Suffix(Unread', result.str)
  PROVE  UnreadIsLatest' /\ Position' >= Position
<1>1. /\ input.text \in Text /\ Len(input.text) \in Nat
      /\ offset \in Nat /\ offset <= Len(input.text)
  BY InputText DEF TypeInv, StreamInv
<1>2. UNCHANGED input /\ offset' = result.offset
  BY DEF Read
<1>3. CASE Buffered
  <2>1. result.str = Head(buffer) /\ result.offset = offset
    BY <1>3 DEF ReadResults, GivenBack, Outcome
  <2>2. Unread = Head(buffer)
    BY <1>3, UnreadHeld DEF Buffered, SoleHolder
  <2> QED
    BY <1>2, <2>1, <2>2, SuffixStep
<1>4. CASE ~Buffered
  <2>1. PICK end \in ReadEnds :
          result = [str |-> SubSeq(input.text, offset + 1, end),
                    buffer |-> buffer, offset |-> end, eof |-> eof]
    <3>1. result # AtEnd
      BY DEF AtEnd, Outcome
    <3> QED
      BY <1>4, <3>1 DEF ReadResults, Delivered, Outcome
  <2>2. /\ end \in Nat /\ offset < end /\ end <= Len(input.text)
        /\ offset' = end /\ result.str = SubSeq(input.text, offset + 1, end)
    BY <1>1, <1>2, <2>1 DEF ReadEnds
  <2>3. Len(result.str) = end - offset
    BY <1>1, <2>2, SubSeqType
  <2>4. PICK k \in 1..(Len(result.str) + 1) : Unread' = From(result.str, k)
    BY DEF Suffix
  <2>5. k \in 1..(end - offset + 1)
    BY <2>3, <2>4
  <2>6. /\ Unread' = SubSeq(input.text, offset + k, end)
        /\ Len(Unread') = end - offset - k + 1
    <3>1. offset <= end
      BY <1>1, <2>2
    <3>2. /\ From(SubSeq(input.text, offset + 1, end), k) = SubSeq(input.text, offset + k, end)
          /\ Len(From(SubSeq(input.text, offset + 1, end), k)) = end - offset - k + 1
      BY <1>1, <2>2, <2>5, <3>1, SuffixOfPart
    <3> QED
      BY <2>2, <2>4, <3>2
  <2>7. Position' = offset + k - 1
    BY <1>1, <2>2, <2>5, <2>6 DEF Position
  <2>8. Unread \in Text /\ Len(Unread) \in Nat
    BY UnreadHeld, LenProperties DEF Text
  <2>9. Position' >= Position /\ Position' + 1 = offset + k /\ Position' >= 0
    BY <1>1, <2>5, <2>7, <2>8 DEF Position
  <2> QED
    BY <1>2, <2>2, <2>6, <2>9 DEF UnreadIsLatest
<1> QED
  BY <1>3, <1>4

---------------------------------------------------------------------------
(* The inductive invariant. *)

\* Besides the three properties: a parser that has not begun holds nothing, and
\* the loop of _parse() is over, with nothing left in it, wherever parse() reads
\* or leaves; it leaves an unfinished container only at the end of the input.
TextInv ==
    /\ SoleHolder
    /\ UnreadIsLatest
    /\ NeverUnfinished
    /\ Top.state = "UNPARSED" => Top.to_parse = Undefined
    /\ pc = "read" => ~Handles(Top)
    /\ pc = "leave" => eof /\ buffer = <<>> /\ ~Handles(Top) /\ ~Completed(Top)

Advances == TextInv' /\ Position' >= Position

LEMMA UpdateAny ==
  ASSUME TypeInv, NEW p, Update(p)
  PROVE  /\ Len(stack') = Len(stack) /\ Top' = p
         /\ \A i \in 1..(Len(stack) - 1) : stack'[i] = stack[i]
<1> DEFINE S == SoundParser \cup {p}
<1>1. Len(stack) \in 1..Len(stack) /\ Len(stack) \in Nat
  BY StackTop
<1>2. stack \in Seq(S) /\ p \in S
  BY SeqMonotonic DEF TypeInv, StackInv
<1>3. stack' = [stack EXCEPT ![Len(stack)] = p]
  BY DEF Update
<1> HIDE DEF S
<1>4. /\ Len(stack') = Len(stack)
      /\ \A j \in 1..Len(stack) : stack'[j] = IF j = Len(stack) THEN p ELSE stack[j]
  BY <1>1, <1>2, <1>3, ExceptSeq
<1> QED
  BY <1>1, <1>4 DEF Top

LEMMA UpdateHolder ==
  ASSUME TypeInv, SoleHolder, NEW p, Update(p),
         Len(buffer') <= 1, buffer' # <<>> => p.to_parse = Undefined
  PROVE  SoleHolder'
BY UpdateAny DEF SoleHolder

LEMMA ConsumesAdvances ==
  ASSUME TypeInv, TextInv, TypeInv', pc = "parse", Top.to_parse \in Text,
         NEW p, Consumes(p)
  PROVE  Advances
<1>1. Top.to_parse # Undefined /\ buffer = <<>>
  BY UndefinedIsNoString DEF TextInv, SoleHolder, Text
<1>2. Update(p) /\ UNCHANGED <<input, offset, buffer, pc, error>> /\ p.state # "UNPARSED"
  BY DEF Consumes, streamVars
<1>3. Top' = p
  BY <1>2, UpdateAny
<1>4. SoleHolder'
  BY <1>1, <1>2, UpdateHolder, EmptySeq DEF TextInv
<1>5. Unread = Top.to_parse
  BY <1>1, UnreadHeld DEF TextInv
<1>6. Unread' = IF p.to_parse = Undefined THEN <<>> ELSE p.to_parse
  <2>1. p.to_parse \in Maybe(Text) /\ buffer' \in Seq(Text)
    <3>1. Top' \in Parser
      BY ElementOfSeq, EmptySeq DEF TypeInv, StackInv, Top, SoundParser
    <3> QED
      BY <1>3, <3>1 DEF Parser, TypeInv, StreamInv
  <2>2. Unread' = OrEmpty(p.to_parse) \o (IF buffer' = <<>> THEN <<>> ELSE Head(buffer'))
    BY <1>3 DEF Unread
  <2> QED
    BY <1>1, <1>2, <2>1, <2>2, HeldText
<1>7. Suffix(Unread', Unread)
  BY <1>5, <1>6, SuffixEmpty DEF Consumes
<1>8. UnreadIsLatest' /\ Position' >= Position
  BY <1>2, <1>7, SuffixStep DEF TextInv
<1> QED
  BY <1>2, <1>3, <1>4, <1>8 DEF Advances, TextInv, NeverUnfinished

LEMMA ThrowAdvances ==
  ASSUME TypeInv, TextInv,
         NEW reason \in Reasons \ {"unfinished"}, Throw(reason)
  PROVE  Advances
<1>1. UNCHANGED <<input, offset, buffer, stack>> /\ pc' = "failed" /\ error' = reason
  BY DEF Throw, streamVars
<1>2. Unread' = Unread /\ Position' = Position /\ UNCHANGED Top
  BY <1>1 DEF Unread, Position, Top
<1>3. Position \in Int
  <2>1. Len(Unread) \in Nat /\ offset \in Int
    BY UnreadHeld, LenProperties DEF Text, TextInv, TypeInv, StreamInv
  <2> QED
    BY <2>1 DEF Position
<1> QED
  BY <1>1, <1>2, <1>3 DEF Advances, TextInv, SoleHolder, UnreadIsLatest, NeverUnfinished

\* A step that leaves the parsers and the stream as they are.
LEMMA StillAdvances ==
  ASSUME TypeInv, TextInv, UNCHANGED <<streamVars, stack, error>>,
         pc' = "read" => ~Handles(Top),
         pc' # "leave" \/ pc' = pc
  PROVE  Advances
<1>1. UNCHANGED <<input, offset, buffer, eof, stack>>
  BY DEF streamVars
<1>2. Unread' = Unread /\ Position' = Position /\ UNCHANGED Top
  BY <1>1 DEF Unread, Position, Top
<1>3. Position \in Int
  <2>1. Len(Unread) \in Nat /\ offset \in Int
    BY UnreadHeld, LenProperties DEF Text, TextInv, TypeInv, StreamInv
  <2> QED
    BY <2>1 DEF Position
<1> QED
  BY <1>1, <1>2, <1>3 DEF Advances, TextInv, SoleHolder, UnreadIsLatest, NeverUnfinished

LEMMA ParseNestedAdvances ==
  ASSUME TypeInv, TextInv, TypeInv', NEW state \in {"PARSE_OBJECT", "PARSE_ARRAY"},
         NEW type \in Types, ParseNested(state, type)
  PROVE  Advances
<1> DEFINE t == Top.to_parse
           s == SkipWhiteSpace(t)
           p == [Top EXCEPT !.to_parse = Undefined]
           updated == [stack EXCEPT ![Len(stack)].to_parse = Undefined]
<1>1. Top \in SoundParser /\ Top \in Parser /\ t \in Text /\ s \in Text
  <2>1. InState({state})
    BY DEF ParseNested
  <2> QED
    BY <2>1, Handled DEF SoundParser
<1>2. t # Undefined /\ buffer = <<>>
  BY <1>1, UndefinedIsNoString DEF TextInv, SoleHolder, Text
<1>3. buffer' = <<s>> /\ UNCHANGED <<input, offset, eof, error>> /\ pc' = "read"
  BY <1>2 DEF ParseNested, Unshift
<1>4. /\ Len(stack') = Len(stack) + 1 /\ Top' = NewParser
      /\ stack'[Len(stack)] = p
      /\ \A i \in 1..(Len(stack) - 1) : stack'[i] = stack[i]
  <2>1. p \in SoundParser
    BY <1>1 DEF SoundParser, Parser, Maybe
  <2>2. Len(stack) \in 1..Len(stack) /\ Len(stack) \in Nat
    BY StackTop
  <2>3. updated = [stack EXCEPT ![Len(stack)] = p] /\ stack' = Append(updated, NewParser)
    BY DEF Top, ParseNested
  <2> HIDE DEF updated, p
  <2>4. /\ updated \in Seq(SoundParser) /\ Len(updated) = Len(stack)
        /\ \A i \in 1..Len(stack) : updated[i] = IF i = Len(stack) THEN p ELSE stack[i]
    BY <2>1, <2>2, <2>3, ExceptSeq DEF TypeInv, StackInv
  <2>5. /\ Len(stack') = Len(stack) + 1 /\ stack'[Len(stack) + 1] = NewParser
        /\ \A i \in 1..Len(stack) : stack'[i] = updated[i]
    <3>1. /\ Len(Append(updated, NewParser)) = Len(updated) + 1
          /\ Append(updated, NewParser)[Len(updated) + 1] = NewParser
          /\ \A i \in 1..Len(updated) : Append(updated, NewParser)[i] = updated[i]
      BY <2>4, NewParserType, AppendProperties
    <3> QED
      BY <2>3, <2>4, <3>1
  <2>6. Top' = NewParser
    BY <2>5 DEF Top
  <2> QED
    BY <2>2, <2>4, <2>5, <2>6
<1>5. NewParser.to_parse = Undefined /\ p.to_parse = Undefined
  BY <1>1 DEF NewParser, Parser
<1>6. SoleHolder'
  <2>1. \A i \in 1..(Len(stack') - 1) : stack'[i].to_parse = Undefined
    <3> HIDE DEF p
    <3>1. Len(stack) \in Nat \ {0}
      BY StackTop
    <3>2. \A i \in 1..(Len(stack) - 1) : stack[i].to_parse = Undefined
      BY DEF TextInv, SoleHolder
    <3>3. \A i \in 1..Len(stack) : i = Len(stack) \/ i \in 1..(Len(stack) - 1)
      BY <3>1
    <3>4. \A i \in 1..Len(stack) : stack'[i].to_parse = Undefined
      BY <1>4, <1>5, <3>2, <3>3
    <3> QED
      BY <1>4, <3>1, <3>4
  <2> QED
    BY <1>3, <1>4, <1>5, <2>1 DEF SoleHolder
<1>7. Unread = t
  BY <1>2, UnreadHeld DEF TextInv
<1>8. Unread' = s
  <2>1. Unread' = OrEmpty(Undefined) \o Head(<<s>>)
    BY <1>3, <1>4, <1>5 DEF Unread
  <2> QED
    BY <1>1, <2>1, ConcatEmptySeq DEF OrEmpty, Text
<1>9. UnreadIsLatest' /\ Position' >= Position
  BY <1>1, <1>3, <1>7, <1>8, SuffixSkip, SuffixStep DEF TextInv
<1> QED
  BY <1>3, <1>4, <1>5, <1>6, <1>9 DEF Advances, TextInv, NeverUnfinished, Handles

---------------------------------------------------------------------------
(* Reads. *)

\* When a piece was read, nothing is left in the buffer.
LEMMA ReadEmpties ==
  ASSUME TypeInv, SoleHolder, NEW result \in ReadResults, Read(result)
  PROVE  buffer' = <<>> /\ UNCHANGED input
<1>1. buffer \in Seq(Text) /\ Len(buffer) \in Nat /\ Len(buffer) <= 1
  BY LenProperties DEF TypeInv, StreamInv, SoleHolder
<1>2. CASE Buffered
  <2>1. buffer' = Tail(buffer) /\ buffer # <<>>
    BY <1>2 DEF ReadResults, GivenBack, Outcome, Read, Buffered
  <2>2. Tail(buffer) \in Seq(Text) /\ Len(Tail(buffer)) = Len(buffer) - 1
    BY <1>1, <2>1, HeadTailProperties
  <2>3. Len(Tail(buffer)) = 0
    BY <1>1, <2>1, <2>2, EmptySeq
  <2>4. buffer' = <<>>
    BY <2>1, <2>2, <2>3, EmptySeq
  <2> QED
    BY <2>4 DEF Read
<1>3. CASE ~Buffered
  BY <1>3 DEF ReadResults, AtEnd, Delivered, Outcome, Read, Buffered
<1> QED
  BY <1>2, <1>3

LEMMA StartDocumentAdvances ==
  ASSUME TypeInv, TextInv, TypeInv', StartDocument
  PROVE  Advances
<1>1. PICK result \in ReadResults :
        /\ result.str # Undefined
        /\ Read(result)
        /\ LET i    == Opening(result.str)
               type == IF result.str[i] = "{" THEN "object" ELSE "array"
           IN \/ /\ i <= Len(result.str)
                 /\ Emit(Event(StartEvent[type], CurKey(Top), Undefined))
                 /\ passed' = passed \o SubSeq(result.str, 1, i - 1)
                 /\ Update([Top EXCEPT
                              !.state = IF type = "object" THEN "IN_OBJECT" ELSE "NEED_VALUE",
                              !.initial = type,
                              !.is_array = type = "array",
                              !.array_index = IF type = "array" THEN 0 ELSE @,
                              !.to_parse = From(result.str, i + 1)])
                 /\ pc' = "parse"
              \/ /\ i > Len(result.str)
                 /\ passed' = passed \o result.str
                 /\ UNCHANGED <<stack, pc, events>>
  BY DEF StartDocument
<1> DEFINE str  == result.str
           i    == Opening(str)
           type == IF str[i] = "{" THEN "object" ELSE "array"
           q    == [Top EXCEPT
                      !.state = IF type = "object" THEN "IN_OBJECT" ELSE "NEED_VALUE",
                      !.initial = type,
                      !.is_array = type = "array",
                      !.array_index = IF type = "array" THEN 0 ELSE @,
                      !.to_parse = From(str, i + 1)]
<1>2. str \in Text /\ Len(str) \in Nat /\ buffer' = <<>> /\ UNCHANGED <<input, error>>
  BY <1>1, ReadType, ReadEmpties, LenProperties DEF TextInv, Text, StartDocument
<1>3. Top \in Parser /\ Top.state = "UNPARSED" /\ Top.to_parse = Undefined /\ pc = "read"
  BY StackTop DEF SoundParser, StartDocument, TextInv
<1>4. CASE i <= Len(str) /\ Update(q) /\ pc' = "parse"
  <2>1. i \in 1..Len(str)
    <3> DEFINE n == Span(str, Chars \ {"{", "["})
    <3>1. n \in 0..Len(str) /\ i = n + 1
      BY <1>2, SpanType DEF Opening
    <3> HIDE DEF n, i
    <3> QED
      BY <1>2, <1>4, <3>1
  <2> HIDE DEF i, type
  <2>2. q.to_parse = From(str, i + 1) /\ q.state # "UNPARSED"
    BY <1>3 DEF Parser
  <2>3. Suffix(From(str, i + 1), str) /\ From(str, i + 1) \in Text
    BY <1>2, <2>1, SuffixPiece, PieceType
  <2> HIDE DEF q
  <2>4. Top' = q /\ SoleHolder'
    BY <1>2, <1>4, UpdateAny, UpdateHolder, EmptySeq DEF TextInv
  <2>5. Unread' = From(str, i + 1)
    <3>1. From(str, i + 1) # Undefined /\ <<>> \in Seq(Text)
      BY <2>3, UndefinedIsNoString, EmptySeq DEF Text
    <3>2. Unread' = OrEmpty(From(str, i + 1)) \o <<>>
      BY <1>2, <2>2, <2>4 DEF Unread
    <3> QED
      BY <2>3, <3>1, <3>2, ConcatEmptySeq DEF OrEmpty, Text
  <2>6. UnreadIsLatest' /\ Position' >= Position
    BY <1>1, <2>3, <2>5, ReadStep DEF TextInv
  <2> QED
    BY <1>2, <1>4, <2>2, <2>4, <2>6 DEF Advances, TextInv, NeverUnfinished
<1>5. CASE UNCHANGED <<stack, pc>>
  <2>1. Top' = Top
    BY <1>5 DEF Top
  <2>2. SoleHolder'
    BY <1>2, <1>5, <2>1, EmptySeq DEF SoleHolder, TextInv
  <2>3. Unread' = <<>>
    <3>1. Unread' = OrEmpty(Undefined) \o <<>>
      BY <1>2, <1>3, <2>1 DEF Unread
    <3> QED
      BY <3>1, ConcatEmptySeq, EmptySeq DEF OrEmpty
  <2>4. UnreadIsLatest' /\ Position' >= Position
    BY <1>1, <1>2, <2>3, SuffixEmpty, ReadStep DEF TextInv
  <2>5. ~Handles(Top)'
    BY <1>3, <2>1 DEF Handles
  <2> QED
    BY <1>2, <1>3, <1>5, <2>1, <2>2, <2>4, <2>5 DEF Advances, TextInv, NeverUnfinished
<1> QED
  BY <1>1, <1>4, <1>5

LEMMA ReadMoreAdvances ==
  ASSUME TypeInv, TextInv, TypeInv', ReadMore
  PROVE  Advances
<1>1. PICK result \in ReadResults :
        /\ result.str # Undefined
        /\ Read(result)
        /\ Update([Top EXCEPT !.to_parse = result.str])
  BY DEF ReadMore
<1> DEFINE q == [Top EXCEPT !.to_parse = result.str]
<1>2. result.str \in Text /\ buffer' = <<>> /\ UNCHANGED <<input, error>> /\ pc' = "parse"
  BY <1>1, ReadType, ReadEmpties DEF TextInv, ReadMore
<1>3. q.to_parse = result.str /\ q.state # "UNPARSED"
  BY StackTop DEF SoundParser, Parser, ReadMore
<1>4. Update(q)
  BY <1>1
<1> HIDE DEF q
<1>5. Top' = q /\ SoleHolder'
  BY <1>2, <1>4, UpdateAny, UpdateHolder, EmptySeq DEF TextInv
<1>6. Unread' = result.str
  <2>1. result.str # Undefined
    BY <1>1
  <2>2. Unread' = OrEmpty(result.str) \o <<>>
    BY <1>2, <1>3, <1>5 DEF Unread
  <2> QED
    BY <1>2, <2>1, <2>2, ConcatEmptySeq DEF OrEmpty, Text
<1>7. UnreadIsLatest' /\ Position' >= Position
  BY <1>1, <1>2, <1>6, SuffixItself, ReadStep DEF TextInv
<1> QED
  BY <1>2, <1>3, <1>5, <1>7 DEF Advances, TextInv, NeverUnfinished

LEMMA EndOfInputAdvances ==
  ASSUME TypeInv, TextInv, EndOfInput
  PROVE  Advances
<1>1. PICK result \in ReadResults : result.str = Undefined /\ Read(result)
  BY DEF EndOfInput
<1>2. ~Buffered /\ result = AtEnd
  <2>1. Undefined \notin Text
    BY UndefinedIsNoString DEF Text
  <2>2. CASE Buffered
    <3>1. Head(buffer) \in Text
      BY <2>2, HeadTailProperties DEF Buffered, TypeInv, StreamInv
    <3>2. result.str = Head(buffer)
      BY <2>2 DEF ReadResults, GivenBack, Outcome
    <3> QED
      BY <1>1, <2>1, <3>1, <3>2
  <2>3. CASE ~Buffered /\ result \in Delivered
    <3>1. PICK end \in ReadEnds : result.str = SubSeq(input.text, offset + 1, end)
      BY <2>3 DEF Delivered, Outcome
    <3>2. SubSeq(input.text, offset + 1, end) \in Text
      BY <3>1, InputText, SubSeqType DEF ReadEnds, TypeInv, StreamInv
    <3> QED
      BY <1>1, <2>1, <3>1, <3>2
  <2> QED
    BY <2>2, <2>3 DEF ReadResults
<1>3. buffer = <<>> /\ UNCHANGED <<input, offset, buffer, stack, error>> /\ eof' = TRUE
  BY <1>1, <1>2 DEF Buffered, Read, AtEnd, Outcome, EndOfInput
<1>4. ~Handles(Top) /\ ~Completed(Top) /\ pc' = "leave"
  BY DEF EndOfInput, TextInv, Reads, Completed
<1>5. Unread' = Unread /\ Position' = Position /\ UNCHANGED Top
  BY <1>3 DEF Unread, Position, Top
<1>6. Position \in Int
  <2>1. Len(Unread) \in Nat /\ offset \in Int
    BY UnreadHeld, LenProperties DEF Text, TextInv, TypeInv, StreamInv
  <2> QED
    BY <2>1 DEF Position
<1> QED
  BY <1>3, <1>4, <1>5, <1>6 DEF Advances, TextInv, SoleHolder, UnreadIsLatest, NeverUnfinished

---------------------------------------------------------------------------
(* The end of parse(). *)

LEMMA LeaveAdvances ==
  ASSUME TypeInv, TextInv, TypeInv', Leave
  PROVE  Advances
<1> DEFINE t    == Top.to_parse
           rest == t # Undefined /\ ~Blank(t)
           left == IF rest THEN [Top EXCEPT !.to_parse = Undefined] ELSE Top
           p    == Ended(left, Top.initial)
<1>1. Top \in Parser /\ t \in Maybe(Text)
  BY StackTop DEF SoundParser, Parser
<1>2. CASE /\ Top.state # "UNPARSED"
           /\ IF rest THEN Unshift(t) ELSE UNCHANGED streamVars
           /\ Update(p)
           /\ pc' = "return"
           /\ UNCHANGED <<error, passed>>
  <2>1. p.to_parse = (IF rest THEN Undefined ELSE t) /\ p.state = Top.state
    BY <1>1 DEF Ended, Parser
  <2> HIDE DEF p
  <2>2. Top' = p
    BY <1>2, UpdateAny
  <2>3. CASE rest
    <3>1. buffer = <<>> /\ t \in Text
      BY <1>1, <2>3 DEF Maybe, TextInv, SoleHolder
    <3>2. buffer' = <<t>> /\ UNCHANGED <<input, offset, eof>>
      BY <1>2, <2>3, <3>1 DEF Unshift
    <3>3. SoleHolder'
      BY <1>2, <2>1, <2>3, <3>2, UpdateHolder DEF TextInv
    <3>4. Unread = t
      BY <2>3, UnreadHeld DEF TextInv
    <3>5. Unread' = t
      <4>1. Unread' = OrEmpty(Undefined) \o Head(<<t>>)
        BY <2>1, <2>2, <2>3, <3>2 DEF Unread
      <4> QED
        BY <3>1, <4>1, ConcatEmptySeq DEF OrEmpty, Text
    <3>6. UnreadIsLatest' /\ Position' >= Position
      BY <3>1, <3>2, <3>4, <3>5, SuffixItself, SuffixStep DEF TextInv
    <3> QED
      BY <1>2, <2>1, <2>2, <3>3, <3>6 DEF Advances, TextInv, NeverUnfinished
  <2>4. CASE ~rest
    <3>1. UNCHANGED <<input, offset, buffer, eof>>
      BY <1>2, <2>4 DEF streamVars
    <3>2. p.to_parse = t
      BY <2>1, <2>4
    <3>3. SoleHolder'
      BY <1>2, <3>1, <3>2, UpdateHolder DEF TextInv, SoleHolder
    <3>4. Unread' = Unread /\ Unread \in Text
      BY <2>2, <3>1, <3>2, UnreadHeld DEF Unread, TextInv
    <3>5. UnreadIsLatest' /\ Position' >= Position
      BY <3>1, <3>4, SuffixItself, SuffixStep DEF TextInv
    <3> QED
      BY <1>2, <2>1, <2>2, <3>2, <3>3, <3>5 DEF Advances, TextInv, NeverUnfinished
  <2> QED
    BY <2>3, <2>4
<1>3. CASE /\ pc' = "return"
           /\ UNCHANGED <<streamVars, stack, error, events, passed>>
  BY <1>3, StillAdvances
<1>4. CASE /\ ~(Top.state # "UNPARSED" /\ Completed(Top))
           /\ rest \/ IsReadable
  <2>1. pc = "leave" \/ (pc = "read" /\ ~Reads(Top))
    BY DEF Leave
  <2>2. ~rest /\ ~IsReadable
    <3>1. CASE pc = "leave"
      BY <3>1 DEF TextInv, IsReadable, Handles
    <3>2. CASE pc = "read" /\ ~Reads(Top)
      BY <1>4, <3>2 DEF TextInv, Reads, Handles
    <3> QED
      BY <2>1, <3>1, <3>2
  <2> QED
    BY <1>4, <2>2
<1> QED
  BY <1>2, <1>3, <1>4 DEF Leave

LEMMA ReturnAdvances ==
  ASSUME TypeInv, TextInv, TypeInv', Return
  PROVE  Advances
<1> DEFINE outer == stack[Len(stack) - 1]
           type  == IF outer.state = "PARSE_ARRAY" THEN "array" ELSE "object"
           q     == [outer EXCEPT !.cur_value = Undefined, !.state = "NEED_END"]
           p     == Ended(q, type)
           below == SubSeq(stack, 1, Len(stack) - 2)
<1>1. Len(stack) \in Nat /\ Len(stack) > 1 /\ stack \in Seq(SoundParser)
  BY StackTop DEF Return, TypeInv, StackInv
<1>2. outer \in SoundParser
  BY <1>1, ElementOfSeq
<1>3. outer.to_parse = Undefined
  BY <1>1 DEF TextInv, SoleHolder
<1>4. p \in SoundParser /\ p.to_parse = Undefined /\ p.state = "NEED_END"
  <2>1. q \in SoundParser
    <3>1. q \in Parser /\ q.state = "NEED_END" /\ q.initial = outer.initial
      BY <1>2 DEF SoundParser, Parser, States, Maybe
    <3>2. outer.state \in {"PARSE_OBJECT", "PARSE_ARRAY"}
      BY <1>1 DEF TypeInv, StackInv
    <3>3. outer.initial # Undefined
      BY <1>2, <3>2 DEF SoundParser
    <3> QED
      BY <3>1, <3>3 DEF SoundParser
  <2>2. q.to_parse = Undefined /\ q.state = "NEED_END"
    BY <1>2, <1>3 DEF SoundParser, Parser
  <2> QED
    BY <2>1, <2>2, EndedType DEF Ended, SoundParser, Parser
<1>5. /\ UNCHANGED <<input, offset, buffer, eof, error>> /\ pc' = "parse"
      /\ stack' = Append(below, p)
  BY DEF Return, streamVars
<1> HIDE DEF p
<1>6. /\ Top' = p /\ Len(stack') = Len(stack) - 1
      /\ \A i \in 1..(Len(stack) - 2) : stack'[i] = stack[i]
  <2>1. Len(stack) - 2 \in 0..Len(stack)
    BY <1>1
  <2>2. /\ below \in Seq(SoundParser) /\ Len(below) = Len(stack) - 2
        /\ \A i \in 1..(Len(stack) - 2) : below[i] = stack[i]
    BY <1>1, <2>1, PrefixOf
  <2> HIDE DEF below
  <2>3. /\ Len(Append(below, p)) = Len(below) + 1
        /\ Append(below, p)[Len(below) + 1] = p
        /\ \A i \in 1..Len(below) : Append(below, p)[i] = below[i]
    BY <1>4, <2>2, AppendProperties
  <2> QED
    BY <1>1, <1>5, <2>2, <2>3 DEF Top
<1>7. SoleHolder'
  <2>1. \A i \in 1..(Len(stack') - 1) : stack'[i].to_parse = Undefined
    BY <1>1, <1>6 DEF TextInv, SoleHolder
  <2> QED
    BY <1>4, <1>5, <1>6, <2>1 DEF TextInv, SoleHolder
<1>8. Suffix(Unread', Unread)
  <2>1. Unread \in Text /\ buffer \in Seq(Text)
    BY UnreadHeld DEF TextInv, TypeInv, StreamInv
  <2>2. Unread' = OrEmpty(Undefined) \o (IF buffer = <<>> THEN <<>> ELSE Head(buffer))
    BY <1>4, <1>5, <1>6 DEF Unread
  <2>3. CASE buffer = <<>>
    BY <2>1, <2>2, <2>3, SuffixEmpty, ConcatEmptySeq, EmptySeq DEF OrEmpty
  <2>4. CASE buffer # <<>>
    <3>1. Top.to_parse = Undefined
      BY <2>4 DEF TextInv, SoleHolder
    <3> QED
      BY <2>1, <2>2, <3>1, SuffixItself DEF Unread
  <2> QED
    BY <2>3, <2>4
<1>9. UnreadIsLatest' /\ Position' >= Position
  BY <1>5, <1>8, SuffixStep DEF TextInv
<1> QED
  BY <1>4, <1>5, <1>6, <1>7, <1>9 DEF Advances, TextInv, NeverUnfinished

LEMMA NextDocumentAdvances ==
  ASSUME TypeInv, TextInv, NextDocument
  PROVE  Advances
<1>1. /\ UNCHANGED <<input, offset, buffer, eof, error>> /\ pc' = "read"
      /\ stack' = <<NewParser>>
  BY DEF NextDocument, streamVars
<1>2. Top' = NewParser /\ NewParser.to_parse = Undefined
  BY <1>1 DEF Top, NewParser
<1>3. SoleHolder'
  BY <1>1, <1>2 DEF TextInv, SoleHolder
<1>4. Suffix(Unread', Unread)
  <2>1. Unread \in Text /\ buffer \in Seq(Text)
    BY UnreadHeld DEF TextInv, TypeInv, StreamInv
  <2>2. Unread' = OrEmpty(Undefined) \o (IF buffer = <<>> THEN <<>> ELSE Head(buffer))
    BY <1>1, <1>2 DEF Unread
  <2>3. CASE buffer = <<>>
    BY <2>1, <2>2, <2>3, SuffixEmpty, ConcatEmptySeq, EmptySeq DEF OrEmpty
  <2>4. CASE buffer # <<>>
    <3>1. Top.to_parse = Undefined
      BY <2>4 DEF TextInv, SoleHolder
    <3> QED
      BY <2>1, <2>2, <3>1, SuffixItself DEF Unread
  <2> QED
    BY <2>3, <2>4
<1>5. UnreadIsLatest' /\ Position' >= Position
  BY <1>1, <1>4, SuffixStep DEF TextInv
<1> QED
  BY <1>1, <1>2, <1>3, <1>5 DEF Advances, TextInv, NeverUnfinished, Handles

---------------------------------------------------------------------------
(* The theorems. *)

LEMMA InitText == Init => TextInv
<1> SUFFICES ASSUME Init PROVE TextInv
  OBVIOUS
<1>1. /\ input \in Inputs /\ offset = 0 /\ buffer = <<>> /\ pc = "read"
      /\ stack = <<NewParser>> /\ error = Undefined
  BY DEF Init, StreamInit
<1>2. Top = NewParser /\ NewParser.to_parse = Undefined
  BY <1>1 DEF Top, NewParser
<1>3. SoleHolder
  BY <1>1, <1>2 DEF SoleHolder
<1>4. Unread = <<>>
  BY <1>3, UnreadHeld, InitType, <1>1, <1>2
<1>5. UnreadIsLatest
  <2>1. Position = 0
    <3>1. Len(Unread) = 0
      BY <1>4, EmptySeq
    <3> QED
      BY <1>1, <3>1 DEF Position
  <2> QED
    BY <1>1, <1>4, <2>1, SubSeqEmpty DEF UnreadIsLatest
<1>6. NeverUnfinished
  BY <1>1, UndefinedIsNoReason DEF NeverUnfinished, Reasons
<1> QED
  BY <1>1, <1>2, <1>3, <1>5, <1>6 DEF TextInv, Handles

\* What every step does, whatever the state of the invariant before it.
LEMMA NextAdvances ==
  ASSUME TypeInv, TextInv, Next
  PROVE  Advances
<1>1. TypeInv'
  BY NextType
<1>2. CASE FindKey \/ FindColon \/ FindValue \/ FindEnd \/ ParseString \/ ParseToken
  <2>1. pc = "parse" /\ Top.to_parse \in Text /\ (Throws \/ \E p : Consumes(p))
    BY <1>2, HandlerConsumes
  <2>2. CASE Throws
    BY <2>2, ThrowAdvances DEF Throws
  <2>3. CASE \E p : Consumes(p)
    BY <1>1, <2>1, <2>3, ConsumesAdvances
  <2> QED
    BY <2>1, <2>2, <2>3
<1>3. CASE ParseObject \/ ParseArray
  BY <1>1, <1>3, ParseNestedAdvances DEF ParseObject, ParseArray, Types
<1>4. CASE StartDocument \/ ReadMore \/ EndOfInput
  BY <1>1, <1>4, StartDocumentAdvances, ReadMoreAdvances, EndOfInputAdvances
<1>5. CASE Leave \/ Return \/ NextDocument
  BY <1>1, <1>5, LeaveAdvances, ReturnAdvances, NextDocumentAdvances
<1>6. CASE WrongEnd \/ Exited
  BY <1>6, StillAdvances DEF WrongEnd, Exited, vars, streamVars, TextInv
<1>7. CASE ParseDone \/ Finish
  BY <1>7, StillAdvances DEF ParseDone, Finish
<1> QED
  BY <1>2, <1>3, <1>4, <1>5, <1>6, <1>7 DEF Next

LEMMA StepAdvances ==
  ASSUME TypeInv, TextInv, [Next]_vars
  PROVE  TypeInv' /\ TextInv' /\ [Position' >= Position]_vars
<1>1. CASE Next
  BY <1>1, NextType, NextAdvances DEF Advances
<1>2. CASE UNCHANGED vars
  <2>1. TypeInv'
    BY <1>2, NextType
  <2>2. Advances
    BY <1>2, StillAdvances DEF vars, streamVars, TextInv
  <2> QED
    BY <1>2, <2>1, <2>2 DEF Advances
<1> QED
  BY <1>1, <1>2

LEMMA TextInvariant == Spec => [](TypeInv /\ TextInv)
<1>1. Init => TypeInv /\ TextInv
  BY InitType, InitText
<1>2. TypeInv /\ TextInv /\ [Next]_vars => (TypeInv /\ TextInv)'
  BY StepAdvances
<1> QED
  BY <1>1, <1>2, PTL DEF Spec

\* Of all the parsers and the stream only one ever holds text: whatever the
\* text and however it is cut, FakeStream.unshift never adds to a buffer that
\* holds something, and parse() never overwrites text that is not parsed.
THEOREM OneHolder == Spec => []SoleHolder
<1>1. TypeInv /\ TextInv => SoleHolder
  BY DEF TextInv
<1> QED
  BY <1>1, TextInvariant, PTL

\* The text that is not parsed is at all times the last part of what was read.
THEOREM NothingLost == Spec => []UnreadIsLatest
<1>1. TypeInv /\ TextInv => UnreadIsLatest
  BY DEF TextInv
<1> QED
  BY <1>1, TextInvariant, PTL

\* No character is parsed twice.
THEOREM NeverBack == Spec => NeverRereads
<1>1. TypeInv /\ TextInv /\ [Next]_vars => [Position' >= Position]_vars
  BY StepAdvances
<1> QED
  BY <1>1, TextInvariant, PTL DEF Spec, NeverRereads

\* The exception "Unexpected end of input" of parse() is never thrown.
THEOREM NeverReported == Spec => []NeverUnfinished
<1>1. TypeInv /\ TextInv => NeverUnfinished
  BY DEF TextInv
<1> QED
  BY <1>1, TextInvariant, PTL

=============================================================================
