---------------------------- MODULE FakeStream ----------------------------
(***************************************************************************)
(* The input side of src/fakestream.js over the read(2) of src/jrq.c: the  *)
(* descriptor hands over the text piece by piece, and the stream keeps the *)
(* pieces a reader gave back with unshift() in _internalBuffer.            *)
(*                                                                         *)
(* input.cuts are the offsets after which a read may end: a pipe or a      *)
(* terminal may end a read anywhere, a file only where the 4095 usable     *)
(* bytes of readBuffer are full.                                           *)
(***************************************************************************)
EXTENDS JsString

CONSTANT Inputs   \* what the descriptor may deliver: records [text, cuts, ...]

ASSUME InputsAreTexts ==
    \A in \in Inputs : in.text \in Seq(Chars) /\ in.cuts \subseteq Nat

VARIABLES
    input,      \* the input of this execution; no step changes it
    offset,     \* how much of its text read(2) has handed over
    buffer,     \* _internalBuffer
    eof         \* _eof

streamVars == <<input, offset, buffer, eof>>

StreamInit ==
    /\ input \in Inputs
    /\ offset = 0
    /\ buffer = <<>>
    /\ eof = FALSE

IsReadable == buffer # <<>> \/ ~eof

\* Where the next read(2) may end; nowhere once the whole text is delivered.
ReadEnds == {end \in (offset + 1)..Len(input.text) :
               end \in input.cuts \/ end = Len(input.text)}

\* The outcomes of FakeStream.read: the string it returns, and the stream after
\* it.  Its own events "data" and "end" have no listener in this program.
Outcome(str, buf, end, over) == [str |-> str, buffer |-> buf, offset |-> end, eof |-> over]

\* Mutant: buffer[0] in the place of buffer.shift().
PeekedBack == Outcome(Head(buffer), buffer, offset, eof)

GivenBack == Outcome(Head(buffer), Tail(buffer), offset, eof)

\* Mutant: the end is returned and not remembered.
AtEndUnmarked == Outcome(Undefined, buffer, offset, eof)

AtEnd == Outcome(Undefined, buffer, offset, TRUE)

Delivered == {Outcome(SubSeq(input.text, offset + 1, end), buffer, end, eof) : end \in ReadEnds}

\* Mutant: what was given back is read when nothing else is left.
BufferedLast == buffer # <<>> /\ offset = Len(input.text)

Buffered == buffer # <<>>

\* A piece that was given back comes first, then what one read(2) delivers,
\* then null.
ReadResults ==
    IF Buffered THEN {GivenBack}
    ELSE IF offset = Len(input.text) THEN {AtEnd}
    ELSE Delivered

Read(result) ==
    /\ buffer' = result.buffer
    /\ offset' = result.offset
    /\ eof' = result.eof
    /\ UNCHANGED input

\* FakeStream.unshift adds at the end of the buffer, where the unshift of
\* Node.js adds at its head.
Unshift(str) ==
    /\ buffer' = Append(buffer, str)
    /\ UNCHANGED <<input, offset, eof>>
===========================================================================
