------------------------------ MODULE Program ------------------------------
(***************************************************************************)
(* jrq as a process: main() and the three functions of src/jrq.c, and      *)
(* innerMain of src/jrq.js between them, from the arguments to the exit    *)
(* status.  What the parser and its listeners find in the input is given   *)
(* (JsonParse and Jrq are about that); the subject here is what becomes of *)
(* it when system calls fail, or write less than they were asked to.       *)
(***************************************************************************)
EXTENDS Output

CONSTANTS
    Executions,  \* records [argv, script, turns, ...]: the outside world
    Values,      \* the values that can be found in the input
    MaxShort     \* how many writes may be short, a bound of the model

(***************************************************************************)
(* A turn of the loop of innerMain is [reads, keys, fails]: what each call *)
(* of FakeStream.read leads to; the keys that were found; and whether      *)
(* parse() throws in the end.  A read takes a piece that was kept in the   *)
(* buffer of the stream, or else calls read(2); it passes the text on that *)
(* is outside of documents, and completes rows.  There is a row only when  *)
(* a value was found for it, or for the document when all of it is asked   *)
(* for, also when there is none.  script says whether the script to run is *)
(* good, cannot be evaluated, or has no jrqMain.                           *)
(***************************************************************************)
FoundRows == Seq(Values) \ {<<>>}

Pieces == [kept : BOOLEAN, unparsed : Seq(Symbols), rows : Seq(FoundRows)]

Turns == [reads : Seq(Pieces), keys : Seq(Values), fails : BOOLEAN]

ASSUME ExecutionsAreComplete ==
    \A x \in Executions :
        /\ x.argv \in Seq(Seq(Symbols))
        /\ x.script \in {"good", "bad", "without"}
        /\ x.turns \in Seq(Turns) \ {<<>>}

ASSUME MaxShortIsNumber == MaxShort \in Nat

ASSUME UndefinedIsNoStatus == Undefined \notin Int

VARIABLES
    execution,
    pc,         \* where the program is
    turn,       \* which turn of the loop of innerMain this is
    reads,      \* how often this turn has read from the stream
    writes,     \* the calls of FakeStream.write that are due, as [fd, text]
    out,        \* what has arrived at stdout and stderr
    short,      \* how many writes were short
    status      \* the exit status, Undefined as long as the program runs

processVars == <<execution, pc, turn, reads, writes, out, short, status>>
vars        == <<processVars, argumentVars>>

Turn == execution.turns[turn]

---------------------------------------------------------------------------
(* The end of the program. *)

Ends(code, descriptors) ==
    /\ pc' = "ended"
    /\ status' = code
    /\ out' = descriptors
    /\ writes' = <<>>
    /\ UNCHANGED <<execution, turn, reads, short, argumentVars>>

\* exit() after a message to stderr.
Dies(code, message) == Ends(code, [out EXCEPT !.stderr = Append(@, <<"message", message>>)])

\* An exception is caught by jrqMain, which prints it; main() does not learn of
\* it.
Throws == Ends(0, [out EXCEPT !.stdout = Append(@, <<"we failed">>)])

---------------------------------------------------------------------------
(* main(). *)

Goes(place) ==
    pc' = place /\ UNCHANGED <<execution, turn, reads, writes, out, short, status>>

CreateHeap ==
    /\ pc = "start"
    /\ \/ Goes("load") /\ UNCHANGED argumentVars
       \/ Dies(1, "heap")

Load ==
    /\ pc = "load"
    /\ IF execution.script = "bad" THEN Dies(-1, "eval")
       ELSE Goes("main") /\ UNCHANGED argumentVars

CallJrqMain ==
    /\ pc = "main"
    /\ IF execution.script = "without" THEN Dies(-1, "call")
       ELSE /\ Goes("options")
            /\ words' = FlattenSeq([i \in DOMAIN execution.argv |-> WordsOf(execution.argv[i])])
            /\ UNCHANGED <<next, options>>

---------------------------------------------------------------------------
(* innerMain, up to the loop. *)

ReadOption == pc = "options" /\ next <= Len(words) /\ OptionTurn /\ UNCHANGED processVars

RefuseCode == pc = "options" /\ next <= Len(words) /\ IsCode /\ Value \in BadCode /\ Throws

StartTurns ==
    /\ pc = "options" /\ next > Len(words)
    /\ options' = Completed(options)
    /\ IF options.help
       THEN /\ pc' = "help"
            /\ writes' = <<[fd |-> "stderr", text |-> <<<<"help">>, Newline>>]>>
       ELSE pc' = "read" /\ UNCHANGED writes
    /\ UNCHANGED <<execution, turn, reads, out, short, status, words, next>>

---------------------------------------------------------------------------
(* The loop of innerMain. *)

Due(texts) == [i \in DOMAIN texts |-> [fd |-> "stdout", text |-> texts[i]]]

TextsOf(rows) == FlattenSeq([i \in DOMAIN rows |-> RowWrites(rows[i], options)])

\* jrqUnparsed, whatever the options are.
UnparsedTexts(piece) == IF piece.unparsed = <<>> THEN <<>> ELSE <<Text(piece.unparsed)>>

\* Mutant: rows are kept until parse() has returned.
RowsInTheEnd(piece) ==
    IF options.keys \/ reads + 1 < Len(Turn.reads) THEN <<>>
    ELSE TextsOf(FlattenSeq([i \in DOMAIN Turn.reads |-> Turn.reads[i].rows]))

\* With -k no value is looked at.
RowTexts(piece) == IF options.keys THEN <<>> ELSE TextsOf(piece.rows)

\* FakeStream.read, and the handlers that write what it leads to: parse() emits
\* what is outside of documents before it parses the rest of the piece.
ReadPiece ==
    /\ pc = "read" /\ writes = <<>> /\ reads < Len(Turn.reads)
    /\ reads' = reads + 1
    /\ LET piece == Turn.reads[reads + 1]
       IN writes' = Due(UnparsedTexts(piece) \o RowTexts(piece))
    /\ UNCHANGED <<execution, pc, turn, out, short, status, argumentVars>>

\* Only read(2) fails.
ReadFails ==
    /\ pc = "read" /\ writes = <<>> /\ reads < Len(Turn.reads)
    /\ ~Turn.reads[reads + 1].kept
    /\ Dies(2, "read")

ParseThrows == pc = "read" /\ writes = <<>> /\ reads = Len(Turn.reads) /\ Turn.fails /\ Throws

FinishParse ==
    /\ pc = "read" /\ writes = <<>> /\ reads = Len(Turn.reads) /\ ~Turn.fails
    /\ pc' = "flush"
    /\ writes' = IF options.keys THEN Due(KeyWrites(Turn.keys, options)) ELSE <<>>
    /\ UNCHANGED <<execution, turn, reads, out, short, status, argumentVars>>

Again == (options.array \/ options.group) /\ turn < Len(execution.turns)

\* stdout.flush(), whose result nobody looks at; the loop goes on while the
\* input is readable.
FinishTurn ==
    /\ pc = "flush" /\ writes = <<>>
    /\ IF Again
       THEN /\ pc' = "read" /\ turn' = turn + 1 /\ reads' = 0
            /\ UNCHANGED <<execution, writes, out, short, status, argumentVars>>
       ELSE Ends(0, out)

FinishHelp == pc = "help" /\ writes = <<>> /\ Ends(0, out)

---------------------------------------------------------------------------
(* FakeStream.write and jrq_write. *)

Arrives(fd, text) == out' = [out EXCEPT ![fd] = @ \o text]

Written ==
    /\ writes' = Tail(writes)
    /\ UNCHANGED <<execution, pc, turn, reads, status, argumentVars>>

WriteAll ==
    /\ writes # <<>> /\ Head(writes).text # Undefined
    /\ Arrives(Head(writes).fd, Head(writes).text)
    /\ Written
    /\ UNCHANGED short

\* write(2) returns less than it was asked for, and FakeStream.write does not
\* look at what it returns.
WriteShort ==
    /\ writes # <<>> /\ Head(writes).text # Undefined /\ short < MaxShort
    /\ \E n \in 0..(Len(Head(writes).text) - 1) :
          Arrives(Head(writes).fd, SubSeq(Head(writes).text, 1, n))
    /\ short' = short + 1
    /\ Written

WriteFails == writes # <<>> /\ Head(writes).text # Undefined /\ Dies(3, "write")

\* duk_require_lstring throws on what is no string.
WriteNothing == writes # <<>> /\ Head(writes).text = Undefined /\ Throws

---------------------------------------------------------------------------
Ended == pc = "ended" /\ UNCHANGED vars

Init ==
    /\ execution \in Executions
    /\ pc = "start"
    /\ turn = 1 /\ reads = 0
    /\ writes = <<>>
    /\ out = [stdout |-> <<>>, stderr |-> <<>>]
    /\ short = 0
    /\ status = Undefined
    /\ words = <<>> /\ next = 1
    /\ options = NoOptions

Next ==
    \/ CreateHeap \/ Load \/ CallJrqMain
    \/ ReadOption \/ RefuseCode \/ StartTurns
    \/ ReadPiece \/ ReadFails \/ ParseThrows \/ FinishParse \/ FinishTurn \/ FinishHelp
    \/ WriteAll \/ WriteShort \/ WriteFails \/ WriteNothing
    \/ Ended

Spec == Init /\ [][Next]_vars
=============================================================================
