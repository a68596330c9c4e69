----------------------------- MODULE MCProgram -----------------------------
(***************************************************************************)
(* Command lines in all their forms over short answers, and answers of all *)
(* shapes under the options that change their layout, with text between    *)
(* the documents; good and bad scripts; every system call may fail, and    *)
(* MaxShort writes may be short.                                           *)
(***************************************************************************)
EXTENDS Requests

Str  == [type |-> "string", name |-> "s"]
Name == [type |-> "string", name |-> "k"]
Num  == [type |-> "number", name |-> "n"]
Obj  == [type |-> "object", name |-> "o"]
None == [type |-> "undefined"]

MCValues == {Str, Name, Num, Obj, None}

MCSymbols ==
    OwnSymbols
    \cup {"--", "=", "delimiter", "group", "array", "items", "keys", "help",
          "\\t", "\\0", "[\"", "\"]", ",", ";", "x", "y", "z", "("}

MCBadCode == {<<"(">>}

Run(requests, argv, script, turns) ==
    [requests |-> requests, argv |-> argv, script |-> script, turns |-> turns]

---------------------------------------------------------------------------
(* Turns.  A row has a value for each operand, and one of them is there;   *)
(* without operands it is the document, which is missing when the input is *)
(* at its end.  Without -a there is one row, when the document is read.    *)

Piece(rows)           == [kept |-> FALSE, unparsed |-> <<>>, rows |-> rows]
After(text, rows)     == [kept |-> FALSE, unparsed |-> text, rows |-> rows]
KeptAfter(text, rows) == [kept |-> TRUE, unparsed |-> text, rows |-> rows]

Taking(pieces) == [reads |-> pieces, keys |-> <<>>, fails |-> FALSE]
Reading(rows)  == Taking([i \in DOMAIN rows |-> Piece(rows[i])])
Throwing(t)    == [t EXCEPT !.fails = TRUE]

\* The turn that only meets the end of the input.
Closing(operands, isArray) ==
    Reading(<<IF operands = 0 /\ ~isArray THEN <<<<None>>>> ELSE <<>>>>)

RowOf(operands) == IF operands = 0 THEN <<Obj>> ELSE [i \in 1..operands |-> Str]

Brief(operands, isArray) == <<Reading(<<<<RowOf(operands)>>>>), Closing(operands, isArray)>>

Rows(operands) ==
    CASE operands = 0 -> {<<Obj>>}
      [] operands = 1 -> {<<Str>>, <<Num>>, <<Obj>>}
      [] operands = 2 -> {<<Str, Num>>, <<None, Num>>, <<Num, None>>, <<Obj, Str>>, <<Str, Obj>>, <<Obj, Obj>>}
      [] operands = 3 -> {<<Str, None, Num>>, <<Obj, Str, Obj>>, <<Str, Num, Obj>>}

---------------------------------------------------------------------------
(* Command lines. *)

Simple == {Asks(name) : name \in {"indent0", "indent2", "indent4", "json", "group", "array", "items", "keys", "help"}}

Valued ==
    {AsksWith("delimiter", <<",">>), AsksWith("delimiter", <<",", ";">>),
     AsksFor("delimiter", <<"tab">>, <<"\\t">>), AsksFor("delimiter", <<"zero">>, <<"\\0">>),
     AsksWith("conditional", <<"x">>), AsksWith("evaluate", <<"x">>)}

Operands == {AsksWith("operand", <<"x">>), AsksFor("operand", <<"y">>, <<"[\"", "y", "\"]">>)}

Wishes ==
    {<<r>> : r \in Simple \cup Valued \cup Operands}
    \cup {<<r, s>> : r, s \in Simple \cup Valued \cup Operands}
    \cup {<<r, Asks("array"), s>> : r \in Simple, s \in Valued \cup Operands}
    \cup {<<r, AsksWith("rest", <<<<"x">>, <<"y">>>>)>> : r \in Simple \cup Valued \cup Operands}

Spelled ==
    {LET meant == Meaning(w)
     IN Run(w, Spell(w, style), "good", Brief(Len(meant.args), meant.array)) : w \in Wishes, style \in Styles}

\* A value that is missing or that is an option, one that is no code, an option that
\* does not exist.
Odd ==
    {Run(Undefined, argv, "good", Brief(0, FALSE)) :
        argv \in {<<<<"-", "a", "d">>>>, <<<<"-", "c">>, <<"(">>>>}}
    \cup {Run(Undefined, argv, "good", Brief(1, FALSE)) :
            argv \in {<<<<"-">>>>, <<<<"-", "x", "a">>>>, <<<<"-", "d", "a">>, <<"x">>>>}}
    \cup {Run(Undefined, argv, "good", Brief(2, FALSE)) :
            argv \in {<<<<"x">>, <<"y">>, <<"-", "a", "d">>>>, <<<<"--">>, <<"-", "x", "y">>>>}}

---------------------------------------------------------------------------
(* Answers. *)

Names == <<"x", "y", "z">>

\* Requests with so many operands, and their answers in these turns.
Runs(operands, requests, turns) ==
    LET w == [i \in 1..operands |-> AsksWith("operand", <<Names[i]>>)] \o requests
    IN Run(w, Spell(w, "short"), "good", turns)

\* Where rows are written while parse() reads.
Streams(n) == {<<Reading(<<<<r>>, <<s, r>>>>), Closing(n, TRUE)>> : r, s \in Rows(n)}

Documents(n, isArray) ==
    {<<Reading(<<<<>>, <<r>>>>), Reading(<<<<s>>>>), Closing(n, isArray)>> : r, s \in Rows(n)}

\* Documents on lines of their own: the end of a line is kept with the document
\* behind it, or read with it; other text may come in pieces of its own.
Line == <<"newline">>

Lined(n, isArray) ==
    {<<Reading(<<<<r>>>>), Taking(<<KeptAfter(Line, <<s>>)>>), Closing(n, isArray)>> : r, s \in Rows(n)}
    \cup {<<Reading(<<<<>>, <<r>>>>), Taking(<<After(Line, <<r>>)>>), Closing(n, isArray)>> : r \in Rows(n)}
    \cup {<<Taking(<<After(<<"x">>, <<>>), After(<<"y", "newline">>, <<>>), Piece(<<r>>)>>),
            Taking(<<KeptAfter(Line, <<>>), Piece(<<r>>)>>),
            [Closing(n, isArray) EXCEPT !.reads = <<KeptAfter(<<"newline", "z">>, <<>>)>> \o @]>> :
              r \in Rows(n)}

Listed(pieces, names) == [Taking(pieces) EXCEPT !.keys = names]

Keys ==
    {<<Listed(<<Piece(<<>>)>>, <<Str, Name>>), Listed(<<Piece(<<>>)>>, <<>>)>>,
     <<Listed(<<Piece(<<>>)>>, <<Str, Name>>), Listed(<<KeptAfter(Line, <<>>), Piece(<<>>)>>, <<Name>>),
       Listed(<<Piece(<<>>)>>, <<>>)>>}

Answering ==
    UNION {{Runs(n, w, turns) :
              turns \in Streams(n),
              w \in {<<Asks("array")>>, <<Asks("array"), AsksWith("delimiter", <<",", ";">>), Asks("json")>>}} :
           n \in 0..2}
    \cup UNION {{Runs(n, <<Asks("group")>>, turns) : turns \in Documents(n, FALSE) \cup Lined(n, FALSE)} :
                n \in 0..3}
    \cup UNION {{Runs(n, <<Asks("group"), Asks("array"), Asks("indent4")>>, turns) :
                   turns \in Documents(n, TRUE) \cup Lined(n, TRUE)} : n \in 1..3}
    \cup {Runs(1, <<>>, turns) : turns \in Lined(1, FALSE)}
    \cup {Runs(1, <<Asks("array")>>, <<Throwing(Taking(<<After(Line, <<>>), Piece(<<<<Str>>>>)>>))>>)}
    \cup {Runs(0, w, turns) :
            turns \in Keys, w \in {<<Asks("keys")>>, <<Asks("keys"), Asks("group")>>, <<Asks("keys"), Asks("array")>>}}
    \cup {Run(<<>>, <<>>, script, Brief(0, FALSE)) : script \in {"good", "bad", "without"}}

MCExecutions == Spelled \cup Odd \cup Answering

ASSUME CommandLinesAreSpelled == RequestsSpelled
===========================================================================
