------------------------------- MODULE Output -------------------------------
(***************************************************************************)
(* What writeFoundKeys and the end of a turn in innerMain (src/jrq.js)     *)
(* give to stdout for the rows of values, or the keys, that were found:    *)
(* the text of each call of FakeStream.write, in order.  A text is a       *)
(* sequence of units; the one a value is shown as has two of them, so that *)
(* a write can end within it.                                              *)
(***************************************************************************)
EXTENDS Arguments

Newline == <<"char", "newline">>

\* A word of the command line as text; a delimiter that is Undefined has none.
Text(word) ==
    IF word = Undefined THEN Undefined ELSE [i \in DOMAIN word |-> <<"char", word[i]>>]

\* JSON.stringify and toString
Json(value, indent) == [half \in 1..2 |-> <<"json", value, indent, half>>]
Plain(value)        == [half \in 1..2 |-> <<"plain", value, half>>]

\* typeof; the members of an array and of an object are all the same to it.
IsObject(value)    == value.type = "object"
IsUndefined(value) == value.type = "undefined"

\* Mutant: a delimiter after every value.
DelimiterAlways(row, a, opts) == opts.array \/ a < Len(row)

\* Nothing separates a value from an object that follows it.
Separates(row, a, opts) == a < Len(row) /\ ~IsObject(row[a + 1])

Shown(value, opts) ==
    IF value.type = "string" /\ opts.format = "json" THEN Json(value, opts.indent) ELSE Plain(value)

\* One turn of the loop of writeFoundKeys.
ValueWrites(row, a, opts) ==
    CASE IsUndefined(row[a]) ->
           IF a < Len(row) THEN <<Text(opts.delimiter)>> ELSE <<>>
      [] IsObject(row[a]) ->
           (IF a > 2 /\ ~IsObject(row[a - 1]) THEN <<<<Newline>>>> ELSE <<>>)
           \o <<Append(Json(row[a], opts.indent), Newline)>>
      [] OTHER ->
           <<Shown(row[a], opts)>>
           \o (IF Separates(row, a, opts)
               THEN <<IF opts.array THEN Text(opts.delimiter) ELSE <<Newline>>>> ELSE <<>>)

RowWrites(row, opts) ==
    FlattenSeq([a \in DOMAIN row |-> ValueWrites(row, a, opts)])
    \o (IF IsObject(row[Len(row)]) THEN <<>> ELSE <<<<Newline>>>>)

\* With -a one line for each key, else the array of them.
KeyWrites(keys, opts) ==
    IF opts.array THEN [i \in DOMAIN keys |-> Append(Plain(keys[i]), Newline)]
    ELSE <<Append(Json(keys, opts.indent), Newline)>>
=============================================================================
