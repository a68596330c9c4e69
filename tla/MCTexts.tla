------------------------------ MODULE MCTexts ------------------------------
(***************************************************************************)
(* The parser on arbitrary text, most of it not JSON: every text of up to  *)
(* three characters behind a beginning that leads into each kind of        *)
(* nesting, with reads that may end after any of those characters.         *)
(***************************************************************************)
EXTENDS JsonParse

\* One character of each class that a parser in some state tells apart.
Alphabet == {"{", "}", "[", "]", ",", ":", "quote", "bslash", "ws", "num", "x"}

Key1 == <<"{", "quote", "x", "quote", ":">>

Heads == {<<>>, <<"[">>, Key1, <<"[">> \o Key1, <<"[", "[">>, Key1 \o <<"[">>,
          <<"[", "[", "]">>, <<"[", "num", "}">>}

Tails == UNION {[1..n -> Alphabet] : n \in 0..3}

MCInputs ==
    {[text |-> head \o tail, cuts |-> Len(head)..Len(head \o tail)] :
       head \in Heads, tail \in Tails}
===========================================================================
