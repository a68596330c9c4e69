---------------------------- MODULE MCDocuments ----------------------------
(***************************************************************************)
(* The parser on the documents it is written for, cut into reads at every  *)
(* place where it supports a cut, with and without white space between     *)
(* tokens, one or two documents after one another, and other text between  *)
(* them.  The forms the parser does not get right are in MCFindings.       *)
(***************************************************************************)
EXTENDS JsonDocuments

x == <<"x">>

Number  == Scalar(<<"num", "exp">>)
Literal == {Scalar(<<c>>) : c \in {"t", "f", "n"}}
Strings == {Scalar(Quoted(s)) : s \in {<<>>, <<"x", "ws", "}">>, <<"bslash", "quote">>,
                                       <<"bslash", "bslash">>}}

Scalars == {Number} \cup Literal \cup Strings
Some    == {Number, Scalar(Quoted(<<"bslash", "quote", "]">>))}

Single(name, doc) == Object(<<Member(name, doc)>>)

Flat ==
    {Array(<<>>)} \cup {Array(<<a>>) : a \in Scalars} \cup {Array(<<a, b>>) : a, b \in Some}
    \cup {Single(x, a) : a \in Scalars}
    \cup {Object(<<Member(x, a), Member(<<"bslash", "quote">>, b)>>) : a, b \in Some}

Inner == {Array(<<>>), Array(<<Number, Number>>), Single(x, Number)}

\* A container is followed by a sibling, whose key or index it must not disturb.
Nested ==
    {Object(<<Member(x, d), Member(<<"x", "x">>, Number)>>) : d \in Inner}
    \cup {Array(<<d, Number>>) : d \in {Single(x, a) : a \in Some}}
    \cup {Single(x, Array(<<Single(x, d), Single(x, Number)>>)) : d \in Inner}

MCInputs ==
    {InputOf(<<d>>, pad, <<>>) : d \in Flat \cup Nested, pad \in {<<>>, <<"ws">>}}
    \cup {InputOf(<<d, e>>, <<>>, gap) : d, e \in Inner, gap \in {<<>>, <<"x", "ws">>}}
===========================================================================
