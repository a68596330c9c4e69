---------------------------- MODULE MCFindings ----------------------------
(***************************************************************************)
(* Documents the parser of src/json.js does not get right, each kind with  *)
(* some documents of the same shape that it does.                          *)
(***************************************************************************)
EXTENDS JsonDocuments

Number == Scalar(<<"num", "num">>)
String(s) == Scalar(Quoted(s))
Single(doc) == Object(<<Member(<<"x">>, doc)>>)

\* Every place a container can stand in.
Around(doc) == {Array(<<doc>>), Array(<<doc, Number>>), Single(doc)}

\* An array within an array, where an object within one is reported well.
NestedArrays ==
    {InputOf(<<d>>, <<>>, <<>>) :
       d \in UNION {Around(inner) : inner \in {Single(Number), Array(<<Number>>)}}}

\* A read that ends within a number, where one at any other place is harmless.
SplitNumbers ==
    {AnyCuts(InputOf(<<d>>, <<>>, <<>>)) : d \in Around(Number)}

\* Input that ends before the document does: any beginning of its text.
Truncated ==
    {[whole EXCEPT !.text = SubSeq(@, 1, n), !.cuts = {}] :
       n \in 1..5, whole \in {InputOf(<<d>>, <<>>, <<>>) : d \in Around(String(<<"x">>))}}
===========================================================================
