------------------------------ MODULE MCJrqAny ------------------------------
(***************************************************************************)
(* Executions of jrq with every combination of the options, whether they   *)
(* answer the request or not, on documents of any shape, with values that  *)
(* JSON.parse throws on, and with input that ends anywhere.                *)
(***************************************************************************)
EXTENDS MCJrq

NoValue == Scalar(<<"num", "exp">>)

AnyOptions ==
    [keys : BOOLEAN, array : BOOLEAN, group : BOOLEAN,
     args : {<<>>, <<<<a>>>>, <<<<b, a>>, <<b>>>>, <<<<[index |-> 0]>>, <<a, a>>>>}]

AnyDocs == {Pair(Obj(a, Obj(a, One)), Array(<<Obj(a, One), One>>)),
            Array(<<Obj(a, Obj(b, One)), NoValue>>),
            Obj(b, Pair(Array(<<One>>), Obj(a, NoValue)))}

\* Arrays within arrays: only ever part of what is parsed.
DeepDocs == {Array(<<Array(<<Array(<<One, Obj(a, One)>>)>>)>>),
             Obj(a, Array(<<Array(<<Obj(b, One)>>)>>))}

AnySessions ==
    {Session(options, <<d, e>>) : options \in AnyOptions, d, e \in AnyDocs}
    \cup {Unfinished(options, docs, script) :
            options \in AnyOptions, docs \in {<<>>, <<Array(<<Obj(a, One)>>)>>},
            script \in UNION {CutOffs(ScriptOf(d)) : d \in AnyDocs \cup DeepDocs}}

AnyMalformed == {<<"num", "exp">>}
=============================================================================
