------------------------------- MODULE MCJrq -------------------------------
(***************************************************************************)
(* The executions of jrq that do what they are asked for: whole documents  *)
(* with and without -g, scalar members by their paths with and without -a, *)
(* the elements of an array with -a, and the names of members with -k.     *)
(* The requests that go wrong are in MCJrqFindings.                        *)
(***************************************************************************)
EXTENDS JrqSessions

a == [name |-> <<"x">>]
b == [name |-> <<"x", "x">>]
c == [name |-> <<"num">>]

One == Scalar(<<"num">>)
Two == Scalar(<<"num", "num">>)

Obj(key, doc) == Object(<<Member(key.name, doc)>>)
Pair(doc1, doc2) == Object(<<Member(a.name, doc1), Member(b.name, doc2)>>)

Options(args) == [keys |-> FALSE, array |-> FALSE, group |-> FALSE, args |-> args]
WithGroup(options) == [options EXCEPT !.group = TRUE]
WithArray(options) == [options EXCEPT !.array = TRUE]
WithKeys(options)  == [options EXCEPT !.keys = TRUE]

---------------------------------------------------------------------------
Inner == {One, Array(<<One, Two>>), Obj(a, Two), Obj(b, Array(<<Two>>)), Obj(a, Obj(a, One))}

\* No array holds a container.
Objs  == {Pair(d, e) : d, e \in Inner} \cup {Obj(b, Pair(d, One)) : d \in Inner}
Plain == {Array(<<>>), Array(<<One, Two>>)} \cup Objs

\* The elements of an array; a is not a container in any of them.
Elements == {Obj(a, One), Obj(b, Two), Pair(One, Obj(a, Two)), Pair(Two, Array(<<One>>))}
Arrays   == {Array(<<d, e>>) : d, e \in Elements} \cup {Array(<<d, One>>) : d \in Elements}

\* Arguments, each with the documents in which it names no container.
ScalarAt(args, docs) ==
    {d \in docs : \A i \in DOMAIN args :
        LET value == At(d, args[i]) IN value = Undefined \/ "scalar" \in DOMAIN value}

Args == {<<<<a>>>>, <<<<b, a>>, <<a>>>>, <<<<a>>, <<a>>, <<c>>>>, <<<<b, [index |-> 1]>>>>,
         <<<<a, a, a>>, <<b, b>>>>}

MCSessions ==
    {Session(Options(<<>>), <<d, Array(<<One>>)>>) : d \in Plain}
    \cup {Session(WithGroup(Options(<<>>)), <<d, e>>) : d, e \in {Array(<<One>>)} \cup {Pair(f, f) : f \in Inner}}
    \cup UNION {{Session(Options(args), <<d>>) : d \in ScalarAt(args, Plain)} : args \in Args}
    \cup UNION {{Session(WithGroup(Options(args)), <<d, e>>) :
                    d \in ScalarAt(args, {Pair(f, One) : f \in Inner}), e \in ScalarAt(args, Arrays)} :
                args \in Args}
    \cup {Session(WithArray(Options(<<>>)), <<Array(<<d, e>>)>>) : d, e \in Elements}
    \cup {Session(WithArray(Options(args)), <<d>>) : d \in Arrays, args \in {<<<<a>>>>, <<<<b, a>>, <<a>>>>}}
    \cup {Session(WithArray(Options(<<<<a>>>>)), <<d, e>>) : d, e \in {Array(<<f, Obj(b, One)>>) : f \in Elements}}
    \cup {Session(WithKeys(Options(<<>>)), <<d>>) : d \in Plain}
    \cup {Session(WithArray(WithKeys(Options(<<>>))), <<d, e>>) : d \in Objs, e \in {Array(<<One>>), Pair(One, Obj(a, Two))}}

MCMalformed == {}

---------------------------------------------------------------------------
(* The hypotheses of AlwaysSettled and ResultsAlwaysKeep in SettledProofs. *)

\* Where the script is after each of its items: at most one level follows.
TrailOf(script) ==
    LET Near(from) == [parsers : {from.parsers - 1, from.parsers, from.parsers + 1} \cap Nat,
                       where : {"outside", "inside", "announced", "nested"}]
        trail[i \in 0..(Len(script) + 1)] ==
            IF i = 0 THEN [parsers |-> 1, where |-> "outside"]
            ELSE LET from == trail[i - 1]
                     item == IF i > Len(script) THEN Return ELSE script[i]
                 IN CHOOSE to \in Near(from) : Takes(from, item, to)
    IN trail

ASSUME CompleteDocumentsAreBracketed ==
    \A request \in MCSessions : \A i \in DOMAIN request.parses :
        IsTrail(TrailOf(request.parses[i]), request.parses[i])

ASSUME RequestsAreUndisturbed == \A request \in MCSessions : Undisturbed(request)
===========================================================================
