------------------------------ MODULE KeyPath ------------------------------
(***************************************************************************)
(* keyStack, by which keyInPath of src/jrq.js finds what the arguments     *)
(* name, compared with the containers the script of the parser is in.      *)
(***************************************************************************)
EXTENDS Jrq, SequencesExt, FiniteSets

Announces(item) == Starts(item) /\ Keyed(item)
Concludes(item) == Ends(item) /\ Keyed(item)

\* OpenItems(script)[n]: the announcements of the containers that are not yet
\* concluded after n items, outermost first.
OpenItems(script) ==
    LET open[n \in 0..(Len(script) + 1)] ==
          IF n = 0 THEN <<>>
          ELSE IF n > Len(script) THEN open[n - 1]
          ELSE IF Announces(script[n]) THEN Append(open[n - 1], script[n])
          ELSE IF Concludes(script[n]) THEN Front(open[n - 1])
          ELSE open[n - 1]
    IN open

\* How many of the first n calls are parsers: the k-th parser announced the k-th
\* of the open containers, the innermost parser perhaps none.
Parsers(frames, n) == Cardinality({i \in 1..n : frames[i].call = "parse"})

\* The open containers whose announcement has been interrupted by their parser.
Hydrating(frames) ==
    {Parsers(frames, i) : i \in {i \in 1..(Len(frames) - 1) : frames[i].call = "emit"}}

\* The keys of the open containers, without some of them.
KeysWithout(open, some) ==
    FlattenSeq([k \in DOMAIN open |-> IF k \in some THEN <<>> ELSE <<open[k].key>>])

\* keyStack, by which keyInPath finds a member, is the path of the containers
\* that are announced and not yet concluded, whatever is hydrated meanwhile and
\* whoever called the parsers of nested containers; only an object that an
\* argument names is hydrated before its key is pushed (jrq.js:188-199, 284-328).
KeyStackIsPath ==
    LET open      == OpenItems(Script)[at - 1]
        unpushed  == IF session.args = <<>> THEN {} ELSE Hydrating(calls)
        inHandler == Running("emit") /\ Current.handler = 1
    IN main # "failed" /\ ~session.keys /\ ~inHandler =>
           keyStack = KeysWithout(open, unpushed)

---------------------------------------------------------------------------
(* The requests whose results a hydrater that is still registered leaves alone. *)

\* No argument is the path of an object.  With -a the index of an element is
\* left out where the first container is an array.
NamesNoObject(s, script) ==
    \A n \in 1..Len(script) :
        Announces(script[n]) /\ script[n].event = "startObject" =>
            LET keys == KeysWithout(OpenItems(script)[n - 1], {})
            IN \A i \in 1..Len(s.args) :
                  /\ s.args[i] # Append(keys, script[n].key)
                  /\ s.array => s.args[i] # Append(SubSeq(keys, 2, Len(keys)), script[n].key)

\* The document is an array, and the containers in it are objects.  Each is
\* concluded, and found without a value, as soon as its parser returns.
ListsObjects(script) ==
    \A n \in 1..Len(script) :
        LET open == OpenItems(script)[n - 1]
        IN /\ Starts(script[n]) /\ open = <<>> =>
                 IF Keyed(script[n]) THEN script[n].event = "startObject" /\ IsIndex(script[n].key)
                 ELSE script[n].event = "startArray"
           /\ script[n] = Return /\ Len(open) = 1 =>
                 /\ n + 2 <= Len(script)
                 /\ script[n + 1].event = "endObject" /\ Keyed(script[n + 1]) /\ IsIndex(script[n + 1].key)
                 /\ script[n + 2].event = "foundValue" /\ script[n + 2].value = Undefined

\* -k; whole documents; members and elements that are no objects; with -a the
\* objects in an array.
Undisturbed(s) ==
    \/ s.keys
    \/ s.args = <<>> /\ ~s.array
    \/ s.args # <<>> /\ \A i \in 1..Len(s.parses) : NamesNoObject(s, s.parses[i])
    \/ s.args = <<>> /\ s.array /\ \A i \in 1..Len(s.parses) : ListsObjects(s.parses[i])
=============================================================================
