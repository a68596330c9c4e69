---------------------------- MODULE JrqSessions ----------------------------
(***************************************************************************)
(* Executions of jrq on the documents of JsonText, what each of them is    *)
(* asked for, and what the handlers of src/jrq.js owe it.                  *)
(***************************************************************************)
EXTENDS KeyPath, JsonText

---------------------------------------------------------------------------
(* The scripts of the parser. *)

\* The events of a document, with the calls of the nested parsers.
ScriptOf(doc) ==
    FoldLeft(LAMBDA items, e : items \o IF Announces(e) THEN <<e, Call>>
                                       ELSE IF Concludes(e) THEN <<Return, e>> ELSE <<e>>,
             <<>>, Inside(doc))

\* When the input ends, every parser returns and ends the container it was
\* called for, an array within an array without its index (json.js:161).
Abandoned(e) ==
    <<Return, Ev(IF e.event = "startArray" THEN "endArray" ELSE "endObject",
                 IF e.event = "startArray" /\ IsIndex(e.key) THEN Undefined ELSE e.key,
                 Undefined)>>

\* The script when the input ends after n items.
CutOff(script, n) ==
    LET open == OpenItems(script)[n]
    IN SubSeq(script, 1, n) \o FlattenSeq(Reverse([i \in DOMAIN open |-> Abandoned(open[i])]))

\* An announcement and the first event of the nested parser come from the same
\* character.  The parser does not get past the end of an array in an array.
CutOffs(script) ==
    {CutOff(script, n) :
        n \in {n \in 1..Len(script) :
                 /\ ~Announces(script[n]) /\ script[n] \notin {Call, Return}
                 /\ \A i \in 1..n : Concludes(script[i]) /\ script[i].event = "endArray"
                                       => ~IsIndex(script[i].key)}}

---------------------------------------------------------------------------
(* What is asked for. *)

\* The names of the members of an object are distinct.
KeysOf(doc) ==
    CASE doc.type = "scalar" -> {}
      [] doc.type = "array"  -> {[index |-> i - 1] : i \in DOMAIN doc.elements}
      [] doc.type = "object" -> {[name |-> doc.members[i].name] : i \in DOMAIN doc.members}

Part(doc, key) ==
    IF doc.type = "array" THEN doc.elements[key.index + 1]
    ELSE (CHOOSE m \in ToSet(doc.members) : m.name = key.name).doc

RECURSIVE ValueOf(_), At(_, _)

ValueOf(doc) ==
    IF doc.type = "scalar" THEN Parsed(doc.token)
    ELSE [type |-> doc.type, members |-> [key \in KeysOf(doc) |-> ValueOf(Part(doc, key))]]

\* The value at a path, or Undefined.
At(doc, path) ==
    IF path = <<>> THEN ValueOf(doc)
    ELSE IF Head(path) \in KeysOf(doc) THEN At(Part(doc, Head(path)), Tail(path)) ELSE Undefined

\* Without arguments the whole is asked for, else what the arguments name.
Wanted(doc, args) ==
    LET values == IF args = <<>> THEN <<ValueOf(doc)>> ELSE [i \in DOMAIN args |-> At(doc, args[i])]
    IN IF \A i \in DOMAIN values : values[i] = Undefined THEN <<>> ELSE <<[values |-> values]>>

Names(doc) ==
    IF doc.type = "object" THEN [i \in DOMAIN doc.members |-> [name |-> doc.members[i].name]]
    ELSE <<>>

\* With -k the names, one by one with -a; else with -a every element of an
\* array by itself.
Answer(doc, options) ==
    CASE options.keys /\ options.array ->
           [i \in DOMAIN Names(doc) |-> [keys |-> <<Names(doc)[i]>>]]
      [] options.keys /\ ~options.array -> <<[keys |-> Names(doc)]>>
      [] ~options.keys /\ options.array /\ doc.type = "array" ->
           FlattenSeq([i \in DOMAIN doc.elements |-> Wanted(doc.elements[i], options.args)])
      [] OTHER -> Wanted(doc, options.args)

Execution(options, parses, answers) ==
    [keys |-> options.keys, array |-> options.array, group |-> options.group,
     args |-> options.args, parses |-> parses, answers |-> answers]

Scripts(docs) == [i \in DOMAIN docs |-> ScriptOf(docs[i])]

\* One parse more than there are documents meets the end of the input.
Session(options, docs) ==
    Execution(options, Append(Scripts(docs), <<>>),
              IF options.array \/ options.group
              THEN FlattenSeq([i \in DOMAIN docs |-> Answer(docs[i], options)])
              ELSE Answer(docs[1], options))

\* An execution whose input ends within the last document, which script is for.
Unfinished(options, docs, script) ==
    Execution(options, Append(Scripts(docs), script), <<>>)

---------------------------------------------------------------------------
(* Properties. *)

\* What is written without the lines that hold no value, like the one for the
\* end of the input.
Printed ==
    SelectSeq(written, LAMBDA line : "values" \in DOMAIN line =>
                                       \E i \in DOMAIN line.values : line.values[i] # Undefined)

\* jrq prints what it is asked for: never a value too many or in the wrong
\* place, and at the end all of them; and it does not fail.
AnswersRequest ==
    /\ IsPrefix(Printed, session.answers)
    /\ main = "done" => Printed = session.answers
    /\ main # "failed"
=============================================================================
