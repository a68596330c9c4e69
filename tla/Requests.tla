------------------------------ MODULE Requests ------------------------------
(***************************************************************************)
(* What a user asks jrq for, the command lines that spell it, the text     *)
(* that answers it, and what the program owes such a command line.         *)
(***************************************************************************)
EXTENDS Program

---------------------------------------------------------------------------
(* Requests: an option or an operand, its value, and how the value is spelled. *)

Asks(name)               == [name |-> name, value |-> Undefined, spelled |-> Undefined]
AsksWith(name, value)    == [name |-> name, value |-> value, spelled |-> value]
AsksFor(name, value, as) == [name |-> name, value |-> value, spelled |-> as]

Letter == [indent0 |-> "0", indent2 |-> "2", indent4 |-> "4", json |-> "j", delimiter |-> "d",
           group |-> "g", array |-> "a", items |-> "M", keys |-> "k", help |-> "h",
           conditional |-> "c", evaluate |-> "e"]

Long == {"delimiter", "group", "array", "items", "keys", "help"}

TakesValue(name) == name \in {"delimiter", "conditional", "evaluate"}

\* A request by itself: style "short" is -d v, "joined" -dv, "long" --delimiter v
\* and "equals" --delimiter=v, as far as the option has such a form.
Alone(r, style) ==
    CASE r.name = "operand" -> <<r.spelled>>
      [] r.name = "rest"    -> <<<<"--">>>> \o r.spelled
      [] OTHER ->
           LET isLong == style \in {"long", "equals"} /\ r.name \in Long
               name   == IF isLong THEN <<"--", r.name>> ELSE <<"-", Letter[r.name]>>
           IN IF ~TakesValue(r.name) THEN <<name>>
              ELSE IF isLong /\ style = "equals" THEN <<name \o <<"=">> \o r.spelled>>
              ELSE IF style = "joined" /\ Len(r.spelled) = 1 /\ r.spelled[1] \notin VALID_OPTIONS
                   THEN <<name \o r.spelled>>
              ELSE <<name, r.spelled>>

\* Short options without a value may share the argument of the ones before.
Continues(argv, r) ==
    /\ argv # <<>> /\ r.name \in DOMAIN Letter /\ ~TakesValue(r.name)
    /\ LET last == argv[Len(argv)]
       IN last # <<>> /\ last[1] = "-" /\ \A i \in 2..Len(last) : last[i] \in VALID_OPTIONS \ {"d", "c", "e"}

\* A command line with one more request.
Spelling(argv, r, style) ==
    IF style = "joined" /\ Continues(argv, r)
    THEN Append(Front(argv), Append(Last(argv), Letter[r.name]))
    ELSE argv \o Alone(r, style)

\* The command line after each of the requests.
Spellings(requests, style) ==
    LET argv[n \in 0..Len(requests)] ==
          IF n = 0 THEN <<>> ELSE Spelling(argv[n - 1], requests[n], style)
    IN argv

Spell(requests, style) == Spellings(requests, style)[Len(requests)]

Applied(opts, r) ==
    CASE r.name = "indent0"     -> [opts EXCEPT !.indent = 0, !.format = "json"]
      [] r.name = "indent2"     -> [opts EXCEPT !.indent = 2, !.format = "json"]
      [] r.name = "indent4"     -> [opts EXCEPT !.indent = 4, !.format = "json"]
      [] r.name = "json"        -> [opts EXCEPT !.indent = 2, !.format = "json"]
      [] r.name = "items"       -> [opts EXCEPT !.memoize = TRUE]
      [] r.name = "operand"     -> [opts EXCEPT !.args = Append(@, r.value)]
      [] r.name = "rest"        -> [opts EXCEPT !.args = @ \o r.value]
      [] r.name \in {"group", "array", "keys", "help"}          -> [opts EXCEPT ![r.name] = TRUE]
      [] r.name \in {"delimiter", "conditional", "evaluate"} -> [opts EXCEPT ![r.name] = r.value]

\* The options after each of the requests.
Meanings(requests) ==
    LET opts[n \in 0..Len(requests)] ==
          IF n = 0 THEN NoOptions ELSE Applied(opts[n - 1], requests[n])
    IN opts

Meaning(requests) == Meanings(requests)[Len(requests)]

Styles == {"short", "joined", "long", "equals"}

\* A word by itself is not taken for options.
IsPlain(word) == word \in Seq(Symbols) /\ (word # <<>> => word[1] \notin {"-", "--"})

\* A value that is typed as it is, with \\t for a tab, or of an operand within
\* [" and "].
IsTyped(r) ==
    \/ r.name \in DOMAIN Letter /\ ~TakesValue(r.name)
    \/ r.name \in {"conditional", "evaluate"} /\ IsPlain(r.spelled) /\ r.value = r.spelled
    \/ r.name = "delimiter" /\ IsPlain(r.spelled) /\ r.value = Unescaped(r.spelled)
    \/ r.name = "operand" /\ IsPlain(r.spelled) /\ r.value = Unwrapped(r.spelled)
    \/ /\ r.name = "rest" /\ r.spelled \in Seq(Seq(Symbols))
       /\ \A i \in DOMAIN r.spelled : IsPlain(r.spelled[i])
       /\ r.value = [i \in DOMAIN r.spelled |-> Unwrapped(r.spelled[i])]

\* A request that an argument can spell: no "=" may follow the first one.
CanBeSpelled(r, style) ==
    /\ IsTyped(r)
    /\ Alone(r, style) \in Seq(Seq(Symbols))
    /\ r.name = "delimiter" /\ style = "equals" => \A i \in DOMAIN r.spelled : r.spelled[i] # "="

\* The requests of x are what its command line spells, and the operands after
\* "--" come last.
IsSpelled(x, style) ==
    /\ Len(x.requests) \in Nat
    /\ \A i \in 1..Len(x.requests) :
          /\ CanBeSpelled(x.requests[i], style)
          /\ i < Len(x.requests) => x.requests[i].name # "rest"
    /\ x.argv = Spell(x.requests, style)

RequestsSpelled ==
    \A x \in Executions : x.requests # Undefined => \E style \in Styles : IsSpelled(x, style)

---------------------------------------------------------------------------
(* Answers. *)

\* The fields with the text between them.
Joined(fields, between) ==
    FlattenSeq([i \in DOMAIN fields |-> IF i = 1 THEN fields[1] ELSE between \o fields[i]])

Field(value, opts) == IF IsUndefined(value) THEN <<>> ELSE Shown(value, opts)

\* A line for every object, and one for the values between two of them: with -a
\* they are its fields, else each has a line of its own.
Lines(row, opts) ==
    LET scalars(i, j) == \A k \in i..j : ~IsObject(row[k])
        fields(i, j)  == [k \in 1..(j - i + 1) |-> Field(row[i + k - 1], opts)]
        runEnd(i)     == CHOOSE j \in i..Len(row) :
                           scalars(i, j) /\ (j = Len(row) \/ IsObject(row[j + 1]))
        begins(i)     == ~IsObject(row[i]) /\ (i = 1 \/ IsObject(row[i - 1]))
    IN FlattenSeq([i \in DOMAIN row |->
         IF IsObject(row[i]) THEN Append(Json(row[i], opts.indent), Newline)
         ELSE IF begins(i)
              THEN Append(Joined(fields(i, runEnd(i)),
                                 IF opts.array THEN Text(opts.delimiter) ELSE <<Newline>>), Newline)
         ELSE <<>>])

\* Where the code does not lay out a row like that: a value, or what is missing,
\* directly before an object, and without -a what is missing at all.
Regular(row, opts) ==
    /\ \A a \in 1..(Len(row) - 1) : IsObject(row[a + 1]) => IsObject(row[a]) \/ a > 1
    /\ (\E a \in DOMAIN row : IsUndefined(row[a])) =>
          Len(row) = 1 \/ (opts.array /\ \A a \in DOMAIN row : ~IsObject(row[a]))

\* What a piece of the input gives: the text outside of documents, which is passed
\* on as it is, and the lines of the rows behind it.
Gives(piece, opts) ==
    Text(piece.unparsed)
    \o IF opts.keys THEN <<>>
       ELSE FlattenSeq([i \in DOMAIN piece.rows |-> Lines(piece.rows[i], opts)])

\* What the first n pieces of a turn give.
Found(t, n, opts) == FlattenSeq([i \in 1..n |-> Gives(t.reads[i], opts)])

ListedKeys(t, opts) == IF opts.keys THEN FlattenSeq(KeyWrites(t.keys, opts)) ELSE <<>>

\* What is found in the turn, n pieces of it read, and what is written at its end.
Given(t, n, place, opts) ==
    Found(t, n, opts) \o IF place = "flush" THEN ListedKeys(t, opts) ELSE <<>>

\* The answers of the first n turns.
Answers(turns, n, opts) ==
    FlattenSeq([i \in 1..n |-> Given(turns[i], Len(turns[i].reads), "flush", opts)])

\* Which turns a request is about: the first, unless -a or -g asks for all.
Asked(x, opts) ==
    IF opts.help THEN <<>>
    ELSE IF opts.array \/ opts.group THEN x.turns ELSE SubSeq(x.turns, 1, 1)

\* Nor does it without a delimiter.
IsRegular(x, opts) ==
    /\ opts.delimiter # Undefined
    /\ \A t \in ToSet(x.turns) : \A piece \in ToSet(t.reads) :
          \A row \in ToSet(piece.rows) : Regular(row, opts)

---------------------------------------------------------------------------
(* Properties. *)

HasOptions == pc \in {"help", "read", "flush"}

\* Whatever form a request has (-a, --array, in one argument with others, with
\* its value in the same argument or in the next), the options are what it asks
\* for (jrq.js:36-136).
MeansWhatItSpells ==
    HasOptions /\ execution.requests # Undefined => options = Meaning(execution.requests)

Failed == out.stdout # <<>> /\ Last(out.stdout) = <<"we failed">>

Answer == IF Failed THEN Front(out.stdout) ELSE out.stdout

\* The text with a piece of it missing.
WithGap(text, whole) ==
    \E i \in 0..Len(whole) : \E j \in i..Len(whole) :
        \E k \in j..Len(whole) : text = SubSeq(whole, 1, i) \o SubSeq(whole, j + 1, k)

\* What arrives at stdout is the answer in its order and layout, with the text
\* outside of documents where it was, up to where the program is, save the rest of
\* the one write that was short; a program that ends with status 0 and without an
\* exception has left nothing else out (jrq.js:267-269, 333-400, fakestream.js:39-45,
\* jrq.c:44-66).
OutputAnswers ==
    LET asked == Asked(execution, options)
        whole == Answers(asked, Len(asked), options)
    IN (HasOptions \/ pc = "ended") /\ IsRegular(execution, options) =>
           /\ short = 0 => IsPrefix(Answer, whole)
           /\ short = 1 => WithGap(Answer, whole)
           /\ status = 0 /\ ~Failed /\ short = 0 => Answer = whole

\* The text of all that was found so far.
FoundSoFar == Answers(execution.turns, turn - 1, options) \o Given(Turn, reads, pc, options)

\* jrq asks for more input only when all that it has found so far has arrived, the
\* text that it passes on included, so that a read(2) that fails, or never returns,
\* loses nothing of it (jrq.c:28-39, jrq.js:262-269).
AnswersPrecedeReads ==
    [][(reads' > reads \/ turn' > turn \/ status' = 2)
         /\ short = 0 /\ IsRegular(execution, options) => out.stdout = FoundSoFar]_vars
=============================================================================
