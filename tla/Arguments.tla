----------------------------- MODULE Arguments -----------------------------
(***************************************************************************)
(* parseArguments of src/jrq.js.  An argument is a sequence of symbols: a  *)
(* leading "--" or "-", "=", the letters of the short options, the names   *)
(* of the long ones, and others.  It is read in two passes: the first one  *)
(* takes the arguments apart into words (short options one by one, long    *)
(* ones at every "="), the second one is a switch over the words.          *)
(***************************************************************************)
EXTENDS Integers, Sequences, SequencesExt

CONSTANTS
    Undefined,   \* JavaScript's undefined
    Symbols,     \* what an argument consists of
    BadCode      \* the words the Function constructor refuses

VALID_OPTIONS == {"0", "2", "4", "j", "a", "d", "g", "M", "c", "e", "k", "h"}

\* The characters that the program itself puts into a word or an output.
OwnSymbols == VALID_OPTIONS \cup {"-", " ", "tab", "vtab", "newline", "zero"}

ASSUME SymbolsSuffice == OwnSymbols \subseteq Symbols

ASSUME BadCodeIsWords == BadCode \subseteq Seq(Symbols)

ASSUME UndefinedIsNoWord == Undefined \notin Seq(Symbols)

VARIABLES
    words,      \* a, and then argv, of parseArguments
    next,       \* its index i, from 1
    options     \* opts

argumentVars == <<words, next, options>>

NoOptions ==
    [indent |-> 2, delimiter |-> <<" ">>, args |-> <<>>, format |-> "jsony", group |-> FALSE,
     array |-> FALSE, memoize |-> FALSE, keys |-> FALSE, conditional |-> Undefined,
     evaluate |-> Undefined, help |-> FALSE]

\* split('=')
Split(arg) ==
    LET parts[n \in 0..Len(arg)] ==
          IF n = 0 THEN <<<<>>>>
          ELSE LET before == parts[n - 1]
               IN IF arg[n] = "=" THEN Append(before, <<>>)
                  ELSE [before EXCEPT ![Len(before)] = Append(@, arg[n])]
    IN parts[Len(arg)]

\* Mutant: letters are options whether jrq has one of that name or not.
AllLetters(arg) ==
    IF arg # <<>> /\ arg[1] = "--" THEN Split(arg)
    ELSE IF arg # <<>> /\ arg[1] = "-" THEN [i \in 1..(Len(arg) - 1) |-> <<"-", arg[i + 1]>>]
    ELSE <<arg>>

\* A letter that is no option becomes a word of its own, so the value of -d may
\* follow in the same argument.
WordsOf(arg) ==
    IF arg # <<>> /\ arg[1] = "--" THEN Split(arg)
    ELSE IF arg # <<>> /\ arg[1] = "-"
         THEN [i \in 1..(Len(arg) - 1) |->
                 IF arg[i + 1] \in VALID_OPTIONS THEN <<"-", arg[i + 1]>> ELSE <<arg[i + 1]>>]
    ELSE <<arg>>

Word  == words[next]
Value == IF next < Len(words) THEN words[next + 1] ELSE Undefined   \* argv[++i]

Take(n) == next' = next + n /\ UNCHANGED words

---------------------------------------------------------------------------
(* The cases of the switch. *)

Indentation ==
    /\ Word \in {<<"-", "0">>, <<"-", "2">>, <<"-", "4">>, <<"-", "j">>}
    /\ options' = [options EXCEPT !.format = "json",
                                  !.indent = CASE Word[2] = "0" -> 0 [] Word[2] = "4" -> 4 [] OTHER -> 2]
    /\ Take(1)

Delimiter ==
    /\ Word \in {<<"-", "d">>, <<"--", "delimiter">>}
    /\ options' = [options EXCEPT !.delimiter = Value]
    /\ Take(2)

Flag ==
    /\ \/ Word \in {<<"-", "g">>, <<"--", "group">>} /\ options' = [options EXCEPT !.group = TRUE]
       \/ Word \in {<<"-", "a">>, <<"--", "array">>} /\ options' = [options EXCEPT !.array = TRUE]
       \/ Word \in {<<"-", "M">>, <<"--", "items">>} /\ options' = [options EXCEPT !.memoize = TRUE]
       \/ Word \in {<<"-", "k">>, <<"--", "keys">>} /\ options' = [options EXCEPT !.keys = TRUE]
       \/ Word \in {<<"-", "h">>, <<"--", "help">>} /\ options' = [options EXCEPT !.help = TRUE]
    /\ Take(1)

IsCode == Word \in {<<"-", "c">>, <<"-", "e">>}

\* new Function(), of which nothing makes use.
Code ==
    /\ IsCode /\ Value \notin BadCode
    /\ options' = IF Word = <<"-", "c">> THEN [options EXCEPT !.conditional = Value]
                  ELSE [options EXCEPT !.evaluate = Value]
    /\ Take(2)

\* The loop of "--" takes all the words that are left.
Rest ==
    /\ Word = <<"--">>
    /\ options' = [options EXCEPT !.args = @ \o SubSeq(words, next + 1, Len(words))]
    /\ next' = Len(words) + 1
    /\ UNCHANGED words

Named ==
    {<<"-", c>> : c \in VALID_OPTIONS}
    \cup {<<"--", name>> : name \in {"delimiter", "group", "array", "items", "keys", "help"}}
    \cup {<<"--">>}

Operand ==
    /\ Word \notin Named
    /\ options' = [options EXCEPT !.args = Append(@, Word)]
    /\ Take(1)

OptionTurn == Indentation \/ Delimiter \/ Flag \/ Code \/ Rest \/ Operand

---------------------------------------------------------------------------
(* What follows the loop. *)

Unescaped(delimiter) ==
    CASE delimiter = <<"\\t">> -> <<"tab">>
      [] delimiter = <<"\\v">> -> <<"vtab">>
      [] delimiter = <<"\\n">> -> <<"newline">>
      [] delimiter = <<"\\0">> -> <<"zero">>
      [] OTHER -> delimiter

\* replace(/^\["(.*)"\]$/, '$1')
Unwrapped(arg) ==
    IF Len(arg) > 1 /\ arg[1] = "[\"" /\ arg[Len(arg)] = "\"]" THEN SubSeq(arg, 2, Len(arg) - 1)
    ELSE arg

Completed(opts) ==
    [opts EXCEPT !.delimiter = Unescaped(@), !.args = [i \in DOMAIN @ |-> Unwrapped(@[i])]]
===========================================================================
