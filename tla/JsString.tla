----------------------------- MODULE JsString -----------------------------
(***************************************************************************)
(* Strings as the parser sees them: sequences of characters, of which it   *)
(* tells only classes apart.  quote and bslash are the two characters a    *)
(* string is scanned for; ws stands for the space, tab and newline that    *)
(* _skipWhiteSpace skips, cr for what only trim() removes (a carriage      *)
(* return); num for a sign or a digit, exp for + . e E; t, f and n for the *)
(* letters of true, false and null; x for every other character.           *)
(***************************************************************************)
EXTENDS Integers, Sequences, FiniteSets

CONSTANT Undefined   \* JavaScript's undefined, and the null read() ends with

Chars == {"{", "}", "[", "]", ",", ":", "quote", "bslash", "ws", "cr",
          "num", "exp", "t", "f", "n", "x"}

ASSUME UndefinedIsNoString == Undefined \notin Seq(Chars)

\* str.trim().length === 0
Blank(s) == \A i \in 1..Len(s) : s[i] \in {"ws", "cr"}

\* The length of the longest prefix of s with characters of C only.
Span(s, C) == Cardinality({i \in 1..Len(s) : \A j \in 1..i : s[j] \in C})

\* s.slice(i - 1)
From(s, i) == SubSeq(s, i, Len(s))

OrEmpty(s) == IF s = Undefined THEN <<>> ELSE s

\* Mutant: trim() in the place of _skipWhiteSpace.
TrimWhiteSpace(s) ==
    LET solid == {i \in 1..Len(s) : s[i] # "ws"}
    IN IF solid = {} THEN s
       ELSE CHOOSE t \in {SubSeq(s, i, j) : i, j \in solid} :
              \A i, j \in solid : Len(t) >= j - i + 1

\* _skipWhiteSpace leaves a string of nothing but white space alone.
SkipWhiteSpace(s) ==
    IF Span(s, {"ws"}) = Len(s) THEN s ELSE From(s, Span(s, {"ws"}) + 1)

\* How many backslashes come directly before position i.
BackslashesBefore(s, i) ==
    Cardinality({k \in 1..(i - 1) : \A j \in k..(i - 1) : s[j] = "bslash"})

\* Mutant: a scan that does not know of escapes.
EveryQuote(s) == {i \in 1..Len(s) : s[i] = "quote"}

\* The quotes the scan of _findKey and _parseString stops at: it jumps over
\* the character after a backslash.  A backslash that ends the string is not
\* remembered: the loop variable is below the length whenever it is tested, so
\* the branch that sets _escape is dead and every scan starts unescaped.
Quotes(s) ==
    {i \in 1..Len(s) : s[i] = "quote" /\ BackslashesBefore(s, i) % 2 = 0}

\* JSON.parse accepts the text collected for a key when nothing but white
\* space comes before the opening quote, the closing quote ends it and no
\* control character stands between them.
IsJsonString(s) ==
    \E open \in Quotes(s) : /\ Blank(SubSeq(s, 1, open - 1))
                            /\ open < Len(s)
                            /\ Quotes(s) = {open, Len(s)}
                            /\ \A i \in open..Len(s) : s[i] # "cr"

\* What it returns then: the characters between the quotes.
Unquote(s) == SubSeq(s, Span(s, {"ws", "cr"}) + 2, Len(s) - 1)
===========================================================================
