----------------------------- MODULE MCStrings -----------------------------
(***************************************************************************)
(* Three addresses for the texts that are cut out of two with characters   *)
(* of two bytes, and of one that ends within a character; tables of 3, 5   *)
(* and 7 slots, with few hashes, so that most probes collide.              *)
(***************************************************************************)
EXTENDS StringTable, TLC

TwoBytes == <<"lead2", "cont">>

MCInputs == {TwoBytes \o <<"a">> \o TwoBytes, <<"white">> \o TwoBytes \o <<"white">>, <<"lead3">>}

SplitInputs == {<<"cont", "cont", "a", "b", "a", "b">>, TwoBytes}

SlicesOf(inputs) == UNION {{Slice(t, m, n) : m, n \in 0..Len(t)} : t \in inputs}

MCTexts    == SlicesOf(MCInputs)
SplitTexts == SlicesOf(SplitInputs)

MCHash    == [t \in MCTexts |-> Len(t)]
SplitHash == [t \in SplitTexts |-> Len(t)]

MCProbeSteps == <<1, 2>>

Symmetry == Permutations(Addresses)
=============================================================================
