----------------------------- MODULE StringPool -----------------------------
(***************************************************************************)
(* What the engine relies on when it compares strings by their address: a  *)
(* text in use has one address, which it keeps.                            *)
(***************************************************************************)
CONSTANTS Addresses, Texts, Null

VARIABLES text, held

vars == <<text, held>>

Known(t) == \E a \in Addresses : text[a] = t

\* A text that is known gets no second address.
Use(t, a) ==
    /\ IF Known(t) THEN text[a] = t /\ UNCHANGED text
       ELSE text[a] = Null /\ text' = [text EXCEPT ![a] = t]
    /\ held' = held \cup {a}

\* Only what nobody uses loses its address.
Leave(kept, freed) ==
    /\ kept \cap freed = {}
    /\ held' = kept
    /\ text' = [a \in Addresses |-> IF a \in freed THEN Null ELSE text[a]]

Init == text = [a \in Addresses |-> Null] /\ held = {}

Next ==
    \/ \E t \in Texts, a \in Addresses : Use(t, a)
    \/ \E kept \in SUBSET held, freed \in SUBSET Addresses : Leave(kept, freed)

Spec == Init /\ [][Next]_vars
=============================================================================
