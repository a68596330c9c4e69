--------------------------- MODULE MCJrqFindings ---------------------------
(***************************************************************************)
(* Requests that jrq does not answer, with some of the same sort that it   *)
(* does.                                                                   *)
(***************************************************************************)
EXTENDS MCJrq

\* The argument names an object, and so it does not in the second document.
SelectedObjects ==
    {Session(Options(<<<<a>>>>), <<d>>) : d \in {Pair(Obj(a, One), Two), Pair(One, Obj(a, Two))}}
===========================================================================
