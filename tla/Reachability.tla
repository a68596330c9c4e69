---------------------------- MODULE Reachability ----------------------------
(***************************************************************************)
(* Graphs of objects that refer to each other from their slots, and what   *)
(* can be reached in them from the root.                                   *)
(***************************************************************************)
EXTENDS Integers, FiniteSets

CONSTANTS
    Objects,    \* where an object may be allocated
    Root,       \* the heap's thread, whose slots are the value stack
    SlotCount,  \* the references an object can have, a bound of the model
    Null

ASSUME ObjectsAreFinite == IsFiniteSet(Objects) /\ Root \in Objects /\ Null \notin Objects

ASSUME SlotsAreCounted == SlotCount \in Nat

Slots == 1..SlotCount

\* For each object what its slots refer to.
Graphs == [Objects -> [Slots -> Objects \cup {Null}]]

NoRefs == [s \in Slots |-> Null]

\* The references from a set of objects to an object.
References(refs, set, o) == {e \in set \X Slots : refs[e[1]][e[2]] = o}

Written(refs, p, s, v) == [refs EXCEPT ![p][s] = v]

\* No reference leads out of the set.
IsClosed(refs, set) == \A p \in set : \A s \in Slots : refs[p][s] \in set \cup {Null}

Closed(refs) == {set \in SUBSET Objects : Root \in set /\ IsClosed(refs, set)}

Reach(refs) ==
    LET closed == Closed(refs) IN {o \in Objects : \A set \in closed : o \in set}
=============================================================================
