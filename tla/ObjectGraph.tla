---------------------------- MODULE ObjectGraph ----------------------------
(***************************************************************************)
(* What a program may rely upon when memory is freed behind its back: all  *)
(* that it can reach keeps its address and its references, and a new       *)
(* object gets an address that nothing it can reach has.                   *)
(***************************************************************************)
EXTENDS Reachability

VARIABLE graph

Create(o, s) ==
    /\ graph[Root][s] = Null /\ graph[o] = NoRefs
    /\ graph' = Written(graph, Root, s, o)

Write(p, s, v) == graph' = Written(graph, p, s, v)

Forget(set) == graph' = [o \in Objects |-> IF o \in set THEN NoRefs ELSE graph[o]]

Init == graph = [o \in Objects |-> NoRefs]

Next ==
    LET reach == Reach(graph)
    IN \/ \E o \in Objects \ reach, s \in Slots : Create(o, s)
       \/ \E p \in reach, s \in Slots, v \in (reach \ {Root}) \cup {Null} : Write(p, s, v)
       \/ \E set \in SUBSET (Objects \ reach) : Forget(set)

Spec == Init /\ [][Next]_graph
=============================================================================
