-------------------------- MODULE ObjectHeapProofs --------------------------
(***************************************************************************)
(* Freeing keeps every object that can be reached, its references and its  *)
(* count, for any number of objects and references and for any limit on    *)
(* recursion: nothing that is freed is referred to, and a collection that  *)
(* was broken off at the limit is never taken for a complete one.          *)
(***************************************************************************)
EXTENDS ObjectHeap, FiniteSetTheorems, SequenceTheorems, TLAPS

GraphOK ==
    /\ live \in SUBSET Objects /\ Root \in live
    /\ refs \in Graphs
    /\ \A o \in Objects \ live : refs[o] = NoRefs
    /\ \A p \in Objects, s \in Slots : refs[p][s] # Root

\* While objects that are about to be swept are still allocated, only the references
\* from marked ones are counted.
CountsOK ==
    /\ count \in [Objects -> Int]
    /\ \A o \in live \ {Root} :
          count[o] = Cardinality(References(refs, IF pc = "sweep" THEN marked ELSE live, o))

RefzeroOK ==
    /\ refzero \subseteq live \ {Root}
    /\ pc # "refzero" => refzero = {}
    /\ \A o \in refzero : References(refs, live, o) = {}

Calls == [object : Objects, slot : Nat \ {0}]

CallsOK == calls \in Seq(Calls)

\* The call that will come to a slot.
IsPending(p, s) == \E i \in 1..Len(calls) : calls[i].object = p /\ calls[i].slot <= s

\* What a marked object refers to is marked, or marking will come to it: a call will,
\* or a scan will come to the temporary root.
MarkOK ==
    pc = "mark" =>
       /\ Root \in marked /\ marked \subseteq Reach(refs)
       /\ CallsOK /\ unscanned \subseteq live /\ limitReached \in BOOLEAN
       /\ \A i \in 1..Len(calls) : calls[i].object \in marked
       /\ \A p \in marked \ temproots, s \in Slots :
             refs[p][s] \in marked \cup {Null} \/ IsPending(p, s)
       /\ \A o \in temproots : o \in marked /\ (o \in unscanned \/ limitReached)

SweepOK == pc = "sweep" => marked = Reach(refs)

Inv == GraphOK /\ NoDangling /\ CountsOK /\ RefzeroOK /\ MarkOK /\ SweepOK

---------------------------------------------------------------------------
(* What can be reached. *)

LEMMA RootIsReached == Root \in Reach(refs)
  BY ObjectsAreFinite DEF Reach, Closed

LEMMA ReachIsLeast ==
    ASSUME NEW g, NEW set \in SUBSET Objects, Root \in set, IsClosed(g, set)
    PROVE  Reach(g) \subseteq set
  BY DEF Reach, Closed

LEMMA ReachIsClosed ==
    ASSUME NEW g \in Graphs, NEW p \in Reach(g), NEW s \in Slots
    PROVE  g[p][s] \in Reach(g) \cup {Null}
  <1>1. p \in Objects /\ g[p][s] \in Objects \cup {Null}
    BY DEF Reach, Graphs
  <1>2. \A set \in Closed(g) : p \in set /\ g[p][s] \in set \cup {Null}
    BY DEF Reach, Closed, IsClosed
  <1> QED  BY <1>1, <1>2 DEF Reach

LEMMA ReachIsLive ==
    ASSUME GraphOK, NoDangling PROVE Reach(refs) \subseteq live
  <1>1. IsClosed(refs, live)
    BY DEF IsClosed, NoDangling
  <1> QED  BY <1>1, ReachIsLeast DEF GraphOK

---------------------------------------------------------------------------
(* References are counted. *)

LEMMA ReferencesAreFinite ==
    ASSUME NEW g, NEW set \in SUBSET Objects, NEW o
    PROVE  IsFiniteSet(References(g, set, o)) /\ Cardinality(References(g, set, o)) \in Nat
  <1>1. IsFiniteSet(set)
    BY ObjectsAreFinite, FS_Subset
  <1>2. IsFiniteSet(Slots)
    BY SlotsAreCounted, FS_Interval DEF Slots
  <1>3. IsFiniteSet(set \X Slots)
    BY <1>1, <1>2, FS_Product
  <1>4. References(g, set, o) \in SUBSET (set \X Slots)
    BY DEF References
  <1>5. IsFiniteSet(References(g, set, o))
    BY <1>3, <1>4, FS_Subset
  <1> QED  BY <1>5, FS_CardinalityType

LEMMA NoReferences ==
    ASSUME NEW g, NEW set \in SUBSET Objects, NEW o
    PROVE  Cardinality(References(g, set, o)) = 0 <=>
              \A p \in set : \A s \in Slots : g[p][s] # o
  <1>1. Cardinality(References(g, set, o)) = 0 <=> References(g, set, o) = {}
    BY ReferencesAreFinite, FS_EmptySet
  <1>2. ASSUME References(g, set, o) = {}, NEW p \in set, NEW s \in Slots PROVE g[p][s] # o
    <2>1. <<p, s>> \in set \X Slots /\ <<p, s>> \notin References(g, set, o)
      BY <1>2
    <2> QED  BY <2>1 DEF References
  <1>3. ASSUME NEW e \in References(g, set, o)
        PROVE  \E p \in set : \E s \in Slots : g[p][s] = o
    <2>1. e[1] \in set /\ e[2] \in Slots /\ g[e[1]][e[2]] = o
      BY <1>3 DEF References
    <2> QED  BY <2>1
  <1> QED  BY <1>1, <1>2, <1>3

LEMMA ReferencesAdd ==
    ASSUME NEW g, NEW set \in SUBSET Objects, NEW part \in SUBSET set, NEW o
    PROVE  Cardinality(References(g, set \ part, o)) =
              Cardinality(References(g, set, o)) - Cardinality(References(g, part, o))
  <1> DEFINE A == References(g, set \ part, o)
             B == References(g, part, o)
  <1>1. References(g, set, o) = A \cup B /\ A \cap B = {}
    BY DEF References
  <1>2. IsFiniteSet(A) /\ Cardinality(A) \in Nat
    BY ReferencesAreFinite
  <1>3. IsFiniteSet(B) /\ Cardinality(B) \in Nat
    BY ReferencesAreFinite
  <1>4. Cardinality(References(g, set, o)) = Cardinality(A) + Cardinality(B) - Cardinality({})
    <2> HIDE DEF A, B
    <2> QED  BY <1>1, <1>2, <1>3, FS_Union
  <1> HIDE DEF A, B
  <1>5. Cardinality(A) = Cardinality(References(g, set, o)) - Cardinality(B)
    BY <1>2, <1>3, <1>4, FS_EmptySet
  <1> QED  BY <1>5 DEF A, B

\* Only the references from the set count.
LEMMA SameReferences ==
    ASSUME NEW g, NEW h, NEW set, NEW o, \A p \in set : h[p] = g[p]
    PROVE  References(h, set, o) = References(g, set, o)
  BY DEF References

LEMMA OneReferenceChanges ==
    ASSUME NEW g \in Graphs, NEW set \in SUBSET Objects,
           NEW p \in set, NEW s \in Slots, NEW v, NEW o
    PROVE  Cardinality(References(Written(g, p, s, v), set, o)) =
              Cardinality(References(g, set, o))
                 + (IF o = v THEN 1 ELSE 0) - (IF o = g[p][s] THEN 1 ELSE 0)
  <1> DEFINE h == Written(g, p, s, v)
             G == References(g, set, o)
             H == References(h, set, o)
             e == <<p, s>>
             more == IF o = v THEN 1 ELSE 0
             less == IF o = g[p][s] THEN 1 ELSE 0
  <1>1. IsFiniteSet(G) /\ IsFiniteSet(H) /\ Cardinality(G) \in Nat /\ Cardinality(H) \in Nat
    BY ReferencesAreFinite
  <1>2. h[p][s] = v /\ \A q \in Objects, t \in Slots : <<q, t>> # e => h[q][t] = g[q][t]
    BY DEF Graphs, Written
  <1> HIDE DEF h
  <1>3. \A d \in set \X Slots : d # e => (d \in H <=> d \in G)
    <2> TAKE d \in set \X Slots
    <2>1. d[1] \in Objects /\ d[2] \in Slots /\ d = <<d[1], d[2]>>
      OBVIOUS
    <2> QED  BY <1>2, <2>1 DEF References
  <1>4. (e \in H <=> v = o) /\ (e \in G <=> g[p][s] = o)
    BY <1>2 DEF References
  <1>5. G \subseteq set \X Slots /\ H \subseteq set \X Slots
    BY DEF References
  <1>6. H \ {e} = G \ {e}
    <2> HIDE DEF G, H, e
    <2> QED  BY <1>3, <1>5
  <1>7. Cardinality(H \ {e}) = Cardinality(H) - more
    <2> HIDE DEF G, H, e
    <2>1. Cardinality(H \ {e}) = IF e \in H THEN Cardinality(H) - 1 ELSE Cardinality(H)
      BY <1>1, FS_RemoveElement
    <2> QED  BY <1>1, <1>4, <2>1
  <1>8. Cardinality(G \ {e}) = Cardinality(G) - less
    <2> HIDE DEF G, H, e
    <2>1. Cardinality(G \ {e}) = IF e \in G THEN Cardinality(G) - 1 ELSE Cardinality(G)
      BY <1>1, FS_RemoveElement
    <2> QED  BY <1>1, <1>4, <2>1
  <1>9. more \in Int /\ less \in Int
    OBVIOUS
  <1>10. Cardinality(H) = Cardinality(G) + more - less
    <2>1. Cardinality(H) - more = Cardinality(G) - less
      BY <1>6, <1>7, <1>8
    <2> HIDE DEF G, H, e, more, less
    <2> QED  BY <1>1, <1>9, <2>1
  <1> QED  BY <1>10 DEF h

---------------------------------------------------------------------------
(* Every step keeps the invariant. *)

LEMMA InitInv == Init => Inv
  <1> SUFFICES ASSUME Init PROVE Inv
    OBVIOUS
  <1> USE ObjectsAreFinite DEF Init
  <1>1. GraphOK
    BY DEF GraphOK, Graphs, NoRefs
  <1>2. NoDangling /\ CountsOK
    BY DEF NoDangling, CountsOK, NoRefs
  <1>3. RefzeroOK /\ MarkOK /\ SweepOK
    BY DEF RefzeroOK, MarkOK, SweepOK
  <1> QED  BY <1>1, <1>2, <1>3 DEF Inv

LEMMA NewInv == Inv /\ New => Inv'
  <1> SUFFICES ASSUME Inv, New PROVE Inv'
    OBVIOUS
  <1>1. /\ GraphOK /\ NoDangling /\ CountsOK /\ RefzeroOK
        /\ pc = "run" /\ pc' = "run" /\ refzero' = refzero
    BY DEF Inv, New
  <1>2. PICK o \in Free, s \in Slots :
           /\ refs[Root][s] = Null
           /\ live' = live \cup {o}
           /\ refs' = Written(refs, Root, s, o)
           /\ count' = [count EXCEPT ![o] = 1]
    BY DEF New
  <1>3. o \in Objects \ live /\ o # Null /\ o # Root /\ refs[o] = NoRefs /\ Root \in Objects
    BY <1>1, ObjectsAreFinite DEF Free, GraphOK
  <1>4. /\ refs'[Root][s] = o
        /\ \A p \in Objects, t \in Slots : <<p, t>> # <<Root, s>> => refs'[p][t] = refs[p][t]
        /\ \A p \in Objects : p # Root => refs'[p] = refs[p]
        /\ refs' \in Graphs
    BY <1>1, <1>2, <1>3 DEF GraphOK, Graphs, Written
  <1>5. GraphOK'
    BY <1>1, <1>2, <1>3, <1>4 DEF GraphOK
  <1>6. NoDangling'
    BY <1>1, <1>2, <1>3, <1>4 DEF GraphOK, NoDangling, NoRefs
  <1>7. ASSUME NEW q \in live' \ {Root} PROVE count'[q] = Cardinality(References(refs', live', q))
    <2>1. Cardinality(References(refs', live', q)) =
             Cardinality(References(refs, live', q)) + (IF q = o THEN 1 ELSE 0)
      <3>1. q # refs[Root][s]
        BY <1>1, <1>2, <1>3, <1>7, ObjectsAreFinite DEF GraphOK
      <3>2. live' \in SUBSET Objects /\ Root \in live' /\ refs \in Graphs
        BY <1>1, <1>2, <1>3 DEF GraphOK
      <3>3. Cardinality(References(refs, live', q)) \in Nat
        BY <3>2, ReferencesAreFinite
      <3>4. Cardinality(References(refs', live', q)) =
               Cardinality(References(refs, live', q))
                  + (IF q = o THEN 1 ELSE 0) - (IF q = refs[Root][s] THEN 1 ELSE 0)
        <4> DEFINE set == live'
        <4>1. set \in SUBSET Objects /\ Root \in set
          BY <3>2
        <4> HIDE DEF set
        <4>2. Cardinality(References(refs', set, q)) =
                 Cardinality(References(refs, set, q))
                    + (IF q = o THEN 1 ELSE 0) - (IF q = refs[Root][s] THEN 1 ELSE 0)
          BY <1>2, <3>2, <4>1, OneReferenceChanges
        <4> QED  BY <4>2 DEF set
      <3> QED  BY <3>1, <3>3, <3>4
    <2>2. References(refs, live', q) = References(refs, live, q)
      <3>1. \A t \in Slots : refs[o][t] = Null /\ q # Null
        BY <1>1, <1>2, <1>3, <1>7, ObjectsAreFinite DEF NoRefs, GraphOK
      <3> QED  BY <1>2, <3>1 DEF References
    <2>3. CASE q = o
      <3>1. \A p \in live : \A t \in Slots : refs[p][t] # o
        BY <1>1, <1>3 DEF NoDangling
      <3>2. Cardinality(References(refs, live, o)) = 0
        BY <1>1, <3>1, NoReferences DEF GraphOK
      <3>3. count'[o] = 1
        BY <1>1, <1>2, <1>3 DEF CountsOK
      <3> QED  BY <2>1, <2>2, <2>3, <3>2, <3>3
    <2>4. CASE q # o
      <3>1. q \in live \ {Root} /\ count'[q] = count[q]
        BY <1>1, <1>2, <1>7, <2>4 DEF GraphOK, CountsOK
      <3>2. Cardinality(References(refs, live, q)) \in Nat
        BY <1>1, ReferencesAreFinite DEF GraphOK
      <3> QED  BY <1>1, <2>1, <2>2, <2>4, <3>1, <3>2 DEF CountsOK
    <2> QED  BY <2>3, <2>4
  <1>8. CountsOK'
    <2>1. count \in [Objects -> Int]
      BY <1>1 DEF CountsOK
    <2>2. count' \in [Objects -> Int]
      BY <1>2, <1>3, <2>1
    <2> QED  BY <1>1, <1>7, <2>2 DEF CountsOK
  <1>9. RefzeroOK' /\ MarkOK' /\ SweepOK'
    BY <1>1 DEF RefzeroOK, MarkOK, SweepOK
  <1> QED  BY <1>5, <1>6, <1>8, <1>9 DEF Inv

LEMMA SetRefInv == Inv /\ SetRef => Inv'
  <1> SUFFICES ASSUME Inv, SetRef PROVE Inv'
    OBVIOUS
  <1>1. /\ GraphOK /\ NoDangling /\ CountsOK
        /\ pc = "run" /\ pc' \in {"run", "refzero"} /\ live' = live
        /\ pc' # "refzero" => refzero' = {}
    BY DEF Inv, SetRef
  <1>2. PICK p \in Reach(refs), s \in Slots, v \in (Reach(refs) \ {Root}) \cup {Null} :
           /\ refs' = Written(refs, p, s, v)
           /\ count' = Recounted(refs[p][s], v)
           /\ refzero' = {o \in {refs[p][s]} \ {Null} : count'[o] = 0}
    BY DEF SetRef
  <1> DEFINE old == refs[p][s]
  <1>3. /\ p \in live /\ p \in Objects /\ v \in (live \ {Root}) \cup {Null} /\ v # Root
        /\ old \in (live \ {Root}) \cup {Null} /\ live \in SUBSET Objects /\ refs \in Graphs
    BY <1>1, ReachIsLive, ObjectsAreFinite DEF GraphOK, NoDangling
  <1>4. /\ refs'[p][s] = v
        /\ \A q \in Objects, t \in Slots : <<q, t>> # <<p, s>> => refs'[q][t] = refs[q][t]
        /\ \A q \in Objects : q # p => refs'[q] = refs[q]
        /\ refs' \in Graphs
    BY <1>2, <1>3 DEF Graphs, Written
  <1>5. GraphOK'
    BY <1>1, <1>3, <1>4 DEF GraphOK
  <1>6. NoDangling'
    BY <1>1, <1>3, <1>4 DEF NoDangling
  <1>7. count \in [Objects -> Int] /\ count' \in [Objects -> Int]
    BY <1>1, <1>2 DEF CountsOK, Recounted
  <1>8. ASSUME NEW o \in live \ {Root} PROVE count'[o] = Cardinality(References(refs', live, o))
    <2>1. count[o] = Cardinality(References(refs, live, o))
      BY <1>1, <1>8 DEF CountsOK
    <2>2. Cardinality(References(refs', live, o)) =
             Cardinality(References(refs, live, o))
                + (IF o = v THEN 1 ELSE 0) - (IF o = old THEN 1 ELSE 0)
      BY <1>2, <1>3, OneReferenceChanges
    <2>3. count'[o] = count[o] + (IF o = v THEN 1 ELSE 0) - (IF o = old THEN 1 ELSE 0)
      BY <1>2, <1>3 DEF Recounted
    <2> QED  BY <2>1, <2>2, <2>3
  <1>9. CountsOK'
    BY <1>1, <1>7, <1>8 DEF CountsOK
  <1>10. RefzeroOK'
    <2>1. refzero' \subseteq live \ {Root}
      BY <1>2, <1>3
    <2>2. ASSUME NEW o \in refzero' PROVE References(refs', live, o) = {}
      <3>1. Cardinality(References(refs', live, o)) = 0
        BY <1>2, <1>8, <2>1
      <3> QED  BY <1>3, <3>1, ReferencesAreFinite, FS_EmptySet
    <2> QED  BY <1>1, <2>1, <2>2 DEF RefzeroOK
  <1> QED  BY <1>1, <1>5, <1>6, <1>9, <1>10 DEF Inv, MarkOK, SweepOK

\* Objects that are not referred to from the others are freed.
LEMMA ClearedGraph ==
    ASSUME GraphOK, NoDangling, NEW set \in SUBSET (live \ {Root}),
           \A p \in live \ set : \A s \in Slots : refs[p][s] \notin set,
           live' = live \ set, refs' = Cleared(set)
    PROVE  GraphOK' /\ NoDangling'
  <1>1. \A p \in Objects : refs'[p] = IF p \in set THEN NoRefs ELSE refs[p]
    BY DEF Cleared
  <1>2. GraphOK'
    <2>1. NoRefs \in [Slots -> Objects \cup {Null}]
      BY DEF NoRefs
    <2>2. refs' \in Graphs
      BY <2>1 DEF GraphOK, Graphs, Cleared
    <2>3. \A p \in Objects, s \in Slots : refs'[p][s] # Root
      BY <1>1, ObjectsAreFinite DEF GraphOK, NoRefs
    <2> QED  BY <1>1, <2>2, <2>3 DEF GraphOK
  <1>3. NoDangling'
    BY <1>1 DEF GraphOK, NoDangling
  <1> QED  BY <1>2, <1>3

LEMMA FreeNextInv == Inv /\ FreeNext => Inv'
  <1> SUFFICES ASSUME Inv, FreeNext PROVE Inv'
    OBVIOUS
  <1>1. /\ GraphOK /\ NoDangling /\ CountsOK /\ RefzeroOK
        /\ pc = "refzero" /\ pc' \in {"run", "refzero"}
        /\ pc' # "refzero" => refzero' = {}
    BY DEF Inv, FreeNext
  <1>2. PICK h \in refzero :
           /\ count' = Without({h})
           /\ refzero' = (refzero \ {h}) \cup Queued(h)
           /\ live' = live \ {h}
           /\ refs' = Cleared({h})
    BY DEF FreeNext
  <1>3. /\ h \in live \ {Root} /\ live \in SUBSET Objects
        /\ \A p \in live : \A s \in Slots : refs[p][s] # h
    <2>1. h \in live \ {Root} /\ References(refs, live, h) = {} /\ live \in SUBSET Objects
      BY <1>1 DEF RefzeroOK, GraphOK
    <2>2. Cardinality(References(refs, live, h)) = 0
      BY <2>1, FS_EmptySet
    <2> QED  BY <2>1, <2>2, NoReferences
  <1>4. GraphOK' /\ NoDangling'
    BY <1>1, <1>2, <1>3, ClearedGraph
  <1>5. \A o : References(refs', live', o) = References(refs, live', o)
    <2>1. \A p \in live' : refs'[p] = refs[p]
      BY <1>2, <1>3 DEF Cleared
    <2> QED  BY <2>1 DEF References
  <1>6. ASSUME NEW o \in live \ {Root}
        PROVE  count'[o] = Cardinality(References(refs', live', o))
    <2>1. count[o] = Cardinality(References(refs, live, o))
      BY <1>1, <1>6 DEF CountsOK
    <2>2. count'[o] = count[o] - Cardinality(References(refs, {h}, o))
      BY <1>2, <1>3 DEF Without
    <2>3. Cardinality(References(refs, live \ {h}, o)) =
             Cardinality(References(refs, live, o)) - Cardinality(References(refs, {h}, o))
      BY <1>3, ReferencesAdd
    <2> QED  BY <1>2, <1>5, <2>1, <2>2, <2>3
  <1>7. count' \in [Objects -> Int]
    <2>1. \A o \in Objects : Cardinality(References(refs, {h}, o)) \in Nat
      BY <1>3, ReferencesAreFinite
    <2>2. \A o \in Objects : count[o] \in Int
      BY <1>1 DEF CountsOK
    <2>3. \A o \in Objects : count[o] - Cardinality(References(refs, {h}, o)) \in Int
      <3> TAKE o \in Objects
      <3>1. Cardinality(References(refs, {h}, o)) \in Nat /\ count[o] \in Int
        BY <2>1, <2>2
      <3> QED  BY <3>1
    <2> QED  BY <1>2, <2>3 DEF Without
  <1>8. CountsOK'
    BY <1>1, <1>2, <1>6, <1>7 DEF CountsOK
  <1>9. RefzeroOK'
    <2>1. refzero' \subseteq live' \ {Root}
      <3>1. refzero \subseteq live \ {Root}
        BY <1>1 DEF RefzeroOK
      <3>2. Queued(h) \subseteq live /\ Root \notin Queued(h)
        BY <1>1, <1>3 DEF Queued, References, GraphOK
      <3>3. h \notin Queued(h)
        BY <1>3 DEF Queued, References
      <3> QED  BY <1>2, <3>1, <3>2, <3>3
    <2>2. ASSUME NEW o \in refzero' PROVE References(refs', live', o) = {}
      <3>1. CASE o \in refzero
        <4>1. References(refs, live, o) = {}
          BY <1>1, <3>1 DEF RefzeroOK
        <4>2. References(refs, live', o) \subseteq References(refs, live, o)
          BY <1>2 DEF References
        <4> QED  BY <1>5, <4>1, <4>2
      <3>2. CASE o \in Queued(h)
        <4>1. count'[o] = 0
          BY <1>2, <3>2 DEF Queued
        <4>2. Cardinality(References(refs', live', o)) = 0
          BY <1>2, <1>6, <2>1, <2>2, <4>1
        <4>3. live' \in SUBSET Objects
          BY <1>2, <1>3
        <4>4. IsFiniteSet(References(refs, live', o))
          BY <4>3, ReferencesAreFinite
        <4> QED  BY <1>5, <4>2, <4>4, FS_EmptySet
      <3> QED  BY <1>2, <3>1, <3>2
    <2> QED  BY <1>1, <2>1, <2>2 DEF RefzeroOK
  <1> QED  BY <1>1, <1>4, <1>8, <1>9 DEF Inv, MarkOK, SweepOK

---------------------------------------------------------------------------
(* Marking. *)

\* While marking goes on nothing of the heap changes.
LEMMA MarkingKeepsHeap ==
    ASSUME Inv, pc = "mark", pc' = "mark", UNCHANGED <<heapVars, refzero>>, MarkOK'
    PROVE  Inv'
  <1>1. GraphOK' /\ NoDangling'
    BY DEF Inv, heapVars, GraphOK, NoDangling
  <1>2. CountsOK'
    BY DEF Inv, heapVars, CountsOK
  <1>3. RefzeroOK' /\ SweepOK'
    BY DEF Inv, heapVars, RefzeroOK, SweepOK
  <1> QED  BY <1>1, <1>2, <1>3 DEF Inv

LEMMA CollectInv == Inv /\ Collect => Inv'
  <1> SUFFICES ASSUME Inv, Collect PROVE Inv'
    OBVIOUS
  <1>1. /\ pc = "run" /\ pc' = "mark"
        /\ live' = live /\ refs' = refs /\ count' = count /\ refzero' = refzero
        /\ marked' = {Root} /\ temproots' = {} /\ calls' = <<NewCall(Root)>>
        /\ limitReached' = FALSE /\ unscanned' = {}
    BY DEF Collect, heapVars
  <1>2. GraphOK' /\ NoDangling'
    BY <1>1 DEF Inv, GraphOK, NoDangling
  <1>3. CountsOK'
    BY <1>1 DEF Inv, CountsOK
  <1>4. RefzeroOK' /\ SweepOK'
    BY <1>1 DEF Inv, RefzeroOK, SweepOK
  <1>5. MarkOK'
    <2>1. NewCall(Root) \in Calls /\ NewCall(Root).object = Root /\ NewCall(Root).slot = 1
      BY ObjectsAreFinite DEF NewCall, Calls
    <2>2. /\ calls' \in Seq(Calls) /\ Len(calls') = 1
          /\ calls'[1].object = Root /\ calls'[1].slot = 1
      BY <1>1, <2>1
    <2>3. \A s \in Slots : IsPending(Root, s)'
      BY <2>2 DEF IsPending, Slots
    <2>4. \A i \in 1..Len(calls') : calls'[i].object \in marked'
      BY <1>1, <2>2
    <2>5. Root \in marked' /\ marked' \subseteq Reach(refs')
      BY <1>1, RootIsReached
    <2>6. \A p \in marked' \ temproots', s \in Slots : IsPending(p, s)'
      BY <1>1, <2>3
    <2> QED  BY <1>1, <2>2, <2>4, <2>5, <2>6 DEF MarkOK, CallsOK
  <1> QED  BY <1>2, <1>3, <1>4, <1>5 DEF Inv

\* The innermost call.
LEMMA TopIsCall ==
    ASSUME Inv, Marking
    PROVE  /\ Len(calls) \in Nat \ {0} /\ CallsOK /\ MarkOK
           /\ Top.object \in marked /\ Top.object \in Objects /\ Top.slot \in Nat \ {0}
  <1>1. CallsOK /\ MarkOK /\ Len(calls) \in Nat \ {0}
    BY DEF Inv, MarkOK, Marking, CallsOK
  <1>2. calls[Len(calls)] \in Calls
    BY <1>1 DEF CallsOK
  <1>3. calls[Len(calls)].object \in marked
    BY <1>1 DEF MarkOK, Marking
  <1> QED  BY <1>1, <1>2, <1>3 DEF Top, Calls

\* Once the innermost call has seen to its slot, it and the others see to the rest.
LEMMA AdvancedCalls ==
    ASSUME Inv, Marking, Top.slot <= SlotCount
    PROVE  /\ Advanced \in Seq(Calls)
           /\ Len(Advanced) = Len(calls)
           /\ \A i \in 1..Len(calls) : Advanced[i].object = calls[i].object
           /\ Advanced[Len(calls)].slot = Top.slot + 1
           /\ \A p \in Objects, s \in Slots :
                 IsPending(p, s) =>
                    \/ p = Top.object /\ s = Top.slot
                    \/ \E i \in 1..Len(calls) : Advanced[i].object = p /\ Advanced[i].slot <= s
  <1>1. /\ Len(calls) \in Nat \ {0} /\ calls \in Seq(Calls)
        /\ Top.slot \in Nat \ {0} /\ Top = calls[Len(calls)]
    BY TopIsCall DEF CallsOK, Top
  <1> DEFINE n == Len(calls)
             c == [calls[n] EXCEPT !.slot = @ + 1]
  <1>2. Advanced = [calls EXCEPT ![n] = c]
    BY DEF Advanced
  <1>3. calls[n] \in Calls
    BY <1>1
  <1>4. /\ c \in Calls
        /\ c.object = calls[n].object /\ c.slot = calls[n].slot + 1
    BY <1>3 DEF Calls
  <1> HIDE DEF n, c
  <1>5. /\ Advanced \in Seq(Calls)
        /\ Len(Advanced) = Len(calls)
        /\ \A i \in 1..Len(calls) : Advanced[i] = IF i = n THEN c ELSE calls[i]
    BY <1>1, <1>2, <1>4 DEF n
  <1>6. ASSUME NEW p \in Objects, NEW s \in Slots, IsPending(p, s)
        PROVE  \/ p = Top.object /\ s = Top.slot
               \/ \E i \in 1..Len(calls) : Advanced[i].object = p /\ Advanced[i].slot <= s
    <2>1. PICK i \in 1..Len(calls) : calls[i].object = p /\ calls[i].slot <= s
      BY <1>6 DEF IsPending
    <2>2. CASE i # n
      BY <1>5, <2>1, <2>2
    <2>3. CASE i = n /\ s # Top.slot
      <3>1. s \in Nat /\ Top.slot < s
        BY <1>1, <2>1, <2>3 DEF n, Slots
      <3>2. c.slot <= s
        BY <1>1, <1>4, <3>1 DEF n
      <3> QED  BY <1>4, <1>5, <2>1, <2>3, <3>2
    <2> QED  BY <1>1, <2>1, <2>2, <2>3 DEF n
  <1> QED  BY <1>1, <1>4, <1>5, <1>6 DEF n

LEMMA SkipSlotInv == Inv /\ SkipSlot => Inv'
  <1> SUFFICES ASSUME Inv, SkipSlot PROVE Inv'
    OBVIOUS
  <1>1. /\ Marking /\ Top.slot <= SlotCount /\ Member \in marked \cup {Null}
        /\ calls' = Advanced
        /\ UNCHANGED <<heapVars, refzero>> /\ refs' = refs /\ live' = live
        /\ pc = "mark" /\ pc' = "mark" /\ marked' = marked /\ temproots' = temproots
        /\ limitReached' = limitReached /\ unscanned' = unscanned
    BY DEF SkipSlot, Marking, heapVars
  <1>2. MarkOK
    BY DEF Inv
  <1>3. CallsOK' /\ Len(calls') = Len(calls)
    BY <1>1, AdvancedCalls DEF CallsOK
  <1>4. \A j \in 1..Len(calls') : calls'[j].object \in marked
    BY <1>1, <1>2, AdvancedCalls DEF MarkOK
  <1>5. ASSUME NEW p \in marked \ temproots, NEW s \in Slots
        PROVE  refs[p][s] \in marked \cup {Null} \/ IsPending(p, s)'
    <2>1. refs[p][s] \in marked \cup {Null} \/ IsPending(p, s)
      BY <1>1, <1>2, <1>5 DEF MarkOK
    <2>2. p \in Objects
      BY <1>1, <1>2, <1>5 DEF MarkOK, Reach
    <2>3. CASE p = Top.object /\ s = Top.slot
      BY <1>1, <2>3 DEF Member
    <2> QED  BY <1>1, <1>3, <2>1, <2>2, <2>3, AdvancedCalls DEF IsPending
  <1>6. MarkOK'
    BY <1>1, <1>2, <1>3, <1>4, <1>5 DEF MarkOK
  <1> QED  BY <1>1, <1>6, MarkingKeepsHeap

LEMMA MarkMemberInv == Inv /\ MarkMember => Inv'
  <1> SUFFICES ASSUME Inv, MarkMember PROVE Inv'
    OBVIOUS
  <1>1. /\ Marking /\ Top.slot <= SlotCount /\ Member \notin marked \cup {Null}
        /\ marked' = marked \cup {Member}
        /\ UNCHANGED <<heapVars, refzero>> /\ refs' = refs /\ live' = live
        /\ pc = "mark" /\ pc' = "mark" /\ unscanned' = unscanned
    BY DEF MarkMember, Marking, heapVars
  <1>2. MarkOK /\ GraphOK
    BY DEF Inv
  <1>3. /\ Top.object \in marked /\ Top.object \in Objects /\ Top.slot \in Slots
        /\ Member = refs[Top.object][Top.slot]
    BY <1>1, TopIsCall DEF Member, Slots
  <1>4. Member \in Reach(refs) /\ Member \in Objects
    <2>1. Top.object \in Reach(refs)
      BY <1>1, <1>2, <1>3 DEF MarkOK
    <2> QED  BY <1>1, <1>2, <1>3, <2>1, ReachIsClosed DEF GraphOK, Reach
  <1>9. PICK m : m = Member
    OBVIOUS
  <1>5. /\ Advanced \in Seq(Calls) /\ Len(Advanced) = Len(calls) /\ Len(calls) \in Nat
        /\ \A i \in 1..Len(calls) : Advanced[i].object \in marked
    BY <1>1, <1>2, TopIsCall, AdvancedCalls DEF MarkOK
  \* Whichever way, the calls there were go on, and there may be one more.
  <1>6. ASSUME CallsOK', NEW more \in SUBSET marked', more \in SUBSET {m},
               Len(calls') \in Nat, Len(calls') >= Len(calls),
               \A i \in 1..Len(calls) : calls'[i] = Advanced[i],
               \A i \in 1..Len(calls') : calls'[i].object \in marked',
               \A s \in Slots : m \in more => IsPending(m, s)',
               \/ temproots' = temproots /\ limitReached' = limitReached /\ more = {m}
               \/ temproots' = temproots \cup {m} /\ limitReached' = TRUE
        PROVE  Inv'
    <2>1. ASSUME NEW p \in marked' \ temproots', NEW s \in Slots
          PROVE  refs'[p][s] \in marked' \cup {Null} \/ IsPending(p, s)'
      <3>1. CASE p = m
        BY <1>9, <1>6, <2>1, <3>1
      <3>2. CASE p # m
        <4>1. p \in marked \ temproots
          BY <1>9, <1>1, <1>6, <2>1, <3>2
        <4>2. refs[p][s] \in marked \cup {Null} \/ IsPending(p, s)
          BY <1>1, <1>2, <4>1 DEF MarkOK
        <4>3. p \in Objects
          BY <1>1, <1>2, <4>1 DEF MarkOK, Reach
        <4>4. CASE p = Top.object /\ s = Top.slot
          BY <1>9, <1>1, <1>3, <4>4
        <4>5. CASE \E i \in 1..Len(calls) : Advanced[i].object = p /\ Advanced[i].slot <= s
          <5>1. PICK i \in 1..Len(calls) : Advanced[i].object = p /\ Advanced[i].slot <= s
            BY <4>5
          <5>2. i \in 1..Len(calls') /\ calls'[i] = Advanced[i]
            BY <1>5, <1>6
          <5> QED  BY <5>1, <5>2 DEF IsPending
        <4> QED  BY <1>1, <4>2, <4>3, <4>4, <4>5, AdvancedCalls
      <3> QED  BY <3>1, <3>2
    <2>2. \A o \in temproots' : o \in marked' /\ (o \in unscanned' \/ limitReached')
      BY <1>9, <1>1, <1>2, <1>6 DEF MarkOK
    <2>3. Root \in marked' /\ marked' \subseteq Reach(refs') /\ unscanned' \subseteq live'
      BY <1>9, <1>1, <1>2, <1>4 DEF MarkOK
    <2>4. limitReached' \in BOOLEAN
      BY <1>1, <1>2, <1>6 DEF MarkOK
    <2>5. MarkOK'
      BY <1>6, <2>1, <2>2, <2>3, <2>4 DEF MarkOK
    <2> QED  BY <1>1, <2>5, MarkingKeepsHeap
  <1>7. CASE Len(calls) < RecursionLimit
    <2>1. /\ calls' = Append(Advanced, NewCall(m))
          /\ temproots' = temproots /\ limitReached' = limitReached
      BY <1>9, <1>7 DEF MarkMember
    <2>2. NewCall(m) \in Calls /\ NewCall(m).object = m /\ NewCall(m).slot = 1
      BY <1>9, <1>4 DEF NewCall, Calls
    <2>3. /\ calls' \in Seq(Calls) /\ Len(calls') = Len(calls) + 1
          /\ \A i \in 1..Len(calls) : calls'[i] = Advanced[i]
          /\ calls'[Len(calls) + 1] = NewCall(m)
      BY <1>5, <2>1, <2>2
    <2>4. \A i \in 1..Len(calls') : calls'[i].object \in marked'
      BY <1>9, <1>1, <1>5, <2>2, <2>3
    <2>5. \A s \in Slots : IsPending(m, s)'
      <3> DEFINE k == Len(calls) + 1
      <3>1. k \in 1..Len(calls') /\ calls'[k].object = m /\ calls'[k].slot = 1
        BY <1>5, <2>2, <2>3
      <3> HIDE DEF k
      <3> QED  BY <3>1 DEF IsPending, Slots
    <2>6. {m} \in SUBSET marked' /\ Len(calls') \in Nat /\ Len(calls') >= Len(calls)
      BY <1>9, <1>1, <1>5, <2>3
    <2>7. CallsOK'
      BY <2>3 DEF CallsOK
    <2> QED  BY <1>6, <2>1, <2>3, <2>4, <2>5, <2>6, <2>7
  <1>8. CASE ~(Len(calls) < RecursionLimit)
    <2>1. calls' = Advanced /\ temproots' = temproots \cup {m} /\ limitReached' = TRUE
      BY <1>9, <1>8 DEF MarkMember, BecomesTempRoot
    <2>2. \A i \in 1..Len(calls') : calls'[i].object \in marked'
      BY <1>9, <1>1, <1>5, <2>1
    <2>3. CallsOK' /\ Len(calls') \in Nat /\ Len(calls') >= Len(calls)
      BY <1>5, <2>1 DEF CallsOK
    <2>4. /\ {} \in SUBSET marked' /\ {} \in SUBSET {m}
          /\ \A s \in Slots : m \in {} => IsPending(m, s)'
          /\ \A i \in 1..Len(calls) : calls'[i] = Advanced[i]
      BY <2>1
    <2>5. temproots' = temproots \cup {m} /\ limitReached' = TRUE
      BY <1>9, <2>1
    <2> QED  BY <1>6, <2>2, <2>3, <2>4, <2>5
  <1> QED  BY <1>7, <1>8

LEMMA FrontProperties ==
    ASSUME NEW S, NEW c \in Seq(S), Len(c) \in Nat \ {0}
    PROVE  /\ Front(c) \in Seq(S) /\ Len(Front(c)) = Len(c) - 1
           /\ \A i \in 1..(Len(c) - 1) : Front(c)[i] = c[i]
  <1> DEFINE n == Len(c) - 1
  <1>1. Front(c) = SubSeq(c, 1, n) /\ n \in Nat /\ \A i \in 1..n : c[i] \in S
    BY DEF Front
  <1> HIDE DEF n
  <1>2. (IF 1 <= n THEN n - 1 + 1 ELSE 0) = n /\ n - 1 + 1 = n
    BY <1>1
  <1>3. \A i \in 1..n : 1 + i - 1 = i
    BY <1>1
  <1>4. /\ SubSeq(c, 1, n) \in Seq(S)
        /\ Len(SubSeq(c, 1, n)) = IF 1 <= n THEN n - 1 + 1 ELSE 0
        /\ \A i \in 1..(n - 1 + 1) : SubSeq(c, 1, n)[i] = c[1 + i - 1]
    BY <1>1, SubSeqProperties
  <1>5. /\ Front(c) \in Seq(S) /\ Len(Front(c)) = n
        /\ \A i \in 1..n : Front(c)[i] = c[i]
    BY <1>1, <1>2, <1>3, <1>4
  <1> QED  BY <1>5 DEF n

LEMMA ReturnInv == Inv /\ Return => Inv'
  <1> SUFFICES ASSUME Inv, Return PROVE Inv'
    OBVIOUS
  <1>1. /\ Marking /\ Top.slot > SlotCount /\ calls' = Front(calls)
        /\ UNCHANGED <<heapVars, refzero>> /\ refs' = refs /\ live' = live
        /\ pc = "mark" /\ pc' = "mark" /\ marked' = marked /\ temproots' = temproots
        /\ limitReached' = limitReached /\ unscanned' = unscanned
    BY DEF Return, Marking, heapVars
  <1>2. MarkOK /\ calls \in Seq(Calls) /\ Len(calls) \in Nat \ {0}
    BY <1>1, TopIsCall DEF CallsOK
  <1>3. /\ calls' \in Seq(Calls) /\ Len(calls') = Len(calls) - 1
        /\ \A i \in 1..(Len(calls) - 1) : calls'[i] = calls[i]
    BY <1>1, <1>2, FrontProperties
  <1>4. \A i \in 1..Len(calls') : calls'[i].object \in marked
    BY <1>1, <1>2, <1>3 DEF MarkOK
  <1>5. ASSUME NEW p \in marked \ temproots, NEW s \in Slots
        PROVE  refs[p][s] \in marked \cup {Null} \/ IsPending(p, s)'
    <2>1. CASE IsPending(p, s)
      <3>1. PICK i \in 1..Len(calls) : calls[i].object = p /\ calls[i].slot <= s
        BY <2>1 DEF IsPending
      <3>2. Top.slot \in Nat /\ s \in Nat /\ s < Top.slot
        BY <1>1, TopIsCall, SlotsAreCounted DEF Slots
      <3>3. i # Len(calls)
        BY <3>1, <3>2 DEF Top
      <3>4. i \in 1..Len(calls') /\ calls'[i] = calls[i]
        BY <1>2, <1>3, <3>3
      <3> QED  BY <3>1, <3>4 DEF IsPending
    <2> QED  BY <1>1, <1>2, <1>5, <2>1 DEF MarkOK
  <1>6. MarkOK'
    BY <1>1, <1>2, <1>3, <1>4, <1>5 DEF MarkOK, CallsOK
  <1> QED  BY <1>1, <1>6, MarkingKeepsHeap

\* Without calls only the temporary roots are left.
LEMMA NothingPending ==
    ASSUME Inv, Scanning
    PROVE  /\ Root \in marked /\ marked \subseteq Reach(refs) /\ CallsOK /\ unscanned \subseteq live
           /\ \A p \in marked \ temproots, s \in Slots : refs[p][s] \in marked \cup {Null}
           /\ \A o \in temproots : o \in marked /\ (o \in unscanned \/ limitReached)
  <1>1. MarkOK /\ pc = "mark" /\ Len(calls) = 0
    BY DEF Inv, Scanning
  <1>2. \A p, s : ~IsPending(p, s)
    BY <1>1 DEF IsPending
  <1> QED  BY <1>1, <1>2 DEF MarkOK

LEMMA StartScanInv == Inv /\ StartScan => Inv'
  <1> SUFFICES ASSUME Inv, StartScan PROVE Inv'
    OBVIOUS
  <1>1. /\ Scanning /\ pc = "mark" /\ pc' = "mark" /\ UNCHANGED <<heapVars, refzero>>
        /\ refs' = refs /\ live' = live /\ marked' = marked /\ temproots' = temproots
        /\ calls' = calls /\ Len(calls) = 0 /\ limitReached' = FALSE /\ unscanned' = live
    BY DEF StartScan, Scanning, heapVars
  <1>2. Reach(refs) \subseteq live
    BY ReachIsLive DEF Inv
  <1>3. CallsOK' /\ \A i \in 1..Len(calls') : calls'[i].object \in marked'
    BY <1>1, NothingPending DEF CallsOK
  <1>4. \A o \in temproots' : o \in marked' /\ o \in unscanned'
    BY <1>1, <1>2, NothingPending
  <1>5. \A q \in marked' \ temproots', s \in Slots : refs'[q][s] \in marked' \cup {Null}
    BY <1>1, NothingPending
  <1>6. MarkOK'
    BY <1>1, <1>3, <1>4, <1>5, NothingPending DEF MarkOK
  <1> QED  BY <1>1, <1>6, MarkingKeepsHeap

LEMMA ScanNextInv == Inv /\ ScanNext => Inv'
  <1> SUFFICES ASSUME Inv, ScanNext PROVE Inv'
    OBVIOUS
  <1>1. /\ Scanning /\ pc = "mark" /\ pc' = "mark" /\ UNCHANGED <<heapVars, refzero>>
        /\ refs' = refs /\ live' = live /\ marked' = marked /\ limitReached' = limitReached
    BY DEF ScanNext, Scanning, heapVars
  <1>2. PICK o \in unscanned :
           /\ unscanned' = unscanned \ {o} /\ temproots' = temproots \ {o}
           /\ calls' = IF o \in temproots THEN <<NewCall(o)>> ELSE <<>>
    BY DEF ScanNext
  <1>3. limitReached \in BOOLEAN
    BY <1>1 DEF Inv, MarkOK
  <1>4. CASE o \in temproots
    <2>1. o \in marked /\ o \in Objects
      BY <1>1, <1>4, NothingPending DEF Reach
    <2>2. NewCall(o) \in Calls /\ NewCall(o).object = o /\ NewCall(o).slot = 1
      BY <2>1 DEF NewCall, Calls
    <2>3. calls' \in Seq(Calls) /\ Len(calls') = 1 /\ calls'[1].object = o /\ calls'[1].slot = 1
      BY <1>2, <1>4, <2>2
    <2>4. \A s \in Slots : IsPending(o, s)'
      BY <2>3 DEF IsPending, Slots
    <2>5. \A i \in 1..Len(calls') : calls'[i].object \in marked'
      BY <1>1, <2>1, <2>3
    <2>6. MarkOK'
      BY <1>1, <1>2, <1>3, <2>3, <2>4, <2>5, NothingPending DEF MarkOK, CallsOK
    <2> QED  BY <1>1, <2>6, MarkingKeepsHeap
  <1>5. CASE o \notin temproots
    <2>1. calls' = <<>> /\ calls' \in Seq(Calls) /\ Len(calls') = 0
      BY <1>2, <1>5
    <2>2. MarkOK'
      BY <1>1, <1>2, <1>3, <1>5, <2>1, NothingPending DEF MarkOK, CallsOK
    <2> QED  BY <1>1, <2>2, MarkingKeepsHeap
  <1> QED  BY <1>4, <1>5

---------------------------------------------------------------------------
(* Sweeping. *)

\* When a collection comes to its sweep, everything that can be reached is marked.
LEMMA FinalizeRefcountsInv == Inv /\ FinalizeRefcounts => Inv'
  <1> SUFFICES ASSUME Inv, FinalizeRefcounts PROVE Inv'
    OBVIOUS
  <1>1. /\ Scanning /\ unscanned = {} /\ ~limitReached
        /\ pc = "mark" /\ pc' = "sweep" /\ count' = Without(Garbage)
        /\ refs' = refs /\ live' = live /\ refzero' = refzero /\ marked' = marked
    BY DEF FinalizeRefcounts, Scanning, markVars
  <1>2. GraphOK' /\ NoDangling'
    BY <1>1 DEF Inv, GraphOK, NoDangling
  <1>3. Reach(refs) \subseteq live /\ live \in SUBSET Objects
    BY ReachIsLive DEF Inv, GraphOK
  <1>4. marked = Reach(refs)
    <2>1. temproots = {}
      BY <1>1, NothingPending
    <2>2. IsClosed(refs, marked)
      BY <1>1, <2>1, NothingPending DEF IsClosed
    <2> QED  BY <1>1, <1>3, <2>2, NothingPending, ReachIsLeast
  <1>5. ASSUME NEW o \in live \ {Root} PROVE count'[o] = Cardinality(References(refs, marked, o))
    <2>1. count[o] = Cardinality(References(refs, live, o))
      BY <1>1, <1>5 DEF Inv, CountsOK
    <2>2. count'[o] = count[o] - Cardinality(References(refs, Garbage, o))
      BY <1>1, <1>3, <1>5 DEF Without
    <2>3. Garbage \in SUBSET live /\ live \ Garbage = marked
      BY <1>3, <1>4 DEF Garbage
    <2>4. Cardinality(References(refs, live \ Garbage, o)) =
             Cardinality(References(refs, live, o)) - Cardinality(References(refs, Garbage, o))
      BY <1>3, <2>3, ReferencesAdd
    <2> QED  BY <2>1, <2>2, <2>3, <2>4
  <1>6. count' \in [Objects -> Int]
    <2>1. ASSUME NEW o \in Objects
          PROVE  count[o] - Cardinality(References(refs, Garbage, o)) \in Int
      <3>1. Cardinality(References(refs, Garbage, o)) \in Nat
        BY <1>3, ReferencesAreFinite DEF Garbage
      <3>2. count[o] \in Int
        BY DEF Inv, CountsOK
      <3> QED  BY <3>1, <3>2
    <2> QED  BY <1>1, <2>1 DEF Without
  <1>7. CountsOK'
    BY <1>1, <1>5, <1>6 DEF CountsOK
  <1>8. RefzeroOK'
    BY <1>1 DEF Inv, RefzeroOK
  <1> QED  BY <1>1, <1>2, <1>4, <1>7, <1>8 DEF Inv, MarkOK, SweepOK

\* What cannot be reached is not referred to from what can.
LEMMA GarbageIsUnreferenced ==
    ASSUME Inv, pc = "sweep"
    PROVE  /\ Garbage \in SUBSET (live \ {Root}) /\ live \ Garbage = Reach(refs)
           /\ \A p \in live \ Garbage : \A s \in Slots : refs[p][s] \notin Garbage
  <1>1. marked = Reach(refs) /\ Reach(refs) \subseteq live
    BY ReachIsLive DEF Inv, SweepOK
  <1>2. Garbage \in SUBSET (live \ {Root}) /\ live \ Garbage = Reach(refs)
    BY <1>1, RootIsReached DEF Garbage
  <1>3. ASSUME NEW p \in live \ Garbage, NEW s \in Slots PROVE refs[p][s] \notin Garbage
    <2>1. refs[p][s] \in Reach(refs) \cup {Null} /\ Null \notin Objects /\ live \subseteq Objects
      BY <1>2, <1>3, ReachIsClosed, ObjectsAreFinite DEF Inv, GraphOK
    <2> QED  BY <1>1, <2>1 DEF Garbage
  <1> QED  BY <1>2, <1>3

LEMMA SweepInv == Inv /\ Sweep => Inv'
  <1> SUFFICES ASSUME Inv, Sweep PROVE Inv'
    OBVIOUS
  <1>1. /\ pc = "sweep" /\ pc' = "run" /\ live' = live \ Garbage /\ refs' = Cleared(Garbage)
        /\ count' = [o \in Objects |-> IF o \in Garbage THEN 0 ELSE count[o]]
        /\ refzero' = refzero
    BY DEF Sweep
  <1>2. GraphOK /\ NoDangling /\ CountsOK /\ RefzeroOK /\ marked = Reach(refs)
    BY <1>1 DEF Inv, SweepOK
  <1>3. /\ Garbage \in SUBSET (live \ {Root}) /\ live' = marked
        /\ \A p \in live \ Garbage : \A s \in Slots : refs[p][s] \notin Garbage
    BY <1>1, <1>2, GarbageIsUnreferenced
  <1>4. GraphOK' /\ NoDangling'
    BY <1>1, <1>2, <1>3, ClearedGraph
  <1>5. \A p \in live' : refs'[p] = refs[p]
    BY <1>1, <1>2 DEF Cleared, GraphOK
  <1>6. ASSUME NEW o \in live' \ {Root} PROVE count'[o] = Cardinality(References(refs', live', o))
    <2>1. References(refs', live', o) = References(refs, marked, o)
      BY <1>3, <1>5 DEF References
    <2>2. o \in live \ {Root} /\ o \notin Garbage /\ o \in Objects
      BY <1>1, <1>2, <1>6 DEF GraphOK
    <2>3. count[o] = Cardinality(References(refs, marked, o))
      BY <1>1, <1>2, <2>2 DEF CountsOK
    <2> QED  BY <1>1, <2>1, <2>2, <2>3
  <1>7. CountsOK'
    BY <1>1, <1>2, <1>6 DEF CountsOK
  <1>8. RefzeroOK'
    BY <1>1, <1>2 DEF RefzeroOK
  <1> QED  BY <1>1, <1>4, <1>7, <1>8 DEF Inv, MarkOK, SweepOK

---------------------------------------------------------------------------
(* The theorems. *)

LEMMA StutterInv == Inv /\ UNCHANGED vars => Inv'
  <1> SUFFICES ASSUME Inv, UNCHANGED vars PROVE Inv'
    OBVIOUS
  <1> USE DEF vars, heapVars, markVars, Inv
  <1>1. GraphOK' /\ NoDangling' /\ CountsOK'
    BY DEF GraphOK, NoDangling, CountsOK
  <1>2. RefzeroOK' /\ SweepOK'
    BY DEF RefzeroOK, SweepOK
  <1>3. MarkOK'
    BY DEF MarkOK, CallsOK, IsPending
  <1> QED  BY <1>1, <1>2, <1>3

LEMMA NextInv == Inv /\ [Next]_vars => Inv'
  <1> SUFFICES ASSUME Inv, [Next]_vars PROVE Inv'
    OBVIOUS
  <1>1. CASE Next
    BY <1>1, NewInv, SetRefInv, FreeNextInv, CollectInv, SkipSlotInv, MarkMemberInv,
       ReturnInv, StartScanInv, ScanNextInv, FinalizeRefcountsInv, SweepInv DEF Next, Collector
  <1>2. CASE UNCHANGED vars
    BY <1>2, StutterInv
  <1> QED  BY <1>1, <1>2

THEOREM Invariance == Spec => []Inv
  BY InitInv, NextInv, PTL DEF Spec

\* Nothing that is allocated refers to anything that was freed, whichever of counting
\* and collecting has freed it.
THEOREM NeverDangling == Spec => []NoDangling
  <1>1. Inv => NoDangling
    BY DEF Inv
  <1> QED  BY <1>1, Invariance, PTL

\* Counts are the number of the references there are, cycles and repeated references
\* included.
THEOREM CountsAlwaysExact == Spec => []CountsExact
  <1>1. Inv => CountsExact
    BY DEF Inv, CountsOK, CountsExact
  <1> QED  BY <1>1, Invariance, PTL

\* What is swept is counted by nothing: the references between garbage cancel out.
THEOREM SweepsOnlyUncounted == Spec => []SweepsUncounted
  <1>1. ASSUME Inv, pc = "sweep", NEW o \in Garbage PROVE count[o] = 0
    <2>1. o \in live \ {Root} /\ live \in SUBSET Objects
      BY <1>1, GarbageIsUnreferenced DEF Inv, GraphOK
    <2>2. count[o] = Cardinality(References(refs, marked, o))
      BY <1>1, <2>1 DEF Inv, CountsOK
    <2>3. marked \in SUBSET Objects /\ \A p \in marked : \A s \in Slots : refs[p][s] # o
      BY <1>1, <2>1, GarbageIsUnreferenced DEF Inv, SweepOK
    <2> QED  BY <2>2, <2>3, NoReferences
  <1>2. Inv => SweepsUncounted
    BY <1>1 DEF SweepsUncounted
  <1> QED  BY <1>2, Invariance, PTL

\* Only a sweep frees anything else than a cascade does, and what it leaves is what can
\* be reached, for any limit on the depth of marking.
THEOREM CollectionsAreComplete == Spec => CollectsAll
  <1>1. Inv /\ [Next]_vars => [pc = "sweep" => live' = Reach(refs)]_vars
    <2> SUFFICES ASSUME Inv, Next, pc = "sweep" PROVE live' = Reach(refs)
      OBVIOUS
    <2>1. Sweep
      BY DEF Next, Collector, New, SetRef, FreeNext, Collect, SkipSlot, MarkMember, Return,
             StartScan, ScanNext, FinalizeRefcounts, Marking, Scanning
    <2> QED  BY <2>1, GarbageIsUnreferenced DEF Sweep
  <1> QED  BY <1>1, Invariance, PTL DEF Spec, CollectsAll

\* Cascades and collections come to their ends.
THEOREM AlwaysAdvances == Spec => Advances
  <1> DEFINE Nearer ==
        \/ live' \subseteq live /\ live' # live
        \/ marked \subseteq marked' /\ marked' # marked
        \/ /\ marked' = marked
           /\ \/ limitReached /\ ~limitReached'
              \/ /\ limitReached' = limitReached
                 /\ \/ unscanned' \subseteq unscanned /\ unscanned' # unscanned
                    \/ /\ unscanned' = unscanned
                       /\ \/ Len(calls') < Len(calls)
                          \/ /\ Len(calls') = Len(calls)
                             /\ Top'.slot > Top.slot
  <1>1. Inv /\ [Next]_vars => [pc # "run" /\ pc' = pc => Nearer]_vars
    <2> SUFFICES ASSUME Inv, Next, pc # "run", pc' = pc PROVE Nearer
      OBVIOUS
    <2>1. CASE FreeNext
      BY <2>1 DEF FreeNext, Inv, RefzeroOK
    <2>2. CASE SkipSlot
      <3>1. Marking /\ Top.slot <= SlotCount /\ calls' = Advanced
        BY <2>2 DEF SkipSlot
      <3>2. Len(calls') = Len(calls) /\ Top'.slot = Top.slot + 1 /\ Top.slot \in Nat
        BY <3>1, AdvancedCalls, TopIsCall DEF Top
      <3>3. Top'.slot > Top.slot
        BY <3>2
      <3> QED  BY <2>2, <3>2, <3>3 DEF SkipSlot
    <2>3. CASE MarkMember
      BY <2>3 DEF MarkMember
    <2>4. CASE Return
      <3>1. Len(calls') = Len(calls) - 1 /\ Len(calls) \in Nat
        BY <2>4, TopIsCall, FrontProperties DEF Return, CallsOK
      <3> QED  BY <2>4, <3>1 DEF Return
    <2>5. CASE StartScan
      BY <2>5 DEF StartScan
    <2>6. CASE ScanNext
      BY <2>6 DEF ScanNext
    <2> QED
      BY <2>1, <2>2, <2>3, <2>4, <2>5, <2>6
         DEF Next, Collector, New, SetRef, Collect, FinalizeRefcounts, Sweep, Scanning
  <1> HIDE DEF Nearer
  <1>2. Spec => [][pc # "run" /\ pc' = pc => Nearer]_vars
    BY <1>1, Invariance, PTL DEF Spec
  <1> QED  BY <1>2 DEF Advances, Nearer

---------------------------------------------------------------------------
(* Refinement. *)

LEMMA SameReach == ASSUME NEW g PROVE Graph!Reach(g) = Reach(g)
  BY DEF Graph!Reach, Reach, Graph!Closed, Closed, Graph!IsClosed, IsClosed, Graph!Slots, Slots

\* The program sees a graph that only its own steps change.
THEOREM HeapKeepsGraph == Spec => KeepsGraph
  <1> USE DEF Graph!Slots, Slots, Graph!NoRefs, NoRefs
  <1>1. Init => Graph!Init
    BY DEF Init, Graph!Init
  <1>2. Inv /\ [Next]_vars => [Graph!Next]_refs
    <2> SUFFICES ASSUME Inv, Next, refs' # refs PROVE Graph!Next
      BY DEF vars, heapVars
    <2>1. Reach(refs) \subseteq live /\ live \in SUBSET Objects /\ Root \in Reach(refs)
      BY ReachIsLive, RootIsReached DEF Inv, GraphOK
    <2>2. CASE New
      <3>1. PICK o \in Free, s \in Slots : refs[Root][s] = Null /\ refs' = Written(refs, Root, s, o)
        BY <2>2 DEF New
      <3>2. o \in Objects \ Reach(refs) /\ refs[o] = NoRefs
        BY <2>1, <3>1 DEF Free, Inv, GraphOK
      <3>3. Graph!Create(o, s)
        BY <3>1, <3>2 DEF Graph!Create, Graph!Written, Written
      <3> QED  BY <3>1, <3>2, <3>3, SameReach DEF Graph!Next
    <2>3. CASE SetRef
      <3>1. PICK p \in Reach(refs), s \in Slots, v \in (Reach(refs) \ {Root}) \cup {Null} :
              refs' = Written(refs, p, s, v)
        BY <2>3 DEF SetRef
      <3>2. Graph!Write(p, s, v)
        BY <3>1 DEF Graph!Write, Graph!Written, Written
      <3> QED  BY <3>1, <3>2, SameReach DEF Graph!Next
    <2>4. ASSUME NEW set \in SUBSET (Objects \ Reach(refs)), refs' = Cleared(set)
          PROVE  Graph!Next
      <3>1. Graph!Forget(set)
        BY <2>4 DEF Graph!Forget, Cleared
      <3> QED  BY <2>4, <3>1, SameReach DEF Graph!Next
    <2>5. CASE FreeNext
      <3>1. PICK h \in refzero : refs' = Cleared({h})
        BY <2>5 DEF FreeNext
      <3>2. h \in live \ {Root} /\ References(refs, live, h) = {}
        BY DEF Inv, RefzeroOK
      <3>3. \A p \in live : \A s \in Slots : refs[p][s] # h
        <4>1. Cardinality(References(refs, live, h)) = 0
          BY <3>2, FS_EmptySet
        <4> QED  BY <2>1, <4>1, NoReferences
      <3>4. IsClosed(refs, live \ {h})
        BY <3>3 DEF IsClosed, Inv, NoDangling
      <3>5. h \notin Reach(refs)
        BY <2>1, <3>2, <3>4, ReachIsLeast
      <3> QED  BY <2>1, <2>4, <3>1, <3>2, <3>5
    <2>6. CASE Sweep
      <3>1. refs' = Cleared(Garbage) /\ pc = "sweep"
        BY <2>6 DEF Sweep
      <3>2. Garbage \in SUBSET (Objects \ Reach(refs))
        BY <2>1, <3>1, GarbageIsUnreferenced
      <3> QED  BY <2>4, <3>1, <3>2
    <2> QED
      BY <2>2, <2>3, <2>5, <2>6
         DEF Next, Collector, Collect, SkipSlot, MarkMember, Return, StartScan, ScanNext,
             FinalizeRefcounts, heapVars
  <1> QED  BY <1>1, <1>2, Invariance, PTL DEF Spec, KeepsGraph, Graph!Spec
=============================================================================
