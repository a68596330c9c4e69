----------------------------- MODULE ObjectHeap -----------------------------
(***************************************************************************)
(* The objects of Duktape's heap.  They are freed when their reference     *)
(* count comes to zero, by a loop over a list so that no chain of objects  *)
(* is too long for the C stack; and a mark-and-sweep collection, which may *)
(* start in any allocation, frees what refers to itself.  Marking recurs,  *)
(* but not too deeply: objects beyond the limit become temporary roots,    *)
(* and scans of the whole heap go on from them.                            *)
(*                                                                         *)
(* The scripts set no finalizers, so the list of objects whose count is    *)
(* zero is empty whenever a collection starts, and a collection has no     *)
(* objects to rescue.                                                      *)
(***************************************************************************)
EXTENDS Reachability, Sequences, SequencesExt

CONSTANT RecursionLimit  \* DUK_USE_MARK_AND_SWEEP_RECLIMIT

ASSUME LimitIsPositive == RecursionLimit \in Nat \ {0}

VARIABLES
    live,           \* heap_allocated and refzero_list
    refs,           \* the references of each object
    count,          \* h_refcount
    refzero,        \* refzero_list, whose order does not matter here
    pc,             \* "run", "refzero", "mark" or "sweep"
    marked,         \* DUK_HEAPHDR_FLAG_REACHABLE
    temproots,      \* DUK_HEAPHDR_FLAG_TEMPROOT
    calls,          \* the calls of duk__mark_hobject: object and next slot
    limitReached,   \* DUK_HEAP_FLAG_MARKANDSWEEP_RECLIMIT_REACHED
    unscanned       \* what the scan for temporary roots has yet to come to

heapVars == <<live, refs, count>>
markVars == <<marked, temproots, calls, limitReached, unscanned>>
vars     == <<heapVars, refzero, pc, markVars>>

---------------------------------------------------------------------------
(* The program. *)

Free == Objects \ live

\* duk_push_object_helper: allocated without a reference to it, which it gets
\* before anything else is allocated.
New ==
    /\ pc = "run"
    /\ \E o \in Free, s \in Slots :
         /\ refs[Root][s] = Null
         /\ live' = live \cup {o}
         /\ refs' = Written(refs, Root, s, o)
         /\ count' = [count EXCEPT ![o] = 1]
    /\ UNCHANGED <<refzero, pc, markVars>>

\* Mutant: a value that replaces one is not counted.
CountsFirst(old, new) ==
    [o \in Objects |-> IF o = old THEN count[o] - 1
                       ELSE IF o = new /\ old = Null THEN count[o] + 1 ELSE count[o]]

Recounted(old, new) ==
    [o \in Objects |-> count[o] + (IF o = new THEN 1 ELSE 0) - (IF o = old THEN 1 ELSE 0)]

\* DUK_TVAL_SET_TVAL_UPDREF: every change of a reference, the ones of the value
\* stack as well.
SetRef ==
    /\ pc = "run"
    /\ \E p \in Reach(refs), s \in Slots, v \in (Reach(refs) \ {Root}) \cup {Null} :
         LET old == refs[p][s]
         IN /\ refs' = Written(refs, p, s, v)
            /\ count' = Recounted(old, v)
            /\ refzero' = {o \in {old} \ {Null} : count'[o] = 0}
    /\ pc' = IF refzero' = {} THEN "run" ELSE "refzero"
    /\ UNCHANGED <<live, markVars>>

---------------------------------------------------------------------------
(* duk__refzero_free_pending. *)

\* Mutant: an object that is referred to twice loses one reference.
WithoutOne(set) ==
    [o \in Objects |-> count[o] - Cardinality({p \in set : References(refs, {p}, o) # {}})]

\* What is counted when the references of these objects are taken away.
Without(set) == [o \in Objects |-> count[o] - Cardinality(References(refs, set, o))]

Cleared(set) == [o \in Objects |-> IF o \in set THEN NoRefs ELSE refs[o]]

\* Mutant: looked at before the last reference is taken away.
QueuesEarly(h) == {o \in live : References(refs, {h}, o) # {} /\ Without({h})[o] <= 1}

Queued(h) == {o \in live : References(refs, {h}, o) # {} /\ Without({h})[o] = 0}

\* duk__refcount_finalize_hobject takes the references of an object away, and the
\* objects that nothing else refers to join the list.
FreeNext ==
    /\ pc = "refzero"
    /\ \E h \in refzero :
         /\ count' = Without({h})
         /\ refzero' = (refzero \ {h}) \cup Queued(h)
         /\ live' = live \ {h}
         /\ refs' = Cleared({h})
    /\ pc' = IF refzero' = {} THEN "run" ELSE "refzero"
    /\ UNCHANGED markVars

---------------------------------------------------------------------------
(* duk_heap_mark_and_sweep: marking. *)

NewCall(h) == [object |-> h, slot |-> 1]

\* In an allocation, or when a whole cascade has been freed.
Collect ==
    /\ pc = "run"
    /\ pc' = "mark"
    /\ marked' = {Root} /\ temproots' = {} /\ calls' = <<NewCall(Root)>>
    /\ limitReached' = FALSE /\ unscanned' = {}
    /\ UNCHANGED <<heapVars, refzero>>

Marking == pc = "mark" /\ calls # <<>>

Top    == calls[Len(calls)]
Member == refs[Top.object][Top.slot]

Advanced == [calls EXCEPT ![Len(calls)].slot = @ + 1]

SkipSlot ==
    /\ Marking /\ Top.slot <= SlotCount
    /\ Member \in marked \cup {Null}
    /\ calls' = Advanced
    /\ UNCHANGED <<heapVars, refzero, pc, marked, temproots, limitReached, unscanned>>

\* Mutant: that marking is not complete is forgotten.
ForgetsLimit(o) ==
    /\ calls' = Advanced
    /\ temproots' = temproots \cup {o}
    /\ UNCHANGED limitReached

BecomesTempRoot(o) ==
    /\ calls' = Advanced
    /\ temproots' = temproots \cup {o}
    /\ limitReached' = TRUE

MarkMember ==
    /\ Marking /\ Top.slot <= SlotCount
    /\ Member \notin marked \cup {Null}
    /\ marked' = marked \cup {Member}
    /\ IF Len(calls) < RecursionLimit
       THEN calls' = Append(Advanced, NewCall(Member)) /\ UNCHANGED <<temproots, limitReached>>
       ELSE BecomesTempRoot(Member)
    /\ UNCHANGED <<heapVars, refzero, pc, unscanned>>

Return ==
    /\ Marking /\ Top.slot > SlotCount
    /\ calls' = Front(calls)
    /\ UNCHANGED <<heapVars, refzero, pc, marked, temproots, limitReached, unscanned>>

\* duk__mark_temproots_by_heap_scan; the order of the heap does not matter here.
Scanning == pc = "mark" /\ calls = <<>>

\* Mutant: the flag is never cleared.
ScansAgain ==
    /\ Scanning /\ unscanned = {} /\ limitReached
    /\ unscanned' = live
    /\ UNCHANGED <<heapVars, refzero, pc, marked, temproots, calls, limitReached>>

StartScan ==
    /\ Scanning /\ unscanned = {} /\ limitReached
    /\ limitReached' = FALSE
    /\ unscanned' = live
    /\ UNCHANGED <<heapVars, refzero, pc, marked, temproots, calls>>

\* duk__handle_temproot goes on with a temporary root; the depth is zero again.
ScanNext ==
    /\ Scanning
    /\ \E o \in unscanned :
         /\ unscanned' = unscanned \ {o}
         /\ temproots' = temproots \ {o}
         /\ calls' = IF o \in temproots THEN <<NewCall(o)>> ELSE <<>>
    /\ UNCHANGED <<heapVars, refzero, pc, marked, limitReached>>

---------------------------------------------------------------------------
(* Sweeping. *)

\* Mutant: what is counted is spared.
Uncounted == {o \in live \ marked : count[o] = 0}

Garbage == live \ marked

\* duk__finalize_refcounts: no count that comes to zero is acted upon.
FinalizeRefcounts ==
    /\ Scanning /\ unscanned = {} /\ ~limitReached
    /\ pc' = "sweep"
    /\ count' = Without(Garbage)
    /\ UNCHANGED <<live, refs, refzero, markVars>>

\* duk__sweep_heap
Sweep ==
    /\ pc = "sweep"
    /\ pc' = "run"
    /\ live' = live \ Garbage
    /\ refs' = Cleared(Garbage)
    /\ count' = [o \in Objects |-> IF o \in Garbage THEN 0 ELSE count[o]]
    /\ marked' = {}
    /\ UNCHANGED <<refzero, temproots, calls, limitReached, unscanned>>

---------------------------------------------------------------------------
Init ==
    /\ live = {Root}
    /\ refs = [o \in Objects |-> NoRefs]
    /\ count = [o \in Objects |-> IF o = Root THEN 1 ELSE 0]
    /\ refzero = {}
    /\ pc = "run"
    /\ marked = {} /\ temproots = {} /\ calls = <<>>
    /\ limitReached = FALSE /\ unscanned = {}

Collector ==
    \/ SkipSlot \/ MarkMember \/ Return \/ StartScan \/ ScanNext
    \/ FinalizeRefcounts \/ Sweep

Next == New \/ SetRef \/ FreeNext \/ Collect \/ Collector

Spec == Init /\ [][Next]_vars

---------------------------------------------------------------------------
(* Properties. *)

\* No object that is still allocated, reachable or garbage, refers to one that is
\* freed: so taking references away never touches freed memory, whichever of the
\* two ways of freeing comes first (duktape.c:41506-41510, 43303-43306).
NoDangling == \A p \in live : \A s \in Slots : refs[p][s] \in live \cup {Null}

\* Whatever is freed, counts are the number of the references there are (the macros
\* assert that they never go below zero, duktape.c:3807).
CountsExact ==
    pc # "sweep" =>
       \A o \in live \ {Root} : count[o] = Cardinality(References(refs, live, o))

\* "Non-zero refcounts should not happen because we refcount finalize all unreachable
\* objects which should cancel out refcounts (even for cycles)" (duktape.c:41899-41903).
SweepsUncounted == pc = "sweep" => \A o \in Garbage : count[o] = 0

\* A collection leaves what can be reached and nothing else, however deep the graph
\* is compared with the limit on recursion (duktape.c:41427-41439).
CollectsAll == [][pc = "sweep" => live' = Reach(refs)]_vars

\* Every step of a cascade or a collection brings its end nearer: a cascade frees an
\* object, and marking, which goes on as long as the limit is reached in each scan,
\* does so only when it has marked another (duktape.c:41470).
Advances ==
    [][pc # "run" /\ pc' = pc =>
          \/ live' \subseteq live /\ live' # live
          \/ marked \subseteq marked' /\ marked' # marked
          \/ /\ marked' = marked
             /\ \/ limitReached /\ ~limitReached'
                \/ /\ limitReached' = limitReached
                   /\ \/ unscanned' \subseteq unscanned /\ unscanned' # unscanned
                      \/ /\ unscanned' = unscanned
                         /\ \/ Len(calls') < Len(calls)
                            \/ /\ Len(calls') = Len(calls)
                               /\ Top'.slot > Top.slot]_vars

Graph == INSTANCE ObjectGraph WITH graph <- refs

\* Freeing is invisible: only the program changes what it can reach, and a new object
\* gets the address of none of it.
KeepsGraph == Graph!Spec
=============================================================================
