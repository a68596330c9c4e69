---------------------------- MODULE JsonCreate ----------------------------
(***************************************************************************)
(* The hydrater of src/json_create.js.  Every call of its parse() makes a  *)
(* closure with a curObject and an objectStack of its own and registers    *)
(* six handlers that work on them; nothing ever removes the handlers.      *)
(*                                                                         *)
(* JavaScript objects live in a heap and are named by their place in it: a *)
(* handler may change an object somebody else holds.                       *)
(***************************************************************************)
EXTENDS JsString

CONSTANT Malformed   \* the texts that JSON.parse throws on

VARIABLES
    heap,        \* the objects and arrays made so far
    hydraters    \* the closures [cur, stack], in the order of their creation

createVars == <<heap, hydraters>>

---------------------------------------------------------------------------
(* Values. *)

Maybe(S) == S \cup {Undefined}

Texts == Seq(Chars)

\* The key of a member: the index of an element, or the name of a member.
Keys == [index : Int] \cup [name : Texts]

Objects == 1..Len(heap)

Values == [scalar : Texts] \cup [ref : Objects]

\* JSON.parse(text)
Parsed(text) == [scalar |-> text]

Ref(n) == [ref |-> n]

NoMembers == [key \in {} |-> Undefined]

\* object[key] = value
Put(object, key, value) ==
    [object EXCEPT !.members = [k \in DOMAIN @ \cup {key} |-> IF k = key THEN value ELSE @[k]]]

\* The value without references, as JSON.stringify walks it: it skips what is
\* not an element of an array.  An object only refers to objects made after it.
Shown(object) ==
    {k \in DOMAIN object.members : object.type = "array" => "index" \in DOMAIN k}

IsRef(value) == value # Undefined /\ "ref" \in DOMAIN value

Tree(value) ==
    LET tree[n \in 1..Len(heap)] ==
          [heap[n] EXCEPT !.members = [k \in Shown(heap[n]) |->
                                         IF IsRef(@[k]) THEN tree[@[k].ref] ELSE @[k]]]
    IN IF IsRef(value) THEN tree[value.ref] ELSE value

---------------------------------------------------------------------------
(* The handlers of hydrater h. *)

NewHydrater == [cur |-> Undefined, stack |-> <<>>]

\* pushObject: without a key only the first container is taken up, because its
\* own parser announces a nested one a second time.
PushObject(h, key, type) ==
    LET me == hydraters[h]
    IN \/ /\ me.cur = Undefined \/ key # Undefined
          /\ heap' = Append(heap, [type |-> type, members |-> NoMembers])
          /\ hydraters' = [hydraters EXCEPT
                             ![h].cur = Len(heap) + 1,
                             ![h].stack = IF me.cur = Undefined THEN @ ELSE Append(@, me.cur)]
       \/ me.cur # Undefined /\ key = Undefined /\ UNCHANGED createVars

IsIndex(key) == "index" \in DOMAIN key

\* Mutant: the elements of an array are stored like any others.
StoresEverything(type, key, outer) == TRUE

\* endArray stores whatever it finds, endObject no element of an array.
Stores(type, key, outer) == type = "array" \/ (~IsIndex(key) /\ outer.type # "array")

\* Mutant: oldObject is read when curObject is already the outer one.
PoppedAfterwards(me) == [old |-> me.stack[Len(me.stack)], outer |-> me.stack[Len(me.stack)]]

\* popObject, and the oldObject of its callers.
PoppedObjects(me) == [old |-> me.cur, outer |-> me.stack[Len(me.stack)]]

\* The handlers of endObject and endArray.
PopObject(h, key, type) ==
    LET me     == hydraters[h]
        popped == PoppedObjects(me)
    IN IF me.stack # <<>> /\ key # Undefined
       THEN /\ hydraters' = [hydraters EXCEPT
                               ![h] = [cur |-> popped.outer,
                                       stack |-> SubSeq(me.stack, 1, Len(me.stack) - 1)]]
            /\ heap' = IF Stores(type, key, heap[popped.outer])
                       THEN [heap EXCEPT ![popped.outer] = Put(@, key, Ref(popped.old))]
                       ELSE heap
       ELSE UNCHANGED createVars

\* The handler of foundValue, which throws when Refuses.
Refuses(h, value) == hydraters[h].cur # Undefined /\ value \in Malformed

StoreValue(h, key, value) ==
    LET cur == hydraters[h].cur
    IN /\ heap' = IF value # Undefined /\ cur # Undefined
                  THEN [heap EXCEPT ![cur] = Put(@, key, Parsed(value))]
                  ELSE heap
       /\ UNCHANGED hydraters

\* Everything hydrater h does with event e.
Hydrates(h, e) ==
    \/ e.event = "startObject" /\ PushObject(h, e.key, "object")
    \/ e.event = "startArray"  /\ PushObject(h, e.key, "array")
    \/ e.event = "endObject"   /\ PopObject(h, e.key, "object")
    \/ e.event = "endArray"    /\ PopObject(h, e.key, "array")
    \/ e.event = "foundValue"  /\ StoreValue(h, e.key, e.value)
    \/ e.event = "foundKey"    /\ UNCHANGED createVars

---------------------------------------------------------------------------
(* The end of parse(): what is left on a stack is the object. *)

TooLong(h) == Len(hydraters[h].stack) > 1

Remaining(h) ==
    LET me == hydraters[h]
    IN IF Len(me.stack) = 1 THEN me.stack[1] ELSE me.cur

Conclude(h) ==
    /\ hydraters' = [hydraters EXCEPT ![h] = [cur |-> Remaining(h), stack |-> <<>>]]
    /\ UNCHANGED heap

\* What parse() returns: undefined if the parser has found nothing.
Result(h) == IF Remaining(h) = Undefined THEN Undefined ELSE Ref(Remaining(h))

---------------------------------------------------------------------------
\* No object contains itself, so JSON.stringify walks every value to its end
\* and never throws on a cycle: handlers of stale hydraters go on storing
\* objects in objects, but only later ones in earlier ones.
Acyclic ==
    \A n \in 1..Len(heap) : \A key \in DOMAIN heap[n].members :
        \A m \in 1..n : heap[n].members[key] # Ref(m)
===========================================================================
