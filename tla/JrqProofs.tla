----------------------------- MODULE JrqProofs -----------------------------
(***************************************************************************)
(* Type correctness of Jrq, and that no value jrq makes contains itself.   *)
(*                                                                         *)
(* HeapInv is about the hydraters alone: it holds whatever events they     *)
(* meet, in whatever order and however many of them are registered.  On    *)
(* the stack of each the objects are in the order they were made in, the   *)
(* one it works on being the latest.  JrqInv adds who called whom.         *)
(***************************************************************************)
EXTENDS Jrq, SequenceTheorems, TLAPS

AnyValues == [scalar : Texts] \cup [ref : Nat]

HeapObjects ==
    [type : {"object", "array"}, members : UNION {[K -> AnyValues] : K \in SUBSET Maybe(Keys)}]

RefsExist ==
    \A n \in Objects : \A key \in DOMAIN heap[n].members : heap[n].members[key] \in Values

Ascends(stack, cur) ==
    /\ \A i \in 1..Len(stack) : stack[i] < cur
    /\ \A i, j \in 1..Len(stack) : i < j => stack[i] < stack[j]

Ordered(me) ==
    me.stack # <<>> => me.cur \in Objects /\ Ascends(me.stack, me.cur)

Hydrater == [cur : Maybe(Objects), stack : Seq(Objects)]

HeapInv ==
    /\ heap \in Seq(HeapObjects)
    /\ RefsExist
    /\ hydraters \in Seq(Hydrater)
    /\ \A h \in 1..Len(hydraters) : Ordered(hydraters[h])
    /\ Acyclic

\* A hydrater parses for innerMain, or for the first handler of an emission.
Callings ==
    \A i \in 1..Len(calls) :
        calls[i].call = "create" =>
            IF i = 1 THEN session.args = <<>>
            ELSE calls[i - 1].call = "emit" /\ calls[i - 1].handler = 1

ControlOK ==
    /\ session \in Sessions
    /\ count \in 1..Len(session.parses)
    /\ at \in Nat \ {0}
    /\ main \in {"loop", "parsing", "done", "failed"}
    /\ main # "parsing" => calls = <<>>
    /\ calls \in Seq(Frames)
    /\ Callings

SelectionOK ==
    /\ keyStack \in Seq(Keys)
    /\ objectDepth \in Int
    /\ initialObject \in Maybe({"object", "array"})
    /\ argOutput \in Maybe([Places -> Maybe(Values)])
    /\ foundKeys \in Seq(Maybe(Keys))

JrqInv == ControlOK /\ SelectionOK /\ HeapInv

---------------------------------------------------------------------------
(* The hydraters. *)

\* The objects below the top of a stack.
Below(s) == SubSeq(s, 1, Len(s) - 1)

LEMMA BelowTop ==
    ASSUME NEW S, NEW s \in Seq(S), s # <<>>
    PROVE  /\ Len(s) \in Nat /\ Len(s) > 0 /\ s[Len(s)] \in S
           /\ Below(s) \in Seq(S) /\ Len(Below(s)) = Len(s) - 1
           /\ \A i \in 1..Len(Below(s)) : Below(s)[i] = s[i]
<1>1. Len(s) \in Nat /\ Len(s) > 0 /\ \A i \in 1..Len(s) : s[i] \in S
  OBVIOUS
<1>2. \A i \in 1..(Len(s) - 1) : s[i] \in S
  BY <1>1
<1> DEFINE last == Len(s) - 1
<1>a. last \in Int
  BY <1>1
<1> HIDE DEF last
<1>b. \A i \in 1..last : s[i] \in S
  BY <1>2 DEF last
<1> DEFINE r == SubSeq(s, 1, last)
<1>3. /\ r \in Seq(S)
      /\ Len(r) = IF 1 <= last THEN last - 1 + 1 ELSE 0
      /\ \A i \in 1..(last - 1 + 1) : r[i] = s[1 + i - 1]
  BY <1>a, <1>b, SubSeqProperties
<1> HIDE DEF r
<1>4. last >= 0 /\ last - 1 + 1 = last /\ \A i \in 1..last : 1 + i - 1 = i
  BY <1>1 DEF last
<1>5. Len(r) = last /\ \A i \in 1..Len(r) : r[i] = s[i]
  BY <1>3, <1>4, <1>a
<1> QED
  BY <1>1, <1>3, <1>5 DEF Below, last, r

LEMMA PopAscends ==
    ASSUME NEW n \in Nat, NEW cur \in 1..n, NEW s \in Seq(1..n), s # <<>>, Ascends(s, cur)
    PROVE  s[Len(s)] < cur /\ Ascends(Below(s), s[Len(s)])
<1> DEFINE t == Below(s)
<1>1. /\ Len(s) \in Nat /\ Len(s) > 0 /\ s[Len(s)] \in 1..n
      /\ t \in Seq(1..n) /\ Len(t) = Len(s) - 1
      /\ \A i \in 1..Len(t) : t[i] = s[i]
  BY BelowTop
<1> HIDE DEF t
<1>2. \A i \in 1..Len(s) : s[i] < cur
  BY DEF Ascends
<1>3. \A i, j \in 1..Len(s) : i < j => s[i] < s[j]
  BY DEF Ascends
<1>a. Len(s) \in 1..Len(s) /\ \A i \in 1..Len(t) : i \in 1..Len(s) /\ i < Len(s)
  BY <1>1
<1>4. \A i \in 1..Len(t) : t[i] < s[Len(s)]
  <2> TAKE i \in 1..Len(t)
  <2> QED
    BY <1>1, <1>3, <1>a
<1>5. \A i, j \in 1..Len(t) : i < j => t[i] < t[j]
  <2> TAKE i, j \in 1..Len(t)
  <2> QED
    BY <1>1, <1>3, <1>a
<1> QED
  BY <1>1, <1>2, <1>4, <1>5 DEF Ascends, t

LEMMA PushAscends ==
    ASSUME NEW n \in Nat, NEW cur \in 1..n, NEW s \in Seq(1..n), s # <<>> => Ascends(s, cur)
    PROVE  Append(s, cur) \in Seq(1..n) /\ Ascends(Append(s, cur), n + 1)
<1>1. /\ Append(s, cur) \in Seq(1..n) /\ Len(Append(s, cur)) = Len(s) + 1
      /\ \A i \in 1..Len(s) : Append(s, cur)[i] = s[i]
      /\ Append(s, cur)[Len(s) + 1] = cur
  BY AppendProperties
<1> DEFINE t == Append(s, cur)
<1> HIDE DEF t
<1>2. Len(s) \in Nat /\ \A i \in 1..Len(s) : s[i] \in 1..n /\ s[i] < cur
  BY DEF Ascends
<1>3. \A i \in 1..Len(t) : t[i] < n + 1
  BY <1>1, <1>2 DEF t
<1>4. \A i, j \in 1..Len(s) : i < j => s[i] < s[j]
  BY <1>2 DEF Ascends
<1>5. \A i, j \in 1..Len(t) : i < j => t[i] < t[j]
  BY <1>1, <1>2, <1>4 DEF t
<1> QED
  BY <1>1, <1>3, <1>5 DEF Ascends, t

\* Storing value in object n under key.
LEMMA PutInHeap ==
    ASSUME HeapInv, NEW n \in Objects, NEW key \in Maybe(Keys), NEW value \in Values,
           \A m \in 1..n : value # Ref(m),
           heap' = [heap EXCEPT ![n] = Put(@, key, value)]
    PROVE  /\ heap' \in Seq(HeapObjects) /\ Len(heap') = Len(heap)
           /\ RefsExist' /\ Acyclic'
<1> DEFINE o == Put(heap[n], key, value)
<1>1. heap \in Seq(HeapObjects) /\ heap[n] \in HeapObjects /\ Len(heap) \in Nat
      /\ n \in 1..Len(heap) /\ heap \in [1..Len(heap) -> HeapObjects]
  BY DEF HeapInv, Objects
<1>2. value \in AnyValues
  BY <1>1 DEF Values, AnyValues, Objects
<1>3. PICK K \in SUBSET Maybe(Keys) : heap[n].members \in [K -> AnyValues]
  BY <1>1 DEF HeapObjects
<1>4. o.members = [k \in K \cup {key} |-> IF k = key THEN value ELSE heap[n].members[k]]
  BY <1>1, <1>3 DEF Put, HeapObjects
<1>5. o.members \in [K \cup {key} -> AnyValues] /\ K \cup {key} \in SUBSET Maybe(Keys)
  BY <1>2, <1>3, <1>4
<1>6. o.type = heap[n].type /\ o = [type |-> heap[n].type, members |-> o.members]
  BY <1>1 DEF Put, HeapObjects
<1>7. o \in HeapObjects
  BY <1>1, <1>5, <1>6 DEF HeapObjects
<1> HIDE DEF o
<1>8. heap' = [heap EXCEPT ![n] = o]
  BY DEF o
<1>9. heap' \in Seq(HeapObjects) /\ Len(heap') = Len(heap)
  <2>1. heap' \in [1..Len(heap) -> HeapObjects]
    BY <1>1, <1>7, <1>8
  <2> QED
    BY <1>1, <2>1
<1>10. \A m \in Objects : heap'[m] = IF m = n THEN o ELSE heap[m]
  BY <1>1, <1>8 DEF Objects
<1>11. Objects' = Objects /\ Values' = Values
  BY <1>9 DEF Objects, Values
<1>12. \A k \in DOMAIN o.members : o.members[k] = value \/ (k \in K /\ o.members[k] = heap[n].members[k])
  BY <1>4
<1>13. RefsExist'
  <2>1. \A k \in DOMAIN o.members : o.members[k] \in Values
    BY <1>3, <1>12 DEF HeapInv, RefsExist
  <2> QED
    BY <2>1, <1>10, <1>11 DEF HeapInv, RefsExist
<1>14. Acyclic'
  <2>1. \A k \in DOMAIN o.members : \A m \in 1..n : o.members[k] # Ref(m)
    BY <1>3, <1>12 DEF HeapInv, Acyclic, Objects
  <2> QED
    <3> SUFFICES ASSUME NEW p \in Objects, NEW k \in DOMAIN heap'[p].members, NEW m \in 1..p
                 PROVE  heap'[p].members[k] # Ref(m)
      BY <1>9 DEF Acyclic, Objects
    <3>1. CASE p = n
      BY <3>1, <2>1, <1>10
    <3>2. CASE p # n
      BY <3>2, <1>10 DEF HeapInv, Acyclic, Objects
    <3> QED
      BY <3>1, <3>2
<1> QED
  BY <1>9, <1>13, <1>14

Grows ==
    /\ Len(heap') \in Nat /\ Len(heap) <= Len(heap')
    /\ Len(hydraters') \in Nat /\ Len(hydraters) <= Len(hydraters')

LEMMA StillExist ==
    ASSUME HeapInv, Len(heap') \in Nat, Len(heap) <= Len(heap')
    PROVE  Objects \subseteq Objects' /\ Values \subseteq Values' /\ Hydrater \subseteq Hydrater'
<1>1. Len(heap) \in Nat
  BY DEF HeapInv
<1>2. Objects \subseteq Objects'
  BY <1>1 DEF Objects
<1>3. Values \subseteq Values'
  BY <1>2 DEF Values
<1>4. Seq(Objects) \subseteq Seq(Objects') /\ Maybe(Objects) \subseteq Maybe(Objects')
  BY <1>2 DEF Maybe
<1>5. Hydrater \subseteq Hydrater'
  BY <1>4 DEF Hydrater
<1> QED
  BY <1>2, <1>3, <1>5

\* One hydrater becomes another, and the heap may grow.
LEMMA HydraterChanges ==
    ASSUME HeapInv, NEW h \in 1..Len(hydraters),
           hydraters' = [hydraters EXCEPT ![h] = hydraters'[h]],
           hydraters'[h] \in Hydrater', Ordered(hydraters[h])',
           Len(heap') \in Nat, Len(heap) <= Len(heap')
    PROVE  /\ hydraters' \in Seq(Hydrater') /\ Len(hydraters') = Len(hydraters)
           /\ (\A g \in 1..Len(hydraters) : Ordered(hydraters[g]))'
<1>1. hydraters \in [1..Len(hydraters) -> Hydrater'] /\ Len(hydraters) \in Nat
  BY StillExist DEF HeapInv
<1>2. hydraters' \in [1..Len(hydraters) -> Hydrater']
  BY <1>1
<1>3. hydraters' \in Seq(Hydrater') /\ Len(hydraters') = Len(hydraters)
  BY <1>1, <1>2
<1>4. \A g \in 1..Len(hydraters) : g # h => hydraters'[g] = hydraters[g]
  BY <1>1
<1>5. \A g \in 1..Len(hydraters) : g # h => Ordered(hydraters[g])'
  BY <1>4, StillExist DEF HeapInv, Ordered, Ascends
<1> QED
  BY <1>3, <1>5

LEMMA NoChange ==
    ASSUME HeapInv, UNCHANGED createVars
    PROVE  HeapInv' /\ Grows
<1>1. heap' = heap /\ hydraters' = hydraters
  BY DEF createVars
<1>2. HeapInv'
  <2>1. Objects' = Objects /\ Values' = Values /\ Hydrater' = Hydrater
    BY <1>1 DEF Objects, Values, Hydrater
  <2>2. RefsExist' /\ Acyclic'
    BY <1>1, <2>1 DEF HeapInv, RefsExist, Acyclic
  <2>3. (\A h \in 1..Len(hydraters) : Ordered(hydraters[h]))'
    BY <1>1, <2>1 DEF HeapInv, Ordered
  <2> QED
    BY <1>1, <2>1, <2>2, <2>3 DEF HeapInv
<1> QED
  BY <1>1, <1>2 DEF HeapInv, Grows

LEMMA PushKeeps ==
    ASSUME HeapInv, NEW h \in 1..Len(hydraters), NEW key, NEW type \in {"object", "array"},
           PushObject(h, key, type)
    PROVE  HeapInv' /\ Grows
<1>1. CASE UNCHANGED createVars
  BY <1>1, NoChange
<1>2. CASE ~UNCHANGED createVars
  <2> DEFINE me  == hydraters[h]
             new == [type |-> type, members |-> NoMembers]
             now == [cur |-> Len(heap) + 1,
                     stack |-> IF me.cur = Undefined THEN me.stack ELSE Append(me.stack, me.cur)]
  <2>1. /\ heap' = Append(heap, new)
        /\ hydraters' = [hydraters EXCEPT ![h] = [me EXCEPT !.cur = now.cur, !.stack = now.stack]]
    BY <1>2 DEF PushObject
  <2>2. me \in Hydrater /\ Ordered(me) /\ Len(heap) \in Nat /\ heap \in Seq(HeapObjects)
    BY DEF HeapInv
  <2>3. me = [cur |-> me.cur, stack |-> me.stack] /\ me.cur \in Maybe(Objects) /\ me.stack \in Seq(Objects)
    BY <2>2 DEF Hydrater
  <2>4. hydraters' = [hydraters EXCEPT ![h] = now]
    BY <2>1, <2>2, <2>3 DEF Hydrater
  <2>5. new \in HeapObjects /\ DOMAIN new.members = {}
    <3>1. NoMembers \in [{} -> AnyValues] /\ DOMAIN NoMembers = {}
      BY DEF NoMembers
    <3>2. {} \in SUBSET Maybe(Keys)
      OBVIOUS
    <3> QED
      BY <3>1, <3>2 DEF HeapObjects
  <2>6. /\ heap' \in Seq(HeapObjects) /\ Len(heap') = Len(heap) + 1
        /\ \A n \in 1..Len(heap) : heap'[n] = heap[n]
        /\ heap'[Len(heap) + 1] = new
    BY <2>1, <2>2, <2>5, AppendProperties
  <2> HIDE DEF new
  <2>7. Objects' = 1..(Len(heap) + 1) /\ Objects \subseteq Objects' /\ Values \subseteq Values'
    BY <2>2, <2>6, StillExist DEF Objects
  <2>8. RefsExist'
    BY <2>2, <2>5, <2>6, <2>7 DEF HeapInv, RefsExist, Objects
  <2>9. Acyclic'
    <3> SUFFICES ASSUME NEW n \in 1..(Len(heap) + 1), NEW k \in DOMAIN heap'[n].members, NEW m \in 1..n
                 PROVE  heap'[n].members[k] # Ref(m)
      BY <2>6 DEF Acyclic
    <3>1. n \in 1..Len(heap)
      BY <2>2, <2>5, <2>6
    <3> QED
      BY <3>1, <2>6 DEF HeapInv, Acyclic
  <2>10. now.stack \in Seq(Objects) /\ (now.stack # <<>> => Ascends(now.stack, Len(heap) + 1))
    <3>1. CASE me.cur = Undefined
      BY <3>1, <2>2, <2>3 DEF Ordered, Ascends, Objects
    <3>2. CASE me.cur # Undefined
      <4>1. me.cur \in 1..Len(heap) /\ me.stack \in Seq(1..Len(heap))
            /\ (me.stack # <<>> => Ascends(me.stack, me.cur))
        BY <3>2, <2>2, <2>3 DEF Maybe, Objects, Ordered
      <4>2. Append(me.stack, me.cur) \in Seq(1..Len(heap)) /\ Ascends(Append(me.stack, me.cur), Len(heap) + 1)
        BY <4>1, <2>2, PushAscends
      <4> QED
        BY <4>2, <3>2 DEF Objects
    <3> QED
      BY <3>1, <3>2
  <2>11. hydraters'[h] = now
    <3>1. hydraters \in [1..Len(hydraters) -> Hydrater]
      BY DEF HeapInv
    <3> QED
      BY <2>4, <3>1
  <2> HIDE DEF now
  <2>12. now.cur = Len(heap) + 1 /\ now = [cur |-> now.cur, stack |-> now.stack]
    BY DEF now
  <2>13. now \in Hydrater'
    <3>1. now.cur \in Objects' /\ now.stack \in Seq(Objects')
      BY <2>2, <2>7, <2>10, <2>12
    <3> QED
      BY <3>1, <2>12 DEF Hydrater, Maybe
  <2>14. Ordered(hydraters[h])'
    BY <2>2, <2>7, <2>10, <2>11, <2>12 DEF Ordered, Ascends
  <2>15. /\ hydraters' \in Seq(Hydrater') /\ Len(hydraters') = Len(hydraters)
         /\ (\A g \in 1..Len(hydraters) : Ordered(hydraters[g]))'
    <3>1. hydraters' = [hydraters EXCEPT ![h] = hydraters'[h]] /\ hydraters'[h] \in Hydrater'
      BY <2>4, <2>11, <2>13
    <3>2. Len(heap') \in Nat /\ Len(heap) <= Len(heap')
      BY <2>2, <2>6
    <3> QED
      BY <3>1, <3>2, <2>14, HydraterChanges
  <2> QED
    BY <2>2, <2>6, <2>8, <2>9, <2>15 DEF HeapInv, Grows
<1> QED
  BY <1>1, <1>2

LEMMA PopKeeps ==
    ASSUME HeapInv, NEW h \in 1..Len(hydraters), NEW key \in Maybe(Keys),
           NEW type \in {"object", "array"}, PopObject(h, key, type)
    PROVE  HeapInv' /\ Grows
<1>1. CASE UNCHANGED createVars
  BY <1>1, NoChange
<1>2. CASE ~UNCHANGED createVars
  <2> DEFINE me    == hydraters[h]
             outer == me.stack[Len(me.stack)]
             now   == [cur |-> outer, stack |-> Below(me.stack)]
  <2>1. /\ me.stack # <<>>
        /\ hydraters' = [hydraters EXCEPT ![h] = now]
        /\ \/ heap' = heap
           \/ heap' = [heap EXCEPT ![outer] = Put(@, key, Ref(me.cur))]
    BY <1>2 DEF PopObject, PoppedObjects, Below
  <2>2. /\ me \in Hydrater /\ Ordered(me) /\ Len(heap) \in Nat
        /\ hydraters \in [1..Len(hydraters) -> Hydrater]
    BY DEF HeapInv
  <2>3. me.stack \in Seq(1..Len(heap)) /\ me.cur \in 1..Len(heap) /\ Ascends(me.stack, me.cur)
    BY <2>1, <2>2 DEF Hydrater, Ordered, Objects
  <2>4. /\ outer \in 1..Len(heap) /\ outer < me.cur
        /\ Below(me.stack) \in Seq(1..Len(heap)) /\ Ascends(Below(me.stack), outer)
    BY <2>1, <2>2, <2>3, BelowTop, PopAscends
  <2>5. heap' \in Seq(HeapObjects) /\ Len(heap') = Len(heap) /\ RefsExist' /\ Acyclic'
    <3>1. CASE heap' = heap
      BY <3>1 DEF HeapInv, RefsExist, Acyclic, Objects, Values
    <3>2. CASE heap' = [heap EXCEPT ![outer] = Put(@, key, Ref(me.cur))]
      <4>1. outer \in Objects /\ Ref(me.cur) \in Values
        BY <2>3, <2>4 DEF Objects, Values, Ref
      <4>2. \A m \in 1..outer : Ref(me.cur) # Ref(m)
        BY <2>3, <2>4 DEF Ref
      <4> HIDE DEF outer
      <4> QED
        BY <3>2, <4>1, <4>2, PutInHeap
    <3> QED
      BY <2>1, <3>1, <3>2
  <2>6. Objects' = 1..Len(heap)
    BY <2>5 DEF Objects
  <2>7. hydraters'[h] = now
    BY <2>1, <2>2
  <2>8. hydraters'[h] \in Hydrater' /\ hydraters' = [hydraters EXCEPT ![h] = hydraters'[h]]
    <3>1. outer \in Objects' /\ Below(me.stack) \in Seq(Objects')
      BY <2>4, <2>6
    <3>2. now \in Hydrater'
      BY <3>1 DEF Hydrater, Maybe
    <3> HIDE DEF now
    <3> QED
      BY <2>1, <2>7, <3>2
  <2>9. Ordered(hydraters[h])'
    <3>1. hydraters'[h].cur = outer /\ hydraters'[h].stack = Below(me.stack)
      BY <2>7
    <3>2. hydraters'[h].cur \in Objects' /\ Ascends(hydraters'[h].stack, hydraters'[h].cur)
      BY <2>4, <2>6, <3>1
    <3> QED
      BY <3>2 DEF Ordered, Ascends
  <2>10. /\ hydraters' \in Seq(Hydrater') /\ Len(hydraters') = Len(hydraters)
         /\ (\A g \in 1..Len(hydraters) : Ordered(hydraters[g]))'
    BY <2>2, <2>5, <2>8, <2>9, HydraterChanges
  <2> QED
    BY <2>2, <2>5, <2>10 DEF HeapInv, Grows
<1> QED
  BY <1>1, <1>2

LEMMA StoreKeeps ==
    ASSUME HeapInv, NEW h \in 1..Len(hydraters), NEW key \in Maybe(Keys),
           NEW value \in Maybe(Texts), StoreValue(h, key, value)
    PROVE  HeapInv' /\ Grows
<1> DEFINE cur == hydraters[h].cur
<1>1. CASE UNCHANGED createVars
  BY <1>1, NoChange
<1>2. CASE ~UNCHANGED createVars
  <2>1. /\ value # Undefined /\ cur # Undefined
        /\ heap' = [heap EXCEPT ![cur] = Put(@, key, Parsed(value))]
        /\ hydraters' = hydraters
    BY <1>2 DEF StoreValue, createVars
  <2>2. cur \in Objects
    <3>1. hydraters[h] \in Hydrater
      BY DEF HeapInv
    <3> QED
      BY <2>1, <3>1 DEF Hydrater, Maybe
  <2>3. Parsed(value) \in Values /\ \A m \in 1..cur : Parsed(value) # Ref(m)
    <3>1. Parsed(value) \in [scalar : Texts]
      BY <2>1 DEF Parsed, Maybe
    <3>2. \A m : DOMAIN Parsed(value) # DOMAIN Ref(m)
      BY DEF Parsed, Ref
    <3> QED
      BY <3>1, <3>2 DEF Values
  <2> HIDE DEF cur
  <2>4. heap' \in Seq(HeapObjects) /\ Len(heap') = Len(heap) /\ RefsExist' /\ Acyclic'
    BY <2>1, <2>2, <2>3, PutInHeap
  <2>5. Objects' = Objects /\ Hydrater' = Hydrater
    BY <2>4 DEF Objects, Hydrater
  <2>6. (\A g \in 1..Len(hydraters) : Ordered(hydraters[g]))'
    BY <2>1, <2>5 DEF HeapInv, Ordered
  <2> QED
    BY <2>1, <2>4, <2>5, <2>6 DEF HeapInv, Grows
<1> QED
  BY <1>1, <1>2

LEMMA ConcludeKeeps ==
    ASSUME HeapInv, NEW h \in 1..Len(hydraters), Conclude(h)
    PROVE  HeapInv' /\ Grows /\ Result(h) \in Maybe(Values)
<1> DEFINE me == hydraters[h]
<1>1. me \in Hydrater /\ hydraters \in [1..Len(hydraters) -> Hydrater] /\ Len(heap) \in Nat
  BY DEF HeapInv
<1>2. Remaining(h) \in Maybe(Objects)
  BY <1>1 DEF Remaining, Hydrater, Maybe
<1>3. Result(h) \in Maybe(Values)
  BY <1>2 DEF Result, Ref, Values, Maybe
<1>4. heap' = heap /\ hydraters' = [hydraters EXCEPT ![h] = [cur |-> Remaining(h), stack |-> <<>>]]
  BY DEF Conclude
<1>5. hydraters'[h] = [cur |-> Remaining(h), stack |-> <<>>]
  BY <1>1, <1>4
<1>6. Objects' = Objects /\ Values' = Values /\ Hydrater' = Hydrater
  BY <1>4 DEF Objects, Values, Hydrater
<1>7. hydraters'[h] \in Hydrater' /\ hydraters' = [hydraters EXCEPT ![h] = hydraters'[h]]
  <2> DEFINE now == [cur |-> Remaining(h), stack |-> <<>>]
  <2>1. now \in Hydrater
    BY <1>2 DEF Hydrater
  <2>2. hydraters' = [hydraters EXCEPT ![h] = now] /\ hydraters'[h] = now
    BY <1>4, <1>5
  <2> HIDE DEF now
  <2>3. hydraters'[h] \in Hydrater'
    BY <2>1, <2>2, <1>4 DEF Hydrater, Objects
  <2>4. hydraters' = [hydraters EXCEPT ![h] = hydraters'[h]]
    BY <2>2, Zenon
  <2> QED
    BY <2>3, <2>4
<1>8. Ordered(hydraters[h])'
  BY <1>5 DEF Ordered
<1>9. /\ hydraters' \in Seq(Hydrater') /\ Len(hydraters') = Len(hydraters)
      /\ (\A g \in 1..Len(hydraters) : Ordered(hydraters[g]))'
  <2>1. Len(heap') \in Nat /\ Len(heap) <= Len(heap')
    BY <1>1, <1>4
  <2> QED
    BY <2>1, <1>7, <1>8, HydraterChanges
<1>10. RefsExist' /\ Acyclic'
  BY <1>4, <1>6 DEF HeapInv, RefsExist, Acyclic
<1> QED
  BY <1>1, <1>3, <1>4, <1>9, <1>10 DEF HeapInv, Grows

\* A new hydrater, as Create makes one.
LEMMA CreateKeeps ==
    ASSUME HeapInv, hydraters' = Append(hydraters, NewHydrater), heap' = heap
    PROVE  HeapInv' /\ Grows /\ Len(hydraters') = Len(hydraters) + 1
<1>1. NewHydrater \in Hydrater /\ NewHydrater.stack = <<>>
  BY DEF NewHydrater, Hydrater, Maybe
<1>2. /\ hydraters' \in Seq(Hydrater) /\ Len(hydraters') = Len(hydraters) + 1
      /\ \A h \in 1..Len(hydraters) : hydraters'[h] = hydraters[h]
      /\ hydraters'[Len(hydraters) + 1] = NewHydrater
  BY <1>1, AppendProperties DEF HeapInv
<1>3. Objects' = Objects /\ Values' = Values /\ Hydrater' = Hydrater
  BY DEF Objects, Values, Hydrater
<1>4. RefsExist' /\ Acyclic'
  BY <1>3 DEF HeapInv, RefsExist, Acyclic
<1>5. (\A h \in 1..Len(hydraters) : Ordered(hydraters[h]))'
  <2> SUFFICES ASSUME NEW h \in 1..(Len(hydraters) + 1)
               PROVE  Ordered(hydraters[h])'
    BY <1>2
  <2>1. Len(hydraters) \in Nat
    BY DEF HeapInv
  <2>2. CASE h = Len(hydraters) + 1
    BY <2>2, <1>1, <1>2 DEF Ordered
  <2>3. CASE h \in 1..Len(hydraters)
    BY <2>3, <1>2, <1>3 DEF HeapInv, Ordered
  <2> QED
    BY <2>1, <2>2, <2>3
<1> QED
  BY <1>2, <1>3, <1>4, <1>5 DEF HeapInv, Grows

---------------------------------------------------------------------------
(* The calls. *)

LEMMA FramesStay ==
    ASSUME HeapInv, Grows
    PROVE  Frames \subseteq Frames' /\ Seq(Frames) \subseteq Seq(Frames')
<1>1. Len(hydraters) \in Nat /\ Len(hydraters') \in Nat /\ Len(hydraters) <= Len(hydraters')
  BY DEF HeapInv, Grows
<1>2. 1..Len(hydraters) \subseteq 1..Len(hydraters') /\ 1..(Handlers + 1) \subseteq 1..(Handlers' + 1)
  BY <1>1 DEF Handlers
<1>3. Frames \subseteq Frames'
  BY <1>2 DEF Frames, Parsing
<1> QED
  BY <1>3

LEMMA CurrentFrame ==
    ASSUME JrqInv, calls # <<>>
    PROVE  /\ Len(calls) \in Nat /\ Len(calls) > 0 /\ Current \in Frames /\ main = "parsing"
           /\ calls \in [1..Len(calls) -> Frames]
           /\ Callers \in Seq(Frames) /\ Len(Callers) = Len(calls) - 1
           /\ \A i \in 1..Len(Callers) : Callers[i] = calls[i]
<1>1. calls \in Seq(Frames) /\ main = "parsing"
  BY DEF JrqInv, ControlOK
<1> QED
  BY <1>1, BelowTop DEF Current, Callers, Below

LEMMA Emission ==
    ASSUME JrqInv, Running("emit")
    PROVE  /\ calls # <<>>
           /\ Current.event \in Items /\ Key \in Maybe(Keys) /\ Current.event.value \in Maybe(Texts)
           /\ Current.handler \in 1..(Handlers + 1)
           /\ Current = [call |-> "emit", event |-> Current.event, handler |-> Current.handler]
<1>1. calls # <<>> /\ Current \in Frames /\ Current.call = "emit"
  BY CurrentFrame DEF Running, Current
<1>2. Current \in [call : {"emit"}, event : Items, handler : 1..(Handlers + 1)]
  BY <1>1 DEF Frames, Parsing
<1>3. Current.event.key \in Maybe(Keys) /\ Current.event.value \in Maybe({text \in Texts : ~Blank(text)})
  BY <1>2 DEF Items
<1>4. Current.event.value \in Maybe(Texts)
  BY <1>3 DEF Maybe
<1> QED
  BY <1>1, <1>2, <1>3, <1>4 DEF Key

\* The next handler's turn.
LEMMA NextHandler ==
    ASSUME JrqInv, Running("emit"), Current.handler <= Handlers, Grows,
           calls' = Handled(calls), UNCHANGED <<session, count, at, main>>
    PROVE  ControlOK'
<1> DEFINE n == Len(calls)
           f == [Current EXCEPT !.handler = @ + 1]
<1>1. /\ n \in Nat /\ n > 0 /\ calls \in [1..n -> Frames] /\ main = "parsing"
      /\ Len(hydraters) \in Nat
  BY CurrentFrame, Emission DEF JrqInv, HeapInv
<1>2. /\ f = [call |-> "emit", event |-> Current.event, handler |-> Current.handler + 1]
      /\ Current.event \in Items /\ Current.handler + 1 \in 1..(Handlers + 1)
  BY <1>1, Emission DEF Handlers
<1>3. f \in Frames
  BY <1>2 DEF Frames
<1>4. f = [calls[n] EXCEPT !.handler = @ + 1] /\ Handled(calls) = [calls EXCEPT ![n].handler = @ + 1]
  BY DEF Current, Handled
<1>9. f.call = "emit"
  BY <1>2
<1> HIDE DEF f, n
<1>5. calls' = [calls EXCEPT ![n] = f]
  BY <1>4
<1>6. calls' \in [1..n -> Frames] /\ calls' \in Seq(Frames) /\ Len(calls') = n
  BY <1>1, <1>3, <1>5
<1>7. \A i \in 1..n : calls'[i] = IF i = n THEN f ELSE calls[i]
  BY <1>1, <1>5
<1>8. Callings'
  <2> SUFFICES ASSUME NEW i \in 1..n, calls'[i].call = "create"
               PROVE  IF i = 1 THEN session.args = <<>>
                      ELSE calls'[i - 1].call = "emit" /\ calls'[i - 1].handler = 1
    BY <1>6 DEF Callings
  <2>1. i # n /\ i < n /\ calls'[i] = calls[i]
    <3>1. i # n
      BY <1>9, <1>7
    <3> QED
      BY <1>1, <1>7, <3>1
  <2>2. i = 1 \/ (i - 1 \in 1..n /\ i - 1 # n /\ calls'[i - 1] = calls[i - 1])
    BY <1>1, <1>7, <2>1
  <2> QED
    <3>1. i \in 1..Len(calls) /\ calls[i].call = "create"
      BY <2>1 DEF n
    <3>2. IF i = 1 THEN session.args = <<>> ELSE calls[i - 1].call = "emit" /\ calls[i - 1].handler = 1
      BY <3>1 DEF JrqInv, ControlOK, Callings
    <3> QED
      BY <2>2, <3>2
<1> QED
  BY <1>1, <1>6, <1>8, FramesStay DEF JrqInv, ControlOK

\* The return of the innermost call.
LEMMA CallReturns ==
    ASSUME JrqInv, calls # <<>>, Grows, calls' = Callers,
           at' \in Nat \ {0}, UNCHANGED <<session, count, main>>
    PROVE  ControlOK'
<1>1. /\ Len(calls) \in Nat /\ Len(calls) > 0 /\ main = "parsing"
      /\ calls' \in Seq(Frames) /\ Len(calls') = Len(calls) - 1
      /\ \A i \in 1..Len(calls') : calls'[i] = calls[i]
  BY CurrentFrame
<1>2. Callings'
  <2> SUFFICES ASSUME NEW i \in 1..Len(calls'), calls'[i].call = "create"
               PROVE  IF i = 1 THEN session.args = <<>>
                      ELSE calls'[i - 1].call = "emit" /\ calls'[i - 1].handler = 1
    BY DEF Callings
  <2>1. i \in 1..Len(calls) /\ calls'[i] = calls[i]
    BY <1>1
  <2>2. i = 1 \/ (i - 1 \in 1..Len(calls') /\ calls'[i - 1] = calls[i - 1])
    BY <1>1
  <2> QED
    BY <2>1, <2>2 DEF JrqInv, ControlOK, Callings
<1> QED
  BY <1>1, <1>2, FramesStay DEF JrqInv, ControlOK

\* A call of an emission or of a nested parser.
LEMMA CallBegins ==
    ASSUME JrqInv, main = "parsing", Grows, NEW f \in Frames, f.call # "create", calls' = Append(calls, f),
           at' \in Nat \ {0}, UNCHANGED <<session, count, main>>
    PROVE  ControlOK'
<1>1. calls \in Seq(Frames) /\ Len(calls) \in Nat
  BY DEF JrqInv, ControlOK
<1>2. /\ calls' \in Seq(Frames) /\ Len(calls') = Len(calls) + 1
      /\ \A i \in 1..Len(calls) : calls'[i] = calls[i]
      /\ calls'[Len(calls) + 1] = f
  BY <1>1, AppendProperties
<1>3. Callings'
  <2> SUFFICES ASSUME NEW i \in 1..Len(calls'), calls'[i].call = "create"
               PROVE  IF i = 1 THEN session.args = <<>>
                      ELSE calls'[i - 1].call = "emit" /\ calls'[i - 1].handler = 1
    BY DEF Callings
  <2>1. i \in 1..Len(calls) /\ calls'[i] = calls[i]
    BY <1>1, <1>2
  <2>2. i = 1 \/ (i - 1 \in 1..Len(calls) /\ calls'[i - 1] = calls[i - 1])
    BY <1>1, <1>2, <2>1
  <2> QED
    BY <2>1, <2>2 DEF JrqInv, ControlOK, Callings
<1> QED
  BY <1>2, <1>3, FramesStay DEF JrqInv, ControlOK

LEMMA AppendTwo ==
    ASSUME NEW S, NEW s \in Seq(S), NEW x \in S, NEW y \in S
    PROVE  /\ s \o <<x, y>> = Append(Append(s, x), y)
OBVIOUS

\* hydrater.parse() is called for a document, or by the first handler of an
\* emission.
LEMMA CreateBegins ==
    ASSUME JrqInv, main' = "parsing", Create, at' \in Nat \ {0},
           \/ calls = <<>> /\ session.args = <<>>
           \/ Running("emit") /\ Current.handler = 1
    PROVE  ControlOK' /\ HeapInv' /\ heap' = heap
<1> DEFINE n == Len(calls)
           c == Creating(Len(hydraters) + 1)
<1>1. /\ calls \in Seq(Frames) /\ n \in Nat /\ Len(hydraters) \in Nat
      /\ hydraters' = Append(hydraters, NewHydrater) /\ heap' = heap
      /\ session' = session /\ count' = count
  BY DEF JrqInv, ControlOK, HeapInv, Create
<1>2. HeapInv' /\ Grows /\ Len(hydraters') = Len(hydraters) + 1
  BY <1>1, CreateKeeps DEF JrqInv
<1>3. c \in Frames' /\ Parsing \in Frames' /\ calls \in Seq(Frames')
  BY <1>1, <1>2, FramesStay DEF Frames, Creating, JrqInv
<1>4. c.call = "create" /\ Parsing.call = "parse"
  BY DEF Creating, Parsing
<1>5. n > 0 => calls[n].call = "emit" /\ calls[n].handler = 1
  BY <1>1 DEF Running, Current
<1>6. n = 0 => session.args = <<>>
  BY <1>1 DEF Running
<1>7. calls' = calls \o <<c, Parsing>>
  BY DEF Create
<1> HIDE DEF c
<1>8. /\ calls' \in Seq(Frames') /\ Len(calls') = n + 2
      /\ \A i \in 1..n : calls'[i] = calls[i]
      /\ calls'[n + 1] = c /\ calls'[n + 2] = Parsing
  <2> DEFINE t == Append(calls, c)
  <2>1. /\ t \in Seq(Frames') /\ Len(t) = n + 1 /\ t[n + 1] = c
        /\ \A i \in 1..n : t[i] = calls[i]
    BY <1>3, AppendProperties
  <2>2. calls' = Append(t, Parsing)
    BY <1>3, <1>7, AppendTwo
  <2> HIDE DEF t, n
  <2>3. /\ calls' \in Seq(Frames') /\ Len(calls') = Len(t) + 1
        /\ \A i \in 1..Len(t) : calls'[i] = t[i]
        /\ calls'[Len(t) + 1] = Parsing
    BY <1>3, <2>1, <2>2, AppendProperties
  <2> QED
    BY <1>1, <2>1, <2>3
<1>9. \A i \in 1..n : calls[i].call = "create" =>
          IF i = 1 THEN session.args = <<>>
          ELSE calls[i - 1].call = "emit" /\ calls[i - 1].handler = 1
  BY DEF JrqInv, ControlOK, Callings
<1> HIDE DEF n
<1>10. Callings'
  <2> SUFFICES ASSUME NEW i \in 1..(n + 2), calls'[i].call = "create"
               PROVE  IF i = 1 THEN session.args = <<>>
                      ELSE calls'[i - 1].call = "emit" /\ calls'[i - 1].handler = 1
    BY <1>1, <1>8 DEF Callings
  <2>1. i # n + 2
    BY <1>4, <1>8
  <2>2. CASE i = n + 1
    BY <2>2, <1>1, <1>5, <1>6, <1>8
  <2>3. CASE i \in 1..n
    <3>1. i = 1 \/ i - 1 \in 1..n
      BY <2>3, <1>1
    <3> QED
      BY <2>3, <3>1, <1>8, <1>9
  <2> QED
    BY <1>1, <2>1, <2>2, <2>3
<1> QED
  BY <1>1, <1>2, <1>8, <1>10 DEF JrqInv, ControlOK

\* hydrater.parse() returns to innerMain, or to the first handler of an emission.
LEMMA CreateEnds ==
    ASSUME JrqInv, Running("create"), Grows,
           calls' = IF Callers = <<>> THEN <<>> ELSE Handled(Callers),
           UNCHANGED <<session, count, at, main>>
    PROVE  ControlOK'
<1> DEFINE n == Len(Callers)
<1>1. /\ Callers \in Seq(Frames) /\ Callers \in [1..n -> Frames] /\ n \in Nat
      /\ Len(calls) = n + 1 /\ \A i \in 1..n : Callers[i] = calls[i]
      /\ Current.call = "create" /\ calls[n + 1] = Current /\ main = "parsing"
      /\ Len(hydraters) \in Nat
  BY CurrentFrame DEF Running, Current, JrqInv, HeapInv
<1>2. \A i \in 1..(n + 1) : calls[i].call = "create" =>
          IF i = 1 THEN session.args = <<>>
          ELSE calls[i - 1].call = "emit" /\ calls[i - 1].handler = 1
  BY <1>1 DEF JrqInv, ControlOK, Callings
<1>3. CASE Callers = <<>>
  BY <1>1, <1>3 DEF JrqInv, ControlOK, Callings
<1>4. CASE Callers # <<>>
  <2> DEFINE f == [Callers[n] EXCEPT !.handler = @ + 1]
  <2>1. n > 0 /\ n + 1 \in 1..(n + 1) /\ n \in 1..n
    BY <1>1, <1>4
  <2>2. Callers[n].call = "emit" /\ Callers[n].handler = 1 /\ Callers[n] \in Frames
    BY <1>1, <1>2, <2>1
  <2>3. Callers[n] \in [call : {"emit"}, event : Items, handler : 1..(Handlers + 1)]
    BY <2>2 DEF Frames, Parsing
  <2>4. f \in [call : {"emit"}, event : Items, handler : 1..(Handlers + 1)]
    BY <1>1, <2>2, <2>3 DEF Handlers
  <2>5. f \in Frames /\ f.call = "emit"
    BY <2>4 DEF Frames
  <2>6. calls' = [Callers EXCEPT ![n] = f]
    BY <1>4 DEF Handled
  <2> HIDE DEF f, n
  <2>7. calls' \in [1..n -> Frames] /\ calls' \in Seq(Frames) /\ Len(calls') = n
    BY <1>1, <2>5, <2>6
  <2>8. \A i \in 1..n : calls'[i] = IF i = n THEN f ELSE calls[i]
    BY <1>1, <2>6
  <2>9. Callings'
    <3> SUFFICES ASSUME NEW i \in 1..n, calls'[i].call = "create"
                 PROVE  IF i = 1 THEN session.args = <<>>
                        ELSE calls'[i - 1].call = "emit" /\ calls'[i - 1].handler = 1
      BY <2>7 DEF Callings
    <3>1. i # n
      BY <2>5, <2>8
    <3>2. i \in 1..(n + 1) /\ calls'[i] = calls[i]
      BY <1>1, <2>8, <3>1
    <3>3. i = 1 \/ (i - 1 \in 1..n /\ i - 1 # n /\ calls'[i - 1] = calls[i - 1])
      BY <1>1, <2>8, <3>1
    <3> QED
      BY <1>2, <3>2, <3>3
  <2> QED
    BY <1>1, <2>7, <2>9, FramesStay DEF JrqInv, ControlOK
<1> QED
  BY <1>3, <1>4

---------------------------------------------------------------------------
(* The selection. *)

LEMMA KeysPushed ==
    ASSUME JrqInv, NEW key \in Maybe(Keys)
    PROVE  Pushed(key) \in Seq(Keys) /\ Popped(key) \in Seq(Keys)
<1>1. keyStack \in Seq(Keys)
  BY DEF JrqInv, SelectionOK
<1>2. Pushed(key) \in Seq(Keys)
  BY <1>1 DEF Pushed, Maybe
<1>3. keyStack # <<>> => Below(keyStack) \in Seq(Keys)
  BY <1>1, BelowTop
<1> QED
  BY <1>1, <1>2, <1>3 DEF Popped, Below

LEMMA SelectedOutput ==
    ASSUME JrqInv, NEW key, NEW value \in Maybe(Values)
    PROVE  Selected(key, value) \in Maybe([Places -> Maybe(Values)])
<1> DEFINE output == IF argOutput = Undefined THEN NewOutput ELSE argOutput
<1>1. argOutput \in Maybe([Places -> Maybe(Values)]) /\ session.args \in Seq(Seq(Keys))
  BY SessionsAreRequests DEF JrqInv, SelectionOK, ControlOK
<1>2. CASE value = Undefined \/ Paths(key) = {}
  BY <1>1, <1>2 DEF Selected
<1>3. CASE value # Undefined /\ Paths(key) # {}
  <2>1. session.args # <<>>
    BY <1>3 DEF Paths
  <2>2. NewOutput \in [Places -> Maybe(Values)]
    BY <2>1 DEF NewOutput, Places, Maybe
  <2>3. output \in [Places -> Maybe(Values)]
    BY <1>1, <2>2 DEF Maybe
  <2>4. Selected(key, value) = [i \in DOMAIN output |-> IF i \in Paths(key) THEN value ELSE output[i]]
    BY <1>3 DEF Selected
  <2> HIDE DEF output
  <2>5. Selected(key, value) \in [Places -> Maybe(Values)]
    BY <2>3, <2>4
  <2> QED
    BY <2>5 DEF Maybe
<1> QED
  BY <1>2, <1>3

\* What stays as it is still has its type when the heap has grown.
LEMMA OutputStays ==
    ASSUME JrqInv, Grows, session' = session,
           NEW output \in Maybe([Places -> Maybe(Values)])
    PROVE  output \in Maybe([Places' -> Maybe(Values')])
<1>1. Values \subseteq Values' /\ Places' = Places
  BY StillExist DEF JrqInv, Grows, Places
<1>2. Maybe(Values) \subseteq Maybe(Values')
  BY <1>1 DEF Maybe
<1>3. CASE output \in [Places -> Maybe(Values)]
  BY <1>1, <1>2, <1>3 DEF Maybe
<1> QED
  BY <1>3 DEF Maybe

LEMMA SelectionStays ==
    ASSUME JrqInv, Grows, session' = session, UNCHANGED selectionVars
    PROVE  SelectionOK'
BY OutputStays DEF JrqInv, SelectionOK, selectionVars

LEMMA Thrown ==
    ASSUME JrqInv, Throw
    PROVE  JrqInv'
<1>1. HeapInv' /\ Grows
  BY NoChange DEF JrqInv, Throw
<1>2. ControlOK'
  BY DEF JrqInv, ControlOK, Throw, Callings
<1>3. SelectionOK'
  BY <1>1, SelectionStays DEF Throw
<1> QED
  BY <1>1, <1>2, <1>3 DEF JrqInv

\* A handler of innerMain that calls nothing.
LEMMA HandlerReturns ==
    ASSUME JrqInv, Running("emit"), Current.handler = 1, JrqReturns
    PROVE  ControlOK' /\ HeapInv' /\ Grows /\ session' = session
<1>1. HeapInv' /\ Grows
  BY NoChange DEF JrqInv, JrqReturns
<1>2. Current.handler <= Handlers
  BY DEF JrqInv, HeapInv, Handlers
<1> QED
  BY <1>1, <1>2, NextHandler DEF JrqReturns

---------------------------------------------------------------------------
(* The actions. *)

LEMMA ParserKeeps ==
    ASSUME JrqInv, ParserEmits \/ ParserCalls \/ ParserReturns
    PROVE  JrqInv'
<1>1. /\ calls # <<>> /\ UNCHANGED <<session, count, main, selectionVars, createVars>>
      /\ at' = at + 1
  BY DEF ParserEmits, ParserCalls, ParserReturns, Running
<1>2. HeapInv' /\ Grows /\ SelectionOK'
  BY <1>1, NoChange, SelectionStays DEF JrqInv
<1>3. main = "parsing" /\ at' \in Nat \ {0}
  BY <1>1, CurrentFrame DEF JrqInv, ControlOK
<1>4. CASE ParserEmits
  <2>1. Item \in Items
    <3>1. count \in 1..Len(session.parses) /\ session.parses \in Seq(Seq(Items)) /\ at \in Nat \ {0}
      BY SessionsAreRequests DEF JrqInv, ControlOK
    <3>2. Script \in Seq(Items)
      BY <3>1 DEF Script
    <3>3. Return \in Items
      BY DEF Return, Items, Maybe
    <3> QED
      BY <3>1, <3>2, <3>3 DEF Item
  <2>2. Emitting(Item) \in Frames /\ Emitting(Item).call # "create"
    BY <2>1 DEF Emitting, Frames, Handlers, JrqInv, HeapInv
  <2> QED
    BY <1>1, <1>2, <1>3, <1>4, <2>2, CallBegins DEF ParserEmits, JrqInv
<1>5. CASE ParserCalls
  <2>1. Parsing \in Frames /\ Parsing.call # "create"
    BY DEF Parsing, Frames
  <2> QED
    BY <1>1, <1>2, <1>3, <1>5, <2>1, CallBegins DEF ParserCalls, JrqInv
<1>6. CASE ParserReturns
  BY <1>1, <1>2, <1>3, <1>6, CallReturns DEF ParserReturns, JrqInv
<1> QED
  BY <1>4, <1>5, <1>6

LEMMA EmitDoneKeeps ==
    ASSUME JrqInv, EmitDone
    PROVE  JrqInv'
<1>1. HeapInv' /\ Grows /\ SelectionOK'
  BY NoChange, SelectionStays DEF JrqInv, EmitDone
<1>2. at' \in Nat \ {0}
  BY DEF JrqInv, ControlOK, EmitDone
<1> QED
  BY <1>1, <1>2, CallReturns DEF EmitDone, Running, JrqInv

LEMMA HydraterKeeps ==
    ASSUME JrqInv, HydraterHandles
    PROVE  JrqInv'
<1> DEFINE h == Current.handler - 1
           e == Current.event
<1>1. h \in 1..Len(hydraters) /\ Current.handler <= Handlers /\ Running("emit")
  BY DEF HydraterHandles, Handlers, JrqInv, HeapInv
<1>2. e \in Items /\ e.key \in Maybe(Keys) /\ e.value \in Maybe(Texts)
  BY <1>1, Emission DEF Key
<1>3. CASE Throw
  BY <1>3, Thrown
<1>4. CASE /\ Hydrates(h, e) /\ calls' = Handled(calls)
           /\ UNCHANGED <<session, count, at, main, selectionVars>>
  <2> HIDE DEF h, e
  <2>1. HeapInv' /\ Grows
    BY <1>1, <1>2, <1>4, PushKeeps, PopKeeps, StoreKeeps, NoChange DEF Hydrates, JrqInv
  <2>2. ControlOK'
    BY <1>1, <1>4, <2>1, NextHandler
  <2>3. SelectionOK'
    BY <1>4, <2>1, SelectionStays
  <2> QED
    BY <2>1, <2>2, <2>3 DEF JrqInv
<1> QED
  BY <1>3, <1>4 DEF HydraterHandles

LEMMA FoundKeyKeeps ==
    ASSUME JrqInv, JrqFoundKey
    PROVE  JrqInv'
<1>1. Running("emit") /\ Current.handler = 1
  BY DEF JrqFoundKey, OnEvent
<1>2. Key \in Maybe(Keys)
  BY <1>1, Emission
<1>3. ControlOK' /\ HeapInv' /\ Grows /\ session' = session
  BY <1>1, HandlerReturns DEF JrqFoundKey
<1>4. foundKeys' \in Seq(Maybe(Keys))
  BY <1>2 DEF JrqFoundKey, JrqInv, SelectionOK
<1>5. SelectionOK'
  BY <1>3, <1>4, OutputStays DEF JrqFoundKey, JrqInv, SelectionOK
<1> QED
  BY <1>3, <1>5 DEF JrqInv

LEMMA FoundValueKeeps ==
    ASSUME JrqInv, JrqFoundValue
    PROVE  JrqInv'
<1> DEFINE value    == Current.event.value
           selected == Selected(Key, IF value = Undefined THEN Undefined ELSE Parsed(value))
<1>1. Running("emit") /\ Current.handler = 1
  BY DEF JrqFoundValue, OnEvent
<1>2. CASE Throw
  BY <1>2, Thrown
<1>3. CASE JrqReturns /\ UNCHANGED selectionVars
  BY <1>1, <1>3, HandlerReturns, SelectionStays DEF JrqInv
<1>4. CASE /\ JrqReturns
           /\ argOutput' = Undefined \/ argOutput' = selected
           /\ UNCHANGED <<keyStack, objectDepth, initialObject, foundKeys>>
  <2>1. ControlOK' /\ HeapInv' /\ Grows /\ session' = session
    BY <1>1, <1>4, HandlerReturns
  <2>2. (IF value = Undefined THEN Undefined ELSE Parsed(value)) \in Maybe(Values)
    BY <1>1, Emission DEF Maybe, Values, Parsed
  <2>3. selected \in Maybe([Places -> Maybe(Values)])
    BY <2>2, SelectedOutput
  <2> HIDE DEF selected
  <2>4. argOutput' \in Maybe([Places' -> Maybe(Values')])
    <3>1. CASE argOutput' = Undefined
      BY <3>1 DEF Maybe
    <3>2. CASE argOutput' = selected
      BY <3>2, <2>1, <2>3, OutputStays
    <3> QED
      BY <1>4, <3>1, <3>2
  <2>5. SelectionOK'
    BY <1>4, <2>4 DEF JrqInv, SelectionOK
  <2> QED
    BY <2>1, <2>5 DEF JrqInv
<1> QED
  BY <1>2, <1>3, <1>4 DEF JrqFoundValue

LEMMA StartKeeps ==
    ASSUME JrqInv, JrqStartObject \/ JrqStartArray
    PROVE  JrqInv'
<1>1. /\ Running("emit") /\ Current.handler = 1 /\ Key \in Maybe(Keys)
      /\ at \in Nat \ {0} /\ main = "parsing"
  BY Emission, CurrentFrame DEF JrqStartObject, JrqStartArray, OnEvent, JrqInv, ControlOK
<1>2. /\ StartContainer("object") \/ StartContainer("array")
      /\ keyStack' = keyStack \/ keyStack' = Pushed(Key)
      /\ UNCHANGED <<argOutput, foundKeys>>
      /\ \/ JrqReturns
         \/ Create /\ at' = at + 1 /\ main' = main
  BY DEF JrqStartObject, JrqStartArray
<1>3. ControlOK' /\ HeapInv' /\ Grows /\ session' = session
  <2>1. CASE JrqReturns
    BY <1>1, <2>1, HandlerReturns
  <2>2. CASE Create /\ at' = at + 1 /\ main' = main
    <3>1. ControlOK' /\ HeapInv' /\ heap' = heap
      BY <1>1, <2>2, CreateBegins
    <3>2. Grows
      BY <2>2, CreateKeeps DEF Create, JrqInv
    <3> QED
      BY <2>2, <3>1, <3>2 DEF Create
  <2> QED
    BY <1>2, <2>1, <2>2
<1>4. keyStack' \in Seq(Keys)
  BY <1>1, <1>2, KeysPushed DEF JrqInv, SelectionOK
<1>5. objectDepth' \in Int /\ initialObject' \in Maybe({"object", "array"})
  BY <1>2 DEF StartContainer, JrqInv, SelectionOK, Maybe
<1>6. SelectionOK'
  BY <1>2, <1>3, <1>4, <1>5, OutputStays DEF JrqInv, SelectionOK
<1> QED
  BY <1>3, <1>6 DEF JrqInv

LEMMA EndKeeps ==
    ASSUME JrqInv, JrqEnd
    PROVE  JrqInv'
<1>1. Running("emit") /\ Current.handler = 1
  BY DEF JrqEnd, OnEvent
<1>2. ControlOK' /\ HeapInv' /\ Grows /\ session' = session
  BY <1>1, HandlerReturns DEF JrqEnd
<1>3. keyStack' \in Seq(Keys)
  BY <1>1, Emission, KeysPushed DEF JrqEnd
<1>4. objectDepth' \in Int /\ UNCHANGED <<initialObject, argOutput, foundKeys>>
  BY DEF JrqEnd, JrqInv, SelectionOK
<1>5. argOutput' \in Maybe([Places' -> Maybe(Values')])
  BY <1>2, <1>4, OutputStays DEF JrqInv, SelectionOK
<1>6. SelectionOK'
  BY <1>3, <1>4, <1>5 DEF JrqInv, SelectionOK
<1> QED
  BY <1>2, <1>6 DEF JrqInv

LEMMA CreateReturnsKeeps ==
    ASSUME JrqInv, CreateReturns
    PROVE  JrqInv'
<1> DEFINE h == Current.hydrater
           key == Callers[Len(Callers)].event.key
           value == Result(h)
<1>1. Running("create") /\ Conclude(h) /\ UNCHANGED <<session, count, at, main>>
  BY DEF CreateReturns
<1>2. calls # <<>> /\ Current \in Frames /\ Current.call = "create"
  BY <1>1, CurrentFrame DEF Running, Current
<1>3. h \in 1..Len(hydraters)
  BY <1>2 DEF Frames, Parsing
<1>4. HeapInv' /\ Grows /\ value \in Maybe(Values)
  BY <1>1, <1>3, ConcludeKeeps DEF JrqInv
<1>5. ControlOK'
  BY <1>1, <1>4, CreateEnds DEF CreateReturns
<1>6. argOutput' \in Maybe([Places' -> Maybe(Values')]) /\ keyStack' \in Seq(Keys)
  <2>1. CASE (Callers = <<>> \/ session.args = <<>>) /\ argOutput' = <<value>> /\ keyStack' = keyStack
    <3>1. session.args = <<>>
      <4>1. CASE Callers = <<>>
        <5>1. Len(Callers) = 0 /\ Len(Callers) = Len(calls) - 1 /\ Len(calls) \in Nat
          BY <4>1, <1>2, CurrentFrame
        <5>2. Len(calls) = 1
          BY <5>1
        <5>3. calls[1].call = "create"
          BY <5>2, <1>2 DEF Current
        <5> QED
          BY <5>2, <5>3 DEF JrqInv, ControlOK, Callings
      <4> QED
        BY <2>1, <4>1
    <3>2. Places = 1..1
      BY <3>1 DEF Places
    <3> HIDE DEF value
    <3>3. <<value>> \in [1..1 -> Maybe(Values)]
      BY <1>4
    <3>4. <<value>> \in Maybe([Places -> Maybe(Values)])
      BY <3>2, <3>3 DEF Maybe
    <3> QED
      BY <1>1, <1>4, <2>1, <3>4, OutputStays DEF JrqInv, SelectionOK
  <2>2. CASE /\ Callers # <<>> /\ session.args # <<>>
             /\ argOutput' = Selected(key, value) /\ keyStack' = Pushed(key)
    <3>1. argOutput' \in Maybe([Places' -> Maybe(Values')])
      BY <1>1, <1>4, <2>2, SelectedOutput, OutputStays
    <3>2. key \in Maybe(Keys)
      <4> DEFINE n == Len(Callers)
      <4>1. n \in Nat /\ n > 0 /\ n + 1 = Len(calls) /\ Callers[n] = calls[n] /\ Callers[n] \in Frames
        <5>1. Callers \in Seq(Frames) /\ n = Len(calls) - 1 /\ Len(calls) \in Nat
          BY <1>2, CurrentFrame
        <5>2. n \in Nat /\ n > 0
          BY <5>1, <2>2
        <5>3. Callers[n] = calls[n]
          BY <1>2, <5>1, <5>2, CurrentFrame
        <5>4. Callers[n] \in Frames
          BY <5>1, <5>2
        <5> HIDE DEF n
        <5> QED
          BY <5>1, <5>2, <5>3, <5>4
      <4>2. calls[n + 1].call = "create" /\ n + 1 \in 1..Len(calls) /\ n + 1 # 1
        BY <1>2, <4>1 DEF Current
      <4>3. Callers[n].call = "emit"
        BY <4>1, <4>2 DEF JrqInv, ControlOK, Callings
      <4>4. Callers[n].event \in Items
        BY <4>1, <4>3 DEF Frames, Parsing
      <4> QED
        BY <4>4 DEF Items
    <3> QED
      BY <2>2, <3>1, <3>2, KeysPushed
  <2> QED
    BY <2>1, <2>2 DEF CreateReturns
<1>7. SelectionOK'
  BY <1>6 DEF CreateReturns, JrqInv, SelectionOK
<1> QED
  BY <1>4, <1>5, <1>7 DEF JrqInv

LEMMA ParseTurnKeeps ==
    ASSUME JrqInv, ParseTurn
    PROVE  JrqInv'
<1>1. /\ calls = <<>> /\ main' = "parsing" /\ at' = at /\ at' \in Nat \ {0}
      /\ argOutput' = Undefined /\ foundKeys' = <<>>
      /\ UNCHANGED <<keyStack, objectDepth, initialObject>>
  BY DEF ParseTurn, JrqInv, ControlOK
<1>2. SelectionOK'
  BY <1>1 DEF JrqInv, SelectionOK, Maybe
<1>3. CASE Create /\ session.args = <<>>
  BY <1>1, <1>2, <1>3, CreateBegins DEF JrqInv
<1>4. CASE calls' = <<Parsing>> /\ UNCHANGED <<session, count, createVars>>
  <2>1. HeapInv' /\ Grows
    BY <1>4, NoChange DEF JrqInv
  <2>2. <<Parsing>> \in Seq(Frames) /\ Parsing.call # "create"
    BY DEF Frames, Parsing
  <2>3. Callings'
    BY <1>4, <2>2 DEF Callings
  <2>4. ControlOK'
    BY <1>1, <1>4, <2>1, <2>2, <2>3, FramesStay DEF JrqInv, ControlOK
  <2> QED
    BY <1>2, <2>1, <2>4 DEF JrqInv
<1> QED
  BY <1>3, <1>4 DEF ParseTurn

LEMMA WriteTurnKeeps ==
    ASSUME JrqInv, WriteTurn
    PROVE  JrqInv'
<1>1. HeapInv' /\ Grows
  BY NoChange DEF WriteTurn, JrqInv
<1>2. ControlOK'
  <2>1. session.parses \in Seq(Seq(Items))
    BY SessionsAreRequests DEF JrqInv, ControlOK
  <2>2. count' \in 1..Len(session.parses) /\ at' \in Nat \ {0} /\ main' \in {"loop", "done"}
    BY <2>1 DEF WriteTurn, JrqInv, ControlOK
  <2>3. Callings' /\ calls' = <<>> /\ session' = session
    BY DEF WriteTurn, Callings
  <2> QED
    BY <2>2, <2>3 DEF JrqInv, ControlOK
<1>3. argOutput' \in Maybe([Places' -> Maybe(Values')])
  <2>1. CASE argOutput' = argOutput
    BY <1>1, <2>1, OutputStays DEF WriteTurn, JrqInv, SelectionOK
  <2>2. CASE argOutput' = Undefined
    BY <2>2 DEF Maybe
  <2> QED
    BY <2>1, <2>2 DEF WriteTurn
<1>4. SelectionOK'
  BY <1>3 DEF WriteTurn, JrqInv, SelectionOK
<1> QED
  BY <1>1, <1>2, <1>4 DEF JrqInv

LEMMA JrqInvInitially == Init => JrqInv
<1> SUFFICES ASSUME Init PROVE JrqInv
  OBVIOUS
<1>1. HeapInv
  BY DEF Init, HeapInv, RefsExist, Acyclic, Objects
<1>2. SelectionOK
  BY DEF Init, SelectionOK, Maybe
<1>3. ControlOK
  <2>1. session.parses \in Seq(Seq(Items)) /\ session.parses # <<>>
    BY SessionsAreRequests DEF Init
  <2>2. 1 \in 1..Len(session.parses)
    BY <2>1
  <2> QED
    BY <2>2 DEF Init, ControlOK, Callings
<1> QED
  BY <1>1, <1>2, <1>3 DEF JrqInv

LEMMA JrqInvStays == JrqInv /\ [Next]_vars => JrqInv'
<1> SUFFICES ASSUME JrqInv, [Next]_vars PROVE JrqInv'
  OBVIOUS
<1>1. CASE ParserEmits \/ ParserCalls \/ ParserReturns
  BY <1>1, ParserKeeps
<1>2. CASE EmitDone
  BY <1>2, EmitDoneKeeps
<1>3. CASE HydraterHandles
  BY <1>3, HydraterKeeps
<1>4. CASE JrqFoundKey
  BY <1>4, FoundKeyKeeps
<1>5. CASE JrqFoundValue
  BY <1>5, FoundValueKeeps
<1>6. CASE JrqStartObject \/ JrqStartArray
  BY <1>6, StartKeeps
<1>7. CASE JrqEnd
  BY <1>7, EndKeeps
<1>8. CASE StackTooLong
  BY <1>8, Thrown DEF StackTooLong
<1>9. CASE CreateReturns
  BY <1>9, CreateReturnsKeeps
<1>10. CASE ParseTurn
  BY <1>10, ParseTurnKeeps
<1>11. CASE WriteTurn
  BY <1>11, WriteTurnKeeps
<1>12. CASE UNCHANGED vars
  <2>1. HeapInv' /\ Grows
    BY <1>12, NoChange DEF vars, JrqInv
  <2>2. SelectionOK'
    BY <1>12, <2>1, SelectionStays DEF vars
  <2>3. ControlOK'
    BY <1>12, <2>1, FramesStay DEF vars, JrqInv, ControlOK, Callings
  <2> QED
    BY <2>1, <2>2, <2>3 DEF JrqInv
<1> QED
  BY <1>1, <1>2, <1>3, <1>4, <1>5, <1>6, <1>7, <1>8, <1>9, <1>10, <1>11, <1>12 DEF Next, JrqExited

---------------------------------------------------------------------------
(* The theorems. *)

\* The variables of jrq.js, of the emitter and of the hydraters keep their
\* types: in particular every frame names a handler that is registered, and
\* every reference an object that exists.
THEOREM JrqTypeCorrect == Spec => []TypeOK
<1>1. JrqInv => TypeOK
  BY DEF JrqInv, ControlOK, SelectionOK, HeapInv, RefsExist, Hydrater, TypeOK
<1> QED
  BY <1>1, JrqInvInitially, JrqInvStays, PTL DEF Spec

\* No object jrq builds ever contains itself, whatever documents it reads,
\* however they end and however many stale hydraters listen: JSON.stringify of
\* what is printed ends without an exception.
THEOREM NoCycles == Spec => []Acyclic
<1>1. JrqInv => Acyclic
  BY DEF JrqInv, HeapInv
<1> QED
  BY <1>1, JrqInvInitially, JrqInvStays, PTL DEF Spec
============================================================================
