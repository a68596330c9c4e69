--------------------------- MODULE EventProtocol ---------------------------
(***************************************************************************)
(* What src/json.js promises the listeners of a JsonParse about the order  *)
(* of its events, whatever the text and however it is cut into reads.      *)
(*                                                                         *)
(* Every container has a level.  It is announced by its parent's parser,   *)
(* at the key it stands at, and started by its own, which has no key: two  *)
(* start events and, in the opposite order, two end events.  Within a      *)
(* level a key is found before its value, and a nested container counts as *)
(* the value of its key once it has ended.                                 *)
(***************************************************************************)
EXTENDS Integers, Sequences

CONSTANTS
    Undefined,
    Names,      \* the keys of objects' members
    Texts       \* the texts of scalar values

VARIABLES
    open,       \* the levels of the containers that have started, outermost first
    over,       \* whether the input has come to its end
    log         \* the events emitted so far

vars == <<open, over, log>>

Types == {"object", "array"}

\* member is the key the next value belongs to; nested tells of a nested
\* container at that key: none, announced and not concluded yet, or concluded
\* and waiting to be reported as the value.
Level(type) ==
    [type |-> type,
     member |-> IF type = "array" THEN [index |-> 0] ELSE Undefined,
     nested |-> "none"]

Inner == open[Len(open)]
Outer == open[Len(open) - 1]

\* The event that is emitted next.  Emits says which one it is.
Emitted == log'[Len(log')]

Emits(event, key, value) ==
    /\ Len(log') = Len(log) + 1
    /\ log' = Append(log, [event |-> event, key |-> key, value |-> value])

StartOf == [object |-> "startObject", array |-> "startArray"]
EndOf   == [object |-> "endObject", array |-> "endArray"]

IsIndex(key) == key # Undefined /\ "index" \in DOMAIN key

\* The key of the next member of a level after the one at key.
NextMember(key) == IF IsIndex(key) THEN [index |-> key.index + 1] ELSE Undefined

\* An array within an array makes the outer one forget that it is an array:
\* from then on it has no index, and its members are read like an object's.
AfterNested(level) ==
    [type   |-> level.type,
     member |-> IF IsIndex(level.member) /\ level.nested = "array"
                THEN Undefined ELSE level.member,
     nested |-> "concluded"]

\* A level when the value of its member has been reported.
AfterValue(level) ==
    [type |-> level.type, member |-> NextMember(level.member), nested |-> "none"]

---------------------------------------------------------------------------
Start(type) ==
    /\ open = <<>> \/ Inner.nested = type
    /\ Emits(StartOf[type], Undefined, Undefined)
    /\ open' = Append(open, Level(type))
    /\ UNCHANGED over

FoundKey ==
    /\ open # <<>> /\ Inner.nested = "none" /\ Inner.member = Undefined
    /\ Emits("foundKey", Emitted.key, Undefined) /\ Emitted.key \in Names
    /\ open' = [open EXCEPT ![Len(open)].member = Emitted.key]
    /\ UNCHANGED over

FoundScalar ==
    /\ open # <<>> /\ Inner.nested = "none" /\ Inner.member # Undefined
    /\ Emits("foundValue", Inner.member, Emitted.value) /\ Emitted.value \in Texts
    /\ open' = [open EXCEPT ![Len(open)] = AfterValue(@)]
    /\ UNCHANGED over

Announce(type) ==
    /\ open # <<>> /\ Inner.nested = "none" /\ Inner.member # Undefined
    /\ Emits(StartOf[type], Inner.member, Undefined)
    /\ open' = [open EXCEPT ![Len(open)].nested = type]
    /\ UNCHANGED over

\* An object ends between two members, an array as long as it has an index.
End(type) ==
    /\ open # <<>> /\ Inner.type = type /\ Inner.nested = "none"
    /\ (Inner.member = Undefined) = (type = "object")
    /\ Emits(EndOf[type], Undefined, Undefined)
    /\ open' = SubSeq(open, 1, Len(open) - 1)
    /\ UNCHANGED over

\* The parent reports the end of the nested container.  A container may be
\* left unfinished only when the input is over.
Concludes(levels, type) ==
    /\ levels # <<>>
    /\ LET level == AfterNested(levels[Len(levels)])
       IN /\ levels[Len(levels)].nested = type
          /\ Emits(EndOf[type], level.member, Undefined)
          /\ open' = [levels EXCEPT ![Len(levels)] = level]
    /\ UNCHANGED over

Conclude(type) == Concludes(open, type)

Abandon(type) ==
    /\ over /\ Len(open) > 1
    /\ Concludes(SubSeq(open, 1, Len(open) - 1), type)

FoundNested ==
    /\ open # <<>> /\ Inner.nested = "concluded"
    /\ Emits("foundValue", Inner.member, Undefined)
    /\ open' = [open EXCEPT ![Len(open)] = AfterValue(@)]
    /\ UNCHANGED over

InputOver ==
    /\ ~over /\ over' = TRUE
    /\ UNCHANGED <<open, log>>

Init == open = <<>> /\ over = FALSE /\ log = <<>>

Next ==
    \/ \E type \in Types :
         Start(type) \/ Announce(type) \/ End(type) \/ Conclude(type) \/ Abandon(type)
    \/ FoundKey \/ FoundScalar \/ FoundNested
    \/ InputOver

Spec == Init /\ [][Next]_vars
===========================================================================
