---------------------------- MODULE StringTable ----------------------------
(***************************************************************************)
(* The strings of Duktape's heap.  Every text is kept once, in a table     *)
(* with closed hashing, so the engine compares strings by their address.   *)
(* The table is no root for the garbage collector: a string that is freed  *)
(* leaves a mark in its slot, a collection may start in any allocation,    *)
(* one in the middle of an intern too, and it rebuilds the table.  A cache *)
(* remembers positions in strings by their address, which is used again    *)
(* once a string is freed.                                                 *)
(*                                                                         *)
(* The build counts references, so a string whose last reference goes is   *)
(* freed at once; one that only garbage refers to waits for a collection.  *)
(***************************************************************************)
EXTENDS Characters

CONSTANTS
    Addresses,      \* where a string may be allocated
    Texts,          \* the texts a string may have
    Inputs,         \* the ones the program makes other than by cutting strings
    HashOf,         \* the hash of each
    ProbeSteps,     \* the table of probe steps, as a sequence
    Sizes,          \* the sizes the table may grow to, primes
    InitialSize,
    CacheSize,      \* DUK_HEAP_STRCACHE_SIZE
    NoCacheLimit,   \* DUK_HEAP_STRINGCACHE_NOCACHE_LIMIT
    Null,           \* an empty slot, no string, no text
    Deleted         \* the mark in a slot whose string is freed

ASSUME TextsAreBytes ==
    /\ Inputs \subseteq Texts
    /\ \A t \in Texts : t \in Seq(Bytes) /\ \A m, n \in 0..Len(t) : Slice(t, m, n) \in Texts

ASSUME AddressesAreFinite == IsFiniteSet(Addresses)

ASSUME MarksAreNoStrings == Null \notin Addresses \cup Texts /\ Deleted \notin Addresses /\ Null # Deleted

ASSUME HashesAreNumbers == HashOf \in [Texts -> Nat]

(***************************************************************************)
(* duk_util_get_hash_prime, over the sizes it knows.                       *)
(***************************************************************************)
HashPrime(n) == CHOOSE p \in Sizes : p >= n /\ \A q \in Sizes : q >= n => p <= q

ASSUME SizesSuffice ==
    /\ InitialSize \in Nat /\ InitialSize > 2
    /\ \A p \in Sizes : p \in Nat /\ p > 2
    /\ \A n \in 0..(2 * Cardinality(Addresses)) :
          HashPrime(n) \in Sizes /\ HashPrime(n) >= n
          /\ HashPrime(HashPrime(n)) \in Sizes /\ HashPrime(HashPrime(n)) >= HashPrime(n)

\* The slot of the k-th probe for a text in a table of this size.
StepOf(t) == ProbeSteps[1 + (HashOf[t] % Len(ProbeSteps))]

Slot(t, k, n) == ((HashOf[t] % n) + k * StepOf(t)) % n

\* The steps are primes that divide no size, so the probes come to every slot.
ASSUME ProbesReachEverySlot ==
    \A t \in Texts : \A n \in Sizes \cup {InitialSize} :
       {Slot(t, k, n) : k \in 0..(n - 1)} = 0..(n - 1)

ASSUME CacheHasRoom == CacheSize \in Nat /\ CacheSize > 0 /\ NoCacheLimit \in Nat

VARIABLES
    text,       \* the heap: the text at each address, Null where it is free
    held,       \* the strings that can be reached, by references that count
    table,      \* strtable: in each slot an address, Null or Deleted
    size, used, \* st_size, st_used
    cache,      \* strcache: the string, and a position in it
    pc,         \* what the engine is at
    back,       \* and what it goes back to, the innermost first
    collecting, \* DUK_HEAP_FLAG_MARKANDSWEEP_RUNNING
    wanted,     \* the text that is being interned
    i,          \* the slot the loop that rebuilds the table is at
    newTable, newSize, newUsed

heapVars   == <<text, held>>
tableVars  == <<table, size, used>>
growVars   == <<newTable, newSize, newUsed>>
vars       == <<heapVars, tableVars, cache, pc, back, collecting, wanted, i, growVars>>

Live == {a \in Addresses : text[a] # Null}

---------------------------------------------------------------------------
(* Probing. *)

\* A string with this text at the k-th probe, and no empty slot before it.
IsMatch(t, k) ==
    /\ table[Slot(t, k, size)] \in Addresses
    /\ text[table[Slot(t, k, size)]] = t
    /\ \A j \in 0..(k - 1) : table[Slot(t, j, size)] # Null

\* Mutant: probing ends at a mark, as at an empty slot.
EndsAtMarks(t) ==
    {k \in 0..(size - 1) : IsMatch(t, k) /\ \A j \in 0..(k - 1) : table[Slot(t, j, size)] # Deleted}

Matches(t) == {k \in 0..(size - 1) : IsMatch(t, k)}

\* Probing for a string comes to its slot in these n entries.
IsPlaced(entries, n, a) ==
    \E k \in 0..(n - 1) :
       /\ entries[Slot(text[a], k, n)] = a
       /\ \A j \in 0..(k - 1) : entries[Slot(text[a], j, n)] # Null

\* Mutant: any slot that is free will do.
TakesAnySlot(entries, n, t, k) == entries[Slot(t, k, n)] \in {Null, Deleted}

\* duk__insert_hstring_probe takes the first slot that is empty or marked, in
\* entries of n slots; the count goes up only where the slot was empty.
TakesSlot(entries, n, t, k) ==
    /\ entries[Slot(t, k, n)] \in {Null, Deleted}
    /\ \A j \in 0..(k - 1) : entries[Slot(t, j, n)] \in Addresses

Counted(entries, slot, count) == IF entries[slot] = Null THEN count + 1 ELSE count

---------------------------------------------------------------------------
(* The end of strings. *)

\* Mutant: the cache is not told.
StayInCache(freed) == cache

NoPosition == [h |-> Null, at |-> NoEntry]

\* duk_heap_strcache_string_remove.
WithoutStrings(freed) ==
    [e \in DOMAIN cache |-> IF cache[e].h \in freed THEN NoPosition ELSE cache[e]]

\* Mutant: the count of used slots goes down, though the mark is still in one.
UncountsFreed(freed) ==
    /\ cache' = WithoutStrings(freed)
    /\ table' = [s \in DOMAIN table |-> IF table[s] \in freed THEN Deleted ELSE table[s]]
    /\ text' = [a \in Addresses |-> IF a \in freed THEN Null ELSE text[a]]
    /\ used' = used - Cardinality(freed)
    /\ UNCHANGED size

Frees(freed) ==
    /\ cache' = WithoutStrings(freed)
    /\ table' = [s \in DOMAIN table |-> IF table[s] \in freed THEN Deleted ELSE table[s]]
    /\ text' = [a \in Addresses |-> IF a \in freed THEN Null ELSE text[a]]
    /\ UNCHANGED <<size, used>>

\* duk_heaphdr_refzero, after the last reference to a string: duk_heap_string_remove
\* comes to its slot.
RefZero(a) ==
    /\ pc = "idle" /\ a \in held
    /\ IsPlaced(table, size, a)
    /\ Frees({a})
    /\ held' = held \ {a}
    /\ UNCHANGED <<pc, back, collecting, wanted, i, growVars>>

\* What still refers to the string is garbage that refers to itself.
BecomesGarbage(a) ==
    /\ pc = "idle" /\ a \in held
    /\ held' = held \ {a}
    /\ UNCHANGED <<text, tableVars, cache, pc, back, collecting, wanted, i, growVars>>

---------------------------------------------------------------------------
(* Growing and rebuilding the table. *)

Occupied(entries) == {s \in DOMAIN entries : entries[s] \in Addresses}

\* duk__resize_strtab_probe, up to the allocation.
StartsGrow(entries, stack) ==
    /\ pc' = "grow" /\ back' = stack
    /\ newSize' = HashPrime(HashPrime(2 * Cardinality(Occupied(entries))))

\* Back to what needed the table to be rebuilt; a collection ends.
GoesBack == pc' = Head(back) /\ back' = Tail(back) /\ collecting' = FALSE

AllocTable ==
    /\ pc = "grow"
    /\ pc' = "rehash" /\ i' = 0
    /\ newTable' = [s \in 0..(newSize - 1) |-> Null] /\ newUsed' = 0
    /\ UNCHANGED <<heapVars, tableVars, cache, back, collecting, wanted, newSize>>

\* In a collection it does no harm; else the intern fails, and throws.
NoTable ==
    /\ pc = "grow"
    /\ IF collecting THEN GoesBack /\ UNCHANGED wanted
       ELSE pc' = "idle" /\ back' = <<>> /\ wanted' = Null /\ UNCHANGED collecting
    /\ newSize' = 0
    /\ UNCHANGED <<heapVars, tableVars, cache, i, newTable, newUsed>>

Remaining == {s \in Occupied(table) : s >= i}

\* The string in the next slot that holds one.
Rehash ==
    /\ pc = "rehash"
    /\ \E s \in Remaining : \E k \in 0..(newSize - 1) :
         /\ \A r \in Remaining : s <= r
         /\ i' = s + 1
         /\ LET slot == Slot(text[table[s]], k, newSize)
            IN /\ TakesSlot(newTable, newSize, text[table[s]], k)
               /\ newTable' = [newTable EXCEPT ![slot] = table[s]]
               /\ newUsed' = Counted(newTable, slot, newUsed)
    /\ UNCHANGED <<heapVars, tableVars, cache, pc, back, collecting, wanted, newSize>>

FinishRehash ==
    /\ pc = "rehash" /\ Remaining = {}
    /\ table' = newTable /\ size' = newSize /\ used' = newUsed
    /\ newTable' = <<>> /\ newSize' = 0 /\ newUsed' = 0 /\ i' = 0
    /\ GoesBack
    /\ UNCHANGED <<heapVars, cache, wanted>>

---------------------------------------------------------------------------
(* duk_heap_mark_and_sweep, as far as strings go.                          *)

\* Mutant: strings that can be reached are not spared.
AllStrings == Live

\* What duk__sweep_stringtable_probe finds without the mark of what can be reached.
Unmarked == Live \ held

\* A collection may start in any allocation that is not part of one.  Afterwards
\* the table is rebuilt, to be rid of the marks of freed strings, but not inside of
\* a resize: DUK_MS_FLAG_NO_STRINGTABLE_RESIZE.
Collect ==
    /\ pc \in {"idle", "grow", "string"} /\ ~collecting
    /\ Frees(Unmarked)
    /\ IF pc = "grow" THEN UNCHANGED <<pc, back, collecting, newSize>>
       ELSE StartsGrow(table', <<pc>> \o back) /\ collecting' = TRUE
    /\ UNCHANGED <<held, wanted, i, newTable, newUsed>>

---------------------------------------------------------------------------
(* duk_heap_string_intern, and the reference that is taken to its result   *)
(* before anything else is allocated.                                      *)

\* duk__recheck_strtab_size_probe: not more than three quarters full, nor less
\* than one.
NeedsResize == size - (used + 1) <= size \div 4 \/ used + 1 <= size \div 4

Interns(t) ==
    IF Matches(t) # {}
    THEN /\ held' = held \cup {table[Slot(t, k, size)] : k \in Matches(t)}
         /\ UNCHANGED <<pc, back, wanted, newSize>>
    ELSE /\ wanted' = t
         /\ IF NeedsResize THEN StartsGrow(table, <<"string">>)
            ELSE pc' = "string" /\ UNCHANGED <<back, newSize>>
         /\ UNCHANGED held

\* duk__alloc_init_hstring, and what follows.
AllocString ==
    /\ pc = "string"
    /\ \E a \in Addresses \ Live, k \in 0..(size - 1) :
         /\ TakesSlot(table, size, wanted, k)
         /\ text' = [text EXCEPT ![a] = wanted]
         /\ held' = held \cup {a}
         /\ table' = [table EXCEPT ![Slot(wanted, k, size)] = a]
         /\ used' = Counted(table, Slot(wanted, k, size), used)
    /\ pc' = "idle" /\ wanted' = Null
    /\ UNCHANGED <<size, cache, back, collecting, i, growVars>>

NoString ==
    /\ pc = "string"
    /\ pc' = "idle" /\ wanted' = Null
    /\ UNCHANGED <<heapVars, tableVars, cache, back, collecting, i, growVars>>

---------------------------------------------------------------------------
(* What the program does with strings. *)

\* duk_push_lstring.
PushString ==
    /\ pc = "idle"
    /\ \E t \in Inputs : Interns(t)
    /\ UNCHANGED <<text, tableVars, cache, collecting, i, newTable, newUsed>>

\* duk_heap_strcache_offset_char2byte: the byte offset, and the cache afterwards,
\* with the position that was found in front.
UsesCache(a) == ~IsAscii(text[a]) /\ CharLength(text[a]) > NoCacheLimit

EntriesOf(c, a) == {e \in DOMAIN c : c[e].h = a}

\* The entry of a string, which has not more than one, or the last.
Place(c, a) == IF EntriesOf(c, a) = {} THEN CacheSize ELSE CHOOSE e \in EntriesOf(c, a) : TRUE

Remembered(c, a) ==
    IF UsesCache(a) /\ EntriesOf(c, a) # {} THEN c[Place(c, a)].at ELSE NoEntry

InFront(c, a, n, offset) ==
    [e \in DOMAIN c |-> IF e = 1 THEN [h |-> a, at |-> Known(n, offset)]
                        ELSE IF e <= Place(c, a) THEN c[e - 1] ELSE c[e]]

Located(c, a, n) ==
    LET offset == IF IsAscii(text[a]) THEN n ELSE ByteOffset(text[a], n, Remembered(c, a))
    IN [offset |-> offset,
        cache  |-> IF ~UsesCache(a) \/ offset = Missing THEN c ELSE InFront(c, a, n, offset)]

\* Where a character begins and ends; the second is looked for with the cache as
\* the first has left it.
Begin(a, n) == Located(cache, a, n)
End(a, n)   == Located(Begin(a, n).cache, a, n + 1)

CharAt(a, n) == Slice(text[a], Begin(a, n).offset, End(a, n).offset)

\* duk_substring for s[n]: the characters of a string cut it.
PushChar ==
    /\ pc = "idle"
    /\ \E a \in held : \E n \in 0..(CharLength(text[a]) - 1) :
         /\ cache' = IF Begin(a, n).offset = Missing THEN cache ELSE End(a, n).cache
         /\ IF Missing \in {Begin(a, n).offset, End(a, n).offset}
            THEN UNCHANGED <<held, pc, back, wanted, newSize>>
            ELSE Interns(CharAt(a, n))
    /\ UNCHANGED <<text, tableVars, collecting, i, newTable, newUsed>>

\* duk_trim, which throws at what it cannot decode.
PushTrimmed ==
    /\ pc = "idle"
    /\ \E a \in held : Trim(text[a]) # Throws /\ Interns(Trim(text[a]))
    /\ UNCHANGED <<text, tableVars, cache, collecting, i, newTable, newUsed>>

---------------------------------------------------------------------------
Init ==
    /\ text = [a \in Addresses |-> Null] /\ held = {}
    /\ table = [s \in 0..(InitialSize - 1) |-> Null]
    /\ size = InitialSize /\ used = 0
    /\ cache = [e \in 1..CacheSize |-> NoPosition]
    /\ pc = "idle" /\ back = <<>> /\ collecting = FALSE
    /\ wanted = Null /\ i = 0
    /\ newTable = <<>> /\ newSize = 0 /\ newUsed = 0

Next ==
    \/ PushString \/ PushChar \/ PushTrimmed
    \/ \E a \in Addresses : RefZero(a) \/ BecomesGarbage(a)
    \/ AllocString \/ NoString
    \/ Collect \/ AllocTable \/ NoTable \/ Rehash \/ FinishRehash

Spec == Init /\ [][Next]_vars

---------------------------------------------------------------------------
(* Properties. *)

\* No text has two strings, so strings may be compared by address
\* (duktape.c:44748-44764), whatever is freed while one is interned.
OneCopy == \A a, b \in Live : text[a] = text[b] => a = b

\* Probing comes to every string, each is in one slot, and no slot has the address of
\* one that is freed (duktape.c:44313-44437): so duk_heap_string_remove always finds
\* what it looks for, and a lookup never looks at freed memory.
Placed ==
    /\ \A a \in Live : IsPlaced(table, size, a)
    /\ \A s \in Occupied(table) : table[s] \in Live /\ \A r \in DOMAIN table : table[r] = table[s] => r = s

Pool == INSTANCE StringPool

\* A text that is interned gets the address it has, and a string that can be reached
\* keeps its address and its text through every collection and every rebuilding of
\* the table.
KeepsPool == Pool!Spec

\* The count of used slots counts the marks too, and one slot stays empty: else the
\* loops that probe, which end at an empty slot, would not end (duktape.c:44327-44361).
ProbesEnd ==
    /\ used = Cardinality({s \in DOMAIN table : table[s] # Null})
    /\ used < size

\* No string is in the cache twice, nor one that is freed (duktape.c:43566-43569).
CachedOnce ==
    /\ \A e \in DOMAIN cache : cache[e].h \in Live \cup {Null}
    /\ \A e, f \in DOMAIN cache : cache[e].h = cache[f].h => e = f \/ cache[e].h = Null

\* A character that is cut out of a string is the bytes from its first to the next one
\* that starts a character, whatever positions the cache remembers, of this string or
\* of another that had its address (duktape.c:43557-43573, 43626-43830).
Character(bytes, n) ==
    LET start(m) == CHOOSE p \in Starts(bytes, 0, Len(bytes) - 1) :
                       Cardinality(Starts(bytes, 0, p)) = m + 1
    IN Slice(bytes, start(n), IF n + 1 = CharLength(bytes) THEN Len(bytes) ELSE start(n + 1))

CutsCharacters ==
    pc = "idle" =>
       \A a \in held : \A n \in 0..(CharLength(text[a]) - 1) :
          /\ Missing \notin {Begin(a, n).offset, End(a, n).offset}
          /\ CharAt(a, n) = Character(text[a], n)

WellFormed(bytes) ==
    /\ bytes # <<>> => bytes[1] # "cont"
    /\ \A p \in Starts(bytes, 0, Len(bytes) - 1) :
         LET end == p + DecodedLength(bytes[p + 1])
         IN /\ end <= Len(bytes)
            /\ \A q \in (p + 1)..(end - 1) : bytes[q + 1] = "cont"
            /\ end < Len(bytes) => bytes[end + 1] # "cont"

IsTrimmed(bytes) == bytes = <<>> \/ (bytes[1] # "white" /\ bytes[Len(bytes)] # "white")

\* trim() takes white space from both ends and nothing else, and throws at no text
\* whose characters are whole (duktape.c:19576-19617).
Trims ==
    \A a \in held : pc = "idle" /\ WellFormed(text[a]) =>
       LET result == Trim(text[a])
       IN /\ result # Throws
          /\ IsTrimmed(result)
          /\ \E m, n \in 0..Len(text[a]) :
               /\ result = Slice(text[a], m, n)
               /\ \A p \in 1..Len(text[a]) : p \notin (m + 1)..n => text[a][p] = "white"
=============================================================================
