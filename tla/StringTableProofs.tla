------------------------- MODULE StringTableProofs -------------------------
(***************************************************************************)
(* No text ever has two strings, and the string table implements the pool  *)
(* of strings the engine takes it for.  The reason is that probing comes   *)
(* to every string: a lookup that finds none says that there is none, and  *)
(* no collection between the lookup and the insertion adds any.            *)
(***************************************************************************)
EXTENDS StringTable, Recursion

TableSizes == Sizes \cup {InitialSize}

HeapOK == text \in [Addresses -> Texts \cup {Null}] /\ held \subseteq Live

TableOK ==
    /\ size \in TableSizes
    /\ table \in [0..(size - 1) -> Addresses \cup {Null, Deleted}]

Positions == [h : Addresses \cup {Null}, at : [cidx : Nat, bidx : Nat, known : BOOLEAN]]

\* A position in the cache is one in the string it names.
CacheOK ==
    /\ cache \in [1..CacheSize -> Positions]
    /\ \A e \in 1..CacheSize : cache[e].h \in Addresses =>
          cache[e].h \in Live /\ cache[e].at.bidx <= Len(text[cache[e].h])

ControlOK ==
    \/ pc = "idle" /\ back = <<>> /\ collecting = FALSE /\ wanted = Null
    \/ pc = "string" /\ back = <<>> /\ collecting = FALSE /\ wanted \in Texts
    \/ /\ pc \in {"grow", "rehash"}
       /\ newSize \in Sizes
       /\ \/ back = <<"idle">> /\ collecting = TRUE /\ wanted = Null
          \/ back = <<"string">> /\ collecting \in BOOLEAN /\ wanted \in Texts

\* The strings of the slots before i are in the new table, and no others.
NewTableOK ==
    pc = "rehash" =>
       /\ i \in Nat
       /\ newTable \in [0..(newSize - 1) -> Addresses \cup {Null}]
       /\ \A s \in Occupied(newTable) : \E r \in Occupied(table) : r < i /\ table[r] = newTable[s]
       /\ \A r \in Occupied(table) : r < i => IsPlaced(newTable, newSize, table[r])
       /\ \A r, s \in Occupied(newTable) : newTable[r] = newTable[s] => r = s

WantedIsNew == wanted # Null => \A a \in Live : text[a] # wanted

Inv ==
    /\ HeapOK /\ TableOK /\ CacheOK /\ CachedOnce
    /\ ControlOK /\ NewTableOK /\ WantedIsNew
    /\ Placed /\ OneCopy

---------------------------------------------------------------------------
(* The sizes of tables, and their slots. *)

LEMMA SizesAreNumbers == ASSUME NEW n \in TableSizes PROVE n \in Nat /\ n > 2
  BY SizesSuffice DEF TableSizes

\* A probe stays within the table.
LEMMA SlotInTable ==
    ASSUME NEW t \in Texts, NEW n \in TableSizes, NEW k \in 0..(n - 1)
    PROVE  Slot(t, k, n) \in 0..(n - 1)
  <1>1. {Slot(t, j, n) : j \in 0..(n - 1)} = 0..(n - 1)
    BY ProbesReachEverySlot DEF TableSizes
  <1> QED  BY <1>1

LEMMA TextOfLive ==
    ASSUME HeapOK, NEW a \in Live PROVE a \in Addresses /\ text[a] \in Texts
  BY DEF HeapOK, Live

\* A table has not more strings than there are addresses, so there is a size it can
\* grow to, where one more string leaves a slot empty.
LEMMA NewSizeExists ==
    ASSUME TableOK, NEW entries, DOMAIN entries = 0..(size - 1),
           \A r, s \in Occupied(entries) : entries[r] = entries[s] => r = s
    PROVE  LET n == HashPrime(HashPrime(2 * Cardinality(Occupied(entries))))
           IN  n \in Sizes /\ Cardinality(Occupied(entries)) + 1 < n
  <1> DEFINE O == Occupied(entries)
             f == [s \in O |-> entries[s]]
  <1>1. f \in Injection(O, Addresses)
    BY DEF Occupied, Injection, IsInjective
  <1>2. IsFiniteSet(O) /\ Cardinality(O) <= Cardinality(Addresses)
    BY <1>1, AddressesAreFinite, FS_Injection
  <1>3. Cardinality(O) \in Nat /\ Cardinality(Addresses) \in Nat
    BY <1>2, AddressesAreFinite, FS_CardinalityType
  <1>4. 2 * Cardinality(O) \in 0..(2 * Cardinality(Addresses))
    <2> HIDE DEF O
    <2> QED  BY <1>2, <1>3
  <1> DEFINE m == HashPrime(2 * Cardinality(O))
             n == HashPrime(m)
  <1>5. m \in Sizes /\ m >= 2 * Cardinality(O) /\ n \in Sizes /\ n >= m
    BY <1>4, SizesSuffice
  <1>6. m \in Nat /\ n \in Nat /\ n > 2
    BY <1>5, SizesSuffice
  <1> HIDE DEF m, n, O
  <1>7. Cardinality(O) + 1 < n
    BY <1>3, <1>5, <1>6
  <1> QED  BY <1>5, <1>7 DEF m, n, O

---------------------------------------------------------------------------
(* Lookup. *)

\* What a lookup finds has the text.
LEMMA MatchIsString ==
    ASSUME HeapOK, TableOK, NEW t \in Texts, NEW k \in Matches(t)
    PROVE  /\ table[Slot(t, k, size)] \in Live
           /\ text[table[Slot(t, k, size)]] = t
  BY MarksAreNoStrings DEF Matches, IsMatch, Live

\* A lookup finds every string.
LEMMA StringIsMatched ==
    ASSUME HeapOK, TableOK, Placed, NEW a \in Live
    PROVE  Matches(text[a]) # {}
  <1>1. PICK k \in 0..(size - 1) :
           /\ table[Slot(text[a], k, size)] = a
           /\ \A j \in 0..(k - 1) : table[Slot(text[a], j, size)] # Null
    BY DEF Placed, IsPlaced
  <1>2. k \in Matches(text[a])
    BY <1>1 DEF Matches, IsMatch, Live
  <1> QED  BY <1>2

\* So with one copy of every text, the result of an intern that finds the text is its
\* string.
LEMMA MatchIsTheString ==
    ASSUME HeapOK, TableOK, OneCopy, NEW t \in Texts, Matches(t) # {}
    PROVE  \E a \in Live : text[a] = t /\ {table[Slot(t, k, size)] : k \in Matches(t)} = {a}
  <1>1. PICK k \in Matches(t) : TRUE
    OBVIOUS
  <1> DEFINE a == table[Slot(t, k, size)]
  <1>2. a \in Live /\ text[a] = t
    BY MatchIsString
  <1>3. \A j \in Matches(t) : table[Slot(t, j, size)] = a
    <2> TAKE j \in Matches(t)
    <2>1. table[Slot(t, j, size)] \in Live /\ text[table[Slot(t, j, size)]] = t
      BY MatchIsString
    <2> QED  BY <1>2, <2>1 DEF OneCopy
  <1>4. {table[Slot(t, j, size)] : j \in Matches(t)} = {a}
    BY <1>3
  <1> QED  BY <1>2, <1>4

---------------------------------------------------------------------------
(* Strings are freed. *)

TablesOK == HeapOK /\ TableOK /\ CacheOK /\ CachedOnce /\ WantedIsNew /\ Placed /\ OneCopy

LEMMA FreesKeepsTables ==
    ASSUME TablesOK, NEW freed \in SUBSET Live, held' \subseteq held \ freed, Frees(freed),
           wanted' = wanted
    PROVE  TablesOK'
  <1> USE MarksAreNoStrings DEF TablesOK
  <1>1. /\ text' = [a \in Addresses |-> IF a \in freed THEN Null ELSE text[a]]
        /\ table' = [s \in DOMAIN table |-> IF table[s] \in freed THEN Deleted ELSE table[s]]
        /\ cache' = WithoutStrings(freed)
        /\ size' = size
    BY DEF Frees
  <1>2. Live' = Live \ freed /\ \A a \in Live' : text'[a] = text[a]
    BY <1>1 DEF Live
  <1>3. freed \subseteq Addresses /\ Live \subseteq Addresses
    BY DEF Live
  <1>4. HeapOK'
    BY <1>1, <1>2 DEF HeapOK
  <1>5. TableOK'
    BY <1>1 DEF TableOK
  <1>6. CacheOK' /\ CachedOnce'
    <2>1. \A e \in 1..CacheSize :
             cache'[e] = IF cache[e].h \in freed THEN NoPosition ELSE cache[e]
      BY <1>1 DEF CacheOK, WithoutStrings
    <2>2. NoPosition \in Positions /\ NoPosition.h = Null
      BY DEF NoPosition, NoEntry, Positions
    <2>3. cache' \in [1..CacheSize -> Positions]
      BY <1>1, <2>2 DEF CacheOK, WithoutStrings
    <2>4. ASSUME NEW e \in 1..CacheSize, cache'[e].h \in Addresses
          PROVE  cache'[e] = cache[e] /\ cache[e].h \notin freed
      BY <2>1, <2>2, <2>4
    <2>5. CacheOK'
      BY <1>2, <2>3, <2>4 DEF CacheOK
    <2>6. CachedOnce'
      <3>1. \A e \in DOMAIN cache' : cache'[e].h \in Addresses \cup {Null}
        BY <2>3 DEF Positions
      <3> QED  BY <1>2, <2>3, <2>4, <2>5, <3>1 DEF CachedOnce, CacheOK
    <2> QED  BY <2>5, <2>6
  <1>7. WantedIsNew'
    BY <1>2 DEF WantedIsNew
  <1>8. OneCopy'
    BY <1>2 DEF OneCopy
  <1>9. Placed'
    <2>1. ASSUME NEW a \in Live' PROVE IsPlaced(table, size, a)'
      <3>1. a \in Live /\ a \notin freed /\ text'[a] = text[a] /\ text[a] \in Texts
        BY <1>2, TextOfLive
      <3>2. PICK k \in 0..(size - 1) :
               /\ table[Slot(text[a], k, size)] = a
               /\ \A j \in 0..(k - 1) : table[Slot(text[a], j, size)] # Null
        BY <3>1 DEF Placed, IsPlaced
      <3>3. \A j \in 0..k : Slot(text[a], j, size) \in DOMAIN table
        <4> TAKE j \in 0..k
        <4>1. j \in 0..(size - 1)
          BY SizesAreNumbers DEF TableOK
        <4> QED  BY <3>1, <4>1, SlotInTable DEF TableOK
      <3>4. table'[Slot(text[a], k, size)] = a
        BY <1>1, <3>1, <3>2, <3>3
      <3>5. \A j \in 0..(k - 1) : table'[Slot(text[a], j, size)] # Null
        BY <1>1, <3>2, <3>3
      <3> QED  BY <1>1, <3>1, <3>4, <3>5 DEF IsPlaced
    <2>2. ASSUME NEW s \in Occupied(table)'
          PROVE  table'[s] \in Live' /\ \A r \in DOMAIN table' : table'[r] = table'[s] => r = s
      <3>1. s \in DOMAIN table /\ table'[s] \in Addresses
        BY <1>1, <2>2 DEF Occupied
      <3>2. table'[s] = table[s] /\ table[s] \notin freed
        BY <1>1, <3>1
      <3>3. s \in Occupied(table)
        BY <3>1, <3>2 DEF Occupied
      <3>4. \A r \in DOMAIN table' : table'[r] = table'[s] => table[r] = table[s]
        BY <1>1, <3>1, <3>2
      <3> QED  BY <1>1, <1>2, <3>2, <3>3, <3>4 DEF Placed
    <2> QED  BY <2>1, <2>2 DEF Placed
  <1> QED  BY <1>4, <1>5, <1>6, <1>7, <1>8, <1>9

---------------------------------------------------------------------------
(* A string is inserted in entries of n slots. *)

\* Probing for the text comes to the address.
Reaches(entries, n, t, a) ==
    \E k \in 0..(n - 1) :
       entries[Slot(t, k, n)] = a /\ \A j \in 0..(k - 1) : entries[Slot(t, j, n)] # Null

Inserted(entries, n, t, k, a) == [entries EXCEPT ![Slot(t, k, n)] = a]

LEMMA PlacedIsReached ==
    ASSUME NEW entries, NEW n, NEW a
    PROVE  IsPlaced(entries, n, a) <=> Reaches(entries, n, text[a], a)
  BY DEF IsPlaced, Reaches

LEMMA InsertionPlaces ==
    ASSUME NEW n \in TableSizes, NEW entries \in [0..(n - 1) -> Addresses \cup {Null, Deleted}],
           NEW a \in Addresses, NEW t \in Texts,
           NEW k \in 0..(n - 1), TakesSlot(entries, n, t, k),
           NEW after, after = Inserted(entries, n, t, k, a)
    PROVE  /\ Slot(t, k, n) \in 0..(n - 1)
           /\ entries[Slot(t, k, n)] \in {Null, Deleted}
           /\ Reaches(after, n, t, a)
           /\ \A u \in Texts : \A b \in Addresses : Reaches(entries, n, u, b) => Reaches(after, n, u, b)
  <1> USE MarksAreNoStrings
  <1> DEFINE slot == Slot(t, k, n)
  <1>1. slot \in 0..(n - 1)
    BY SlotInTable
  <1>2. entries[slot] \in {Null, Deleted}
    BY DEF TakesSlot
  <1>3. \A u \in Texts : \A m \in 0..(n - 1) : \A j \in 0..m : Slot(u, j, n) \in 0..(n - 1)
    <2> TAKE u \in Texts
    <2> TAKE m \in 0..(n - 1)
    <2> TAKE j \in 0..m
    <2>1. j \in 0..(n - 1)
      BY SizesAreNumbers
    <2> QED  BY <2>1, SlotInTable
  <1>4. \A s \in 0..(n - 1) : after[s] = IF s = slot THEN a ELSE entries[s]
    BY <1>1 DEF Inserted
  <1>5. Reaches(after, n, t, a)
    <2>1. after[slot] = a
      BY <1>1, <1>4
    <2>2. ASSUME NEW j \in 0..(k - 1) PROVE after[Slot(t, j, n)] # Null
      <3>1. Slot(t, j, n) \in 0..(n - 1) /\ entries[Slot(t, j, n)] \in Addresses
        BY <1>3 DEF TakesSlot
      <3> QED  BY <1>4, <3>1
    <2> QED  BY <2>1, <2>2 DEF Reaches
  <1>6. ASSUME NEW u \in Texts, NEW b \in Addresses, Reaches(entries, n, u, b)
        PROVE  Reaches(after, n, u, b)
    <2>1. PICK m \in 0..(n - 1) :
             /\ entries[Slot(u, m, n)] = b
             /\ \A j \in 0..(m - 1) : entries[Slot(u, j, n)] # Null
      BY <1>6 DEF Reaches
    <2>2. Slot(u, m, n) \in 0..(n - 1)
      BY SlotInTable
    <2>3. after[Slot(u, m, n)] = b
      BY <1>2, <1>4, <2>1, <2>2
    <2>4. \A j \in 0..(m - 1) : after[Slot(u, j, n)] # Null
      <3> TAKE j \in 0..(m - 1)
      <3>1. j \in 0..m
        OBVIOUS
      <3>2. Slot(u, j, n) \in 0..(n - 1)
        BY <1>3, <3>1
      <3> QED  BY <1>4, <2>1, <3>2
    <2> QED  BY <2>3, <2>4 DEF Reaches
  <1> QED  BY <1>1, <1>2, <1>5, <1>6

---------------------------------------------------------------------------
(* trim(). *)

LEMMA TrimStartExists ==
    ASSUME NEW bytes \in Seq(Bytes)
    PROVE  /\ TrimStart(bytes) \in 0..Len(bytes)
           /\ \A q \in 0..(TrimStart(bytes) - 1) : bytes[q + 1] = "white"
           /\ TrimStart(bytes) < Len(bytes) => bytes[TrimStart(bytes) + 1] # "white"
  <1> DEFINE S == {p \in Nat : p < Len(bytes) => bytes[p + 1] # "white"}
  <1>1. Len(bytes) \in S
    OBVIOUS
  <1>2. PICK m \in S : \A p \in S : m <= p
    <2> HIDE DEF S
    <2>1. S \subseteq Nat
      BY DEF S
    <2> QED  BY <1>1, <2>1, LeastNumber
  <1>3. \A q \in 0..(m - 1) : bytes[q + 1] = "white"
    <2> TAKE q \in 0..(m - 1)
    <2>1. q \in Nat /\ ~(m <= q)
      OBVIOUS
    <2> QED  BY <1>2, <2>1
  <1>4. m \in 0..Len(bytes)
    BY <1>1, <1>2
  <1> QED  BY <1>2, <1>3, <1>4 DEF TrimStart

LEMMA StartBeforeExists ==
    ASSUME NEW bytes \in Seq(Bytes), NEW p \in 1..Len(bytes)
    PROVE  /\ StartBefore(bytes, p) \in 0..(p - 1)
           /\ StartBefore(bytes, p) = 0 \/ bytes[StartBefore(bytes, p) + 1] # "cont"
           /\ \A r \in (StartBefore(bytes, p) + 1)..(p - 1) : bytes[r + 1] = "cont"
  <1> DEFINE S == {q \in 0..(p - 1) : \A r \in (q + 1)..(p - 1) : bytes[r + 1] = "cont"}
  <1>1. p - 1 \in S
    OBVIOUS
  <1>2. PICK m \in S : \A q \in S : m <= q
    <2> HIDE DEF S
    <2>1. S \subseteq Nat
      BY DEF S
    <2> QED  BY <1>1, <2>1, LeastNumber
  <1>3. ASSUME m # 0, bytes[m + 1] = "cont" PROVE FALSE
    <2>1. m - 1 \in S
      BY <1>3
    <2> QED  BY <1>2, <2>1
  <1> QED  BY <1>3 DEF StartBefore

\* What is looked at before offset p: nothing is written here of what it decodes.
TrimStep(bytes, p, before) ==
    IF ~Decodes(bytes, StartBefore(bytes, p)) THEN Missing
    ELSE IF bytes[StartBefore(bytes, p) + 1] = "white" THEN before ELSE p

LEMMA TrimEndDefined ==
    ASSUME NEW bytes \in Seq(Bytes)
    PROVE  \E end \in [0..Len(bytes) -> Int] :
              /\ TrimEnd(bytes) = end[Len(bytes)]
              /\ end[0] = 0
              /\ \A p \in 1..Len(bytes) : end[p] = TrimStep(bytes, p, end[StartBefore(bytes, p)])
  <1> DEFINE n == Len(bytes)
             before == [p \in 1..n |-> StartBefore(bytes, p)]
             step == [p \in 1..n |-> [v \in Int |-> TrimStep(bytes, p, v)]]
             Ends(f) == f = [p \in 0..n |->
                               IF p = 0 THEN 0
                               ELSE LET q == StartBefore(bytes, p)
                                    IN IF ~Decodes(bytes, q) THEN Missing
                                       ELSE IF bytes[q + 1] = "white" THEN f[q] ELSE p]
  <1>1. before \in [1..n -> Nat] /\ \A p \in 1..n : before[p] < p
    BY StartBeforeExists
  <1>2. step \in [1..n -> [Int -> Int]]
    BY DEF TrimStep, Missing
  <1>3. \E f \in [0..n -> Int] : f[0] = 0 /\ \A p \in 1..n : f[p] = step[p][f[before[p]]]
    <2>1. n \in Nat /\ 0 \in Int /\ LooksBack(before, n)
      BY <1>1 DEF LooksBack
    <2>2. \E f \in [0..n -> Int] : Follows(f, n, 0, before, step)
      <3> HIDE DEF before, step, n
      <3> QED  BY <1>2, <2>1, RecursionDefines
    <2> QED  BY <2>2 DEF Follows
  <1>4. PICK f \in [0..n -> Int] : f[0] = 0 /\ \A p \in 1..n : f[p] = TrimStep(bytes, p, f[StartBefore(bytes, p)])
    <2>1. PICK f \in [0..n -> Int] : f[0] = 0 /\ \A p \in 1..n : f[p] = step[p][f[before[p]]]
      BY <1>3
    <2>2. \A p \in 1..n : before[p] \in 0..n
      BY <1>1
    <2>3. \A p \in 1..n : step[p][f[before[p]]] = TrimStep(bytes, p, f[before[p]])
      BY <2>2
    <2>4. \A p \in 1..n : before[p] = StartBefore(bytes, p)
      OBVIOUS
    <2> HIDE DEF step, before
    <2> QED  BY <2>1, <2>3, <2>4
  <1>5. Ends(f)
    <2>1. \A p \in 0..n : f[p] = IF p = 0 THEN 0
                                 ELSE LET q == StartBefore(bytes, p)
                                      IN IF ~Decodes(bytes, q) THEN Missing
                                         ELSE IF bytes[q + 1] = "white" THEN f[q] ELSE p
      BY <1>4 DEF TrimStep
    <2> QED  BY <2>1
  <1>6. PICK end : Ends(end) /\ end = CHOOSE f0 : Ends(f0)
    BY <1>5
  <1>7. TrimEnd(bytes) = end[n]
    BY <1>6 DEF TrimEnd
  <1>8. DOMAIN end = 0..n /\ end[0] = 0
    BY <1>6
  <1>9. \A p \in 1..n : end[p] = TrimStep(bytes, p, end[StartBefore(bytes, p)])
    <2> TAKE p \in 1..n
    <2>1. p \in 0..n /\ p # 0
      OBVIOUS
    <2>2. Ends(end)
      BY <1>6
    <2> QED  BY <2>1, <2>2 DEF TrimStep
  <1>10. end \in [0..n -> Int]
    <2> DEFINE S == {p \in 0..n : end[p] \notin Int}
    <2>1. ASSUME S # {} PROVE FALSE
      <3>1. PICK m \in S : \A p \in S : m <= p
        <4> HIDE DEF S
        <4>1. S \subseteq Nat
          BY DEF S
        <4> QED  BY <2>1, <4>1, LeastNumber
      <3>2. m \in 1..n
        BY <1>8
      <3>3. StartBefore(bytes, m) \in 0..n /\ StartBefore(bytes, m) < m
        BY <3>2, StartBeforeExists
      <3>4. end[StartBefore(bytes, m)] \in Int
        BY <3>1, <3>3
      <3> QED  BY <1>9, <3>2, <3>4 DEF TrimStep, Missing
    <2>2. end = [p \in 0..n |-> end[p]]
      BY <1>6
    <2> QED  BY <2>1, <2>2
  <1> QED  BY <1>7, <1>8, <1>9, <1>10

\* An end is at a byte that is no white space, and what trim() cuts after it is; in a
\* text whose characters are whole it is always found.
LEMMA TrimEndEnds ==
    ASSUME NEW bytes \in Seq(Bytes)
    PROVE  /\ TrimEnd(bytes) \in 0..Len(bytes) \cup {Missing}
           /\ WellFormed(bytes) =>
                 /\ TrimEnd(bytes) # Missing
                 /\ \A r \in TrimEnd(bytes)..(Len(bytes) - 1) : bytes[r + 1] = "white"
                 /\ TrimEnd(bytes) > 0 => bytes[TrimEnd(bytes)] # "white"
  <1> DEFINE n == Len(bytes)
  <1>1. n \in Nat
    OBVIOUS
  <1>2. PICK end \in [0..n -> Int] :
           /\ TrimEnd(bytes) = end[n]
           /\ end[0] = 0
           /\ \A p \in 1..n : end[p] = TrimStep(bytes, p, end[StartBefore(bytes, p)])
    BY TrimEndDefined
  <1>3. \A p \in 0..n : end[p] \in 0..p \cup {Missing}
    <2> DEFINE S == {p \in 0..n : end[p] \notin 0..p \cup {Missing}}
    <2> SUFFICES ASSUME S # {} PROVE FALSE
      OBVIOUS
    <2>1. PICK m \in S : \A p \in S : m <= p
      <3>1. S \subseteq Nat
        OBVIOUS
      <3> HIDE DEF S
      <3> QED  BY <3>1, LeastNumber
    <2>2. m \in 1..n
      BY <1>2
    <2> DEFINE q == StartBefore(bytes, m)
    <2>3. q \in 0..n /\ q < m
      BY <2>2, StartBeforeExists
    <2>4. end[q] \in 0..q \cup {Missing}
      BY <2>1, <2>3
    <2>5. end[m] \in {Missing, end[q], m}
      BY <1>2, <2>2 DEF TrimStep
    <2> HIDE DEF q
    <2> QED  BY <2>2, <2>3, <2>4, <2>5
  <1>4. ASSUME WellFormed(bytes)
        PROVE  /\ end[n] # Missing
               /\ \A r \in end[n]..(n - 1) : bytes[r + 1] = "white"
               /\ end[n] > 0 => bytes[end[n]] # "white"
    <2> DEFINE Whole(p) == p = 0 \/ p = n \/ bytes[p + 1] # "cont"
               Right(p) == /\ end[p] # Missing
                           /\ \A r \in end[p]..(p - 1) : bytes[r + 1] = "white"
                           /\ end[p] > 0 => bytes[end[p]] # "white"
               S == {p \in 0..n : Whole(p) /\ ~Right(p)}
    <2> SUFFICES ASSUME S # {} PROVE FALSE
      BY <1>1
    <2>1. PICK m \in S : \A p \in S : m <= p
      <3>1. S \subseteq Nat
        OBVIOUS
      <3> HIDE DEF S
      <3> QED  BY <3>1, LeastNumber
    <2>2. m \in 1..n
      <3>1. Right(0)
        BY <1>2 DEF Missing
      <3> QED  BY <3>1
    <2> DEFINE q == StartBefore(bytes, m)
    <2>3. /\ q \in 0..(m - 1)
          /\ q = 0 \/ bytes[q + 1] # "cont"
          /\ \A r \in (q + 1)..(m - 1) : bytes[r + 1] = "cont"
      BY <2>2, StartBeforeExists
    <2>4. end[m] = TrimStep(bytes, m, end[q])
      BY <1>2, <2>2
    <2> HIDE DEF q
    <2>5. q \in Starts(bytes, 0, n - 1) /\ bytes[q + 1] # "cont"
      BY <1>1, <1>4, <2>2, <2>3 DEF WellFormed, Starts
    <2>6. Decodes(bytes, q)
      BY <1>4, <2>5 DEF WellFormed, Decodes
    <2>7. CASE bytes[q + 1] = "white"
      <3>1. end[m] = end[q]
        BY <2>4, <2>6, <2>7 DEF TrimStep, q
      <3>2. q + 1 < n => bytes[q + 2] # "cont"
        <4>1. DecodedLength(bytes[q + 1]) = 1
          BY <2>7 DEF DecodedLength
        <4> QED  BY <1>4, <2>3, <2>5, <4>1 DEF WellFormed
      <3>3. m = q + 1
        <4> SUFFICES ASSUME q + 1 < m PROVE FALSE
          BY <2>2, <2>3
        <4>1. q + 1 \in (q + 1)..(m - 1)
          BY <2>2, <2>3
        <4>2. bytes[q + 2] = "cont"
          BY <2>3, <4>1
        <4> QED  BY <2>2, <2>3, <3>2, <4>2
      <3>4. Right(q)
        BY <2>1, <2>2, <2>3
      <3>5. end[q] \in 0..q
        BY <1>3, <2>2, <2>3, <3>4
      <3>6. \A r \in end[m]..(m - 1) : bytes[r + 1] = "white"
        <4> TAKE r \in end[m]..(m - 1)
        <4>1. r = q \/ r \in end[q]..(q - 1)
          BY <2>2, <2>3, <3>1, <3>3, <3>5
        <4> QED  BY <2>7, <3>4, <4>1
      <3>7. Right(m)
        BY <3>1, <3>4, <3>6
      <3> QED  BY <2>1, <3>7
    <2>8. CASE bytes[q + 1] # "white"
      <3>1. end[m] = m
        BY <2>4, <2>6, <2>8 DEF TrimStep, q
      <3>2. bytes[m] # "white"
        <4>1. CASE m = q + 1
          BY <2>8, <4>1
        <4>2. CASE m # q + 1
          <5>1. PICK r \in (q + 1)..(m - 1) : r + 1 = m
            BY <2>2, <2>3, <4>2
          <5>2. bytes[r + 1] = "cont"
            BY <2>3
          <5> QED  BY <5>1, <5>2
        <4> QED  BY <4>1, <4>2
      <3>3. Right(m)
        BY <2>2, <3>1, <3>2 DEF Missing
      <3> QED  BY <2>1, <3>3
    <2> QED  BY <2>7, <2>8
  <1> QED  BY <1>1, <1>2, <1>3, <1>4

\* trim() cuts a part out of its text, if it does not throw.
LEMMA TrimCutsText ==
    ASSUME NEW t \in Texts, Trim(t) # Throws PROVE Trim(t) \in Texts
  <1>1. t \in Seq(Bytes) /\ Len(t) \in Nat
    BY TextsAreBytes
  <1>2. TrimStart(t) \in 0..Len(t) /\ TrimEnd(t) \in 0..Len(t) \cup {Missing}
    BY <1>1, TrimStartExists, TrimEndEnds
  <1>3. CASE TrimStart(t) = Len(t)
    <2>1. Slice(t, 0, 0) = <<>>
      BY <1>1 DEF Slice
    <2>2. 0 \in 0..Len(t)
      BY <1>1
    <2> QED  BY <1>3, <2>1, <2>2, TextsAreBytes DEF Trim
  <1>4. CASE TrimStart(t) # Len(t)
    <2>1. TrimEnd(t) # Missing /\ Trim(t) = Slice(t, TrimStart(t), TrimEnd(t))
      BY <1>4 DEF Trim
    <2> QED  BY <1>2, <2>1, TextsAreBytes
  <1> QED  BY <1>3, <1>4

LEMMA TrimIsRight ==
    ASSUME NEW bytes \in Seq(Bytes), WellFormed(bytes)
    PROVE  LET result == Trim(bytes)
           IN /\ result # Throws
              /\ IsTrimmed(result)
              /\ \E m, n \in 0..Len(bytes) :
                   /\ result = Slice(bytes, m, n)
                   /\ \A p \in 1..Len(bytes) : p \notin (m + 1)..n => bytes[p] = "white"
  <1> DEFINE start == TrimStart(bytes)
             end == TrimEnd(bytes)
  <1>1. Len(bytes) \in Nat
    OBVIOUS
  <1>2. /\ start \in 0..Len(bytes)
        /\ \A q \in 0..(start - 1) : bytes[q + 1] = "white"
        /\ start < Len(bytes) => bytes[start + 1] # "white"
    BY TrimStartExists
  <1>3. /\ end \in 0..Len(bytes)
        /\ \A r \in end..(Len(bytes) - 1) : bytes[r + 1] = "white"
        /\ end > 0 => bytes[end] # "white"
    BY TrimEndEnds
  <1>4. Trim(bytes) = IF start = Len(bytes) THEN <<>>
                      ELSE IF ~Decodes(bytes, start) \/ end = Missing THEN Throws
                      ELSE Slice(bytes, start, end)
    BY DEF Trim
  <1> HIDE DEF start, end
  <1>5. CASE start = Len(bytes)
    <2>1. Trim(bytes) = <<>> /\ <<>> # Throws
      BY <1>4, <1>5 DEF Throws
    <2>2. Slice(bytes, start, start) = <<>>
      BY <1>1, <1>5 DEF Slice
    <2>3. \A p \in 1..Len(bytes) : bytes[p] = "white"
      <3> TAKE p \in 1..Len(bytes)
      <3>1. p - 1 \in 0..(start - 1) /\ (p - 1) + 1 = p
        BY <1>1, <1>5
      <3>2. bytes[(p - 1) + 1] = "white"
        BY <1>2, <3>1
      <3> QED  BY <3>1, <3>2
    <2> QED  BY <1>2, <2>1, <2>2, <2>3 DEF IsTrimmed
  <1>6. CASE start # Len(bytes)
    <2>1. start < Len(bytes) /\ bytes[start + 1] # "white"
      BY <1>1, <1>2, <1>6
    <2>2. bytes[start + 1] # "cont"
      <3>1. CASE start = 0
        BY <2>1, <3>1 DEF WellFormed
      <3>2. CASE start # 0
        <4>1. start - 1 \in 0..(Len(bytes) - 1) /\ (start - 1) + 1 = start /\ bytes[start] = "white"
          <5>1. start - 1 \in 0..(start - 1) /\ (start - 1) + 1 = start
            BY <1>2, <3>2
          <5>2. bytes[(start - 1) + 1] = "white"
            BY <1>2, <5>1
          <5> QED  BY <1>1, <1>2, <2>1, <5>1, <5>2
        <4>2. start - 1 \in Starts(bytes, 0, Len(bytes) - 1)
          BY <4>1 DEF Starts
        <4>3. DecodedLength(bytes[(start - 1) + 1]) = 1
          BY <4>1 DEF DecodedLength
        <4> QED  BY <1>2, <2>1, <4>1, <4>2, <4>3 DEF WellFormed
      <3> QED  BY <3>1, <3>2
    <2>3. Decodes(bytes, start)
      <3>1. start \in Starts(bytes, 0, Len(bytes) - 1)
        BY <1>1, <1>2, <2>1, <2>2 DEF Starts
      <3> QED  BY <2>2, <3>1 DEF WellFormed, Decodes
    <2>4. Trim(bytes) = Slice(bytes, start, end)
      BY <1>3, <1>4, <1>6, <2>3 DEF Missing
    <2>5. start < end
      <3> SUFFICES ASSUME end <= start PROVE FALSE
        BY <1>2, <1>3
      <3>1. start \in end..(Len(bytes) - 1)
        BY <1>1, <1>2, <1>3, <2>1
      <3> QED  BY <1>3, <2>1, <3>1
    <2>6. /\ Slice(bytes, start, end) \in Seq(Bytes)
          /\ Len(Slice(bytes, start, end)) = end - start
          /\ Slice(bytes, start, end)[1] = bytes[start + 1]
          /\ Slice(bytes, start, end)[end - start] = bytes[end]
      <3>1. start + 1 \in 1..Len(bytes) /\ end \in 1..Len(bytes) /\ end - start \in 1..(end - start)
            /\ 1 \in 1..(end - start)
        BY <1>1, <1>2, <1>3, <2>1, <2>5
      <3> QED  BY <1>1, <1>2, <1>3, <2>1, <2>5, <3>1 DEF Slice
    <2>7. Slice(bytes, start, end) # Throws
      <3>1. start + 1 \in 1..Len(bytes)
        BY <1>1, <1>2, <2>1
      <3>2. Slice(bytes, start, end)[1] \in Bytes
        BY <2>6, <3>1
      <3> QED  BY <3>2 DEF Throws, Bytes
    <2>8. IsTrimmed(Trim(bytes))
      <3> DEFINE s == Slice(bytes, start, end)
      <3>1. s[1] = bytes[start + 1] /\ s[Len(s)] = bytes[end]
        BY <2>6
      <3> HIDE DEF s
      <3>2. IsTrimmed(s)
        BY <1>2, <1>3, <2>1, <2>5, <3>1 DEF IsTrimmed
      <3> QED  BY <2>4, <3>2 DEF s
    <2>9. \A p \in 1..Len(bytes) : p \notin (start + 1)..end => bytes[p] = "white"
      <3> SUFFICES ASSUME NEW p \in 1..Len(bytes), p \notin (start + 1)..end PROVE bytes[p] = "white"
        OBVIOUS
      <3>1. (p - 1) + 1 = p /\ (p - 1 \in 0..(start - 1) \/ p - 1 \in end..(Len(bytes) - 1))
        BY <1>1, <1>2, <1>3
      <3> QED  BY <1>2, <1>3, <3>1
    <2> QED  BY <1>2, <1>3, <2>4, <2>7, <2>8, <2>9
  <1> QED  BY <1>5, <1>6

---------------------------------------------------------------------------
(* Characters are counted. *)

\* The characters that start before an offset.
CountTo(bytes, p) == Cardinality(Starts(bytes, 0, p - 1))

\* Offset p is the one of the character with index n, or the end of the string after
\* its last character.
IsPosition(bytes, n, p) ==
    /\ p \in 0..Len(bytes)
    /\ CountTo(bytes, p) = n
    /\ p < Len(bytes) => bytes[p + 1] # "cont"

LEMMA StartsAreFinite ==
    ASSUME NEW bytes, NEW from \in Int, NEW to \in Int
    PROVE  IsFiniteSet(Starts(bytes, from, to)) /\ Cardinality(Starts(bytes, from, to)) \in Nat
  <1>1. IsFiniteSet(from..to) /\ Starts(bytes, from, to) \in SUBSET (from..to)
    BY FS_Interval DEF Starts
  <1> QED  BY <1>1, FS_Subset, FS_CardinalityType

LEMMA CountBetween ==
    ASSUME NEW bytes, NEW p \in Nat, NEW q \in Nat, p <= q
    PROVE  CountTo(bytes, q) = CountTo(bytes, p) + Cardinality(Starts(bytes, p, q - 1))
  <1> DEFINE S == Starts(bytes, 0, p - 1)
             T == Starts(bytes, p, q - 1)
  <1>1. IsFiniteSet(S) /\ IsFiniteSet(T) /\ Cardinality(S) \in Nat /\ Cardinality(T) \in Nat
    BY StartsAreFinite
  <1>2. Starts(bytes, 0, q - 1) = S \cup T /\ S \cap T = {}
    BY DEF Starts
  <1>3. Cardinality(S \cap T) = 0
    BY <1>2, FS_EmptySet
  <1> HIDE DEF S, T
  <1>4. Cardinality(S \cup T) = Cardinality(S) + Cardinality(T) - Cardinality(S \cap T)
    BY <1>1, FS_Union
  <1>5. Cardinality(S \cup T) = Cardinality(S) + Cardinality(T)
    BY <1>1, <1>3, <1>4
  <1> QED  BY <1>2, <1>5 DEF CountTo, S, T

\* An offset counts one more than the one before it, where a character starts at that.
LEMMA CountNext ==
    ASSUME NEW bytes, NEW p \in Nat
    PROVE  /\ CountTo(bytes, p) \in Nat
           /\ bytes[p + 1] # "cont" => CountTo(bytes, p + 1) = CountTo(bytes, p) + 1
           /\ bytes[p + 1] = "cont" => CountTo(bytes, p + 1) = CountTo(bytes, p)
  <1>1. CountTo(bytes, p + 1) = CountTo(bytes, p) + Cardinality(Starts(bytes, p, p))
    <2>1. CountTo(bytes, p + 1) = CountTo(bytes, p) + Cardinality(Starts(bytes, p, (p + 1) - 1))
      BY CountBetween
    <2>2. (p + 1) - 1 = p
      OBVIOUS
    <2> QED  BY <2>1, <2>2
  <1>2. Starts(bytes, p, p) = IF bytes[p + 1] # "cont" THEN {p} ELSE {}
    BY DEF Starts
  <1>3. Cardinality({p}) = 1 /\ Cardinality({}) = 0
    BY FS_Singleton, FS_EmptySet
  <1>4. CountTo(bytes, p) \in Nat
    BY StartsAreFinite DEF CountTo
  <1> QED  BY <1>1, <1>2, <1>3, <1>4

LEMMA CountGrows ==
    ASSUME NEW bytes, NEW p \in Nat, NEW q \in Nat, p <= q
    PROVE  CountTo(bytes, p) <= CountTo(bytes, q)
  <1>1. CountTo(bytes, p) \in Nat /\ Cardinality(Starts(bytes, p, q - 1)) \in Nat
    BY CountNext, StartsAreFinite
  <1> QED  BY <1>1, CountBetween

LEMMA CountEnds ==
    ASSUME NEW bytes \in Seq(Bytes)
    PROVE  /\ CountTo(bytes, 0) = 0
           /\ CountTo(bytes, Len(bytes)) = CharLength(bytes)
           /\ CharLength(bytes) \in Nat
  <1>1. Starts(bytes, 0, 0 - 1) = {}
    BY DEF Starts
  <1>2. CountTo(bytes, 0) = 0
    BY <1>1, FS_EmptySet DEF CountTo
  <1> QED  BY <1>2, StartsAreFinite DEF CountTo, CharLength

LEMMA OnePosition ==
    ASSUME NEW bytes \in Seq(Bytes), NEW n, NEW p, NEW q,
           IsPosition(bytes, n, p), IsPosition(bytes, n, q)
    PROVE  p = q
  <1>1. ASSUME NEW x \in 0..Len(bytes), NEW y \in 0..Len(bytes), x < y,
               IsPosition(bytes, n, x), IsPosition(bytes, n, y)
        PROVE  FALSE
    <2>1. x \in Nat /\ y \in Nat /\ x + 1 \in Nat /\ x + 1 <= y /\ x < Len(bytes)
      BY <1>1
    <2>2. CountTo(bytes, x + 1) = CountTo(bytes, x) + 1 /\ CountTo(bytes, x) \in Nat
      BY <1>1, <2>1, CountNext DEF IsPosition
    <2>3. CountTo(bytes, x + 1) <= CountTo(bytes, y)
      BY <2>1, CountGrows
    <2> QED  BY <1>1, <2>2, <2>3 DEF IsPosition
  <1>2. p \in 0..Len(bytes) /\ q \in 0..Len(bytes)
    BY DEF IsPosition
  <1>3. ~(p < q) /\ ~(q < p)
    BY <1>1, <1>2
  <1> QED  BY <1>2, <1>3

LEMMA SomePosition ==
    ASSUME NEW bytes \in Seq(Bytes), NEW n \in 0..CharLength(bytes)
    PROVE  \E p \in 0..Len(bytes) : IsPosition(bytes, n, p)
  <1>1. Len(bytes) \in Nat /\ CharLength(bytes) \in Nat
    BY CountEnds
  <1>2. CASE n = CharLength(bytes)
    <2>1. IsPosition(bytes, n, Len(bytes)) /\ Len(bytes) \in 0..Len(bytes)
      BY <1>1, <1>2, CountEnds DEF IsPosition
    <2> QED  BY <2>1
  <1>3. CASE n # CharLength(bytes)
    <2> DEFINE S == {p \in Nat : p <= Len(bytes) /\ CountTo(bytes, p) > n}
    <2>1. Len(bytes) \in S
      BY <1>1, <1>3, CountEnds
    <2>2. PICK m \in S : \A p \in S : m <= p
      <3>1. S \subseteq Nat
        OBVIOUS
      <3> HIDE DEF S
      <3> QED  BY <2>1, <3>1, LeastNumber
    <2>3. m # 0
      BY <1>1, CountEnds
    <2>4. m - 1 \in Nat /\ m - 1 \notin S /\ (m - 1) + 1 = m
      BY <2>2, <2>3
    <2> DEFINE p == m - 1
    <2>5. p \in Nat /\ p + 1 = m /\ p < Len(bytes) /\ p \in 0..Len(bytes)
      BY <1>1, <2>4
    <2>6. CountTo(bytes, p) \in Nat /\ ~(CountTo(bytes, p) > n) /\ CountTo(bytes, p + 1) > n
      <3>1. CountTo(bytes, p) \in Nat
        BY <2>5, CountNext
      <3> QED  BY <2>4, <2>5, <3>1
    <2> HIDE DEF p
    <2>7. bytes[p + 1] # "cont" /\ CountTo(bytes, p) = n
      BY <1>1, <2>5, <2>6, CountNext
    <2> QED  BY <2>5, <2>7 DEF IsPosition
  <1> QED  BY <1>2, <1>3

\* In a string of ASCII letters every byte is a character.
LEMMA AsciiPosition ==
    ASSUME NEW bytes \in Seq(Bytes), IsAscii(bytes), NEW n \in 0..Len(bytes)
    PROVE  IsPosition(bytes, n, n)
  <1> DEFINE all == 0..(Len(bytes) - 1)
  <1>1. IsFiniteSet(all) /\ Cardinality(all) = Len(bytes)
    <2>1. Len(bytes) \in Nat
      OBVIOUS
    <2>2. 0 \in Int /\ Len(bytes) - 1 \in Int
      BY <2>1
    <2>3. IsFiniteSet(all) /\ Cardinality(all) = IF 0 > Len(bytes) - 1 THEN 0 ELSE (Len(bytes) - 1) - 0 + 1
      BY <2>2, FS_Interval
    <2> QED  BY <2>1, <2>3
  <1>2. Starts(bytes, 0, Len(bytes) - 1) \in SUBSET all
    BY DEF Starts
  <1>3. Starts(bytes, 0, Len(bytes) - 1) = all
    BY <1>1, <1>2, FS_Subset DEF IsAscii, CharLength
  <1>4. \A p \in all : bytes[p + 1] # "cont"
    BY <1>3 DEF Starts
  <1>5. Starts(bytes, 0, n - 1) = 0..(n - 1)
    BY <1>4 DEF Starts
  <1>6. CountTo(bytes, n) = n
    BY <1>5, FS_Interval DEF CountTo
  <1> QED  BY <1>4, <1>6 DEF IsPosition

---------------------------------------------------------------------------
(* Scanning comes to the position it looks for. *)

LEMMA ForwardsFinds ==
    ASSUME NEW bytes \in Seq(Bytes), NEW m \in Nat, NEW p, IsPosition(bytes, m, p),
           NEW k \in Nat, k = 0 \/ m + k < CharLength(bytes)
    PROVE  IsPosition(bytes, m + k, ScanForwards(bytes, p, k))
  <1>1. CASE k = 0
    BY <1>1 DEF ScanForwards
  <1>2. CASE k # 0
    <2> DEFINE hits == {q \in Starts(bytes, p + 1, Len(bytes) - 1) :
                          Cardinality(Starts(bytes, p + 1, q)) = k}
    <2>1. Len(bytes) \in Nat /\ CharLength(bytes) \in Nat /\ m + k < CharLength(bytes)
      BY <1>2, CountEnds
    <2>2. p \in Nat /\ CountTo(bytes, p) = m /\ p # Len(bytes) /\ p <= Len(bytes)
      BY <2>1, CountEnds DEF IsPosition
    <2>3. CountTo(bytes, p + 1) = m + 1
      BY <2>2, CountNext DEF IsPosition
    <2>4. ASSUME NEW q \in Starts(bytes, p + 1, Len(bytes) - 1)
          PROVE  /\ q \in Nat /\ q < Len(bytes) /\ bytes[q + 1] # "cont"
                 /\ CountTo(bytes, q) = m + Cardinality(Starts(bytes, p + 1, q))
      <3>1. q \in (p + 1)..(Len(bytes) - 1) /\ bytes[q + 1] # "cont"
        BY DEF Starts
      <3>2. q \in Nat /\ q < Len(bytes) /\ p + 1 <= q + 1 /\ (q + 1) - 1 = q
        BY <2>1, <2>2, <3>1
      <3>3. CountTo(bytes, q + 1) = CountTo(bytes, q) + 1 /\ CountTo(bytes, q) \in Nat
        BY <3>1, <3>2, CountNext
      <3>4. CountTo(bytes, q + 1) = CountTo(bytes, p + 1) + Cardinality(Starts(bytes, p + 1, q))
        <4>1. CountTo(bytes, q + 1) = CountTo(bytes, p + 1) + Cardinality(Starts(bytes, p + 1, (q + 1) - 1))
          BY <2>2, <3>2, CountBetween
        <4> QED  BY <3>2, <4>1
      <3>5. Cardinality(Starts(bytes, p + 1, q)) \in Nat
        BY <2>2, <3>2, StartsAreFinite
      <3> QED  BY <2>3, <3>1, <3>2, <3>3, <3>4, <3>5
    <2>5. PICK x \in 0..Len(bytes) : IsPosition(bytes, m + k, x)
      <3>1. m + k \in 0..CharLength(bytes)
        BY <2>1
      <3> QED  BY <3>1, SomePosition
    <2>6. x > p
      <3>1. x \in Nat /\ CountTo(bytes, x) = m + k
        BY <2>5 DEF IsPosition
      <3>2. x <= p => CountTo(bytes, x) <= m
        BY <2>2, <3>1, CountGrows
      <3> QED  BY <1>2, <2>2, <3>1, <3>2
    <2>7. x # Len(bytes)
      BY <2>1, <2>5, CountEnds DEF IsPosition
    <2>8. x \in Starts(bytes, p + 1, Len(bytes) - 1)
      BY <2>1, <2>2, <2>5, <2>6, <2>7 DEF IsPosition, Starts
    <2>9. x \in hits
      <3>1. CountTo(bytes, x) = m + Cardinality(Starts(bytes, p + 1, x)) /\ x \in Nat
        BY <2>4, <2>8
      <3>2. Cardinality(Starts(bytes, p + 1, x)) \in Nat
        BY <2>2, <3>1, StartsAreFinite
      <3>3. CountTo(bytes, x) = m + k
        BY <2>5 DEF IsPosition
      <3>4. Cardinality(Starts(bytes, p + 1, x)) = k
        BY <3>1, <3>2, <3>3
      <3> QED  BY <2>8, <3>4
    <2>10. \A q \in hits : IsPosition(bytes, m + k, q)
      BY <2>1, <2>4 DEF IsPosition
    <2>11. ScanForwards(bytes, p, k) \in hits
      <3>1. ScanForwards(bytes, p, k) = TheOnly(hits)
        BY <1>2 DEF ScanForwards
      <3> HIDE DEF hits
      <3> QED  BY <2>9, <3>1 DEF TheOnly
    <2> QED  BY <2>10, <2>11
  <1> QED  BY <1>1, <1>2

LEMMA BackwardsFinds ==
    ASSUME NEW bytes \in Seq(Bytes), NEW m \in Nat, NEW p, IsPosition(bytes, m, p),
           NEW k \in 0..m
    PROVE  IsPosition(bytes, m - k, ScanBackwards(bytes, p, k))
  <1>1. CASE k = 0
    BY <1>1 DEF ScanBackwards
  <1>2. CASE k # 0
    <2> DEFINE hits == {q \in Starts(bytes, 0, p - 1) : Cardinality(Starts(bytes, q, p - 1)) = k}
    <2>1. Len(bytes) \in Nat /\ CharLength(bytes) \in Nat
      BY CountEnds
    <2>2. p \in Nat /\ CountTo(bytes, p) = m /\ p <= Len(bytes)
      BY <2>1 DEF IsPosition
    <2>3. m <= CharLength(bytes)
      BY <2>1, <2>2, CountGrows, CountEnds
    <2>4. ASSUME NEW q \in Starts(bytes, 0, p - 1)
          PROVE  /\ q \in Nat /\ q < Len(bytes) /\ q < p /\ bytes[q + 1] # "cont"
                 /\ m = CountTo(bytes, q) + Cardinality(Starts(bytes, q, p - 1))
                 /\ CountTo(bytes, q) \in Nat /\ Cardinality(Starts(bytes, q, p - 1)) \in Nat
      <3>1. q \in 0..(p - 1) /\ bytes[q + 1] # "cont"
        BY DEF Starts
      <3>2. q \in Nat /\ q < Len(bytes) /\ q < p
        BY <2>1, <2>2, <3>1
      <3>3. CountTo(bytes, p) = CountTo(bytes, q) + Cardinality(Starts(bytes, q, p - 1))
        BY <2>2, <3>2, CountBetween
      <3>4. CountTo(bytes, q) \in Nat /\ Cardinality(Starts(bytes, q, p - 1)) \in Nat
        BY <2>2, <3>2, CountNext, StartsAreFinite
      <3> QED  BY <2>2, <3>1, <3>2, <3>3, <3>4
    <2>5. PICK x \in 0..Len(bytes) : IsPosition(bytes, m - k, x)
      <3>1. m - k \in 0..CharLength(bytes)
        BY <2>1, <2>3
      <3> QED  BY <3>1, SomePosition
    <2>6. x < p
      <3>1. x \in Nat /\ CountTo(bytes, x) = m - k
        BY <2>5 DEF IsPosition
      <3>2. p <= x => m <= CountTo(bytes, x)
        BY <2>2, <3>1, CountGrows
      <3> QED  BY <1>2, <2>2, <3>1, <3>2
    <2>7. x \in Starts(bytes, 0, p - 1)
      BY <2>1, <2>2, <2>5, <2>6 DEF IsPosition, Starts
    <2>8. x \in hits
      <3>1. CountTo(bytes, x) = m - k
        BY <2>5 DEF IsPosition
      <3>2. Cardinality(Starts(bytes, x, p - 1)) = k
        BY <2>4, <2>7, <3>1
      <3> QED  BY <2>7, <3>2
    <2>9. \A q \in hits : IsPosition(bytes, m - k, q)
      <3> TAKE q \in hits
      <3>1. q \in Starts(bytes, 0, p - 1) /\ Cardinality(Starts(bytes, q, p - 1)) = k
        OBVIOUS
      <3>2. CountTo(bytes, q) = m - k
        BY <2>4, <3>1
      <3> QED  BY <2>1, <2>4, <3>1, <3>2 DEF IsPosition
    <2>10. ScanBackwards(bytes, p, k) \in hits
      <3>1. ScanBackwards(bytes, p, k) = TheOnly(hits)
        BY <1>2 DEF ScanBackwards
      <3> HIDE DEF hits
      <3> QED  BY <2>8, <3>1 DEF TheOnly
    <2> QED  BY <2>9, <2>10
  <1> QED  BY <1>1, <1>2

\* No character is cut at the start.
Begins(bytes) == bytes # <<>> => bytes[1] # "cont"

LEMMA OffsetIsPosition ==
    ASSUME NEW bytes \in Seq(Bytes), Begins(bytes), NEW n \in 0..CharLength(bytes), NEW entry,
           entry.known => entry.cidx \in Nat /\ IsPosition(bytes, entry.cidx, entry.bidx)
    PROVE  IsPosition(bytes, n, ByteOffset(bytes, n, entry))
  <1>1. Len(bytes) \in Nat /\ CharLength(bytes) \in Nat
    BY CountEnds
  <1>2. IsPosition(bytes, 0, 0) /\ IsPosition(bytes, CharLength(bytes), Len(bytes))
    BY <1>1, CountEnds DEF IsPosition, Begins
  <1>3. CASE IsNearest(bytes, n, entry) /\ n >= entry.cidx
    <2>1. /\ entry.cidx \in Nat /\ IsPosition(bytes, entry.cidx, entry.bidx)
          /\ n - entry.cidx <= CharLength(bytes) - n
      BY <1>1, <1>3 DEF IsNearest, Distance
    <2> DEFINE k == n - entry.cidx
    <2>2. k \in Nat /\ (k = 0 \/ entry.cidx + k < CharLength(bytes)) /\ entry.cidx + k = n
      BY <1>1, <1>3, <2>1
    <2>3. IsPosition(bytes, entry.cidx + k, ScanForwards(bytes, entry.bidx, k))
      <3> HIDE DEF k
      <3> QED  BY <2>1, <2>2, ForwardsFinds
    <2> QED  BY <1>3, <2>2, <2>3 DEF ByteOffset
  <1>4. CASE IsNearest(bytes, n, entry) /\ ~(n >= entry.cidx)
    <2>1. entry.cidx \in Nat /\ IsPosition(bytes, entry.cidx, entry.bidx)
      BY <1>4 DEF IsNearest
    <2> DEFINE k == entry.cidx - n
    <2>2. k \in 0..entry.cidx /\ entry.cidx - k = n
      BY <1>1, <1>4, <2>1
    <2>3. IsPosition(bytes, entry.cidx - k, ScanBackwards(bytes, entry.bidx, k))
      <3> HIDE DEF k
      <3> QED  BY <2>1, <2>2, BackwardsFinds
    <2> QED  BY <1>4, <2>2, <2>3 DEF ByteOffset
  <1>5. CASE ~IsNearest(bytes, n, entry) /\ n <= CharLength(bytes) - n
    <2>1. n \in Nat /\ (n = 0 \/ 0 + n < CharLength(bytes)) /\ 0 + n = n
      BY <1>1, <1>5
    <2>2. IsPosition(bytes, 0 + n, ScanForwards(bytes, 0, n))
      BY <1>2, <2>1, ForwardsFinds
    <2> QED  BY <1>5, <2>1, <2>2 DEF ByteOffset
  <1>6. CASE ~IsNearest(bytes, n, entry) /\ ~(n <= CharLength(bytes) - n)
    <2> DEFINE k == CharLength(bytes) - n
    <2>1. k \in 0..CharLength(bytes) /\ CharLength(bytes) - k = n
      BY <1>1
    <2>2. IsPosition(bytes, CharLength(bytes) - k, ScanBackwards(bytes, Len(bytes), k))
      <3> HIDE DEF k
      <3> QED  BY <1>1, <1>2, <2>1, BackwardsFinds
    <2> QED  BY <1>6, <2>1, <2>2 DEF ByteOffset
  <1> QED  BY <1>3, <1>4, <1>5, <1>6

\* What is cut from the start of one character to that of the next is the character.
LEMMA SliceIsCharacter ==
    ASSUME NEW bytes \in Seq(Bytes), NEW n \in Nat, n < CharLength(bytes), NEW p, NEW q,
           IsPosition(bytes, n, p), IsPosition(bytes, n + 1, q)
    PROVE  Slice(bytes, p, q) = Character(bytes, n)
  <1> DEFINE start(m) == CHOOSE x \in Starts(bytes, 0, Len(bytes) - 1) :
                            Cardinality(Starts(bytes, 0, x)) = m + 1
  <1>1. Len(bytes) \in Nat /\ CharLength(bytes) \in Nat
    BY CountEnds
  <1>2. ASSUME NEW m \in Nat, m < CharLength(bytes), NEW x, IsPosition(bytes, m, x)
        PROVE  start(m) = x
    <2>1. \A y \in Starts(bytes, 0, Len(bytes) - 1) :
             Cardinality(Starts(bytes, 0, y)) = m + 1 <=> IsPosition(bytes, m, y)
      <3> TAKE y \in Starts(bytes, 0, Len(bytes) - 1)
      <3>1. y \in Nat /\ y < Len(bytes) /\ y \in 0..Len(bytes) /\ bytes[y + 1] # "cont" /\ (y + 1) - 1 = y
        BY <1>1 DEF Starts
      <3>2. CountTo(bytes, y + 1) = CountTo(bytes, y) + 1 /\ CountTo(bytes, y) \in Nat
        BY <3>1, CountNext
      <3>3. Cardinality(Starts(bytes, 0, y)) = CountTo(bytes, y + 1)
        BY <3>1 DEF CountTo
      <3> QED  BY <3>1, <3>2, <3>3 DEF IsPosition
    <2>2. x # Len(bytes)
      BY <1>1, <1>2, CountEnds DEF IsPosition
    <2>3. x \in Starts(bytes, 0, Len(bytes) - 1)
      BY <1>1, <1>2, <2>2 DEF IsPosition, Starts
    <2>4. start(m) \in Starts(bytes, 0, Len(bytes) - 1) /\ Cardinality(Starts(bytes, 0, start(m))) = m + 1
      BY <1>2, <2>1, <2>3
    <2> QED  BY <1>2, <2>1, <2>4, OnePosition
  <1>3. start(n) = p
    BY <1>2
  <1>4. q = IF n + 1 = CharLength(bytes) THEN Len(bytes) ELSE start(n + 1)
    <2>1. CASE n + 1 = CharLength(bytes)
      <3>1. IsPosition(bytes, n + 1, Len(bytes))
        BY <1>1, <2>1, CountEnds DEF IsPosition
      <3> QED  BY <2>1, <3>1, OnePosition
    <2>2. CASE n + 1 # CharLength(bytes)
      <3>1. n + 1 \in Nat /\ n + 1 < CharLength(bytes)
        BY <1>1, <2>2
      <3> QED  BY <1>2, <2>2, <3>1
    <2> QED  BY <2>1, <2>2
  <1> QED  BY <1>3, <1>4 DEF Character

---------------------------------------------------------------------------
(* Positions. *)

CacheIs(c) ==
    /\ c \in [1..CacheSize -> Positions]
    /\ \A e \in 1..CacheSize : c[e].h \in Addresses =>
          c[e].h \in Live /\ c[e].at.bidx <= Len(text[c[e].h])
    /\ \A e, f \in 1..CacheSize : c[e].h = c[f].h => e = f \/ c[e].h = Null

LEMMA CacheIsCache ==
    /\ CacheOK /\ CachedOnce => CacheIs(cache)
    /\ CacheIs(cache) => CacheOK /\ CachedOnce
  BY DEF CacheIs, CacheOK, CachedOnce, Positions

\* Scanning ends in the string, or nowhere.
LEMMA OffsetInText ==
    ASSUME NEW bytes \in Seq(Bytes), NEW n, NEW entry,
           entry.known => entry.bidx \in 0..Len(bytes)
    PROVE  ByteOffset(bytes, n, entry) \in 0..Len(bytes) \cup {Missing}
  <1>1. Len(bytes) \in Nat
    OBVIOUS
  <1>2. ASSUME NEW p \in 0..Len(bytes), NEW m
        PROVE  ScanForwards(bytes, p, m) \in 0..Len(bytes) \cup {Missing}
    <2> DEFINE hits == {q \in Starts(bytes, p + 1, Len(bytes) - 1) :
                          Cardinality(Starts(bytes, p + 1, q)) = m}
    <2>1. hits \subseteq 0..Len(bytes)
      BY <1>1 DEF Starts
    <2>2. TheOnly(hits) \in 0..Len(bytes) \cup {Missing}
      <3> HIDE DEF hits
      <3> QED  BY <2>1 DEF TheOnly
    <2> QED  BY <2>2 DEF ScanForwards
  <1>3. ASSUME NEW p \in 0..Len(bytes), NEW m
        PROVE  ScanBackwards(bytes, p, m) \in 0..Len(bytes) \cup {Missing}
    <2> DEFINE hits == {q \in Starts(bytes, 0, p - 1) :
                          Cardinality(Starts(bytes, q, p - 1)) = m}
    <2>1. hits \subseteq 0..Len(bytes)
      BY <1>1 DEF Starts
    <2>2. TheOnly(hits) \in 0..Len(bytes) \cup {Missing}
      <3> HIDE DEF hits
      <3> QED  BY <2>1 DEF TheOnly
    <2> QED  BY <2>2 DEF ScanBackwards
  <1>4. 0 \in 0..Len(bytes) /\ Len(bytes) \in 0..Len(bytes)
    BY <1>1
  <1> QED  BY <1>2, <1>3, <1>4 DEF ByteOffset, IsNearest

LEMMA LocatedInText ==
    ASSUME HeapOK, NEW c, CacheIs(c), NEW a \in Live, NEW n \in Nat,
           IsAscii(text[a]) => n <= Len(text[a])
    PROVE  /\ Located(c, a, n).offset \in 0..Len(text[a]) \cup {Missing}
           /\ CacheIs(Located(c, a, n).cache)
  <1> DEFINE offset == IF IsAscii(text[a]) THEN n ELSE ByteOffset(text[a], n, Remembered(c, a))
  <1>1. a \in Addresses /\ a # Null /\ text[a] \in Texts /\ text[a] \in Seq(Bytes) /\ Len(text[a]) \in Nat
    BY TextOfLive, TextsAreBytes, MarksAreNoStrings
  <1>2. Place(c, a) \in 1..CacheSize /\ (EntriesOf(c, a) # {} => c[Place(c, a)].h = a)
    <2>1. EntriesOf(c, a) \subseteq 1..CacheSize
      BY DEF EntriesOf, CacheIs
    <2>2. CASE EntriesOf(c, a) = {}
      BY <2>2, CacheHasRoom DEF Place
    <2>3. CASE EntriesOf(c, a) # {}
      <3>1. Place(c, a) \in EntriesOf(c, a)
        BY <2>3 DEF Place
      <3> QED  BY <2>1, <3>1 DEF EntriesOf
    <2> QED  BY <2>2, <2>3
  <1>3. Remembered(c, a).known => Remembered(c, a).bidx \in 0..Len(text[a])
    <2>1. CASE UsesCache(a) /\ EntriesOf(c, a) # {}
      <3>1. Remembered(c, a) = c[Place(c, a)].at
        BY <2>1 DEF Remembered
      <3>2. c[Place(c, a)] \in Positions /\ c[Place(c, a)].h = a
        BY <1>2, <2>1 DEF CacheIs
      <3>3. c[Place(c, a)].at.bidx \in Nat /\ c[Place(c, a)].at.bidx <= Len(text[a])
        BY <1>1, <1>2, <3>2 DEF CacheIs, Positions
      <3> QED  BY <1>1, <3>1, <3>3
    <2>2. CASE ~(UsesCache(a) /\ EntriesOf(c, a) # {})
      BY <2>2 DEF Remembered, NoEntry
    <2> QED  BY <2>1, <2>2
  <1>4. offset \in 0..Len(text[a]) \cup {Missing}
    BY <1>1, <1>3, OffsetInText
  <1>5. ASSUME offset # Missing PROVE CacheIs(InFront(c, a, n, offset))
    <2> DEFINE d == InFront(c, a, n, offset)
               place == Place(c, a)
    <2>1. offset \in Nat /\ offset <= Len(text[a])
      BY <1>1, <1>4, <1>5
    <2> HIDE DEF offset
    <2>2. [h |-> a, at |-> Known(n, offset)] \in Positions
      BY <1>1, <2>1 DEF Positions, Known
    <2>3. /\ DOMAIN d = 1..CacheSize
          /\ \A e \in 1..CacheSize :
               d[e] = IF e = 1 THEN [h |-> a, at |-> Known(n, offset)]
                      ELSE IF e <= place THEN c[e - 1] ELSE c[e]
      BY DEF InFront, CacheIs
    <2>4. d = [e \in 1..CacheSize |-> d[e]]
      BY <2>3 DEF InFront, CacheIs
    <2>5. \A e \in 1..CacheSize : e # 1 => e - 1 \in 1..CacheSize
      BY CacheHasRoom
    <2> DEFINE from(e) == IF e <= place THEN e - 1 ELSE e
    <2>6. \A e \in 1..CacheSize : e # 1 => from(e) \in 1..CacheSize /\ d[e] = c[from(e)] /\ from(e) # place
      BY <1>2, <2>3, <2>5
    <2>7. \A e, f \in 1..CacheSize : e # 1 /\ f # 1 /\ from(e) = from(f) => e = f
      BY <1>2
    <2>8. d[1] = [h |-> a, at |-> Known(n, offset)] /\ 1 \in 1..CacheSize
      BY <2>3, CacheHasRoom
    <2> HIDE DEF d, from
    <2>9. d \in [1..CacheSize -> Positions]
      BY <2>2, <2>4, <2>6, <2>8 DEF CacheIs
    <2>10. \A e \in 1..CacheSize : d[e].h \in Addresses =>
              d[e].h \in Live /\ d[e].at.bidx <= Len(text[d[e].h])
      BY <2>1, <2>6, <2>8 DEF CacheIs, Known
    <2>11. \A e \in 1..CacheSize : e # 1 => d[e].h # a
      <3> SUFFICES ASSUME NEW e \in 1..CacheSize, e # 1, d[e].h = a PROVE FALSE
        OBVIOUS
      <3>1. c[from(e)].h = a
        BY <2>6
      <3>2. EntriesOf(c, a) # {}
        BY <2>6, <3>1 DEF EntriesOf, CacheIs
      <3>3. c[place].h = a
        BY <1>2, <3>2
      <3> QED  BY <1>1, <1>2, <2>6, <3>1, <3>3 DEF CacheIs
    <2>12. \A e, f \in 1..CacheSize : d[e].h = d[f].h => e = f \/ d[e].h = Null
      <3> SUFFICES ASSUME NEW e \in 1..CacheSize, NEW f \in 1..CacheSize, d[e].h = d[f].h, e # f
                   PROVE  d[e].h = Null
        OBVIOUS
      <3>1. e # 1 /\ f # 1
        BY <2>8, <2>11
      <3>2. c[from(e)].h = c[from(f)].h /\ from(e) # from(f)
        BY <2>6, <2>7, <3>1
      <3> QED  BY <2>6, <3>1, <3>2 DEF CacheIs
    <2> QED  BY <2>9, <2>10, <2>12 DEF CacheIs, d
  <1>6. /\ Located(c, a, n).offset = offset
        /\ Located(c, a, n).cache =
             IF ~UsesCache(a) \/ offset = Missing THEN c ELSE InFront(c, a, n, offset)
    BY DEF Located
  <1> HIDE DEF offset
  <1> QED  BY <1>4, <1>5, <1>6

\* A character that is cut out is a text, and the cache stays what it is.
LEMMA CharIsText ==
    ASSUME HeapOK, CacheIs(cache), NEW a \in Live, NEW n \in 0..(CharLength(text[a]) - 1)
    PROVE  /\ CacheIs(Begin(a, n).cache) /\ CacheIs(End(a, n).cache)
           /\ Missing \notin {Begin(a, n).offset, End(a, n).offset} => CharAt(a, n) \in Texts
  <1>1. text[a] \in Texts /\ text[a] \in Seq(Bytes)
    BY TextOfLive, TextsAreBytes
  <1>2. n \in Nat /\ n + 1 \in Nat
    OBVIOUS
  <1>3. IsAscii(text[a]) => n <= Len(text[a]) /\ n + 1 <= Len(text[a])
    BY <1>1 DEF IsAscii
  <1>4. Begin(a, n).offset \in 0..Len(text[a]) \cup {Missing} /\ CacheIs(Begin(a, n).cache)
    BY <1>2, <1>3, LocatedInText DEF Begin
  <1>5. End(a, n).offset \in 0..Len(text[a]) \cup {Missing} /\ CacheIs(End(a, n).cache)
    BY <1>2, <1>3, <1>4, LocatedInText DEF End
  <1> QED  BY <1>1, <1>4, <1>5, TextsAreBytes DEF CharAt

---------------------------------------------------------------------------
(* Every step keeps the invariant and is one of the pool. *)

Step == Inv' /\ [Pool!Next]_(Pool!vars)

LEMMA InvTablesOK == Inv => TablesOK
  BY DEF Inv, TablesOK

LEMMA InternsKeepsInv ==
    ASSUME Inv, pc = "idle", NEW t \in Texts, Interns(t), CacheIs(cache'),
           UNCHANGED <<text, tableVars, collecting, i, newTable, newUsed>>
    PROVE  Step
  <1> USE DEF Inv
  <1>1. /\ text' = text /\ table' = table /\ size' = size /\ collecting' = collecting
        /\ newTable' = newTable
        /\ Live' = Live /\ Occupied(table)' = Occupied(table)
    BY DEF tableVars, Live, Occupied
  <1>2. CacheOK' /\ CachedOnce'
    BY <1>1 DEF CacheOK, CachedOnce, CacheIs, Positions
  <1>3. TableOK' /\ OneCopy' /\ Placed'
    BY <1>1 DEF TableOK, OneCopy, Placed, IsPlaced
  <1>4. back = <<>> /\ collecting = FALSE /\ wanted = Null
    BY DEF ControlOK
  <1>5. CASE Matches(t) # {}
    <2>1. PICK a \in Live : text[a] = t /\ {table[Slot(t, k, size)] : k \in Matches(t)} = {a}
      BY <1>5, MatchIsTheString
    <2>2. /\ held' = held \cup {a}
          /\ pc' = pc /\ back' = back /\ wanted' = wanted /\ newSize' = newSize
      BY <1>5, <2>1 DEF Interns
    <2>3. HeapOK' /\ ControlOK' /\ NewTableOK' /\ WantedIsNew'
      BY <1>1, <1>4, <2>1, <2>2, MarksAreNoStrings DEF HeapOK, ControlOK, NewTableOK, WantedIsNew
    <2>4. Pool!Use(t, a)
      BY <1>1, <2>1, <2>2 DEF Pool!Use, Pool!Known, Live
    <2>5. Pool!Next
      BY <2>1, <2>4 DEF Pool!Next, Live
    <2> QED  BY <1>2, <1>3, <2>3, <2>5 DEF Step
  <1>6. CASE Matches(t) = {}
    <2>1. held' = held /\ wanted' = t
      BY <1>6 DEF Interns
    <2>2. \A a \in Live : text[a] # t
      BY <1>6, StringIsMatched
    <2>3. HeapOK' /\ WantedIsNew'
      BY <1>1, <2>1, <2>2 DEF HeapOK, WantedIsNew
    <2>4. ControlOK' /\ pc' # "rehash"
      <3>1. CASE NeedsResize
        <4>1. StartsGrow(table, <<"string">>)
          BY <1>6, <3>1 DEF Interns
        <4>2. newSize' \in Sizes
          BY <4>1, NewSizeExists DEF StartsGrow, Placed, TableOK, Occupied
        <4> QED  BY <1>1, <1>4, <2>1, <4>1, <4>2 DEF StartsGrow, ControlOK
      <3>2. CASE ~NeedsResize
        BY <1>1, <1>4, <1>6, <2>1, <3>2 DEF Interns, ControlOK
      <3> QED  BY <3>1, <3>2
    <2>5. NewTableOK'
      BY <2>4 DEF NewTableOK
    <2>6. UNCHANGED Pool!vars
      BY <1>1, <2>1 DEF Pool!vars
    <2> QED  BY <1>2, <1>3, <2>3, <2>4, <2>5, <2>6 DEF Step
  <1> QED  BY <1>5, <1>6

LEMMA PushesKeepInv ==
    ASSUME Inv, PushString \/ PushChar \/ PushTrimmed PROVE Step
  <1>1. CacheIs(cache)
    BY CacheIsCache DEF Inv
  <1>2. HeapOK /\ held \subseteq Live
    BY DEF Inv, HeapOK
  <1>3. CASE PushString
    <2>1. /\ pc = "idle"
          /\ UNCHANGED <<text, tableVars, cache, collecting, i, newTable, newUsed>>
      BY <1>3 DEF PushString
    <2>2. PICK t \in Texts : Interns(t)
      BY <1>3, TextsAreBytes DEF PushString
    <2>3. CacheIs(cache')
      BY <1>1, <2>1
    <2> QED  BY <2>1, <2>2, <2>3, InternsKeepsInv
  <1>4. CASE PushTrimmed
    <2>1. /\ pc = "idle"
          /\ UNCHANGED <<text, tableVars, cache, collecting, i, newTable, newUsed>>
      BY <1>4 DEF PushTrimmed
    <2>2. PICK a \in held : Trim(text[a]) # Throws /\ Interns(Trim(text[a]))
      BY <1>4 DEF PushTrimmed
    <2>3. text[a] \in Texts
      BY <1>2, TextOfLive
    <2>4. Trim(text[a]) \in Texts
      BY <2>2, <2>3, TrimCutsText
    <2>5. CacheIs(cache')
      BY <1>1, <2>1
    <2> QED  BY <2>1, <2>2, <2>4, <2>5, InternsKeepsInv
  <1>5. CASE PushChar
    <2>1. /\ pc = "idle"
          /\ UNCHANGED <<text, tableVars, collecting, i, newTable, newUsed>>
      BY <1>5 DEF PushChar
    <2> DEFINE cuts(a, n) ==
                 /\ cache' = IF Begin(a, n).offset = Missing THEN cache ELSE End(a, n).cache
                 /\ IF Missing \in {Begin(a, n).offset, End(a, n).offset}
                    THEN UNCHANGED <<held, pc, back, wanted, newSize>>
                    ELSE Interns(CharAt(a, n))
    <2>2a. PICK a \in held : \E n \in 0..(CharLength(text[a]) - 1) : cuts(a, n)
      BY <1>5 DEF PushChar
    <2>2. PICK n \in 0..(CharLength(text[a]) - 1) : cuts(a, n)
      BY <2>2a
    <2>3. a \in Live
      BY <1>2
    <2>4. /\ CacheIs(End(a, n).cache)
          /\ Missing \notin {Begin(a, n).offset, End(a, n).offset} => CharAt(a, n) \in Texts
      BY <1>1, <1>2, <2>3, CharIsText
    <2>5. CacheIs(cache')
      BY <1>1, <2>2, <2>4
    <2>6. CASE Missing \notin {Begin(a, n).offset, End(a, n).offset}
      BY <2>1, <2>2, <2>4, <2>5, <2>6, InternsKeepsInv
    <2>7. CASE Missing \in {Begin(a, n).offset, End(a, n).offset}
      <3>1. UNCHANGED <<heapVars, table, size, pc, back, collecting, wanted, i, newTable, newSize>>
        BY <2>1, <2>2, <2>7 DEF tableVars, heapVars
      <3>2. CacheOK' /\ CachedOnce'
        BY <2>5, <3>1 DEF CacheOK, CachedOnce, CacheIs, Positions, heapVars, Live
      <3>3. Inv'
        BY <3>1, <3>2 DEF Inv, HeapOK, TableOK, ControlOK, NewTableOK, WantedIsNew, Placed, OneCopy,
                          IsPlaced, Occupied, Live, heapVars
      <3> QED  BY <3>1, <3>3 DEF Step, Pool!vars, heapVars
    <2> QED  BY <2>6, <2>7
  <1> QED  BY <1>3, <1>4, <1>5

LEMMA EndsKeepInv ==
    ASSUME Inv, NEW a \in Addresses, RefZero(a) \/ BecomesGarbage(a) PROVE Step
  <1>1. pc = "idle" /\ a \in held /\ held' = held \ {a}
        /\ UNCHANGED <<pc, back, collecting, wanted, newSize>>
    BY DEF RefZero, BecomesGarbage, growVars
  <1>2. held \subseteq Live
    BY DEF Inv, HeapOK
  <1>3. ControlOK' /\ NewTableOK'
    BY <1>1 DEF Inv, ControlOK, NewTableOK
  <1>4. /\ TablesOK'
        /\ \/ text' = [b \in Addresses |-> IF b \in {a} THEN Null ELSE text[b]]
           \/ text' = [b \in Addresses |-> IF b \in {} THEN Null ELSE text[b]]
    <2>1. CASE RefZero(a)
      <3>1. Frees({a})
        BY <2>1 DEF RefZero
      <3>2. TablesOK'
        BY <1>1, <1>2, <3>1, InvTablesOK, FreesKeepsTables
      <3> QED  BY <3>1, <3>2 DEF Frees
    <2>2. CASE BecomesGarbage(a)
      <3>1. UNCHANGED <<text, table, size, cache>>
        BY <2>2 DEF BecomesGarbage, tableVars
      <3>2. TablesOK'
        BY <1>1, <3>1 DEF Inv, TablesOK, HeapOK, TableOK, CacheOK, CachedOnce, WantedIsNew, Placed,
                          OneCopy, IsPlaced, Occupied, Live
      <3>3. text' = [b \in Addresses |-> IF b \in {} THEN Null ELSE text[b]]
        BY <3>1 DEF Inv, HeapOK
      <3> QED  BY <3>2, <3>3
    <2> QED  BY <2>1, <2>2
  <1>5. Pool!Leave(held \ {a}, {a}) \/ Pool!Leave(held \ {a}, {})
    BY <1>1, <1>4 DEF Pool!Leave
  <1>6. Pool!Next
    BY <1>4, <1>5 DEF Pool!Next
  <1> QED  BY <1>3, <1>4, <1>6 DEF Step, Inv, TablesOK

LEMMA CollectKeepsInv == ASSUME Inv, Collect PROVE Step
  <1>1. /\ Frees(Unmarked) /\ held' = held /\ wanted' = wanted
        /\ pc \in {"idle", "grow", "string"} /\ collecting = FALSE
    BY DEF Collect, Inv, ControlOK
  <1>2. Unmarked \in SUBSET Live /\ held \ Unmarked = held
    BY DEF Unmarked
  <1>3. TablesOK'
    BY <1>1, <1>2, InvTablesOK, FreesKeepsTables
  <1>4. ControlOK' /\ NewTableOK'
    <2>1. CASE pc = "grow"
      <3>1. UNCHANGED <<pc, back, collecting, newSize>>
        BY <2>1 DEF Collect
      <3> QED  BY <1>1, <2>1, <3>1 DEF Inv, ControlOK, NewTableOK
    <2>2. CASE pc # "grow"
      <3>1. StartsGrow(table', <<pc>> \o back) /\ collecting' = TRUE
        BY <2>2 DEF Collect
      <3>2. newSize' = HashPrime(HashPrime(2 * Cardinality(Occupied(table'))))
        BY <3>1 DEF StartsGrow
      <3>3. size' = size /\ DOMAIN table' = 0..(size - 1)
        BY <1>1 DEF Frees, Inv, TableOK
      <3>4. \A r, s \in Occupied(table') : table'[r] = table'[s] => r = s
        BY <1>3 DEF TablesOK, Placed, Occupied
      <3>5. newSize' \in Sizes
        BY <3>2, <3>3, <3>4, NewSizeExists DEF Inv
      <3>6. back = <<>> /\ <<pc>> \o back = <<pc>>
        <4>1. back = <<>>
          BY <1>1, <2>2 DEF Inv, ControlOK
        <4>2. <<pc>> \o <<>> = <<pc>>
          OBVIOUS
        <4> QED  BY <4>1, <4>2
      <3>7. pc' = "grow" /\ back' = <<pc>>
        BY <3>1, <3>6 DEF StartsGrow
      <3> QED  BY <1>1, <2>2, <3>1, <3>5, <3>7 DEF Inv, ControlOK, NewTableOK
    <2> QED  BY <2>1, <2>2
  <1>5. Pool!Leave(held, Unmarked)
    BY <1>1, <1>2 DEF Pool!Leave, Frees
  <1>6. Pool!Next
    BY <1>2, <1>5 DEF Pool!Next, Live
  <1> QED  BY <1>3, <1>4, <1>6 DEF Step, Inv, TablesOK

\* What a step that leaves the heap and the table alone has to show.
LEMMA SameTables ==
    ASSUME Inv, UNCHANGED <<text, held, table, size, cache>>, wanted' \in {wanted, Null}
    PROVE  /\ HeapOK' /\ TableOK' /\ CacheOK' /\ CachedOnce' /\ WantedIsNew' /\ Placed' /\ OneCopy'
           /\ UNCHANGED Pool!vars
  BY DEF Inv, HeapOK, TableOK, CacheOK, CachedOnce, WantedIsNew, Placed, OneCopy, IsPlaced, Occupied,
         Live, Pool!vars

LEMMA AllocationsKeepInv == ASSUME Inv, AllocTable \/ NoTable \/ NoString PROVE Step
  <1>1. UNCHANGED <<text, held, table, size, cache>> /\ wanted' \in {wanted, Null}
    BY DEF AllocTable, NoTable, NoString, heapVars, tableVars
  <1>2. CASE AllocTable
    <2>1. /\ pc = "grow" /\ pc' = "rehash" /\ i' = 0
          /\ newTable' = [s \in 0..(newSize - 1) |-> Null]
          /\ UNCHANGED <<back, collecting, wanted, newSize>>
      BY <1>2 DEF AllocTable
    <2>2. ControlOK'
      BY <2>1 DEF Inv, ControlOK
    <2>3. Occupied(newTable)' = {}
      BY <2>1, MarksAreNoStrings DEF Occupied
    <2>4. \A r \in Occupied(table)' : ~(r < i')
      BY <1>1, <2>1 DEF Inv, TableOK, Occupied
    <2>5. newTable' \in [0..(newSize' - 1) -> Addresses \cup {Null}]
      BY <2>1
    <2>6. NewTableOK'
      <3>1. i' \in Nat
        BY <2>1
      <3>2. \A s \in Occupied(newTable)' : FALSE
        BY <2>3
      <3> QED  BY <2>4, <2>5, <3>1, <3>2 DEF NewTableOK
    <2> QED  BY <1>1, <2>2, <2>6, SameTables DEF Step, Inv
  <1>3. CASE NoTable
    <2>1. pc = "grow" /\ ControlOK
      BY <1>3 DEF Inv, NoTable
    <2>2. ControlOK' /\ pc' # "rehash"
      <3>1. CASE collecting
        <4>1. /\ pc' = Head(back) /\ back' = Tail(back) /\ collecting' = FALSE
              /\ UNCHANGED wanted
          BY <1>3, <3>1 DEF NoTable, GoesBack
        <4> QED  BY <2>1, <4>1 DEF ControlOK
      <3>2. CASE ~collecting
        <4>1. pc' = "idle" /\ back' = <<>> /\ wanted' = Null /\ UNCHANGED collecting
          BY <1>3, <3>2 DEF NoTable
        <4> QED  BY <2>1, <3>2, <4>1 DEF ControlOK
      <3> QED  BY <3>1, <3>2
    <2> QED  BY <1>1, <2>2, SameTables DEF Step, Inv, NewTableOK
  <1>4. CASE NoString
    <2>1. ControlOK' /\ pc' # "rehash"
      BY <1>4 DEF Inv, ControlOK, NoString
    <2> QED  BY <1>1, <2>1, SameTables DEF Step, Inv, NewTableOK
  <1> QED  BY <1>2, <1>3, <1>4

LEMMA FinishRehashKeepsInv == ASSUME Inv, FinishRehash PROVE Step
  <1>1. /\ pc = "rehash" /\ Remaining = {}
        /\ table' = newTable /\ size' = newSize
        /\ pc' = Head(back) /\ back' = Tail(back) /\ collecting' = FALSE
        /\ UNCHANGED <<text, held, cache, wanted>>
    BY DEF FinishRehash, GoesBack, heapVars
  <1>2. Live' = Live /\ Occupied(table)' = Occupied(newTable)
    BY <1>1 DEF Live, Occupied
  <1>3. ControlOK' /\ pc' # "rehash"
    BY <1>1 DEF Inv, ControlOK
  <1>4. TableOK'
    BY <1>1 DEF Inv, ControlOK, NewTableOK, TableOK, TableSizes
  <1>5. HeapOK' /\ CacheOK' /\ CachedOnce' /\ WantedIsNew' /\ OneCopy' /\ UNCHANGED Pool!vars
    BY <1>1, <1>2 DEF Inv, HeapOK, CacheOK, CachedOnce, WantedIsNew, OneCopy, Pool!vars
  <1>6. \A r \in Occupied(table) : r < i
    BY <1>1 DEF Remaining, Inv, NewTableOK, TableOK, Occupied
  <1>7. Placed'
    <2>1. ASSUME NEW a \in Live PROVE IsPlaced(newTable, newSize, a)
      <3>1. PICK k \in 0..(size - 1) : table[Slot(text[a], k, size)] = a
        BY DEF Inv, Placed, IsPlaced
      <3>2. Slot(text[a], k, size) \in Occupied(table)
        <4>1. Slot(text[a], k, size) \in DOMAIN table
          BY TextOfLive, SlotInTable DEF Inv, TableOK
        <4> QED  BY <3>1, <4>1 DEF Occupied, Live
      <3> QED  BY <1>1, <1>6, <3>1, <3>2 DEF Inv, NewTableOK
    <2>2. \A a \in Live : IsPlaced(table, size, a)'
      BY <1>1, <2>1 DEF IsPlaced
    <2>3. ASSUME NEW s \in Occupied(newTable)
          PROVE  newTable[s] \in Live /\ \A r \in DOMAIN newTable : newTable[r] = newTable[s] => r = s
      <3>1. newTable[s] \in Live
        BY <1>1 DEF Inv, NewTableOK, Placed
      <3> QED  BY <1>1, <3>1 DEF Inv, NewTableOK, Occupied
    <2> QED  BY <1>1, <1>2, <2>2, <2>3 DEF Placed
  <1> QED  BY <1>3, <1>4, <1>5, <1>7 DEF Step, Inv, NewTableOK

LEMMA RehashKeepsInv == ASSUME Inv, Rehash PROVE Step
  <1> USE DEF Inv
  <1>1. /\ pc = "rehash" /\ newSize \in Sizes
        /\ UNCHANGED <<text, held, table, size, cache, pc, back, collecting, wanted, newSize>>
    BY DEF Rehash, ControlOK, heapVars, tableVars
  <1>2. /\ HeapOK' /\ TableOK' /\ CacheOK' /\ CachedOnce' /\ WantedIsNew' /\ Placed' /\ OneCopy'
        /\ UNCHANGED Pool!vars
    BY <1>1, SameTables
  <1>3. ControlOK'
    BY <1>1 DEF ControlOK
  <1> DEFINE puts(s, k) ==
               /\ \A r \in Remaining : s <= r
               /\ i' = s + 1
               /\ TakesSlot(newTable, newSize, text[table[s]], k)
               /\ newTable' = [newTable EXCEPT ![Slot(text[table[s]], k, newSize)] = table[s]]
  <1>4. PICK s \in Remaining : \E k \in 0..(newSize - 1) : puts(s, k)
    BY DEF Rehash
  <1>5. PICK k \in 0..(newSize - 1) : puts(s, k)
    BY <1>4
  <1> DEFINE a == table[s]
             slot == Slot(text[a], k, newSize)
  <1>6. s \in Occupied(table) /\ s >= i /\ s \in Nat /\ i \in Nat
    BY <1>1 DEF Remaining, Occupied, TableOK, NewTableOK
  <1>7. a \in Live /\ a \in Addresses /\ text[a] \in Texts
    BY <1>6, TextOfLive DEF Placed
  <1>8. newTable \in [0..(newSize - 1) -> Addresses \cup {Null}]
    BY <1>1 DEF NewTableOK
  <1>9. newTable \in [0..(newSize - 1) -> Addresses \cup {Null, Deleted}] /\ newSize \in TableSizes
    BY <1>1, <1>8 DEF TableSizes
  <1>10. /\ slot \in 0..(newSize - 1)
         /\ newTable[slot] \in {Null, Deleted}
         /\ Reaches(newTable', newSize, text[a], a)
         /\ \A u \in Texts : \A b \in Addresses :
               Reaches(newTable, newSize, u, b) => Reaches(newTable', newSize, u, b)
    <2>1. TakesSlot(newTable, newSize, text[a], k)
      BY <1>5
    <2>2. newTable' = Inserted(newTable, newSize, text[a], k, a)
      BY <1>5 DEF Inserted
    <2> DEFINE after == newTable'
    <2>3. after = Inserted(newTable, newSize, text[a], k, a)
      BY <2>2
    <2> HIDE DEF a, after, Inv
    <2>4. slot \in 0..(newSize - 1)
      BY <1>7, <1>9, <2>1, <2>3, InsertionPlaces
    <2>5. newTable[slot] \in {Null, Deleted}
      BY <1>7, <1>9, <2>1, <2>3, InsertionPlaces
    <2>6. Reaches(after, newSize, text[a], a)
      BY <1>7, <1>9, <2>1, <2>3, InsertionPlaces
    <2>7. \A u \in Texts : \A b \in Addresses :
             Reaches(newTable, newSize, u, b) => Reaches(after, newSize, u, b)
      BY <1>7, <1>9, <2>1, <2>3, InsertionPlaces
    <2> QED  BY <2>4, <2>5, <2>6, <2>7 DEF after
  <1>11. \A r \in 0..(newSize - 1) : newTable'[r] = IF r = slot THEN a ELSE newTable[r]
    BY <1>5, <1>8, <1>10
  <1>12. DOMAIN newTable' = 0..(newSize - 1) /\ DOMAIN newTable = 0..(newSize - 1)
    BY <1>5, <1>8
  <1>13. newTable' \in [0..(newSize - 1) -> Addresses \cup {Null}]
    BY <1>5, <1>7, <1>8
  <1> HIDE DEF slot
  <1>14. \A r \in Occupied(table) : r < i' => r < i \/ r = s
    <2>1. \A r \in Occupied(table) : r \in Nat /\ (r < i \/ r \in Remaining)
      BY <1>6 DEF Remaining, Occupied, TableOK
    <2> QED  BY <1>5, <1>6, <2>1
  <1>15. \A r \in Occupied(newTable)' : r = slot \/ (r # slot /\ r \in Occupied(newTable))
    BY <1>11, <1>12 DEF Occupied
  <1>16. \A r \in Occupied(newTable) : newTable[r] # a
    BY <1>1, <1>6 DEF NewTableOK, Placed, Occupied
  <1>17. \A q \in Occupied(newTable)' : \E r \in Occupied(table) : r < i' /\ table[r] = newTable'[q]
    <2> TAKE q \in Occupied(newTable)'
    <2>1. CASE q = slot
      <3>1. s < i' /\ table[s] = newTable'[q]
        BY <1>5, <1>6, <1>10, <1>11, <2>1
      <3> QED  BY <1>6, <3>1
    <2>2. CASE q # slot
      <3>1. q \in Occupied(newTable) /\ newTable'[q] = newTable[q]
        BY <1>11, <1>12, <1>15, <2>2 DEF Occupied
      <3>2. PICK r \in Occupied(table) : r < i /\ table[r] = newTable[q]
        BY <1>1, <3>1 DEF NewTableOK
      <3>3. r < i'
        BY <1>5, <1>6, <3>2 DEF Occupied, TableOK
      <3> QED  BY <3>1, <3>2, <3>3
    <2> QED  BY <2>1, <2>2
  <1>18. \A r \in Occupied(table) : r < i' => Reaches(newTable', newSize, text[table[r]], table[r])
    <2> SUFFICES ASSUME NEW r \in Occupied(table), r < i'
                 PROVE  Reaches(newTable', newSize, text[table[r]], table[r])
      OBVIOUS
    <2>1. CASE r = s
      BY <1>10, <2>1
    <2>2. CASE r < i
      <3>1. table[r] \in Live /\ table[r] \in Addresses /\ text[table[r]] \in Texts
        BY TextOfLive DEF Placed
      <3>2. Reaches(newTable, newSize, text[table[r]], table[r])
        BY <1>1, <2>2, PlacedIsReached DEF NewTableOK
      <3> QED  BY <1>10, <3>1, <3>2
    <2> QED  BY <1>14, <2>1, <2>2
  <1>19. \A r, q \in Occupied(newTable)' : newTable'[r] = newTable'[q] => q = r
    <2>1. \A r \in Occupied(newTable)' : r # slot => newTable'[r] = newTable[r]
      BY <1>11, <1>12, <1>15 DEF Occupied
    <2>2. newTable'[slot] = a
      BY <1>10, <1>11
    <2> QED  BY <1>1, <1>15, <1>16, <2>1, <2>2 DEF NewTableOK
  <1>20. \A r \in Occupied(table) : r < i' => IsPlaced(newTable, newSize, table[r])'
    BY <1>1, <1>18 DEF IsPlaced, Reaches
  <1>21. Occupied(table)' = Occupied(table) /\ i' \in Nat
    BY <1>1, <1>5, <1>6 DEF Occupied
  <1>22. NewTableOK'
    BY <1>1, <1>13, <1>17, <1>19, <1>20, <1>21 DEF NewTableOK
  <1> QED  BY <1>2, <1>3, <1>22 DEF Step

LEMMA AllocStringKeepsInv == ASSUME Inv, AllocString PROVE Step
  <1> USE DEF Inv
  <1> USE MarksAreNoStrings
  <1> DEFINE puts(a, k) ==
               /\ TakesSlot(table, size, wanted, k)
               /\ text' = [text EXCEPT ![a] = wanted]
               /\ held' = held \cup {a}
               /\ table' = [table EXCEPT ![Slot(wanted, k, size)] = a]
  <1>1. /\ pc = "string" /\ pc' = "idle" /\ wanted' = Null
        /\ back = <<>> /\ collecting = FALSE /\ wanted \in Texts
        /\ UNCHANGED <<size, cache, back, collecting>>
    BY DEF AllocString, ControlOK
  <1>2. PICK a \in Addresses \ Live : \E k \in 0..(size - 1) : puts(a, k)
    BY DEF AllocString
  <1>3. PICK k \in 0..(size - 1) : puts(a, k)
    BY <1>2
  <1> DEFINE slot == Slot(wanted, k, size)
  <1>4. ControlOK' /\ NewTableOK' /\ WantedIsNew'
    BY <1>1 DEF ControlOK, NewTableOK, WantedIsNew
  <1>5. text[a] = Null /\ a \in Addresses
    BY DEF Live
  <1>6. \A b \in Addresses : text'[b] = IF b = a THEN wanted ELSE text[b]
    BY <1>3 DEF HeapOK
  <1>7. Live' = Live \cup {a} /\ \A b \in Live : b # a /\ text'[b] = text[b]
    BY <1>1, <1>5, <1>6 DEF Live
  <1>8. HeapOK'
    BY <1>1, <1>3, <1>7 DEF HeapOK
  <1>9. /\ slot \in 0..(size - 1)
        /\ table[slot] \in {Null, Deleted}
        /\ Reaches(table', size, wanted, a)
        /\ \A u \in Texts : \A b \in Addresses :
              Reaches(table, size, u, b) => Reaches(table', size, u, b)
    <2>1. TakesSlot(table, size, wanted, k)
      BY <1>3
    <2>2. table' = Inserted(table, size, wanted, k, a)
      BY <1>3 DEF Inserted
    <2>3. size \in TableSizes /\ table \in [0..(size - 1) -> Addresses \cup {Null, Deleted}]
      BY DEF TableOK
    <2> HIDE DEF Inv
    <2> DEFINE after == table'
    <2>4. after = Inserted(table, size, wanted, k, a)
      BY <2>2
    <2> HIDE DEF after
    <2> USE <1>1, <1>5, <2>1, <2>3, <2>4, InsertionPlaces
    <2>5. slot \in 0..(size - 1)
      OBVIOUS
    <2>6. table[slot] \in {Null, Deleted}
      OBVIOUS
    <2>7. Reaches(after, size, wanted, a)
      OBVIOUS
    <2>8. \A u \in Texts : \A b \in Addresses :
             Reaches(table, size, u, b) => Reaches(after, size, u, b)
      OBVIOUS
    <2> QED  BY <2>5, <2>6, <2>7, <2>8 DEF after
  <1>10. \A r \in 0..(size - 1) : table'[r] = IF r = slot THEN a ELSE table[r]
    BY <1>3, <1>9 DEF TableOK
  <1>11. TableOK'
    BY <1>1, <1>3 DEF TableOK
  <1> HIDE DEF slot
  <1>12. CacheOK' /\ CachedOnce'
    BY <1>1, <1>7 DEF CacheOK, CachedOnce
  <1>13. OneCopy'
    <2>1. \A b \in Live : text[b] # wanted
      BY <1>1 DEF WantedIsNew
    <2>2. text'[a] = wanted
      BY <1>6
    <2> QED  BY <1>7, <2>1, <2>2 DEF OneCopy
  <1>14. Placed'
    <2>1. ASSUME NEW b \in Live' PROVE IsPlaced(table, size, b)'
      <3>1. Reaches(table', size, text'[b], b)
        <4>1. CASE b = a
          BY <1>6, <1>9, <4>1
        <4>2. CASE b # a
          <5>1. b \in Live /\ b \in Addresses /\ text[b] \in Texts /\ text'[b] = text[b]
            BY <1>7, <4>2, TextOfLive
          <5>2. Reaches(table, size, text[b], b)
            BY <5>1, PlacedIsReached DEF Placed
          <5> QED  BY <1>9, <5>1, <5>2
        <4> QED  BY <4>1, <4>2
      <3> QED  BY <1>1, <3>1 DEF IsPlaced, Reaches
    <2>2. DOMAIN table' = 0..(size - 1) /\ DOMAIN table = 0..(size - 1)
      BY <1>3 DEF TableOK
    <2>3. \A r \in Occupied(table) : table[r] \in Live /\ table[r] # a
      BY <1>7 DEF Placed
    <2>4. \A r \in Occupied(table)' :
             \/ r = slot /\ table'[r] = a
             \/ r # slot /\ r \in Occupied(table) /\ table'[r] = table[r]
      BY <1>9, <1>10, <2>2 DEF Occupied
    <2>5. \A r \in DOMAIN table' : table'[r] \in Addresses => r \in Occupied(table)'
      BY DEF Occupied
    <2>6. ASSUME NEW s \in Occupied(table)'
          PROVE  table'[s] \in Live' /\ \A r \in DOMAIN table' : table'[r] = table'[s] => r = s
      <3>1. table'[s] \in Live' /\ table'[s] \in Addresses
        BY <1>5, <1>7, <2>3, <2>4 DEF Live
      <3>2. \A r \in Occupied(table)' : table'[r] = table'[s] => r = s
        BY <2>2, <2>3, <2>4 DEF Placed, Occupied
      <3> QED  BY <2>5, <3>1, <3>2
    <2> QED  BY <2>1, <2>6 DEF Placed
  <1>15. Pool!Use(wanted, a)
    <2>1. ~Pool!Known(wanted)
      BY <1>1 DEF Pool!Known, WantedIsNew, Live
    <2> QED  BY <1>3, <1>5, <2>1 DEF Pool!Use
  <1>16. Pool!Next
    BY <1>1, <1>15 DEF Pool!Next
  <1> QED  BY <1>4, <1>8, <1>11, <1>12, <1>13, <1>14, <1>16 DEF Step

---------------------------------------------------------------------------
(* From the start on. *)

LEMMA InitInv == Init => Inv /\ Pool!Init
  <1> SUFFICES ASSUME Init PROVE Inv /\ Pool!Init
    OBVIOUS
  <1> USE MarksAreNoStrings
  <1>1. /\ text = [a \in Addresses |-> Null] /\ held = {}
        /\ table = [s \in 0..(InitialSize - 1) |-> Null] /\ size = InitialSize
        /\ cache = [e \in 1..CacheSize |-> NoPosition]
        /\ pc = "idle" /\ back = <<>> /\ collecting = FALSE /\ wanted = Null
    BY DEF Init
  <1>2. Live = {} /\ Occupied(table) = {}
    BY <1>1 DEF Live, Occupied
  <1>3. NoPosition \in Positions /\ NoPosition.h = Null
    BY DEF NoPosition, NoEntry, Positions
  <1>4. HeapOK /\ TableOK /\ ControlOK /\ NewTableOK /\ WantedIsNew
    BY <1>1, <1>2 DEF HeapOK, TableOK, TableSizes, ControlOK, NewTableOK, WantedIsNew
  <1>5. CacheOK /\ CachedOnce
    BY <1>1, <1>3 DEF CacheOK, CachedOnce
  <1>6. Placed /\ OneCopy
    BY <1>2 DEF Placed, OneCopy
  <1> QED  BY <1>1, <1>4, <1>5, <1>6 DEF Inv, Pool!Init

LEMMA NextKeepsInv == Inv /\ [Next]_vars => Step
  <1> SUFFICES ASSUME Inv, [Next]_vars PROVE Step
    OBVIOUS
  <1>1. CASE Next
    BY <1>1, PushesKeepInv, EndsKeepInv, CollectKeepsInv, AllocationsKeepInv, RehashKeepsInv,
       FinishRehashKeepsInv, AllocStringKeepsInv DEF Next
  <1>2. CASE UNCHANGED vars
    <2>1. UNCHANGED <<text, held, table, size, cache, pc, back, collecting, wanted, i, newTable, newSize>>
      BY <1>2 DEF vars, heapVars, tableVars, growVars
    <2>2. ControlOK' /\ NewTableOK'
      BY <2>1 DEF Inv, ControlOK, NewTableOK, Occupied, IsPlaced
    <2> QED  BY <2>1, <2>2, SameTables DEF Step, Inv
  <1> QED  BY <1>1, <1>2

THEOREM InvAlways == Spec => []Inv
  <1>1. Inv /\ [Next]_vars => Inv'
    BY NextKeepsInv DEF Step
  <1> QED  BY <1>1, InitInv, PTL DEF Spec

\* No text ever has two strings, so the engine may compare strings by their address
\* (duktape.c:44748-44764).
THEOREM OneCopyAlways == Spec => []OneCopy
  BY InvAlways, PTL DEF Inv

\* Probing comes to every string, and no slot has the address of one that is freed
\* (duktape.c:44313-44437).
THEOREM PlacedAlways == Spec => []Placed
  BY InvAlways, PTL DEF Inv

\* No string is in the cache twice, nor one that is freed (duktape.c:43566-43569).
THEOREM CachedOnceAlways == Spec => []CachedOnce
  BY InvAlways, PTL DEF Inv

\* The table implements the pool: a text gets the address it has, and a string that can
\* be reached keeps its address and its text.
THEOREM TableKeepsPool == Spec => KeepsPool
  <1>1. Inv /\ [Next]_vars => [Pool!Next]_(Pool!vars)
    BY NextKeepsInv DEF Step
  <1> QED  BY <1>1, InitInv, InvAlways, PTL DEF Spec, KeepsPool, Pool!Spec

---------------------------------------------------------------------------
(* The count of used slots. *)

Filled(entries) == {s \in DOMAIN entries : entries[s] # Null}

\* A lookup that wants to insert a string has been told that there is room for one
\* more; the table of a collection that fails leaves the old one as it was.
CountsOK ==
    /\ used = Cardinality(Filled(table)) /\ used < size
    /\ pc = "string" \/ (pc \in {"grow", "rehash"} /\ back = <<"string">> /\ collecting) => used + 1 < size
    /\ pc \in {"grow", "rehash"} => Cardinality(Occupied(table)) + 1 < newSize
    /\ pc = "rehash" => newUsed = Cardinality(Filled(newTable))

LEMMA EntriesAreFinite ==
    ASSUME NEW n \in Nat, NEW entries, DOMAIN entries = 0..(n - 1)
    PROVE  /\ IsFiniteSet(Filled(entries)) /\ Cardinality(Filled(entries)) \in Nat
           /\ IsFiniteSet(Occupied(entries)) /\ Cardinality(Occupied(entries)) \in Nat
  <1>1. IsFiniteSet(0..(n - 1))
    BY FS_Interval
  <1> QED  BY <1>1, FS_Subset, FS_CardinalityType DEF Filled, Occupied

LEMMA InsertionCounts ==
    ASSUME NEW n \in Nat, NEW entries, DOMAIN entries = 0..(n - 1),
           NEW slot \in 0..(n - 1), NEW a, a # Null,
           NEW after, after = [entries EXCEPT ![slot] = a]
    PROVE  Cardinality(Filled(after)) = Counted(entries, slot, Cardinality(Filled(entries)))
  <1>1. IsFiniteSet(Filled(entries))
    BY EntriesAreFinite
  <1>2. Filled(after) = Filled(entries) \cup {slot}
    BY DEF Filled
  <1>3. slot \in Filled(entries) <=> entries[slot] # Null
    BY DEF Filled
  <1> QED  BY <1>1, <1>2, <1>3, FS_AddElement DEF Counted

LEMMA FreesKeepsCounts ==
    ASSUME Inv, NEW freed \in SUBSET Live, Frees(freed)
    PROVE  /\ Filled(table') = Filled(table)
           /\ Cardinality(Occupied(table')) <= Cardinality(Occupied(table))
           /\ size' = size /\ used' = used
  <1>1. /\ table' = [s \in DOMAIN table |-> IF table[s] \in freed THEN Deleted ELSE table[s]]
        /\ size' = size /\ used' = used
    BY DEF Frees
  <1>2. freed \subseteq Addresses
    BY DEF Live
  <1>3. Filled(table') = Filled(table)
    BY <1>1, <1>2, MarksAreNoStrings DEF Filled
  <1>4. Occupied(table') \subseteq Occupied(table)
    BY <1>1, MarksAreNoStrings DEF Occupied
  <1>5. IsFiniteSet(Occupied(table))
    BY EntriesAreFinite, SizesAreNumbers DEF Inv, TableOK
  <1> QED  BY <1>1, <1>3, <1>4, <1>5, FS_Subset

\* A lookup either finds the text or makes sure of the room.
LEMMA InternsKeepsCounts ==
    ASSUME Inv, CountsOK, pc = "idle", NEW t \in Texts, Interns(t),
           UNCHANGED <<tableVars, collecting>>
    PROVE  CountsOK'
  <1>1. size \in Nat /\ size > 2 /\ used \in Nat
    BY SizesAreNumbers, EntriesAreFinite DEF Inv, TableOK, CountsOK
  <1>2. /\ table' = table /\ size' = size /\ used' = used /\ collecting' = collecting
        /\ collecting = FALSE /\ Occupied(table)' = Occupied(table)
    BY DEF tableVars, Inv, ControlOK, Occupied
  <1>3. CASE Matches(t) # {}
    <2>1. pc' = "idle"
      BY <1>3 DEF Interns
    <2> QED  BY <1>2, <2>1 DEF CountsOK
  <1>4. CASE Matches(t) = {} /\ NeedsResize
    <2>1. StartsGrow(table, <<"string">>)
      BY <1>4 DEF Interns
    <2>2. pc' = "grow" /\ Cardinality(Occupied(table)) + 1 < newSize'
      BY <2>1, NewSizeExists DEF StartsGrow, Inv, Placed, TableOK, Occupied
    <2> QED  BY <1>2, <2>2 DEF CountsOK
  <1>5. CASE Matches(t) = {} /\ ~NeedsResize
    <2>1. pc' = "string"
      BY <1>5 DEF Interns
    <2>2. used + 1 < size
      BY <1>1, <1>5 DEF NeedsResize
    <2> QED  BY <1>2, <2>1, <2>2 DEF CountsOK
  <1> QED  BY <1>3, <1>4, <1>5

LEMMA PushesKeepCounts ==
    ASSUME Inv, CountsOK, PushString \/ PushChar \/ PushTrimmed PROVE CountsOK'
  <1>1. pc = "idle" /\ UNCHANGED <<tableVars, collecting>>
    BY DEF PushString, PushChar, PushTrimmed
  <1>2. HeapOK /\ held \subseteq Live /\ CacheIs(cache)
    BY CacheIsCache DEF Inv, HeapOK
  <1>3. (\E t \in Texts : Interns(t)) \/ UNCHANGED <<pc, back, newSize>>
    <2>1. CASE PushString
      BY <2>1, TextsAreBytes DEF PushString
    <2>2. CASE PushTrimmed
      <3>1. PICK a \in held : Trim(text[a]) # Throws /\ Interns(Trim(text[a]))
        BY <2>2 DEF PushTrimmed
      <3>2. Trim(text[a]) \in Texts
        BY <1>2, <3>1, TextOfLive, TrimCutsText
      <3> QED  BY <3>1, <3>2
    <2>3. CASE PushChar
      <3> DEFINE cuts(a, n) == IF Missing \in {Begin(a, n).offset, End(a, n).offset}
                               THEN UNCHANGED <<held, pc, back, wanted, newSize>>
                               ELSE Interns(CharAt(a, n))
      <3>1. PICK a \in held : \E n \in 0..(CharLength(text[a]) - 1) : cuts(a, n)
        BY <2>3 DEF PushChar
      <3>2. PICK n \in 0..(CharLength(text[a]) - 1) : cuts(a, n)
        BY <3>1
      <3>3. Missing \notin {Begin(a, n).offset, End(a, n).offset} => CharAt(a, n) \in Texts
        BY <1>2, CharIsText
      <3> QED  BY <3>2, <3>3
    <2> QED  BY <2>1, <2>2, <2>3
  <1>4. CASE UNCHANGED <<pc, back, newSize>>
    BY <1>1, <1>4 DEF CountsOK, tableVars
  <1> QED  BY <1>1, <1>3, <1>4, InternsKeepsCounts

LEMMA FreeingKeepsCounts ==
    ASSUME Inv, CountsOK, Collect \/ \E a \in Addresses : RefZero(a) \/ BecomesGarbage(a)
    PROVE  CountsOK'
  <1>1. size \in Nat /\ size > 2 /\ DOMAIN table = 0..(size - 1)
    BY SizesAreNumbers DEF Inv, TableOK
  <1>2. Cardinality(Occupied(table)) \in Nat /\ used \in Nat
    BY <1>1, EntriesAreFinite DEF CountsOK
  <1>3. CASE Collect
    <2>1. /\ Frees(Unmarked) /\ Unmarked \in SUBSET Live
          /\ pc \in {"idle", "grow", "string"} /\ collecting = FALSE
          /\ UNCHANGED <<wanted, held>>
      BY <1>3 DEF Collect, Unmarked, Inv, ControlOK
    <2>2. /\ Filled(table') = Filled(table) /\ size' = size /\ used' = used
          /\ Cardinality(Occupied(table')) <= Cardinality(Occupied(table))
      BY <2>1, FreesKeepsCounts
    <2>3. DOMAIN table' = 0..(size - 1)
      BY <1>1, <2>1 DEF Frees
    <2>4. Cardinality(Occupied(table')) \in Nat
      BY <1>1, <2>3, EntriesAreFinite
    <2>5. CASE pc = "grow"
      <3>1. UNCHANGED <<pc, back, collecting, newSize>>
        BY <1>3, <2>5 DEF Collect
      <3>2. newSize \in Nat
        BY <2>5, SizesSuffice DEF Inv, ControlOK
      <3>3. Cardinality(Occupied(table')) + 1 < newSize'
        BY <1>2, <2>2, <2>4, <2>5, <3>1, <3>2 DEF CountsOK
      <3> QED  BY <2>1, <2>2, <2>5, <3>1, <3>3 DEF CountsOK
    <2>6. CASE pc # "grow"
      <3>1. StartsGrow(table', <<pc>> \o back) /\ back = <<>>
        BY <1>3, <2>1, <2>6 DEF Collect, Inv, ControlOK
      <3>2. <<pc>> \o <<>> = <<pc>>
        OBVIOUS
      <3>3. pc' = "grow" /\ back' = <<pc>>
        BY <3>1, <3>2 DEF StartsGrow
      <3>4. \A r, s \in Occupied(table') : table'[r] = table'[s] => r = s
        <4>1. Placed'
          BY <2>1, InvTablesOK, FreesKeepsTables DEF TablesOK, Unmarked
        <4> QED  BY <4>1 DEF Placed, Occupied
      <3>5. Cardinality(Occupied(table')) + 1 < newSize'
        BY <2>3, <3>1, <3>4, NewSizeExists DEF StartsGrow, Inv
      <3>6. pc = "string" => used + 1 < size
        BY DEF CountsOK
      <3>7. back' = <<"string">> => pc = "string"
        BY <3>3
      <3> QED  BY <2>2, <3>3, <3>5, <3>6, <3>7 DEF CountsOK
    <2> QED  BY <2>5, <2>6
  <1>4. CASE \E a \in Addresses : RefZero(a) \/ BecomesGarbage(a)
    <2>1. PICK a \in Addresses : RefZero(a) \/ BecomesGarbage(a)
      BY <1>4
    <2>2. pc' = "idle" /\ a \in Live
      BY <2>1 DEF RefZero, BecomesGarbage, Inv, HeapOK
    <2>3. Filled(table') = Filled(table) /\ size' = size /\ used' = used
      <3>1. CASE RefZero(a)
        <4>1. Frees({a})
          BY <3>1 DEF RefZero
        <4> QED  BY <2>2, <4>1, FreesKeepsCounts
      <3>2. CASE BecomesGarbage(a)
        BY <3>2 DEF BecomesGarbage, tableVars
      <3> QED  BY <2>1, <3>1, <3>2
    <2> QED  BY <2>2, <2>3 DEF CountsOK
  <1> QED  BY <1>3, <1>4

LEMMA AllocationsKeepCounts ==
    ASSUME Inv, CountsOK, AllocTable \/ NoTable \/ NoString PROVE CountsOK'
  <1>1. UNCHANGED <<table, size, used>> /\ Occupied(table)' = Occupied(table)
    BY DEF AllocTable, NoTable, NoString, tableVars, Occupied
  <1>2. CASE AllocTable
    <2>1. /\ pc = "grow" /\ pc' = "rehash"
          /\ newTable' = [s \in 0..(newSize - 1) |-> Null] /\ newUsed' = 0
          /\ UNCHANGED <<back, collecting, newSize>>
      BY <1>2 DEF AllocTable
    <2>2. Filled(newTable') = {}
      BY <2>1 DEF Filled
    <2>3. newUsed' = Cardinality(Filled(newTable'))
      BY <2>1, <2>2, FS_EmptySet
    <2> QED  BY <1>1, <2>1, <2>3 DEF CountsOK
  <1>3. CASE NoTable
    <2>1. CASE collecting
      <3>1. pc = "grow" /\ pc' = Head(back) /\ back \in {<<"idle">>, <<"string">>}
        BY <1>3, <2>1 DEF NoTable, GoesBack, Inv, ControlOK
      <3>2. pc' = "idle" \/ (pc' = "string" /\ back = <<"string">>)
        BY <3>1
      <3> QED  BY <1>1, <2>1, <3>1, <3>2 DEF CountsOK
    <2>2. CASE ~collecting
      <3>1. pc' = "idle"
        BY <1>3, <2>2 DEF NoTable
      <3> QED  BY <1>1, <3>1 DEF CountsOK
    <2> QED  BY <2>1, <2>2
  <1>4. CASE NoString
    <2>1. pc' = "idle"
      BY <1>4 DEF NoString
    <2> QED  BY <1>1, <2>1 DEF CountsOK
  <1> QED  BY <1>2, <1>3, <1>4

LEMMA RehashKeepsCounts == ASSUME Inv, CountsOK, Rehash PROVE CountsOK'
  <1>1. /\ pc = "rehash" /\ newSize \in Sizes /\ newSize \in Nat
        /\ UNCHANGED <<table, size, used, pc, back, collecting, newSize>>
    BY SizesSuffice DEF Rehash, Inv, ControlOK, tableVars
  <1> DEFINE slot(s, k) == Slot(text[table[s]], k, newSize)
             puts(s, k) == /\ newTable' = [newTable EXCEPT ![slot(s, k)] = table[s]]
                           /\ newUsed' = Counted(newTable, slot(s, k), newUsed)
  <1>2. PICK s \in Remaining : \E k \in 0..(newSize - 1) : puts(s, k)
    BY DEF Rehash
  <1>3. PICK k \in 0..(newSize - 1) : puts(s, k)
    BY <1>2
  <1>4. table[s] \in Live /\ table[s] # Null
    BY MarksAreNoStrings DEF Remaining, Inv, Placed, Occupied
  <1>5. slot(s, k) \in 0..(newSize - 1)
    BY <1>1, <1>4, TextOfLive, SlotInTable DEF Inv, TableSizes
  <1>6. newTable \in [0..(newSize - 1) -> Addresses \cup {Null}]
    BY <1>1 DEF Inv, NewTableOK
  <1> DEFINE at == slot(s, k)
             a == table[s]
             after == newTable'
  <1>7. DOMAIN newTable = 0..(newSize - 1) /\ after = [newTable EXCEPT ![at] = a]
    BY <1>3, <1>6
  <1>8. newUsed' = Counted(newTable, at, newUsed) /\ a # Null /\ at \in 0..(newSize - 1)
    BY <1>3, <1>4, <1>5
  <1>9. newUsed = Cardinality(Filled(newTable))
    BY <1>1 DEF CountsOK
  <1>10. newUsed' = Cardinality(Filled(after))
    <2> HIDE DEF at, a, after
    <2>1. Cardinality(Filled(after)) = Counted(newTable, at, Cardinality(Filled(newTable)))
      BY <1>1, <1>7, <1>8, InsertionCounts
    <2> QED  BY <1>8, <1>9, <2>1
  <1>11. Occupied(table)' = Occupied(table)
    BY <1>1 DEF Occupied
  <1> QED  BY <1>1, <1>10, <1>11 DEF CountsOK

\* The new table has the strings of the old one and no mark.
LEMMA FinishRehashKeepsCounts == ASSUME Inv, CountsOK, FinishRehash PROVE CountsOK'
  <1>1. /\ pc = "rehash" /\ table' = newTable /\ size' = newSize /\ used' = newUsed
        /\ pc' = Head(back) /\ collecting' = FALSE
    BY DEF FinishRehash, GoesBack
  <1>2. pc' \in {"idle", "string"}
    BY <1>1 DEF Inv, ControlOK
  <1>3. newSize \in Nat /\ size \in Nat /\ DOMAIN table = 0..(size - 1)
    BY <1>1, SizesSuffice, SizesAreNumbers DEF Inv, ControlOK, TableOK
  <1>4. newTable \in [0..(newSize - 1) -> Addresses \cup {Null}]
    BY <1>1 DEF Inv, NewTableOK
  <1>5. Filled(newTable) = Occupied(newTable)
    BY <1>4, MarksAreNoStrings DEF Filled, Occupied
  <1>6. Cardinality(Occupied(newTable)) <= Cardinality(Occupied(table))
    <2> DEFINE from(s) == CHOOSE r \in Occupied(table) : table[r] = newTable[s]
               f == [s \in Occupied(newTable) |-> from(s)]
    <2>1. \A s \in Occupied(newTable) : from(s) \in Occupied(table) /\ table[from(s)] = newTable[s]
      BY <1>1 DEF Inv, NewTableOK
    <2>2. \A r, s \in Occupied(newTable) : newTable[r] = newTable[s] => r = s
      BY <1>1 DEF Inv, NewTableOK
    <2> HIDE DEF from
    <2>3. f \in Injection(Occupied(newTable), Occupied(table))
      BY <2>1, <2>2 DEF Injection, IsInjective
    <2>4. IsFiniteSet(Occupied(table))
      BY <1>3, EntriesAreFinite
    <2> QED  BY <2>3, <2>4, FS_Injection
  <1>7. Cardinality(Occupied(newTable)) \in Nat /\ Cardinality(Occupied(table)) \in Nat
    BY <1>3, <1>4, EntriesAreFinite
  <1>8. /\ newUsed = Cardinality(Occupied(newTable))
        /\ Cardinality(Occupied(table)) + 1 < newSize
    BY <1>1, <1>5 DEF CountsOK
  <1>9. newUsed < newSize /\ newUsed + 1 < newSize
    BY <1>3, <1>6, <1>7, <1>8
  <1>10. used' = Cardinality(Filled(table'))
    BY <1>1, <1>5, <1>8
  <1> QED  BY <1>1, <1>2, <1>9, <1>10 DEF CountsOK

LEMMA AllocStringKeepsCounts == ASSUME Inv, CountsOK, AllocString PROVE CountsOK'
  <1>1. pc = "string" /\ pc' = "idle" /\ wanted \in Texts /\ size' = size
    BY DEF AllocString, Inv, ControlOK
  <1>2. size \in Nat /\ table \in [0..(size - 1) -> Addresses \cup {Null, Deleted}]
    BY SizesAreNumbers DEF Inv, TableOK
  <1> DEFINE puts(a, k) == /\ table' = [table EXCEPT ![Slot(wanted, k, size)] = a]
                           /\ used' = Counted(table, Slot(wanted, k, size), used)
  <1>3. PICK a \in Addresses : \E k \in 0..(size - 1) : puts(a, k)
    BY DEF AllocString
  <1>4. PICK k \in 0..(size - 1) : puts(a, k)
    BY <1>3
  <1> DEFINE at == Slot(wanted, k, size)
             after == table'
  <1>5. at \in 0..(size - 1)
    BY <1>1, SlotInTable DEF Inv, TableOK
  <1>6. DOMAIN table = 0..(size - 1) /\ after = [table EXCEPT ![at] = a]
    BY <1>2, <1>4
  <1>7. used = Cardinality(Filled(table)) /\ used + 1 < size /\ used \in Nat
    BY <1>1, <1>2, EntriesAreFinite DEF CountsOK
  <1>8. used' = Counted(table, at, used) /\ a # Null
    BY <1>4, MarksAreNoStrings
  <1>9. used' = Cardinality(Filled(after))
    <2> HIDE DEF at, after
    <2>1. Cardinality(Filled(after)) = Counted(table, at, Cardinality(Filled(table)))
      BY <1>2, <1>5, <1>6, <1>8, InsertionCounts
    <2> QED  BY <1>7, <1>8, <2>1
  <1>10. used' < size
    BY <1>2, <1>7, <1>8 DEF Counted
  <1> QED  BY <1>1, <1>9, <1>10 DEF CountsOK

LEMMA InitCounts == Init => CountsOK
  <1> SUFFICES ASSUME Init PROVE CountsOK
    OBVIOUS
  <1>1. /\ table = [s \in 0..(InitialSize - 1) |-> Null] /\ size = InitialSize
        /\ used = 0 /\ pc = "idle"
    BY DEF Init
  <1>2. Filled(table) = {}
    BY <1>1 DEF Filled
  <1>3. Cardinality(Filled(table)) = 0
    BY <1>2, FS_EmptySet
  <1> QED  BY <1>1, <1>3, SizesSuffice DEF CountsOK

LEMMA NextKeepsCounts == Inv /\ CountsOK /\ [Next]_vars => CountsOK'
  <1> SUFFICES ASSUME Inv, CountsOK, [Next]_vars PROVE CountsOK'
    OBVIOUS
  <1>1. CASE Next
    BY <1>1, PushesKeepCounts, FreeingKeepsCounts, AllocationsKeepCounts, RehashKeepsCounts,
       FinishRehashKeepsCounts, AllocStringKeepsCounts DEF Next
  <1>2. CASE UNCHANGED vars
    BY <1>2 DEF vars, heapVars, tableVars, growVars, CountsOK, Filled, Occupied
  <1> QED  BY <1>1, <1>2

\* The count of used slots counts the marks too, and one slot stays empty: the loops
\* that probe, which end at an empty slot, end (duktape.c:44327-44361).
THEOREM ProbesEndAlways == Spec => []ProbesEnd
  <1>1. CountsOK => ProbesEnd
    BY DEF CountsOK, ProbesEnd, Filled
  <1> QED  BY <1>1, InitCounts, NextKeepsCounts, InvAlways, PTL DEF Spec

---------------------------------------------------------------------------
(* The characters of strings, where no text begins within one. *)

\* It holds for MCInputs of MCStrings, and not for SplitInputs.
InputsBegin == \A t \in Inputs : Begins(t)

\* A position in the cache is the one of the character it names.
PositionsIn(c) ==
    \A e \in 1..CacheSize : c[e].h \in Live =>
       IsPosition(text[c[e].h], c[e].at.cidx, c[e].at.bidx)

PositionsOK ==
    /\ \A a \in Live : Begins(text[a])
    /\ wanted # Null => Begins(wanted)
    /\ PositionsIn(cache)

LEMMA LocatedIsPosition ==
    ASSUME HeapOK, NEW c, CacheIs(c), PositionsIn(c), NEW a \in Live, Begins(text[a]),
           NEW n \in 0..CharLength(text[a])
    PROVE  /\ IsPosition(text[a], n, Located(c, a, n).offset)
           /\ CacheIs(Located(c, a, n).cache) /\ PositionsIn(Located(c, a, n).cache)
  <1> DEFINE offset == IF IsAscii(text[a]) THEN n ELSE ByteOffset(text[a], n, Remembered(c, a))
  <1>1. a \in Addresses /\ text[a] \in Seq(Bytes) /\ Len(text[a]) \in Nat
    BY TextOfLive, TextsAreBytes
  <1>2. n \in Nat /\ (IsAscii(text[a]) => n \in 0..Len(text[a]))
    BY <1>1, CountEnds DEF IsAscii
  <1>3. Place(c, a) \in 1..CacheSize /\ (EntriesOf(c, a) # {} => c[Place(c, a)].h = a)
    <2>1. EntriesOf(c, a) \subseteq 1..CacheSize
      BY DEF EntriesOf, CacheIs
    <2>2. CASE EntriesOf(c, a) = {}
      BY <2>2, CacheHasRoom DEF Place
    <2>3. CASE EntriesOf(c, a) # {}
      <3>1. Place(c, a) \in EntriesOf(c, a)
        BY <2>3 DEF Place
      <3> QED  BY <2>1, <3>1 DEF EntriesOf
    <2> QED  BY <2>2, <2>3
  <1> DEFINE entry == Remembered(c, a)
  <1>4. entry.known => entry.cidx \in Nat /\ IsPosition(text[a], entry.cidx, entry.bidx)
    <2>1. CASE UsesCache(a) /\ EntriesOf(c, a) # {}
      <3>1. entry = c[Place(c, a)].at
        BY <2>1 DEF Remembered
      <3>2. c[Place(c, a)] \in Positions /\ c[Place(c, a)].h = a
        BY <1>3, <2>1 DEF CacheIs
      <3> QED  BY <1>3, <3>1, <3>2 DEF Positions, PositionsIn
    <2>2. CASE ~(UsesCache(a) /\ EntriesOf(c, a) # {})
      BY <2>2 DEF Remembered, NoEntry
    <2> QED  BY <2>1, <2>2
  <1>5. IsPosition(text[a], n, offset)
    <2>1. CASE IsAscii(text[a])
      BY <1>1, <1>2, <2>1, AsciiPosition
    <2>2. CASE ~IsAscii(text[a])
      <3> HIDE DEF entry
      <3>1. IsPosition(text[a], n, ByteOffset(text[a], n, entry))
        BY <1>1, <1>4, OffsetIsPosition
      <3> QED  BY <2>2, <3>1 DEF entry
    <2> QED  BY <2>1, <2>2
  <1>6. /\ Located(c, a, n).offset = offset
        /\ Located(c, a, n).cache =
             IF ~UsesCache(a) \/ offset = Missing THEN c ELSE InFront(c, a, n, offset)
    BY DEF Located
  <1> HIDE DEF offset
  <1>7. PositionsIn(InFront(c, a, n, offset))
    <2> DEFINE d == InFront(c, a, n, offset)
    <2> SUFFICES ASSUME NEW e \in 1..CacheSize, d[e].h \in Live
                 PROVE  IsPosition(text[d[e].h], d[e].at.cidx, d[e].at.bidx)
      BY DEF PositionsIn
    <2>1. d[e] = IF e = 1 THEN [h |-> a, at |-> Known(n, offset)]
                 ELSE IF e <= Place(c, a) THEN c[e - 1] ELSE c[e]
      BY DEF InFront, CacheIs
    <2> HIDE DEF d
    <2>2. CASE e = 1
      BY <1>5, <2>1, <2>2 DEF Known
    <2>3. CASE e # 1
      <3>1. PICK r \in 1..CacheSize : d[e] = c[r]
        <4>1. e - 1 \in 1..CacheSize
          BY <2>3, CacheHasRoom
        <4> QED  BY <2>1, <2>3, <4>1
      <3> QED  BY <3>1 DEF PositionsIn
    <2> QED  BY <2>2, <2>3
  <1>8. CacheIs(Located(c, a, n).cache)
    BY <1>2, LocatedInText
  <1> QED  BY <1>5, <1>6, <1>7, <1>8

LEMMA CharIsCharacter ==
    ASSUME HeapOK, CacheIs(cache), PositionsIn(cache), NEW a \in Live, Begins(text[a]),
           NEW n \in 0..(CharLength(text[a]) - 1)
    PROVE  /\ Missing \notin {Begin(a, n).offset, End(a, n).offset}
           /\ CharAt(a, n) = Character(text[a], n)
           /\ Begins(CharAt(a, n))
           /\ PositionsIn(End(a, n).cache)
  <1>1. text[a] \in Seq(Bytes) /\ Len(text[a]) \in Nat /\ CharLength(text[a]) \in Nat
    BY TextOfLive, TextsAreBytes, CountEnds
  <1>2. /\ n \in Nat /\ n < CharLength(text[a])
        /\ n \in 0..CharLength(text[a]) /\ n + 1 \in 0..CharLength(text[a])
    BY <1>1
  <1>3. /\ IsPosition(text[a], n, Begin(a, n).offset)
        /\ CacheIs(Begin(a, n).cache) /\ PositionsIn(Begin(a, n).cache)
    BY <1>2, LocatedIsPosition DEF Begin
  <1>4. /\ IsPosition(text[a], n + 1, End(a, n).offset)
        /\ PositionsIn(End(a, n).cache)
    BY <1>2, <1>3, LocatedIsPosition DEF End
  <1> DEFINE p == Begin(a, n).offset
             q == End(a, n).offset
  <1>5. p \in 0..Len(text[a]) /\ q \in 0..Len(text[a])
    BY <1>3, <1>4 DEF IsPosition
  <1>6. CharAt(a, n) = Character(text[a], n)
    BY <1>1, <1>2, <1>3, <1>4, SliceIsCharacter DEF CharAt
  <1>7. Begins(CharAt(a, n))
    <2>1. p # Len(text[a])
      BY <1>1, <1>2, <1>3, CountEnds DEF IsPosition
    <2>2. p < Len(text[a]) /\ text[a][p + 1] # "cont"
      BY <1>1, <1>3, <1>5, <2>1 DEF IsPosition
    <2>3. CharAt(a, n) = Slice(text[a], p, q)
      BY DEF CharAt
    <2> HIDE DEF p, q
    <2>4. Slice(text[a], p, q) # <<>> => Slice(text[a], p, q)[1] = text[a][p + 1]
      BY <1>1, <1>5, <2>2 DEF Slice
    <2> QED  BY <2>2, <2>3, <2>4 DEF Begins
  <1> QED  BY <1>4, <1>5, <1>6, <1>7 DEF Missing

LEMMA TrimBegins ==
    ASSUME NEW bytes \in Seq(Bytes), Trim(bytes) # Throws PROVE Begins(Trim(bytes))
  <1> DEFINE start == TrimStart(bytes)
             end == TrimEnd(bytes)
  <1>1. start \in 0..Len(bytes) /\ end \in 0..Len(bytes) \cup {Missing} /\ Len(bytes) \in Nat
    BY TrimStartExists, TrimEndEnds
  <1>2. CASE start = Len(bytes)
    BY <1>2 DEF Trim, Begins
  <1>3. CASE start # Len(bytes)
    <2>1. Decodes(bytes, start) /\ end # Missing /\ Trim(bytes) = Slice(bytes, start, end)
      BY <1>3 DEF Trim
    <2> HIDE DEF start, end
    <2>2. Slice(bytes, start, end) # <<>> => Slice(bytes, start, end)[1] = bytes[start + 1]
      BY <1>1, <2>1, <1>3 DEF Slice
    <2> QED  BY <2>1, <2>2 DEF Begins, Decodes
  <1> QED  BY <1>2, <1>3

LEMMA InternsWants ==
    ASSUME NEW t, Interns(t) PROVE wanted' \in {wanted, t}
  BY DEF Interns

LEMMA PushesKeepPositions ==
    ASSUME InputsBegin, Inv, PositionsOK, PushString \/ PushChar \/ PushTrimmed PROVE PositionsOK'
  <1>1. HeapOK /\ held \subseteq Live /\ CacheIs(cache)
    BY CacheIsCache DEF Inv, HeapOK
  <1>2. text' = text /\ Live' = Live
    BY DEF PushString, PushChar, PushTrimmed, Live
  <1>3. PositionsIn(cache') /\ (wanted' = wanted \/ Begins(wanted'))
    <2>1. CASE PushString
      <3>1. PICK t \in Inputs : Interns(t)
        BY <2>1 DEF PushString
      <3>2. cache' = cache /\ Begins(t)
        BY <2>1 DEF PushString, InputsBegin
      <3> QED  BY <3>1, <3>2, InternsWants DEF PositionsOK
    <2>2. CASE PushTrimmed
      <3>1. PICK a \in held : Trim(text[a]) # Throws /\ Interns(Trim(text[a]))
        BY <2>2 DEF PushTrimmed
      <3>2. text[a] \in Seq(Bytes)
        BY <1>1, TextOfLive, TextsAreBytes
      <3>3. cache' = cache /\ Begins(Trim(text[a]))
        BY <2>2, <3>1, <3>2, TrimBegins DEF PushTrimmed
      <3> QED  BY <3>1, <3>3, InternsWants DEF PositionsOK
    <2>3. CASE PushChar
      <3> DEFINE cuts(a, n) ==
                   /\ cache' = IF Begin(a, n).offset = Missing THEN cache ELSE End(a, n).cache
                   /\ IF Missing \in {Begin(a, n).offset, End(a, n).offset}
                      THEN UNCHANGED <<held, pc, back, wanted, newSize>>
                      ELSE Interns(CharAt(a, n))
      <3>1. PICK a \in held : \E n \in 0..(CharLength(text[a]) - 1) : cuts(a, n)
        BY <2>3 DEF PushChar
      <3>2. PICK n \in 0..(CharLength(text[a]) - 1) : cuts(a, n)
        BY <3>1
      <3>3. /\ Missing \notin {Begin(a, n).offset, End(a, n).offset}
            /\ Begins(CharAt(a, n))
            /\ PositionsIn(End(a, n).cache)
        BY <1>1, CharIsCharacter DEF PositionsOK
      <3>4. cache' = End(a, n).cache /\ Interns(CharAt(a, n))
        BY <3>2, <3>3
      <3> QED  BY <3>3, <3>4, InternsWants
    <2> QED  BY <2>1, <2>2, <2>3
  <1> QED  BY <1>2, <1>3 DEF PositionsOK, PositionsIn

\* A string that is freed takes its positions along.
LEMMA FreesKeepsPositions ==
    ASSUME Inv, PositionsOK, NEW freed \in SUBSET Live, Frees(freed), wanted' = wanted
    PROVE  PositionsOK'
  <1>1. /\ text' = [a \in Addresses |-> IF a \in freed THEN Null ELSE text[a]]
        /\ cache' = WithoutStrings(freed)
    BY DEF Frees
  <1>2. Live' = Live \ freed /\ \A a \in Live' : text'[a] = text[a]
    BY <1>1 DEF Live
  <1>3. \A e \in 1..CacheSize : cache'[e] = cache[e] \/ cache'[e] = NoPosition
    BY <1>1 DEF Inv, CacheOK, WithoutStrings
  <1>4. NoPosition.h \notin Live'
    BY <1>2, MarksAreNoStrings DEF NoPosition, Live
  <1>5. PositionsIn(cache)'
    BY <1>2, <1>3, <1>4 DEF PositionsIn, PositionsOK
  <1> QED  BY <1>2, <1>5 DEF PositionsOK

LEMMA SameTextsKeepPositions ==
    ASSUME PositionsOK, UNCHANGED <<text, cache>>, wanted' \in {wanted, Null} PROVE PositionsOK'
  BY DEF PositionsOK, PositionsIn, Live

\* The address of a new string is in no entry of the cache.
LEMMA AllocStringKeepsPositions == ASSUME Inv, PositionsOK, AllocString PROVE PositionsOK'
  <1>1. wanted' = Null /\ cache' = cache /\ wanted \in Texts /\ Begins(wanted)
    BY MarksAreNoStrings DEF AllocString, Inv, ControlOK, PositionsOK
  <1>2. PICK a \in Addresses \ Live : text' = [text EXCEPT ![a] = wanted]
    BY DEF AllocString
  <1>3. \A b \in Addresses : text'[b] = IF b = a THEN wanted ELSE text[b]
    BY <1>2 DEF Inv, HeapOK
  <1>4. Live' = Live \cup {a} /\ text'[a] = wanted /\ \A b \in Live : text'[b] = text[b]
    BY <1>1, <1>3, MarksAreNoStrings DEF Live
  <1>5. \A e \in 1..CacheSize : cache[e].h # a
    BY <1>2, MarksAreNoStrings DEF Inv, CacheOK, CachedOnce
  <1>6. PositionsIn(cache)'
    BY <1>1, <1>4, <1>5 DEF PositionsIn, PositionsOK
  <1> QED  BY <1>1, <1>4, <1>6 DEF PositionsOK

LEMMA NextKeepsPositions ==
    InputsBegin /\ Inv /\ PositionsOK /\ [Next]_vars => PositionsOK'
  <1> SUFFICES ASSUME InputsBegin, Inv, PositionsOK, [Next]_vars PROVE PositionsOK'
    OBVIOUS
  <1>1. CASE \E a \in Addresses : RefZero(a) \/ BecomesGarbage(a)
    <2>1. PICK a \in Addresses : RefZero(a) \/ BecomesGarbage(a)
      BY <1>1
    <2>2. CASE RefZero(a)
      <3>1. Frees({a}) /\ wanted' = wanted /\ {a} \in SUBSET Live
        BY <2>2 DEF RefZero, Inv, HeapOK
      <3> QED  BY <3>1, FreesKeepsPositions
    <2>3. CASE BecomesGarbage(a)
      BY <2>3, SameTextsKeepPositions DEF BecomesGarbage
    <2> QED  BY <2>1, <2>2, <2>3
  <1>2. CASE Collect
    <2>1. Frees(Unmarked) /\ wanted' = wanted /\ Unmarked \in SUBSET Live
      BY <1>2 DEF Collect, Unmarked
    <2> QED  BY <2>1, FreesKeepsPositions
  <1>3. CASE AllocTable \/ NoTable \/ NoString \/ Rehash \/ FinishRehash
    <2>1. UNCHANGED <<text, cache>> /\ wanted' \in {wanted, Null}
      BY <1>3 DEF AllocTable, NoTable, NoString, Rehash, FinishRehash, heapVars
    <2> QED  BY <2>1, SameTextsKeepPositions
  <1>4. CASE UNCHANGED vars
    BY <1>4, SameTextsKeepPositions DEF vars, heapVars
  <1> QED  BY <1>1, <1>2, <1>3, <1>4, PushesKeepPositions, AllocStringKeepsPositions DEF Next

LEMMA InitPositions == Init => PositionsOK
  BY MarksAreNoStrings DEF Init, PositionsOK, PositionsIn, Live

LEMMA PositionsCutCharacters == Inv /\ PositionsOK => CutsCharacters
  <1> SUFFICES ASSUME Inv, PositionsOK, NEW a \in held, NEW n \in 0..(CharLength(text[a]) - 1)
               PROVE  /\ Missing \notin {Begin(a, n).offset, End(a, n).offset}
                      /\ CharAt(a, n) = Character(text[a], n)
    BY DEF CutsCharacters
  <1>1. HeapOK /\ a \in Live /\ CacheIs(cache) /\ PositionsIn(cache) /\ Begins(text[a])
    BY CacheIsCache DEF Inv, HeapOK, PositionsOK
  <1> QED  BY <1>1, CharIsCharacter

\* Where no text the program is given begins within a character, a character that is cut
\* out of a string is the one at its index, whatever positions the cache remembers, of this
\* string or of another that had its address (duktape.c:43557-43573, 43626-43830).
THEOREM CutsCharactersAlways == InputsBegin => (Spec => []CutsCharacters)
  <1> SUFFICES ASSUME InputsBegin PROVE Spec => []CutsCharacters
    OBVIOUS
  <1>1. Inv /\ PositionsOK /\ [Next]_vars => PositionsOK'
    BY NextKeepsPositions
  <1> QED  BY <1>1, InitPositions, PositionsCutCharacters, InvAlways, PTL DEF Spec

\* trim() takes white space from both ends and nothing else, and throws at no text
\* whose characters are whole (duktape.c:19576-19617).
THEOREM TrimsAlways == Spec => []Trims
  <1>1. Inv => Trims
    <2> SUFFICES ASSUME Inv, NEW a \in held, WellFormed(text[a])
                 PROVE  LET result == Trim(text[a])
                        IN /\ result # Throws
                           /\ IsTrimmed(result)
                           /\ \E m, n \in 0..Len(text[a]) :
                                /\ result = Slice(text[a], m, n)
                                /\ \A p \in 1..Len(text[a]) : p \notin (m + 1)..n => text[a][p] = "white"
      BY DEF Trims
    <2>1. text[a] \in Seq(Bytes)
      BY TextOfLive, TextsAreBytes DEF Inv, HeapOK
    <2> QED  BY <2>1, TrimIsRight
  <1> QED  BY <1>1, InvAlways, PTL
=============================================================================
