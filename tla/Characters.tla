---------------------------- MODULE Characters ----------------------------
(***************************************************************************)
(* Characters in the bytes of a Duktape string: a position in characters   *)
(* is found by scanning from the nearer end of the string or from a        *)
(* position that is remembered, and trim() decodes what it looks at.       *)
(*                                                                         *)
(* Offsets count from 0: the byte at offset p is bytes[p + 1].             *)
(***************************************************************************)
EXTENDS Integers, Sequences, FiniteSets

(***************************************************************************)
(* Of a byte only its class counts: ASCII letters, white space, the first  *)
(* byte of a character of two or three bytes, and a byte that continues    *)
(* one.  White space of more than one byte is left out.                    *)
(***************************************************************************)
Bytes == {"a", "b", "white", "lead2", "lead3", "cont"}

Missing == -1

\* Where the bytes in from..to start characters: everywhere but at continuation
\* bytes.
Starts(bytes, from, to) == {p \in from..to : bytes[p + 1] # "cont"}

\* The characters a string counts.
CharLength(bytes) == Cardinality(Starts(bytes, 0, Len(bytes) - 1))

IsAscii(bytes) == CharLength(bytes) = Len(bytes)

---------------------------------------------------------------------------
(* Scanning. *)

TheOnly(offsets) == IF offsets = {} THEN Missing ELSE CHOOSE p \in offsets : TRUE

\* The n-th start of a character behind offset p; the end of the string is none.
ScanForwards(bytes, p, n) ==
    IF n = 0 THEN p
    ELSE TheOnly({q \in Starts(bytes, p + 1, Len(bytes) - 1) :
                    Cardinality(Starts(bytes, p + 1, q)) = n})

\* The n-th start of a character before offset p.
ScanBackwards(bytes, p, n) ==
    IF n = 0 THEN p
    ELSE TheOnly({q \in Starts(bytes, 0, p - 1) :
                    Cardinality(Starts(bytes, q, p - 1)) = n})

NoEntry == [cidx |-> 0, bidx |-> 0, known |-> FALSE]

Known(cidx, bidx) == [cidx |-> cidx, bidx |-> bidx, known |-> TRUE]

Distance(m, n) == IF m >= n THEN m - n ELSE n - m

\* A position that is remembered is used when no end of the string is nearer.
IsNearest(bytes, n, entry) ==
    /\ entry.known
    /\ Distance(n, entry.cidx) <= n
    /\ Distance(n, entry.cidx) <= CharLength(bytes) - n

\* Mutant: the scan from the end starts one byte too early.
FromLastByte(bytes, n, entry) ==
    IF n <= CharLength(bytes) - n THEN ScanForwards(bytes, 0, n)
    ELSE ScanBackwards(bytes, Len(bytes) - 1, CharLength(bytes) - n)

ByteOffset(bytes, n, entry) ==
    IF IsNearest(bytes, n, entry)
    THEN IF n >= entry.cidx THEN ScanForwards(bytes, entry.bidx, n - entry.cidx)
         ELSE ScanBackwards(bytes, entry.bidx, entry.cidx - n)
    ELSE IF n <= CharLength(bytes) - n THEN ScanForwards(bytes, 0, n)
    ELSE ScanBackwards(bytes, Len(bytes), CharLength(bytes) - n)

Slice(bytes, from, to) == SubSeq(bytes, from + 1, to)

---------------------------------------------------------------------------
(* trim(). *)

\* The first byte says how long a character is; the others are not looked at.
DecodedLength(byte) == CASE byte = "lead2" -> 2 [] byte = "lead3" -> 3 [] OTHER -> 1

\* Mutant: a character may not end where the string does.
DecodesInside(bytes, p) ==
    bytes[p + 1] # "cont" /\ p + DecodedLength(bytes[p + 1]) < Len(bytes)

Decodes(bytes, p) ==
    bytes[p + 1] # "cont" /\ p + DecodedLength(bytes[p + 1]) <= Len(bytes)

\* What trim() comes to where it cannot decode a character: no string.
Throws == <<"throws">>

\* Where what is no white space begins.
TrimStart(bytes) ==
    CHOOSE p \in 0..Len(bytes) :
       /\ \A q \in 0..(p - 1) : bytes[q + 1] = "white"
       /\ p < Len(bytes) => bytes[p + 1] # "white"

\* Where the character begins that ends before offset p, or the string does.
StartBefore(bytes, p) ==
    CHOOSE q \in 0..(p - 1) :
       /\ q = 0 \/ bytes[q + 1] # "cont"
       /\ \A r \in (q + 1)..(p - 1) : bytes[r + 1] = "cont"

\* Where what is no white space ends.
TrimEnd(bytes) ==
    LET end[p \in 0..Len(bytes)] ==
          IF p = 0 THEN 0
          ELSE LET q == StartBefore(bytes, p)
               IN IF ~Decodes(bytes, q) THEN Missing
                  ELSE IF bytes[q + 1] = "white" THEN end[q] ELSE p
    IN end[Len(bytes)]

Trim(bytes) ==
    LET start == TrimStart(bytes)
    IN IF start = Len(bytes) THEN <<>>
       ELSE IF ~Decodes(bytes, start) \/ TrimEnd(bytes) = Missing THEN Throws
       ELSE Slice(bytes, start, TrimEnd(bytes))
===========================================================================
