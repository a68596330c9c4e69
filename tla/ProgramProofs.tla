--------------------------- MODULE ProgramProofs ---------------------------
(***************************************************************************)
(* Proofs about Program: what arrives at stdout is the answer, laid out as *)
(* Requests says, and it arrives before more input is asked for; and the   *)
(* options are what the command line spells.                               *)
(*                                                                         *)
(* The texts that writeFoundKeys writes for a row are, joined, the lines   *)
(* of the row (RowWrittenIsLines), hence those of a turn the answer of the *)
(* turn (AnswerParts).  The invariant, ProgramInv, says that in the loop   *)
(* of innerMain what has arrived and what is due make up what was found so *)
(* far, save for what a short write has lost (Delivered), and what was     *)
(* found so far is the beginning of the answer (SoFarIsPart).              *)
(*                                                                         *)
(* However a request is spelled, it becomes the same words, save those of  *)
(* its name (AloneIsAsked), also when its letter is added to the argument  *)
(* before (LetterAdded).  So the words of a command line are those of its  *)
(* requests, one after another (SpelledWords), and a turn of the loop of   *)
(* parseArguments reads those of one request (TurnReadsRequest).           *)
(***************************************************************************)
EXTENDS Requests, Recursion

---------------------------------------------------------------------------
(* Texts. *)

\* What the texts of an answer are made of.
Units(opts) ==
    {<<"json", v, opts.indent, half>> : v \in Values \cup Seq(Values), half \in 1..2}
    \cup {<<"plain", v, half>> : v \in Values, half \in 1..2}
    \cup {<<"char", c>> : c \in Symbols}

LEMMA CharsAreText ==
    ASSUME NEW opts, NEW word \in Seq(Symbols)
    PROVE  /\ Text(word) \in Seq(Units(opts))
           /\ Newline \in Units(opts)
  <1>1. word # Undefined
    BY UndefinedIsNoWord
  <1>0. \A c \in Symbols : <<"char", c>> \in Units(opts)
    BY DEF Units
  <1>2. Newline \in Units(opts)
    <2>1. "newline" \in Symbols
      BY SymbolsSuffice DEF OwnSymbols
    <2> HIDE DEF Units
    <2> QED  BY <1>0, <2>1 DEF Newline
  <1>3. \A i \in 1..Len(word) : <<"char", word[i]>> \in Units(opts)
    <2>1. \A i \in 1..Len(word) : word[i] \in Symbols
      OBVIOUS
    <2> HIDE DEF Units
    <2> QED  BY <1>0, <2>1
  <1>4. [i \in 1..Len(word) |-> <<"char", word[i]>>] \in Seq(Units(opts))
    <2> HIDE DEF Units
    <2> QED  BY <1>3
  <1>5. DOMAIN word = 1..Len(word)
    OBVIOUS
  <1> QED  BY <1>1, <1>2, <1>4, <1>5 DEF Text

LEMMA ValuesAreText ==
    ASSUME NEW opts, NEW v \in Values
    PROVE  /\ Json(v, opts.indent) \in Seq(Units(opts))
           /\ Plain(v) \in Seq(Units(opts))
           /\ Shown(v, opts) \in Seq(Units(opts))
           /\ Field(v, opts) \in Seq(Units(opts))
  <1>0. v \in Values \cup Seq(Values)
    OBVIOUS
  <1>1. \A half \in 1..2 : <<"json", v, opts.indent, half>> \in Units(opts)
    BY <1>0 DEF Units
  <1>2. \A half \in 1..2 : <<"plain", v, half>> \in Units(opts)
    BY DEF Units
  <1>3. Json(v, opts.indent) \in Seq(Units(opts)) /\ Plain(v) \in Seq(Units(opts))
    <2> HIDE DEF Units
    <2> QED  BY <1>1, <1>2 DEF Json, Plain
  <1>4. Shown(v, opts) \in Seq(Units(opts))
    BY <1>3 DEF Shown
  <1> QED  BY <1>3, <1>4 DEF Field

LEMMA KeysAreText ==
    ASSUME NEW opts, NEW keys \in Seq(Values) PROVE Json(keys, opts.indent) \in Seq(Units(opts))
  <1>1. keys \in Values \cup Seq(Values)
    OBVIOUS
  <1>2. \A half \in 1..2 : <<"json", keys, opts.indent, half>> \in Units(opts)
    BY <1>1 DEF Units
  <1> HIDE DEF Units
  <1> QED  BY <1>2 DEF Json

---------------------------------------------------------------------------
(* Fields with text between them. *)

Parts(fields, between) == [i \in 1..Len(fields) |-> IF i = 1 THEN fields[1] ELSE between \o fields[i]]

LEMMA JoinedParts ==
    ASSUME NEW U, NEW fields \in Seq(Seq(U)), NEW between \in Seq(U)
    PROVE  /\ Parts(fields, between) \in Seq(Seq(U))
           /\ Len(Parts(fields, between)) = Len(fields)
           /\ Joined(fields, between) = FlattenSeq(Parts(fields, between))
           /\ Joined(fields, between) \in Seq(U)
  <1>1. \A i \in 1..Len(fields) : fields[i] \in Seq(U) /\ between \o fields[i] \in Seq(U)
    OBVIOUS
  <1>2. \A i \in 1..Len(fields) : (IF i = 1 THEN fields[1] ELSE between \o fields[i]) \in Seq(U)
    BY <1>1
  <1>3. Parts(fields, between) \in [1..Len(fields) -> Seq(U)]
    <2> DEFINE t(i) == IF i = 1 THEN fields[1] ELSE between \o fields[i]
    <2>1. \A i \in 1..Len(fields) : t(i) \in Seq(U)
      BY <1>2
    <2>2. Parts(fields, between) = [i \in 1..Len(fields) |-> t(i)]
      BY DEF Parts
    <2> HIDE DEF t
    <2> QED  BY <2>1, <2>2
  <1>4. Parts(fields, between) \in Seq(Seq(U)) /\ Len(Parts(fields, between)) = Len(fields)
    <2>1. Len(fields) \in Nat
      OBVIOUS
    <2>2. Parts(fields, between) \in Seq(Seq(U))
      BY <1>3, <2>1, FunctionIsSeq
    <2>3. DOMAIN Parts(fields, between) = 1..Len(fields)
      BY DEF Parts
    <2> QED  BY <2>1, <2>2, <2>3
  <1>5. Joined(fields, between) = FlattenSeq(Parts(fields, between))
    <2>1. DOMAIN fields = 1..Len(fields)
      OBVIOUS
    <2> QED  BY <2>1 DEF Joined, Parts
  <1>6. FlattenSeq(Parts(fields, between)) \in Seq(U)
    BY <1>4, FlattenIsSeq
  <1> QED  BY <1>4, <1>5, <1>6

LEMMA JoinedOne ==
    ASSUME NEW U, NEW fields \in Seq(Seq(U)), NEW between \in Seq(U), Len(fields) = 1
    PROVE  Joined(fields, between) = fields[1]
  <1> DEFINE p == Parts(fields, between)
  <1>1. p \in Seq(Seq(U)) /\ Len(p) = 1 /\ Joined(fields, between) = FlattenSeq(p)
    BY JoinedParts
  <1>2. p[1] = fields[1]
    BY DEF Parts
  <1>3. FlattenSeq(p) = p[1]
    <2> HIDE DEF p
    <2> QED  BY <1>1, FlattenOne
  <1> QED  BY <1>1, <1>2, <1>3

IsMore(fields, more) ==
    /\ Len(fields) >= 1 /\ Len(more) = Len(fields) + 1
    /\ \A i \in 1..Len(fields) : more[i] = fields[i]

LEMMA JoinedMore ==
    ASSUME NEW U, NEW fields \in Seq(Seq(U)), NEW more \in Seq(Seq(U)), NEW between \in Seq(U),
           IsMore(fields, more)
    PROVE  Joined(more, between) = Joined(fields, between) \o (between \o more[Len(more)])
  <1>0. /\ Len(fields) >= 1 /\ Len(more) = Len(fields) + 1
        /\ \A i \in 1..Len(fields) : more[i] = fields[i]
    BY DEF IsMore
  <1> DEFINE p == Parts(fields, between)
             q == Parts(more, between)
             t == between \o more[Len(more)]
  <1>1. more[Len(more)] \in Seq(U) /\ t \in Seq(U)
    <2>1. Len(more) \in 1..Len(more)
      BY <1>0
    <2> QED  BY <2>1
  <1>2. p \in Seq(Seq(U)) /\ Len(p) = Len(fields) /\ q \in Seq(Seq(U)) /\ Len(q) = Len(more)
    BY JoinedParts
  <1>3. \A i \in 1..Len(fields) : q[i] = p[i]
    BY <1>0 DEF Parts
  <1>4. q[Len(more)] = t
    BY <1>0 DEF Parts
  <1>5. q = Append(p, t)
    <2> HIDE DEF p, q, t
    <2>1. Append(p, t) \in Seq(Seq(U)) /\ Len(Append(p, t)) = Len(q)
      BY <1>0, <1>1, <1>2
    <2>2. \A i \in 1..Len(q) : q[i] = Append(p, t)[i]
      BY <1>0, <1>2, <1>3, <1>4
    <2> QED  BY <1>2, <2>1, <2>2, SeqEqual
  <1>6. FlattenSeq(Append(p, t)) = FlattenSeq(p) \o t
    <2> HIDE DEF p, t
    <2> QED  BY <1>1, <1>2, FlattenAppend
  <1>7. Joined(more, between) = FlattenSeq(q) /\ Joined(fields, between) = FlattenSeq(p)
    BY JoinedParts
  <1> QED  BY <1>5, <1>6, <1>7

---------------------------------------------------------------------------
(* A row of values, of which some are objects: W is what is written for    *)
(* each of them, C the line that begins with it, F what is shown of it.    *)

Begins(objects, i) == i = 1 \/ i - 1 \in objects

RunEnds(objects, n, i, j) ==
    j \in i..n /\ (\A k \in i..j : k \notin objects) /\ (j = n \/ j + 1 \in objects)

FieldsOf(F, i, j) == [k \in 1..(j - i + 1) |-> F[i + k - 1]]

\* What follows a value that is no object.
Between(objects, n, sep, a) == IF a < n /\ a + 1 \notin objects THEN sep ELSE <<>>

\* What comes before an object.
BeforeObject(objects, nl, a) == IF a > 1 /\ a - 1 \notin objects THEN nl ELSE <<>>

IsLayout(objects, n, W, C, F, sep, nl) ==
    /\ \A a \in 1..n : a \in objects => W[a] = BeforeObject(objects, nl, a) \o C[a]
    /\ \A a \in 1..n : a \notin objects => W[a] = F[a] \o Between(objects, n, sep, a)
    /\ \A a \in 1..n : a \notin objects /\ ~Begins(objects, a) => C[a] = <<>>
    /\ \A a \in 1..n : \A e \in 1..n :
          a \notin objects /\ Begins(objects, a) /\ RunEnds(objects, n, a, e) =>
             C[a] = Joined(FieldsOf(F, a, e), sep) \o nl

Lists(F, n, V) == n \in Nat /\ F \in [1..n -> V]

Within(i, j, n) == i \in 1..n /\ j \in i..n

FieldsAre(F, i, j, V) ==
    /\ FieldsOf(F, i, j) \in Seq(V)
    /\ Len(FieldsOf(F, i, j)) = j - i + 1
    /\ \A k \in 1..(j - i + 1) : FieldsOf(F, i, j)[k] = F[i + k - 1]

LEMMA FieldsTyped ==
    ASSUME NEW V, NEW n, NEW F, Lists(F, n, V), NEW i, NEW j, Within(i, j, n)
    PROVE  FieldsAre(F, i, j, V)
  <1>0. n \in Nat /\ F \in [1..n -> V] /\ i \in 1..n /\ j \in i..n
    BY DEF Lists, Within
  <1>1. \A k \in 1..(j - i + 1) : i + k - 1 \in 1..n
    BY <1>0
  <1>2. \A k \in 1..(j - i + 1) : F[i + k - 1] \in V
    BY <1>0, <1>1
  <1>3. j - i + 1 \in Nat
    BY <1>0
  <1>4. FieldsOf(F, i, j) \in [1..(j - i + 1) -> V]
    BY <1>2 DEF FieldsOf
  <1>5. FieldsOf(F, i, j) \in Seq(V) /\ Len(FieldsOf(F, i, j)) = j - i + 1
    <2> DEFINE f == FieldsOf(F, i, j)
               m == j - i + 1
    <2> HIDE DEF f, m
    <2>1. m \in Nat /\ f \in [1..m -> V]
      BY <1>3, <1>4 DEF f, m
    <2>2. f \in Seq(V) /\ Len(f) = m
      BY <2>1, FunctionIsSeq
    <2> QED  BY <2>2 DEF f, m
  <1> QED  BY <1>5 DEF FieldsAre, FieldsOf

Join(F, sep, i, j) == Joined(FieldsOf(F, i, j), sep)

JoinsFrom(F, sep, n, T, i) ==
    /\ Join(F, sep, i, i) = F[i]
    /\ \A j \in i..n : Join(F, sep, i, j) \in T
    /\ \A j, k \in i..n : k = j + 1 => Join(F, sep, i, k) = Join(F, sep, i, j) \o (sep \o F[k])

JoinsFields(F, sep, n, T) == \A i \in 1..n : JoinsFrom(F, sep, n, T, i)

LEMMA FieldsJoined ==
    ASSUME NEW U, NEW n \in Nat, NEW F \in [1..n -> Seq(U)], NEW sep \in Seq(U), NEW i \in 1..n
    PROVE  JoinsFrom(F, sep, n, Seq(U), i)
  <1> DEFINE V == Seq(U)
  <1>0. ASSUME NEW j \in i..n PROVE FieldsAre(F, i, j, V)
    <2>1. Lists(F, n, V) /\ Within(i, j, n)
      BY DEF Lists, Within
    <2> HIDE DEF V
    <2> QED  BY <2>1, FieldsTyped
  <1>1. Joined(FieldsOf(F, i, i), sep) = F[i]
    <2> DEFINE f == FieldsOf(F, i, i)
    <2>1. i \in i..n /\ 1 \in 1..(i - i + 1) /\ i + 1 - 1 = i /\ i - i + 1 = 1
      OBVIOUS
    <2>2. f \in Seq(Seq(U)) /\ Len(f) = 1 /\ f[1] = F[i]
      BY <1>0, <2>1 DEF FieldsAre
    <2> HIDE DEF f
    <2>3. Joined(f, sep) = f[1]
      BY <2>2, JoinedOne
    <2> QED  BY <2>2, <2>3 DEF f
  <1>2. ASSUME NEW j \in i..n PROVE Joined(FieldsOf(F, i, j), sep) \in Seq(U)
    <2>1. FieldsOf(F, i, j) \in Seq(Seq(U))
      BY <1>0 DEF FieldsAre
    <2> QED  BY <2>1, JoinedParts
  <1>3. ASSUME NEW j \in i..n, NEW k \in i..n, k = j + 1
        PROVE  Joined(FieldsOf(F, i, k), sep) = Joined(FieldsOf(F, i, j), sep) \o (sep \o F[k])
    <2> DEFINE f == FieldsOf(F, i, j)
               g == FieldsOf(F, i, k)
    <2>1. f \in Seq(Seq(U)) /\ Len(f) = j - i + 1 /\ \A m \in 1..(j - i + 1) : f[m] = F[i + m - 1]
      BY <1>0 DEF FieldsAre
    <2>2. g \in Seq(Seq(U)) /\ Len(g) = k - i + 1 /\ \A m \in 1..(k - i + 1) : g[m] = F[i + m - 1]
      BY <1>0 DEF FieldsAre
    <2> HIDE DEF f, g
    <2>3. IsMore(f, g)
      BY <1>3, <2>1, <2>2 DEF IsMore
    <2>4. g[Len(g)] = F[k]
      <3>1. k - i + 1 \in 1..(k - i + 1) /\ i + (k - i + 1) - 1 = k
        BY <1>3
      <3> QED  BY <2>2, <3>1
    <2>5. Joined(g, sep) = Joined(f, sep) \o (sep \o g[Len(g)])
      BY <2>1, <2>2, <2>3, JoinedMore
    <2> QED  BY <2>4, <2>5 DEF f, g
  <1> QED  BY <1>1, <1>2, <1>3 DEF JoinsFrom, Join

\* What putting texts together obeys; that the texts are sequences does not matter
\* to the layout.
IsTexts(T) ==
    /\ <<>> \in T
    /\ \A u, v \in T : u \o v \in T
    /\ \A u \in T : <<>> \o u = u /\ u \o <<>> = u
    /\ \A u, v, w \in T : u \o (v \o w) = (u \o v) \o w

LEMMA SequencesAreTexts == ASSUME NEW U PROVE IsTexts(Seq(U))
  <1>1. \A u, v, w \in Seq(U) : u \o (v \o w) = (u \o v) \o w
    <2>1. OneOrder(U)
      BY InEitherOrder
    <2> QED  BY <2>1 DEF OneOrder
  <1>2. \A u, v \in Seq(U) : u \o v \in Seq(U)
    OBVIOUS
  <1>3. \A u \in Seq(U) : <<>> \o u = u /\ u \o <<>> = u
    OBVIOUS
  <1> QED  BY <1>1, <1>2, <1>3 DEF IsTexts

Associate(u, v, w) == u \o (v \o w) = (u \o v) \o w

LEMMA Associates ==
    ASSUME NEW T, IsTexts(T), NEW u \in T, NEW v \in T, NEW w \in T PROVE Associate(u, v, w)
  BY Zenon DEF IsTexts, Associate

Rearranged(c, j, s, f, b) == (c \o (j \o s)) \o (f \o b) = c \o ((j \o (s \o f)) \o b)

LEMMA FiveParts ==
    ASSUME NEW T, IsTexts(T), NEW c \in T, NEW j \in T, NEW s \in T, NEW f \in T, NEW b \in T
    PROVE  Rearranged(c, j, s, f, b)
  <1>1. j \o s \in T /\ f \o b \in T /\ s \o f \in T
    BY DEF IsTexts
  <1>2. Associate(c, j \o s, f \o b) /\ Associate(j, s, f \o b) /\ Associate(s, f, b) /\ Associate(j, s \o f, b)
    BY <1>1, Associates
  <1> QED  BY <1>2 DEF Associate, Rearranged

\* ws and cs are the sums of W and C.
Sums(n, W, C, ws, cs) ==
    /\ ws[0] = <<>> /\ cs[0] = <<>>
    /\ \A a \in 0..n : \A b \in 1..n : b = a + 1 => ws[b] = ws[a] \o W[b] /\ cs[b] = cs[a] \o C[b]

Row(T, n, objects, W, C, F, ws, cs, sep, nl) ==
    /\ IsTexts(T) /\ n \in Nat \ {0} /\ objects \in SUBSET (1..n) /\ sep \in T /\ nl \in T
    /\ W \in [1..n -> T] /\ C \in [1..n -> T] /\ F \in [1..n -> T]
    /\ ws \in [0..n -> T] /\ cs \in [0..n -> T]
    /\ IsLayout(objects, n, W, C, F, sep, nl) /\ JoinsFields(F, sep, n, T) /\ Sums(n, W, C, ws, cs)

LaidOut(n, objects, ws, cs, nl) == ws[n] \o (IF n \in objects THEN <<>> ELSE nl) = cs[n]

LEMMA RowLaidOut ==
    ASSUME NEW T, NEW n, NEW objects, NEW W, NEW C, NEW F, NEW ws, NEW cs, NEW sep, NEW nl,
           Row(T, n, objects, W, C, F, ws, cs, sep, nl)
    PROVE  LaidOut(n, objects, ws, cs, nl)
  <1>0. /\ IsTexts(T) /\ n \in Nat \ {0} /\ objects \in SUBSET (1..n) /\ sep \in T /\ nl \in T
        /\ W \in [1..n -> T] /\ C \in [1..n -> T] /\ F \in [1..n -> T]
        /\ ws \in [0..n -> T] /\ cs \in [0..n -> T]
        /\ IsLayout(objects, n, W, C, F, sep, nl) /\ JoinsFields(F, sep, n, T) /\ Sums(n, W, C, ws, cs)
    BY DEF Row
  <1> USE <1>0
  <1> DEFINE J(i, j) == Join(F, sep, i, j)
  <1> DEFINE B(a) == Between(objects, n, sep, a)
             Run(a, s) == /\ s \in 1..a /\ Begins(objects, s) /\ \A k \in s..a : k \notin objects
                          /\ ws[a] = cs[s - 1] \o (J(s, a) \o B(a))
                          /\ cs[a] = cs[s - 1] \o C[s]
             P(a) == IF a = 0 \/ a \in objects THEN ws[a] = cs[a] ELSE \E s \in 1..a : Run(a, s)
  <1>3. /\ \A k \in 0..n : ws[k] \in T /\ cs[k] \in T
        /\ \A k \in 1..n : W[k] \in T /\ C[k] \in T /\ F[k] \in T
    OBVIOUS
  <1>4. \A a \in 0..n : \A b \in 1..n : b = a + 1 => ws[b] = ws[a] \o W[b] /\ cs[b] = cs[a] \o C[b]
    BY DEF Sums
  <1>5. \A i \in 1..n :
           /\ J(i, i) = F[i]
           /\ \A j \in i..n : J(i, j) \in T
           /\ \A j, k \in i..n : k = j + 1 => J(i, k) = J(i, j) \o (sep \o F[k])
    BY DEF JoinsFields, JoinsFrom
  <1>6. \A a \in 1..n : B(a) \in T
    BY DEF Between, IsTexts
  <1> HIDE DEF J, B
  <1>7. ASSUME NEW a \in 1..n, a \notin objects, a = n \/ a + 1 \in objects, P(a)
        PROVE  cs[a] = ws[a] \o nl
    <2>1. PICK s \in 1..a : Run(a, s)
      <3> HIDE DEF Run
      <3>1. a # 0
        OBVIOUS
      <3> QED  BY <1>7, <3>1
    <2>2. s \in 1..n /\ a \in s..n /\ s - 1 \in 0..n /\ s \notin objects
      <3>1. s \in 1..a /\ \A k \in s..a : k \notin objects
        BY <2>1
      <3> QED  BY <3>1
    <2>3. RunEnds(objects, n, s, a)
      BY <1>7, <2>1, <2>2 DEF RunEnds
    <2>4. C[s] = J(s, a) \o nl
      BY <2>1, <2>2, <2>3 DEF IsLayout, J, Join
    <2>5. B(a) = <<>>
      BY <1>7 DEF Between, B
    <2> DEFINE x == cs[s - 1]
               y == J(s, a)
    <2>6. x \in T /\ y \in T
      BY <1>3, <1>5, <2>2
    <2>7. ws[a] = x \o (y \o <<>>) /\ cs[a] = x \o (y \o nl)
      BY <2>1, <2>4, <2>5
    <2> HIDE DEF x, y
    <2>8. y \o <<>> = y
      BY <2>6 DEF IsTexts
    <2>9. x \o (y \o nl) = (x \o y) \o nl
      <3>1. Associate(x, y, nl)
        BY <2>6, Associates
      <3> QED  BY <3>1 DEF Associate
    <2> QED  BY <2>7, <2>8, <2>9
  <1>8. P(0)
    BY DEF Sums
  <1>9. ASSUME NEW a \in Nat, NEW b \in 1..n, b = a + 1, P(a)
        PROVE  P(b)
    <2>1. a \in 0..n /\ b # 0 /\ b - 1 = a /\ (a = 0 <=> ~(b > 1))
      BY <1>9
    <2>2. ws[b] = ws[a] \o W[b] /\ cs[b] = cs[a] \o C[b]
      BY <1>4, <1>9, <2>1
    <2>3. /\ ws[a] \in T /\ cs[a] \in T /\ C[b] \in T /\ F[b] \in T /\ B(b) \in T
      BY <1>3, <1>6, <2>1
    <2>4. CASE b \in objects
      <3>1. W[b] = BeforeObject(objects, nl, b) \o C[b]
        BY <2>4 DEF IsLayout
      <3>2. CASE a = 0 \/ a \in objects
        <4>1. BeforeObject(objects, nl, b) = <<>>
          BY <2>1, <3>2 DEF BeforeObject
        <4>2. <<>> \o C[b] = C[b]
          BY <2>3 DEF IsTexts
        <4>3. ws[a] = cs[a]
          BY <1>9, <3>2
        <4>4. ws[b] = cs[b]
          BY <2>2, <3>1, <4>1, <4>2, <4>3
        <4> QED  BY <2>4, <4>4
      <3>3. CASE ~(a = 0 \/ a \in objects)
        <4>1. BeforeObject(objects, nl, b) = nl
          BY <2>1, <3>3 DEF BeforeObject
        <4>2. a \in 1..n /\ a \notin objects /\ a + 1 \in objects
          BY <1>9, <2>1, <2>4, <3>3
        <4>3. cs[a] = ws[a] \o nl
          BY <1>7, <1>9, <4>2
        <4>4. ws[a] \o (nl \o C[b]) = (ws[a] \o nl) \o C[b]
          <5>1. Associate(ws[a], nl, C[b])
            BY <2>3, Associates
          <5> QED  BY <5>1 DEF Associate
        <4>5. ws[b] = cs[b]
          BY <2>2, <3>1, <4>1, <4>3, <4>4
        <4> QED  BY <2>4, <4>5
      <3> QED  BY <3>2, <3>3
    <2>5. CASE b \notin objects
      <3>1. W[b] = F[b] \o B(b)
        BY <2>5 DEF IsLayout, B
      <3>2. CASE a = 0 \/ a \in objects
        <4>1. Begins(objects, b)
          BY <2>1, <3>2 DEF Begins
        <4>2. ws[a] = cs[a] /\ J(b, b) = F[b]
          BY <1>5, <1>9, <3>2
        <4>3. ws[b] = cs[b - 1] \o (J(b, b) \o B(b)) /\ cs[b] = cs[b - 1] \o C[b]
          BY <2>1, <2>2, <3>1, <4>2
        <4>4. b \in 1..b /\ \A k \in b..b : k \notin objects
          BY <2>5
        <4>5. Run(b, b)
          BY <4>1, <4>3, <4>4
        <4> QED  BY <2>1, <2>5, <4>4, <4>5
      <3>3. CASE ~(a = 0 \/ a \in objects)
        <4>1. PICK s \in 1..a : Run(a, s)
          BY <1>9, <3>3
        <4>2. s \in 1..b /\ s \in 1..n /\ a \in s..n /\ b \in s..n /\ s - 1 \in 0..n
          BY <1>9, <2>1, <4>1
        <4>3. B(a) = sep
          BY <1>9, <2>5, <3>3 DEF Between, B
        <4>4. C[b] = <<>>
          <5>1. ~Begins(objects, b)
            BY <2>1, <3>3 DEF Begins
          <5> QED  BY <2>5, <5>1 DEF IsLayout
        <4>5. \A k \in s..b : k \notin objects
          <5>1. \A k \in s..b : k \in s..a \/ k = b
            BY <1>9, <4>1
          <5> QED  BY <2>5, <4>1, <5>1
        <4>6. J(s, b) = J(s, a) \o (sep \o F[b])
          BY <1>5, <1>9, <4>2
        <4> DEFINE c == cs[s - 1]
                   j == J(s, a)
        <4>7. c \in T /\ j \in T
          BY <1>3, <1>5, <4>2
        <4>8. ws[b] = (c \o (j \o sep)) \o (F[b] \o B(b))
          BY <2>2, <3>1, <4>1, <4>3
        <4>9. ws[b] = c \o ((j \o (sep \o F[b])) \o B(b))
          <5> HIDE DEF c, j
          <5>1. (c \o (j \o sep)) \o (F[b] \o B(b)) = c \o ((j \o (sep \o F[b])) \o B(b))
            <6>1. Rearranged(c, j, sep, F[b], B(b))
              BY <2>3, <4>7, FiveParts
            <6> QED  BY <6>1 DEF Rearranged
          <5> QED  BY <4>8, <5>1
        <4>10. ws[b] = cs[s - 1] \o (J(s, b) \o B(b))
          BY <4>6, <4>9
        <4>11. cs[b] = cs[s - 1] \o C[s]
          <5>1. cs[b] = cs[a] \o <<>>
            BY <2>2, <4>4
          <5>2. cs[a] \o <<>> = cs[a]
            BY <2>3 DEF IsTexts
          <5> QED  BY <4>1, <5>1, <5>2
        <4>12. Run(b, s)
          BY <4>1, <4>2, <4>5, <4>10, <4>11
        <4> QED  BY <2>1, <2>5, <4>2, <4>12
      <3> QED  BY <3>2, <3>3
    <2> QED  BY <2>4, <2>5
  <1>10. P(n)
    <2> DEFINE S == {a \in Nat : a \in 0..n => P(a)}
    <2> HIDE DEF P
    <2>1. 0 \in S
      BY <1>8
    <2>2. ASSUME NEW a \in Nat, a \in S PROVE a + 1 \in S
      <3> DEFINE b == a + 1
      <3> SUFFICES ASSUME b \in 0..n PROVE P(b)
        OBVIOUS
      <3>1. b \in 1..n /\ b = a + 1 /\ P(a)
        BY <2>2
      <3> HIDE DEF b
      <3> QED  BY <1>9, <3>1
    <2>3. Nat \subseteq S
      <3> HIDE DEF S
      <3> QED  BY <2>1, <2>2, Induction
    <2> QED  BY <2>3
  <1>11. CASE n \in objects
    <2>1. ws[n] = cs[n]
      BY <1>10, <1>11
    <2>2. ws[n] \in T
      BY <1>3
    <2> QED  BY <1>11, <2>1, <2>2 DEF IsTexts, LaidOut
  <1>12. CASE n \notin objects
    <2>1. cs[n] = ws[n] \o nl
      <3> HIDE DEF P
      <3>1. n \in 1..n
        OBVIOUS
      <3> QED  BY <1>7, <1>10, <1>12, <3>1
    <2> QED  BY <1>12, <2>1 DEF LaidOut
  <1> QED  BY <1>11, <1>12

---------------------------------------------------------------------------
(* What is written for a row of values, and its lines. *)

RunEnd(row, i) ==
    CHOOSE j \in i..Len(row) : /\ \A k \in i..j : ~IsObject(row[k])
                               /\ j = Len(row) \/ IsObject(row[j + 1])

Separator(opts) == IF opts.array THEN Text(opts.delimiter) ELSE <<Newline>>

Cell(row, opts, i) ==
    IF IsObject(row[i]) THEN Append(Json(row[i], opts.indent), Newline)
    ELSE IF ~IsObject(row[i]) /\ (i = 1 \/ IsObject(row[i - 1]))
         THEN Append(Joined([k \in 1..(RunEnd(row, i) - i + 1) |-> Field(row[i + k - 1], opts)], Separator(opts)), Newline)
    ELSE <<>>

LEMMA LinesAreCells ==
    ASSUME NEW row \in Seq(Values), NEW opts
    PROVE  Lines(row, opts) = FlattenSeq([i \in 1..Len(row) |-> Cell(row, opts, i)])
  <1>1. DOMAIN row = 1..Len(row)
    OBVIOUS
  <1> QED  BY <1>1 DEF Lines, Cell, Separator, RunEnd

Objects(row) == {a \in 1..Len(row) : IsObject(row[a])}

LEMMA RunHasEnd ==
    ASSUME NEW row, NEW n \in Nat, n = Len(row), NEW i \in 1..n, i \notin Objects(row)
    PROVE  \E e \in 1..n : RunEnds(Objects(row), n, i, e)
  <1> DEFINE S == {j \in i..n : j = n \/ j + 1 \in Objects(row)}
  <1>1. S # {} /\ S \subseteq Nat
    <2>1. n \in S
      OBVIOUS
    <2> QED  BY <2>1
  <1>2. PICK e \in S : \A k \in S : e <= k
    <2> HIDE DEF S
    <2> QED  BY <1>1, LeastNumber
  <1>3. ASSUME NEW k \in i..e PROVE k \notin Objects(row)
    <2>1. CASE k = i
      BY <2>1
    <2>2. CASE k # i
      <3>1. k - 1 \in i..n /\ k - 1 < e /\ (k - 1) + 1 = k /\ k - 1 # n
        BY <1>2, <2>2
      <3>2. k - 1 \notin S
        <4> DEFINE j == k - 1
        <4>1. j \in Int /\ j < e /\ e \in Nat
          BY <1>1, <3>1
        <4> HIDE DEF S, j
        <4>2. j \notin S
          BY <1>2, <4>1
        <4> QED  BY <4>2 DEF j
      <3> QED  BY <3>1, <3>2
    <2> QED  BY <2>1, <2>2
  <1> QED  BY <1>2, <1>3 DEF RunEnds

LEMMA RunEndIsEnd ==
    ASSUME NEW row, NEW n \in Nat, n = Len(row), NEW i \in 1..n, NEW e \in 1..n, RunEnds(Objects(row), n, i, e)
    PROVE  RunEnd(row, i) = e
  <1> DEFINE IsEnd(j) == (\A k \in i..j : ~IsObject(row[k])) /\ (j = n \/ IsObject(row[j + 1]))
             r == RunEnd(row, i)
  <1>1. e \in i..n /\ IsEnd(e)
    BY DEF RunEnds, Objects
  <1>2. r \in i..n /\ IsEnd(r)
    <2>1. \E j \in i..n : IsEnd(j)
      BY <1>1
    <2>2. r = CHOOSE j \in i..n : IsEnd(j)
      BY DEF RunEnd
    <2> HIDE DEF IsEnd, r
    <2> QED  BY <2>1, <2>2
  <1> HIDE DEF r
  <1>3. ~(r < e)
    <2>1. SUFFICES ASSUME r < e PROVE FALSE
      OBVIOUS
    <2>2. r # n /\ r + 1 \in i..e
      BY <1>1, <1>2, <2>1
    <2> QED  BY <1>1, <1>2, <2>2
  <1>4. ~(e < r)
    <2>1. SUFFICES ASSUME e < r PROVE FALSE
      OBVIOUS
    <2>2. e # n /\ e + 1 \in i..r
      BY <1>1, <1>2, <2>1
    <2> QED  BY <1>1, <1>2, <2>2
  <1>5. r = e
    BY <1>1, <1>2, <1>3, <1>4
  <1> QED  BY <1>5 DEF r

\* Texts that are written one after the other.
Flat(T, x, y) ==
    /\ <<x>> \in Seq(T) /\ FlattenSeq(<<x>>) = x
    /\ <<x>> \o <<y>> \in Seq(T) /\ FlattenSeq(<<x>> \o <<y>>) = x \o y
    /\ <<>> \o <<x>> = <<x>> /\ <<x>> \o <<>> = <<x>>
    /\ x \o y \in T

LEMMA FlattenPair ==
    ASSUME NEW S, NEW x \in Seq(S), NEW y \in Seq(S) PROVE Flat(Seq(S), x, y)
  <1>0. x \o y \in Seq(S)
    OBVIOUS
  <1> DEFINE r == <<x>>
             s == <<y>>
  <1>1. r \in Seq(Seq(S)) /\ s \in Seq(Seq(S)) /\ Len(r) = 1 /\ Len(s) = 1 /\ r[1] = x /\ s[1] = y
    OBVIOUS
  <1>2. <<>> \o r = r /\ r \o <<>> = r /\ r \o s \in Seq(Seq(S)) /\ <<>> \in Seq(Seq(S))
    OBVIOUS
  <1> HIDE DEF r, s
  <1>3. FlattenSeq(r) = x
    BY <1>1, FlattenOne
  <1>4. FlattenSeq(s) = y
    BY <1>1, FlattenOne
  <1>5. FlattenSeq(r \o s) = FlattenSeq(r) \o FlattenSeq(s)
    BY <1>1, FlattenConcat
  <1>6. FlattenSeq(r \o s) = x \o y
    BY <1>3, <1>4, <1>5
  <1> QED  BY <1>0, <1>1, <1>2, <1>3, <1>6 DEF r, s, Flat

IsRow(row, opts) == row \in FoundRows /\ opts.delimiter \in Seq(Symbols) /\ Regular(row, opts)

Line(row, opts, a) == Append(Json(row[a], opts.indent), Newline)

LEMMA RowTyped ==
    ASSUME NEW row, NEW opts, IsRow(row, opts)
    PROVE  /\ Len(row) \in Nat \ {0} /\ DOMAIN row = 1..Len(row)
           /\ \A a \in 1..Len(row) : row[a] \in Values
           /\ Text(opts.delimiter) \in Seq(Units(opts))
           /\ Separator(opts) \in Seq(Units(opts))
           /\ <<Newline>> \in Seq(Units(opts))
           /\ \A a \in 1..Len(row) :
                 /\ Line(row, opts, a) \in Seq(Units(opts))
                 /\ Line(row, opts, a) = Json(row[a], opts.indent) \o <<Newline>>
                 /\ Shown(row[a], opts) \in Seq(Units(opts))
                 /\ Field(row[a], opts) \in Seq(Units(opts))
  <1>1. row \in Seq(Values) /\ row # <<>>
    BY DEF IsRow, FoundRows
  <1>2. Len(row) \in Nat \ {0} /\ DOMAIN row = 1..Len(row) /\ \A a \in 1..Len(row) : row[a] \in Values
    BY <1>1
  <1>3. Text(opts.delimiter) \in Seq(Units(opts)) /\ Newline \in Units(opts)
    BY CharsAreText DEF IsRow
  <1>4. <<Newline>> \in Seq(Units(opts))
    BY <1>3
  <1>5. Separator(opts) \in Seq(Units(opts))
    BY <1>3, <1>4 DEF Separator
  <1>6. ASSUME NEW a \in 1..Len(row)
        PROVE  /\ Json(row[a], opts.indent) \in Seq(Units(opts))
               /\ Shown(row[a], opts) \in Seq(Units(opts))
               /\ Field(row[a], opts) \in Seq(Units(opts))
    BY <1>2, ValuesAreText
  <1>7. ASSUME NEW a \in 1..Len(row)
        PROVE  /\ Line(row, opts, a) \in Seq(Units(opts))
               /\ Line(row, opts, a) = Json(row[a], opts.indent) \o <<Newline>>
    <2> DEFINE j == Json(row[a], opts.indent)
    <2>1. j \in Seq(Units(opts))
      BY <1>6
    <2> HIDE DEF j
    <2>2. Append(j, Newline) \in Seq(Units(opts)) /\ Append(j, Newline) = j \o <<Newline>>
      BY <1>3, <2>1
    <2> QED  BY <2>2 DEF j, Line
  <1> QED  BY <1>2, <1>3, <1>4, <1>5, <1>6, <1>7

\* What is written for one value.
WrittenFor(row, opts, a) ==
    IF a \in Objects(row) THEN BeforeObject(Objects(row), <<Newline>>, a) \o Line(row, opts, a)
    ELSE Field(row[a], opts) \o Between(Objects(row), Len(row), Separator(opts), a)

LEMMA ValueWritten ==
    ASSUME NEW row, NEW opts, IsRow(row, opts), NEW a \in 1..Len(row)
    PROVE  /\ ValueWrites(row, a, opts) \in Seq(Seq(Units(opts)))
           /\ FlattenSeq(ValueWrites(row, a, opts)) = WrittenFor(row, opts, a)
           /\ WrittenFor(row, opts, a) \in Seq(Units(opts))
  <1> DEFINE n == Len(row)
             T == Seq(Units(opts))
             nl == <<Newline>>
             field == Field(row[a], opts)
             sep == Separator(opts)
             delim == Text(opts.delimiter)
             line == Line(row, opts, a)
  <1>1. n \in Nat \ {0} /\ delim \in T /\ sep \in T /\ nl \in T /\ line \in T /\ field \in T
    BY RowTyped
  <1>2. /\ n - 1 \in Int
        /\ \A k \in 1..(n - 1) : IsObject(row[k + 1]) => IsObject(row[k]) \/ k > 1
        /\ (\E k \in 1..n : IsUndefined(row[k])) => n = 1 \/ (opts.array /\ \A k \in 1..n : ~IsObject(row[k]))
    BY RowTyped DEF IsRow, Regular
  <1>3. CASE IsUndefined(row[a])
    <2>1. a \notin Objects(row) /\ field = <<>> /\ ~IsObject(row[a])
      BY <1>3 DEF IsUndefined, IsObject, Objects, Field
    <2>2. CASE a < n
      <3>1. ValueWrites(row, a, opts) = <<delim>>
        BY <1>3, <2>1, <2>2 DEF ValueWrites
      <3>2. opts.array /\ a + 1 \notin Objects(row)
        BY <1>2, <1>3, <2>2 DEF Objects
      <3>3. Between(Objects(row), n, sep, a) = sep /\ sep = delim
        BY <2>2, <3>2 DEF Between, Separator
      <3>4. WrittenFor(row, opts, a) = <<>> \o sep
        BY <2>1, <3>3 DEF WrittenFor
      <3>5. <<>> \o sep = sep
        <4> HIDE DEF sep
        <4> QED  BY <1>1
      <3> HIDE DEF sep, delim
      <3>6. Flat(T, delim, delim)
        BY <1>1, FlattenPair
      <3> QED  BY <1>1, <3>1, <3>3, <3>4, <3>5, <3>6 DEF Flat
    <2>3. CASE ~(a < n)
      <3>1. ValueWrites(row, a, opts) = <<>>
        BY <1>3, <2>1, <2>3 DEF ValueWrites
      <3>2. Between(Objects(row), n, sep, a) = <<>>
        BY <2>3 DEF Between
      <3>3. WrittenFor(row, opts, a) = <<>> \o <<>>
        BY <2>1, <3>2 DEF WrittenFor
      <3>4. <<>> \o <<>> = <<>> /\ <<>> \in T /\ <<>> \in Seq(T)
        OBVIOUS
      <3> QED  BY <3>1, <3>3, <3>4, FlattenNone
    <2> QED  BY <2>2, <2>3
  <1>4. CASE IsObject(row[a])
    <2> DEFINE before == IF a > 2 /\ ~IsObject(row[a - 1]) THEN <<nl>> ELSE <<>>
    <2>1. a \in Objects(row) /\ ~IsUndefined(row[a])
      BY <1>4 DEF IsUndefined, IsObject, Objects
    <2>2. ValueWrites(row, a, opts) = before \o <<line>>
      BY <1>4, <2>1 DEF ValueWrites, Line
    <2>3. WrittenFor(row, opts, a) = BeforeObject(Objects(row), nl, a) \o line
      BY <2>1 DEF WrittenFor
    <2>4. CASE a > 1 /\ ~IsObject(row[a - 1])
      <3>1. a - 1 \in 1..(n - 1) /\ (a - 1) + 1 = a
        BY <1>1, <2>4
      <3>2. a - 1 > 1
        BY <1>2, <1>4, <2>4, <3>1
      <3>3. before = <<nl>>
        BY <2>4, <3>2
      <3>4. BeforeObject(Objects(row), nl, a) = nl
        BY <2>4, <3>1 DEF BeforeObject, Objects
      <3> HIDE DEF nl, line, before
      <3>5. Flat(T, nl, line)
        BY <1>1, FlattenPair
      <3> QED  BY <2>2, <2>3, <3>3, <3>4, <3>5 DEF Flat
    <2>5. CASE ~(a > 1 /\ ~IsObject(row[a - 1]))
      <3>1. before = <<>>
        BY <2>5
      <3>2. BeforeObject(Objects(row), nl, a) = <<>>
        <4>1. a > 1 => a - 1 \in 1..n
          BY <1>1
        <4> QED  BY <2>5, <4>1 DEF BeforeObject, Objects
      <3> HIDE DEF nl, line, before
      <3>3. Flat(T, line, line)
        BY <1>1, FlattenPair
      <3>4. <<>> \o line = line
        BY <1>1
      <3> QED  BY <1>1, <2>2, <2>3, <3>1, <3>2, <3>3, <3>4 DEF Flat
    <2> QED  BY <2>4, <2>5
  <1>5. CASE ~IsUndefined(row[a]) /\ ~IsObject(row[a])
    <2> DEFINE after == IF Separates(row, a, opts) THEN <<sep>> ELSE <<>>
    <2>1. a \notin Objects(row) /\ field = Shown(row[a], opts)
      BY <1>5 DEF Objects, Field
    <2>2. ValueWrites(row, a, opts) = <<field>> \o after
      BY <1>5, <2>1 DEF ValueWrites, Separator
    <2>3. WrittenFor(row, opts, a) = field \o Between(Objects(row), n, sep, a)
      BY <2>1 DEF WrittenFor
    <2>4. CASE Separates(row, a, opts)
      <3>1. Between(Objects(row), n, sep, a) = sep
        BY <2>4 DEF Separates, Between, Objects
      <3>2. after = <<sep>>
        BY <2>4
      <3> HIDE DEF field, sep, after
      <3>3. Flat(T, field, sep)
        BY <1>1, FlattenPair
      <3> QED  BY <2>2, <2>3, <3>1, <3>2, <3>3 DEF Flat
    <2>5. CASE ~Separates(row, a, opts)
      <3>1. Between(Objects(row), n, sep, a) = <<>>
        <4>1. a < n => a + 1 \in 1..n
          BY <1>1
        <4> QED  BY <2>5, <4>1 DEF Separates, Between, Objects
      <3>2. after = <<>>
        BY <2>5
      <3> HIDE DEF field, sep, after
      <3>3. Flat(T, field, field)
        BY <1>1, FlattenPair
      <3>4. field \o <<>> = field
        BY <1>1
      <3> QED  BY <1>1, <2>2, <2>3, <3>1, <3>2, <3>3, <3>4 DEF Flat
    <2> QED  BY <2>4, <2>5
  <1> QED  BY <1>3, <1>4, <1>5

LEMMA CellsAreLines ==
    ASSUME NEW row, NEW opts, IsRow(row, opts), NEW a \in 1..Len(row)
    PROVE  /\ Cell(row, opts, a) \in Seq(Units(opts))
           /\ a \in Objects(row) => Cell(row, opts, a) = Line(row, opts, a)
           /\ a \notin Objects(row) /\ ~Begins(Objects(row), a) => Cell(row, opts, a) = <<>>
           /\ \A e \in 1..Len(row) :
                 a \notin Objects(row) /\ Begins(Objects(row), a) /\ RunEnds(Objects(row), Len(row), a, e) =>
                    Cell(row, opts, a) =
                       Join([k \in 1..Len(row) |-> Field(row[k], opts)], Separator(opts), a, e) \o <<Newline>>
  <1> DEFINE n == Len(row)
             T == Seq(Units(opts))
             nl == <<Newline>>
             sep == Separator(opts)
             F == [k \in 1..n |-> Field(row[k], opts)]
  <1>1. n \in Nat \ {0} /\ sep \in T /\ nl \in T /\ Newline \in Units(opts) /\ Line(row, opts, a) \in T
    BY RowTyped, CharsAreText DEF IsRow
  <1>2. F \in [1..n -> T]
    BY RowTyped
  <1>3. a > 1 => a - 1 \in 1..n
    BY <1>1
  <1>4. CASE a \in Objects(row)
    <2>1. Cell(row, opts, a) = Line(row, opts, a)
      BY <1>4 DEF Cell, Line, Objects
    <2> QED  BY <1>1, <1>4, <2>1
  <1>5. CASE a \notin Objects(row) /\ ~Begins(Objects(row), a)
    <2>1. Cell(row, opts, a) = <<>>
      BY <1>3, <1>5 DEF Cell, Objects, Begins
    <2>2. <<>> \in T
      OBVIOUS
    <2> QED  BY <1>5, <2>1, <2>2
  <1>6. CASE a \notin Objects(row) /\ Begins(Objects(row), a)
    <2>1. ASSUME NEW e \in 1..n, RunEnds(Objects(row), n, a, e)
          PROVE  Cell(row, opts, a) = Join(F, sep, a, e) \o nl /\ Join(F, sep, a, e) \in T
      <3>1. RunEnd(row, a) = e
        BY <1>1, <2>1, RunEndIsEnd
      <3>2. e \in a..n
        BY <2>1 DEF RunEnds
      <3>3. [k \in 1..(e - a + 1) |-> Field(row[a + k - 1], opts)] = FieldsOf(F, a, e)
        <4>1. \A k \in 1..(e - a + 1) : a + k - 1 \in 1..n
          BY <1>1, <3>2
        <4>2. \A k \in 1..(e - a + 1) : F[a + k - 1] = Field(row[a + k - 1], opts)
          BY <4>1
        <4> HIDE DEF F
        <4> QED  BY <4>2 DEF FieldsOf
      <3>4. Cell(row, opts, a) = Append(Join(F, sep, a, e), Newline)
        <4>1. ~IsObject(row[a]) /\ (a = 1 \/ IsObject(row[a - 1]))
          BY <1>3, <1>6 DEF Objects, Begins
        <4>2. Cell(row, opts, a) =
                 Append(Joined([k \in 1..(RunEnd(row, a) - a + 1) |-> Field(row[a + k - 1], opts)], sep), Newline)
          BY <4>1 DEF Cell
        <4> QED  BY <3>1, <3>3, <4>2 DEF Join
      <3>5. Join(F, sep, a, e) \in T
        <4>1. JoinsFrom(F, sep, n, T, a)
          <5> HIDE DEF F, sep
          <5> QED  BY <1>1, <1>2, FieldsJoined
        <4> QED  BY <3>2, <4>1 DEF JoinsFrom
      <3> DEFINE x == Join(F, sep, a, e)
      <3> HIDE DEF x
      <3>6. x \in T
        BY <3>5 DEF x
      <3>7. Append(x, Newline) = x \o nl
        BY <1>1, <3>6
      <3> QED  BY <3>4, <3>6, <3>7 DEF x
    <2>2. PICK e \in 1..n : RunEnds(Objects(row), n, a, e)
      BY <1>1, <1>6, RunHasEnd
    <2>3. Cell(row, opts, a) \in T
      <3> DEFINE x == Join(F, sep, a, e)
      <3>1. Cell(row, opts, a) = x \o nl /\ x \in T
        BY <2>1, <2>2
      <3> HIDE DEF x
      <3> QED  BY <1>1, <3>1
    <2> QED  BY <1>6, <2>1, <2>3
  <1> QED  BY <1>4, <1>5, <1>6

LEMMA FieldsOfRowJoined ==
    ASSUME NEW U, NEW n \in Nat, NEW F \in [1..n -> Seq(U)], NEW sep \in Seq(U)
    PROVE  JoinsFields(F, sep, n, Seq(U))
  BY FieldsJoined DEF JoinsFields

LEMMA RowIsLayout ==
    ASSUME NEW row, NEW opts, IsRow(row, opts)
    PROVE  IsLayout(Objects(row), Len(row), [a \in 1..Len(row) |-> WrittenFor(row, opts, a)],
                    [a \in 1..Len(row) |-> Cell(row, opts, a)], [a \in 1..Len(row) |-> Field(row[a], opts)],
                    Separator(opts), <<Newline>>)
  BY CellsAreLines DEF IsLayout, WrittenFor, Join

LEMMA RowWrittenIsLines ==
    ASSUME NEW row, NEW opts, IsRow(row, opts)
    PROVE  /\ RowWrites(row, opts) \in Seq(Seq(Units(opts)))
           /\ Lines(row, opts) \in Seq(Units(opts))
           /\ FlattenSeq(RowWrites(row, opts)) = Lines(row, opts)
  <1> DEFINE n == Len(row)
             T == Seq(Units(opts))
             nl == <<Newline>>
             sep == Separator(opts)
             F == [a \in 1..n |-> Field(row[a], opts)]
             W == [a \in 1..n |-> WrittenFor(row, opts, a)]
             C == [a \in 1..n |-> Cell(row, opts, a)]
             V == [a \in 1..n |-> ValueWrites(row, a, opts)]
             last == IF IsObject(row[n]) THEN <<>> ELSE <<nl>>
             end == IF n \in Objects(row) THEN <<>> ELSE nl
  <1>1. /\ n \in Nat \ {0} /\ sep \in T /\ nl \in T /\ DOMAIN row = 1..n /\ F \in [1..n -> T]
        /\ n \in 1..n
    BY RowTyped
  <1>2. V \in Seq(Seq(T)) /\ Len(V) = n
    <2>1. V \in [1..n -> Seq(T)]
      BY ValueWritten
    <2> HIDE DEF V, T, n
    <2> QED  BY <1>1, <2>1, FunctionIsSeq
  <1>3. Flats(V) = W /\ W \in [1..n -> T]
    BY <1>2, ValueWritten DEF Flats
  <1>4. W \in Seq(T) /\ Len(W) = n
    <2> HIDE DEF W, T, n
    <2> QED  BY <1>1, <1>3, FunctionIsSeq
  <1>5. C \in [1..n -> T]
    BY CellsAreLines
  <1>6. C \in Seq(T) /\ Len(C) = n
    <2> HIDE DEF C, T, n
    <2> QED  BY <1>1, <1>5, FunctionIsSeq
  <1>7. FlattenSeq(V) \in Seq(T) /\ FlattenSeq(FlattenSeq(V)) = FlattenSeq(W)
    <2>1. FlattenSeq(V) \in Seq(T)
      <3> HIDE DEF V, T
      <3> QED  BY <1>2, FlattenIsSeq
    <2>2. FlattenSeq(FlattenSeq(V)) = FlattenSeq(Flats(V))
      <3> HIDE DEF V
      <3> QED  BY <1>2, FlattenFlatten
    <2> QED  BY <1>3, <2>1, <2>2
  <1>8. RowWrites(row, opts) = FlattenSeq(V) \o last
    BY <1>1 DEF RowWrites
  <1>9. last \in Seq(T) /\ FlattenSeq(last) = end
    <2>1. n \in Objects(row) <=> IsObject(row[n])
      BY <1>1 DEF Objects
    <2>2. Flat(T, nl, nl)
      BY <1>1, FlattenPair
    <2>3. <<>> \in Seq(T) /\ FlattenSeq(<<>>) = <<>>
      BY FlattenNone
    <2> HIDE DEF nl
    <2> QED  BY <2>1, <2>2, <2>3 DEF Flat
  <1> HIDE DEF V, W, C, F, last, end
  <1>10. RowWrites(row, opts) \in Seq(T) /\ FlattenSeq(RowWrites(row, opts)) = FlattenSeq(W) \o end
    <2> DEFINE v == FlattenSeq(V)
    <2>1. v \in Seq(T) /\ last \in Seq(T)
      BY <1>7, <1>9
    <2> HIDE DEF v
    <2>2. FlattenSeq(v \o last) = FlattenSeq(v) \o FlattenSeq(last)
      BY <2>1, FlattenConcat
    <2>3. v \o last \in Seq(T)
      <3> HIDE DEF T
      <3> QED  BY <2>1
    <2> QED  BY <1>7, <1>8, <1>9, <2>2, <2>3 DEF v
  <1>11. Lines(row, opts) = FlattenSeq(C)
    <2>1. row \in Seq(Values)
      BY DEF IsRow, FoundRows
    <2> QED  BY <2>1, LinesAreCells DEF C
  <1>12. FlattenSeq(C) \in T
    BY <1>6, FlattenIsSeq
  <1>13. PICK ws \in [0..n -> T] : IsSum(ws, W) /\ FlattenSeq(W) = ws[n]
    BY <1>4, FlattenSums
  <1>14. PICK cs \in [0..n -> T] : IsSum(cs, C) /\ FlattenSeq(C) = cs[n]
    BY <1>6, FlattenSums
  <1>15. Sums(n, W, C, ws, cs)
    <2>1. ASSUME NEW a \in 0..n, NEW b \in 1..n, b = a + 1
          PROVE  ws[b] = ws[a] \o W[b] /\ cs[b] = cs[a] \o C[b]
      <3>1. b - 1 = a
        BY <2>1
      <3>2. ws[b] = ws[b - 1] \o W[b] /\ cs[b] = cs[b - 1] \o C[b]
        BY <1>4, <1>6, <1>13, <1>14 DEF IsSum
      <3> QED  BY <3>1, <3>2
    <2> QED  BY <1>13, <1>14, <2>1 DEF Sums, IsSum
  <1>16. IsTexts(T) /\ JoinsFields(F, sep, n, T)
    BY <1>1, SequencesAreTexts, FieldsOfRowJoined
  <1>17. IsLayout(Objects(row), n, W, C, F, sep, nl)
    BY RowIsLayout DEF W, C, F
  <1>18. Objects(row) \in SUBSET (1..n)
    BY DEF Objects
  <1>19. ws[n] \o end = cs[n]
    <2> DEFINE o == Objects(row)
    <2>1. o \in SUBSET (1..n) /\ IsLayout(o, n, W, C, F, sep, nl) /\ end = IF n \in o THEN <<>> ELSE nl
      BY <1>17, <1>18 DEF end
    <2>2. Row(T, n, o, W, C, F, ws, cs, sep, nl)
      <3> HIDE DEF T, n, sep, nl, o
      <3> QED  BY <1>1, <1>3, <1>5, <1>15, <1>16, <2>1 DEF Row
    <2>3. LaidOut(n, o, ws, cs, nl)
      <3> HIDE DEF T, n, sep, nl, o
      <3> QED  BY <2>2, RowLaidOut
    <2> QED  BY <2>1, <2>3 DEF LaidOut
  <1> QED  BY <1>10, <1>11, <1>12, <1>13, <1>14, <1>19

---------------------------------------------------------------------------
(* Rows. *)

RegularRows(opts) == {row \in FoundRows : Regular(row, opts)}

WritesOf(rows, opts) == FlattenSeq([i \in 1..Len(rows) |-> RowWrites(rows[i], opts)])
LinesOf(rows, opts)  == FlattenSeq([i \in 1..Len(rows) |-> Lines(rows[i], opts)])

RowsAre(rows, opts) ==
    /\ WritesOf(rows, opts) \in Seq(Seq(Units(opts)))
    /\ LinesOf(rows, opts) \in Seq(Units(opts))
    /\ FlattenSeq(WritesOf(rows, opts)) = LinesOf(rows, opts)
    /\ [i \in 1..Len(rows) |-> Lines(rows[i], opts)] \in Seq(Seq(Units(opts)))

LEMMA RowsWritten ==
    ASSUME NEW opts, opts.delimiter \in Seq(Symbols), NEW rows \in Seq(RegularRows(opts))
    PROVE  RowsAre(rows, opts)
  <1> DEFINE n == Len(rows)
             T == Seq(Units(opts))
             V == [i \in 1..n |-> RowWrites(rows[i], opts)]
             W == [i \in 1..n |-> Lines(rows[i], opts)]
  <1>1. n \in Nat /\ \A i \in 1..n : rows[i] \in RegularRows(opts)
    OBVIOUS
  <1>2. ASSUME NEW i \in 1..n
        PROVE  /\ RowWrites(rows[i], opts) \in Seq(T) /\ Lines(rows[i], opts) \in T
               /\ FlattenSeq(RowWrites(rows[i], opts)) = Lines(rows[i], opts)
    <2> DEFINE row == rows[i]
    <2>1. IsRow(row, opts)
      BY <1>1 DEF RegularRows, IsRow
    <2> HIDE DEF row
    <2>2. /\ RowWrites(row, opts) \in Seq(T) /\ Lines(row, opts) \in T
          /\ FlattenSeq(RowWrites(row, opts)) = Lines(row, opts)
      BY <2>1, RowWrittenIsLines
    <2> QED  BY <2>2 DEF row
  <1>3. V \in Seq(Seq(T)) /\ Len(V) = n
    <2>1. V \in [1..n -> Seq(T)]
      BY <1>2
    <2> HIDE DEF V, T, n
    <2> QED  BY <1>1, <2>1, FunctionIsSeq
  <1>4. W \in Seq(T) /\ Len(W) = n
    <2>1. W \in [1..n -> T]
      BY <1>2
    <2> HIDE DEF W, T, n
    <2> QED  BY <1>1, <2>1, FunctionIsSeq
  <1>5. Flats(V) = W
    BY <1>2, <1>3 DEF Flats
  <1>6. FlattenSeq(V) \in Seq(T)
    <2> HIDE DEF V, T
    <2> QED  BY <1>3, FlattenIsSeq
  <1>7. FlattenSeq(FlattenSeq(V)) = FlattenSeq(Flats(V))
    <2> HIDE DEF V
    <2> QED  BY <1>3, FlattenFlatten
  <1>8. FlattenSeq(W) \in T
    <2> HIDE DEF W
    <2> QED  BY <1>4, FlattenIsSeq
  <1> QED  BY <1>4, <1>5, <1>6, <1>7, <1>8 DEF RowsAre, WritesOf, LinesOf

---------------------------------------------------------------------------
(* Turns. *)

TurnOK(t, opts) ==
    /\ t \in Turns /\ opts.delimiter \in Seq(Symbols)
    /\ \A i \in 1..Len(t.reads) : t.reads[i].rows \in Seq(RegularRows(opts))

\* The texts that are written when a piece is read.
TextsOfPiece(piece, opts) ==
    UnparsedTexts(piece) \o IF opts.keys THEN <<>> ELSE WritesOf(piece.rows, opts)

PieceWritten(piece, opts) ==
    /\ TextsOfPiece(piece, opts) \in Seq(Seq(Units(opts)))
    /\ Gives(piece, opts) \in Seq(Units(opts))
    /\ FlattenSeq(TextsOfPiece(piece, opts)) = Gives(piece, opts)

LEMMA PassedOn ==
    ASSUME NEW opts, NEW piece \in Pieces
    PROVE  /\ UnparsedTexts(piece) \in Seq(Seq(Units(opts))) /\ Text(piece.unparsed) \in Seq(Units(opts))
           /\ FlattenSeq(UnparsedTexts(piece)) = Text(piece.unparsed)
  <1> DEFINE U == Units(opts)
             w == piece.unparsed
             x == Text(w)
  <1>1. w \in Seq(Symbols)
    BY DEF Pieces
  <1>2. x \in Seq(U)
    BY <1>1, CharsAreText
  <1>3. CASE w = <<>>
    <2>1. x = <<>>
      <3>1. w # Undefined
        BY <1>1, UndefinedIsNoWord
      <3> QED  BY <1>3, <3>1 DEF Text
    <2>2. UnparsedTexts(piece) = <<>>
      BY <1>3 DEF UnparsedTexts
    <2>3. <<>> \in Seq(Seq(U))
      OBVIOUS
    <2> QED  BY <1>2, <2>1, <2>2, <2>3, FlattenNone
  <1>4. CASE w # <<>>
    <2>1. UnparsedTexts(piece) = <<x>>
      BY <1>4 DEF UnparsedTexts
    <2> HIDE DEF x
    <2>2. Flat(Seq(U), x, x)
      BY <1>2, FlattenPair
    <2> QED  BY <1>2, <2>1, <2>2 DEF Flat, x
  <1> QED  BY <1>3, <1>4

LEMMA PiecesWritten ==
    ASSUME NEW opts, opts.delimiter \in Seq(Symbols), NEW piece \in Pieces,
           piece.rows \in Seq(RegularRows(opts))
    PROVE  PieceWritten(piece, opts)
  <1> DEFINE U == Units(opts)
             rows == piece.rows
             x == Text(piece.unparsed)
             a == UnparsedTexts(piece)
             w == IF opts.keys THEN <<>> ELSE WritesOf(rows, opts)
             l == IF opts.keys THEN <<>> ELSE LinesOf(rows, opts)
  <1>1. a \in Seq(Seq(U)) /\ x \in Seq(U) /\ FlattenSeq(a) = x
    BY PassedOn
  <1>2. w \in Seq(Seq(U)) /\ l \in Seq(U) /\ FlattenSeq(w) = l
    <2>1. CASE opts.keys
      <3>1. <<>> \in Seq(Seq(U)) /\ <<>> \in Seq(U)
        OBVIOUS
      <3> QED  BY <2>1, <3>1, FlattenNone
    <2>2. CASE ~opts.keys
      <3>1. RowsAre(rows, opts)
        BY RowsWritten
      <3> QED  BY <2>2, <3>1 DEF RowsAre
    <2> QED  BY <2>1, <2>2
  <1>3. Gives(piece, opts) = x \o l
    <2>1. DOMAIN rows = 1..Len(rows)
      OBVIOUS
    <2> QED  BY <2>1 DEF Gives, LinesOf
  <1>4. TextsOfPiece(piece, opts) = a \o w
    BY DEF TextsOfPiece
  <1> HIDE DEF U, x, a, w, l
  <1>5. FlattenSeq(a \o w) = x \o l
    BY <1>1, <1>2, FlattenConcat
  <1>6. a \o w \in Seq(Seq(U)) /\ x \o l \in Seq(U)
    BY <1>1, <1>2
  <1> QED  BY <1>3, <1>4, <1>5, <1>6 DEF PieceWritten, U

\* The writes of a read, and those of the end of parse().
TextsRead(t, opts, n) == TextsOfPiece(t.reads[n + 1], opts)
TextsParsed(t, opts)  == IF opts.keys THEN KeyWrites(t.keys, opts) ELSE <<>>

KeysWritten(t, opts) ==
    /\ TextsParsed(t, opts) \in Seq(Seq(Units(opts)))
    /\ ListedKeys(t, opts) \in Seq(Units(opts))
    /\ FlattenSeq(TextsParsed(t, opts)) = ListedKeys(t, opts)

LEMMA KeysAreWritten ==
    ASSUME NEW t, NEW opts, TurnOK(t, opts)
    PROVE  KeysWritten(t, opts)
  <1> DEFINE T == Seq(Units(opts))
             n == Len(t.keys)
             A == [i \in 1..n |-> Append(Plain(t.keys[i]), Newline)]
  <1>1. t.keys \in Seq(Values) /\ n \in Nat /\ \A i \in 1..n : t.keys[i] \in Values
    <2>1. t.keys \in Seq(Values)
      BY DEF TurnOK, Turns
    <2> QED  BY <2>1
  <1>2. Newline \in Units(opts)
    BY CharsAreText DEF TurnOK
  <1>3. ASSUME opts.array PROVE KeyWrites(t.keys, opts) \in Seq(T)
    <2>1. KeyWrites(t.keys, opts) = A
      <3>1. DOMAIN t.keys = 1..n
        BY <1>1
      <3> QED  BY <1>3, <3>1 DEF KeyWrites
    <2>2. ASSUME NEW i \in 1..n PROVE Append(Plain(t.keys[i]), Newline) \in T
      <3> DEFINE p == Plain(t.keys[i])
      <3>1. p \in T
        BY <1>1, ValuesAreText
      <3> HIDE DEF p
      <3>2. Append(p, Newline) \in T
        BY <1>2, <3>1
      <3> QED  BY <3>2 DEF p
    <2>3. A \in Seq(T)
      <3>1. A \in [1..n -> T]
        BY <2>2
      <3> HIDE DEF A, T, n
      <3> QED  BY <1>1, <3>1, FunctionIsSeq
    <2> QED  BY <2>1, <2>3
  <1>4. ASSUME ~opts.array PROVE KeyWrites(t.keys, opts) \in Seq(T)
    <2> DEFINE j == Json(t.keys, opts.indent)
               x == Append(j, Newline)
    <2>1. j \in T
      BY <1>1, KeysAreText
    <2>2. x \in T
      <3> HIDE DEF j
      <3> QED  BY <1>2, <2>1
    <2>3. KeyWrites(t.keys, opts) = <<x>>
      BY <1>4 DEF KeyWrites
    <2> HIDE DEF x
    <2>4. Flat(T, x, x)
      BY <2>2, FlattenPair
    <2> QED  BY <2>3, <2>4 DEF Flat
  <1>5. KeyWrites(t.keys, opts) \in Seq(T)
    BY <1>3, <1>4
  <1>6. FlattenSeq(KeyWrites(t.keys, opts)) \in T
    <2> DEFINE k == KeyWrites(t.keys, opts)
    <2> HIDE DEF k
    <2>1. FlattenSeq(k) \in T
      BY <1>5, FlattenIsSeq DEF k
    <2> QED  BY <2>1 DEF k
  <1>7. CASE opts.keys
    BY <1>5, <1>6, <1>7 DEF KeysWritten, TextsParsed, ListedKeys
  <1>8. CASE ~opts.keys
    <2>1. TextsParsed(t, opts) = <<>> /\ ListedKeys(t, opts) = <<>>
      BY <1>8 DEF TextsParsed, ListedKeys
    <2>2. <<>> \in Seq(T) /\ <<>> \in T
      OBVIOUS
    <2> QED  BY <2>1, <2>2, FlattenNone DEF KeysWritten
  <1> QED  BY <1>7, <1>8

\* The first texts of a sequence, one after the other.
FirstOnes(texts, k) == FlattenSeq([i \in 1..k |-> texts[i]])

FirstAre(U, texts, n) ==
    /\ FirstOnes(texts, n) \in Seq(U)
    /\ n = 0 => FirstOnes(texts, n) = <<>>
    /\ n < Len(texts) => FirstOnes(texts, n + 1) = FirstOnes(texts, n) \o texts[n + 1]
    /\ \E rest \in Seq(U) : FirstOnes(texts, Len(texts)) = FirstOnes(texts, n) \o rest

LEMMA FirstTexts ==
    ASSUME NEW U, NEW A \in Seq(Seq(U)), NEW n \in 0..Len(A)
    PROVE  FirstAre(U, A, n)
  <1> DEFINE T == Seq(U)
             m == Len(A)
  <1>1. m \in Nat /\ n \in Nat /\ n <= m /\ A \in Seq(T) /\ \A i \in 1..m : A[i] \in T
    OBVIOUS
  <1>4. ASSUME NEW k \in 0..m PROVE FirstOnes(A, k) = FlattenSeq(SubSeq(A, 1, k))
    <2> DEFINE B == [i \in 1..k |-> A[i]]
               C == SubSeq(A, 1, k)
    <2>1. k \in Nat /\ k <= m
      BY <1>1
    <2>2. \A i \in 1..k : i \in 1..m /\ B[i] = A[i]
      BY <1>1, <2>1
    <2>3. B \in Seq(T) /\ Len(B) = k
      <3>1. B \in [1..k -> T]
        BY <1>1, <2>2
      <3> HIDE DEF B, T
      <3> QED  BY <2>1, <3>1, FunctionIsSeq
    <2>4. C \in Seq(T) /\ Len(C) = k /\ \A i \in 1..k : C[i] = A[i]
      <3> HIDE DEF T
      <3> QED  BY <1>1, <2>1, SubSeqProperties
    <2>5. B = C
      <3> HIDE DEF B, C, T
      <3> QED  BY <2>2, <2>3, <2>4, SeqEqual
    <2> QED  BY <2>5 DEF FirstOnes
  <1>5. Splits(U, A, n)
    BY FlattenSplits
  <1>6. FirstOnes(A, n) = FlattenSeq(SubSeq(A, 1, n)) /\ FirstOnes(A, n) \in T
    BY <1>4, <1>5 DEF Splits
  <1>7. ASSUME n < m PROVE FirstOnes(A, n + 1) = FirstOnes(A, n) \o A[n + 1]
    <2>1. n + 1 \in 0..m
      BY <1>1, <1>7
    <2>2. FirstOnes(A, n + 1) = FlattenSeq(SubSeq(A, 1, n + 1))
      BY <1>4, <2>1
    <2> QED  BY <1>5, <1>6, <1>7, <2>2 DEF Splits
  <1>8. \E rest \in T : FirstOnes(A, m) = FirstOnes(A, n) \o rest
    <2>1. FirstOnes(A, m) = FlattenSeq(SubSeq(A, 1, m))
      BY <1>1, <1>4
    <2>2. SubSeq(A, 1, m) = A
      <3> HIDE DEF T
      <3> QED  BY <1>1, SubSeqFull
    <2> DEFINE rest == FlattenSeq(SubSeq(A, n + 1, Len(A)))
    <2>3. rest \in T /\ FlattenSeq(A) = FlattenSeq(SubSeq(A, 1, n)) \o rest
      BY <1>5 DEF Splits
    <2> HIDE DEF rest
    <2> QED  BY <1>6, <2>1, <2>2, <2>3
  <1>9. ASSUME n = 0 PROVE FirstOnes(A, n) = <<>>
    BY <1>5, <1>6, <1>9 DEF Splits
  <1> QED  BY <1>6, <1>7, <1>8, <1>9 DEF FirstAre

\* What was found after n reads.
FoundAre(t, opts, n) ==
    /\ Found(t, n, opts) \in Seq(Units(opts))
    /\ n = 0 => Found(t, n, opts) = <<>>
    /\ n < Len(t.reads) =>
          /\ PieceWritten(t.reads[n + 1], opts)
          /\ Found(t, n + 1, opts) = Found(t, n, opts) \o Gives(t.reads[n + 1], opts)
    /\ \E rest \in Seq(Units(opts)) : Found(t, Len(t.reads), opts) = Found(t, n, opts) \o rest

LEMMA FoundParts ==
    ASSUME NEW t, NEW opts, TurnOK(t, opts), NEW n \in 0..Len(t.reads)
    PROVE  FoundAre(t, opts, n)
  <1> DEFINE T == Seq(Units(opts))
             m == Len(t.reads)
             A == [i \in 1..m |-> Gives(t.reads[i], opts)]
  <1>1. /\ m \in Nat /\ n \in Nat /\ n <= m
        /\ \A i \in 1..m : t.reads[i] \in Pieces /\ t.reads[i].rows \in Seq(RegularRows(opts))
    <2>1. t.reads \in Seq(Pieces)
      BY DEF TurnOK, Turns
    <2>2. m \in Nat /\ \A i \in 1..m : t.reads[i] \in Pieces
      <3> HIDE DEF Pieces
      <3> QED  BY <2>1
    <2> QED  BY <2>2 DEF TurnOK
  <1>2. ASSUME NEW i \in 1..m PROVE PieceWritten(t.reads[i], opts)
    BY <1>1, PiecesWritten DEF TurnOK
  <1>3. A \in Seq(T) /\ Len(A) = m
    <2>1. A \in [1..m -> T]
      BY <1>2 DEF PieceWritten
    <2> HIDE DEF A, T, m
    <2> QED  BY <1>1, <2>1, FunctionIsSeq
  <1>4. ASSUME NEW k \in 0..m PROVE Found(t, k, opts) = FirstOnes(A, k)
    <2>1. \A i \in 1..k : i \in 1..m /\ A[i] = Gives(t.reads[i], opts)
      BY <1>1
    <2>2. [i \in 1..k |-> Gives(t.reads[i], opts)] = [i \in 1..k |-> A[i]]
      BY <2>1
    <2> QED  BY <2>2 DEF Found, FirstOnes
  <1>5. FirstAre(Units(opts), A, n)
    <2> HIDE DEF A, m
    <2> QED  BY <1>1, <1>3, FirstTexts
  <1>6. m \in 0..m /\ (n < m => n + 1 \in 0..m /\ n + 1 \in 1..m)
    BY <1>1
  <1>7. n < m => A[n + 1] = Gives(t.reads[n + 1], opts)
    BY <1>6
  <1>8. Found(t, n, opts) = FirstOnes(A, n) /\ Found(t, m, opts) = FirstOnes(A, m)
    BY <1>4, <1>6
  <1>9. n < m => Found(t, n + 1, opts) = FirstOnes(A, n + 1) /\ PieceWritten(t.reads[n + 1], opts)
    BY <1>2, <1>4, <1>6
  <1> HIDE DEF A
  <1> QED  BY <1>3, <1>5, <1>7, <1>8, <1>9 DEF FirstAre, FoundAre

\* What a turn gives up to a place in it; at its end all was read.
PartIs(t, opts, n, place) ==
    /\ Given(t, n, place, opts) \in Seq(Units(opts))
    /\ \E rest \in Seq(Units(opts)) :
          Given(t, Len(t.reads), "flush", opts) = Given(t, n, place, opts) \o rest

LEMMA ReadPart ==
    ASSUME NEW t, NEW opts, TurnOK(t, opts), NEW n \in 0..Len(t.reads)
    PROVE  Given(t, n, "read", opts) = Found(t, n, opts)
  <1> DEFINE f == Found(t, n, opts)
             U == Units(opts)
  <1>1. f \in Seq(U)
    BY FoundParts DEF FoundAre
  <1>2. Given(t, n, "read", opts) = f \o <<>>
    BY DEF Given
  <1> HIDE DEF f, U
  <1>3. f \o <<>> = f
    BY <1>1
  <1> QED  BY <1>2, <1>3 DEF f

LEMMA PartBegins ==
    ASSUME NEW t, NEW opts, TurnOK(t, opts), NEW n \in 0..Len(t.reads), NEW place \in {"read", "flush"},
           place = "flush" => n = Len(t.reads)
    PROVE  PartIs(t, opts, n, place)
  <1> DEFINE U == Units(opts)
             m == Len(t.reads)
             f == Found(t, n, opts)
             g == Found(t, m, opts)
             k == ListedKeys(t, opts)
             whole == Given(t, m, "flush", opts)
  <1>1. m \in Nat /\ m \in 0..Len(t.reads)
    <2>1. t.reads \in Seq(Pieces)
      BY DEF TurnOK, Turns
    <2> HIDE DEF Pieces
    <2> QED  BY <2>1
  <1>2. f \in Seq(U) /\ \E rest \in Seq(U) : g = f \o rest
    BY FoundParts DEF FoundAre
  <1>3. g \in Seq(U)
    <2> HIDE DEF m
    <2> QED  BY <1>1, FoundParts DEF FoundAre
  <1>4. k \in Seq(U)
    BY KeysAreWritten DEF KeysWritten
  <1>5. whole = g \o k
    BY DEF Given
  <1>6. Given(t, n, "read", opts) = f
    BY ReadPart
  <1>7. place = "flush" => Given(t, n, place, opts) = whole
    OBVIOUS
  <1> HIDE DEF U, f, g, k, whole, m
  <1>8. whole \in Seq(U) /\ <<>> \in Seq(U) /\ whole = whole \o <<>>
    BY <1>3, <1>4, <1>5
  <1>9. CASE place = "flush"
    BY <1>7, <1>8, <1>9 DEF PartIs, U, m, whole
  <1>10. CASE place = "read"
    <2>1. PICK r \in Seq(U) : g = f \o r
      BY <1>2
    <2>2. Associate(f, r, k)
      BY <1>2, <1>4, SequencesAreTexts, Associates
    <2>3. r \o k \in Seq(U) /\ whole = f \o (r \o k)
      <3>1. r \o k \in Seq(U)
        BY <1>4
      <3> QED  BY <1>5, <2>1, <2>2, <3>1 DEF Associate
    <2>4. Given(t, n, place, opts) = f
      BY <1>6, <1>10
    <2> QED  BY <1>2, <2>3, <2>4 DEF PartIs, U, m, whole
  <1> QED  BY <1>9, <1>10

---------------------------------------------------------------------------
(* The answers of several turns. *)

AllTurns(turns, opts) ==
    /\ turns \in Seq(Turns) /\ opts.delimiter \in Seq(Symbols)
    /\ \A p \in 1..Len(turns) : TurnOK(turns[p], opts)

FoundIn(turns, p, opts) == Given(turns[p], Len(turns[p].reads), "flush", opts)

AnswersAre(turns, n, opts) ==
    /\ Answers(turns, n, opts) \in Seq(Units(opts))
    /\ n = 0 => Answers(turns, n, opts) = <<>>
    /\ n < Len(turns) => Answers(turns, n + 1, opts) = Answers(turns, n, opts) \o FoundIn(turns, n + 1, opts)
    /\ \E rest \in Seq(Units(opts)) : Answers(turns, Len(turns), opts) = Answers(turns, n, opts) \o rest

LEMMA AnswerParts ==
    ASSUME NEW turns, NEW opts, AllTurns(turns, opts), NEW n \in 0..Len(turns)
    PROVE  AnswersAre(turns, n, opts)
  <1> DEFINE U == Units(opts)
             m == Len(turns)
             A == [i \in 1..m |-> FoundIn(turns, i, opts)]
  <1>1. m \in Nat /\ n \in Nat /\ n <= m
    BY DEF AllTurns
  <1>2. ASSUME NEW p \in 1..m PROVE FoundIn(turns, p, opts) \in Seq(U)
    <2> DEFINE t == turns[p]
               k == Len(t.reads)
               place == "flush"
    <2>1. TurnOK(t, opts)
      BY DEF AllTurns
    <2>2. k \in 0..Len(t.reads)
      <3>1. t.reads \in Seq(Pieces)
        BY <2>1 DEF TurnOK, Turns
      <3> HIDE DEF t, Pieces
      <3> QED  BY <3>1
    <2>3. place \in {"read", "flush"} /\ (place = "flush" => k = Len(t.reads))
      OBVIOUS
    <2>4. FoundIn(turns, p, opts) = Given(t, k, place, opts)
      BY DEF FoundIn
    <2> HIDE DEF t, k, place
    <2>5. PartIs(t, opts, k, place)
      BY <2>1, <2>2, <2>3, PartBegins
    <2> QED  BY <2>4, <2>5 DEF PartIs
  <1>3. A \in Seq(Seq(U)) /\ Len(A) = m
    <2> DEFINE T == Seq(U)
    <2>1. A \in [1..m -> T]
      BY <1>2
    <2> HIDE DEF A, T, m
    <2> QED  BY <1>1, <2>1, FunctionIsSeq DEF T
  <1>4. ASSUME NEW k \in 0..m PROVE Answers(turns, k, opts) = FirstOnes(A, k)
    <2>1. \A i \in 1..k : i \in 1..m /\ A[i] = FoundIn(turns, i, opts)
      BY <1>1
    <2>2. [i \in 1..k |-> FoundIn(turns, i, opts)] = [i \in 1..k |-> A[i]]
      BY <2>1
    <2>3. Answers(turns, k, opts) = FlattenSeq([i \in 1..k |-> FoundIn(turns, i, opts)])
      BY DEF Answers, FoundIn
    <2> QED  BY <2>2, <2>3 DEF FirstOnes
  <1>5. FirstAre(U, A, n)
    <2> HIDE DEF A, U
    <2> QED  BY <1>1, <1>3, FirstTexts
  <1>6. m \in 0..m /\ (n < m => n + 1 \in 0..m /\ n + 1 \in 1..m)
    BY <1>1
  <1>7. n < m => A[n + 1] = FoundIn(turns, n + 1, opts)
    BY <1>6
  <1>8. Answers(turns, n, opts) = FirstOnes(A, n) /\ Answers(turns, m, opts) = FirstOnes(A, m)
    BY <1>4, <1>6
  <1>9. n < m => Answers(turns, n + 1, opts) = FirstOnes(A, n + 1)
    BY <1>4, <1>6
  <1> HIDE DEF A
  <1> QED  BY <1>3, <1>5, <1>7, <1>8, <1>9 DEF FirstAre, AnswersAre

---------------------------------------------------------------------------
(* What has arrived of a text, when some of it is due and some was lost. *)

\* Of what was found, the rest is due; of what is not due, nothing is missing, or one
\* piece of it.
Delivered(U, arrived, found, rest, gaps) ==
    /\ arrived \in Seq(U) /\ found \in Seq(U) /\ rest \in Seq(U)
    /\ gaps = 0 => found = arrived \o rest
    /\ gaps = 1 => \E a, b, c \in Seq(U) : arrived = a \o c /\ found = (a \o (b \o c)) \o rest

LEMMA DeliverNothing ==
    ASSUME NEW U, NEW gaps PROVE Delivered(U, <<>>, <<>>, <<>>, gaps)
  <1>1. <<>> \in Seq(U) /\ <<>> \o <<>> = <<>>
    OBVIOUS
  <1>2. <<>> = (<<>> \o (<<>> \o <<>>)) \o <<>>
    BY <1>1
  <1> QED  BY <1>1, <1>2 DEF Delivered

LEMMA DeliverAll ==
    ASSUME NEW U, NEW s, NEW f, NEW h \in Seq(U), NEW r \in Seq(U), NEW g,
           Delivered(U, s, f, h \o r, g)
    PROVE  Delivered(U, s \o h, f, r, g)
  <1>1. s \in Seq(U) /\ f \in Seq(U) /\ s \o h \in Seq(U)
    BY DEF Delivered
  <1>2. \A u, v, w \in Seq(U) : u \o (v \o w) = (u \o v) \o w
    <2>1. OneOrder(U)
      BY InEitherOrder
    <2> QED  BY <2>1 DEF OneOrder
  <1>3. ASSUME g = 0 PROVE f = (s \o h) \o r
    <2>1. f = s \o (h \o r)
      BY <1>3 DEF Delivered
    <2> QED  BY <1>1, <1>2, <2>1
  <1>4. ASSUME g = 1
        PROVE  \E a, b, c \in Seq(U) : s \o h = a \o c /\ f = (a \o (b \o c)) \o r
    <2>1. PICK a \in Seq(U), b \in Seq(U), c \in Seq(U) :
             s = a \o c /\ f = (a \o (b \o c)) \o (h \o r)
      BY <1>4 DEF Delivered
    <2> DEFINE d == c \o h
               e == b \o c
    <2>2. d \in Seq(U) /\ e \in Seq(U) /\ a \o e \in Seq(U)
      OBVIOUS
    <2>3. s \o h = a \o d
      BY <1>2, <2>1, SMTT(30)
    <2>4. e \o h = b \o d
      BY <1>2, ZenonT(60)
    <2> DEFINE k == a \o e
    <2>5. k \in Seq(U) /\ f = k \o (h \o r)
      BY <2>1, <2>2
    <2> HIDE DEF e
    <2>6. k \o h = a \o (e \o h)
      <3>1. Associate(a, e, h)
        BY <2>2, SequencesAreTexts, Associates
      <3> QED  BY <3>1 DEF Associate
    <2> HIDE DEF k
    <2>7. f = (k \o h) \o r
      BY <1>2, <2>5
    <2> HIDE DEF d
    <2>8. f = (a \o (b \o d)) \o r
      BY <2>4, <2>6, <2>7
    <2> QED  BY <2>2, <2>3, <2>8
  <1> QED  BY <1>1, <1>3, <1>4 DEF Delivered

LEMMA DeliverShort ==
    ASSUME NEW U, NEW s, NEW f, NEW h \in Seq(U), NEW r \in Seq(U), NEW g \in Nat,
           NEW n \in 0..(Len(h) - 1), Delivered(U, s, f, h \o r, g)
    PROVE  Delivered(U, s \o SubSeq(h, 1, n), f, r, g + 1)
  <1> DEFINE p == SubSeq(h, 1, n)
             q == SubSeq(h, n + 1, Len(h))
  <1>1. s \in Seq(U) /\ f \in Seq(U) /\ Len(h) \in Nat /\ \A i \in 1..Len(h) : h[i] \in U
    BY DEF Delivered
  <1>2. p \in Seq(U) /\ Len(p) = n /\ \A i \in 1..n : p[i] = h[i]
    BY <1>1, SubSeqProperties
  <1>3. q \in Seq(U) /\ Len(q) = Len(h) - n /\ \A i \in 1..(Len(h) - n) : q[i] = h[n + i]
    <2>1. /\ q \in Seq(U) /\ Len(q) = Len(h) - (n + 1) + 1
          /\ \A i \in 1..(Len(h) - (n + 1) + 1) : q[i] = h[(n + 1) + i - 1]
      BY <1>1, SubSeqProperties
    <2> HIDE DEF q
    <2> QED  BY <1>1, <2>1
  <1>4. h = p \o q
    <2>1. p \o q = SubSeq(h, 1, Len(h))
      BY <1>1, ConcatAdjacentSubSeq
    <2> QED  BY <2>1, SubSeqFull
  <1> HIDE DEF p, q
  <1>5. s \o p \in Seq(U)
    BY <1>1, <1>2
  <1>6. ASSUME g + 1 = 1
        PROVE  \E a, b, c \in Seq(U) : s \o p = a \o c /\ f = (a \o (b \o c)) \o r
    <2>1. f = s \o (h \o r)
      BY <1>6 DEF Delivered
    <2>2. Associate(s, h, r) /\ Associate(s, p, q)
      BY <1>1, <1>2, <1>3, SequencesAreTexts, Associates
    <2>3. f = ((s \o p) \o q) \o r
      <3>1. f = (s \o h) \o r
        BY <2>1, <2>2 DEF Associate
      <3>2. s \o h = (s \o p) \o q
        BY <1>4, <2>2 DEF Associate
      <3> QED  BY <3>1, <3>2
    <2>4. <<>> \in Seq(U) /\ q \o <<>> = q /\ (s \o p) \o <<>> = s \o p
      BY <1>3, <1>5
    <2> QED  BY <1>3, <1>5, <2>3, <2>4
  <1>7. g + 1 # 0
    OBVIOUS
  <1> QED  BY <1>1, <1>5, <1>6, <1>7 DEF Delivered, p

LEMMA DeliverMore ==
    ASSUME NEW U, NEW s, NEW f, NEW x \in Seq(U), NEW g, Delivered(U, s, f, <<>>, g)
    PROVE  Delivered(U, s, f \o x, x, g)
  <1>1. s \in Seq(U) /\ f \in Seq(U) /\ f \o x \in Seq(U)
    BY DEF Delivered
  <1>2. ASSUME g = 0 PROVE f \o x = s \o x
    <2>1. f = s \o <<>>
      BY <1>2 DEF Delivered
    <2> QED  BY <1>1, <2>1
  <1>3. ASSUME g = 1
        PROVE  \E a, b, c \in Seq(U) : s = a \o c /\ f \o x = (a \o (b \o c)) \o x
    <2>1. PICK a \in Seq(U), b \in Seq(U), c \in Seq(U) : s = a \o c /\ f = (a \o (b \o c)) \o <<>>
      BY <1>3 DEF Delivered
    <2>2. f = a \o (b \o c)
      BY <2>1
    <2> QED  BY <2>1, <2>2
  <1> QED  BY <1>1, <1>2, <1>3 DEF Delivered

---------------------------------------------------------------------------
(* What has arrived is the answer. *)

\* What OutputAnswers says of the whole answer, what arrived at stdout, the writes
\* that were short, and the status.
Answered(whole, stdout, gaps, code) ==
    LET fails  == stdout # <<>> /\ Last(stdout) = <<"we failed">>
        answer == IF fails THEN Front(stdout) ELSE stdout
    IN /\ gaps = 0 => IsPrefix(answer, whole)
       /\ gaps = 1 => WithGap(answer, whole)
       /\ code = 0 /\ ~fails /\ gaps = 0 => answer = whole

LEMMA MiddlePart ==
    ASSUME NEW U, NEW a \in Seq(U), NEW b \in Seq(U), NEW c \in Seq(U)
    PROVE  SubSeq((a \o b) \o c, Len(a) + 1, Len(a) + Len(b)) = b
  <1> DEFINE w == (a \o b) \o c
             m == Len(a)
             n == Len(b)
             p == SubSeq(w, m + 1, m + n)
  <1>1. /\ m \in Nat /\ n \in Nat /\ Len(c) \in Nat /\ w \in Seq(U) /\ Len(w) = m + n + Len(c)
        /\ \A i \in 1..n : b[i] \in U
    OBVIOUS
  <1>2. \A i \in 1..n : w[m + i] = b[i]
    <2> DEFINE d == a \o b
    <2>1. d \in Seq(U) /\ Len(d) = m + n /\ \A i \in 1..(m + n) : d[i] = IF i <= m THEN a[i] ELSE b[i - m]
      OBVIOUS
    <2>4. \A i \in 1..n : m + i \in 1..(m + n) /\ ~(m + i <= m) /\ (m + i) - m = i
      BY <1>1
    <2>2. \A i \in 1..n : d[m + i] = b[i]
      <3> HIDE DEF d, m, n
      <3> QED  BY <2>1, <2>4
    <2>3. \A i \in 1..(m + n) : w[i] = d[i]
      <3>1. w = d \o c
        OBVIOUS
      <3> HIDE DEF d, w
      <3> QED  BY <1>1, <2>1, <3>1
    <2> QED  BY <2>2, <2>3, <2>4
  <1> HIDE DEF w
  <1>3. \A j \in (m + 1)..(m + n) : w[j] \in U
    BY <1>1
  <1>4. /\ p \in Seq(U) /\ Len(p) = IF m + 1 <= m + n THEN (m + n) - (m + 1) + 1 ELSE 0
        /\ \A i \in 1..((m + n) - (m + 1) + 1) : p[i] = w[(m + 1) + i - 1]
    BY <1>1, <1>3, SubSeqProperties
  <1> HIDE DEF p
  <1>5. Len(p) = n /\ \A i \in 1..n : p[i] = w[m + i]
    <2> HIDE DEF m, n
    <2>1. (m + n) - (m + 1) + 1 = n /\ (m + 1 <= m + n <=> n # 0)
      BY <1>1
    <2>2. \A i \in 1..n : (m + 1) + i - 1 = m + i
      BY <1>1
    <2> QED  BY <1>1, <1>4, <2>1, <2>2
  <1>6. p = b
    BY <1>2, <1>4, <1>5, SeqEqual
  <1> QED  BY <1>6 DEF p, w

LEMMA FirstPart ==
    ASSUME NEW U, NEW a \in Seq(U), NEW b \in Seq(U) PROVE SubSeq(a \o b, 1, Len(a)) = a
  <1>1. <<>> \in Seq(U) /\ Len(<<>>) = 0 /\ <<>> \o a = a /\ 0 + 1 = 1 /\ 0 + Len(a) = Len(a)
    OBVIOUS
  <1>2. SubSeq((<<>> \o a) \o b, Len(<<>>) + 1, Len(<<>>) + Len(a)) = a
    BY <1>1, MiddlePart
  <1> QED  BY <1>1, <1>2

LEMMA BeginningIsPrefix ==
    ASSUME NEW U, NEW s \in Seq(U), NEW rest \in Seq(U) PROVE IsPrefix(s, s \o rest)
  <1>1. SubSeq(s, 1, Len(s)) = s /\ SubSeq(s \o rest, 1, Len(s)) = s
    BY FirstPart, SubSeqFull
  <1>2. Len(s) <= Len(s \o rest)
    OBVIOUS
  <1> QED  BY <1>1, <1>2 DEF IsPrefix

LEMMA MissingIsGap ==
    ASSUME NEW U, NEW a \in Seq(U), NEW b \in Seq(U), NEW c \in Seq(U), NEW d \in Seq(U)
    PROVE  WithGap(a \o c, (a \o (b \o c)) \o d)
  <1>0. IsTexts(Seq(U))
    BY SequencesAreTexts
  <1>3. \A u, v, w \in Seq(U) : u \o (v \o w) = (u \o v) \o w
    BY <1>0, Zenon DEF IsTexts
  <1> DEFINE w == (a \o (b \o c)) \o d
             i == Len(a)
             j == Len(a) + Len(b)
             k == j + Len(c)
             ab == a \o b
             cd == c \o d
             bcd == b \o cd
  <1>1. /\ i \in Nat /\ Len(b) \in Nat /\ Len(c) \in Nat /\ Len(d) \in Nat
        /\ Len(w) = i + (Len(b) + Len(c)) + Len(d) /\ ab \in Seq(U) /\ Len(ab) = j
        /\ cd \in Seq(U) /\ bcd \in Seq(U)
    OBVIOUS
  <1>2. i \in 0..Len(w) /\ j \in i..Len(w) /\ k \in j..Len(w)
    <2> HIDE DEF w, ab, cd, bcd
    <2> QED  BY <1>1
  <1>4. w = (ab \o c) \o d
    BY <1>3
  <1>5. w = a \o bcd
    <2>1. (b \o c) \o d = bcd
      BY <1>3
    <2> DEFINE e == b \o c
    <2>2. e \in Seq(U) /\ w = (a \o e) \o d /\ e \o d = bcd
      BY <2>1
    <2> HIDE DEF e, w, bcd
    <2> QED  BY <1>3, <2>2, ZenonT(60)
  <1> HIDE DEF w, ab, cd, bcd
  <1>6. SubSeq(w, 1, i) = a
    BY <1>1, <1>5, FirstPart
  <1>7. SubSeq(w, j + 1, k) = c
    <2>1. SubSeq((ab \o c) \o d, Len(ab) + 1, Len(ab) + Len(c)) = c
      BY <1>1, MiddlePart
    <2> QED  BY <1>1, <1>4, <2>1
  <1>8. WithGap(a \o c, w)
    BY <1>2, <1>6, <1>7 DEF WithGap
  <1> QED  BY <1>8 DEF w

LEMMA MessageIsNoText ==
    ASSUME NEW opts, NEW s \in Seq(Units(opts))
    PROVE  ~(s # <<>> /\ Last(s) = <<"we failed">>)
  <1>1. ASSUME NEW u \in Units(opts) PROVE u # <<"we failed">>
    <2>1. u[1] \in {"json", "plain", "char"}
      BY DEF Units
    <2>2. <<"we failed">>[1] = "we failed"
      OBVIOUS
    <2>3. "we failed" \notin {"json", "plain", "char"}
      OBVIOUS
    <2> QED  BY <2>1, <2>2, <2>3
  <1>2. s # <<>> => s[Len(s)] \in Units(opts)
    <2> HIDE DEF Units
    <2> QED  OBVIOUS
  <1> QED  BY <1>1, <1>2 DEF Last

\* What was found before the end of the program begins the answer.
Begun(opts, whole, stdout, gaps) ==
    \E found, rest, more \in Seq(Units(opts)) :
        Delivered(Units(opts), stdout, found, rest, gaps) /\ whole = found \o more

LEMMA BegunIsPart ==
    ASSUME NEW opts, NEW whole, NEW s, NEW g \in {0, 1}, Begun(opts, whole, s, g)
    PROVE  /\ s \in Seq(Units(opts))
           /\ g = 0 => IsPrefix(s, whole)
           /\ g = 1 => WithGap(s, whole)
  <1> DEFINE U == Units(opts)
  <1>1. PICK f \in Seq(U), r \in Seq(U), m \in Seq(U) :
           Delivered(U, s, f, r, g) /\ whole = f \o m
    BY DEF Begun
  <1> HIDE DEF U
  <1>2. s \in Seq(U)
    BY <1>1 DEF Delivered
  <1>3. ASSUME g = 0 PROVE IsPrefix(s, whole)
    <2> DEFINE x == r \o m
    <2>1. f = s \o r
      BY <1>1, <1>3 DEF Delivered
    <2>2. x \in Seq(U)
      OBVIOUS
    <2>3. Associate(s, r, m)
      BY <1>2, SequencesAreTexts, Associates
    <2>4. whole = s \o x
      BY <1>1, <2>1, <2>3 DEF Associate
    <2> HIDE DEF x
    <2> QED  BY <1>2, <2>2, <2>4, BeginningIsPrefix
  <1>4. ASSUME g = 1 PROVE WithGap(s, whole)
    <2>1. PICK a \in Seq(U), b \in Seq(U), c \in Seq(U) : s = a \o c /\ f = (a \o (b \o c)) \o r
      BY <1>1, <1>4 DEF Delivered
    <2> DEFINE x == r \o m
               y == a \o (b \o c)
    <2>2. x \in Seq(U) /\ y \in Seq(U)
      OBVIOUS
    <2>3. WithGap(a \o c, y \o x)
      <3> HIDE DEF x
      <3> QED  BY <2>2, MissingIsGap
    <2> HIDE DEF y
    <2>4. Associate(y, r, m)
      BY <2>2, SequencesAreTexts, Associates
    <2>5. whole = y \o x
      BY <1>1, <2>1, <2>4 DEF Associate, y
    <2> QED  BY <2>1, <2>3, <2>5
  <1> QED  BY <1>2, <1>3, <1>4 DEF U

LEMMA BegunIsAnswered ==
    ASSUME NEW opts, NEW whole, NEW s, NEW g \in {0, 1}, Begun(opts, whole, s, g),
           NEW code, code = 0 /\ g = 0 => s = whole
    PROVE  Answered(whole, s, g, code)
  <1>1. s \in Seq(Units(opts)) /\ (g = 0 => IsPrefix(s, whole)) /\ (g = 1 => WithGap(s, whole))
    BY BegunIsPart
  <1>2. ~(s # <<>> /\ Last(s) = <<"we failed">>)
    BY <1>1, MessageIsNoText
  <1> QED  BY <1>1, <1>2 DEF Answered

LEMMA FailureIsAnswered ==
    ASSUME NEW opts, NEW whole, NEW s, NEW g \in {0, 1}, Begun(opts, whole, s, g), NEW code
    PROVE  Answered(whole, Append(s, <<"we failed">>), g, code)
  <1> DEFINE U == Units(opts)
             V == U \cup {<<"we failed">>}
             e == <<"we failed">>
             t == Append(s, e)
  <1>1. s \in Seq(U) /\ (g = 0 => IsPrefix(s, whole)) /\ (g = 1 => WithGap(s, whole))
    BY BegunIsPart
  <1>2. s \in Seq(V) /\ e \in V
    <2>1. U \subseteq V /\ e \in V
      OBVIOUS
    <2> HIDE DEF U, V, e
    <2>2. s \in Seq(U)
      BY <1>1 DEF U
    <2> QED  BY <2>1, <2>2, SeqMonotonic
  <1> HIDE DEF U, V, e
  <1>3. t # <<>> /\ Len(t) = Len(s) + 1 /\ t[Len(s) + 1] = e /\ t \in Seq(V)
    BY <1>2, AppendProperties
  <1>4. Len(s) \in Nat /\ (Len(s) + 1) - 1 = Len(s)
    BY <1>2
  <1>5. Last(t) = e
    BY <1>3 DEF Last
  <1>6. Front(t) = s
    <2>1. t = s \o <<e>> /\ <<e>> \in Seq(V)
      BY <1>2, AppendIsConcat
    <2> DEFINE x == <<e>>
    <2> HIDE DEF x
    <2>2. SubSeq(s \o x, 1, Len(s)) = s
      BY <1>2, <2>1, FirstPart DEF x
    <2> HIDE DEF t
    <2> QED  BY <1>3, <1>4, <2>1, <2>2 DEF Front, x
  <1> HIDE DEF t
  <1>7. Answered(whole, t, g, code)
    BY <1>1, <1>3, <1>5, <1>6 DEF Answered, e
  <1> QED  BY <1>7 DEF t, e

---------------------------------------------------------------------------
(* The writes that are due. *)

TextWrites(opts) == [fd : {"stdout"}, text : Seq(Units(opts))]

TextsDue(due) == [i \in 1..Len(due) |-> due[i].text]

Pending(due) == FlattenSeq(TextsDue(due))

LEMMA PendingNone == Pending(<<>>) = <<>>
  <1>1. TextsDue(<<>>) = <<>>
    BY DEF TextsDue
  <1> QED  BY <1>1, FlattenNone DEF Pending

LEMMA TextsOfWrites ==
    ASSUME NEW opts, NEW due \in Seq(TextWrites(opts))
    PROVE  /\ TextsDue(due) \in Seq(Seq(Units(opts))) /\ Len(TextsDue(due)) = Len(due)
           /\ Pending(due) \in Seq(Units(opts))
  <1> DEFINE T == Seq(Units(opts))
             n == Len(due)
             t == TextsDue(due)
  <1>1. n \in Nat /\ \A i \in 1..n : due[i] \in TextWrites(opts)
    OBVIOUS
  <1>2. t \in [1..n -> T]
    <2>1. \A i \in 1..n : due[i].text \in T
      BY <1>1 DEF TextWrites
    <2> HIDE DEF T
    <2> QED  BY <2>1 DEF TextsDue
  <1>3. t \in Seq(T) /\ Len(t) = n
    <2> HIDE DEF t, T, n
    <2> QED  BY <1>1, <1>2, FunctionIsSeq
  <1>4. FlattenSeq(t) \in T
    <2> HIDE DEF t
    <2> QED  BY <1>3, FlattenIsSeq
  <1> QED  BY <1>3, <1>4 DEF Pending

LEMMA DueIsPending ==
    ASSUME NEW opts, NEW texts \in Seq(Seq(Units(opts)))
    PROVE  Due(texts) \in Seq(TextWrites(opts)) /\ Pending(Due(texts)) = FlattenSeq(texts)
  <1> DEFINE T == Seq(Units(opts))
             n == Len(texts)
             d == Due(texts)
  <1>1. n \in Nat /\ DOMAIN texts = 1..n /\ \A i \in 1..n : texts[i] \in T
    OBVIOUS
  <1>2. d = [i \in 1..n |-> [fd |-> "stdout", text |-> texts[i]]]
    BY <1>1 DEF Due
  <1>3. d \in [1..n -> TextWrites(opts)]
    BY <1>1, <1>2 DEF TextWrites
  <1>4. d \in Seq(TextWrites(opts)) /\ Len(d) = n
    <2> DEFINE V == TextWrites(opts)
    <2> HIDE DEF d, n, V
    <2> QED  BY <1>1, <1>3, FunctionIsSeq DEF V
  <1>5. \A i \in 1..n : d[i].text = texts[i]
    BY <1>2
  <1>6. TextsDue(d) = texts
    <2>1. TextsDue(d) \in Seq(T) /\ Len(TextsDue(d)) = n
      <3> HIDE DEF d
      <3> QED  BY <1>4, TextsOfWrites
    <2>2. \A i \in 1..n : TextsDue(d)[i] = texts[i]
      <3> HIDE DEF d, T
      <3> QED  BY <1>4, <1>5 DEF TextsDue
    <2> DEFINE t == TextsDue(d)
    <2>3. texts \in Seq(T)
      OBVIOUS
    <2> HIDE DEF t, T
    <2> QED  BY <2>1, <2>2, <2>3, SeqEqual DEF t
  <1> QED  BY <1>4, <1>6 DEF Pending

LEMMA FirstPending ==
    ASSUME NEW opts, NEW due \in Seq(TextWrites(opts)), due # <<>>
    PROVE  /\ Head(due) \in TextWrites(opts) /\ Tail(due) \in Seq(TextWrites(opts))
           /\ Pending(due) = Head(due).text \o Pending(Tail(due))
  <1> DEFINE U == Units(opts)
             W == TextWrites(opts)
             n == Len(due)
             h == Head(due)
             r == Tail(due)
             t == TextsDue(due)
             a == SubSeq(t, 1, 1)
             b == SubSeq(t, 2, n)
  <1>1. n \in Nat /\ 1 <= n /\ h = due[1]
    OBVIOUS
  <1>2. h \in W /\ r \in Seq(W) /\ Len(r) = n - 1 /\ \A i \in 1..(n - 1) : r[i] = due[i + 1]
    <2> HIDE DEF W
    <2>1. due \in Seq(W)
      BY DEF W
    <2>2. Head(due) \in W /\ Tail(due) \in Seq(W) /\ Len(Tail(due)) = Len(due)-1
          /\ \A i \in 1 .. Len(Tail(due)) : Tail(due)[i] = due[i+1]
      BY <2>1, HeadTailProperties
    <2> QED  BY <2>2
  <1>3. t \in Seq(Seq(U)) /\ Len(t) = n /\ \A i \in 1..n : t[i] = due[i].text
    <2>1. \A i \in 1..n : t[i] = due[i].text
      BY DEF TextsDue
    <2> QED  BY <2>1, TextsOfWrites
  <1>4. TextsDue(r) \in Seq(Seq(U)) /\ Len(TextsDue(r)) = n - 1 /\ \A i \in 1..(n - 1) : TextsDue(r)[i] = due[i + 1].text
    <2> HIDE DEF r, W, U
    <2>1. r \in Seq(TextWrites(opts))
      BY <1>2 DEF W
    <2>2. TextsDue(r) \in Seq(Seq(U)) /\ Len(TextsDue(r)) = n - 1
      BY <1>2, <2>1, TextsOfWrites DEF U
    <2>3. \A i \in 1..(n - 1) : TextsDue(r)[i] = r[i].text
      BY <1>2 DEF TextsDue
    <2> QED  BY <1>2, <2>2, <2>3
  <1> HIDE DEF t, r
  <1>5. Splits(U, t, 1)
    <2> HIDE DEF U
    <2> QED  BY <1>1, <1>3, FlattenSplits
  <1>6. FlattenSeq(t) = FlattenSeq(a) \o FlattenSeq(b) /\ a \in Seq(Seq(U)) /\ b \in Seq(Seq(U))
    <2>1. 1 + 1 = 2
      OBVIOUS
    <2> QED  BY <1>3, <1>5, <2>1 DEF Splits
  <1>7. FlattenSeq(a) = h.text
    <2> DEFINE T == Seq(U)
    <2>1. \A i \in 1..n : t[i] \in T
      BY <1>3
    <2> HIDE DEF T
    <2>2. Len(a) = 1 /\ a[1] = t[1]
      BY <1>1, <2>1, SubSeqProperties
    <2> HIDE DEF a, h, U
    <2>3. FlattenSeq(a) = a[1]
      BY <1>6, <2>2, FlattenOne
    <2> QED  BY <1>1, <1>3, <2>2, <2>3
  <1>8. b = TextsDue(r)
    <2> DEFINE T == Seq(U)
               c == TextsDue(r)
    <2>1. (\A i \in 2..n : t[i] \in T) /\ b \in Seq(T) /\ c \in Seq(T)
      BY <1>3, <1>4, <1>6
    <2> HIDE DEF T
    <2>2. Len(b) = (IF 2 <= n THEN n - 2 + 1 ELSE 0) /\ \A i \in 1..(n - 2 + 1) : b[i] = t[2 + i - 1]
      BY <1>1, <2>1, SubSeqProperties
    <2> HIDE DEF b, n
    <2>3. Len(b) = n - 1 /\ \A i \in 1..(n - 1) : b[i] = t[i + 1] /\ i + 1 \in 1..n
      <3>1. n - 2 + 1 = n - 1 /\ (~(2 <= n) => n - 1 = 0) /\ \A i \in 1..(n - 1) : 2 + i - 1 = i + 1 /\ i + 1 \in 1..n
        BY <1>1
      <3> QED  BY <2>2, <3>1
    <2>4. \A i \in 1..(n - 1) : b[i] = c[i]
      BY <1>3, <1>4, <2>3
    <2> HIDE DEF c
    <2>5. Len(c) = n - 1
      BY <1>4 DEF c
    <2> QED  BY <2>1, <2>3, <2>4, <2>5, SeqEqual DEF c
  <1> QED  BY <1>2, <1>6, <1>7, <1>8 DEF Pending, t, r

---------------------------------------------------------------------------
(* How far the program is in the answer. *)

Whole(x, opts) == LET asked == Asked(x, opts) IN Answers(asked, Len(asked), opts)

LEMMA RegularTurns ==
    ASSUME NEW x \in Executions, NEW opts, IsRegular(x, opts),
           opts.delimiter \in Seq(Symbols) \cup {Undefined}
    PROVE  AllTurns(x.turns, opts) /\ Len(x.turns) \in Nat \ {0}
  <1> DEFINE m == Len(x.turns)
  <1>1. x.turns \in Seq(Turns) \ {<<>>}
    BY ExecutionsAreComplete
  <1>2. m \in Nat \ {0} /\ DOMAIN x.turns = 1..m /\ \A p \in 1..m : x.turns[p] \in Turns
    BY <1>1
  <1>3. opts.delimiter \in Seq(Symbols)
    BY DEF IsRegular
  <1>4. ASSUME NEW p \in 1..m PROVE TurnOK(x.turns[p], opts)
    <2> DEFINE t == x.turns[p]
               R == RegularRows(opts)
               k == Len(t.reads)
    <2>1. t \in Turns /\ t \in ToSet(x.turns)
      BY <1>2 DEF ToSet
    <2>2. \A piece \in ToSet(t.reads) : \A row \in ToSet(piece.rows) : Regular(row, opts)
      BY <2>1 DEF IsRegular
    <2> HIDE DEF t
    <2>3. t.reads \in Seq(Pieces)
      BY <2>1 DEF Turns
    <2>4. DOMAIN t.reads = 1..k /\ \A i \in 1..k : t.reads[i] \in Pieces
      <3> HIDE DEF Pieces
      <3> QED  BY <2>3
    <2>5. ASSUME NEW i \in 1..k PROVE t.reads[i].rows \in Seq(R)
      <3> DEFINE rows == t.reads[i].rows
                 l == Len(rows)
      <3>1. rows \in Seq(FoundRows) /\ \A row \in ToSet(rows) : Regular(row, opts)
        <4>1. t.reads[i] \in ToSet(t.reads)
          BY <2>4 DEF ToSet
        <4> QED  BY <2>2, <2>4, <4>1 DEF Pieces
      <3> HIDE DEF rows
      <3>2. l \in Nat /\ rows \in [1..l -> FoundRows] /\ DOMAIN rows = 1..l
        BY <3>1
      <3>3. ASSUME NEW j \in 1..l PROVE rows[j] \in R
        <4>1. rows[j] \in FoundRows /\ rows[j] \in ToSet(rows)
          BY <3>2 DEF ToSet
        <4> QED  BY <3>1, <4>1 DEF RegularRows
      <3> HIDE DEF R, l
      <3>4. rows \in [1..l -> R]
        BY <3>2, <3>3
      <3>5. rows \in Seq(R)
        BY <3>2, <3>4, FunctionIsSeq
      <3> QED  BY <3>5 DEF rows
    <2>8. TurnOK(t, opts)
      BY <1>3, <2>1, <2>5 DEF TurnOK
    <2> QED  BY <2>8 DEF t
  <1> QED  BY <1>1, <1>2, <1>3, <1>4 DEF AllTurns

LEMMA WholeIs ==
    ASSUME NEW x, NEW opts, x.turns \in Seq(Turns), x.turns # <<>>
    PROVE  /\ opts.help => Whole(x, opts) = <<>>
           /\ ~opts.help /\ (opts.array \/ opts.group) => Whole(x, opts) = Answers(x.turns, Len(x.turns), opts)
           /\ ~opts.help /\ ~(opts.array \/ opts.group) => Whole(x, opts) = Answers(x.turns, 1, opts)
  <1>1. ASSUME opts.help PROVE Whole(x, opts) = <<>>
    <2>1. Whole(x, opts) = Answers(<<>>, 0, opts)
      BY <1>1 DEF Whole, Asked
    <2>2. [i \in 1..0 |-> Given(<<>>[i], Len(<<>>[i].reads), "flush", opts)] = <<>>
      OBVIOUS
    <2> QED  BY <2>1, <2>2, FlattenNone DEF Answers
  <1>2. ASSUME ~opts.help, ~(opts.array \/ opts.group) PROVE Whole(x, opts) = Answers(x.turns, 1, opts)
    <2> DEFINE s == SubSeq(x.turns, 1, 1)
               q == x.turns
    <2>1. q \in Seq(Turns) /\ Len(q) \in Nat /\ 1 <= Len(q)
      BY DEF q
    <2>2. \A i \in 1..1 : q[i] \in Turns
      BY <2>1
    <2> HIDE DEF q
    <2>3. Len(s) = 1 /\ \A i \in 1..1 : s[i] = q[i]
      BY <2>1, <2>2, SubSeqProperties DEF q
    <2> HIDE DEF s
    <2>4. [i \in 1..1 |-> Given(s[i], Len(s[i].reads), "flush", opts)] =
          [i \in 1..1 |-> Given(q[i], Len(q[i].reads), "flush", opts)]
      BY <2>3
    <2>5. Answers(s, 1, opts) = Answers(q, 1, opts)
      BY <2>4 DEF Answers
    <2> QED  BY <1>2, <2>3, <2>5 DEF Whole, Asked, s, q
  <1>3. ASSUME ~opts.help, opts.array \/ opts.group
        PROVE  Whole(x, opts) = Answers(x.turns, Len(x.turns), opts)
    BY <1>3 DEF Whole, Asked
  <1> QED  BY <1>1, <1>2, <1>3

\* What was found by a place in the loop of innerMain.
SoFar(x, opts, p, n, place) == Answers(x.turns, p - 1, opts) \o Given(x.turns[p], n, place, opts)

InTurns(x, opts, p, n) ==
    /\ p \in 1..Len(x.turns) /\ n \in 0..Len(x.turns[p].reads)
    /\ ~opts.help /\ (p = 1 \/ opts.array \/ opts.group)

SoFarBegins(x, opts, p, n, place) ==
    /\ SoFar(x, opts, p, n, place) \in Seq(Units(opts))
    /\ \E more \in Seq(Units(opts)) : Whole(x, opts) = SoFar(x, opts, p, n, place) \o more
    /\ place = "flush" /\ n = Len(x.turns[p].reads) /\ (opts.array \/ opts.group => p = Len(x.turns))
          => Whole(x, opts) = SoFar(x, opts, p, n, place)

LEMMA SoFarIsPart ==
    ASSUME NEW x, NEW opts, AllTurns(x.turns, opts), NEW p, NEW n, InTurns(x, opts, p, n),
           NEW place \in {"read", "flush"}, place = "flush" => n = Len(x.turns[p].reads)
    PROVE  SoFarBegins(x, opts, p, n, place)
  <1> DEFINE U == Units(opts)
             q == x.turns
             t == q[p]
             a == Answers(q, p - 1, opts)
             b == Given(t, n, place, opts)
             f == FoundIn(q, p, opts)
             upto == Answers(q, p, opts)
             whole == Whole(x, opts)
  <1>1. /\ q \in Seq(Turns) /\ q # <<>> /\ p \in 1..Len(q) /\ p - 1 \in 0..Len(q) /\ p \in 0..Len(q)
        /\ p - 1 < Len(q) /\ (p - 1) + 1 = p /\ TurnOK(t, opts) /\ Len(q) \in Nat
    <2>1. q \in Seq(Turns) /\ p \in 1..Len(q) /\ TurnOK(t, opts)
      BY DEF AllTurns, InTurns
    <2>2. Len(q) \in Nat /\ (q = <<>> => Len(q) = 0)
      BY <2>1
    <2> HIDE DEF q
    <2> QED  BY <2>1, <2>2
  <1>2. AllTurns(q, opts)
    OBVIOUS
  <1>3. AnswersAre(q, p, opts)
    <2> HIDE DEF q
    <2> QED  BY <1>1, <1>2, AnswerParts
  <1>4. a \in Seq(U) /\ upto = a \o f
    <2> DEFINE k == p - 1
    <2>1. k \in 0..Len(q) /\ k < Len(q) /\ k + 1 = p
      BY <1>1
    <2> HIDE DEF q, k
    <2>2. AnswersAre(q, k, opts)
      BY <1>2, <2>1, AnswerParts
    <2>3. Answers(q, k, opts) \in Seq(U) /\ Answers(q, k + 1, opts) = Answers(q, k, opts) \o FoundIn(q, k + 1, opts)
      BY <2>1, <2>2 DEF AnswersAre
    <2> QED  BY <2>1, <2>3 DEF k
  <1>5. PartIs(t, opts, n, place)
    <2>1. n \in 0..Len(t.reads)
      BY DEF InTurns
    <2>2. place = "flush" => n = Len(t.reads)
      OBVIOUS
    <2> HIDE DEF t
    <2> QED  BY <1>1, <2>1, <2>2, PartBegins
  <1>6. b \in Seq(U) /\ (\E rest \in Seq(U) : f = b \o rest) /\ (place = "flush" /\ n = Len(t.reads) => b = f)
    BY <1>5 DEF PartIs, FoundIn
  <1>7. /\ \E more \in Seq(U) : whole = upto \o more
        /\ (opts.array \/ opts.group => p = Len(q)) => whole = upto
    <2>1. upto \in Seq(U)
      BY <1>3 DEF AnswersAre
    <2>2. CASE opts.array \/ opts.group
      <3>1. whole = Answers(q, Len(q), opts)
        BY <1>1, <2>2, WholeIs DEF InTurns
      <3>2. \E more \in Seq(U) : whole = upto \o more
        BY <1>3, <3>1 DEF AnswersAre
      <3>3. p = Len(q) => whole = upto
        BY <3>1
      <3> QED  BY <2>2, <3>2, <3>3
    <2>3. CASE ~(opts.array \/ opts.group)
      <3>1. p = 1
        BY <2>3 DEF InTurns
      <3>2. whole = upto
        BY <1>1, <2>3, <3>1, WholeIs DEF InTurns
      <3>3. <<>> \in Seq(U) /\ upto = upto \o <<>>
        <4> HIDE DEF upto, U
        <4> QED  BY <2>1
      <3> HIDE DEF upto, whole
      <3> QED  BY <3>2, <3>3
    <2> QED  BY <2>2, <2>3
  <1>8. SoFar(x, opts, p, n, place) = a \o b
    BY DEF SoFar
  <1> HIDE DEF a, b, f, upto, whole, U, t
  <1>9. a \o b \in Seq(U)
    BY <1>4, <1>6
  <1>10. \E more \in Seq(U) : whole = (a \o b) \o more
    <2>1. PICK r \in Seq(U) : f = b \o r
      BY <1>6
    <2>2. PICK m \in Seq(U) : whole = upto \o m
      BY <1>7
    <2> DEFINE ab == a \o b
               rm == r \o m
    <2>3. Associate(a, b, r)
      BY <1>4, <1>6, SequencesAreTexts, Associates
    <2>4. ab \in Seq(U) /\ rm \in Seq(U)
      BY <1>9
    <2>5. whole = (ab \o r) \o m
      BY <1>4, <2>1, <2>2, <2>3 DEF Associate
    <2> HIDE DEF ab
    <2>6. Associate(ab, r, m)
      BY <2>4, SequencesAreTexts, Associates
    <2>7. whole = ab \o rm
      BY <2>5, <2>6 DEF Associate
    <2> HIDE DEF rm
    <2> QED  BY <2>4, <2>7 DEF ab
  <1>11. ASSUME place = "flush", n = Len(t.reads), opts.array \/ opts.group => p = Len(q)
         PROVE  whole = a \o b
    BY <1>4, <1>6, <1>7, <1>11
  <1> QED  BY <1>8, <1>9, <1>10, <1>11 DEF SoFarBegins, U, whole, t

Adds(opts, texts, before, after) ==
    /\ texts \in Seq(Seq(Units(opts))) /\ FlattenSeq(texts) \in Seq(Units(opts))
    /\ after = before \o FlattenSeq(texts)

LEMMA PartGrows ==
    ASSUME NEW t, NEW opts, TurnOK(t, opts), NEW n \in 0..Len(t.reads)
    PROVE  /\ n < Len(t.reads) =>
                 Adds(opts, TextsRead(t, opts, n), Given(t, n, "read", opts), Given(t, n + 1, "read", opts))
           /\ n = Len(t.reads) =>
                 Adds(opts, TextsParsed(t, opts), Given(t, n, "read", opts), Given(t, n, "flush", opts))
           /\ n = 0 => Given(t, n, "read", opts) = <<>>
  <1> DEFINE U == Units(opts)
             f == Found(t, n, opts)
  <1>1. FoundAre(t, opts, n)
    BY FoundParts
  <1>2. Given(t, n, "read", opts) = f
    BY ReadPart
  <1>3. ASSUME n < Len(t.reads)
        PROVE  Adds(opts, TextsRead(t, opts, n), f, Given(t, n + 1, "read", opts))
    <2> DEFINE m == n + 1
               piece == t.reads[m]
    <2>1. m \in 0..Len(t.reads)
      <3>1. t.reads \in Seq(Pieces)
        BY DEF TurnOK, Turns
      <3>2. Len(t.reads) \in Nat
        <4> HIDE DEF Pieces
        <4> QED  BY <3>1
      <3> QED  BY <1>3, <3>2
    <2>2. Given(t, m, "read", opts) = Found(t, m, opts)
      <3> HIDE DEF m
      <3> QED  BY <2>1, ReadPart
    <2>3. PieceWritten(piece, opts) /\ Found(t, m, opts) = f \o Gives(piece, opts)
      BY <1>1, <1>3 DEF FoundAre
    <2>4. TextsRead(t, opts, n) = TextsOfPiece(piece, opts)
      BY DEF TextsRead
    <2> HIDE DEF m, piece, f
    <2>5. Adds(opts, TextsOfPiece(piece, opts), f, Given(t, m, "read", opts))
      BY <2>2, <2>3 DEF Adds, PieceWritten
    <2> QED  BY <2>4, <2>5 DEF m
  <1>4. Adds(opts, TextsParsed(t, opts), f, Given(t, n, "flush", opts))
    <2>1. Given(t, n, "flush", opts) = f \o ListedKeys(t, opts)
      BY DEF Given
    <2>2. KeysWritten(t, opts)
      BY KeysAreWritten
    <2> HIDE DEF f
    <2> QED  BY <2>1, <2>2 DEF Adds, KeysWritten
  <1>5. n = 0 => f = <<>>
    BY <1>1 DEF FoundAre
  <1> QED  BY <1>2, <1>3, <1>4, <1>5

LEMMA AddsAfter ==
    ASSUME NEW opts, NEW texts, NEW b \in Seq(Units(opts)), NEW c, Adds(opts, texts, b, c),
           NEW a \in Seq(Units(opts))
    PROVE  Adds(opts, texts, a \o b, a \o c)
  <1> DEFINE f == FlattenSeq(texts)
             U == Units(opts)
  <1>1. f \in Seq(U) /\ c = b \o f /\ texts \in Seq(Seq(U))
    BY DEF Adds
  <1> HIDE DEF f, U
  <1>2. Associate(a, b, f)
    BY <1>1, SequencesAreTexts, Associates DEF U
  <1>3. a \o c = (a \o b) \o f
    BY <1>1, <1>2 DEF Associate
  <1> QED  BY <1>1, <1>3 DEF Adds, f, U

SoFarSteps(x, opts, p, n) ==
    /\ n < Len(x.turns[p].reads) =>
          Adds(opts, TextsRead(x.turns[p], opts, n), SoFar(x, opts, p, n, "read"), SoFar(x, opts, p, n + 1, "read"))
    /\ n = Len(x.turns[p].reads) =>
          Adds(opts, TextsParsed(x.turns[p], opts), SoFar(x, opts, p, n, "read"), SoFar(x, opts, p, n, "flush"))
    /\ n = Len(x.turns[p].reads) /\ p < Len(x.turns) => SoFar(x, opts, p + 1, 0, "read") = SoFar(x, opts, p, n, "flush")
    /\ p = 1 /\ n = 0 => SoFar(x, opts, p, n, "read") = <<>>

LEMMA SoFarGrows ==
    ASSUME NEW x, NEW opts, AllTurns(x.turns, opts), NEW p \in 1..Len(x.turns),
           NEW n \in 0..Len(x.turns[p].reads)
    PROVE  SoFarSteps(x, opts, p, n)
  <1> DEFINE U == Units(opts)
             q == x.turns
             t == q[p]
             a == Answers(q, p - 1, opts)
             m == Len(t.reads)
             now == Given(t, n, "read", opts)
  <1>1. /\ p - 1 \in 0..Len(q) /\ p \in 0..Len(q) /\ p - 1 < Len(q) /\ (p - 1) + 1 = p /\ (p + 1) - 1 = p
        /\ TurnOK(t, opts) /\ Len(q) \in Nat /\ m \in Nat
    <2>1. q \in Seq(Turns) /\ p \in 1..Len(q) /\ TurnOK(t, opts)
      BY DEF AllTurns
    <2>2. Len(q) \in Nat
      BY <2>1
    <2>3. m \in Nat
      BY <2>1 DEF TurnOK
    <2> HIDE DEF q, m
    <2> QED  BY <2>1, <2>2, <2>3
  <1>2. AllTurns(q, opts)
    OBVIOUS
  <1>3. a \in Seq(U) /\ Answers(q, p, opts) = a \o FoundIn(q, p, opts) /\ (p = 1 => a = <<>>)
    <2> DEFINE k == p - 1
    <2>1. k \in 0..Len(q) /\ k < Len(q) /\ k + 1 = p /\ (p = 1 => k = 0)
      BY <1>1
    <2> HIDE DEF q, k
    <2>2. AnswersAre(q, k, opts)
      BY <1>2, <2>1, AnswerParts
    <2>3. /\ Answers(q, k, opts) \in Seq(U) /\ (k = 0 => Answers(q, k, opts) = <<>>)
          /\ Answers(q, k + 1, opts) = Answers(q, k, opts) \o FoundIn(q, k + 1, opts)
      BY <2>1, <2>2 DEF AnswersAre
    <2> QED  BY <2>1, <2>3 DEF k
  <1>4. now \in Seq(U)
    <2> HIDE DEF t
    <2> QED  BY <1>1, PartBegins DEF PartIs, t
  <1>5. \A k, place : SoFar(x, opts, p, k, place) = a \o Given(t, k, place, opts)
    BY DEF SoFar
  <1>6. ASSUME n < m
        PROVE  Adds(opts, TextsRead(t, opts, n), SoFar(x, opts, p, n, "read"), SoFar(x, opts, p, n + 1, "read"))
    <2> DEFINE c == Given(t, n + 1, "read", opts)
               texts == TextsRead(t, opts, n)
    <2>1. Adds(opts, texts, now, c)
      <3> HIDE DEF t
      <3> QED  BY <1>1, <1>6, PartGrows DEF t
    <2>2. SoFar(x, opts, p, n, "read") = a \o now /\ SoFar(x, opts, p, n + 1, "read") = a \o c
      BY <1>5
    <2> HIDE DEF a, now, c, texts, U
    <2>3. Adds(opts, texts, a \o now, a \o c)
      BY <1>3, <1>4, <2>1, AddsAfter DEF U
    <2> QED  BY <2>2, <2>3 DEF texts
  <1>7. ASSUME n = m
        PROVE  Adds(opts, TextsParsed(t, opts), SoFar(x, opts, p, n, "read"), SoFar(x, opts, p, n, "flush"))
    <2> DEFINE c == Given(t, n, "flush", opts)
               texts == TextsParsed(t, opts)
    <2>1. Adds(opts, texts, now, c)
      <3> HIDE DEF t
      <3> QED  BY <1>1, <1>7, PartGrows DEF t
    <2>2. SoFar(x, opts, p, n, "read") = a \o now /\ SoFar(x, opts, p, n, "flush") = a \o c
      BY <1>5
    <2> HIDE DEF a, now, c, texts, U
    <2>3. Adds(opts, texts, a \o now, a \o c)
      BY <1>3, <1>4, <2>1, AddsAfter DEF U
    <2> QED  BY <2>2, <2>3 DEF texts
  <1>8. ASSUME n = m, p < Len(q) PROVE SoFar(x, opts, p + 1, 0, "read") = SoFar(x, opts, p, n, "flush")
    <2> DEFINE r == q[p + 1]
               b == Answers(q, p, opts)
    <2>1. TurnOK(r, opts) /\ 0 \in 0..Len(r.reads)
      <3>1. p + 1 \in 1..Len(q)
        BY <1>1, <1>8
      <3>2. TurnOK(r, opts)
        BY <3>1 DEF AllTurns
      <3> QED  BY <3>2 DEF TurnOK
    <2>2. Given(r, 0, "read", opts) = <<>>
      <3> HIDE DEF r
      <3> QED  BY <2>1, PartGrows
    <2>3. SoFar(x, opts, p + 1, 0, "read") = b \o <<>>
      BY <1>1, <2>2 DEF SoFar
    <2>4. b \in Seq(U)
      <3> HIDE DEF q
      <3> QED  BY <1>1, <1>2, AnswerParts DEF AnswersAre
    <2>5. b = a \o FoundIn(q, p, opts)
      BY <1>3
    <2>6. SoFar(x, opts, p, n, "flush") = a \o FoundIn(q, p, opts)
      BY <1>8 DEF SoFar, FoundIn
    <2> HIDE DEF a, b, U
    <2>7. b \o <<>> = b
      BY <2>4
    <2> QED  BY <2>3, <2>5, <2>6, <2>7
  <1>9. ASSUME p = 1, n = 0 PROVE SoFar(x, opts, p, n, "read") = <<>>
    <2>1. now = <<>>
      <3> HIDE DEF t
      <3> QED  BY <1>1, <1>9, PartGrows DEF t
    <2>2. SoFar(x, opts, p, n, "read") = a \o now
      BY <1>5
    <2> HIDE DEF a, now
    <2> QED  BY <1>3, <1>9, <2>1, <2>2
  <1> QED  BY <1>6, <1>7, <1>8, <1>9 DEF SoFarSteps

---------------------------------------------------------------------------
(* Arguments and options. *)

Words == Seq(Symbols)

WordLists == Seq(Words) \ {<<>>}

SplitStep(arg, p, before) ==
    IF arg[p] = "=" THEN Append(before, <<>>)
    ELSE [before EXCEPT ![Len(before)] = Append(@, arg[p])]

LEMMA SplitStepIsWords ==
    ASSUME NEW arg \in Words, NEW p \in 1..Len(arg), NEW v \in WordLists
    PROVE  SplitStep(arg, p, v) \in WordLists
  <1> DEFINE k == Len(v)
             e == Append(v[k], arg[p])
             w == [v EXCEPT ![k] = e]
  <1>1. v \in Seq(Words) /\ k \in Nat /\ k >= 1 /\ v \in [1..k -> Words]
    <2>1. v \in Seq(Words) /\ v # <<>>
      BY DEF WordLists
    <2> HIDE DEF Words, WordLists
    <2> QED  BY <2>1
  <1>2. v[k] \in Words /\ arg[p] \in Symbols
    <2>1. v[k] \in Words
      <3> HIDE DEF Words, WordLists
      <3> QED  BY <1>1
    <2> QED  BY <2>1 DEF Words
  <1>3. e \in Words
    <2> DEFINE x == v[k]
    <2> HIDE DEF x
    <2> QED  BY <1>2 DEF Words, x
  <1>4. <<>> \in Words
    BY DEF Words
  <1>5. Append(v, <<>>) \in WordLists
    <2> HIDE DEF Words, k
    <2>1. Append(v, <<>>) \in Seq(Words) /\ Append(v, <<>>) # <<>>
      BY <1>1, <1>4, AppendProperties
    <2> QED  BY <2>1 DEF WordLists
  <1>6. w \in WordLists
    <2> HIDE DEF Words, k, e
    <2>1. w \in [1..k -> Words]
      BY <1>1, <1>3
    <2> HIDE DEF w
    <2>2. w \in Seq(Words) /\ Len(w) = k
      BY <1>1, <2>1, FunctionIsSeq
    <2>3. w # <<>>
      BY <1>1, <2>2
    <2> QED  BY <2>2, <2>3 DEF WordLists
  <1>7. arg[p] # "=" => SplitStep(arg, p, v) = w
    BY DEF SplitStep
  <1>8. arg[p] = "=" => SplitStep(arg, p, v) = Append(v, <<>>)
    BY DEF SplitStep
  <1> QED  BY <1>5, <1>6, <1>7, <1>8

\* Up to each character, split('=') has these parts.
LEMMA SplitParts ==
    ASSUME NEW arg \in Words
    PROVE  \E parts : /\ parts[0] = <<<<>>>> /\ Split(arg) = parts[Len(arg)] /\ Split(arg) \in WordLists
                      /\ \A p \in 1..Len(arg) : parts[p] = SplitStep(arg, p, parts[p - 1])
  <1> DEFINE n == Len(arg)
             V == WordLists
             base == <<<<>>>>
             before == [p \in 1..n |-> p - 1]
             step == [p \in 1..n |-> [v \in V |-> SplitStep(arg, p, v)]]
             Parts0(f) == f = [k \in 0..n |-> IF k = 0 THEN base
                                              ELSE LET b == f[k - 1]
                                                   IN IF arg[k] = "=" THEN Append(b, <<>>)
                                                      ELSE [b EXCEPT ![Len(b)] = Append(@, arg[k])]]
  <1>1. n \in Nat /\ LooksBack(before, n)
    BY DEF Words, LooksBack
  <1>2. base \in V
    <2>1. <<>> \in Words
      BY DEF Words
    <2> HIDE DEF Words
    <2> QED  BY <2>1 DEF WordLists
  <1>3. step \in [1..n -> [V -> V]]
    BY SplitStepIsWords
  <1>4. PICK f \in [0..n -> V] : f[0] = base /\ \A p \in 1..n : f[p] = SplitStep(arg, p, f[p - 1])
    <2>1. \E f \in [0..n -> V] : Follows(f, n, base, before, step)
      <3> HIDE DEF before, step, n, base, V
      <3> QED  BY <1>1, <1>2, <1>3, RecursionDefines
    <2>2. PICK f \in [0..n -> V] : Follows(f, n, base, before, step)
      BY <2>1
    <2>3. ASSUME NEW p \in 1..n PROVE f[p] = SplitStep(arg, p, f[p - 1])
      <3>1. p - 1 \in 0..n /\ before[p] = p - 1
        BY <1>1
      <3>2. f[p - 1] \in V
        BY <2>2, <3>1
      <3>3. step[p][f[p - 1]] = SplitStep(arg, p, f[p - 1])
        <4> DEFINE y == f[p - 1]
        <4> HIDE DEF y, V
        <4> QED  BY <3>2 DEF y
      <3>4. f[p] = step[p][f[before[p]]]
        BY <2>2 DEF Follows
      <3> QED  BY <3>1, <3>3, <3>4
    <2> QED  BY <2>2, <2>3 DEF Follows
  <1> HIDE DEF V, base
  <1>5. Parts0(f)
    <2>1. ASSUME NEW k \in 0..n
          PROVE  f[k] = IF k = 0 THEN base
                        ELSE LET b == f[k - 1]
                             IN IF arg[k] = "=" THEN Append(b, <<>>) ELSE [b EXCEPT ![Len(b)] = Append(@, arg[k])]
      <3>1. k # 0 => k \in 1..n
        BY <1>1
      <3> QED  BY <1>4, <3>1 DEF SplitStep
    <2> QED  BY <1>4, <2>1
  <1>6. PICK parts : Parts0(parts) /\ parts = CHOOSE f0 : Parts0(f0)
    BY <1>5
  <1>7. Split(arg) = parts[n]
    BY <1>6 DEF Split, base
  <1>8. parts[0] = base /\ \A p \in 1..n : parts[p] = SplitStep(arg, p, parts[p - 1])
    <2>1. ASSUME NEW p \in 1..n PROVE parts[p] = SplitStep(arg, p, parts[p - 1])
      <3>1. p \in 0..n /\ p # 0
        BY <1>1
      <3> QED  BY <1>6, <3>1 DEF SplitStep
    <2>2. 0 \in 0..n
      BY <1>1
    <2> QED  BY <1>6, <2>1, <2>2
  <1>9. \A p \in 0..n : parts[p] \in V
    <2> DEFINE S == {p \in Nat : p \in 0..n => parts[p] \in V}
    <2>1. 0 \in S
      BY <1>2, <1>8
    <2>2. ASSUME NEW p \in Nat, p \in S PROVE p + 1 \in S
      <3>1. ASSUME p + 1 \in 0..n PROVE parts[p + 1] \in V
        <4>1. p \in 0..n /\ p + 1 \in 1..n /\ (p + 1) - 1 = p
          BY <1>1, <3>1
        <4>2. parts[p] \in V
          BY <2>2, <4>1
        <4> DEFINE q == p + 1
        <4>3. q \in 1..n /\ parts[q] = SplitStep(arg, q, parts[p])
          BY <1>8, <4>1
        <4> HIDE DEF q
        <4> QED  BY <4>2, <4>3, SplitStepIsWords DEF V, q
      <3> QED  BY <3>1
    <2> HIDE DEF S
    <2>3. Nat \subseteq S
      BY <2>1, <2>2, Induction
    <2> QED  BY <1>1, <2>3 DEF S
  <1>10. Split(arg) \in V
    BY <1>1, <1>7, <1>9
  <1> QED  BY <1>7, <1>8, <1>10 DEF V, base

LEMMA SplitIsWords ==
    ASSUME NEW arg \in Words PROVE Split(arg) \in Seq(Words)
  BY SplitParts DEF WordLists

LEMMA OwnCharacters ==
    \A c \in VALID_OPTIONS \cup {"-", " ", "tab", "vtab", "newline", "zero"} : c \in Symbols
  BY SymbolsSuffice DEF OwnSymbols

LEMMA OwnWords ==
    \A c \in VALID_OPTIONS \cup {"-", " ", "tab", "vtab", "newline", "zero"} : <<c>> \in Words
  <1>1. \A c \in Symbols : <<c>> \in Words
    BY DEF Words
  <1> HIDE DEF Words
  <1> QED  BY <1>1, OwnCharacters

LEMMA WordsOfIsWords ==
    ASSUME NEW arg \in Words PROVE WordsOf(arg) \in Seq(Words)
  <1> DEFINE n == Len(arg) - 1
             w(i) == IF arg[i + 1] \in VALID_OPTIONS THEN <<"-", arg[i + 1]>> ELSE <<arg[i + 1]>>
             s == [i \in 1..n |-> w(i)]
  <1>1. "-" \in Symbols
    BY OwnCharacters
  <1>2. ASSUME arg # <<>> PROVE s \in Seq(Words)
    <2>1. n \in Nat /\ \A i \in 1..n : arg[i + 1] \in Symbols
      BY <1>2 DEF Words
    <2>2. \A i \in 1..n : w(i) \in Words
      <3> TAKE i \in 1..n
      <3> DEFINE c == arg[i + 1]
      <3>1. c \in Symbols
        BY <2>1
      <3> HIDE DEF c
      <3>2. <<"-", c>> \in Words /\ <<c>> \in Words
        BY <1>1, <3>1 DEF Words
      <3> QED  BY <3>2 DEF c
    <2>3. s \in [1..n -> Words]
      BY <2>2
    <2> HIDE DEF s, n, Words
    <2> QED  BY <2>1, <2>3, FunctionIsSeq
  <1>3. <<arg>> \in Seq(Words)
    <2> HIDE DEF Words
    <2> QED  OBVIOUS
  <1>4. Split(arg) \in Seq(Words)
    BY SplitIsWords
  <1> HIDE DEF Words
  <1>5. CASE arg # <<>> /\ arg[1] = "--"
    BY <1>4, <1>5 DEF WordsOf
  <1>6. CASE ~(arg # <<>> /\ arg[1] = "--") /\ arg # <<>> /\ arg[1] = "-"
    <2>1. WordsOf(arg) = s
      BY <1>6 DEF WordsOf
    <2> HIDE DEF s
    <2> QED  BY <1>2, <1>6, <2>1
  <1>7. CASE ~(arg # <<>> /\ arg[1] = "--") /\ ~(arg # <<>> /\ arg[1] = "-")
    <2>1. WordsOf(arg) = <<arg>>
      BY <1>7 DEF WordsOf
    <2> QED  BY <1>3, <2>1
  <1> QED  BY <1>5, <1>6, <1>7

LEMMA AllWordsAreWords ==
    ASSUME NEW argv \in Seq(Words)
    PROVE  FlattenSeq([i \in DOMAIN argv |-> WordsOf(argv[i])]) \in Seq(Words)
  <1> DEFINE n == Len(argv)
             T == Seq(Words)
             s == [i \in DOMAIN argv |-> WordsOf(argv[i])]
  <1> HIDE DEF Words
  <1>1. n \in Nat /\ DOMAIN argv = 1..n /\ \A i \in 1..n : argv[i] \in Words
    OBVIOUS
  <1>2. s \in [1..n -> T]
    BY <1>1, WordsOfIsWords
  <1>3. s \in Seq(T)
    <2> HIDE DEF s, T, n
    <2> QED  BY <1>1, <1>2, FunctionIsSeq
  <1> HIDE DEF s
  <1>4. FlattenSeq(s) \in Seq(Words)
    <2> USE DEF Words
    <2> QED  BY <1>3, FlattenIsSeq
  <1> QED  BY <1>4 DEF s

\* What parseArguments returns.
OptionSet ==
    [indent : {0, 2, 4}, delimiter : Words \cup {Undefined}, args : Seq(Words), format : {"json", "jsony"},
     group : BOOLEAN, array : BOOLEAN, memoize : BOOLEAN, keys : BOOLEAN,
     conditional : Words \cup {Undefined}, evaluate : Words \cup {Undefined}, help : BOOLEAN]

LEMMA NoOptionsTyped == NoOptions \in OptionSet
  <1> DEFINE space == <<" ">>
             none == <<>>
  <1>1. space \in Words
    BY OwnWords
  <1> HIDE DEF Words
  <1>2. none \in Seq(Words)
    OBVIOUS
  <1>3. NoOptions = [indent |-> 2, delimiter |-> space, args |-> none, format |-> "jsony", group |-> FALSE,
                     array |-> FALSE, memoize |-> FALSE, keys |-> FALSE, conditional |-> Undefined,
                     evaluate |-> Undefined, help |-> FALSE]
    BY DEF NoOptions
  <1> HIDE DEF space, none
  <1> QED  BY <1>1, <1>2, <1>3 DEF OptionSet

LEMMA OptionsTyped ==
    ASSUME words \in Seq(Words), next \in Nat \ {0}, next <= Len(words), options \in OptionSet, OptionTurn
    PROVE  words' \in Seq(Words) /\ next' \in Nat \ {0} /\ options' \in OptionSet
  <1> HIDE DEF Words
  <1>1. Len(words) \in Nat /\ \A i \in 1..Len(words) : words[i] \in Words
    OBVIOUS
  <1>2. Word \in Words
    BY <1>1 DEF Word
  <1>3. Value \in Words \cup {Undefined}
    BY <1>1 DEF Value
  <1>4. CASE Indentation
    <2>1. PICK k \in {0, 2, 4} : options' = [options EXCEPT !.format = "json", !.indent = k]
      BY <1>4 DEF Indentation
    <2>2. options' \in OptionSet
      BY <2>1 DEF OptionSet
    <2>3. words' = words /\ next' = next + 1
      BY <1>4 DEF Indentation, Take
    <2> QED  BY <2>2, <2>3
  <1>5. CASE Delimiter
    <2>1. options' = [options EXCEPT !.delimiter = Value] /\ words' = words /\ next' = next + 2
      BY <1>5 DEF Delimiter, Take
    <2>2. options' \in OptionSet
      BY <1>3, <2>1 DEF OptionSet
    <2> QED  BY <2>1, <2>2
  <1>6. CASE Flag
    <2>1. words' = words /\ next' = next + 1
      BY <1>6 DEF Flag, Take
    <2>2. \/ options' = [options EXCEPT !.group = TRUE] \/ options' = [options EXCEPT !.array = TRUE]
          \/ options' = [options EXCEPT !.memoize = TRUE] \/ options' = [options EXCEPT !.keys = TRUE]
          \/ options' = [options EXCEPT !.help = TRUE]
      BY <1>6 DEF Flag
    <2>3. options' \in OptionSet
      BY <2>2, ZenonT(60) DEF OptionSet
    <2> QED  BY <2>1, <2>3
  <1>7. CASE Code
    BY <1>3, <1>7 DEF Code, Take, OptionSet
  <1>8. CASE Rest
    <2> DEFINE r == SubSeq(words, next + 1, Len(words))
    <2>1. r \in Seq(Words)
      BY <1>1, SubSeqProperties
    <2> HIDE DEF r
    <2>2. options.args \in Seq(Words)
      BY DEF OptionSet
    <2>3. options.args \o r \in Seq(Words)
      BY <2>1, <2>2
    <2>4. options' = [options EXCEPT !.args = options.args \o r]
      BY <1>8 DEF Rest, r, OptionSet
    <2>5. words' = words /\ next' = Len(words) + 1
      BY <1>8 DEF Rest
    <2> DEFINE x == options.args \o r
    <2> HIDE DEF x
    <2>6. options' \in OptionSet
      BY <2>3, <2>4 DEF OptionSet, x
    <2> QED  BY <1>1, <2>5, <2>6
  <1>9. CASE Operand
    <2> DEFINE x == Append(options.args, Word)
    <2>1. x \in Seq(Words)
      <3>1. options.args \in Seq(Words)
        BY DEF OptionSet
      <3> QED  BY <1>2, <3>1
    <2>2. options' = [options EXCEPT !.args = x]
      BY <1>9 DEF Operand, OptionSet
    <2> HIDE DEF x
    <2>3. options' \in OptionSet
      BY <2>1, <2>2 DEF OptionSet
    <2> QED  BY <1>9, <2>3 DEF Operand, Take
  <1> QED  BY <1>4, <1>5, <1>6, <1>7, <1>8, <1>9 DEF OptionTurn

LEMMA CompletedTyped ==
    ASSUME NEW opts \in OptionSet
    PROVE  Completed(opts) \in OptionSet /\ Completed(opts).help = opts.help
  <1> DEFINE d == Unescaped(opts.delimiter)
             n == Len(opts.args)
             a == [i \in DOMAIN opts.args |-> Unwrapped(opts.args[i])]
  <1>1. d \in Words \cup {Undefined}
    <2>1. <<"tab">> \in Words /\ <<"vtab">> \in Words /\ <<"newline">> \in Words /\ <<"zero">> \in Words
      BY OwnWords
    <2> HIDE DEF Words
    <2>2. opts.delimiter \in Words \cup {Undefined}
      BY DEF OptionSet
    <2> QED  BY <2>1, <2>2 DEF Unescaped
  <1>2. ASSUME NEW arg \in Words PROVE Unwrapped(arg) \in Words
    <2> DEFINE s == SubSeq(arg, 2, Len(arg) - 1)
    <2>1. Len(arg) \in Nat /\ \A i \in 1..Len(arg) : arg[i] \in Symbols
      BY DEF Words
    <2>2. s \in Words
      BY <2>1, SubSeqProperties DEF Words
    <2> HIDE DEF s, Words
    <2> QED  BY <2>2 DEF Unwrapped, s
  <1> HIDE DEF Words
  <1>3. opts.args \in Seq(Words)
    BY DEF OptionSet
  <1>4. n \in Nat /\ DOMAIN opts.args = 1..n /\ \A i \in 1..n : opts.args[i] \in Words
    BY <1>3
  <1>5. a \in [1..n -> Words]
    BY <1>2, <1>4
  <1>6. a \in Seq(Words)
    <2> HIDE DEF a, n
    <2> QED  BY <1>4, <1>5, FunctionIsSeq
  <1>7. Completed(opts) = [opts EXCEPT !.delimiter = d, !.args = a]
    BY DEF Completed, OptionSet
  <1> HIDE DEF d, a
  <1>8. Completed(opts) \in OptionSet
    BY <1>1, <1>6, <1>7 DEF OptionSet
  <1> QED  BY <1>7, <1>8 DEF OptionSet

---------------------------------------------------------------------------
(* The inductive invariant, said of the values of the variables. *)

HelpWrites == [fd : {"stderr"}, text : {<<<<"help">>, Newline>>}]

\* Up to the loop of innerMain nothing goes to stdout.
BeforeOK(opts, p, n, place, w, s, g, code) ==
    /\ s = <<>> /\ p = 1 /\ n = 0 /\ code = Undefined
    /\ place = "help" => opts.help /\ w \in Seq(HelpWrites)
    /\ place # "help" => w = <<>> /\ g = 0

\* In the loop what has arrived, and the writes that are due, are what was found.
LoopOK(x, opts, p, n, place, w, s, g, code) ==
    /\ InTurns(x, opts, p, n) /\ code = Undefined
    /\ place = "flush" => n = Len(x.turns[p].reads)
    /\ IsRegular(x, opts) =>
          /\ w \in Seq(TextWrites(opts))
          /\ Delivered(Units(opts), s, SoFar(x, opts, p, n, place), Pending(w), g)

EndOK(x, opts, w, s, g, code) ==
    /\ w = <<>>
    /\ g <= 1 /\ IsRegular(x, opts) => Answered(Whole(x, opts), s, g, code)

LEMMA WholeIsText ==
    ASSUME NEW x \in Executions, NEW opts \in OptionSet, IsRegular(x, opts)
    PROVE  Whole(x, opts) \in Seq(Units(opts))
  <1> DEFINE q == x.turns
             m == Len(q)
  <1>1. AllTurns(q, opts) /\ m \in Nat \ {0} /\ q \in Seq(Turns) /\ q # <<>>
    BY RegularTurns, ExecutionsAreComplete DEF OptionSet, Words
  <1>2. \A n \in 0..m : Answers(q, n, opts) \in Seq(Units(opts))
    <2> HIDE DEF q
    <2> QED  BY <1>1, AnswerParts DEF AnswersAre
  <1>3. 1 \in 0..m /\ m \in 0..m
    BY <1>1
  <1>4. <<>> \in Seq(Units(opts))
    OBVIOUS
  <1>5. CASE opts.help
    BY <1>1, <1>4, <1>5, WholeIs
  <1>6. CASE ~opts.help /\ (opts.array \/ opts.group)
    BY <1>1, <1>2, <1>3, <1>6, WholeIs
  <1>7. CASE ~opts.help /\ ~(opts.array \/ opts.group)
    BY <1>1, <1>2, <1>3, <1>7, WholeIs
  <1> QED  BY <1>5, <1>6, <1>7

LEMMA BegunBefore ==
    ASSUME NEW x \in Executions, NEW opts \in OptionSet, IsRegular(x, opts), NEW g
    PROVE  Begun(opts, Whole(x, opts), <<>>, g)
  <1> DEFINE U == Units(opts)
             whole == Whole(x, opts)
             none == <<>>
  <1>1. whole \in Seq(U)
    BY WholeIsText
  <1>2. none \in Seq(U) /\ whole = none \o whole
    <2> HIDE DEF U, whole
    <2> QED  BY <1>1
  <1>3. Delivered(U, none, none, none, g)
    <2> HIDE DEF U
    <2> QED  BY DeliverNothing
  <1> HIDE DEF none, whole
  <1> QED  BY <1>1, <1>2, <1>3 DEF Begun, whole, none

LoopBegun(x, opts, p, n, place, w, s, g) ==
    /\ Begun(opts, Whole(x, opts), s, g)
    /\ w = <<>> /\ g = 0 => s = SoFar(x, opts, p, n, place)
    /\ w = <<>> /\ g = 0 /\ place = "flush" /\ (opts.array \/ opts.group => p = Len(x.turns))
          => s = Whole(x, opts)

InLoop(x, opts, place) ==
    x \in Executions /\ opts \in OptionSet /\ IsRegular(x, opts) /\ place \in {"read", "flush"}

LEMMA BegunInLoop ==
    ASSUME NEW x, NEW opts, NEW place, InLoop(x, opts, place), NEW p, NEW n, NEW w, NEW s, NEW g, NEW code,
           LoopOK(x, opts, p, n, place, w, s, g, code)
    PROVE  LoopBegun(x, opts, p, n, place, w, s, g)
  <1> DEFINE U == Units(opts)
             f == SoFar(x, opts, p, n, place)
             whole == Whole(x, opts)
             due == Pending(w)
  <1>1. AllTurns(x.turns, opts)
    BY RegularTurns DEF InLoop, OptionSet, Words
  <1>2. InTurns(x, opts, p, n) /\ Delivered(U, s, f, due, g) /\ (place = "flush" => n = Len(x.turns[p].reads))
    BY DEF LoopOK, InLoop
  <1>3. SoFarBegins(x, opts, p, n, place)
    BY <1>1, <1>2, SoFarIsPart DEF InLoop
  <1>4. /\ f \in Seq(U) /\ \E more \in Seq(U) : whole = f \o more
        /\ place = "flush" /\ (opts.array \/ opts.group => p = Len(x.turns)) => whole = f
    BY <1>2, <1>3 DEF SoFarBegins
  <1>5. w = <<>> => due = <<>>
    BY PendingNone
  <1> HIDE DEF U, f, whole, due
  <1>6. s \in Seq(U) /\ due \in Seq(U)
    BY <1>2 DEF Delivered
  <1>7. \E found, rest, more \in Seq(U) : Delivered(U, s, found, rest, g) /\ whole = found \o more
    BY <1>2, <1>4, <1>6
  <1>8. Begun(opts, whole, s, g)
    BY <1>7 DEF Begun, U
  <1>9. ASSUME w = <<>>, g = 0 PROVE s = f
    <2>1. f = s \o due
      BY <1>2, <1>9 DEF Delivered
    <2> QED  BY <1>5, <1>6, <1>9, <2>1
  <1>10. ASSUME w = <<>>, g = 0, place = "flush", opts.array \/ opts.group => p = Len(x.turns)
         PROVE  s = whole
    BY <1>4, <1>9, <1>10
  <1> QED  BY <1>8, <1>9, <1>10 DEF LoopBegun, whole, f

LEMMA LoopWrites ==
    ASSUME NEW x, NEW opts, NEW p, NEW n, NEW place, NEW w, NEW s, NEW g \in Nat, NEW code,
           LoopOK(x, opts, p, n, place, w, s, g, code), w # <<>>
    PROVE  /\ IsRegular(x, opts) => Head(w).fd = "stdout"
           /\ LoopOK(x, opts, p, n, place, Tail(w), s \o Head(w).text, g, code)
           /\ \A k \in 0..(Len(Head(w).text) - 1) :
                 LoopOK(x, opts, p, n, place, Tail(w), s \o SubSeq(Head(w).text, 1, k), g + 1, code)
  <1> DEFINE U == Units(opts)
             f == SoFar(x, opts, p, n, place)
             h == Head(w).text
             r == Pending(Tail(w))
  <1>1. ASSUME IsRegular(x, opts)
        PROVE  /\ Head(w).fd = "stdout" /\ Tail(w) \in Seq(TextWrites(opts))
               /\ Delivered(U, s \o h, f, r, g)
               /\ \A k \in 0..(Len(h) - 1) : Delivered(U, s \o SubSeq(h, 1, k), f, r, g + 1)
    <2>1. w \in Seq(TextWrites(opts)) /\ Delivered(U, s, f, Pending(w), g)
      BY <1>1 DEF LoopOK
    <2>2. Head(w) \in TextWrites(opts) /\ Tail(w) \in Seq(TextWrites(opts)) /\ Pending(w) = h \o r
      BY <2>1, FirstPending
    <2>3. Head(w).fd = "stdout" /\ h \in Seq(U)
      <3> DEFINE e == Head(w)
      <3> HIDE DEF e, U
      <3>1. e \in TextWrites(opts)
        BY <2>2 DEF e
      <3> QED  BY <3>1 DEF TextWrites, U, e
    <2>4. r \in Seq(U)
      <3> DEFINE t == Tail(w)
      <3> HIDE DEF t
      <3> QED  BY <2>2, TextsOfWrites DEF t
    <2>5. Delivered(U, s, f, h \o r, g)
      BY <2>1, <2>2
    <2> HIDE DEF U, f, h, r
    <2>6. Delivered(U, s \o h, f, r, g)
      BY <2>3, <2>4, <2>5, DeliverAll
    <2>7. ASSUME NEW k \in 0..(Len(h) - 1) PROVE Delivered(U, s \o SubSeq(h, 1, k), f, r, g + 1)
      BY <2>3, <2>4, <2>5, DeliverShort
    <2> QED  BY <2>2, <2>3, <2>6, <2>7
  <1>2. InTurns(x, opts, p, n) /\ code = Undefined /\ (place = "flush" => n = Len(x.turns[p].reads))
    BY DEF LoopOK
  <1> HIDE DEF f, r
  <1> QED  BY <1>1, <1>2 DEF LoopOK, f, r

\* Writes that are added when none is due.
LEMMA LoopAdds ==
    ASSUME NEW opts, NEW texts, NEW before, NEW after, Adds(opts, texts, before, after),
           NEW s, NEW g, Delivered(Units(opts), s, before, Pending(<<>>), g)
    PROVE  /\ Due(texts) \in Seq(TextWrites(opts))
           /\ Delivered(Units(opts), s, after, Pending(Due(texts)), g)
  <1> DEFINE U == Units(opts)
             x == FlattenSeq(texts)
  <1>1. texts \in Seq(Seq(U)) /\ x \in Seq(U) /\ after = before \o x
    BY DEF Adds
  <1>2. Due(texts) \in Seq(TextWrites(opts)) /\ Pending(Due(texts)) = x
    BY <1>1, DueIsPending
  <1>3. Delivered(U, s, before, <<>>, g)
    BY PendingNone
  <1> HIDE DEF U, x
  <1>4. Delivered(U, s, before \o x, x, g)
    BY <1>1, <1>3, DeliverMore
  <1> QED  BY <1>1, <1>2, <1>4 DEF U

LEMMA LoopReads ==
    ASSUME NEW x \in Executions, NEW opts \in OptionSet, NEW p, NEW n, NEW s, NEW g, NEW code,
           LoopOK(x, opts, p, n, "read", <<>>, s, g, code)
    PROVE  /\ n < Len(x.turns[p].reads) =>
                 LoopOK(x, opts, p, n + 1, "read", Due(TextsRead(x.turns[p], opts, n)), s, g, code)
           /\ n = Len(x.turns[p].reads) =>
                 LoopOK(x, opts, p, n, "flush", Due(TextsParsed(x.turns[p], opts)), s, g, code)
  <1> DEFINE t == x.turns[p]
             now == SoFar(x, opts, p, n, "read")
             more == SoFar(x, opts, p, n + 1, "read")
             all == SoFar(x, opts, p, n, "flush")
             texts == TextsRead(t, opts, n)
             last == TextsParsed(t, opts)
  <1>1. InTurns(x, opts, p, n) /\ code = Undefined
    BY DEF LoopOK
  <1>2. Len(t.reads) \in Nat
    <2>1. x.turns \in Seq(Turns) \ {<<>>}
      BY ExecutionsAreComplete
    <2>2. t \in Turns
      BY <1>1, <2>1 DEF InTurns
    <2> HIDE DEF t
    <2> QED  BY <2>2 DEF Turns
  <1>3. ASSUME IsRegular(x, opts)
        PROVE  /\ Delivered(Units(opts), s, now, Pending(<<>>), g)
               /\ n < Len(t.reads) => Adds(opts, texts, now, more)
               /\ n = Len(t.reads) => Adds(opts, last, now, all)
    <2>1. Delivered(Units(opts), s, now, Pending(<<>>), g)
      BY <1>3 DEF LoopOK
    <2>2. AllTurns(x.turns, opts)
      BY <1>3, RegularTurns DEF OptionSet, Words
    <2>3. SoFarSteps(x, opts, p, n)
      BY <1>1, <2>2, SoFarGrows DEF InTurns
    <2> QED  BY <2>1, <2>3 DEF SoFarSteps
  <1> HIDE DEF now, more, all, texts, last
  <1>4. ASSUME n < Len(t.reads) PROVE LoopOK(x, opts, p, n + 1, "read", Due(texts), s, g, code)
    <2>1. InTurns(x, opts, p, n + 1)
      BY <1>1, <1>2, <1>4 DEF InTurns
    <2>2. ASSUME IsRegular(x, opts)
          PROVE  /\ Due(texts) \in Seq(TextWrites(opts))
                 /\ Delivered(Units(opts), s, more, Pending(Due(texts)), g)
      BY <1>3, <1>4, <2>2, LoopAdds
    <2> QED  BY <1>1, <2>1, <2>2 DEF LoopOK, more
  <1>5. ASSUME n = Len(t.reads) PROVE LoopOK(x, opts, p, n, "flush", Due(last), s, g, code)
    <2>1. ASSUME IsRegular(x, opts)
          PROVE  /\ Due(last) \in Seq(TextWrites(opts))
                 /\ Delivered(Units(opts), s, all, Pending(Due(last)), g)
      BY <1>3, <1>5, <2>1, LoopAdds
    <2> QED  BY <1>1, <1>5, <2>1 DEF LoopOK, all
  <1> QED  BY <1>4, <1>5 DEF texts, last

LEMMA LoopGoesOn ==
    ASSUME NEW x \in Executions, NEW opts \in OptionSet, NEW p, NEW n, NEW s, NEW g, NEW code,
           LoopOK(x, opts, p, n, "flush", <<>>, s, g, code), opts.array \/ opts.group, p < Len(x.turns)
    PROVE  LoopOK(x, opts, p + 1, 0, "read", <<>>, s, g, code)
  <1> DEFINE t == x.turns[p + 1]
             now == SoFar(x, opts, p, n, "flush")
             more == SoFar(x, opts, p + 1, 0, "read")
  <1>1. InTurns(x, opts, p, n) /\ code = Undefined /\ n = Len(x.turns[p].reads)
    BY DEF LoopOK
  <1>2. InTurns(x, opts, p + 1, 0)
    <2>1. x.turns \in Seq(Turns)
      BY ExecutionsAreComplete
    <2>2. p + 1 \in 1..Len(x.turns)
      BY <1>1, <2>1 DEF InTurns
    <2>3. t \in Turns
      BY <2>1, <2>2
    <2> HIDE DEF t
    <2>4. 0 \in 0..Len(t.reads)
      BY <2>3 DEF Turns
    <2> QED  BY <1>1, <2>2, <2>4 DEF InTurns, t
  <1>3. ASSUME IsRegular(x, opts)
        PROVE  <<>> \in Seq(TextWrites(opts)) /\ Delivered(Units(opts), s, more, Pending(<<>>), g)
    <2>1. <<>> \in Seq(TextWrites(opts)) /\ Delivered(Units(opts), s, now, Pending(<<>>), g)
      BY <1>3 DEF LoopOK
    <2>2. AllTurns(x.turns, opts)
      BY <1>3, RegularTurns DEF OptionSet, Words
    <2>3. SoFarSteps(x, opts, p, n)
      BY <1>1, <2>2, SoFarGrows DEF InTurns
    <2>4. more = now
      BY <1>1, <2>3 DEF SoFarSteps
    <2> QED  BY <2>1, <2>4
  <1> HIDE DEF more
  <1> QED  BY <1>1, <1>2, <1>3 DEF LoopOK, more

LEMMA LoopBegins ==
    ASSUME NEW x \in Executions, NEW opts \in OptionSet, ~opts.help
    PROVE  LoopOK(x, opts, 1, 0, "read", <<>>, <<>>, 0, Undefined)
  <1> DEFINE now == SoFar(x, opts, 1, 0, "read")
             t == x.turns[1]
  <1>1. 1 \in 1..Len(x.turns) /\ 0 \in 0..Len(t.reads)
    <2>1. x.turns \in Seq(Turns) \ {<<>>}
      BY ExecutionsAreComplete
    <2>2. t \in Turns /\ 1 \in 1..Len(x.turns)
      BY <2>1
    <2> HIDE DEF t
    <2> QED  BY <2>2 DEF Turns
  <1>2. ASSUME IsRegular(x, opts)
        PROVE  <<>> \in Seq(TextWrites(opts)) /\ Delivered(Units(opts), <<>>, now, Pending(<<>>), 0)
    <2>1. AllTurns(x.turns, opts)
      BY <1>2, RegularTurns DEF OptionSet, Words
    <2> DEFINE p == 1
               n == 0
    <2>2. p \in 1..Len(x.turns) /\ n \in 0..Len(x.turns[p].reads) /\ p = 1 /\ n = 0
      BY <1>1
    <2> HIDE DEF p, n
    <2>3. SoFarSteps(x, opts, p, n)
      BY <2>1, <2>2, SoFarGrows
    <2>4. now = <<>>
      BY <2>2, <2>3 DEF SoFarSteps
    <2>5. Delivered(Units(opts), <<>>, <<>>, <<>>, 0)
      <3> DEFINE U == Units(opts)
      <3> HIDE DEF U
      <3>1. Delivered(U, <<>>, <<>>, <<>>, 0)
        BY DeliverNothing
      <3> QED  BY <3>1 DEF U
    <2> QED  BY <2>4, <2>5, PendingNone
  <1> HIDE DEF now
  <1> QED  BY <1>1, <1>2 DEF LoopOK, InTurns, now

---------------------------------------------------------------------------
(* The inductive invariant. *)

BeforePlaces == {"start", "load", "main", "options", "help"}
LoopPlaces   == {"read", "flush"}

ProgramTyped ==
    /\ execution \in Executions
    /\ pc \in BeforePlaces \cup LoopPlaces \cup {"ended"}
    /\ turn \in Nat /\ reads \in Nat /\ short \in Nat
    /\ words \in Seq(Words) /\ next \in Nat \ {0} /\ options \in OptionSet
    /\ out = [stdout |-> out.stdout, stderr |-> out.stderr]

ProgramInv ==
    /\ ProgramTyped
    /\ pc \in BeforePlaces => BeforeOK(options, turn, reads, pc, writes, out.stdout, short, status)
    /\ pc \in LoopPlaces => LoopOK(execution, options, turn, reads, pc, writes, out.stdout, short, status)
    /\ pc = "ended" => EndOK(execution, options, writes, out.stdout, short, status)

LEMMA InvInit == Init => ProgramInv
  <1> SUFFICES ASSUME Init PROVE ProgramInv
    OBVIOUS
  <1>1. options \in OptionSet
    BY NoOptionsTyped DEF Init
  <1>2. words \in Seq(Words)
    <2> HIDE DEF Words
    <2> QED  BY DEF Init
  <1>3. ProgramTyped
    BY <1>1, <1>2 DEF Init, ProgramTyped, BeforePlaces
  <1>4. BeforeOK(options, turn, reads, pc, writes, out.stdout, short, status)
    BY DEF Init, BeforeOK
  <1>5. pc = "start"
    BY DEF Init
  <1> QED  BY <1>3, <1>4, <1>5 DEF ProgramInv, LoopPlaces

\* As long as the program runs, what has arrived at stdout begins the answer.
LEMMA BegunSoFar ==
    ASSUME ProgramInv, pc # "ended", IsRegular(execution, options)
    PROVE  Begun(options, Whole(execution, options), out.stdout, short)
  <1>1. CASE pc \in BeforePlaces
    <2>1. out.stdout = <<>>
      BY <1>1 DEF ProgramInv, BeforeOK
    <2> QED  BY <2>1, BegunBefore DEF ProgramInv, ProgramTyped
  <1>2. CASE pc \in LoopPlaces
    <2>1. LoopOK(execution, options, turn, reads, pc, writes, out.stdout, short, status)
      BY <1>2 DEF ProgramInv
    <2>2. InLoop(execution, options, pc)
      BY <1>2 DEF ProgramInv, ProgramTyped, LoopPlaces, InLoop
    <2> DEFINE arrived == out.stdout
    <2> HIDE DEF arrived
    <2>3. LoopBegun(execution, options, turn, reads, pc, writes, arrived, short)
      BY <2>1, <2>2, BegunInLoop DEF arrived
    <2> QED  BY <2>3 DEF LoopBegun, arrived
  <1> QED  BY <1>1, <1>2 DEF ProgramInv, ProgramTyped

LEMMA NoneOrOne ==
    ASSUME ProgramInv, short <= 1 PROVE short \in {0, 1}
  <1>1. short \in Nat
    BY DEF ProgramInv, ProgramTyped
  <1> QED  BY <1>1

\* The program ends: with a status other than 0, with an exception, or complete.
Completes(stdout) ==
    /\ stdout = out.stdout
    /\ short = 0 /\ IsRegular(execution, options) => out.stdout = Whole(execution, options)

LEMMA EndsWell ==
    ASSUME ProgramInv, pc # "ended", NEW code, NEW descriptors, Ends(code, descriptors),
           descriptors = [stdout |-> descriptors.stdout, stderr |-> descriptors.stderr],
           \/ code # 0 /\ descriptors.stdout = out.stdout
           \/ descriptors.stdout = Append(out.stdout, <<"we failed">>)
           \/ Completes(descriptors.stdout)
    PROVE  ProgramInv'
  <1>1. /\ pc' = "ended" /\ status' = code /\ out' = descriptors /\ writes' = <<>>
        /\ execution' = execution /\ turn' = turn /\ reads' = reads /\ short' = short
        /\ words' = words /\ next' = next /\ options' = options
    BY DEF Ends, argumentVars
  <1>2. ProgramTyped'
    BY <1>1 DEF ProgramInv, ProgramTyped
  <1>3. ASSUME short <= 1, IsRegular(execution, options)
        PROVE  Answered(Whole(execution, options), out'.stdout, short, code)
    <2>1. Begun(options, Whole(execution, options), out.stdout, short)
      BY <1>3, BegunSoFar
    <2>2. short \in {0, 1}
      BY <1>3, NoneOrOne
    <2>3. CASE code # 0 /\ descriptors.stdout = out.stdout
      BY <1>1, <2>1, <2>2, <2>3, BegunIsAnswered
    <2>4. CASE descriptors.stdout = Append(out.stdout, <<"we failed">>)
      BY <1>1, <2>1, <2>2, <2>4, FailureIsAnswered
    <2>5. CASE Completes(descriptors.stdout)
      BY <1>1, <1>3, <2>1, <2>2, <2>5, BegunIsAnswered DEF Completes
    <2> QED  BY <2>3, <2>4, <2>5
  <1>4. EndOK(execution, options, writes', out'.stdout, short, code)
    BY <1>1, <1>3 DEF EndOK
  <1> QED  BY <1>1, <1>2, <1>4 DEF ProgramInv, BeforePlaces, LoopPlaces

LEMMA DiesWell ==
    ASSUME ProgramInv, pc # "ended", NEW code \in {-1, 1, 2, 3}, NEW message, Dies(code, message)
    PROVE  ProgramInv'
  <1> DEFINE d == [out EXCEPT !.stderr = Append(@, <<"message", message>>)]
  <1>1. out = [stdout |-> out.stdout, stderr |-> out.stderr]
    BY DEF ProgramInv, ProgramTyped
  <1>2. Ends(code, d)
    BY DEF Dies
  <1>3. d.stdout = out.stdout /\ d = [stdout |-> d.stdout, stderr |-> d.stderr]
    <2> DEFINE a == out.stdout
               b == out.stderr
               c == Append(b, <<"message", message>>)
    <2>1. out = [stdout |-> a, stderr |-> b]
      BY <1>1
    <2> HIDE DEF a, b
    <2>2. d = [stdout |-> a, stderr |-> c]
      BY <2>1
    <2> HIDE DEF c, d
    <2> QED  BY <2>2 DEF a
  <1>4. code # 0
    OBVIOUS
  <1> HIDE DEF d
  <1> QED  BY <1>2, <1>3, <1>4, EndsWell

LEMMA ThrowsWell ==
    ASSUME ProgramInv, pc # "ended", Throws PROVE ProgramInv'
  <1> DEFINE d == [out EXCEPT !.stdout = Append(@, <<"we failed">>)]
             z == 0
  <1>1. out = [stdout |-> out.stdout, stderr |-> out.stderr]
    BY DEF ProgramInv, ProgramTyped
  <1>2. Ends(z, d)
    BY DEF Throws
  <1>3. d.stdout = Append(out.stdout, <<"we failed">>) /\ d = [stdout |-> d.stdout, stderr |-> d.stderr]
    <2> DEFINE a == out.stdout
               b == out.stderr
               c == Append(a, <<"we failed">>)
    <2>1. out = [stdout |-> a, stderr |-> b]
      BY <1>1
    <2>2. c = Append(out.stdout, <<"we failed">>)
      OBVIOUS
    <2> HIDE DEF a, b
    <2>3. d = [stdout |-> c, stderr |-> b]
      <3>1. d = [out EXCEPT !.stdout = c]
        BY <2>1 DEF a
      <3> HIDE DEF c, d
      <3> QED  BY <2>1, <3>1
    <2> HIDE DEF c, d
    <2> QED  BY <2>2, <2>3
  <1> HIDE DEF d, z
  <1> QED  BY <1>2, <1>3, EndsWell

---------------------------------------------------------------------------
(* Every action keeps it. *)

LEMMA PassesOn ==
    ASSUME ProgramInv, NEW here, NEW there, pc = here, pc' = there,
           here \in BeforePlaces \ {"help"}, there \in BeforePlaces \ {"help"},
           UNCHANGED <<execution, turn, reads, writes, out, short, status>>,
           words' \in Seq(Words), next' \in Nat \ {0}, options' \in OptionSet
    PROVE  ProgramInv'
  <1>1. ProgramTyped'
    BY DEF ProgramInv, ProgramTyped
  <1>2. BeforeOK(options, turn, reads, pc, writes, out.stdout, short, status)
    BY DEF ProgramInv
  <1>3. /\ out.stdout = <<>> /\ turn = 1 /\ reads = 0 /\ status = Undefined
        /\ writes = <<>> /\ short = 0
    BY <1>2 DEF BeforeOK
  <1>4. BeforeOK(options', turn', reads', pc', writes', out'.stdout, short', status')
    BY <1>3 DEF BeforeOK
  <1>5. pc' \notin LoopPlaces /\ pc' # "ended"
    BY DEF BeforePlaces, LoopPlaces
  <1> QED  BY <1>1, <1>4, <1>5 DEF ProgramInv

LEMMA StartKeeps ==
    ASSUME ProgramInv, CreateHeap \/ Load \/ CallJrqMain \/ ReadOption \/ RefuseCode
    PROVE  ProgramInv'
  <1>1. ProgramTyped
    BY DEF ProgramInv
  <1>2. CASE CreateHeap
    <2>1. CASE Goes("load") /\ UNCHANGED argumentVars
      <3>1. /\ pc = "start" /\ pc' = "load"
            /\ UNCHANGED <<execution, turn, reads, writes, out, short, status>>
            /\ words' \in Seq(Words) /\ next' \in Nat \ {0} /\ options' \in OptionSet
        BY <1>1, <1>2, <2>1 DEF CreateHeap, Goes, argumentVars, ProgramTyped
      <3>2. "start" \in BeforePlaces \ {"help"} /\ "load" \in BeforePlaces \ {"help"}
        BY DEF BeforePlaces
      <3> QED  BY <3>1, <3>2, PassesOn
    <2>2. CASE Dies(1, "heap")
      <3>1. pc # "ended"
        BY <1>2 DEF CreateHeap
      <3>2. 1 \in {-1, 1, 2, 3}
        OBVIOUS
      <3> QED  BY <2>2, <3>1, <3>2, DiesWell
    <2> QED  BY <1>2, <2>1, <2>2 DEF CreateHeap
  <1>3. CASE Load
    <2>1. CASE execution.script = "bad"
      <3>1. pc # "ended" /\ Dies(-1, "eval")
        BY <1>3, <2>1 DEF Load
      <3>2. -1 \in {-1, 1, 2, 3}
        OBVIOUS
      <3> QED  BY <3>1, <3>2, DiesWell
    <2>2. CASE execution.script # "bad"
      <3>1. /\ pc = "load" /\ pc' = "main"
            /\ UNCHANGED <<execution, turn, reads, writes, out, short, status>>
            /\ words' \in Seq(Words) /\ next' \in Nat \ {0} /\ options' \in OptionSet
        BY <1>1, <1>3, <2>2 DEF Load, Goes, argumentVars, ProgramTyped
      <3>2. "load" \in BeforePlaces \ {"help"} /\ "main" \in BeforePlaces \ {"help"}
        BY DEF BeforePlaces
      <3> QED  BY <3>1, <3>2, PassesOn
    <2> QED  BY <2>1, <2>2
  <1>4. CASE CallJrqMain
    <2>1. CASE execution.script = "without"
      <3>1. pc # "ended" /\ Dies(-1, "call")
        BY <1>4, <2>1 DEF CallJrqMain
      <3>2. -1 \in {-1, 1, 2, 3}
        OBVIOUS
      <3> QED  BY <3>1, <3>2, DiesWell
    <2>2. CASE execution.script # "without"
      <3>1. execution.argv \in Seq(Words)
        BY <1>1, ExecutionsAreComplete DEF ProgramTyped, Words
      <3> DEFINE all == FlattenSeq([i \in DOMAIN execution.argv |-> WordsOf(execution.argv[i])])
      <3>2. all \in Seq(Words)
        BY <3>1, AllWordsAreWords
      <3>3. /\ pc = "main" /\ pc' = "options"
            /\ UNCHANGED <<execution, turn, reads, writes, out, short, status>>
            /\ words' = all /\ next' = next /\ options' = options
        BY <1>4, <2>2 DEF CallJrqMain, Goes
      <3> HIDE DEF all
      <3>4. words' \in Seq(Words) /\ next' \in Nat \ {0} /\ options' \in OptionSet
        BY <1>1, <3>2, <3>3 DEF ProgramTyped
      <3>5. "main" \in BeforePlaces \ {"help"} /\ "options" \in BeforePlaces \ {"help"}
        BY DEF BeforePlaces
      <3> QED  BY <3>3, <3>4, <3>5, PassesOn
    <2> QED  BY <2>1, <2>2
  <1>5. CASE ReadOption
    <2>1. /\ pc = "options" /\ pc' = "options" /\ next <= Len(words) /\ OptionTurn
          /\ UNCHANGED <<execution, turn, reads, writes, out, short, status>>
      BY <1>5 DEF ReadOption, processVars
    <2>2. words' \in Seq(Words) /\ next' \in Nat \ {0} /\ options' \in OptionSet
      BY <1>1, <2>1, OptionsTyped DEF ProgramTyped
    <2>3. "options" \in BeforePlaces \ {"help"}
      BY DEF BeforePlaces
    <2> QED  BY <2>1, <2>2, <2>3, PassesOn
  <1>6. CASE RefuseCode
    BY <1>6, ThrowsWell DEF RefuseCode
  <1> QED  BY <1>2, <1>3, <1>4, <1>5, <1>6

LEMMA StartTurnsKeeps ==
    ASSUME ProgramInv, StartTurns PROVE ProgramInv'
  <1> DEFINE help == [fd |-> "stderr", text |-> <<<<"help">>, Newline>>]
  <1>1. /\ pc = "options" /\ options' = Completed(options)
        /\ execution' = execution /\ turn' = turn /\ reads' = reads /\ out' = out /\ short' = short
        /\ status' = status /\ words' = words /\ next' = next
        /\ options.help => pc' = "help" /\ writes' = <<help>>
        /\ ~options.help => pc' = "read" /\ writes' = writes
    BY DEF StartTurns
  <1>2. options' \in OptionSet /\ options'.help = options.help
    BY <1>1, CompletedTyped DEF ProgramInv, ProgramTyped
  <1>3. ProgramTyped'
    BY <1>1, <1>2 DEF ProgramInv, ProgramTyped, BeforePlaces, LoopPlaces
  <1>4. BeforeOK(options, turn, reads, pc, writes, out.stdout, short, status)
    BY <1>1 DEF ProgramInv, BeforePlaces
  <1>5. /\ out.stdout = <<>> /\ turn = 1 /\ reads = 0 /\ status = Undefined
        /\ writes = <<>> /\ short = 0
    BY <1>1, <1>4 DEF BeforeOK
  <1>6. CASE options.help
    <2>1. <<help>> \in Seq(HelpWrites)
      BY DEF HelpWrites
    <2> HIDE DEF help
    <2>2. BeforeOK(options', turn', reads', pc', writes', out'.stdout, short', status')
      BY <1>1, <1>2, <1>5, <1>6, <2>1 DEF BeforeOK
    <2>3. pc' \notin LoopPlaces /\ pc' # "ended"
      BY <1>1, <1>6 DEF LoopPlaces
    <2> QED  BY <1>3, <2>2, <2>3 DEF ProgramInv
  <1>7. CASE ~options.help
    <2>1. LoopOK(execution, options', 1, 0, "read", <<>>, <<>>, 0, Undefined)
      <3> DEFINE opts == options'
      <3>1. opts \in OptionSet /\ ~opts.help /\ execution \in Executions
        BY <1>2, <1>7 DEF ProgramInv, ProgramTyped
      <3> HIDE DEF opts
      <3>2. LoopOK(execution, opts, 1, 0, "read", <<>>, <<>>, 0, Undefined)
        BY <3>1, LoopBegins
      <3> QED  BY <3>2 DEF opts
    <2>2. LoopOK(execution', options', turn', reads', pc', writes', out'.stdout, short', status')
      BY <1>1, <1>5, <1>7, <2>1
    <2>3. pc' \notin BeforePlaces /\ pc' # "ended"
      BY <1>1, <1>7 DEF BeforePlaces
    <2> QED  BY <1>3, <2>2, <2>3 DEF ProgramInv
  <1> QED  BY <1>6, <1>7

LEMMA DueNone == Due(<<>>) = <<>>
  BY DEF Due

LEMMA InLoopInv ==
    ASSUME ProgramInv, pc \in LoopPlaces
    PROVE  /\ LoopOK(execution, options, turn, reads, pc, writes, out.stdout, short, status)
           /\ execution \in Executions /\ options \in OptionSet /\ pc \in {"read", "flush"}
           /\ InTurns(execution, options, turn, reads) /\ status = Undefined
           /\ Turn \in Turns /\ Len(Turn.reads) \in Nat
           /\ pc = "flush" => reads = Len(Turn.reads)
  <1>1. LoopOK(execution, options, turn, reads, pc, writes, out.stdout, short, status)
    BY DEF ProgramInv
  <1>2. execution \in Executions /\ options \in OptionSet /\ pc \in {"read", "flush"}
    BY DEF ProgramInv, ProgramTyped, LoopPlaces
  <1>3. /\ InTurns(execution, options, turn, reads) /\ status = Undefined
        /\ pc = "flush" => reads = Len(execution.turns[turn].reads)
    BY <1>1 DEF LoopOK
  <1>4. execution.turns[turn] \in Turns
    <2>1. execution.turns \in Seq(Turns)
      BY <1>2, ExecutionsAreComplete
    <2> QED  BY <1>3, <2>1 DEF InTurns
  <1> DEFINE t == execution.turns[turn]
  <1>5. Len(t.reads) \in Nat
    <2> HIDE DEF t
    <2> QED  BY <1>4 DEF Turns, t
  <1> QED  BY <1>1, <1>2, <1>3, <1>4, <1>5 DEF Turn

\* What holds in the next state holds in the loop again.
LEMMA StaysInLoop ==
    ASSUME ProgramInv, pc \in LoopPlaces, pc' \in LoopPlaces,
           execution' = execution, out' = out, short' = short, status' = status,
           UNCHANGED argumentVars, turn' \in Nat, reads' \in Nat,
           LoopOK(execution, options, turn', reads', pc', writes', out.stdout, short, status)
    PROVE  ProgramInv'
  <1>1. ProgramTyped'
    BY DEF ProgramInv, ProgramTyped, argumentVars
  <1>2. LoopOK(execution', options', turn', reads', pc', writes', out'.stdout, short', status')
    BY DEF argumentVars
  <1>3. pc' \notin BeforePlaces /\ pc' # "ended"
    BY DEF BeforePlaces, LoopPlaces
  <1> QED  BY <1>1, <1>2, <1>3 DEF ProgramInv

LEMMA ReadPieceKeeps ==
    ASSUME ProgramInv, ReadPiece PROVE ProgramInv'
  <1> DEFINE piece == Turn.reads[reads + 1]
             texts == TextsRead(Turn, options, reads)
  <1>1. /\ pc = "read" /\ writes = <<>> /\ reads < Len(Turn.reads) /\ reads' = reads + 1
        /\ writes' = Due(UnparsedTexts(piece) \o RowTexts(piece))
        /\ execution' = execution /\ pc' = pc /\ turn' = turn
        /\ out' = out /\ short' = short /\ status' = status /\ UNCHANGED argumentVars
    BY DEF ReadPiece
  <1>2. pc \in LoopPlaces
    BY <1>1 DEF LoopPlaces
  <1>3. writes' = Due(texts)
    <2>1. piece \in Pieces
      <3>1. Turn \in Turns /\ reads + 1 \in 1..Len(Turn.reads)
        BY <1>1, <1>2, InLoopInv DEF InTurns
      <3>2. Turn.reads \in Seq(Pieces)
        BY <3>1 DEF Turns
      <3> HIDE DEF Pieces
      <3> QED  BY <3>1, <3>2
    <2>2. texts = TextsOfPiece(piece, options)
      BY DEF TextsRead
    <2> HIDE DEF piece, texts
    <2>3. DOMAIN piece.rows = 1..Len(piece.rows)
      <3>1. piece.rows \in Seq(FoundRows)
        BY <2>1 DEF Pieces
      <3> QED  BY <3>1
    <2>4. TextsOf(piece.rows) = WritesOf(piece.rows, options)
      BY <2>3 DEF TextsOf, WritesOf
    <2>5. UnparsedTexts(piece) \o RowTexts(piece) = TextsOfPiece(piece, options)
      BY <2>4 DEF RowTexts, TextsOfPiece
    <2> QED  BY <1>1, <2>2, <2>5
  <1> HIDE DEF texts, piece
  <1>4. LoopOK(execution, options, turn, reads + 1, "read", Due(texts), out.stdout, short, status)
    <2> DEFINE s == out.stdout
    <2>1. LoopOK(execution, options, turn, reads, "read", <<>>, s, short, status)
      BY <1>1, <1>2, InLoopInv
    <2>2. execution \in Executions /\ options \in OptionSet
      BY <1>2, InLoopInv
    <2>3. reads < Len(execution.turns[turn].reads)
      BY <1>1 DEF Turn
    <2> HIDE DEF s
    <2>4. LoopOK(execution, options, turn, reads + 1, "read", Due(TextsRead(execution.turns[turn], options, reads)), s, short, status)
      BY <2>1, <2>2, <2>3, LoopReads
    <2> QED  BY <2>4 DEF s, texts, Turn
  <1>5. LoopOK(execution, options, turn', reads', pc', writes', out.stdout, short, status)
    BY <1>1, <1>3, <1>4
  <1>6. turn' \in Nat /\ reads' \in Nat
    BY <1>1 DEF ProgramInv, ProgramTyped
  <1> QED  BY <1>1, <1>2, <1>5, <1>6, StaysInLoop

LEMMA FinishParseKeeps ==
    ASSUME ProgramInv, FinishParse PROVE ProgramInv'
  <1> DEFINE texts == TextsParsed(Turn, options)
  <1>1. /\ pc = "read" /\ writes = <<>> /\ reads = Len(Turn.reads) /\ reads' = reads
        /\ writes' = (IF options.keys THEN Due(KeyWrites(Turn.keys, options)) ELSE <<>>)
        /\ execution' = execution /\ pc' = "flush" /\ turn' = turn
        /\ out' = out /\ short' = short /\ status' = status /\ UNCHANGED argumentVars
    BY DEF FinishParse
  <1>2. pc \in LoopPlaces /\ pc' \in LoopPlaces
    BY <1>1 DEF LoopPlaces
  <1>3. writes' = Due(texts)
    BY <1>1, DueNone DEF TextsParsed
  <1> HIDE DEF texts
  <1>4. LoopOK(execution, options, turn, reads, "flush", Due(texts), out.stdout, short, status)
    <2> DEFINE s == out.stdout
    <2>1. LoopOK(execution, options, turn, reads, "read", <<>>, s, short, status)
      BY <1>1, <1>2, InLoopInv
    <2>2. execution \in Executions /\ options \in OptionSet
      BY <1>2, InLoopInv
    <2>3. reads = Len(execution.turns[turn].reads)
      BY <1>1 DEF Turn
    <2> HIDE DEF s
    <2>4. LoopOK(execution, options, turn, reads, "flush", Due(TextsParsed(execution.turns[turn], options)), s, short, status)
      BY <2>1, <2>2, <2>3, LoopReads
    <2> QED  BY <2>4 DEF s, texts, Turn
  <1>5. LoopOK(execution, options, turn', reads', pc', writes', out.stdout, short, status)
    BY <1>1, <1>3, <1>4
  <1>6. turn' \in Nat /\ reads' \in Nat
    BY <1>1 DEF ProgramInv, ProgramTyped
  <1> QED  BY <1>1, <1>2, <1>5, <1>6, StaysInLoop

LEMMA FinishTurnKeeps ==
    ASSUME ProgramInv, FinishTurn PROVE ProgramInv'
  <1>1. pc = "flush" /\ writes = <<>> /\ pc \in LoopPlaces /\ pc # "ended"
    BY DEF FinishTurn, LoopPlaces
  <1> DEFINE s == out.stdout
  <1>2. LoopOK(execution, options, turn, reads, "flush", <<>>, s, short, status)
    BY <1>1, InLoopInv
  <1>3. execution \in Executions /\ options \in OptionSet /\ turn \in 1..Len(execution.turns) /\ Len(execution.turns) \in Nat
    <2>1. execution \in Executions /\ options \in OptionSet /\ turn \in 1..Len(execution.turns)
      BY <1>1, InLoopInv DEF InTurns
    <2>2. execution.turns \in Seq(Turns)
      BY <2>1, ExecutionsAreComplete
    <2> QED  BY <2>1, <2>2
  <1>4. CASE Again
    <2>1. /\ pc' = "read" /\ turn' = turn + 1 /\ reads' = 0 /\ execution' = execution
          /\ writes' = writes /\ out' = out /\ short' = short /\ status' = status /\ UNCHANGED argumentVars
      BY <1>4 DEF FinishTurn
    <2>2. LoopOK(execution, options, turn + 1, 0, "read", <<>>, s, short, status)
      <3>1. (options.array \/ options.group) /\ turn < Len(execution.turns)
        BY <1>4 DEF Again
      <3> HIDE DEF s
      <3> QED  BY <1>2, <1>3, <3>1, LoopGoesOn
    <2>3. LoopOK(execution, options, turn', reads', pc', writes', out.stdout, short, status)
      BY <1>1, <2>1, <2>2
    <2>4. turn' \in Nat /\ reads' \in Nat /\ pc' \in LoopPlaces
      BY <2>1 DEF ProgramInv, ProgramTyped, LoopPlaces
    <2> QED  BY <1>1, <2>1, <2>3, <2>4, StaysInLoop
  <1>5. CASE ~Again
    <2> DEFINE z == 0
               d == out
    <2>1. Ends(z, d)
      BY <1>5 DEF FinishTurn
    <2>2. options.array \/ options.group => turn = Len(execution.turns)
      BY <1>3, <1>5 DEF Again
    <2>3. ASSUME short = 0, IsRegular(execution, options) PROVE s = Whole(execution, options)
      <3>1. InLoop(execution, options, "flush")
        BY <1>3, <2>3 DEF InLoop
      <3> HIDE DEF s
      <3>2. LoopBegun(execution, options, turn, reads, "flush", <<>>, s, short)
        BY <1>2, <3>1, BegunInLoop
      <3> QED  BY <2>2, <2>3, <3>2 DEF LoopBegun
    <2>4. Completes(d.stdout)
      BY <2>3 DEF Completes
    <2>5. d = [stdout |-> d.stdout, stderr |-> d.stderr]
      BY DEF ProgramInv, ProgramTyped
    <2> HIDE DEF d, z
    <2> QED  BY <1>1, <2>1, <2>4, <2>5, EndsWell
  <1> QED  BY <1>4, <1>5

LEMMA FinishHelpKeeps ==
    ASSUME ProgramInv, FinishHelp PROVE ProgramInv'
  <1> DEFINE z == 0
             d == out
  <1>1. pc = "help" /\ Ends(z, d)
    BY DEF FinishHelp
  <1>2. options.help /\ out.stdout = <<>> /\ execution \in Executions
    <2>1. BeforeOK(options, turn, reads, pc, writes, out.stdout, short, status)
      BY <1>1 DEF ProgramInv, BeforePlaces
    <2> QED  BY <1>1, <2>1 DEF BeforeOK, ProgramInv, ProgramTyped
  <1>3. Whole(execution, options) = <<>>
    <2>1. execution.turns \in Seq(Turns) /\ execution.turns # <<>>
      BY <1>2, ExecutionsAreComplete
    <2> QED  BY <1>2, <2>1, WholeIs
  <1>4. Completes(d.stdout)
    BY <1>2, <1>3 DEF Completes
  <1>5. d = [stdout |-> d.stdout, stderr |-> d.stderr]
    BY DEF ProgramInv, ProgramTyped
  <1>6. pc # "ended"
    BY <1>1
  <1> HIDE DEF d, z
  <1> QED  BY <1>1, <1>4, <1>5, <1>6, EndsWell

LEMMA Arriving ==
    ASSUME NEW o, o = [stdout |-> o.stdout, stderr |-> o.stderr], NEW fd, NEW text, NEW after,
           after = [o EXCEPT ![fd] = @ \o text]
    PROVE  /\ after = [stdout |-> after.stdout, stderr |-> after.stderr]
           /\ fd = "stdout" => after.stdout = o.stdout \o text
           /\ fd = "stderr" => after.stdout = o.stdout
  <1>1. DOMAIN o = {"stdout", "stderr"}
    <2> DEFINE a == o.stdout
               b == o.stderr
    <2>1. o = [stdout |-> a, stderr |-> b]
      OBVIOUS
    <2> HIDE DEF a, b
    <2> QED  BY <2>1
  <1>2. after = [d \in {"stdout", "stderr"} |-> IF d = fd THEN o[fd] \o text ELSE o[d]]
    BY <1>1
  <1>3. after = [stdout |-> after.stdout, stderr |-> after.stderr]
    <2> DEFINE a == after.stdout
               b == after.stderr
    <2>1. DOMAIN after = {"stdout", "stderr"} /\ after = [d \in DOMAIN after |-> after[d]]
      BY <1>2
    <2>2. after["stdout"] = a /\ after["stderr"] = b
      OBVIOUS
    <2> HIDE DEF a, b
    <2>3. after = [stdout |-> a, stderr |-> b]
      BY <2>1, <2>2
    <2> QED  BY <2>3 DEF a, b
  <1>4. after.stdout = IF fd = "stdout" THEN o[fd] \o text ELSE o.stdout
    BY <1>2
  <1> QED  BY <1>3, <1>4

\* A write of all of the first text that is due, or of a beginning of it.
Piece(text, piece, lost) ==
    \/ piece = text /\ lost = 0
    \/ lost = 1 /\ \E k \in 0..(Len(text) - 1) : piece = SubSeq(text, 1, k)

LEMMA WritingKeeps ==
    ASSUME ProgramInv, writes # <<>>, NEW piece, NEW lost, Piece(Head(writes).text, piece, lost),
           Arrives(Head(writes).fd, piece), Written, short' = short + lost
    PROVE  ProgramInv'
  <1> DEFINE h == Head(writes)
  <1>1. /\ writes' = Tail(writes) /\ execution' = execution /\ pc' = pc /\ turn' = turn
        /\ reads' = reads /\ status' = status /\ words' = words /\ next' = next /\ options' = options
        /\ out' = [out EXCEPT ![h.fd] = @ \o piece]
    BY DEF Written, Arrives, argumentVars
  <1>2. /\ out' = [stdout |-> out'.stdout, stderr |-> out'.stderr]
        /\ h.fd = "stdout" => out'.stdout = out.stdout \o piece
        /\ h.fd = "stderr" => out'.stdout = out.stdout
    <2> DEFINE fd == h.fd
    <2>1. out = [stdout |-> out.stdout, stderr |-> out.stderr]
      BY DEF ProgramInv, ProgramTyped
    <2>2. out' = [out EXCEPT ![fd] = @ \o piece]
      BY <1>1
    <2> DEFINE after == out'
    <2> HIDE DEF fd, after
    <2>3. /\ after = [stdout |-> after.stdout, stderr |-> after.stderr]
          /\ fd = "stdout" => after.stdout = out.stdout \o piece
          /\ fd = "stderr" => after.stdout = out.stdout
      BY <2>1, <2>2, Arriving DEF after
    <2> QED  BY <2>3 DEF fd, after
  <1>3. lost \in {0, 1} /\ short \in Nat
    BY DEF Piece, ProgramInv, ProgramTyped
  <1>4. ProgramTyped'
    BY <1>1, <1>2, <1>3 DEF ProgramInv, ProgramTyped
  <1>5. CASE pc \in BeforePlaces
    <2>1. BeforeOK(options, turn, reads, pc, writes, out.stdout, short, status)
      BY <1>5 DEF ProgramInv
    <2>2. pc = "help" /\ options.help /\ writes \in Seq(HelpWrites) /\ out.stdout = <<>>
          /\ turn = 1 /\ reads = 0 /\ status = Undefined
      BY <2>1 DEF BeforeOK
    <2>3. Head(writes) \in HelpWrites /\ Tail(writes) \in Seq(HelpWrites)
      <3> DEFINE V == HelpWrites
      <3>1. writes \in Seq(V)
        BY <2>2
      <3> HIDE DEF V
      <3>2. Head(writes) \in V /\ Tail(writes) \in Seq(V)
        BY <3>1, HeadTailProperties
      <3> QED  BY <3>2 DEF V
    <2>4. h.fd = "stderr"
      BY <2>3 DEF HelpWrites
    <2>5. BeforeOK(options', turn', reads', pc', writes', out'.stdout, short', status')
      BY <1>1, <1>2, <2>2, <2>3, <2>4 DEF BeforeOK
    <2>6. pc' \notin LoopPlaces /\ pc' # "ended"
      BY <1>1, <2>2 DEF LoopPlaces
    <2> QED  BY <1>4, <2>5, <2>6 DEF ProgramInv
  <1>6. CASE pc \in LoopPlaces
    <2> DEFINE s == out.stdout
               t == out'.stdout
    <2>1. LoopOK(execution, options, turn, reads, pc, writes, s, short, status)
      BY <1>6, InLoopInv
    <2>2. LoopOK(execution, options, turn, reads, pc, Tail(writes), t, short + lost, status)
      <3>1. CASE IsRegular(execution, options)
        <4> HIDE DEF s, h
        <4>1. /\ h.fd = "stdout"
              /\ LoopOK(execution, options, turn, reads, pc, Tail(writes), s \o h.text, short, status)
              /\ \A k \in 0..(Len(h.text) - 1) :
                    LoopOK(execution, options, turn, reads, pc, Tail(writes), s \o SubSeq(h.text, 1, k), short + 1, status)
          BY <1>3, <2>1, <3>1, LoopWrites DEF h
        <4>2. t = s \o piece
          BY <1>2, <4>1 DEF s
        <4> HIDE DEF t
        <4>3. CASE piece = h.text /\ lost = 0
          BY <1>3, <4>1, <4>2, <4>3
        <4>4. CASE lost = 1 /\ \E k \in 0..(Len(h.text) - 1) : piece = SubSeq(h.text, 1, k)
          BY <1>3, <4>1, <4>2, <4>4
        <4> QED  BY <4>3, <4>4 DEF Piece, h
      <3>2. CASE ~IsRegular(execution, options)
        BY <2>1, <3>2 DEF LoopOK
      <3> QED  BY <3>1, <3>2
    <2>3. LoopOK(execution', options', turn', reads', pc', writes', out'.stdout, short', status')
      BY <1>1, <2>2
    <2>4. pc' \notin BeforePlaces /\ pc' # "ended"
      BY <1>1, <1>6 DEF BeforePlaces, LoopPlaces
    <2> QED  BY <1>4, <2>3, <2>4 DEF ProgramInv
  <1>7. pc # "ended"
    BY DEF ProgramInv, EndOK
  <1> QED  BY <1>5, <1>6, <1>7 DEF ProgramInv, ProgramTyped

LEMMA WritesKeep ==
    ASSUME ProgramInv, WriteAll \/ WriteShort \/ WriteFails \/ WriteNothing
    PROVE  ProgramInv'
  <1>1. ASSUME writes # <<>> PROVE pc # "ended"
    BY <1>1 DEF ProgramInv, EndOK
  <1>2. CASE WriteAll
    <2> DEFINE piece == Head(writes).text
               lost == 0
    <2>1. writes # <<>> /\ Arrives(Head(writes).fd, piece) /\ Written /\ short' = short + lost
      BY <1>2 DEF WriteAll, ProgramInv, ProgramTyped
    <2>2. Piece(Head(writes).text, piece, lost)
      BY DEF Piece
    <2> HIDE DEF piece, lost
    <2> QED  BY <2>1, <2>2, WritingKeeps
  <1>3. CASE WriteShort
    <2> DEFINE h == Head(writes)
               lost == 1
    <2>1. PICK n \in 0..(Len(h.text) - 1) : Arrives(h.fd, SubSeq(h.text, 1, n))
      BY <1>3 DEF WriteShort
    <2> DEFINE piece == SubSeq(h.text, 1, n)
    <2>2. writes # <<>> /\ Written /\ short' = short + lost
      BY <1>3 DEF WriteShort
    <2>3. Piece(h.text, piece, lost)
      BY DEF Piece
    <2>4. Arrives(h.fd, piece)
      BY <2>1
    <2> HIDE DEF piece, lost
    <2> QED  BY <2>2, <2>3, <2>4, WritingKeeps
  <1>4. CASE WriteFails
    <2>1. pc # "ended" /\ Dies(3, "write")
      BY <1>1, <1>4 DEF WriteFails
    <2>2. 3 \in {-1, 1, 2, 3}
      OBVIOUS
    <2> QED  BY <2>1, <2>2, DiesWell
  <1>5. CASE WriteNothing
    BY <1>1, <1>5, ThrowsWell DEF WriteNothing
  <1> QED  BY <1>2, <1>3, <1>4, <1>5

LEMMA InvNext == ASSUME ProgramInv, [Next]_vars PROVE ProgramInv'
  <1>1. CASE CreateHeap \/ Load \/ CallJrqMain \/ ReadOption \/ RefuseCode
    BY <1>1, StartKeeps
  <1>2. CASE StartTurns
    BY <1>2, StartTurnsKeeps
  <1>3. CASE ReadPiece
    BY <1>3, ReadPieceKeeps
  <1>4. CASE ReadFails
    <2>1. pc # "ended" /\ Dies(2, "read")
      BY <1>4 DEF ReadFails
    <2>2. 2 \in {-1, 1, 2, 3}
      OBVIOUS
    <2> QED  BY <2>1, <2>2, DiesWell
  <1>5. CASE ParseThrows
    BY <1>5, ThrowsWell DEF ParseThrows
  <1>6. CASE FinishParse
    BY <1>6, FinishParseKeeps
  <1>7. CASE FinishTurn
    BY <1>7, FinishTurnKeeps
  <1>8. CASE FinishHelp
    BY <1>8, FinishHelpKeeps
  <1>9. CASE WriteAll \/ WriteShort \/ WriteFails \/ WriteNothing
    BY <1>9, WritesKeep
  <1>10. CASE Ended \/ UNCHANGED vars
    BY <1>10 DEF Ended, vars, processVars, argumentVars, ProgramInv, ProgramTyped
  <1> QED  BY <1>1, <1>2, <1>3, <1>4, <1>5, <1>6, <1>7, <1>8, <1>9, <1>10 DEF Next

---------------------------------------------------------------------------
(* The theorems. *)

LEMMA InvAlways == Spec => []ProgramInv
  <1>1. Init => ProgramInv
    BY InvInit
  <1>2. ProgramInv /\ [Next]_vars => ProgramInv'
    BY InvNext
  <1> QED  BY <1>1, <1>2, PTL DEF Spec

LEMMA AnsweredIsOutput ==
    ASSUME IsRegular(execution, options) => Answered(Whole(execution, options), out.stdout, short, status)
    PROVE  OutputAnswers
  BY DEF OutputAnswers, Answered, Whole, Failed, Answer

\* In every behaviour of the program, whatever system calls fail: what has arrived
\* at stdout is the answer, and the text outside of documents where it was, up to
\* where the program is, or all of it if the status is 0; if one write was short,
\* with a piece missing (jrq.js:267-269, 333-400, fakestream.js:39-45, jrq.c:44-66).
THEOREM OutputAnswersAlways == Spec => []OutputAnswers
  <1>1. ASSUME ProgramInv PROVE OutputAnswers
    <2>0. CASE ~(short <= 1)
      <3>1. short # 0 /\ short # 1
        BY <1>1, <2>0 DEF ProgramInv, ProgramTyped
      <3> QED  BY <3>1 DEF OutputAnswers
    <2>4. SUFFICES ASSUME short <= 1 PROVE OutputAnswers
      BY <2>0
    <2>1. CASE pc = "ended"
      <3>1. IsRegular(execution, options) => Answered(Whole(execution, options), out.stdout, short, status)
        BY <1>1, <2>4, <2>1 DEF ProgramInv, EndOK
      <3> QED  BY <3>1, AnsweredIsOutput
    <2>2. CASE HasOptions
      <3>1. pc # "ended" /\ pc \in {"help", "read", "flush"}
        BY <2>2 DEF HasOptions
      <3>2. status # 0
        <4>1. status = Undefined
          BY <1>1, <3>1 DEF ProgramInv, BeforePlaces, LoopPlaces, BeforeOK, LoopOK
        <4> QED  BY <4>1, UndefinedIsNoStatus
      <3>3. ASSUME IsRegular(execution, options)
            PROVE  Answered(Whole(execution, options), out.stdout, short, status)
        <4>1. Begun(options, Whole(execution, options), out.stdout, short)
          BY <1>1, <3>1, <3>3, BegunSoFar
        <4>2. short \in {0, 1}
          BY <1>1, <2>4, NoneOrOne
        <4> QED  BY <3>2, <4>1, <4>2, BegunIsAnswered
      <3> QED  BY <3>3, AnsweredIsOutput
    <2>3. CASE ~(HasOptions \/ pc = "ended")
      BY <2>3 DEF OutputAnswers
    <2> QED  BY <2>1, <2>2, <2>3
  <1>2. ProgramInv => OutputAnswers
    BY <1>1
  <1> QED  BY <1>2, InvAlways, PTL

\* Where the program waits for input, or takes the next turn of the loop.
LEMMA WaitsWithNothingDue ==
    ASSUME ProgramInv, pc \in LoopPlaces, writes = <<>>, short = 0, IsRegular(execution, options)
    PROVE  out.stdout = FoundSoFar
  <1>1. LoopOK(execution, options, turn, reads, pc, writes, out.stdout, short, status)
    BY InLoopInv
  <1>2. InLoop(execution, options, pc)
    BY InLoopInv DEF InLoop
  <1> DEFINE s == out.stdout
  <1> HIDE DEF s
  <1>3. LoopBegun(execution, options, turn, reads, pc, writes, s, short)
    BY <1>1, <1>2, BegunInLoop DEF s
  <1>4. s = SoFar(execution, options, turn, reads, pc)
    BY <1>3 DEF LoopBegun
  <1> QED  BY <1>4 DEF SoFar, FoundSoFar, Turn, s

LEMMA AsksForMore ==
    ASSUME ProgramInv, Next, reads' > reads \/ turn' > turn \/ status' = 2
    PROVE  Ended \/ (pc \in LoopPlaces /\ writes = <<>>)
  <1>1. turn \in Nat /\ reads \in Nat
    BY DEF ProgramInv, ProgramTyped
  <1>2. pc # "ended" => status # 2
    <2>1. pc # "ended" => status = Undefined
      BY DEF ProgramInv, ProgramTyped, BeforePlaces, LoopPlaces, BeforeOK, LoopOK
    <2> QED  BY <2>1, UndefinedIsNoStatus
  <1>3. CASE ReadPiece \/ ReadFails \/ FinishTurn
    BY <1>3 DEF ReadPiece, ReadFails, FinishTurn, LoopPlaces
  <1>4. CASE Ended
    BY <1>4
  <1>5. ASSUME NEW code \in {-1, 0, 1, 3}, NEW descriptors, Ends(code, descriptors) PROVE FALSE
    <2>1. reads' = reads /\ turn' = turn /\ status' = code
      BY <1>5 DEF Ends
    <2>2. code # 2
      BY <1>5
    <2> QED  BY <1>1, <2>1, <2>2
  <1>6. ASSUME NEW code \in {-1, 1, 3}, NEW message, Dies(code, message) PROVE FALSE
    <2>1. Ends(code, [out EXCEPT !.stderr = Append(@, <<"message", message>>)])
      BY <1>6 DEF Dies
    <2> DEFINE d == [out EXCEPT !.stderr = Append(@, <<"message", message>>)]
    <2> HIDE DEF d
    <2> QED  BY <1>5, <1>6, <2>1 DEF d
  <1>7. ~Throws
    <2> DEFINE d == [out EXCEPT !.stdout = Append(@, <<"we failed">>)]
               z == 0
    <2>1. z \in {-1, 0, 1, 3} /\ (Throws => Ends(z, d))
      BY DEF Throws
    <2> HIDE DEF d, z
    <2> QED  BY <1>5, <2>1
  <1>8. ASSUME reads' = reads, turn' = turn, status' = status, pc # "ended" PROVE FALSE
    BY <1>1, <1>2, <1>8
  <1>9. CASE CreateHeap
    <2>1. 1 \in {-1, 1, 3}
      OBVIOUS
    <2> QED  BY <1>6, <1>8, <1>9, <2>1 DEF CreateHeap, Goes
  <1>10. CASE Load \/ CallJrqMain
    <2>1. -1 \in {-1, 1, 3}
      OBVIOUS
    <2> QED  BY <1>6, <1>8, <1>10, <2>1 DEF Load, CallJrqMain, Goes
  <1>11. CASE RefuseCode \/ ParseThrows
    BY <1>7, <1>11 DEF RefuseCode, ParseThrows
  <1>12. CASE ReadOption \/ StartTurns \/ FinishParse
    BY <1>8, <1>12 DEF ReadOption, StartTurns, FinishParse, processVars
  <1>13. CASE FinishHelp
    <2> DEFINE z == 0
    <2>1. z \in {-1, 0, 1, 3} /\ Ends(z, out)
      BY <1>13 DEF FinishHelp
    <2> HIDE DEF z
    <2> QED  BY <1>5, <2>1
  <1>14. CASE WriteAll \/ WriteShort
    <2>1. pc # "ended"
      BY <1>14 DEF WriteAll, WriteShort, ProgramInv, EndOK
    <2>2. Written
      BY <1>14 DEF WriteAll, WriteShort
    <2> QED  BY <1>8, <2>1, <2>2 DEF Written
  <1>15. CASE WriteFails \/ WriteNothing
    <2>1. 3 \in {-1, 1, 3}
      OBVIOUS
    <2> QED  BY <1>6, <1>7, <1>15, <2>1 DEF WriteFails, WriteNothing
  <1> QED  BY <1>3, <1>4, <1>9, <1>10, <1>11, <1>12, <1>13, <1>14, <1>15 DEF Next

\* In every behaviour all that was found, and all that was passed on, has arrived
\* when read(2) is called, when it fails, and when the next turn begins, unless a
\* write was short (jrq.c:28-39, jrq.js:262-269).
THEOREM AnswersPrecedeReadsAlways == Spec => AnswersPrecedeReads
  <1> DEFINE Precedes ==
        (reads' > reads \/ turn' > turn \/ status' = 2) /\ short = 0 /\ IsRegular(execution, options)
          => out.stdout = FoundSoFar
  <1>1. ASSUME ProgramInv, [Next]_vars PROVE [Precedes]_vars
    <2>1. SUFFICES ASSUME Next, ~UNCHANGED vars, reads' > reads \/ turn' > turn \/ status' = 2,
                          short = 0, IsRegular(execution, options)
                   PROVE  out.stdout = FoundSoFar
      BY <1>1
    <2>2. ~Ended
      BY <2>1 DEF Ended
    <2>3. pc \in LoopPlaces /\ writes = <<>>
      BY <1>1, <2>1, <2>2, AsksForMore
    <2> QED  BY <1>1, <2>1, <2>3, WaitsWithNothingDue
  <1>2. ProgramInv /\ [Next]_vars => [Precedes]_vars
    BY <1>1
  <1>3. Spec => [][Precedes]_vars
    BY <1>2, InvAlways, PTL DEF Spec
  <1> QED  BY <1>3 DEF AnswersPrecedeReads

---------------------------------------------------------------------------
(* Taking arguments apart. *)

SplitsOnce(arg, e, p) ==
    IF p < e THEN <<SubSeq(arg, 1, p)>> ELSE <<SubSeq(arg, 1, e - 1), SubSeq(arg, e + 1, p)>>

LEMMA SplitAt ==
    ASSUME NEW arg \in Words, NEW e \in 1..(Len(arg) + 1), e <= Len(arg) => arg[e] = "=",
           \A i \in 1..Len(arg) : i # e => arg[i] # "="
    PROVE  Split(arg) = SplitsOnce(arg, e, Len(arg))
  <1> DEFINE n == Len(arg)
  <1>1. PICK parts : /\ parts[0] = <<<<>>>> /\ Split(arg) = parts[n]
                     /\ \A p \in 1..n : parts[p] = SplitStep(arg, p, parts[p - 1])
    BY SplitParts
  <1>2. n \in Nat
    BY DEF Words
  <1> DEFINE S == {p \in Nat : parts[p] = SplitsOnce(arg, e, p)}
  <1>3. 0 \in S
    <2>1. SubSeq(arg, 1, 0) = <<>>
      <3>1. 1 \in Int /\ 0 \in Int /\ 0 < 1
        OBVIOUS
      <3> QED  BY <3>1, SubSeqEmpty
    <2>2. 0 < e
      OBVIOUS
    <2>3. parts[0] = SplitsOnce(arg, e, 0)
      BY <1>1, <2>1, <2>2 DEF SplitsOnce
    <2> QED  BY <2>3
  <1>4. ASSUME NEW p \in 0..(n - 1), p \in S PROVE p + 1 \in S
    <2> DEFINE q == p + 1
               c == arg[q]
    <2>1. q \in 1..n /\ q - 1 = p /\ p \in Nat /\ q \in Nat
      BY <1>2
    <2>2. parts[q] = SplitStep(arg, q, parts[p]) /\ parts[p] = SplitsOnce(arg, e, p)
      <3>1. parts[q] = SplitStep(arg, q, parts[q - 1])
        BY <1>1, <2>1
      <3> QED  BY <1>4, <2>1, <3>1
    <2>3. CASE q < e
      <3> DEFINE x == SubSeq(arg, 1, p)
      <3>1. c # "=" /\ p < e
        BY <1>2, <2>1, <2>3
      <3>2. SubSeq(arg, 1, q) = Append(x, c)
        BY <1>2, <2>1, SubSeqGrows DEF Words
      <3>3. parts[p] = <<x>>
        BY <2>2, <3>1 DEF SplitsOnce
      <3>4. SplitsOnce(arg, e, q) = <<Append(x, c)>>
        BY <2>3, <3>2 DEF SplitsOnce
      <3> HIDE DEF x, c, q
      <3>5. parts[q] = [parts[p] EXCEPT ![Len(parts[p])] = Append(@, c)]
        BY <2>2, <3>1 DEF SplitStep, c
      <3>6. parts[q] = <<Append(x, c)>>
        BY <3>3, <3>5
      <3> QED  BY <2>1, <3>4, <3>6 DEF q
    <2>4. CASE q = e
      <3> DEFINE x == SubSeq(arg, 1, p)
      <3>1. c = "=" /\ p < e /\ e - 1 = p
        BY <1>2, <2>1, <2>4
      <3>2. parts[p] = <<x>>
        BY <2>2, <3>1 DEF SplitsOnce
      <3>3. SubSeq(arg, e + 1, q) = <<>>
        BY <2>1, <2>4, SubSeqEmpty DEF Words
      <3>4. SplitsOnce(arg, e, q) = <<x, <<>>>>
        BY <2>4, <3>1, <3>3 DEF SplitsOnce
      <3>5. parts[q] = Append(parts[p], <<>>)
        BY <2>2, <3>1 DEF SplitStep
      <3> DEFINE none == <<>>
      <3> HIDE DEF x, none
      <3>6. Append(<<x>>, none) = <<x, none>>
        BY AppendToOne
      <3> QED  BY <2>1, <3>2, <3>4, <3>5, <3>6 DEF none
    <2>5. CASE q > e
      <3> DEFINE x == SubSeq(arg, 1, e - 1)
                 y == SubSeq(arg, e + 1, p)
      <3>1. c # "=" /\ ~(p < e) /\ ~(q < e) /\ e + 1 \in Nat \ {0} /\ e + 1 <= p + 1
        BY <1>2, <2>1, <2>5
      <3>2. SubSeq(arg, e + 1, q) = Append(y, c)
        BY <1>2, <2>1, <3>1, SubSeqGrows DEF Words
      <3>3. parts[p] = <<x, y>>
        BY <2>2, <3>1 DEF SplitsOnce
      <3>4. SplitsOnce(arg, e, q) = <<x, Append(y, c)>>
        BY <3>1, <3>2 DEF SplitsOnce
      <3> HIDE DEF x, y, c, q
      <3>5. parts[q] = [parts[p] EXCEPT ![Len(parts[p])] = Append(@, c)]
        BY <2>2, <3>1 DEF SplitStep, c
      <3>6. parts[q] = <<x, Append(y, c)>>
        BY <3>3, <3>5
      <3> QED  BY <2>1, <3>4, <3>6 DEF q
    <2> QED  BY <1>2, <2>1, <2>3, <2>4, <2>5
  <1>5. n \in S
    <2> HIDE DEF S, n
    <2>1. 0..n \subseteq S
      BY <1>2, <1>3, <1>4, UpTo
    <2> QED  BY <1>2, <2>1
  <1> QED  BY <1>1, <1>5

---------------------------------------------------------------------------
(* The words of a command line. *)

WordsOfEach(argv) == [i \in DOMAIN argv |-> WordsOf(argv[i])]

AllWords(argv) == FlattenSeq(WordsOfEach(argv))

LEMMA EachIsWords ==
    ASSUME NEW argv \in Seq(Words)
    PROVE  /\ WordsOfEach(argv) \in Seq(Seq(Words)) /\ Len(WordsOfEach(argv)) = Len(argv)
           /\ \A i \in 1..Len(argv) : WordsOfEach(argv)[i] = WordsOf(argv[i])
           /\ AllWords(argv) \in Seq(Words)
  <1> DEFINE n == Len(argv)
             T == Seq(Words)
             s == WordsOfEach(argv)
  <1> HIDE DEF Words
  <1>1. n \in Nat /\ DOMAIN argv = 1..n /\ \A i \in 1..n : argv[i] \in Words
    OBVIOUS
  <1>2. s \in [1..n -> T] /\ \A i \in 1..n : s[i] = WordsOf(argv[i])
    BY <1>1, WordsOfIsWords DEF WordsOfEach
  <1>3. s \in Seq(T) /\ Len(s) = n
    <2> HIDE DEF s, T, n
    <2> QED  BY <1>1, <1>2, FunctionIsSeq
  <1>4. FlattenSeq(s) \in Seq(Words)
    <2> HIDE DEF s
    <2> QED  BY <1>3, FlattenIsSeq
  <1> QED  BY <1>2, <1>3, <1>4 DEF AllWords

LEMMA AllWordsConcat ==
    ASSUME NEW a \in Seq(Words), NEW b \in Seq(Words)
    PROVE  AllWords(a \o b) = AllWords(a) \o AllWords(b)
  <1> DEFINE T == Seq(Words)
             x == WordsOfEach(a)
             y == WordsOfEach(b)
             ab == a \o b
             z == WordsOfEach(ab)
             m == Len(a)
             n == Len(b)
  <1> HIDE DEF Words
  <1>1. m \in Nat /\ n \in Nat
    OBVIOUS
  <1>2. /\ ab \in Seq(Words) /\ Len(ab) = m + n
        /\ \A i \in 1..(m + n) : ab[i] = IF i <= m THEN a[i] ELSE b[i - m]
    <2>1. \A i \in 1..(m + n) : ab[i] = IF i <= m THEN a[i] ELSE b[i - m]
      BY ConcatProperties
    <2> QED  BY <2>1
  <1> HIDE DEF ab
  <1>3. /\ x \in Seq(T) /\ Len(x) = m /\ \A i \in 1..m : x[i] = WordsOf(a[i])
        /\ y \in Seq(T) /\ Len(y) = n /\ \A i \in 1..n : y[i] = WordsOf(b[i])
    BY EachIsWords
  <1>4. z \in Seq(T) /\ Len(z) = m + n /\ \A i \in 1..(m + n) : z[i] = WordsOf(ab[i])
    BY <1>2, EachIsWords
  <1> HIDE DEF x, y, z, T, m, n
  <1>5. /\ x \o y \in Seq(T) /\ Len(x \o y) = m + n
        /\ \A i \in 1..(m + n) : (x \o y)[i] = IF i <= m THEN x[i] ELSE y[i - m]
    BY <1>3, ConcatProperties
  <1>6. \A i \in 1..(m + n) : z[i] = (x \o y)[i]
    <2> TAKE i \in 1..(m + n)
    <2>1. CASE i <= m
      <3>1. i \in 1..m
        BY <1>1, <2>1
      <3>2. ab[i] = a[i]
        BY <1>2, <2>1
      <3>3. (x \o y)[i] = x[i]
        BY <1>5, <2>1
      <3>4. x[i] = WordsOf(a[i])
        BY <1>3, <3>1
      <3>5. z[i] = WordsOf(ab[i])
        BY <1>4
      <3> QED  BY <3>2, <3>3, <3>4, <3>5
    <2>2. CASE ~(i <= m)
      <3>1. i - m \in 1..n
        BY <1>1, <2>2
      <3>2. ab[i] = b[i - m]
        BY <1>2, <2>2
      <3>3. (x \o y)[i] = y[i - m]
        BY <1>5, <2>2
      <3>4. y[i - m] = WordsOf(b[i - m])
        BY <1>3, <3>1
      <3>5. z[i] = WordsOf(ab[i])
        BY <1>4
      <3> QED  BY <3>2, <3>3, <3>4, <3>5
    <2> QED  BY <2>1, <2>2
  <1>7. z = x \o y
    <2> DEFINE xy == x \o y
    <2> HIDE DEF xy
    <2>1. xy \in Seq(T) /\ Len(xy) = Len(z) /\ \A i \in 1..Len(z) : z[i] = xy[i]
      BY <1>4, <1>5, <1>6 DEF xy
    <2>2. z = xy
      BY <1>4, <2>1, SeqEqual
    <2> QED  BY <2>2 DEF xy
  <1>8. FlattenSeq(x \o y) = FlattenSeq(x) \o FlattenSeq(y)
    BY <1>3, FlattenConcat DEF T
  <1> QED  BY <1>7, <1>8 DEF x, y, z, ab, AllWords

LEMMA AllWordsOne ==
    ASSUME NEW arg \in Words PROVE <<arg>> \in Seq(Words) /\ AllWords(<<arg>>) = WordsOf(arg)
  <1> DEFINE argv == <<arg>>
             s == WordsOfEach(argv)
  <1> HIDE DEF Words
  <1>1. argv \in Seq(Words) /\ Len(argv) = 1 /\ argv[1] = arg
    OBVIOUS
  <1> HIDE DEF argv
  <1>2. s \in Seq(Seq(Words)) /\ Len(s) = 1 /\ s[1] = WordsOf(arg)
    BY <1>1, EachIsWords
  <1> HIDE DEF s
  <1>3. FlattenSeq(s) = s[1]
    BY <1>2, FlattenOne
  <1> QED  BY <1>1, <1>2, <1>3 DEF AllWords, argv, s

LEMMA AllWordsAppend ==
    ASSUME NEW argv \in Seq(Words), NEW arg \in Words
    PROVE  AllWords(Append(argv, arg)) = AllWords(argv) \o WordsOf(arg)
  <1> DEFINE one == <<arg>>
  <1>1. one \in Seq(Words) /\ AllWords(one) = WordsOf(arg)
    BY AllWordsOne
  <1>2. Append(argv, arg) = argv \o one
    <2> HIDE DEF Words
    <2> QED  BY AppendIsConcat
  <1> HIDE DEF one
  <1> QED  BY <1>1, <1>2, AllWordsConcat

LEMMA PlainWord ==
    ASSUME NEW arg, IsPlain(arg) PROVE arg \in Words /\ WordsOf(arg) = <<arg>>
  BY DEF IsPlain, WordsOf, Words

LEMMA PlainWords ==
    ASSUME NEW s \in Seq(Words), \A i \in DOMAIN s : IsPlain(s[i]) PROVE AllWords(s) = s
  <1> DEFINE each == WordsOfEach(s)
             n == Len(s)
             sum == [p \in 0..n |-> SubSeq(s, 1, p)]
  <1> HIDE DEF Words
  <1>1. n \in Nat /\ DOMAIN s = 1..n /\ \A i \in 1..n : s[i] \in Words
    OBVIOUS
  <1>2. each \in Seq(Seq(Words)) /\ Len(each) = n /\ \A i \in 1..n : each[i] = <<s[i]>>
    BY <1>1, EachIsWords, PlainWord
  <1>3. sum[0] = <<>>
    <2>1. SubSeq(s, 1, 0) = <<>>
      <3>1. 1 \in Int /\ 0 \in Int /\ 0 < 1
        OBVIOUS
      <3> QED  BY <3>1, SubSeqEmpty
    <2> QED  BY <1>1, <2>1
  <1>4. ASSUME NEW p \in 1..n PROVE sum[p] = sum[p - 1] \o each[p]
    <2> DEFINE q == p - 1
               a == SubSeq(s, 1, q)
               e == s[p]
    <2>1. q \in Nat /\ q + 1 = p /\ q \in 0..n /\ p \in 0..n /\ 1 <= q + 1 /\ q + 1 <= n /\ e \in Words
      BY <1>1
    <2>2. sum[p] = SubSeq(s, 1, p) /\ sum[q] = a
      BY <2>1
    <2>3. SubSeq(s, 1, q + 1) = Append(a, s[q + 1]) /\ a \in Seq(Words)
      <3> HIDE DEF q
      <3> QED  BY <2>1, SubSeqGrows
    <2> HIDE DEF a, sum, q, e
    <2>4. Append(a, e) = a \o <<e>>
      BY <2>1, <2>3, AppendIsConcat
    <2>5. each[p] = <<e>>
      BY <1>2 DEF e
    <2>6. SubSeq(s, 1, p) = Append(a, e)
      BY <2>1, <2>3 DEF e
    <2>7. sum[p] = sum[q] \o each[p]
      BY <2>2, <2>4, <2>5, <2>6
    <2> QED  BY <2>7 DEF q
  <1>5. sum[n] = s
    <2>1. SubSeq(s, 1, Len(s)) = s
      BY SubSeqFull
    <2> QED  BY <1>1, <2>1
  <1> HIDE DEF sum, each
  <1>6. IsSum(sum, each)
    BY <1>2, <1>3, <1>4 DEF IsSum
  <1>7. FlattenSeq(each) = sum[Len(each)]
    BY <1>2, <1>6, SumIsFlat
  <1> QED  BY <1>2, <1>5, <1>7 DEF AllWords, each

---------------------------------------------------------------------------
(* The words that a request becomes. *)

IsLong(r, style) == style \in {"long", "equals"} /\ r.name \in Long

OptionWord(r, style) ==
    IF IsLong(r, style) THEN <<"--", r.name>> ELSE <<"-", Letter[r.name]>>

WordsAsked(r, style) ==
    CASE r.name = "operand" -> <<r.spelled>>
      [] r.name = "rest"    -> <<<<"--">>>> \o r.spelled
      [] OTHER -> IF TakesValue(r.name) THEN <<OptionWord(r, style), r.spelled>> ELSE <<OptionWord(r, style)>>

OptionNames ==
    {"indent0", "indent2", "indent4", "json", "delimiter", "group", "array", "items", "keys", "help",
     "conditional", "evaluate"}

LEMMA Letters ==
    DOMAIN Letter = OptionNames /\ \A name \in OptionNames : Letter[name] \in VALID_OPTIONS
  BY DEF Letter, VALID_OPTIONS, OptionNames

LEMMA ShortWords ==
    ASSUME NEW c \in VALID_OPTIONS, <<"-", c>> \in Words PROVE WordsOf(<<"-", c>>) = <<<<"-", c>>>>
  <1> DEFINE arg == <<"-", c>>
             s == [i \in 1..1 |-> <<"-", arg[i + 1]>>]
  <1>1. arg # <<>> /\ arg[1] = "-" /\ Len(arg) - 1 = 1 /\ arg[2] = c
    OBVIOUS
  <1>2. \A i \in 1..1 : i + 1 = 2
    OBVIOUS
  <1> HIDE DEF arg
  <1>3. WordsOf(arg) = s
    <2>1. WordsOf(arg) = [i \in 1..1 |-> IF arg[i + 1] \in VALID_OPTIONS THEN <<"-", arg[i + 1]>> ELSE <<arg[i + 1]>>]
      BY <1>1 DEF WordsOf
    <2>2. \A i \in 1..1 : arg[i + 1] \in VALID_OPTIONS
      BY <1>1, <1>2
    <2> QED  BY <2>1, <2>2
  <1>4. s = <<<<"-", c>>>>
    <2> DEFINE w == <<"-", c>>
               t == <<w>>
    <2>1. s \in [1..1 -> {w}]
      BY <1>1, <1>2
    <2>2. t \in Seq({w}) /\ Len(t) = 1 /\ t[1] = w
      OBVIOUS
    <2>3. s[1] = w
      BY <1>1
    <2> HIDE DEF s, t, w
    <2>4. s \in Seq({w}) /\ Len(s) = 1
      BY <2>1, FunctionIsSeq
    <2>5. \A i \in 1..1 : i = 1
      OBVIOUS
    <2>6. s = t
      BY <2>2, <2>3, <2>4, <2>5, SeqEqual
    <2> QED  BY <2>6 DEF t, w
  <1> QED  BY <1>3, <1>4 DEF arg

LEMMA LongWords ==
    ASSUME NEW name, <<"--", name>> \in Words, name # "=" PROVE WordsOf(<<"--", name>>) = <<<<"--", name>>>>
  <1> DEFINE arg == <<"--", name>>
             e == 3
  <1>1. arg # <<>> /\ arg[1] = "--" /\ Len(arg) = 2 /\ arg[2] = name /\ arg \in Words
    OBVIOUS
  <1>2. \A i \in 1..2 : i = 1 \/ i = 2
    OBVIOUS
  <1> HIDE DEF arg
  <1>3. SubSeq(arg, 1, 2) = arg
    <2>1. arg \in Seq(Symbols)
      BY <1>1 DEF Words
    <2> QED  BY <1>1, <2>1, SubSeqFull
  <1>4. Split(arg) = SplitsOnce(arg, e, Len(arg))
    <2>1. e \in 1..(Len(arg) + 1) /\ ~(e <= Len(arg))
      BY <1>1
    <2>2. \A i \in 1..Len(arg) : i # e => arg[i] # "="
      BY <1>1, <1>2
    <2> HIDE DEF e
    <2> QED  BY <1>1, <2>1, <2>2, SplitAt
  <1>5. Split(arg) = <<arg>>
    BY <1>1, <1>3, <1>4 DEF SplitsOnce
  <1>6. WordsOf(arg) = <<arg>>
    BY <1>1, <1>5 DEF WordsOf
  <1> QED  BY <1>6 DEF arg

LEMMA RestWord ==
    ASSUME <<"--">> \in Words PROVE WordsOf(<<"--">>) = <<<<"--">>>>
  <1> DEFINE arg == <<"--">>
             e == 2
  <1>1. arg # <<>> /\ arg[1] = "--" /\ Len(arg) = 1 /\ arg \in Words
    OBVIOUS
  <1>2. \A i \in 1..1 : i = 1
    OBVIOUS
  <1> HIDE DEF arg
  <1>3. SubSeq(arg, 1, 1) = arg
    <2>1. arg \in Seq(Symbols)
      BY <1>1 DEF Words
    <2> QED  BY <1>1, <2>1, SubSeqFull
  <1>4. Split(arg) = SplitsOnce(arg, e, Len(arg))
    <2>1. e \in 1..(Len(arg) + 1) /\ ~(e <= Len(arg))
      BY <1>1
    <2>2. \A i \in 1..Len(arg) : i # e => arg[i] # "="
      BY <1>1, <1>2
    <2> HIDE DEF e
    <2> QED  BY <1>1, <2>1, <2>2, SplitAt
  <1>5. Split(arg) = <<arg>>
    BY <1>1, <1>3, <1>4 DEF SplitsOnce
  <1>6. WordsOf(arg) = <<arg>>
    BY <1>1, <1>5 DEF WordsOf
  <1> QED  BY <1>6 DEF arg

\* --delimiter=value
LEMMA EqualsWords ==
    ASSUME NEW name, NEW v \in Words, \A i \in DOMAIN v : v[i] # "=", name # "=",
           (<<"--", name>> \o <<"=">>) \o v \in Words
    PROVE  WordsOf((<<"--", name>> \o <<"=">>) \o v) = <<<<"--", name>>, v>>
  <1> DEFINE n == Len(v)
             begin == <<"--", name>> \o <<"=">>
             arg == begin \o v
             e == 3
  <1>1. n \in Nat /\ DOMAIN v = 1..n /\ v \in Seq(Symbols)
    BY DEF Words
  <1>2. begin \in Seq({"--", name, "="}) /\ Len(begin) = 3 /\ begin[1] = "--" /\ begin[2] = name /\ begin[3] = "="
    OBVIOUS
  <1>3. arg \in Seq(Symbols)
    BY DEF Words
  <1>4. Len(arg) = n + 3 /\ \A i \in 1..(n + 3) : arg[i] = IF i <= 3 THEN begin[i] ELSE v[i - 3]
    <2> DEFINE S == {"--", name, "="} \cup Symbols
    <2>1. begin \in Seq(S) /\ v \in Seq(S)
      BY <1>1, <1>2
    <2> HIDE DEF S, begin
    <2>2. \A i \in 1..(Len(begin) + Len(v)) :
              (begin \o v)[i] = IF i <= Len(begin) THEN begin[i] ELSE v[i - Len(begin)]
      BY <2>1, ConcatProperties
    <2>3. Len(begin \o v) = Len(begin) + Len(v)
      BY <2>1, ConcatProperties
    <2>4. Len(begin) + Len(v) = n + 3 /\ Len(begin) = 3
      BY <1>1, <1>2
    <2> HIDE DEF n
    <2>5. \A i \in 1..(n + 3) : (begin \o v)[i] = IF i <= 3 THEN begin[i] ELSE v[i - 3]
      BY <2>2, <2>4
    <2> QED  BY <2>3, <2>4, <2>5
  <1> HIDE DEF arg, begin, n
  <1>5. arg[1] = "--" /\ arg[2] = name /\ arg[3] = "=" /\ arg # <<>>
    <2>1. 1 \in 1..(n + 3) /\ 2 \in 1..(n + 3) /\ 3 \in 1..(n + 3) /\ n + 3 # 0
      BY <1>1
    <2> QED  BY <1>2, <1>3, <1>4, <2>1
  <1>6. \A i \in 1..(n + 3) : i # 3 => arg[i] # "="
    <2> TAKE i \in 1..(n + 3)
    <2> HAVE i # 3
    <2>1. CASE i <= 3
      <3>1. i = 1 \/ i = 2
        BY <2>1
      <3> QED  BY <1>5, <3>1
    <2>2. CASE ~(i <= 3)
      <3>1. i - 3 \in 1..n
        BY <1>1, <2>2
      <3> QED  BY <1>1, <1>4, <2>2, <3>1
    <2> QED  BY <2>1, <2>2
  <1>7. Split(arg) = SplitsOnce(arg, e, Len(arg))
    <2>1. e \in 1..(Len(arg) + 1) /\ arg[e] = "="
      BY <1>1, <1>4, <1>5
    <2>2. \A i \in 1..Len(arg) : i # e => arg[i] # "="
      BY <1>4, <1>6
    <2> HIDE DEF e
    <2> QED  BY <1>3, <2>1, <2>2, SplitAt DEF Words
  <1> DEFINE a == SubSeq(arg, 1, 2)
             b == SubSeq(arg, 4, n + 3)
             w == <<"--", name>>
  <1>8. Split(arg) = <<a, b>>
    BY <1>1, <1>4, <1>7 DEF SplitsOnce
  <1>9. a = w
    <2>1. \A i \in 1..2 : arg[i] \in Symbols
      BY <1>1, <1>3, <1>4
    <2>2. a \in Seq(Symbols) /\ Len(a) = 2 /\ \A i \in 1..2 : a[i] = arg[i]
      BY <1>1, <2>1, SubSeqProperties
    <2>3. w \in Seq({"--", name}) /\ Len(w) = 2 /\ w[1] = "--" /\ w[2] = name
      OBVIOUS
    <2> DEFINE S == Symbols \cup {"--", name}
    <2>4. a \in Seq(S) /\ w \in Seq(S)
      BY <2>2, <2>3
    <2>5. \A i \in 1..2 : i = 1 \/ i = 2
      OBVIOUS
    <2> HIDE DEF a, w, S
    <2>6. \A i \in 1..2 : a[i] = w[i]
      BY <1>5, <2>2, <2>3, <2>5
    <2> QED  BY <2>2, <2>3, <2>4, <2>6, SeqEqual
  <1>10. b = v
    <2>1. \A i \in 4..(n + 3) : arg[i] \in Symbols
      BY <1>1, <1>3, <1>4
    <2>2. b \in Seq(Symbols) /\ Len(b) = (n + 3) - 4 + 1 /\ \A i \in 1..((n + 3) - 4 + 1) : b[i] = arg[4 + i - 1]
      BY <1>1, <2>1, SubSeqProperties
    <2>3. (n + 3) - 4 + 1 = n
      BY <1>1
    <2>4. ASSUME NEW i \in 1..n PROVE arg[4 + i - 1] = v[i]
      <3> DEFINE k == 4 + i - 1
      <3>1. k \in 1..(n + 3) /\ ~(k <= 3) /\ k - 3 = i
        BY <1>1
      <3> HIDE DEF k
      <3>2. arg[k] = v[i]
        BY <1>4, <3>1
      <3> QED  BY <3>2 DEF k
    <2> HIDE DEF b
    <2>5. Len(b) = n /\ Len(v) = n /\ \A i \in 1..n : b[i] = v[i]
      BY <2>2, <2>3, <2>4 DEF n
    <2> QED  BY <1>1, <2>2, <2>5, SeqEqual
  <1>11. WordsOf(arg) = <<w, v>>
    <2> HIDE DEF a, b, w
    <2> QED  BY <1>5, <1>8, <1>9, <1>10 DEF WordsOf
  <1> QED  BY <1>11 DEF arg, begin

\* -dv
LEMMA JoinedWords ==
    ASSUME NEW c \in VALID_OPTIONS, NEW v \in Words, Len(v) = 1, v[1] \notin VALID_OPTIONS,
           <<"-", c>> \o v \in Words
    PROVE  WordsOf(<<"-", c>> \o v) = <<<<"-", c>>, v>>
  <1> DEFINE w == <<"-", c>>
             arg == w \o v
             s == [i \in 1..2 |-> IF arg[i + 1] \in VALID_OPTIONS THEN <<"-", arg[i + 1]>> ELSE <<arg[i + 1]>>]
             t == <<w, v>>
             S == Symbols \cup {"-", c}
  <1>1. w \in Seq(S) /\ v \in Seq(S) /\ Len(w) = 2 /\ w[1] = "-" /\ w[2] = c /\ v[1] \in Symbols
    BY DEF Words
  <1>2. Len(arg) = 3 /\ arg[1] = "-" /\ arg[2] = c /\ arg[3] = v[1]
    <2> HIDE DEF w, S
    <2>1. \A i \in 1..(Len(w) + Len(v)) : (w \o v)[i] = IF i <= Len(w) THEN w[i] ELSE v[i - Len(w)]
      BY <1>1, ConcatProperties
    <2>2. Len(w \o v) = Len(w) + Len(v)
      BY <1>1, ConcatProperties
    <2>3. Len(w) + Len(v) = 3 /\ Len(w) = 2
      BY <1>1
    <2>4. \A i \in 1..3 : (w \o v)[i] = IF i <= 2 THEN w[i] ELSE v[i - 2]
      BY <2>1, <2>3
    <2>5. 1 \in 1..3 /\ 2 \in 1..3 /\ 3 \in 1..3
      OBVIOUS
    <2> QED  BY <1>1, <2>2, <2>3, <2>4, <2>5
  <1>3. <<v[1]>> = v
    <2> DEFINE e == v[1]
    <2>1. <<e>> \in Seq(S) /\ Len(<<e>>) = 1 /\ <<e>>[1] = e
      BY <1>1
    <2>2. \A i \in 1..1 : i = 1
      OBVIOUS
    <2> DEFINE u == <<e>>
    <2>3. u \in Seq(S) /\ Len(u) = 1 /\ u[1] = v[1]
      BY <2>1
    <2> HIDE DEF u, e, S
    <2>4. u = v
      BY <1>1, <2>2, <2>3, SeqEqual
    <2> QED  BY <2>4 DEF u, e
  <1> HIDE DEF arg
  <1>4. WordsOf(arg) = s
    <2>1. arg # <<>> /\ arg[1] # "--" /\ Len(arg) - 1 = 2
      BY <1>2
    <2> QED  BY <1>2, <2>1 DEF WordsOf
  <1>5. s[1] = <<"-", c>> /\ s[2] = <<v[1]>>
    <2>1. 1 \in 1..2 /\ 2 \in 1..2 /\ arg[1 + 1] = c /\ arg[2 + 1] = v[1]
      BY <1>2
    <2> QED  BY <2>1
  <1>6. s = t
    <2> DEFINE T == {w, v}
    <2>1. \A i \in 1..2 : i = 1 \/ i = 2
      OBVIOUS
    <2>2. t \in Seq(T) /\ Len(t) = 2 /\ t[1] = w /\ t[2] = v
      OBVIOUS
    <2>3. s[1] = w /\ s[2] = v
      BY <1>3, <1>5
    <2>4. s = [i \in 1..2 |-> s[i]]
      OBVIOUS
    <2> HIDE DEF s, w, T, t
    <2>5. s \in [1..2 -> T]
      BY <2>1, <2>3, <2>4 DEF T
    <2>6. s \in Seq(T) /\ Len(s) = 2
      BY <2>5, FunctionIsSeq
    <2> QED  BY <2>1, <2>2, <2>3, <2>6, SeqEqual
  <1> QED  BY <1>4, <1>6 DEF t, w, arg

\* In every style a request becomes the same words, save those of its name.
LEMMA AloneIsAsked ==
    ASSUME NEW r, NEW style \in Styles, CanBeSpelled(r, style)
    PROVE  Alone(r, style) \in Seq(Words) /\ AllWords(Alone(r, style)) = WordsAsked(r, style)
  <1> DEFINE name == OptionWord(r, style)
             alone == Alone(r, style)
  <1>1. alone \in Seq(Words) /\ IsTyped(r)
    BY DEF CanBeSpelled, Words
  <1>2. CASE r.name = "operand"
    <2>1. IsPlain(r.spelled)
      BY <1>1, <1>2, Letters DEF IsTyped, OptionNames
    <2>2. alone = <<r.spelled>> /\ WordsAsked(r, style) = <<r.spelled>>
      BY <1>2 DEF Alone, WordsAsked
    <2>3. r.spelled \in Words /\ WordsOf(r.spelled) = <<r.spelled>>
      BY <2>1, PlainWord
    <2> HIDE DEF alone
    <2>4. AllWords(alone) = <<r.spelled>>
      BY <2>2, <2>3, AllWordsOne
    <2> QED  BY <1>1, <2>2, <2>4 DEF alone
  <1>3. CASE r.name = "rest"
    <2> DEFINE dashes == <<"--">>
               one == <<dashes>>
    <2>1. r.spelled \in Seq(Words) /\ \A i \in DOMAIN r.spelled : IsPlain(r.spelled[i])
      BY <1>1, <1>3, Letters DEF IsTyped, OptionNames, Words
    <2>2. alone = one \o r.spelled /\ WordsAsked(r, style) = one \o r.spelled
      BY <1>3 DEF Alone, WordsAsked
    <2>3. dashes \in Words
      <3> DEFINE n == Len(r.spelled)
                 S == Words \cup {dashes}
      <3>1. one \in Seq(S) /\ r.spelled \in Seq(S) /\ Len(one) = 1 /\ one[1] = dashes /\ n \in Nat
        <4> HIDE DEF Words, dashes
        <4> QED  BY <2>1
      <3>2. Len(one \o r.spelled) = 1 + n /\ (one \o r.spelled)[1] = dashes
        <4> HIDE DEF S, one, dashes
        <4>1. \A i \in 1..(Len(one) + n) : (one \o r.spelled)[i] = IF i <= Len(one) THEN one[i] ELSE r.spelled[i - Len(one)]
          BY <3>1, ConcatProperties
        <4>2. 1 \in 1..(Len(one) + n) /\ 1 <= Len(one)
          BY <3>1
        <4> QED  BY <3>1, <4>1, <4>2, ConcatProperties
      <3> HIDE DEF one, dashes, n, S, Words, alone
      <3>3. 1 \in 1..Len(alone) /\ alone[1] = dashes
        BY <2>2, <3>1, <3>2
      <3>4. \A i \in 1..Len(alone) : alone[i] \in Words
        BY <1>1
      <3> QED  BY <3>3, <3>4
    <2>4. one \in Seq(Words) /\ AllWords(one) = WordsOf(dashes)
      <3> HIDE DEF dashes
      <3> QED  BY <2>3, AllWordsOne
    <2>5. WordsOf(dashes) = one
      BY <2>3, RestWord
    <2>6. AllWords(r.spelled) = r.spelled
      BY <2>1, PlainWords
    <2> HIDE DEF one, dashes, alone
    <2>7. AllWords(alone) = one \o r.spelled
      BY <2>1, <2>2, <2>4, <2>5, <2>6, AllWordsConcat
    <2> QED  BY <1>1, <2>2, <2>7 DEF alone
  <1>4. CASE r.name \notin {"operand", "rest"}
    <2>1. r.name \in OptionNames /\ Letter[r.name] \in VALID_OPTIONS
      BY <1>1, <1>4, Letters DEF IsTyped, OptionNames
    <2>2. r.name # "="
      BY <2>1 DEF OptionNames
    <2>3. ASSUME name \in Words PROVE WordsOf(name) = <<name>>
      <3>1. CASE IsLong(r, style)
        <4>1. name = <<"--", r.name>>
          BY <3>1 DEF OptionWord
        <4> HIDE DEF name
        <4> QED  BY <2>2, <2>3, <4>1, LongWords
      <3>2. CASE ~IsLong(r, style)
        <4>1. name = <<"-", Letter[r.name]>>
          BY <3>2 DEF OptionWord
        <4> HIDE DEF name
        <4> QED  BY <2>1, <2>3, <4>1, ShortWords
      <3> QED  BY <3>1, <3>2
    <2>4. CASE ~TakesValue(r.name)
      <3>1. alone = <<name>> /\ WordsAsked(r, style) = <<name>>
        BY <1>4, <2>4 DEF Alone, WordsAsked, OptionWord, IsLong
      <3> HIDE DEF name, alone
      <3>2. name \in Words
        <4>1. Len(alone) = 1 /\ alone[1] = name
          BY <3>1
        <4> HIDE DEF Words
        <4> QED  BY <1>1, <4>1
      <3> QED  BY <1>1, <2>3, <3>1, <3>2, AllWordsOne DEF alone
    <2>5. CASE TakesValue(r.name)
      <3>1. IsPlain(r.spelled) /\ WordsAsked(r, style) = <<name, r.spelled>>
        BY <1>1, <1>4, <2>5 DEF IsTyped, WordsAsked, TakesValue
      <3>2. r.spelled \in Words /\ WordsOf(r.spelled) = <<r.spelled>>
        BY <3>1, PlainWord
      <3>3. CASE IsLong(r, style) /\ style = "equals"
        <4> DEFINE arg == name \o <<"=">> \o r.spelled
        <4>1. r.name = "delimiter" /\ name = <<"--", r.name>>
          BY <2>5, <3>3 DEF IsLong, Long, TakesValue, OptionWord
        <4>2. \A i \in DOMAIN r.spelled : r.spelled[i] # "="
          BY <3>3, <4>1 DEF CanBeSpelled
        <4>3. alone = <<arg>>
          BY <1>4, <2>5, <3>3, <4>1 DEF Alone, IsLong
        <4> HIDE DEF arg, alone
        <4>4. arg \in Words
          <5>1. Len(alone) = 1 /\ alone[1] = arg
            BY <4>3
          <5> HIDE DEF Words
          <5> QED  BY <1>1, <5>1
        <4>5. WordsOf(arg) = <<name, r.spelled>>
          BY <2>2, <3>2, <4>1, <4>2, <4>4, EqualsWords DEF arg
        <4> QED  BY <1>1, <3>1, <4>3, <4>4, <4>5, AllWordsOne DEF alone
      <3>4. CASE ~IsLong(r, style) /\ style = "joined" /\ Len(r.spelled) = 1 /\ r.spelled[1] \notin VALID_OPTIONS
        <4> DEFINE arg == name \o r.spelled
        <4>1. name = <<"-", Letter[r.name]>>
          BY <3>4 DEF OptionWord
        <4>3. alone = <<arg>>
          BY <1>4, <2>5, <3>4, <4>1 DEF Alone, IsLong
        <4> HIDE DEF arg, alone
        <4>4. arg \in Words
          <5>1. Len(alone) = 1 /\ alone[1] = arg
            BY <4>3
          <5> HIDE DEF Words
          <5> QED  BY <1>1, <5>1
        <4>5. WordsOf(arg) = <<name, r.spelled>>
          <5> DEFINE c == Letter[r.name]
                     v == r.spelled
          <5>1. arg = <<"-", c>> \o v
            BY <4>1 DEF arg
          <5> HIDE DEF c, v
          <5>2. WordsOf(<<"-", c>> \o v) = <<<<"-", c>>, v>>
            <6>1. c \in VALID_OPTIONS /\ v \in Words /\ Len(v) = 1 /\ v[1] \notin VALID_OPTIONS
              BY <2>1, <3>2, <3>4 DEF c, v
            <6>2. <<"-", c>> \o v \in Words
              BY <4>4, <5>1
            <6> QED  BY <6>1, <6>2, JoinedWords
          <5> QED  BY <4>1, <5>1, <5>2 DEF c, v
        <4> QED  BY <1>1, <3>1, <4>3, <4>4, <4>5, AllWordsOne DEF alone
      <3>5. CASE /\ ~(IsLong(r, style) /\ style = "equals")
                 /\ ~(style = "joined" /\ Len(r.spelled) = 1 /\ r.spelled[1] \notin VALID_OPTIONS)
        <4> DEFINE v == r.spelled
                   one == <<name>>
        <4>1. alone = <<name, v>>
          BY <1>4, <2>5, <3>5 DEF Alone, IsLong, OptionWord
        <4> HIDE DEF name, alone, v
        <4>2. name \in Words
          <5>1. Len(alone) = 2 /\ alone[1] = name
            BY <4>1
          <5> HIDE DEF Words
          <5> QED  BY <1>1, <5>1
        <4>3. alone = Append(one, v)
          BY <4>1, AppendToOne
        <4>4. one \in Seq(Words) /\ AllWords(one) = WordsOf(name) /\ WordsOf(name) = one
          BY <2>3, <4>2, AllWordsOne
        <4>5. v \in Words /\ WordsOf(v) = <<v>>
          BY <3>2 DEF v
        <4> HIDE DEF one, Words
        <4>6. AllWords(alone) = one \o <<v>>
          BY <4>3, <4>4, <4>5, AllWordsAppend
        <4>7. one \o <<v>> = Append(one, v)
          BY <4>4, <4>5, AppendIsConcat
        <4> QED  BY <1>1, <3>1, <4>1, <4>3, <4>6, <4>7 DEF alone, v
      <3>6. IsLong(r, style) /\ style = "joined" => FALSE
        BY DEF IsLong
      <3> QED  BY <3>3, <3>4, <3>5, <3>6
    <2> QED  BY <2>4, <2>5
  <1> QED  BY <1>2, <1>3, <1>4

LEMMA AskedIsWords ==
    ASSUME NEW r, NEW style \in Styles, CanBeSpelled(r, style)
    PROVE  WordsAsked(r, style) \in Seq(Words) /\ WordsAsked(r, style) # <<>>
  <1> DEFINE alone == Alone(r, style)
             asked == WordsAsked(r, style)
  <1>1. alone \in Seq(Words) /\ AllWords(alone) = asked
    BY AloneIsAsked
  <1>2. asked \in Seq(Words)
    <2> HIDE DEF alone, asked
    <2> QED  BY <1>1, EachIsWords
  <1>3. asked # <<>>
    <2>1. CASE r.name = "rest"
      <3> DEFINE one == <<<<"--">>>>
      <3>1. asked = one \o r.spelled
        BY <2>1 DEF WordsAsked
      <3>2. r.spelled \in Seq(Words)
        BY <2>1, Letters DEF CanBeSpelled, IsTyped, OptionNames, Words
      <3>3. one \in Seq({<<"--">>}) /\ Len(one) = 1
        OBVIOUS
      <3> DEFINE S == Words \cup {<<"--">>}
      <3>4. one \in Seq(S) /\ r.spelled \in Seq(S)
        <4> HIDE DEF Words, one
        <4> QED  BY <3>2, <3>3
      <3> DEFINE v == r.spelled
      <3> HIDE DEF S, one, asked, v
      <3>5. one \in Seq(S) /\ v \in Seq(S) /\ asked = one \o v /\ Len(one) = 1
        BY <3>1, <3>3, <3>4 DEF v
      <3>6. Len(one \o v) = Len(one) + Len(v) /\ Len(v) \in Nat
        <4>1. ASSUME NEW x \in Seq(S), NEW y \in Seq(S) PROVE Len(x \o y) = Len(x) + Len(y) /\ Len(y) \in Nat
          OBVIOUS
        <4> QED  BY <3>5, <4>1
      <3>7. Len(asked) # 0
        BY <3>5, <3>6
      <3> QED  BY <3>7
    <2>2. CASE r.name # "rest"
      BY <2>2 DEF WordsAsked
    <2> QED  BY <2>1, <2>2
  <1> QED  BY <1>2, <1>3

\* An argument with one more letter.
LEMMA LetterAdded ==
    ASSUME NEW last \in Words, last # <<>>, last[1] = "-",
           \A i \in 2..Len(last) : last[i] \in VALID_OPTIONS, NEW c \in VALID_OPTIONS
    PROVE  Append(last, c) \in Words /\ WordsOf(Append(last, c)) = Append(WordsOf(last), <<"-", c>>)
  <1> DEFINE n == Len(last)
             more == Append(last, c)
             w(i) == <<"-", last[i + 1]>>
             w2(i) == <<"-", more[i + 1]>>
             s == [i \in 1..(n - 1) |-> w(i)]
             t == [i \in 1..n |-> w2(i)]
             e == <<"-", c>>
  <1>1. n \in Nat \ {0} /\ n - 1 \in Nat /\ \A i \in 1..n : last[i] \in Symbols
    BY DEF Words
  <1>2. c \in Symbols /\ "-" \in Symbols
    BY OwnCharacters
  <1>3. more \in Words /\ Len(more) = n + 1 /\ more[n + 1] = c /\ \A i \in 1..n : more[i] = last[i]
    BY <1>2, AppendProperties DEF Words
  <1> HIDE DEF more
  <1>4. WordsOf(last) = s
    <2>1. \A i \in 1..(n - 1) : last[i + 1] \in VALID_OPTIONS
      BY <1>1
    <2>2. last[1] # "--"
      OBVIOUS
    <2> QED  BY <2>1, <2>2 DEF WordsOf
  <1>5. WordsOf(more) = t
    <2>1. \A i \in 1..n : more[i + 1] \in VALID_OPTIONS
      <3> TAKE i \in 1..n
      <3>1. CASE i = n
        BY <1>3, <3>1
      <3>2. CASE i # n
        <4>1. i + 1 \in 1..n /\ i + 1 \in 2..n
          BY <1>1, <3>2
        <4> QED  BY <1>3, <4>1
      <3> QED  BY <3>1, <3>2
    <2>2. more # <<>> /\ more[1] = "-" /\ more[1] # "--" /\ Len(more) - 1 = n
      <3>1. 1 \in 1..n
        BY <1>1
      <3> QED  BY <1>1, <1>3, <3>1
    <2> HIDE DEF n
    <2> QED  BY <2>1, <2>2 DEF WordsOf
  <1>6. s \in Seq(Words) /\ Len(s) = n - 1 /\ \A i \in 1..(n - 1) : s[i] = w(i)
    <2>1. \A i \in 1..(n - 1) : w(i) \in Words
      <3> TAKE i \in 1..(n - 1)
      <3> DEFINE d == last[i + 1]
      <3>1. d \in Symbols
        BY <1>1
      <3> HIDE DEF d
      <3>2. <<"-", d>> \in Words
        BY <1>2, <3>1 DEF Words
      <3> QED  BY <3>2 DEF d
    <2>2. s \in [1..(n - 1) -> Words]
      BY <2>1
    <2>3. \A i \in 1..(n - 1) : s[i] = w(i)
      OBVIOUS
    <2> DEFINE m == n - 1
    <2>4. m \in Nat /\ s \in [1..m -> Words]
      BY <1>1, <2>2
    <2> HIDE DEF s, Words, m
    <2>5. s \in Seq(Words) /\ Len(s) = m
      BY <2>4, FunctionIsSeq
    <2> QED  BY <2>3, <2>5 DEF m
  <1>7. t \in Seq(Words) /\ Len(t) = n /\ \A i \in 1..n : t[i] = w2(i)
    <2>1. \A i \in 1..n : w2(i) \in Words
      <3> TAKE i \in 1..n
      <3> DEFINE d == more[i + 1]
      <3>1. d \in Symbols
        BY <1>1, <1>3 DEF Words
      <3> HIDE DEF d
      <3>2. <<"-", d>> \in Words
        BY <1>2, <3>1 DEF Words
      <3> QED  BY <3>2 DEF d
    <2>2. t \in [1..n -> Words] /\ n \in Nat
      BY <1>1, <2>1
    <2>3. \A i \in 1..n : t[i] = w2(i)
      OBVIOUS
    <2> HIDE DEF t, Words, n
    <2> QED  BY <2>2, <2>3, FunctionIsSeq
  <1>8. e \in Words
    BY <1>2 DEF Words
  <1> DEFINE u == Append(s, e)
  <1> HIDE DEF s, t, e, n
  <1>9. u \in Seq(Words) /\ Len(u) = n /\ u[n] = e /\ \A i \in 1..(n - 1) : u[i] = s[i]
    <2>1. (n - 1) + 1 = n
      BY <1>1
    <2> HIDE DEF Words
    <2> QED  BY <1>6, <1>8, <2>1, AppendProperties
  <1> HIDE DEF u
  <1>10. \A i \in 1..n : t[i] = u[i]
    <2> TAKE i \in 1..n
    <2>1. CASE i = n
      BY <1>3, <1>7, <1>9, <2>1 DEF e
    <2>2. CASE i # n
      <3>1. i \in 1..(n - 1) /\ i + 1 \in 1..n
        BY <1>1, <2>2
      <3> QED  BY <1>3, <1>6, <1>7, <1>9, <3>1
    <2> QED  BY <2>1, <2>2
  <1>11. t = u
    BY <1>1, <1>7, <1>9, <1>10, SeqEqual
  <1> QED  BY <1>3, <1>4, <1>5, <1>11 DEF u, e, more

\* One more request adds its words.
LEMMA SpellingAdds ==
    ASSUME NEW argv \in Seq(Words), NEW r, NEW style \in Styles, CanBeSpelled(r, style)
    PROVE  /\ Spelling(argv, r, style) \in Seq(Words)
           /\ AllWords(Spelling(argv, r, style)) = AllWords(argv) \o WordsAsked(r, style)
  <1> DEFINE alone == Alone(r, style)
             before == Front(argv)
             last == Last(argv)
  <1>1. CASE style = "joined" /\ Continues(argv, r)
    <2> DEFINE c == Letter[r.name]
               more == Append(last, c)
    <2>1. argv # <<>> /\ r.name \in OptionNames /\ ~TakesValue(r.name) /\ c \in VALID_OPTIONS
      BY <1>1, Letters DEF Continues
    <2>2. before \in Seq(Words) /\ last \in Words /\ argv = Append(before, last)
      <3> HIDE DEF Words
      <3> QED  BY <2>1, FrontAndLast
    <2>3. last = argv[Len(argv)]
      BY DEF Last
    <2>4. last # <<>> /\ last[1] = "-" /\ \A i \in 2..Len(last) : last[i] \in VALID_OPTIONS
      BY <1>1, <2>3 DEF Continues
    <2> HIDE DEF before, last
    <2>5. Spelling(argv, r, style) = Append(before, more)
      BY <1>1 DEF Spelling, before, last
    <2>6. WordsAsked(r, style) = <<<<"-", c>>>>
      <3>1. r.name # "operand" /\ r.name # "rest"
        BY <2>1 DEF OptionNames
      <3> QED  BY <1>1, <2>1, <3>1 DEF WordsAsked, OptionWord, IsLong
    <2> HIDE DEF c
    <2>7. more \in Words /\ WordsOf(more) = Append(WordsOf(last), <<"-", c>>)
      BY <2>1, <2>2, <2>4, LetterAdded
    <2>8. <<"-", c>> \in Words
      <3>1. c \in Symbols /\ "-" \in Symbols
        BY <2>1, OwnCharacters
      <3> QED  BY <3>1 DEF Words
    <2> DEFINE e == <<"-", c>>
               x == WordsOf(last)
               y == AllWords(before)
    <2>9. x \in Seq(Words) /\ y \in Seq(Words) /\ AllWords(argv) = y \o x
      BY <2>2, WordsOfIsWords, EachIsWords, AllWordsAppend
    <2> HIDE DEF more, e, x, y, Words
    <2>10. AllWords(Append(before, more)) = y \o (x \o <<e>>)
      <3>1. Append(x, e) = x \o <<e>>
        BY <2>8, <2>9, AppendIsConcat DEF e
      <3> QED  BY <2>2, <2>7, <3>1, AllWordsAppend DEF e, x, y
    <2>11. y \o (x \o <<e>>) = (y \o x) \o <<e>>
      <3>1. <<e>> \in Seq(Words)
        BY <2>8 DEF e
      <3> QED  BY <2>9, <3>1, ConcatAssociative
    <2>12. Append(before, more) \in Seq(Words)
      BY <2>2, <2>7
    <2> QED  BY <2>5, <2>6, <2>9, <2>10, <2>11, <2>12 DEF e
  <1>2. CASE ~(style = "joined" /\ Continues(argv, r))
    <2>1. Spelling(argv, r, style) = argv \o alone
      BY <1>2 DEF Spelling
    <2>2. alone \in Seq(Words) /\ AllWords(alone) = WordsAsked(r, style)
      BY AloneIsAsked
    <2> HIDE DEF alone, Words
    <2>3. AllWords(argv \o alone) = AllWords(argv) \o AllWords(alone)
      BY <2>2, AllWordsConcat
    <2>4. argv \o alone \in Seq(Words)
      BY <2>2
    <2> QED  BY <2>1, <2>2, <2>3, <2>4
  <1> QED  BY <1>1, <1>2

\* The command line after each request, and the options that it asks for, are made
\* from those after the request before.
LEMMA SpellingsGrow ==
    ASSUME NEW rs, NEW style \in Styles, Len(rs) \in Nat, \A i \in 1..Len(rs) : CanBeSpelled(rs[i], style)
    PROVE  /\ Spellings(rs, style)[0] = <<>>
           /\ \A p \in 1..Len(rs) : Spellings(rs, style)[p] = Spelling(Spellings(rs, style)[p - 1], rs[p], style)
  <1> DEFINE n == Len(rs)
             V == Seq(Words)
             base == <<>>
             step == [p \in 1..n |-> [v \in V |-> Spelling(v, rs[p], style)]]
             IsMade(f) == f = [k \in 0..n |-> IF k = 0 THEN base ELSE Spelling(f[k - 1], rs[k], style)]
  <1>1. step \in [1..n -> [V -> V]]
    BY SpellingAdds
  <1>2. base \in V
    <2> HIDE DEF Words
    <2> QED  OBVIOUS
  <1>3. PICK f \in [0..n -> V] : Makes(f, V, n, base, step)
    <2>1. n \in Nat
      OBVIOUS
    <2> HIDE DEF V, base, step, n
    <2> QED  BY <1>1, <1>2, <2>1, StepsDefine
  <1>4. \A p \in 1..n : f[p] = Spelling(f[p - 1], rs[p], style)
    <2> HIDE DEF V
    <2> TAKE p \in 1..n
    <2> DEFINE y == f[p - 1]
    <2>1. y \in V /\ f[p] = step[p][y]
      BY <1>3 DEF Makes
    <2> HIDE DEF y
    <2> QED  BY <2>1 DEF y
  <1> HIDE DEF V, base, step
  <1>5. IsMade(f)
    <2>1. \A k \in 0..n : f[k] = IF k = 0 THEN base ELSE Spelling(f[k - 1], rs[k], style)
      <3> TAKE k \in 0..n
      <3>1. k # 0 => k \in 1..n
        OBVIOUS
      <3> QED  BY <1>3, <1>4, <3>1 DEF Makes
    <2> QED  BY <1>3, <2>1
  <1>6. IsMade(Spellings(rs, style))
    BY <1>5 DEF Spellings, base
  <1> DEFINE argv == Spellings(rs, style)
  <1> HIDE DEF argv
  <1>7. argv = [k \in 0..n |-> IF k = 0 THEN base ELSE Spelling(argv[k - 1], rs[k], style)]
    BY <1>6 DEF argv
  <1>8. argv[0] = base /\ \A p \in 1..n : argv[p] = Spelling(argv[p - 1], rs[p], style)
    <2>1. 0 \in 0..n /\ \A p \in 1..n : p \in 0..n /\ p # 0
      OBVIOUS
    <2> QED  BY <1>7, <2>1
  <1> QED  BY <1>8 DEF argv, base

AskedWords(rs, style) == [i \in 1..Len(rs) |-> WordsAsked(rs[i], style)]

WordsTo(rs, style, k) == FlattenSeq(SubSeq(AskedWords(rs, style), 1, k))

LEMMA AskedTyped ==
    ASSUME NEW rs, NEW style \in Styles, Len(rs) \in Nat, \A i \in 1..Len(rs) : CanBeSpelled(rs[i], style)
    PROVE  /\ AskedWords(rs, style) \in Seq(Seq(Words)) /\ Len(AskedWords(rs, style)) = Len(rs)
           /\ \A i \in 1..Len(rs) : AskedWords(rs, style)[i] = WordsAsked(rs[i], style)
  <1> DEFINE T == Seq(Words)
             s == AskedWords(rs, style)
             n == Len(rs)
  <1>1. s \in [1..n -> T] /\ \A i \in 1..n : s[i] = WordsAsked(rs[i], style)
    BY AskedIsWords DEF AskedWords
  <1> HIDE DEF s, T, n
  <1>2. s \in Seq(T) /\ Len(s) = n
    BY <1>1, FunctionIsSeq DEF n
  <1> QED  BY <1>1, <1>2 DEF T, s, n

\* So its words are those of the requests, one after another.
LEMMA SpelledWords ==
    ASSUME NEW x, NEW style \in Styles, IsSpelled(x, style)
    PROVE  AllWords(x.argv) = FlattenSeq(AskedWords(x.requests, style))
  <1> DEFINE rs == x.requests
             n == Len(rs)
             argv == Spellings(rs, style)
             s == AskedWords(rs, style)
             S == {k \in Nat : /\ argv[k] \in Seq(Words)
                               /\ AllWords(argv[k]) = FlattenSeq(SubSeq(s, 1, k))}
  <1>1. n \in Nat /\ (\A i \in 1..n : CanBeSpelled(rs[i], style)) /\ x.argv = argv[n]
    BY DEF IsSpelled, Spell
  <1>2. argv[0] = <<>> /\ \A p \in 1..n : argv[p] = Spelling(argv[p - 1], rs[p], style)
    <2> HIDE DEF rs
    <2> QED  BY <1>1, SpellingsGrow
  <1>3. s \in Seq(Seq(Words)) /\ Len(s) = n /\ \A i \in 1..n : s[i] = WordsAsked(rs[i], style)
    <2> HIDE DEF rs
    <2> QED  BY <1>1, AskedTyped
  <1> HIDE DEF rs, n, argv, s
  <1>4. \A k \in 0..n : Splits(Words, s, k)
    BY <1>1, <1>3, FlattenSplits
  <1>5. 0 \in S
    <2> DEFINE none == <<>>
    <2>1. none \in Seq(Words) /\ AllWords(none) = <<>>
      <3>1. none \in Seq(Words) /\ Len(none) = 0
        <4> HIDE DEF Words
        <4> QED  OBVIOUS
      <3> DEFINE each == WordsOfEach(none)
      <3> HIDE DEF none
      <3>2. each \in Seq(Seq(Words)) /\ Len(each) = 0
        BY <3>1, EachIsWords
      <3> HIDE DEF each
      <3>3. each = <<>>
        BY <3>2
      <3> QED  BY <3>1, <3>3, FlattenNone DEF AllWords, each
    <2> HIDE DEF Words
    <2>2. 0 \in 0..n /\ FlattenSeq(SubSeq(s, 1, 0)) = <<>>
      <3>1. 0 \in 0..n
        BY <1>1
      <3>2. Splits(Words, s, 0)
        BY <1>4, <3>1
      <3> QED  BY <3>1, <3>2 DEF Splits
    <2> QED  BY <1>2, <2>1, <2>2
  <1>6. ASSUME NEW k \in 0..(n - 1), k \in S PROVE k + 1 \in S
    <2> DEFINE q == k + 1
               a == argv[k]
               r == rs[q]
    <2>1. q \in 1..n /\ q - 1 = k /\ k \in 0..n /\ k < n /\ q \in Nat
      BY <1>1
    <2>2. FlattenSeq(SubSeq(s, 1, q)) = FlattenSeq(SubSeq(s, 1, k)) \o s[q]
      BY <1>3, <1>4, <2>1 DEF Splits
    <2>3. argv[q] = Spelling(a, r, style) /\ s[q] = WordsAsked(r, style) /\ CanBeSpelled(r, style)
      BY <1>1, <1>2, <1>3, <2>1
    <2>4. a \in Seq(Words) /\ AllWords(a) = FlattenSeq(SubSeq(s, 1, k))
      BY <1>6
    <2> HIDE DEF a, r, q, Words
    <2>5. Spelling(a, r, style) \in Seq(Words) /\ AllWords(Spelling(a, r, style)) = AllWords(a) \o WordsAsked(r, style)
      BY <2>3, <2>4, SpellingAdds
    <2>6. q \in S
      BY <2>1, <2>2, <2>3, <2>4, <2>5
    <2> QED  BY <2>6 DEF q
  <1>7. n \in S
    <2> HIDE DEF S
    <2>1. 0..n \subseteq S
      BY <1>1, <1>5, <1>6, UpTo
    <2> QED  BY <1>1, <2>1
  <1>8. SubSeq(s, 1, n) = s
    BY <1>3, SubSeqFull
  <1> QED  BY <1>1, <1>7, <1>8 DEF s, rs

---------------------------------------------------------------------------
(* The options that are asked for. *)

\* What a request changes of the options.
Changed(o, r) ==
    CASE r.name = "indent0" -> [o EXCEPT !.indent = 0, !.format = "json"]
      [] r.name \in {"indent2", "json"} -> [o EXCEPT !.indent = 2, !.format = "json"]
      [] r.name = "indent4" -> [o EXCEPT !.indent = 4, !.format = "json"]
      [] r.name = "items"   -> [o EXCEPT !.memoize = TRUE]
      [] r.name \in {"group", "array", "keys", "help"} -> [o EXCEPT ![r.name] = TRUE]
      [] r.name \in {"delimiter", "conditional", "evaluate"} -> [o EXCEPT ![r.name] = r.spelled]
      [] r.name = "operand" -> [o EXCEPT !.args = Append(o.args, r.spelled)]
      [] r.name = "rest"    -> [o EXCEPT !.args = o.args \o r.spelled]

UnwrappedAll(args) == [i \in DOMAIN args |-> Unwrapped(args[i])]

LEMMA UnwrappedIsWord == ASSUME NEW arg \in Words PROVE Unwrapped(arg) \in Words
  <1> DEFINE s == SubSeq(arg, 2, Len(arg) - 1)
  <1>1. Len(arg) \in Nat /\ \A i \in 1..Len(arg) : arg[i] \in Symbols
    BY DEF Words
  <1>2. s \in Words
    BY <1>1, SubSeqProperties DEF Words
  <1> HIDE DEF s, Words
  <1> QED  BY <1>2 DEF Unwrapped, s

LEMMA UnwrappedTyped ==
    ASSUME NEW args \in Seq(Words)
    PROVE  /\ UnwrappedAll(args) \in Seq(Words) /\ Len(UnwrappedAll(args)) = Len(args)
           /\ \A i \in 1..Len(args) : UnwrappedAll(args)[i] = Unwrapped(args[i])
  <1> DEFINE n == Len(args)
             s == UnwrappedAll(args)
  <1> HIDE DEF Words
  <1>1. n \in Nat /\ DOMAIN args = 1..n /\ \A i \in 1..n : args[i] \in Words
    OBVIOUS
  <1>2. s \in [1..n -> Words] /\ \A i \in 1..n : s[i] = Unwrapped(args[i])
    BY <1>1, UnwrappedIsWord DEF UnwrappedAll
  <1> HIDE DEF s
  <1>3. s \in Seq(Words) /\ Len(s) = n
    <2> HIDE DEF n
    <2> QED  BY <1>1, <1>2, FunctionIsSeq
  <1> QED  BY <1>2, <1>3 DEF s

LEMMA UnwrappedConcat ==
    ASSUME NEW a \in Seq(Words), NEW b \in Seq(Words)
    PROVE  UnwrappedAll(a \o b) = UnwrappedAll(a) \o UnwrappedAll(b)
  <1> DEFINE x == UnwrappedAll(a)
             y == UnwrappedAll(b)
             ab == a \o b
             z == UnwrappedAll(ab)
             m == Len(a)
             n == Len(b)
             xy == x \o y
  <1> HIDE DEF Words
  <1>1. m \in Nat /\ n \in Nat
    OBVIOUS
  <1>2. /\ ab \in Seq(Words) /\ Len(ab) = m + n
        /\ \A i \in 1..(m + n) : ab[i] = IF i <= m THEN a[i] ELSE b[i - m]
    <2>1. \A i \in 1..(m + n) : ab[i] = IF i <= m THEN a[i] ELSE b[i - m]
      BY ConcatProperties
    <2> QED  BY <2>1
  <1> HIDE DEF ab
  <1>3. /\ x \in Seq(Words) /\ Len(x) = m /\ \A i \in 1..m : x[i] = Unwrapped(a[i])
        /\ y \in Seq(Words) /\ Len(y) = n /\ \A i \in 1..n : y[i] = Unwrapped(b[i])
    BY UnwrappedTyped
  <1>4. z \in Seq(Words) /\ Len(z) = m + n /\ \A i \in 1..(m + n) : z[i] = Unwrapped(ab[i])
    BY <1>2, UnwrappedTyped
  <1> HIDE DEF x, y, z, m, n
  <1>5. /\ xy \in Seq(Words) /\ Len(xy) = m + n
        /\ \A i \in 1..(m + n) : xy[i] = IF i <= m THEN x[i] ELSE y[i - m]
    BY <1>3, ConcatProperties
  <1> HIDE DEF xy
  <1>6. \A i \in 1..(m + n) : z[i] = xy[i]
    <2> TAKE i \in 1..(m + n)
    <2>1. CASE i <= m
      <3>1. i \in 1..m
        BY <1>1, <2>1
      <3> QED  BY <1>2, <1>3, <1>4, <1>5, <2>1, <3>1
    <2>2. CASE ~(i <= m)
      <3>1. i - m \in 1..n
        BY <1>1, <2>2
      <3> QED  BY <1>2, <1>3, <1>4, <1>5, <2>2, <3>1
    <2> QED  BY <2>1, <2>2
  <1>7. z = xy
    BY <1>4, <1>5, <1>6, SeqEqual
  <1> QED  BY <1>7 DEF x, y, z, ab, xy

\* The value of a request is what is made of what is typed.
TypedIs(r) ==
    /\ r.name \in {"delimiter", "conditional", "evaluate", "operand"} => r.spelled \in Words
    /\ r.name \in {"conditional", "evaluate"} => r.value = r.spelled
    /\ r.name = "delimiter" => r.value = Unescaped(r.spelled)
    /\ r.name = "operand" => r.value = Unwrapped(r.spelled)
    /\ r.name = "rest" => r.spelled \in Seq(Words) /\ r.value = UnwrappedAll(r.spelled)
    /\ r.name \in OptionNames \cup {"operand", "rest"}

LEMMA ValueOfTyped == ASSUME NEW r, IsTyped(r) PROVE TypedIs(r)
  BY Letters DEF IsTyped, TypedIs, TakesValue, IsPlain, Words, UnwrappedAll, OptionNames

LEMMA CompletedIs ==
    ASSUME NEW o \in OptionSet
    PROVE  Completed(o) = [o EXCEPT !.delimiter = Unescaped(o.delimiter), !.args = UnwrappedAll(o.args)]
  BY DEF Completed, UnwrappedAll, OptionSet

\* Completing the options and changing them gives what is asked for.
LEMMA ChangedIsApplied ==
    ASSUME NEW o \in OptionSet, NEW r, TypedIs(r)
    PROVE  Changed(o, r) \in OptionSet /\ Completed(Changed(o, r)) = Applied(Completed(o), r)
  <1> DEFINE c == Changed(o, r)
             d == Unescaped(o.delimiter)
             a == UnwrappedAll(o.args)
             done == [o EXCEPT !.delimiter = d, !.args = a]
  <1>1. Completed(o) = done /\ o.args \in Seq(Words)
    <2> HIDE DEF Words
    <2> QED  BY CompletedIs DEF OptionSet
  <1> HIDE DEF c, d, a, Words
  <1> SUFFICES c \in OptionSet /\ Completed(c) = Applied(done, r)
    BY <1>1 DEF c
  <1>2. CASE r.name = "delimiter"
    <2>1. c = [o EXCEPT !.delimiter = r.spelled]
      BY <1>2 DEF c, Changed
    <2>2. Applied(done, r) = [done EXCEPT !.delimiter = Unescaped(r.spelled)]
      BY <1>2 DEF Applied, TypedIs
    <2>3. c \in OptionSet /\ c.args = o.args /\ c.delimiter = r.spelled
      BY <1>2, <2>1 DEF OptionSet, TypedIs
    <2> DEFINE e == Unescaped(r.spelled)
    <2> HIDE DEF e
    <2>4. Completed(c) = [c EXCEPT !.delimiter = e, !.args = a]
      BY <2>3, CompletedIs DEF e, a
    <2>5. [c EXCEPT !.delimiter = e, !.args = a] = [done EXCEPT !.delimiter = e]
      BY <2>1 DEF OptionSet
    <2> QED  BY <1>1, <2>2, <2>3, <2>4, <2>5 DEF e
  <1>3. CASE r.name = "operand"
    <2> DEFINE one == <<r.spelled>>
               args == o.args \o one
               v == UnwrappedAll(one)
    <2>1. r.spelled \in Words /\ r.value = Unwrapped(r.spelled) /\ one \in Seq(Words) /\ Len(one) = 1 /\ one[1] = r.spelled
      BY <1>3 DEF TypedIs
    <2> HIDE DEF one
    <2>2. v = <<r.value>>
      <3> DEFINE u == <<r.value>>
      <3>1. v \in Seq(Words) /\ Len(v) = 1 /\ v[1] = r.value
        BY <2>1, UnwrappedTyped
      <3>2. u \in Seq(Words) /\ Len(u) = 1 /\ u[1] = r.value
        BY <2>1, UnwrappedIsWord
      <3>3. \A i \in 1..1 : i = 1
        OBVIOUS
      <3> HIDE DEF u, v
      <3>4. v = u
        BY <3>1, <3>2, <3>3, SeqEqual
      <3> QED  BY <3>4 DEF u
    <2>3. Append(o.args, r.spelled) = args /\ args \in Seq(Words)
      BY <1>1, <2>1, AppendIsConcat DEF one
    <2>4. UnwrappedAll(args) = a \o v
      BY <1>1, <2>1, UnwrappedConcat DEF a
    <2>5. a \o v = Append(a, r.value)
      <3>1. a \in Seq(Words) /\ r.value \in Words
        BY <1>1, <2>1, UnwrappedTyped, UnwrappedIsWord DEF a
      <3> QED  BY <2>2, <3>1, AppendIsConcat
    <2>6. c = [o EXCEPT !.args = args]
      BY <1>3, <2>3 DEF c, Changed
    <2>7. Applied(done, r) = [done EXCEPT !.args = Append(a, r.value)]
      BY <1>3 DEF Applied, OptionSet
    <2> HIDE DEF args, v
    <2>8. c \in OptionSet /\ c.delimiter = o.delimiter /\ c.args = args
      BY <2>3, <2>6 DEF OptionSet
    <2>9. Completed(c) = [c EXCEPT !.delimiter = d, !.args = UnwrappedAll(args)]
      BY <2>8, CompletedIs DEF d
    <2>10. Completed(c) = [done EXCEPT !.args = UnwrappedAll(args)]
      BY <2>6, <2>9 DEF OptionSet
    <2> QED  BY <1>1, <2>4, <2>5, <2>7, <2>8, <2>10
  <1>4. CASE r.name = "rest"
    <2> DEFINE args == o.args \o r.spelled
    <2>1. r.spelled \in Seq(Words) /\ r.value = UnwrappedAll(r.spelled) /\ args \in Seq(Words)
      BY <1>1, <1>4 DEF TypedIs
    <2>2. UnwrappedAll(args) = a \o r.value
      BY <1>1, <2>1, UnwrappedConcat DEF a
    <2>3. c = [o EXCEPT !.args = args]
      BY <1>4 DEF c, Changed
    <2>4. Applied(done, r) = [done EXCEPT !.args = a \o r.value]
      BY <1>4 DEF Applied, OptionSet
    <2> HIDE DEF args
    <2>5. c \in OptionSet /\ c.delimiter = o.delimiter /\ c.args = args
      BY <2>1, <2>3 DEF OptionSet
    <2>6. Completed(c) = [c EXCEPT !.delimiter = d, !.args = UnwrappedAll(args)]
      BY <2>5, CompletedIs DEF d
    <2>7. Completed(c) = [done EXCEPT !.args = UnwrappedAll(args)]
      BY <2>3, <2>6 DEF OptionSet
    <2> QED  BY <1>1, <2>2, <2>4, <2>5, <2>7
  <1>5. CASE r.name = "indent0"
    <2>1. c = [o EXCEPT !.indent = 0, !.format = "json"] /\ Applied(done, r) = [done EXCEPT !.indent = 0, !.format = "json"]
      BY <1>5 DEF c, Changed, Applied, TypedIs
    <2>2. c \in OptionSet /\ c.args = o.args /\ c.delimiter = o.delimiter
      BY <1>5, <2>1 DEF OptionSet, TypedIs
    <2>3. Completed(c) = [c EXCEPT !.delimiter = d, !.args = a]
      BY <2>2, CompletedIs DEF d, a
    <2>4. [c EXCEPT !.delimiter = d, !.args = a] = [done EXCEPT !.indent = 0, !.format = "json"]
      BY <2>1 DEF OptionSet
    <2> QED  BY <2>1, <2>2, <2>3, <2>4
  <1>6. CASE r.name = "indent2"
    <2>1. c = [o EXCEPT !.indent = 2, !.format = "json"] /\ Applied(done, r) = [done EXCEPT !.indent = 2, !.format = "json"]
      BY <1>6 DEF c, Changed, Applied, TypedIs
    <2>2. c \in OptionSet /\ c.args = o.args /\ c.delimiter = o.delimiter
      BY <1>6, <2>1 DEF OptionSet, TypedIs
    <2>3. Completed(c) = [c EXCEPT !.delimiter = d, !.args = a]
      BY <2>2, CompletedIs DEF d, a
    <2>4. [c EXCEPT !.delimiter = d, !.args = a] = [done EXCEPT !.indent = 2, !.format = "json"]
      BY <2>1 DEF OptionSet
    <2> QED  BY <2>1, <2>2, <2>3, <2>4
  <1>7. CASE r.name = "json"
    <2>1. c = [o EXCEPT !.indent = 2, !.format = "json"] /\ Applied(done, r) = [done EXCEPT !.indent = 2, !.format = "json"]
      BY <1>7 DEF c, Changed, Applied, TypedIs
    <2>2. c \in OptionSet /\ c.args = o.args /\ c.delimiter = o.delimiter
      BY <1>7, <2>1 DEF OptionSet, TypedIs
    <2>3. Completed(c) = [c EXCEPT !.delimiter = d, !.args = a]
      BY <2>2, CompletedIs DEF d, a
    <2>4. [c EXCEPT !.delimiter = d, !.args = a] = [done EXCEPT !.indent = 2, !.format = "json"]
      BY <2>1 DEF OptionSet
    <2> QED  BY <2>1, <2>2, <2>3, <2>4
  <1>8. CASE r.name = "indent4"
    <2>1. c = [o EXCEPT !.indent = 4, !.format = "json"] /\ Applied(done, r) = [done EXCEPT !.indent = 4, !.format = "json"]
      BY <1>8 DEF c, Changed, Applied, TypedIs
    <2>2. c \in OptionSet /\ c.args = o.args /\ c.delimiter = o.delimiter
      BY <1>8, <2>1 DEF OptionSet, TypedIs
    <2>3. Completed(c) = [c EXCEPT !.delimiter = d, !.args = a]
      BY <2>2, CompletedIs DEF d, a
    <2>4. [c EXCEPT !.delimiter = d, !.args = a] = [done EXCEPT !.indent = 4, !.format = "json"]
      BY <2>1 DEF OptionSet
    <2> QED  BY <2>1, <2>2, <2>3, <2>4
  <1>9. CASE r.name = "items"
    <2>1. c = [o EXCEPT !.memoize = TRUE] /\ Applied(done, r) = [done EXCEPT !.memoize = TRUE]
      BY <1>9 DEF c, Changed, Applied, TypedIs
    <2>2. c \in OptionSet /\ c.args = o.args /\ c.delimiter = o.delimiter
      BY <1>9, <2>1 DEF OptionSet, TypedIs
    <2>3. Completed(c) = [c EXCEPT !.delimiter = d, !.args = a]
      BY <2>2, CompletedIs DEF d, a
    <2>4. [c EXCEPT !.delimiter = d, !.args = a] = [done EXCEPT !.memoize = TRUE]
      BY <2>1 DEF OptionSet
    <2> QED  BY <2>1, <2>2, <2>3, <2>4
  <1>10. CASE r.name = "group"
    <2>1. c = [o EXCEPT !.group = TRUE] /\ Applied(done, r) = [done EXCEPT !.group = TRUE]
      BY <1>10 DEF c, Changed, Applied, TypedIs
    <2>2. c \in OptionSet /\ c.args = o.args /\ c.delimiter = o.delimiter
      BY <1>10, <2>1 DEF OptionSet, TypedIs
    <2>3. Completed(c) = [c EXCEPT !.delimiter = d, !.args = a]
      BY <2>2, CompletedIs DEF d, a
    <2>4. [c EXCEPT !.delimiter = d, !.args = a] = [done EXCEPT !.group = TRUE]
      BY <2>1 DEF OptionSet
    <2> QED  BY <2>1, <2>2, <2>3, <2>4
  <1>11. CASE r.name = "array"
    <2>1. c = [o EXCEPT !.array = TRUE] /\ Applied(done, r) = [done EXCEPT !.array = TRUE]
      BY <1>11 DEF c, Changed, Applied, TypedIs
    <2>2. c \in OptionSet /\ c.args = o.args /\ c.delimiter = o.delimiter
      BY <1>11, <2>1 DEF OptionSet, TypedIs
    <2>3. Completed(c) = [c EXCEPT !.delimiter = d, !.args = a]
      BY <2>2, CompletedIs DEF d, a
    <2>4. [c EXCEPT !.delimiter = d, !.args = a] = [done EXCEPT !.array = TRUE]
      BY <2>1 DEF OptionSet
    <2> QED  BY <2>1, <2>2, <2>3, <2>4
  <1>12. CASE r.name = "keys"
    <2>1. c = [o EXCEPT !.keys = TRUE] /\ Applied(done, r) = [done EXCEPT !.keys = TRUE]
      BY <1>12 DEF c, Changed, Applied, TypedIs
    <2>2. c \in OptionSet /\ c.args = o.args /\ c.delimiter = o.delimiter
      BY <1>12, <2>1 DEF OptionSet, TypedIs
    <2>3. Completed(c) = [c EXCEPT !.delimiter = d, !.args = a]
      BY <2>2, CompletedIs DEF d, a
    <2>4. [c EXCEPT !.delimiter = d, !.args = a] = [done EXCEPT !.keys = TRUE]
      BY <2>1 DEF OptionSet
    <2> QED  BY <2>1, <2>2, <2>3, <2>4
  <1>13. CASE r.name = "help"
    <2>1. c = [o EXCEPT !.help = TRUE] /\ Applied(done, r) = [done EXCEPT !.help = TRUE]
      BY <1>13 DEF c, Changed, Applied, TypedIs
    <2>2. c \in OptionSet /\ c.args = o.args /\ c.delimiter = o.delimiter
      BY <1>13, <2>1 DEF OptionSet, TypedIs
    <2>3. Completed(c) = [c EXCEPT !.delimiter = d, !.args = a]
      BY <2>2, CompletedIs DEF d, a
    <2>4. [c EXCEPT !.delimiter = d, !.args = a] = [done EXCEPT !.help = TRUE]
      BY <2>1 DEF OptionSet
    <2> QED  BY <2>1, <2>2, <2>3, <2>4
  <1>14. CASE r.name = "conditional"
    <2>1. c = [o EXCEPT !.conditional = r.spelled] /\ Applied(done, r) = [done EXCEPT !.conditional = r.spelled]
      BY <1>14 DEF c, Changed, Applied, TypedIs
    <2>2. c \in OptionSet /\ c.args = o.args /\ c.delimiter = o.delimiter
      BY <1>14, <2>1 DEF OptionSet, TypedIs
    <2>3. Completed(c) = [c EXCEPT !.delimiter = d, !.args = a]
      BY <2>2, CompletedIs DEF d, a
    <2>4. [c EXCEPT !.delimiter = d, !.args = a] = [done EXCEPT !.conditional = r.spelled]
      BY <2>1 DEF OptionSet
    <2> QED  BY <2>1, <2>2, <2>3, <2>4
  <1>15. CASE r.name = "evaluate"
    <2>1. c = [o EXCEPT !.evaluate = r.spelled] /\ Applied(done, r) = [done EXCEPT !.evaluate = r.spelled]
      BY <1>15 DEF c, Changed, Applied, TypedIs
    <2>2. c \in OptionSet /\ c.args = o.args /\ c.delimiter = o.delimiter
      BY <1>15, <2>1 DEF OptionSet, TypedIs
    <2>3. Completed(c) = [c EXCEPT !.delimiter = d, !.args = a]
      BY <2>2, CompletedIs DEF d, a
    <2>4. [c EXCEPT !.delimiter = d, !.args = a] = [done EXCEPT !.evaluate = r.spelled]
      BY <2>1 DEF OptionSet
    <2> QED  BY <2>1, <2>2, <2>3, <2>4
  <1> QED
    BY <1>2, <1>3, <1>4, <1>5, <1>6, <1>7, <1>8, <1>9, <1>10, <1>11, <1>12, <1>13, <1>14, <1>15 DEF TypedIs, OptionNames

LEMMA NothingCompleted == Completed(NoOptions) = NoOptions
  <1> DEFINE space == <<" ">>
             none == <<>>
  <1>1. Completed(NoOptions) = [NoOptions EXCEPT !.delimiter = Unescaped(NoOptions.delimiter),
                                                 !.args = UnwrappedAll(NoOptions.args)]
    BY NoOptionsTyped, CompletedIs
  <1>2. Unescaped(space) = space
    BY DEF Unescaped
  <1>3. UnwrappedAll(none) = none
    BY DEF UnwrappedAll
  <1>4. NoOptions.delimiter = space /\ NoOptions.args = none
    BY DEF NoOptions
  <1>5. [NoOptions EXCEPT !.delimiter = NoOptions.delimiter, !.args = NoOptions.args] = NoOptions
    BY DEF NoOptions
  <1> HIDE DEF space, none
  <1> QED  BY <1>1, <1>2, <1>3, <1>4, <1>5

LEMMA MeaningsGrow ==
    ASSUME NEW rs, Len(rs) \in Nat, \A i \in 1..Len(rs) : TypedIs(rs[i])
    PROVE  /\ Meanings(rs)[0] = NoOptions
           /\ \A p \in 1..Len(rs) : Meanings(rs)[p] = Applied(Meanings(rs)[p - 1], rs[p])
  <1> DEFINE n == Len(rs)
             V == OptionSet
             base == NoOptions
             step == [p \in 1..n |-> [v \in V |-> Changed(v, rs[p])]]
             IsMade(f) == f = [k \in 0..n |-> IF k = 0 THEN base ELSE Applied(f[k - 1], rs[k])]
  <1>1. step \in [1..n -> [V -> V]] /\ base \in V
    BY ChangedIsApplied, NoOptionsTyped
  <1>2. PICK c \in [0..n -> V] : Makes(c, V, n, base, step)
    <2>1. n \in Nat
      OBVIOUS
    <2> HIDE DEF V, base, step, n
    <2> QED  BY <1>1, <2>1, StepsDefine
  <1>3. c[0] = base /\ \A p \in 1..n : c[p - 1] \in V /\ c[p] = Changed(c[p - 1], rs[p])
    <2>1. ASSUME NEW p \in 1..n PROVE c[p - 1] \in V /\ c[p] = Changed(c[p - 1], rs[p])
      <3> DEFINE y == c[p - 1]
      <3>1. y \in V /\ c[p] = step[p][y]
        BY <1>2 DEF Makes
      <3> HIDE DEF y, V
      <3> QED  BY <3>1 DEF y
    <2> QED  BY <1>2, <2>1 DEF Makes
  <1> DEFINE f == [k \in 0..n |-> Completed(c[k])]
  <1> HIDE DEF V, step
  <1>4. f[0] = base /\ \A p \in 1..n : f[p] = Applied(f[p - 1], rs[p])
    <2>1. 0 \in 0..n /\ \A p \in 1..n : p \in 0..n /\ p - 1 \in 0..n
      OBVIOUS
    <2>2. f[0] = base
      BY <1>3, <2>1, NothingCompleted
    <2>3. ASSUME NEW p \in 1..n PROVE f[p] = Applied(f[p - 1], rs[p])
      <3> DEFINE y == c[p - 1]
                 r == rs[p]
      <3>1. y \in OptionSet /\ TypedIs(r) /\ c[p] = Changed(y, r)
        BY <1>3 DEF V
      <3>2. f[p] = Completed(c[p]) /\ f[p - 1] = Completed(y)
        BY <2>1
      <3> HIDE DEF y, r, f
      <3>3. Completed(Changed(y, r)) = Applied(Completed(y), r)
        BY <3>1, ChangedIsApplied
      <3> QED  BY <3>1, <3>2, <3>3 DEF r
    <2> QED  BY <2>2, <2>3
  <1> HIDE DEF base
  <1>5. IsMade(f)
    <2>1. \A k \in 0..n : f[k] = IF k = 0 THEN base ELSE Applied(f[k - 1], rs[k])
      <3> HIDE DEF f
      <3> TAKE k \in 0..n
      <3>1. k # 0 => k \in 1..n
        OBVIOUS
      <3> QED  BY <1>4, <3>1
    <2>2. DOMAIN f = 0..n /\ f = [k \in 0..n |-> f[k]]
      OBVIOUS
    <2> HIDE DEF f
    <2> QED  BY <2>1, <2>2
  <1> HIDE DEF f
  <1>6. IsMade(Meanings(rs))
    BY <1>5 DEF Meanings, base
  <1> DEFINE opts == Meanings(rs)
  <1> HIDE DEF opts
  <1>7. opts = [k \in 0..n |-> IF k = 0 THEN base ELSE Applied(opts[k - 1], rs[k])]
    BY <1>6 DEF opts
  <1>8. opts[0] = base /\ \A p \in 1..n : opts[p] = Applied(opts[p - 1], rs[p])
    <2>1. 0 \in 0..n /\ \A p \in 1..n : p \in 0..n /\ p # 0
      OBVIOUS
    <2> QED  BY <1>7, <2>1
  <1> QED  BY <1>8 DEF opts, base

---------------------------------------------------------------------------
(* A turn of the loop of parseArguments reads one request. *)

\* What a turn does with a word of two symbols.
IndentsBy(a, b) ==
    /\ a = "-" /\ b \in {"0", "2", "4", "j"}
    /\ options' = [options EXCEPT !.format = "json", !.indent = CASE b = "0" -> 0 [] b = "4" -> 4 [] OTHER -> 2]
    /\ Take(1)

DelimitsBy(a, b) ==
    /\ (a = "-" /\ b = "d") \/ (a = "--" /\ b = "delimiter")
    /\ options' = [options EXCEPT !.delimiter = Value]
    /\ Take(2)

FlagsBy(a, b) ==
    /\ \/ ((a = "-" /\ b = "g") \/ (a = "--" /\ b = "group")) /\ options' = [options EXCEPT !.group = TRUE]
       \/ ((a = "-" /\ b = "a") \/ (a = "--" /\ b = "array")) /\ options' = [options EXCEPT !.array = TRUE]
       \/ ((a = "-" /\ b = "M") \/ (a = "--" /\ b = "items")) /\ options' = [options EXCEPT !.memoize = TRUE]
       \/ ((a = "-" /\ b = "k") \/ (a = "--" /\ b = "keys")) /\ options' = [options EXCEPT !.keys = TRUE]
       \/ ((a = "-" /\ b = "h") \/ (a = "--" /\ b = "help")) /\ options' = [options EXCEPT !.help = TRUE]
    /\ Take(1)

CodeBy(a, b) ==
    /\ a = "-" /\ (b = "c" \/ b = "e")
    /\ b = "c" => options' = [options EXCEPT !.conditional = Value]
    /\ b = "e" => options' = [options EXCEPT !.evaluate = Value]
    /\ Take(2)

LEMMA TurnOfTwo ==
    ASSUME NEW a, NEW b, Word = <<a, b>>, OptionTurn,
           (a = "-" /\ b \in VALID_OPTIONS) \/ (a = "--" /\ b \in Long)
    PROVE  IndentsBy(a, b) \/ DelimitsBy(a, b) \/ FlagsBy(a, b) \/ CodeBy(a, b)
  <1>1. \A c, d : <<a, b>> = <<c, d>> <=> a = c /\ b = d
    OBVIOUS
  <1>2. CASE Indentation
    <2>1. Word[2] = b
      OBVIOUS
    <2>2. a = "-" /\ b \in {"0", "2", "4", "j"}
      BY <1>1, <1>2 DEF Indentation
    <2> QED  BY <1>2, <2>1, <2>2 DEF Indentation, IndentsBy
  <1>3. CASE Delimiter
    <2>1. (a = "-" /\ b = "d") \/ (a = "--" /\ b = "delimiter")
      BY <1>1, <1>3 DEF Delimiter
    <2> QED  BY <1>3, <2>1 DEF Delimiter, DelimitsBy
  <1>4. CASE Flag
    <2>1. /\ Word \in {<<"-", "g">>, <<"--", "group">>} => (a = "-" /\ b = "g") \/ (a = "--" /\ b = "group")
          /\ Word \in {<<"-", "a">>, <<"--", "array">>} => (a = "-" /\ b = "a") \/ (a = "--" /\ b = "array")
          /\ Word \in {<<"-", "M">>, <<"--", "items">>} => (a = "-" /\ b = "M") \/ (a = "--" /\ b = "items")
          /\ Word \in {<<"-", "k">>, <<"--", "keys">>} => (a = "-" /\ b = "k") \/ (a = "--" /\ b = "keys")
          /\ Word \in {<<"-", "h">>, <<"--", "help">>} => (a = "-" /\ b = "h") \/ (a = "--" /\ b = "help")
      BY <1>1
    <2> QED  BY <1>4, <2>1 DEF Flag, FlagsBy
  <1>5. CASE Code
    BY <1>1, <1>5 DEF Code, IsCode, CodeBy
  <1>6. CASE Rest
    <2>1. <<a, b>> = <<"--">>
      BY <1>6 DEF Rest
    <2>2. Len(<<a, b>>) = 2 /\ Len(<<"--">>) = 1
      OBVIOUS
    <2> QED  BY <2>1, <2>2
  <1>7. CASE Operand
    <2>1. <<a, b>> \in Named
      BY DEF Named, Long
    <2> QED  BY <1>7, <2>1 DEF Operand
  <1> QED  BY <1>2, <1>3, <1>4, <1>5, <1>6, <1>7 DEF OptionTurn

LEMMA TwoSymbols ==
    ASSUME NEW r, NEW style, r.name \in OptionNames
    PROVE  \E a, b : /\ OptionWord(r, style) = <<a, b>>
                     /\ \/ a = "-" /\ b = Letter[r.name] /\ b \in VALID_OPTIONS
                        \/ a = "--" /\ b = r.name /\ b \in Long
  BY Letters DEF OptionWord, IsLong

LEMMA ReadsFlag ==
    ASSUME OptionTurn, NEW r, NEW style, r.name \in OptionNames, ~TakesValue(r.name),
           Word = OptionWord(r, style)
    PROVE  words' = words /\ next' = next + 1 /\ options' = Changed(options, r)
  <1>1. PICK a, b : /\ Word = <<a, b>>
                    /\ \/ a = "-" /\ b = Letter[r.name] /\ b \in VALID_OPTIONS
                       \/ a = "--" /\ b = r.name /\ b \in Long
    BY TwoSymbols
  <1>2. r.name \in {"indent0", "indent2", "indent4", "json", "group", "array", "items", "keys", "help"}
    BY DEF OptionNames, TakesValue
  <1>3. IndentsBy(a, b) \/ DelimitsBy(a, b) \/ FlagsBy(a, b) \/ CodeBy(a, b)
    <2>1. (a = "-" /\ b \in VALID_OPTIONS) \/ (a = "--" /\ b \in Long)
      BY <1>1
    <2> QED  BY <1>1, <2>1, TurnOfTwo
  <1>4. CASE IndentsBy(a, b)
    <2>1. r.name \in {"indent0", "indent2", "indent4", "json"} /\ b = Letter[r.name]
      BY <1>1, <1>2, <1>4 DEF IndentsBy, Letter, Long
    <2>2. /\ r.name = "indent0" => b = "0"
          /\ r.name = "indent4" => b = "4"
          /\ r.name \in {"indent2", "json"} => b \in {"2", "j"}
      BY <2>1 DEF Letter
    <2>3. options' = [options EXCEPT !.format = "json", !.indent = CASE b = "0" -> 0 [] b = "4" -> 4 [] OTHER -> 2]
      BY <1>4 DEF IndentsBy
    <2>4. options' = Changed(options, r)
      <3>1. CASE r.name = "indent0"
        BY <2>2, <2>3, <3>1 DEF Changed
      <3>2. CASE r.name = "indent4"
        BY <2>2, <2>3, <3>2 DEF Changed
      <3>3. CASE r.name \in {"indent2", "json"}
        BY <2>2, <2>3, <3>3 DEF Changed
      <3> QED  BY <2>1, <3>1, <3>2, <3>3
    <2> QED  BY <1>4, <2>4 DEF IndentsBy, Take
  <1>5. CASE DelimitsBy(a, b)
    BY <1>1, <1>2, <1>5 DEF DelimitsBy, Letter
  <1>6. CASE FlagsBy(a, b)
    <2>1. /\ b \in {"g", "group"} => r.name = "group"
          /\ b \in {"a", "array"} => r.name = "array"
          /\ b \in {"M", "items"} => r.name = "items"
          /\ b \in {"k", "keys"} => r.name = "keys"
          /\ b \in {"h", "help"} => r.name = "help"
      BY <1>1, <1>2 DEF Letter
    <2>2. options' = Changed(options, r)
      BY <1>6, <2>1 DEF FlagsBy, Changed
    <2> QED  BY <1>6, <2>2 DEF FlagsBy, Take
  <1>7. CASE CodeBy(a, b)
    BY <1>1, <1>2, <1>7 DEF CodeBy, Letter
  <1> QED  BY <1>3, <1>4, <1>5, <1>6, <1>7

LEMMA ReadsValue ==
    ASSUME OptionTurn, NEW r, NEW style, r.name \in OptionNames, TakesValue(r.name),
           Word = OptionWord(r, style), Value = r.spelled
    PROVE  words' = words /\ next' = next + 2 /\ options' = Changed(options, r)
  <1>1. PICK a, b : /\ Word = <<a, b>>
                    /\ \/ a = "-" /\ b = Letter[r.name] /\ b \in VALID_OPTIONS
                       \/ a = "--" /\ b = r.name /\ b \in Long
    BY TwoSymbols
  <1>2. r.name \in {"delimiter", "conditional", "evaluate"}
    BY DEF TakesValue
  <1>3. IndentsBy(a, b) \/ DelimitsBy(a, b) \/ FlagsBy(a, b) \/ CodeBy(a, b)
    <2>1. (a = "-" /\ b \in VALID_OPTIONS) \/ (a = "--" /\ b \in Long)
      BY <1>1
    <2> QED  BY <1>1, <2>1, TurnOfTwo
  <1>4. CASE IndentsBy(a, b)
    BY <1>1, <1>2, <1>4 DEF IndentsBy, Letter
  <1>5. CASE DelimitsBy(a, b)
    <2>1. r.name = "delimiter"
      BY <1>1, <1>2, <1>5 DEF DelimitsBy, Letter
    <2> QED  BY <1>5, <2>1 DEF DelimitsBy, Changed, Take
  <1>6. CASE FlagsBy(a, b)
    BY <1>1, <1>2, <1>6 DEF FlagsBy, Letter
  <1>7. CASE CodeBy(a, b)
    <2>1. (b = "c" /\ r.name = "conditional") \/ (b = "e" /\ r.name = "evaluate")
      <3>1. b = Letter[r.name]
        BY <1>1, <1>7 DEF CodeBy
      <3> QED  BY <1>2, <1>7, <3>1 DEF CodeBy, Letter
    <2> QED  BY <1>7, <2>1 DEF CodeBy, Changed, Take
  <1> QED  BY <1>3, <1>4, <1>5, <1>6, <1>7

LEMMA ReadsOperand ==
    ASSUME OptionTurn, NEW r, r.name = "operand", IsPlain(r.spelled), Word = r.spelled, options \in OptionSet
    PROVE  words' = words /\ next' = next + 1 /\ options' = Changed(options, r)
  <1>1. ASSUME NEW w \in Named PROVE w # Word
    <2>1. w # <<>> /\ w[1] \in {"-", "--"}
      BY DEF Named
    <2> QED  BY <2>1 DEF IsPlain
  <1>2. /\ <<"--">> \in Named /\ \A c \in VALID_OPTIONS : <<"-", c>> \in Named
        /\ \A c \in Long : <<"--", c>> \in Named
    BY DEF Named, Long
  <1>3. ~Indentation
    BY <1>1, <1>2 DEF Indentation, VALID_OPTIONS
  <1>4. ~Delimiter
    BY <1>1, <1>2 DEF Delimiter, VALID_OPTIONS, Long
  <1>5. ~Flag
    BY <1>1, <1>2 DEF Flag, VALID_OPTIONS, Long
  <1>6. ~Code
    BY <1>1, <1>2 DEF Code, IsCode, VALID_OPTIONS
  <1>7. ~Rest
    BY <1>1, <1>2 DEF Rest
  <1>8. Operand
    BY <1>3, <1>4, <1>5, <1>6, <1>7 DEF OptionTurn
  <1>9. options' = [options EXCEPT !.args = Append(options.args, r.spelled)]
    BY <1>8 DEF Operand, OptionSet
  <1> QED  BY <1>8, <1>9 DEF Operand, Take, Changed

LEMMA ReadsRest ==
    ASSUME OptionTurn, NEW r, r.name = "rest", Word = <<"--">>, options \in OptionSet,
           SubSeq(words, next + 1, Len(words)) = r.spelled
    PROVE  words' = words /\ next' = Len(words) + 1 /\ options' = Changed(options, r)
  <1>1. Len(<<"--">>) = 1 /\ \A c, d : Len(<<c, d>>) = 2
    OBVIOUS
  <1>2. \A c, d : Word # <<c, d>>
    BY <1>1
  <1>3. ~Indentation /\ ~Delimiter
    BY <1>2 DEF Indentation, Delimiter
  <1>4. ~Flag /\ ~Code
    BY <1>2 DEF Flag, Code, IsCode
  <1>5. ~Operand
    BY DEF Operand, Named
  <1>6. Rest
    BY <1>3, <1>4, <1>5 DEF OptionTurn
  <1>7. options' = [options EXCEPT !.args = options.args \o r.spelled]
    BY <1>6 DEF Rest, OptionSet
  <1> QED  BY <1>6, <1>7 DEF Rest, Changed

---------------------------------------------------------------------------
(* The options are what the requests ask for. *)

\* The words of the first k requests are read, and completing the options now
\* would give what they ask for.
HasRead(x, style, k, ws, n, opts) ==
    /\ IsSpelled(x, style)
    /\ ws = FlattenSeq(AskedWords(x.requests, style))
    /\ n = Len(WordsTo(x.requests, style, k)) + 1
    /\ Completed(opts) = Meanings(x.requests)[k]

MeaningInv ==
    execution.requests # Undefined =>
      /\ pc \in {"start", "load", "main"} => next = 1 /\ options = NoOptions
      /\ pc = "options" =>
           \E style \in Styles : \E k \in 0..Len(execution.requests) :
               HasRead(execution, style, k, words, next, options)
      /\ HasOptions => options = Meaning(execution.requests)

\* How the words of a request lie among the others.
LiesAt(x, style, k, ws, n, asked) ==
    /\ n \in Nat \ {0} /\ Len(asked) \in Nat \ {0} /\ n + Len(asked) <= Len(ws) + 1
    /\ \A i \in 1..Len(asked) : ws[n + i - 1] = asked[i]
    /\ n + Len(asked) = Len(WordsTo(x.requests, style, k + 1)) + 1
    /\ k + 1 = Len(x.requests) => n + Len(asked) = Len(ws) + 1
    /\ ws \in Seq(Words) /\ asked \in Seq(Words)

LEMMA WordsBetween ==
    ASSUME NEW x, NEW style \in Styles, IsSpelled(x, style), NEW k \in 0..(Len(x.requests) - 1), NEW ws,
           ws = FlattenSeq(AskedWords(x.requests, style)), NEW n, n = Len(WordsTo(x.requests, style, k)) + 1
    PROVE  LiesAt(x, style, k, ws, n, WordsAsked(x.requests[k + 1], style))
  <1> DEFINE rs == x.requests
             m == Len(rs)
             seqs == AskedWords(rs, style)
             q == k + 1
             asked == WordsAsked(rs[q], style)
             a == FlattenSeq(SubSeq(seqs, 1, k))
             b == FlattenSeq(SubSeq(seqs, q, Len(seqs)))
             aa == FlattenSeq(SubSeq(seqs, 1, q))
             bb == FlattenSeq(SubSeq(seqs, q + 1, Len(seqs)))
  <1>1. m \in Nat /\ \A i \in 1..m : CanBeSpelled(rs[i], style)
    BY DEF IsSpelled
  <1>2. k \in Nat /\ q \in 1..m /\ k \in 0..m /\ q \in 0..m /\ k < m
    BY <1>1
  <1>3. seqs \in Seq(Seq(Words)) /\ Len(seqs) = m /\ \A i \in 1..m : seqs[i] = WordsAsked(rs[i], style)
    <2> HIDE DEF rs
    <2> QED  BY <1>1, AskedTyped
  <1>4. asked \in Seq(Words) /\ asked # <<>>
    <2> DEFINE r == rs[q]
    <2>1. CanBeSpelled(r, style)
      BY <1>1, <1>2
    <2> HIDE DEF r
    <2>2. WordsAsked(r, style) \in Seq(Words) /\ WordsAsked(r, style) # <<>>
      BY <2>1, AskedIsWords
    <2> QED  BY <2>2 DEF r
  <1>5. n = Len(a) + 1 /\ aa = WordsTo(rs, style, q) /\ ws = FlattenSeq(seqs) /\ seqs[q] = asked
    BY <1>2, <1>3 DEF WordsTo
  <1> SUFFICES /\ n \in Nat \ {0} /\ Len(asked) \in Nat \ {0} /\ n + Len(asked) <= Len(ws) + 1
               /\ \A i \in 1..Len(asked) : ws[n + i - 1] = asked[i]
               /\ n + Len(asked) = Len(aa) + 1
               /\ q = m => n + Len(asked) = Len(ws) + 1
               /\ ws \in Seq(Words) /\ asked \in Seq(Words)
    BY <1>5 DEF LiesAt
  <1> HIDE DEF rs, m, seqs, q, asked, a, b, aa, bb, Words
  <1>6. Splits(Words, seqs, k) /\ Splits(Words, seqs, q)
    BY <1>2, <1>3, FlattenSplits
  <1>7. /\ a \in Seq(Words) /\ aa \in Seq(Words) /\ bb \in Seq(Words)
        /\ ws = aa \o bb /\ aa = a \o asked
    BY <1>2, <1>3, <1>5, <1>6 DEF Splits, a, aa, bb, q
  <1> DEFINE la == Len(a)
             lw == Len(asked)
             lb == Len(bb)
  <1>8. la \in Nat /\ lw \in Nat \ {0} /\ lb \in Nat
    BY <1>4, <1>7
  <1>9. Len(aa) = la + lw /\ \A i \in 1..(la + lw) : aa[i] = IF i <= la THEN a[i] ELSE asked[i - la]
    BY <1>4, <1>7, ConcatProperties
  <1>10. /\ Len(ws) = (la + lw) + lb /\ ws \in Seq(Words)
         /\ \A i \in 1..((la + lw) + lb) : ws[i] = IF i <= la + lw THEN aa[i] ELSE bb[i - (la + lw)]
    <2>1. Len(aa) = la + lw
      BY <1>9
    <2>2. \A i \in 1..(Len(aa) + lb) : (aa \o bb)[i] = IF i <= Len(aa) THEN aa[i] ELSE bb[i - Len(aa)]
      BY <1>7, ConcatProperties
    <2>3. Len(aa \o bb) = Len(aa) + lb /\ aa \o bb \in Seq(Words)
      BY <1>7, ConcatProperties
    <2> HIDE DEF la, lw, lb
    <2> QED  BY <1>7, <2>1, <2>2, <2>3
  <1>11. n = la + 1
    BY <1>5
  <1>12. q = m => lb = 0
    <2> SUFFICES ASSUME q = m PROVE bb = <<>>
      OBVIOUS
    <2>1. q + 1 \in Int /\ Len(seqs) \in Int /\ Len(seqs) < q + 1
      BY <1>1, <1>2, <1>3
    <2>2. SubSeq(seqs, q + 1, Len(seqs)) = <<>>
      BY <2>1, SubSeqEmpty
    <2> QED  BY <2>2, FlattenNone DEF bb
  <1> HIDE DEF la, lw, lb
  <1>13. \A i \in 1..lw : ws[n + i - 1] = asked[i]
    <2> TAKE i \in 1..lw
    <2> DEFINE p == n + i - 1
    <2>1. p \in 1..(la + lw) /\ p \in 1..((la + lw) + lb) /\ p <= la + lw /\ ~(p <= la) /\ p - la = i
      BY <1>8, <1>11
    <2> HIDE DEF p
    <2>2. ws[p] = asked[i]
      BY <1>9, <1>10, <2>1
    <2> QED  BY <2>2 DEF p
  <1>14. n \in Nat \ {0} /\ n + lw <= Len(ws) + 1 /\ n + lw = Len(aa) + 1 /\ (q = m => n + lw = Len(ws) + 1)
    <2>1. Len(aa) = la + lw /\ Len(ws) = (la + lw) + lb
      BY <1>9, <1>10
    <2> QED  BY <1>8, <1>11, <1>12, <2>1
  <1> QED  BY <1>4, <1>8, <1>10, <1>13, <1>14 DEF lw

\* A turn reads the words of one request, and changes the options as it asks.
LEMMA TurnReadsRequest ==
    ASSUME words \in Seq(Words), options \in OptionSet, OptionTurn,
           NEW r, NEW style \in Styles, CanBeSpelled(r, style),
           NEW asked, asked = WordsAsked(r, style), asked \in Seq(Words), Len(asked) \in Nat \ {0},
           next \in Nat \ {0}, next + Len(asked) <= Len(words) + 1,
           \A i \in 1..Len(asked) : words[next + i - 1] = asked[i],
           r.name = "rest" => next + Len(asked) = Len(words) + 1
    PROVE  words' = words /\ next' = next + Len(asked) /\ options' = Changed(options, r)
  <1>1. TypedIs(r) /\ IsTyped(r)
    BY ValueOfTyped DEF CanBeSpelled
  <1>2. Word = asked[1]
    <2>1. 1 \in 1..Len(asked) /\ next + 1 - 1 = next
      OBVIOUS
    <2>2. words[next + 1 - 1] = asked[1]
      BY <2>1
    <2> QED  BY <2>1, <2>2 DEF Word
  <1>3. Len(words) \in Nat
    <2> HIDE DEF Words
    <2> QED  OBVIOUS
  <1>4. CASE r.name = "operand"
    <2>1. asked = <<r.spelled>>
      BY <1>4 DEF WordsAsked
    <2>2. Len(asked) = 1 /\ asked[1] = r.spelled
      BY <2>1
    <2>3. IsPlain(r.spelled)
      BY <1>1, <1>4, Letters DEF IsTyped, OptionNames
    <2>4. words' = words /\ next' = next + 1 /\ options' = Changed(options, r)
      BY <1>2, <1>4, <2>2, <2>3, ReadsOperand
    <2> QED  BY <2>2, <2>4
  <1>5. CASE r.name = "rest"
    <2> DEFINE dashes == <<"--">>
               one == <<dashes>>
               v == r.spelled
               n == Len(v)
               S == Words \cup {dashes}
               t == SubSeq(words, next + 1, Len(words))
    <2>1. asked = one \o v /\ v \in Seq(Words) /\ n \in Nat
      <3>1. v \in Seq(Words)
        BY <1>1, <1>5 DEF TypedIs
      <3>2. n \in Nat
        <4> HIDE DEF Words
        <4> QED  BY <3>1
      <3> QED  BY <1>5, <3>1, <3>2 DEF WordsAsked
    <2> HIDE DEF Words
    <2>2. one \in Seq(S) /\ Len(one) = 1 /\ one[1] = dashes
      OBVIOUS
    <2>3. v \in Seq(S)
      BY <2>1
    <2> HIDE DEF one, S, v, n, dashes
    <2>4. Len(asked) = 1 + n /\ \A i \in 1..(1 + n) : asked[i] = IF i <= 1 THEN one[i] ELSE v[i - 1]
      <3>1. \A i \in 1..(Len(one) + Len(v)) : (one \o v)[i] = IF i <= Len(one) THEN one[i] ELSE v[i - Len(one)]
        BY <2>2, <2>3, ConcatProperties
      <3>2. Len(one \o v) = Len(one) + Len(v)
        BY <2>2, <2>3, ConcatProperties
      <3> QED  BY <2>1, <2>2, <3>1, <3>2 DEF n
    <2>5. asked[1] = dashes
      <3>1. 1 \in 1..(1 + n)
        BY <2>1
      <3> QED  BY <2>2, <2>4, <3>1
    <2>6. next + (1 + n) = Len(words) + 1
      BY <1>5, <2>4
    <2>7. t = v
      <3>1. \A i \in (next + 1)..Len(words) : words[i] \in Words
        OBVIOUS
      <3>2. /\ t \in Seq(Words) /\ Len(t) = Len(words) - (next + 1) + 1
            /\ \A i \in 1..(Len(words) - (next + 1) + 1) : t[i] = words[(next + 1) + i - 1]
        BY <1>3, <2>1, <2>6, <3>1, SubSeqProperties
      <3>3. Len(words) - (next + 1) + 1 = n
        BY <1>3, <2>1, <2>6
      <3> HIDE DEF t
      <3>4. ASSUME NEW i \in 1..n PROVE t[i] = v[i]
        <4> DEFINE j == i + 1
        <4>1. j \in 1..Len(asked) /\ j \in 1..(1 + n) /\ ~(j <= 1) /\ j - 1 = i /\ next + j - 1 = (next + 1) + i - 1
          BY <2>1, <2>4
        <4>2. t[i] = words[(next + 1) + i - 1]
          BY <3>2, <3>3
        <4> HIDE DEF j
        <4>3. words[next + j - 1] = asked[j] /\ asked[j] = v[i]
          BY <2>4, <4>1
        <4> QED  BY <4>1, <4>2, <4>3
      <3>5. Len(t) = n /\ Len(v) = n
        BY <3>2, <3>3 DEF n
      <3> QED  BY <2>1, <3>2, <3>4, <3>5, SeqEqual
    <2>8. words' = words /\ next' = Len(words) + 1 /\ options' = Changed(options, r)
      BY <1>2, <1>5, <2>5, <2>7, ReadsRest DEF dashes, t, v
    <2> QED  BY <2>4, <2>6, <2>8
  <1>6. CASE r.name \in OptionNames /\ ~TakesValue(r.name)
    <2>1. asked = <<OptionWord(r, style)>>
      BY <1>6 DEF WordsAsked, OptionNames
    <2> DEFINE w == OptionWord(r, style)
    <2>2. Len(asked) = 1 /\ asked[1] = w
      <3> HIDE DEF w
      <3> QED  BY <2>1 DEF w
    <2>3. words' = words /\ next' = next + 1 /\ options' = Changed(options, r)
      BY <1>2, <1>6, <2>2, ReadsFlag
    <2> QED  BY <2>2, <2>3
  <1>7. CASE r.name \in OptionNames /\ TakesValue(r.name)
    <2> DEFINE w == OptionWord(r, style)
               v == r.spelled
    <2>1. asked = <<w, v>>
      BY <1>7 DEF WordsAsked, OptionNames
    <2>2. Len(asked) = 2 /\ asked[1] = w /\ asked[2] = v
      <3> HIDE DEF w, v
      <3> QED  BY <2>1
    <2>3. Value = v
      <3>1. 2 \in 1..Len(asked) /\ next + 2 - 1 = next + 1 /\ next < Len(words)
        BY <1>3, <2>2
      <3>2. words[next + 2 - 1] = asked[2]
        BY <3>1
      <3> QED  BY <2>2, <3>1, <3>2 DEF Value
    <2>4. words' = words /\ next' = next + 2 /\ options' = Changed(options, r)
      BY <1>2, <1>7, <2>2, <2>3, ReadsValue
    <2> QED  BY <2>2, <2>4
  <1> QED  BY <1>1, <1>4, <1>5, <1>6, <1>7 DEF TypedIs

\* After the last request the words are read.
LEMMA AllAreRead ==
    ASSUME NEW x, NEW style \in Styles, NEW k \in 0..Len(x.requests), NEW ws, NEW n, NEW opts,
           HasRead(x, style, k, ws, n, opts)
    PROVE  /\ k = Len(x.requests) => n = Len(ws) + 1
           /\ n > Len(ws) => k = Len(x.requests)
           /\ Len(x.requests) \in Nat /\ Len(ws) \in Nat
  <1> DEFINE rs == x.requests
             m == Len(rs)
             seqs == AskedWords(rs, style)
  <1>1. m \in Nat /\ (\A i \in 1..m : CanBeSpelled(rs[i], style)) /\ IsSpelled(x, style)
    BY DEF HasRead, IsSpelled
  <1>2. seqs \in Seq(Seq(Words)) /\ Len(seqs) = m
    <2> HIDE DEF rs
    <2> QED  BY <1>1, AskedTyped
  <1>3. n = Len(FlattenSeq(SubSeq(seqs, 1, k))) + 1 /\ ws = FlattenSeq(seqs)
    BY DEF HasRead, WordsTo
  <1>4. SubSeq(seqs, 1, m) = seqs
    <2> HIDE DEF seqs, Words, m
    <2> QED  BY <1>2, SubSeqFull
  <1>5. Len(ws) \in Nat
    <2> HIDE DEF seqs
    <2>1. ws \in Seq(Words)
      BY <1>2, <1>3, FlattenIsSeq DEF Words
    <2> HIDE DEF Words
    <2> QED  BY <2>1
  <1>6. ASSUME k # m PROVE ~(n > Len(ws))
    <2> DEFINE asked == WordsAsked(rs[k + 1], style)
               l == Len(asked)
    <2>1. k \in 0..(Len(x.requests) - 1)
      BY <1>1, <1>6
    <2>2. n = Len(WordsTo(x.requests, style, k)) + 1 /\ ws = FlattenSeq(AskedWords(x.requests, style))
      BY DEF HasRead
    <2>3. n \in Nat \ {0} /\ l \in Nat \ {0} /\ n + l <= Len(ws) + 1
      BY <1>1, <2>1, <2>2, WordsBetween DEF LiesAt
    <2> HIDE DEF l
    <2> QED  BY <1>5, <2>3
  <1> HIDE DEF seqs
  <1> QED  BY <1>1, <1>3, <1>4, <1>5, <1>6

LEMMA TurnKeepsMeaning ==
    ASSUME words \in Seq(Words), options \in OptionSet, OptionTurn, next <= Len(words),
           NEW x, NEW style \in Styles, NEW k \in 0..Len(x.requests),
           HasRead(x, style, k, words, next, options)
    PROVE  k + 1 \in 0..Len(x.requests) /\ HasRead(x, style, k + 1, words', next', options')
  <1> DEFINE rs == x.requests
             m == Len(rs)
             q == k + 1
             r == rs[q]
             asked == WordsAsked(r, style)
             opts == Meanings(rs)
  <1>1. IsSpelled(x, style) /\ m \in Nat /\ \A i \in 1..m : CanBeSpelled(rs[i], style)
    BY DEF HasRead, IsSpelled
  <1>2. /\ words = FlattenSeq(AskedWords(rs, style)) /\ next = Len(WordsTo(rs, style, k)) + 1
        /\ Completed(options) = opts[k]
    BY DEF HasRead
  <1>3. k # m
    <2>1. (k = m => next = Len(words) + 1) /\ Len(words) \in Nat
      BY AllAreRead
    <2> QED  BY <2>1
  <1>4. q \in 1..m /\ k \in 0..(m - 1) /\ q - 1 = k
    BY <1>1, <1>3
  <1>5. CanBeSpelled(r, style) /\ (q # m => r.name # "rest")
    BY <1>1, <1>4 DEF IsSpelled
  <1>6. /\ next \in Nat \ {0} /\ Len(asked) \in Nat \ {0} /\ next + Len(asked) <= Len(words) + 1
        /\ \A i \in 1..Len(asked) : words[next + i - 1] = asked[i]
        /\ next + Len(asked) = Len(WordsTo(rs, style, q)) + 1
        /\ q = m => next + Len(asked) = Len(words) + 1
        /\ asked \in Seq(Words)
    <2>1. LiesAt(x, style, k, words, next, WordsAsked(x.requests[k + 1], style))
      BY <1>1, <1>2, <1>4, WordsBetween
    <2> QED  BY <2>1 DEF LiesAt
  <1>7. words' = words /\ next' = next + Len(asked) /\ options' = Changed(options, r)
    <2> HIDE DEF r, asked, Words, q, m
    <2>1. asked = WordsAsked(r, style)
      BY DEF asked
    <2>2. r.name = "rest" => next + Len(asked) = Len(words) + 1
      BY <1>5, <1>6
    <2> QED  BY <1>5, <1>6, <2>1, <2>2, TurnReadsRequest
  <1>8. Completed(Changed(options, r)) = opts[q]
    <2>1. \A i \in 1..m : TypedIs(rs[i])
      BY <1>1, ValueOfTyped DEF CanBeSpelled
    <2>2. opts[q] = Applied(opts[q - 1], r)
      <3> HIDE DEF rs, q
      <3>1. \A p \in 1..Len(rs) : Meanings(rs)[p] = Applied(Meanings(rs)[p - 1], rs[p])
        BY <1>1, <2>1, MeaningsGrow
      <3> QED  BY <1>4, <3>1
    <2>3. TypedIs(r)
      BY <1>4, <2>1
    <2> HIDE DEF r, opts, q
    <2>4. Completed(Changed(options, r)) = Applied(Completed(options), r)
      BY <2>3, ChangedIsApplied
    <2> QED  BY <1>2, <1>4, <2>2, <2>4
  <1>9. HasRead(x, style, q, words', next', options')
    <2>1. Completed(options') = opts[q]
      <3> HIDE DEF opts, q, r
      <3> QED  BY <1>7, <1>8
    <2>2. next' = Len(WordsTo(rs, style, q)) + 1
      BY <1>6, <1>7
    <2> QED  BY <1>1, <1>2, <1>7, <2>1, <2>2 DEF HasRead
  <1> QED  BY <1>4, <1>9

LEMMA MeaningBegins ==
    ASSUME NEW x, NEW style \in Styles, IsSpelled(x, style)
    PROVE  0 \in 0..Len(x.requests) /\ HasRead(x, style, 0, AllWords(x.argv), 1, NoOptions)
  <1> DEFINE rs == x.requests
             m == Len(rs)
             seqs == AskedWords(rs, style)
  <1>1. m \in Nat /\ \A i \in 1..m : CanBeSpelled(rs[i], style)
    BY DEF IsSpelled
  <1>2. AllWords(x.argv) = FlattenSeq(seqs)
    BY SpelledWords
  <1>3. seqs \in Seq(Seq(Words)) /\ Len(seqs) = m
    <2> HIDE DEF rs
    <2> QED  BY <1>1, AskedTyped
  <1>4. WordsTo(rs, style, 0) = <<>>
    <2>1. Splits(Words, seqs, 0)
      <3> HIDE DEF seqs, m
      <3>1. 0 \in 0..Len(seqs)
        BY <1>1, <1>3
      <3> QED  BY <1>3, <3>1, FlattenSplits DEF Words
    <2> QED  BY <2>1 DEF Splits, WordsTo
  <1>5. Completed(NoOptions) = Meanings(rs)[0]
    <2>1. \A i \in 1..m : TypedIs(rs[i])
      BY <1>1, ValueOfTyped DEF CanBeSpelled
    <2> HIDE DEF rs
    <2> QED  BY <1>1, <2>1, MeaningsGrow, NothingCompleted
  <1>6. 1 = Len(WordsTo(rs, style, 0)) + 1
    BY <1>4
  <1>7. HasRead(x, style, 0, AllWords(x.argv), 1, NoOptions)
    BY <1>2, <1>5, <1>6 DEF HasRead
  <1> QED  BY <1>1, <1>7

LEMMA MeaningInit == Init => MeaningInv
  BY DEF Init, MeaningInv, HasOptions

\* What the other actions leave as it is.
LEMMA MeaningStays ==
    ASSUME MeaningInv, execution' = execution, options' = options, next' = next,
           \/ pc \in {"start", "load"} /\ pc' \in {"load", "main"}
           \/ HasOptions /\ HasOptions'
           \/ pc' = "ended"
           \/ pc' = pc /\ words' = words
    PROVE  MeaningInv'
  <1> SUFFICES ASSUME execution.requests # Undefined PROVE MeaningInv'
    BY DEF MeaningInv
  <1>1. CASE pc \in {"start", "load"} /\ pc' \in {"load", "main"}
    BY <1>1 DEF MeaningInv, HasOptions
  <1>2. CASE HasOptions /\ HasOptions'
    BY <1>2 DEF MeaningInv, HasOptions
  <1>3. CASE pc' = "ended"
    BY <1>3 DEF MeaningInv, HasOptions
  <1>4. CASE pc' = pc /\ words' = words
    BY <1>4 DEF MeaningInv, HasOptions
  <1> QED  BY <1>1, <1>2, <1>3, <1>4

LEMMA MeaningStarts ==
    ASSUME RequestsSpelled, ProgramInv, MeaningInv, CallJrqMain PROVE MeaningInv'
  <1>1. CASE execution.script = "without"
    BY <1>1, MeaningStays DEF CallJrqMain, Dies, Ends, argumentVars
  <1>2. CASE execution.script # "without"
    <2>1. /\ pc' = "options" /\ execution' = execution /\ options' = options /\ next' = next
          /\ words' = AllWords(execution.argv) /\ pc = "main"
      BY <1>2 DEF CallJrqMain, Goes, AllWords, WordsOfEach
    <2> SUFFICES ASSUME execution.requests # Undefined
                 PROVE  \E style \in Styles : \E k \in 0..Len(execution.requests) :
                            HasRead(execution, style, k, words', next', options')
      BY <2>1 DEF MeaningInv, HasOptions
    <2>2. next = 1 /\ options = NoOptions
      BY <2>1 DEF MeaningInv
    <2>3. PICK style \in Styles : IsSpelled(execution, style)
      BY DEF RequestsSpelled, ProgramInv, ProgramTyped
    <2>4. /\ 0 \in 0..Len(execution.requests)
          /\ HasRead(execution, style, 0, AllWords(execution.argv), 1, NoOptions)
      BY <2>3, MeaningBegins
    <2> QED  BY <2>1, <2>2, <2>4
  <1> QED  BY <1>1, <1>2

LEMMA MeaningGoesOn ==
    ASSUME ProgramInv, MeaningInv, ReadOption PROVE MeaningInv'
  <1>1. /\ pc = "options" /\ pc' = "options" /\ execution' = execution /\ OptionTurn /\ next <= Len(words)
        /\ words \in Seq(Words) /\ options \in OptionSet
    BY DEF ReadOption, processVars, ProgramInv, ProgramTyped
  <1> SUFFICES ASSUME execution.requests # Undefined
               PROVE  \E style \in Styles : \E k \in 0..Len(execution.requests) :
                          HasRead(execution, style, k, words', next', options')
    BY <1>1 DEF MeaningInv, HasOptions
  <1>2. PICK style \in Styles : \E k \in 0..Len(execution.requests) :
            HasRead(execution, style, k, words, next, options)
    BY <1>1 DEF MeaningInv
  <1>3. PICK k \in 0..Len(execution.requests) : HasRead(execution, style, k, words, next, options)
    BY <1>2
  <1>4. k + 1 \in 0..Len(execution.requests) /\ HasRead(execution, style, k + 1, words', next', options')
    BY <1>1, <1>3, TurnKeepsMeaning
  <1> QED  BY <1>4

LEMMA MeaningIsComplete ==
    ASSUME ProgramInv, MeaningInv, StartTurns PROVE MeaningInv'
  <1>1. /\ pc = "options" /\ pc' \in {"help", "read"} /\ execution' = execution /\ options' = Completed(options)
        /\ next > Len(words)
    BY DEF StartTurns
  <1> SUFFICES ASSUME execution.requests # Undefined PROVE Completed(options) = Meaning(execution.requests)
    BY <1>1 DEF MeaningInv, HasOptions
  <1>2. PICK style \in Styles : \E k \in 0..Len(execution.requests) :
            HasRead(execution, style, k, words, next, options)
    BY <1>1 DEF MeaningInv
  <1>3. PICK k \in 0..Len(execution.requests) : HasRead(execution, style, k, words, next, options)
    BY <1>2
  <1>4. k = Len(execution.requests)
    BY <1>1, <1>3, AllAreRead
  <1> QED  BY <1>3, <1>4 DEF HasRead, Meaning

LEMMA MeaningNext ==
    ASSUME RequestsSpelled, ProgramInv, MeaningInv, [Next]_vars PROVE MeaningInv'
  <1>1. CASE CreateHeap
    <2>1. execution' = execution /\ options' = options /\ next' = next
      BY <1>1 DEF CreateHeap, Goes, Dies, Ends, argumentVars
    <2>2. (pc = "start" /\ pc' = "load") \/ pc' = "ended"
      BY <1>1 DEF CreateHeap, Goes, Dies, Ends
    <2> QED  BY <2>1, <2>2, MeaningStays
  <1>2. CASE Load
    <2>1. execution' = execution /\ options' = options /\ next' = next
      BY <1>2 DEF Load, Goes, Dies, Ends, argumentVars
    <2>2. (pc = "load" /\ pc' = "main") \/ pc' = "ended"
      BY <1>2 DEF Load, Goes, Dies, Ends
    <2> QED  BY <2>1, <2>2, MeaningStays
  <1>3. CASE CallJrqMain
    BY <1>3, MeaningStarts
  <1>4. CASE ReadOption
    BY <1>4, MeaningGoesOn
  <1>5. CASE StartTurns
    BY <1>5, MeaningIsComplete
  <1>6. CASE RefuseCode \/ ReadFails \/ ParseThrows \/ FinishHelp \/ WriteFails \/ WriteNothing
    <2>1. execution' = execution /\ options' = options /\ next' = next /\ pc' = "ended"
      BY <1>6 DEF RefuseCode, ReadFails, ParseThrows, FinishHelp, WriteFails, WriteNothing, Throws, Dies, Ends,
                  argumentVars
    <2> QED  BY <2>1, MeaningStays
  <1>7. CASE ReadPiece \/ WriteAll \/ WriteShort
    <2>1. execution' = execution /\ options' = options /\ next' = next /\ words' = words /\ pc' = pc
      BY <1>7 DEF ReadPiece, WriteAll, WriteShort, Written, argumentVars
    <2> QED  BY <2>1, MeaningStays
  <1>8. CASE FinishParse
    <2>1. execution' = execution /\ options' = options /\ next' = next /\ HasOptions /\ HasOptions'
      BY <1>8 DEF FinishParse, argumentVars, HasOptions
    <2> QED  BY <2>1, MeaningStays
  <1>9. CASE FinishTurn
    <2>1. execution' = execution /\ options' = options /\ next' = next
      BY <1>9 DEF FinishTurn, Ends, argumentVars
    <2>2. (HasOptions /\ HasOptions') \/ pc' = "ended"
      BY <1>9 DEF FinishTurn, Ends, HasOptions
    <2> QED  BY <2>1, <2>2, MeaningStays
  <1>10. CASE Ended \/ UNCHANGED vars
    <2>1. execution' = execution /\ options' = options /\ next' = next /\ words' = words /\ pc' = pc
      BY <1>10 DEF Ended, vars, processVars, argumentVars
    <2> QED  BY <2>1, MeaningStays
  <1> QED  BY <1>1, <1>2, <1>3, <1>4, <1>5, <1>6, <1>7, <1>8, <1>9, <1>10 DEF Next

\* However the requests of a command line are spelled, and however many there are:
\* the options are what the requests ask for, one after another (jrq.js:36-136).
\* The hypothesis says that each execution's command line spells its requests;
\* TLC finds it true of every command line that the run starts with.
THEOREM MeansWhatItSpellsAlways ==
    ASSUME RequestsSpelled PROVE Spec => []MeansWhatItSpells
  <1>1. Init => MeaningInv
    BY MeaningInit
  <1>2. ProgramInv /\ MeaningInv /\ [Next]_vars => MeaningInv'
    BY MeaningNext
  <1>3. MeaningInv => MeansWhatItSpells
    BY DEF MeaningInv, MeansWhatItSpells
  <1> QED  BY <1>1, <1>2, <1>3, InvAlways, PTL DEF Spec
=============================================================================
