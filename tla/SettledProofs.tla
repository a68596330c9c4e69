--------------------------- MODULE SettledProofs ---------------------------
(***************************************************************************)
(* Between complete documents nothing is left of the last one, in innerMain *)
(* or in any hydrater, however the emissions were nested.                  *)
(*                                                                         *)
(* The invariant compares what has been handled with where the script is:  *)
(* the depth and the length of every stack are those of the script, less   *)
(* what an emission in progress has still to bring about.  An emission     *)
(* waits while its first handler runs the nested parser, and the events of *)
(* that parser reach every handler before the one that waits does.  pop()  *)
(* of an empty stack changes nothing, so a stack could come to be too long *)
(* by a pop that is too early; no script of a complete document has one,   *)
(* for the container of a parser ends before that parser returns.          *)
(*                                                                         *)
(* keyStack then is not only as long as it should be: it holds the keys of *)
(* the containers the script is in.  A container is found again among      *)
(* those by the number of parsers called before it, so an emission that    *)
(* waits can tell which key it has still to push.                          *)
(*                                                                         *)
(* The hydraters that are still registered leave a result alone until it   *)
(* is written, when the request is of a kind that lets them: there is no   *)
(* hydrater at all, or a document waits when nothing is left to be         *)
(* handled, or what is met while an element waits is its announcement, its *)
(* end and the value that has it written, in this order.  What is printed  *)
(* of a value does not depend on the objects that are made meanwhile, as   *)
(* an object only refers to later ones.                                    *)
(***************************************************************************)
EXTENDS JrqProofs, KeyPath, Recursion

ScriptsBracketed ==
    \A s \in Sessions : \A i \in 1..Len(s.parses) : Bracketed(s.parses[i])

Trail(script) ==
    CHOOSE levels \in [0..(Len(script) + 1) -> Levels] : IsTrail(levels, script)

Level == Trail(Script)[at - 1]

\* The containers announced or started and not yet ended; a nested one counts
\* twice, for its own parser starts it again.
Depth(level) ==
    2 * (level.parsers - 1)
    + (IF level.where = "outside" THEN 0 ELSE IF level.where = "inside" THEN 1 ELSE 2)

\* Those with a key.
KeyDepth(level) == level.parsers - (IF level.where \in {"announced", "nested"} THEN 0 ELSE 1)

Shift(item)    == IF Starts(item) THEN 1 ELSE IF Ends(item) THEN -1 ELSE 0
KeyShift(item) == IF Keyed(item) THEN Shift(item) ELSE 0

\* p[i] and e[i] count the parsers and the emissions among the first i frames.
\* A parser emits or calls a parser; the first handler of an announcement calls
\* a hydrater, which calls a parser.
Stacked(frames, p, e) ==
    /\ p[0] = 0 /\ e[0] = 0
    /\ \A i \in 0..Len(frames) : p[i] \in Nat /\ e[i] \in Nat /\ e[i] <= p[i]
    /\ \A i \in 1..Len(frames) :
         \/ /\ frames[i].call = "parse"
            /\ i = 1 \/ frames[i - 1].call \in {"parse", "create"}
            /\ p[i] = p[i - 1] + 1 /\ e[i] = e[i - 1] /\ e[i] < p[i]
         \/ /\ frames[i].call = "create"
            /\ i = 1 \/ frames[i - 1].call = "emit"
            /\ p[i] = p[i - 1] /\ e[i] = e[i - 1]
         \/ /\ frames[i].call = "emit"
            /\ i > 1 /\ frames[i - 1].call = "parse"
            /\ p[i] = p[i - 1] /\ e[i] = e[i - 1] + 1
    /\ \A i \in 1..(Len(frames) - 1) :
         frames[i].call = "emit" =>
             frames[i].handler = 1 /\ Starts(frames[i].event) /\ Keyed(frames[i].event)

\* The frames can be counted, up to parsers and emissions in the first n.
Counted(frames, n, parsers, emissions) ==
    \E p, e : Stacked(frames, p, e) /\ p[n] = parsers /\ e[n] = emissions

\* The innermost call is an emission that has not come to the h-th handler.
Owes(h) == Running("emit") /\ Current.handler <= h

Owed(h)     == IF Owes(h) THEN KeyShift(Current.event) ELSE 0
OwedDepth   == IF Owes(1) THEN Shift(Current.event) ELSE 0
Waiting(e)  == e[Len(calls)] - (IF Running("emit") THEN 1 ELSE 0)

\* innerMain hydrates what the arguments select before it pushes its key.
Unpushed(e) == IF session.args = <<>> THEN 0 ELSE Waiting(e)

InScript(p) ==
    /\ at - 1 \in 0..(Len(Script) + 1)
    /\ p[Len(calls)] = Level.parsers
    /\ Running("create") => Level.where = "nested"
    /\ Owes(1) /\ Starts(Current.event) =>
         Level.where = IF Keyed(Current.event) THEN "announced" ELSE "inside"

Handling(e) ==
    /\ objectDepth = Depth(Level) - 1 - OwedDepth
    /\ Len(keyStack) <= KeyDepth(Level) - Unpushed(e) - Owed(1)
    /\ \A h \in 1..Len(hydraters) :
         Len(hydraters[h].stack) <= KeyDepth(Level) - Waiting(e) - Owed(h + 1)

Progress(p, e) == Stacked(calls, p, e) /\ InScript(p) /\ Handling(e)

SettledInv ==
    /\ JrqInv
    /\ Settled
    /\ main = "loop" => at = 1
    /\ main = "parsing" => \E p, e : Progress(p, e)

---------------------------------------------------------------------------
(* The script. *)

\* What an item changes.
LEMMA Moves ==
    ASSUME NEW from \in Levels, NEW to \in Levels, NEW item, Takes(from, item, to)
    PROVE  /\ Depth(to) = Depth(from) + Shift(item)
           /\ KeyDepth(to) = KeyDepth(from) + KeyShift(item)
           /\ item = Call => to.parsers = from.parsers + 1
           /\ item = Return => to.parsers = from.parsers - 1 /\ to.where = "nested"
           /\ item.event \notin {"call", "return"} => to.parsers = from.parsers
           /\ Starts(item) => to.where = IF Keyed(item) THEN "announced" ELSE "inside"
           /\ from.where = "announced" => item = Call
<1>1. /\ from = [parsers |-> from.parsers, where |-> from.where] /\ from.parsers \in Nat
      /\ from.where \in {"outside", "inside", "announced", "nested"}
      /\ to.parsers \in Nat
  BY DEF Levels
<1>2. /\ Call.event = "call" /\ Return.event = "return"
      /\ ~Starts(Call) /\ ~Ends(Call) /\ ~Starts(Return) /\ ~Ends(Return)
  BY DEF Call, Return, Starts, Ends
<1>3. CASE Starts(item) /\ ~Keyed(item) /\ from.where = "outside" /\ to = [from EXCEPT !.where = "inside"]
  BY <1>1, <1>2, <1>3 DEF Depth, KeyDepth, Shift, KeyShift, Starts
<1>4. CASE Starts(item) /\ Keyed(item) /\ from.where = "inside" /\ to = [from EXCEPT !.where = "announced"]
  BY <1>1, <1>2, <1>4 DEF Depth, KeyDepth, Shift, KeyShift, Starts
<1>5. CASE Ends(item) /\ Keyed(item) /\ from.where = "nested" /\ to = [from EXCEPT !.where = "inside"]
  BY <1>1, <1>2, <1>5 DEF Depth, KeyDepth, Shift, KeyShift, Starts, Ends
<1>6. CASE Ends(item) /\ ~Keyed(item) /\ from.where = "inside" /\ to = [from EXCEPT !.where = "outside"]
  BY <1>1, <1>2, <1>6 DEF Depth, KeyDepth, Shift, KeyShift, Starts, Ends
<1>7. CASE item.event \in {"foundKey", "foundValue"} /\ from.where # "announced" /\ to = from
  BY <1>1, <1>2, <1>7 DEF Depth, KeyDepth, Shift, KeyShift, Starts, Ends
<1>8. CASE /\ item = Call /\ from.where = "announced"
           /\ to = [parsers |-> from.parsers + 1, where |-> "outside"]
  BY <1>1, <1>2, <1>8 DEF Depth, KeyDepth, Shift, KeyShift
<1>9. CASE /\ item = Return /\ from.where = "outside"
           /\ to = [parsers |-> from.parsers - 1, where |-> "nested"]
  BY <1>1, <1>2, <1>9 DEF Depth, KeyDepth, Shift, KeyShift
<1> QED
  BY <1>3, <1>4, <1>5, <1>6, <1>7, <1>8, <1>9 DEF Takes

LEMMA ScriptTrail ==
    ASSUME ScriptsBracketed, JrqInv
    PROVE  /\ Script \in Seq(Items) /\ Len(Script) \in Nat
           /\ Trail(Script) \in [0..(Len(Script) + 1) -> Levels]
           /\ IsTrail(Trail(Script), Script)
<1>1. session \in Sessions /\ count \in 1..Len(session.parses)
  BY DEF JrqInv, ControlOK
<1>2. Script \in Seq(Items)
  BY <1>1, SessionsAreRequests DEF Script
<1>3. Bracketed(Script)
  BY <1>1 DEF ScriptsBracketed, Script
<1>4. \E levels \in [0..(Len(Script) + 1) -> Levels] : IsTrail(levels, Script)
  BY <1>3 DEF Bracketed
<1>5. Trail(Script) \in [0..(Len(Script) + 1) -> Levels] /\ IsTrail(Trail(Script), Script)
  BY <1>4, Zenon DEF Trail
<1> QED
  BY <1>2, <1>5

\* The next item of a parser that has not returned.
LEMMA NextLevel ==
    ASSUME ScriptsBracketed, JrqInv, at - 1 \in 0..(Len(Script) + 1), Level.parsers > 0
    PROVE  /\ at \in 0..(Len(Script) + 1) /\ Level \in Levels
           /\ Trail(Script)[at] \in Levels /\ Takes(Level, Item, Trail(Script)[at])
<1>1. /\ Len(Script) \in Nat /\ Trail(Script) \in [0..(Len(Script) + 1) -> Levels]
      /\ IsTrail(Trail(Script), Script) /\ at \in Nat /\ at > 0
  BY ScriptTrail DEF JrqInv, ControlOK
<1> DEFINE i == at - 1
<1>2. at = i + 1 /\ i \in 0..(Len(Script) + 1) /\ Level = Trail(Script)[i]
  BY <1>1 DEF Level
<1>3. Item = IF i = Len(Script) THEN Return ELSE IF i < Len(Script) THEN Script[i + 1] ELSE Return
  BY <1>1, <1>2 DEF Item
<1> HIDE DEF i
<1>4. i # Len(Script) + 1
  BY <1>1, <1>2 DEF IsTrail
<1>5. i \in 0..Len(Script)
  BY <1>1, <1>2, <1>4
<1>6. Takes(Trail(Script)[i], IF i = Len(Script) THEN Return ELSE Script[i + 1], Trail(Script)[i + 1])
  BY <1>1, <1>5 DEF IsTrail
<1>7. Item = IF i = Len(Script) THEN Return ELSE Script[i + 1]
  BY <1>1, <1>3, <1>5
<1>8. at \in 0..(Len(Script) + 1)
  BY <1>1, <1>2, <1>5
<1> QED
  BY <1>1, <1>2, <1>6, <1>7, <1>8

\* Where the script is when every parser has returned.
LEMMA LastLevel ==
    ASSUME ScriptsBracketed, JrqInv, at - 1 \in 0..(Len(Script) + 1), Level.parsers = 0
    PROVE  Depth(Level) = 0 /\ KeyDepth(Level) = 0
<1>1. /\ Len(Script) \in Nat /\ Trail(Script) \in [0..(Len(Script) + 1) -> Levels]
      /\ IsTrail(Trail(Script), Script) /\ at \in Nat /\ at > 0
  BY ScriptTrail DEF JrqInv, ControlOK
<1>2. at - 1 \notin 0..Len(Script)
  BY <1>1 DEF IsTrail, Level
<1>3. at - 1 = Len(Script) + 1
  BY <1>1, <1>2
<1>4. Takes(Trail(Script)[Len(Script)], Return, Level)
  <2>1. Len(Script) \in 0..Len(Script)
    BY <1>1
  <2> QED
    BY <1>1, <1>3, <2>1 DEF IsTrail, Level
<1>5. Trail(Script)[Len(Script)] \in Levels /\ Level \in Levels
  BY <1>1, <1>3 DEF Level
<1>6. Level.where = "nested"
  BY <1>4, <1>5, Moves
<1>7. \A level \in Levels : level.parsers = 0 /\ level.where = "nested" => Depth(level) = 0 /\ KeyDepth(level) = 0
  <2> TAKE level \in Levels
  <2> HAVE level.parsers = 0 /\ level.where = "nested"
  <2>1. Depth(level) = 2 * (0 - 1) + 2
    BY Zenon DEF Depth
  <2>2. KeyDepth(level) = 0 - 0
    BY DEF KeyDepth
  <2>3. 2 * (0 - 1) + 2 = 0
    OBVIOUS
  <2> QED
    BY <2>1, <2>2, <2>3
<1> QED
  BY <1>5, <1>6, <1>7

---------------------------------------------------------------------------
(* The calls. *)

\* Of the frames only the event and the handler of the last may change.
LEMMA StackShrinks ==
    ASSUME NEW s, NEW t, NEW p, NEW e, Stacked(s, p, e),
           Len(s) \in Nat, Len(t) \in Nat, Len(t) <= Len(s),
           \A i \in 1..Len(t) : t[i].call = s[i].call,
           \A i \in 1..(Len(t) - 1) : t[i] = s[i]
    PROVE  Stacked(t, p, e)
<1> DEFINE n == Len(t)
           m == Len(s)
<1>1. n \in Nat /\ m \in Nat /\ n <= m
  OBVIOUS
<1>2. \A i \in 0..n : p[i] \in Nat /\ e[i] \in Nat /\ e[i] <= p[i]
  BY DEF Stacked
<1>3. \A i \in 1..n : t[i].call = s[i].call /\ (i = 1 \/ t[i - 1].call = s[i - 1].call)
  OBVIOUS
<1>4. \A i \in 1..n :
         \/ /\ s[i].call = "parse"
            /\ i = 1 \/ s[i - 1].call \in {"parse", "create"}
            /\ p[i] = p[i - 1] + 1 /\ e[i] = e[i - 1] /\ e[i] < p[i]
         \/ /\ s[i].call = "create"
            /\ i = 1 \/ s[i - 1].call = "emit"
            /\ p[i] = p[i - 1] /\ e[i] = e[i - 1]
         \/ /\ s[i].call = "emit"
            /\ i > 1 /\ s[i - 1].call = "parse"
            /\ p[i] = p[i - 1] /\ e[i] = e[i - 1] + 1
  BY <1>1 DEF Stacked
<1>5. \A i \in 1..(n - 1) :
         t[i].call = "emit" => t[i].handler = 1 /\ Starts(t[i].event) /\ Keyed(t[i].event)
  BY <1>1 DEF Stacked
<1>6. \A i \in 1..n :
         \/ /\ t[i].call = "parse"
            /\ i = 1 \/ t[i - 1].call \in {"parse", "create"}
            /\ p[i] = p[i - 1] + 1 /\ e[i] = e[i - 1] /\ e[i] < p[i]
         \/ /\ t[i].call = "create"
            /\ i = 1 \/ t[i - 1].call = "emit"
            /\ p[i] = p[i - 1] /\ e[i] = e[i - 1]
         \/ /\ t[i].call = "emit"
            /\ i > 1 /\ t[i - 1].call = "parse"
            /\ p[i] = p[i - 1] /\ e[i] = e[i - 1] + 1
  BY <1>3, <1>4
<1> QED
  BY <1>2, <1>5, <1>6 DEF Stacked

LEMMA StackTop ==
    ASSUME NEW s, NEW p, NEW e, Stacked(s, p, e), NEW n \in Nat, Len(s) = n
    PROVE  /\ p[n] \in Nat /\ e[n] \in Nat /\ e[n] <= p[n]
           /\ n = 0 => p[n] = 0 /\ e[n] = 0
           /\ n > 0 =>
                \/ s[n].call = "parse" /\ e[n] < p[n] /\ (n = 1 \/ s[n - 1].call \in {"parse", "create"})
                   /\ p[n - 1] = p[n] - 1 /\ e[n - 1] = e[n]
                \/ s[n].call = "create" /\ (n = 1 \/ s[n - 1].call = "emit")
                   /\ p[n - 1] = p[n] /\ e[n - 1] = e[n]
                \/ s[n].call = "emit" /\ e[n] > 0 /\ n > 1 /\ s[n - 1].call = "parse"
                   /\ p[n - 1] = p[n] /\ e[n - 1] = e[n] - 1
           /\ n > 1 /\ s[n - 1].call = "emit" =>
                s[n - 1].handler = 1 /\ Starts(s[n - 1].event) /\ Keyed(s[n - 1].event)
<1>1. p[n] \in Nat /\ e[n] \in Nat /\ e[n] <= p[n] /\ (n = 0 => p[n] = 0 /\ e[n] = 0)
  BY DEF Stacked
<1>2. n > 0 => n \in 1..n /\ n - 1 \in 0..n /\ p[n - 1] \in Nat /\ e[n - 1] \in Nat
  BY DEF Stacked
<1>3. n > 0 =>
         \/ /\ s[n].call = "parse"
            /\ n = 1 \/ s[n - 1].call \in {"parse", "create"}
            /\ p[n] = p[n - 1] + 1 /\ e[n] = e[n - 1] /\ e[n] < p[n]
         \/ /\ s[n].call = "create"
            /\ n = 1 \/ s[n - 1].call = "emit"
            /\ p[n] = p[n - 1] /\ e[n] = e[n - 1]
         \/ /\ s[n].call = "emit"
            /\ n > 1 /\ s[n - 1].call = "parse"
            /\ p[n] = p[n - 1] /\ e[n] = e[n - 1] + 1
  BY <1>2 DEF Stacked
<1>4. n > 1 => n - 1 \in 1..(n - 1)
  OBVIOUS
<1>5. n > 1 /\ s[n - 1].call = "emit" =>
         s[n - 1].handler = 1 /\ Starts(s[n - 1].event) /\ Keyed(s[n - 1].event)
  BY <1>4 DEF Stacked
<1>6. n > 0 =>
         /\ p[n] = p[n - 1] + 1 <=> p[n - 1] = p[n] - 1
         /\ e[n] = e[n - 1] + 1 => e[n] > 0 /\ e[n - 1] = e[n] - 1
  BY <1>1, <1>2, SMTT(30)
<1> QED
  BY <1>1, <1>3, <1>5, <1>6

LEMMA StackGrows ==
    ASSUME NEW s, NEW t, NEW p, NEW e, Stacked(s, p, e),
           NEW n \in Nat, Len(s) = n, Len(t) = n + 1, \A i \in 1..n : t[i] = s[i],
           n > 0 /\ s[n].call = "emit" => s[n].handler = 1 /\ Starts(s[n].event) /\ Keyed(s[n].event),
           \/ t[n + 1].call = "parse" /\ (n = 0 \/ s[n].call \in {"parse", "create"})
           \/ t[n + 1].call = "create" /\ (n = 0 \/ s[n].call = "emit")
           \/ t[n + 1].call = "emit" /\ n > 0 /\ s[n].call = "parse"
    PROVE  /\ t[n + 1].call = "parse"  => Counted(t, n + 1, p[n] + 1, e[n])
           /\ t[n + 1].call = "create" => Counted(t, n + 1, p[n], e[n])
           /\ t[n + 1].call = "emit"   => Counted(t, n + 1, p[n], e[n] + 1)
<1> DEFINE call == t[n + 1].call
           q == [i \in 0..(n + 1) |-> IF i <= n THEN p[i] ELSE IF call = "parse" THEN p[n] + 1 ELSE p[n]]
           d == [i \in 0..(n + 1) |-> IF i <= n THEN e[i] ELSE IF call = "emit" THEN e[n] + 1 ELSE e[n]]
<1>1. /\ \A i \in 0..n : q[i] = p[i] /\ d[i] = e[i]
      /\ q[n + 1] = IF call = "parse" THEN p[n] + 1 ELSE p[n]
      /\ d[n + 1] = IF call = "emit" THEN e[n] + 1 ELSE e[n]
  OBVIOUS
<1>2. /\ \A i \in 0..n : p[i] \in Nat /\ e[i] \in Nat /\ e[i] <= p[i]
      /\ p[0] = 0 /\ e[0] = 0
  BY DEF Stacked
<1>3. n > 0 /\ s[n].call = "parse" => e[n] < p[n]
  BY StackTop
<1> HIDE DEF q, d
<1>4. \A i \in 0..(n + 1) : q[i] \in Nat /\ d[i] \in Nat /\ d[i] <= q[i]
  <2>1. \A i \in 0..(n + 1) : i \in 0..n \/ i = n + 1
    OBVIOUS
  <2>2. q[n + 1] \in Nat /\ d[n + 1] \in Nat /\ d[n + 1] <= q[n + 1]
    BY <1>1, <1>2, <1>3
  <2> QED
    BY <1>1, <1>2, <2>1, <2>2
<1>5. \A i \in 1..(n + 1) :
         \/ /\ t[i].call = "parse"
            /\ i = 1 \/ t[i - 1].call \in {"parse", "create"}
            /\ q[i] = q[i - 1] + 1 /\ d[i] = d[i - 1] /\ d[i] < q[i]
         \/ /\ t[i].call = "create"
            /\ i = 1 \/ t[i - 1].call = "emit"
            /\ q[i] = q[i - 1] /\ d[i] = d[i - 1]
         \/ /\ t[i].call = "emit"
            /\ i > 1 /\ t[i - 1].call = "parse"
            /\ q[i] = q[i - 1] /\ d[i] = d[i - 1] + 1
  <2> TAKE i \in 1..(n + 1)
  <2>1. CASE i = n + 1
    <3>1. n = 0 \/ t[n] = s[n]
      OBVIOUS
    <3>2. i - 1 = n /\ q[n] = p[n] /\ d[n] = e[n]
      BY <2>1, <1>1
    <3>3. e[n] < p[n] + 1
      BY <1>2
    <3> QED
      BY <2>1, <3>1, <3>2, <3>3, <1>1
  <2>2. CASE i \in 1..n
    <3>1. i - 1 \in 0..n /\ (i = 1 \/ i - 1 \in 1..n)
      BY <2>2
    <3>2. q[i] = p[i] /\ d[i] = e[i] /\ q[i - 1] = p[i - 1] /\ d[i - 1] = e[i - 1]
      BY <2>2, <3>1, <1>1
    <3>3. t[i] = s[i] /\ (i = 1 \/ t[i - 1] = s[i - 1])
      BY <2>2, <3>1
    <3> QED
      BY <2>2, <3>2, <3>3 DEF Stacked
  <2> QED
    BY <2>1, <2>2
<1>6. \A i \in 1..n :
         t[i].call = "emit" => t[i].handler = 1 /\ Starts(t[i].event) /\ Keyed(t[i].event)
  <2> SUFFICES ASSUME NEW i \in 1..n, s[i].call = "emit"
               PROVE  s[i].handler = 1 /\ Starts(s[i].event) /\ Keyed(s[i].event)
    OBVIOUS
  <2>1. CASE i = n
    BY <2>1
  <2>2. CASE i # n
    <3>1. i \in 1..(n - 1)
      BY <2>2
    <3> QED
      BY <3>1 DEF Stacked
  <2> QED
    BY <2>1, <2>2
<1>7. q[0] = 0 /\ d[0] = 0
  BY <1>1, <1>2
<1>8. Stacked(t, q, d)
  BY <1>4, <1>5, <1>6, <1>7 DEF Stacked
<1>9. Counted(t, n + 1, q[n + 1], d[n + 1])
  BY <1>8 DEF Counted
<1> QED
  BY <1>1, <1>9

---------------------------------------------------------------------------
(* What is there in every state. *)

LEMMA Lengths ==
    ASSUME JrqInv
    PROVE  /\ Len(calls) \in Nat /\ Len(keyStack) \in Nat /\ objectDepth \in Int
           /\ Len(hydraters) \in Nat
           /\ \A h \in 1..Len(hydraters) : Len(hydraters[h].stack) \in Nat
           /\ calls = <<>> <=> Len(calls) = 0
<1>1. /\ calls \in Seq(Frames) /\ keyStack \in Seq(Keys) /\ objectDepth \in Int
      /\ hydraters \in Seq(Hydrater)
  BY DEF JrqInv, ControlOK, SelectionOK, HeapInv
<1>2. \A h \in 1..Len(hydraters) : hydraters[h].stack \in Seq(Objects)
  <2> TAKE h \in 1..Len(hydraters)
  <2>1. hydraters[h] \in Hydrater
    BY <1>1
  <2> QED
    BY <2>1 DEF Hydrater
<1> QED
  BY <1>1, <1>2

LEMMA DepthBounds ==
    ASSUME NEW level \in Levels
    PROVE  /\ Depth(level) \in Int /\ KeyDepth(level) \in Int
           /\ KeyDepth(level) >= level.parsers - 1
           /\ level.where = "nested" => KeyDepth(level) = level.parsers
BY DEF Levels, Depth, KeyDepth

LEMMA ShiftType ==
    ASSUME NEW item
    PROVE  Shift(item) \in -1..1 /\ KeyShift(item) \in -1..1
BY DEF Shift, KeyShift

\* No more emissions wait than containers with a key are open.
LEMMA Room ==
    ASSUME ScriptsBracketed, JrqInv, NEW p, NEW e, Stacked(calls, p, e), InScript(p)
    PROVE  /\ Level \in Levels /\ Depth(Level) \in Int /\ KeyDepth(Level) \in Int
           /\ Waiting(e) \in Int /\ Unpushed(e) \in Int
           /\ Waiting(e) <= KeyDepth(Level) /\ Unpushed(e) <= KeyDepth(Level)
<1> DEFINE n == Len(calls)
<1>1. n \in Nat /\ (calls = <<>> <=> n = 0)
  BY Lengths
<1>2. Level \in Levels
  <2>1. Trail(Script) \in [0..(Len(Script) + 1) -> Levels]
    BY ScriptTrail
  <2> QED
    BY <2>1 DEF InScript, Level
<1>3. /\ Depth(Level) \in Int /\ KeyDepth(Level) \in Int /\ Level.parsers \in Nat
      /\ KeyDepth(Level) >= Level.parsers - 1
      /\ Level.where = "nested" => KeyDepth(Level) = Level.parsers
  BY <1>2, DepthBounds DEF Levels
<1>4. /\ p[n] \in Nat /\ e[n] \in Nat /\ e[n] <= p[n] /\ p[n] = Level.parsers
      /\ n = 0 => p[n] = 0 /\ e[n] = 0
      /\ n > 0 => \/ calls[n].call = "parse" /\ e[n] < p[n]
                  \/ calls[n].call = "create"
                  \/ calls[n].call = "emit"
  BY <1>1, StackTop DEF InScript
<1>5. Waiting(e) = e[n] - (IF Running("emit") THEN 1 ELSE 0)
  BY DEF Waiting
<1>6. CASE n = 0
  <2>1. KeyDepth(Level) = 0
    BY <1>4, <1>6, LastLevel DEF InScript
  <2>2. ~Running("emit")
    BY <1>1, <1>6 DEF Running
  <2>3. Waiting(e) = 0
    BY <1>4, <1>5, <1>6, <2>2
  <2> QED
    BY <1>2, <1>3, <2>1, <2>3 DEF Unpushed
<1>7. CASE n > 0
  <2>1. \A call : Running(call) <=> calls[n].call = call
    BY <1>1, <1>7 DEF Running
  <2>2. Running("create") => KeyDepth(Level) = p[n]
    BY <1>3, <1>4 DEF InScript
  <2> HIDE DEF n
  <2>3. Waiting(e) \in Int /\ Waiting(e) <= KeyDepth(Level)
    <3>1. CASE Running("emit")
      BY <1>3, <1>4, <1>5, <3>1
    <3>2. CASE ~Running("emit")
      BY <1>3, <1>4, <1>5, <1>7, <2>1, <2>2, <3>2
    <3> QED
      BY <3>1, <3>2
  <2>4. 0 <= KeyDepth(Level)
    <3>1. CASE calls[n].call = "emit"
      <4>1. e[n] > 0
        BY <1>1, <1>7, <3>1, StackTop DEF n
      <4> QED
        BY <1>3, <1>4, <4>1
    <3>2. CASE calls[n].call = "parse"
      BY <1>3, <1>4, <1>7, <3>2
    <3>3. CASE calls[n].call = "create"
      BY <1>4, <2>1, <2>2, <3>3
    <3> QED
      BY <1>4, <1>7, <3>1, <3>2, <3>3
  <2> QED
    BY <1>2, <1>3, <2>3, <2>4 DEF Unpushed
<1> QED
  BY <1>1, <1>6, <1>7

\* No emission is the innermost call.
LEMMA Resting ==
    ASSUME ~Running("emit"), NEW e, e[Len(calls)] \in Int
    PROVE  /\ OwedDepth = 0 /\ (\A h : Owed(h) = 0) /\ Waiting(e) = e[Len(calls)]
           /\ ~(Owes(1) /\ Starts(Current.event))
<1>1. \A h : ~Owes(h)
  BY DEF Owes
<1>2. e[Len(calls)] - 0 = e[Len(calls)]
  OBVIOUS
<1> QED
  BY <1>1, <1>2 DEF OwedDepth, Owed, Waiting

---------------------------------------------------------------------------
(* The actions. *)

LEMMA EmitsInOrder ==
    ASSUME ScriptsBracketed, JrqInv, NEW p, NEW e, Progress(p, e), ParserEmits
    PROVE  \E q, d : Progress(q, d)'
<1> DEFINE n == Len(calls)
           f == Emitting(Item)
<1>1. /\ n \in Nat /\ n > 0 /\ calls[n].call = "parse" /\ calls \in Seq(Frames)
      /\ calls' = Append(calls, f) /\ at' = at + 1 /\ Item.event \notin {"call", "return"}
      /\ UNCHANGED <<session, count, main, keyStack, objectDepth, hydraters>>
  BY Lengths DEF ParserEmits, Running, selectionVars, createVars, JrqInv, ControlOK
<1>2. /\ Stacked(calls, p, e) /\ at - 1 \in 0..(Len(Script) + 1) /\ p[n] = Level.parsers
      /\ objectDepth = Depth(Level) - 1 - OwedDepth
      /\ Len(keyStack) <= KeyDepth(Level) - Unpushed(e) - Owed(1)
      /\ \A h \in 1..Len(hydraters) :
           Len(hydraters[h].stack) <= KeyDepth(Level) - Waiting(e) - Owed(h + 1)
  BY DEF Progress, InScript, Handling
<1>3. ~Running("emit") /\ Running("parse")
  BY <1>1 DEF Running
<1>4. OwedDepth = 0 /\ (\A h : Owed(h) = 0) /\ Waiting(e) = e[n]
  BY <1>1, <1>2, <1>3, StackTop, Resting
<1>5. p[n] \in Nat /\ e[n] \in Nat /\ p[n] > 0
  BY <1>1, <1>2, StackTop
<1>6. /\ at \in 0..(Len(Script) + 1) /\ Level \in Levels
      /\ Trail(Script)[at] \in Levels /\ Takes(Level, Item, Trail(Script)[at])
  BY <1>2, <1>5, NextLevel
<1>7. Script' = Script /\ at' - 1 = at /\ Level' = Trail(Script)[at] /\ at \in Nat
  BY <1>1 DEF Script, Level, JrqInv, ControlOK
<1>8. /\ Depth(Level') = Depth(Level) + Shift(Item)
      /\ KeyDepth(Level') = KeyDepth(Level) + KeyShift(Item)
      /\ Level'.parsers = Level.parsers
      /\ Starts(Item) => Level'.where = IF Keyed(Item) THEN "announced" ELSE "inside"
  BY <1>1, <1>6, <1>7, Moves
<1>9. f.call = "emit" /\ f.event = Item /\ f.handler = 1
  BY DEF Emitting
<1> HIDE DEF f
<1>10. Len(calls') = n + 1 /\ (\A i \in 1..n : calls'[i] = calls[i]) /\ calls'[n + 1] = f
  BY <1>1
<1>11. PICK q, d : /\ Stacked(calls', q, d)
                   /\ q[n + 1] = p[n] /\ d[n + 1] = e[n] + 1
  <2>1. Len(calls) = n /\ calls[n].call # "emit"
    BY <1>1
  <2>2. calls'[n + 1].call = "emit"
    BY <1>9, <1>10
  <2> HIDE DEF n
  <2>3. Counted(calls', n + 1, p[n], e[n] + 1)
    BY <1>1, <1>2, <1>10, <2>1, <2>2, StackGrows
  <2> QED
    BY <2>3 DEF Counted
<1>12. Running("emit")' /\ ~Running("create")' /\ Current' = f
  BY <1>1, <1>9, <1>10 DEF Running, Current
<1>13. /\ OwedDepth' = Shift(Item) /\ Waiting(d)' = e[n]
       /\ Unpushed(d)' = Unpushed(e)
       /\ Owed(1)' = KeyShift(Item)
       /\ \A h \in 1..Len(hydraters) : Owed(h + 1)' = KeyShift(Item)
  <2>1. Owes(1)' /\ \A h \in 1..Len(hydraters) : Owes(h + 1)'
    BY <1>1, <1>9, <1>12, Lengths DEF Owes
  <2>2. Waiting(d)' = e[n]
    BY <1>1, <1>5, <1>10, <1>11, <1>12 DEF Waiting
  <2>3. Unpushed(d)' = Unpushed(e)
    BY <1>1, <1>4, <2>2 DEF Unpushed
  <2> QED
    BY <1>9, <1>12, <2>1, <2>2, <2>3 DEF OwedDepth, Owed
<1>14. Stacked(calls, q, d)'
  BY <1>11
<1>15. InScript(q)'
  <2>1. (at - 1)' \in 0..(Len(Script') + 1)
    BY <1>6, <1>7
  <2>2. q[Len(calls')] = Level'.parsers
    BY <1>2, <1>8, <1>10, <1>11
  <2> QED
    BY <1>8, <1>9, <1>12, <2>1, <2>2 DEF InScript
<1>16. Handling(d)'
  <2>1. /\ Depth(Level) \in Int /\ KeyDepth(Level) \in Int /\ Unpushed(e) \in Int
        /\ Shift(Item) \in Int /\ KeyShift(Item) \in Int
    BY <1>2, Room, ShiftType DEF Progress
  <2>2. objectDepth' = Depth(Level') - 1 - OwedDepth'
    BY <1>1, <1>2, <1>4, <1>8, <1>13, <2>1
  <2>3. Len(keyStack') <= KeyDepth(Level') - Unpushed(d)' - Owed(1)'
    BY <1>1, <1>2, <1>4, <1>8, <1>13, <2>1, Lengths
  <2>4. \A h \in 1..Len(hydraters') :
           Len(hydraters'[h].stack) <= KeyDepth(Level') - Waiting(d)' - Owed(h + 1)'
    <3> SUFFICES ASSUME NEW h \in 1..Len(hydraters)
                 PROVE  Len(hydraters[h].stack) <= KeyDepth(Level') - Waiting(d)' - Owed(h + 1)'
      BY <1>1
    <3> DEFINE size == Len(hydraters[h].stack)
               k == KeyDepth(Level)
               s == KeyShift(Item)
               w == e[n]
    <3>1. size \in Int /\ k \in Int /\ s \in Int /\ w \in Int
      BY <1>5, <2>1, Lengths
    <3>2. size <= k - w - 0
      BY <1>2, <1>4
    <3>3. KeyDepth(Level') = k + s /\ Waiting(d)' = w /\ Owed(h + 1)' = s
      BY <1>8, <1>13
    <3> HIDE DEF size, k, s, w
    <3>4. size <= (k + s) - w - s
      BY <3>1, <3>2
    <3> QED
      BY <3>3, <3>4 DEF size
  <2> QED
    BY <2>2, <2>3, <2>4 DEF Handling
<1> QED
  BY <1>14, <1>15, <1>16 DEF Progress

\* The innermost call is no emission before or after the step.
LEMMA NothingHandled ==
    ASSUME ScriptsBracketed, JrqInv, NEW p, NEW e, Progress(p, e), ~Running("emit"),
           NEW q, NEW d, Stacked(calls', q, d), InScript(q)', ~Running("emit")', Len(calls') \in Nat,
           d[Len(calls')] = e[Len(calls)],
           Depth(Level') = Depth(Level), KeyDepth(Level') = KeyDepth(Level),
           UNCHANGED <<session, keyStack, objectDepth, hydraters>>
    PROVE  Progress(q, d)'
<1>1. /\ Stacked(calls, p, e)
      /\ objectDepth = Depth(Level) - 1 - OwedDepth
      /\ Len(keyStack) <= KeyDepth(Level) - Unpushed(e) - Owed(1)
      /\ \A h \in 1..Len(hydraters) :
           Len(hydraters[h].stack) <= KeyDepth(Level) - Waiting(e) - Owed(h + 1)
  BY DEF Progress, Handling
<1>2. e[Len(calls)] \in Int
  BY <1>1, Lengths, StackTop
<1>3. OwedDepth = 0 /\ (\A h : Owed(h) = 0) /\ Waiting(e) = e[Len(calls)]
  BY <1>2, Resting
<1>4. \A h : ~Owes(h)'
  BY DEF Owes
<1>5. OwedDepth' = 0 /\ (\A h : Owed(h)' = 0) /\ Waiting(d)' = Waiting(e)
  <2>1. d[Len(calls')] - 0 = e[Len(calls)]
    BY <1>2
  <2> QED
    BY <1>3, <1>4, <2>1 DEF OwedDepth, Owed, Waiting
<1>6. Unpushed(d)' = Unpushed(e)
  BY <1>5 DEF Unpushed
<1>7. Handling(d)'
  BY <1>1, <1>3, <1>5, <1>6 DEF Handling
<1> QED
  BY <1>7 DEF Progress

LEMMA CallsInOrder ==
    ASSUME ScriptsBracketed, JrqInv, NEW p, NEW e, Progress(p, e), ParserCalls
    PROVE  \E q, d : Progress(q, d)'
<1> DEFINE n == Len(calls)
<1>1. /\ n \in Nat /\ n > 0 /\ calls[n].call = "parse" /\ calls \in Seq(Frames)
      /\ calls' = Append(calls, Parsing) /\ at' = at + 1 /\ Item = Call
      /\ UNCHANGED <<session, count, keyStack, objectDepth, hydraters>>
  BY Lengths DEF ParserCalls, Running, selectionVars, createVars, JrqInv, ControlOK
<1>2. /\ Stacked(calls, p, e) /\ at - 1 \in 0..(Len(Script) + 1) /\ p[n] = Level.parsers
  BY DEF Progress, InScript
<1>3. ~Running("emit")
  BY <1>1 DEF Running
<1>4. p[n] \in Nat /\ e[n] \in Nat /\ p[n] > 0
  BY <1>1, <1>2, StackTop
<1>5. /\ at \in 0..(Len(Script) + 1) /\ Level \in Levels
      /\ Trail(Script)[at] \in Levels /\ Takes(Level, Item, Trail(Script)[at])
  BY <1>2, <1>4, NextLevel
<1>6. Script' = Script /\ at' - 1 = at /\ Level' = Trail(Script)[at]
  BY <1>1 DEF Script, Level, JrqInv, ControlOK
<1>7. /\ Depth(Level') = Depth(Level) /\ KeyDepth(Level') = KeyDepth(Level)
      /\ Level'.parsers = Level.parsers + 1
  <2>1. Shift(Call) = 0 /\ KeyShift(Call) = 0
    BY DEF Shift, KeyShift, Starts, Ends, Call
  <2>2. Depth(Level) \in Int /\ KeyDepth(Level) \in Int
    BY <1>5, DepthBounds
  <2> QED
    BY <1>1, <1>5, <1>6, <2>1, <2>2, Moves
<1>8. Parsing.call = "parse"
  BY DEF Parsing
<1>9. Len(calls') = n + 1 /\ (\A i \in 1..n : calls'[i] = calls[i]) /\ calls'[n + 1] = Parsing
  BY <1>1
<1>10. PICK q, d : /\ Stacked(calls', q, d)
                   /\ q[n + 1] = p[n] + 1 /\ d[n + 1] = e[n]
  <2>1. Len(calls) = n /\ calls[n].call # "emit" /\ calls'[n + 1].call = "parse"
    BY <1>1, <1>8, <1>9
  <2> HIDE DEF n
  <2>2. Counted(calls', n + 1, p[n] + 1, e[n])
    BY <1>1, <1>2, <1>9, <2>1, StackGrows
  <2> QED
    BY <2>2 DEF Counted
<1>11. ~Running("emit")' /\ ~Running("create")'
  BY <1>1, <1>8, <1>9 DEF Running
<1>12. InScript(q)'
  <2>1. (at - 1)' \in 0..(Len(Script') + 1)
    BY <1>5, <1>6
  <2>2. q[Len(calls')] = Level'.parsers
    BY <1>2, <1>7, <1>9, <1>10
  <2> QED
    BY <1>11, <2>1, <2>2 DEF InScript, Owes
<1>13. Len(calls') \in Nat /\ d[Len(calls')] = e[Len(calls)]
  BY <1>1, <1>9, <1>10
<1> QED
  BY <1>1, <1>3, <1>7, <1>10, <1>11, <1>12, <1>13, NothingHandled

LEMMA ReturnsInOrder ==
    ASSUME ScriptsBracketed, JrqInv, NEW p, NEW e, Progress(p, e), ParserReturns
    PROVE  Progress(p, e)'
<1> DEFINE n == Len(calls)
<1>1. /\ n \in Nat /\ n > 0 /\ calls[n].call = "parse"
      /\ calls' = Callers /\ at' = at + 1 /\ Item = Return
      /\ UNCHANGED <<session, count, keyStack, objectDepth, hydraters>>
  BY Lengths DEF ParserReturns, Running, selectionVars, createVars
<1>2. /\ Stacked(calls, p, e) /\ at - 1 \in 0..(Len(Script) + 1) /\ p[n] = Level.parsers
  BY DEF Progress, InScript
<1>3. ~Running("emit")
  BY <1>1 DEF Running
<1>4. /\ p[n] \in Nat /\ e[n] \in Nat /\ p[n] > 0
      /\ p[n - 1] = p[n] - 1 /\ e[n - 1] = e[n]
      /\ n = 1 \/ calls[n - 1].call \in {"parse", "create"}
  <2>1. Len(calls) = n
    OBVIOUS
  <2> HIDE DEF n
  <2> QED
    BY <1>1, <1>2, <2>1, StackTop
<1>5. /\ at \in 0..(Len(Script) + 1) /\ Level \in Levels
      /\ Trail(Script)[at] \in Levels /\ Takes(Level, Item, Trail(Script)[at])
  BY <1>2, <1>4, NextLevel
<1>6. Script' = Script /\ at' - 1 = at /\ Level' = Trail(Script)[at]
  BY <1>1 DEF Script, Level, JrqInv, ControlOK
<1>7. /\ Depth(Level') = Depth(Level) /\ KeyDepth(Level') = KeyDepth(Level)
      /\ Level'.parsers = Level.parsers - 1 /\ Level'.where = "nested"
  <2>1. Shift(Return) = 0 /\ KeyShift(Return) = 0
    BY DEF Shift, KeyShift, Starts, Ends, Return
  <2>2. Depth(Level) \in Int /\ KeyDepth(Level) \in Int
    BY <1>5, DepthBounds
  <2> QED
    BY <1>1, <1>5, <1>6, <2>1, <2>2, Moves
<1>8. Len(calls') = n - 1 /\ (\A i \in 1..(n - 1) : calls'[i] = calls[i])
  BY <1>1, CurrentFrame
<1>9. Stacked(calls', p, e)
  <2>1. n - 1 \in Nat /\ n - 1 <= n
    BY <1>1
  <2>2. Stacked(calls, p, e) /\ Len(calls) \in Nat /\ Len(calls) = n
    BY <1>1, <1>2
  <2> HIDE DEF n
  <2> QED
    BY <1>8, <2>1, <2>2, StackShrinks
<1>10. ~Running("emit")'
  <2>1. n - 1 \in 1..(n - 1) => calls'[n - 1] = calls[n - 1]
    BY <1>8
  <2>2. calls' # <<>> => n # 1
    BY <1>8, <1>1, CurrentFrame
  <2> QED
    BY <1>1, <1>4, <1>8, <2>1, <2>2 DEF Running
<1>11. InScript(p)'
  <2>1. (at - 1)' \in 0..(Len(Script') + 1)
    BY <1>5, <1>6
  <2>2. p[Len(calls')] = Level'.parsers
    BY <1>2, <1>4, <1>7, <1>8
  <2> QED
    BY <1>7, <1>10, <2>1, <2>2 DEF InScript, Owes
<1>12. Len(calls') \in Nat /\ e[Len(calls')] = e[Len(calls)]
  BY <1>1, <1>4, <1>8
<1> QED
  BY <1>1, <1>3, <1>7, <1>9, <1>10, <1>11, <1>12, NothingHandled

LEMMA EmissionEnds ==
    ASSUME ScriptsBracketed, JrqInv, NEW p, NEW e, Progress(p, e), EmitDone
    PROVE  Progress(p, e)'
<1> DEFINE n == Len(calls)
<1>1. /\ n \in Nat /\ n > 0 /\ calls[n].call = "emit" /\ Running("emit")
      /\ Current.handler > Handlers /\ calls' = Callers
      /\ UNCHANGED <<session, count, at, keyStack, objectDepth, hydraters>>
      /\ Len(hydraters) \in Nat
  BY Lengths DEF EmitDone, Running, selectionVars, createVars
<1>2. /\ Stacked(calls, p, e) /\ InScript(p)
      /\ objectDepth = Depth(Level) - 1 - OwedDepth
      /\ Len(keyStack) <= KeyDepth(Level) - Unpushed(e) - Owed(1)
      /\ \A h \in 1..Len(hydraters) :
           Len(hydraters[h].stack) <= KeyDepth(Level) - Waiting(e) - Owed(h + 1)
  BY DEF Progress, Handling
<1>3. /\ e[n] \in Nat /\ e[n] > 0 /\ e[n - 1] = e[n] - 1 /\ p[n - 1] = p[n]
      /\ n > 1 /\ calls[n - 1].call = "parse"
  <2>1. Len(calls) = n
    OBVIOUS
  <2> HIDE DEF n
  <2> QED
    BY <1>1, <1>2, <2>1, StackTop
<1>4. Len(calls') = n - 1 /\ (\A i \in 1..(n - 1) : calls'[i] = calls[i])
  BY <1>1, CurrentFrame
<1>5. Stacked(calls', p, e)
  <2>1. n - 1 \in Nat /\ n - 1 <= n
    BY <1>1
  <2>2. Stacked(calls, p, e) /\ Len(calls) \in Nat /\ Len(calls) = n
    BY <1>1, <1>2
  <2> HIDE DEF n
  <2> QED
    BY <1>4, <2>1, <2>2, StackShrinks
<1>6. ~Running("emit")' /\ ~Running("create")'
  <2>1. calls'[Len(calls')].call = "parse"
    BY <1>1, <1>3, <1>4
  <2> QED
    BY <2>1 DEF Running
<1>7. Level' = Level /\ Script' = Script
  BY <1>1 DEF Level, Script
<1>8. /\ OwedDepth = 0 /\ Owed(1) = 0 /\ \A h \in 1..Len(hydraters) : Owed(h + 1) = 0
  <2>1. Current.handler \in Int /\ Handlers = Len(hydraters) + 1
    BY <1>1, Emission DEF Handlers
  <2>2. ~Owes(1) /\ \A h \in 1..Len(hydraters) : ~Owes(h + 1)
    BY <1>1, <2>1 DEF Owes
  <2> QED
    BY <2>2 DEF OwedDepth, Owed
<1>9. OwedDepth' = 0 /\ (\A h : Owed(h)' = 0)
  BY <1>6 DEF OwedDepth, Owed, Owes
<1>10. Waiting(e)' = Waiting(e) /\ Unpushed(e)' = Unpushed(e)
  <2>1. Waiting(e)' = Waiting(e)
    BY <1>1, <1>3, <1>4, <1>6 DEF Waiting
  <2> QED
    BY <1>1, <2>1 DEF Unpushed
<1>11. InScript(p)'
  BY <1>1, <1>2, <1>3, <1>4, <1>6, <1>7 DEF InScript, Owes
<1>12. Handling(e)'
  BY <1>1, <1>2, <1>7, <1>8, <1>9, <1>10 DEF Handling
<1> QED
  BY <1>5, <1>11, <1>12 DEF Progress

\* The emission goes on to its next handler.
LEMMA GoesOn ==
    ASSUME JrqInv, NEW p, NEW e, Stacked(calls, p, e), Running("emit"), calls' = Handled(calls)
    PROVE  /\ Stacked(calls', p, e) /\ Len(calls') = Len(calls)
           /\ Running("emit")' /\ ~Running("create")'
           /\ Current'.event = Current.event /\ Current'.handler = Current.handler + 1
           /\ Waiting(e)' = Waiting(e)
           /\ \A i \in 1..Len(calls) : calls'[i].call = calls[i].call
           /\ \A i \in 1..(Len(calls) - 1) : calls'[i] = calls[i]
<1> DEFINE n == Len(calls)
           f == [Current EXCEPT !.handler = @ + 1]
<1>1. /\ n \in Nat /\ n > 0 /\ calls \in [1..n -> Frames] /\ Current.call = "emit"
      /\ Current = [call |-> "emit", event |-> Current.event, handler |-> Current.handler]
  BY CurrentFrame, Emission
<1>2. f = [call |-> "emit", event |-> Current.event, handler |-> Current.handler + 1]
  BY <1>1
<1>3. f = [calls[n] EXCEPT !.handler = @ + 1] /\ Handled(calls) = [calls EXCEPT ![n].handler = @ + 1]
  BY DEF Current, Handled
<1>4. calls[n].call = "emit" /\ f.call = "emit"
  BY <1>1, <1>2 DEF Current
<1>5. f.event = Current.event /\ f.handler = Current.handler + 1
  BY <1>2
<1> HIDE DEF f
<1>6. calls' = [calls EXCEPT ![n] = f]
  BY <1>3
<1>7. /\ calls' \in [1..n -> {calls[i] : i \in 1..n} \cup {f}]
      /\ \A i \in 1..n : calls'[i] = IF i = n THEN f ELSE calls[i]
  BY <1>1, <1>6
<1>8. Len(calls') = n
  <2>1. DOMAIN calls' = 1..n
    BY <1>7
  <2>2. calls' \in Seq({calls[i] : i \in 1..n} \cup {f})
    BY <1>1, <1>7
  <2> HIDE DEF n
  <2> QED
    BY <1>1, <2>1, <2>2
<1>9. \A i \in 1..n : calls'[i].call = calls[i].call
  BY <1>4, <1>7
<1>10. \A i \in 1..(n - 1) : calls'[i] = calls[i]
  BY <1>1, <1>7
<1>11. Stacked(calls', p, e)
  BY <1>1, <1>8, <1>9, <1>10, StackShrinks
<1>12. calls' # <<>> /\ Current' = f
  <2>1. Len(calls') > 0 /\ calls'[n] = f
    BY <1>1, <1>7, <1>8
  <2>2. calls' # <<>>
    BY <2>1
  <2> QED
    BY <1>8, <2>1, <2>2 DEF Current
<1>13. Running("emit")' /\ ~Running("create")'
  BY <1>4, <1>12 DEF Running, Current
<1>14. Waiting(e)' = Waiting(e)
  BY <1>8, <1>13 DEF Waiting
<1> QED
  BY <1>5, <1>8, <1>9, <1>10, <1>11, <1>12, <1>13, <1>14

\* What an event does to the stack of a hydrater.
LEMMA StackFollows ==
    ASSUME JrqInv, NEW h \in 1..Len(hydraters), NEW item, Hydrates(h, item)
    PROVE  /\ Len(hydraters') = Len(hydraters)
           /\ \A g \in 1..Len(hydraters) : g # h => hydraters'[g] = hydraters[g]
           /\ Len(hydraters'[h].stack) \in Nat
           /\ \/ Len(hydraters'[h].stack) <= Len(hydraters[h].stack) + KeyShift(item)
              \/ Len(hydraters'[h].stack) = 0
<1> DEFINE me == hydraters[h]
           n == Len(hydraters)
<1>1. /\ hydraters \in Seq(Hydrater) /\ n \in Nat /\ me \in Hydrater
      /\ me.stack \in Seq(Objects) /\ Len(me.stack) \in Nat /\ DOMAIN hydraters = 1..n
      /\ me = [cur |-> me.cur, stack |-> me.stack]
  <2>1. hydraters \in Seq(Hydrater)
    BY DEF JrqInv, HeapInv
  <2>2. me \in Hydrater
    BY <2>1
  <2>3. me.stack \in Seq(Objects) /\ me = [cur |-> me.cur, stack |-> me.stack]
    BY <2>2 DEF Hydrater
  <2> QED
    BY <2>1, <2>2, <2>3
<1>2. \A new : hydraters' = [hydraters EXCEPT ![h] = new] =>
         /\ Len(hydraters') = n /\ hydraters'[h] = new
         /\ \A g \in 1..n : g # h => hydraters'[g] = hydraters[g]
  BY <1>1
<1>3. CASE UNCHANGED hydraters /\ (KeyShift(item) >= 0 \/ me.stack = <<>>)
  <2>1. Len(me.stack) <= Len(me.stack) + KeyShift(item) \/ Len(me.stack) = 0
    <3>1. CASE KeyShift(item) >= 0
      BY <1>1, <3>1, ShiftType
    <3>2. CASE me.stack = <<>>
      BY <3>2
    <3> QED
      BY <1>3, <3>1, <3>2
  <2> QED
    BY <1>1, <1>3, <2>1
<1>4. ASSUME NEW type \in {"object", "array"}, Starts(item), PushObject(h, item.key, type)
      PROVE  \/ UNCHANGED hydraters /\ KeyShift(item) >= 0
             \/ /\ \A g \in 1..n : g # h => hydraters'[g] = hydraters[g]
                /\ Len(hydraters') = n
                /\ Len(hydraters'[h].stack) \in Nat
                /\ Len(hydraters'[h].stack) <= Len(me.stack) + KeyShift(item)
  <2> DEFINE stack == IF me.cur = Undefined THEN me.stack ELSE Append(me.stack, me.cur)
             new == [cur |-> Len(heap) + 1, stack |-> stack]
  <2>1. KeyShift(item) = IF item.key = Undefined THEN 0 ELSE 1
    BY <1>4 DEF KeyShift, Shift, Keyed
  <2>2. CASE UNCHANGED createVars
    BY <2>1, <2>2 DEF createVars
  <2>3. CASE ~UNCHANGED createVars
    <3>1. /\ me.cur = Undefined \/ item.key # Undefined
          /\ hydraters' = [hydraters EXCEPT ![h] = [me EXCEPT !.cur = new.cur, !.stack = new.stack]]
      BY <1>4, <2>3 DEF PushObject
    <3>2. hydraters' = [hydraters EXCEPT ![h] = new]
      BY <1>1, <3>1
    <3>3. Len(stack) \in Nat /\ Len(stack) = IF me.cur = Undefined THEN Len(me.stack) ELSE Len(me.stack) + 1
      BY <1>1
    <3>4. new.stack = stack
      OBVIOUS
    <3> HIDE DEF new, stack
    <3>5. Len(stack) <= Len(me.stack) + KeyShift(item)
      BY <1>1, <2>1, <3>1, <3>3
    <3> QED
      BY <1>2, <3>2, <3>3, <3>4, <3>5
  <2> QED
    BY <2>2, <2>3
<1>5. ASSUME NEW type \in {"object", "array"}, Ends(item), PopObject(h, item.key, type)
      PROVE  \/ UNCHANGED hydraters /\ (KeyShift(item) >= 0 \/ me.stack = <<>>)
             \/ /\ \A g \in 1..n : g # h => hydraters'[g] = hydraters[g]
                /\ Len(hydraters') = n
                /\ Len(hydraters'[h].stack) \in Nat
                /\ Len(hydraters'[h].stack) <= Len(me.stack) + KeyShift(item)
  <2> DEFINE new == [cur |-> me.stack[Len(me.stack)], stack |-> Below(me.stack)]
  <2>1. KeyShift(item) = IF item.key = Undefined THEN 0 ELSE -1
    BY <1>5 DEF KeyShift, Shift, Keyed, Starts, Ends
  <2>2. CASE me.stack # <<>> /\ item.key # Undefined
    <3>1. hydraters' = [hydraters EXCEPT ![h] = new]
      BY <1>5, <2>2 DEF PopObject, PoppedObjects, Below
    <3>2. Len(Below(me.stack)) = Len(me.stack) - 1 /\ Len(me.stack) > 0
      BY <1>1, <2>2, BelowTop
    <3>3. new.stack = Below(me.stack)
      OBVIOUS
    <3> HIDE DEF new
    <3>4. Len(Below(me.stack)) \in Nat /\ Len(Below(me.stack)) <= Len(me.stack) + KeyShift(item)
      BY <1>1, <2>1, <2>2, <3>2
    <3> QED
      BY <1>2, <3>1, <3>3, <3>4
  <2>3. CASE ~(me.stack # <<>> /\ item.key # Undefined)
    <3>1. UNCHANGED hydraters
      BY <1>5, <2>3 DEF PopObject, createVars
    <3>2. me.stack = <<>> \/ KeyShift(item) = 0
      BY <2>1, <2>3
    <3> QED
      BY <3>1, <3>2
  <2> QED
    BY <2>2, <2>3
<1>6. item.event \in {"foundValue", "foundKey"} => KeyShift(item) = 0
  BY DEF KeyShift, Shift, Starts, Ends
<1>7. item.event \in {"foundValue", "foundKey"} => UNCHANGED hydraters
  BY DEF Hydrates, StoreValue, createVars
<1>8. \/ Starts(item) /\ \E type \in {"object", "array"} : PushObject(h, item.key, type)
      \/ Ends(item) /\ \E type \in {"object", "array"} : PopObject(h, item.key, type)
      \/ item.event \in {"foundValue", "foundKey"}
  BY DEF Hydrates, Starts, Ends
<1> HIDE DEF n, me
<1>9. \/ UNCHANGED hydraters /\ (KeyShift(item) >= 0 \/ me.stack = <<>>)
      \/ /\ \A g \in 1..n : g # h => hydraters'[g] = hydraters[g]
         /\ Len(hydraters') = n
         /\ Len(hydraters'[h].stack) \in Nat
         /\ Len(hydraters'[h].stack) <= Len(me.stack) + KeyShift(item)
  BY <1>4, <1>5, <1>6, <1>7, <1>8
<1> QED
  BY <1>3, <1>9 DEF n, me

LEMMA HydratersFollow ==
    ASSUME ScriptsBracketed, JrqInv, NEW p, NEW e, Progress(p, e), HydraterHandles, main' # "failed"
    PROVE  Progress(p, e)'
<1>0. PICK h, item : h = Current.handler - 1 /\ item = Current.event
  OBVIOUS
<1>1. h \in 1..Len(hydraters) /\ Running("emit") /\ Current.handler = h + 1 /\ Len(hydraters) \in Nat
  <2>1. Len(hydraters) \in Nat /\ Current.handler \in 2..Handlers /\ Running("emit")
    BY Lengths DEF HydraterHandles
  <2> QED
    BY <1>0, <2>1 DEF Handlers
<1>2. /\ Hydrates(h, item) /\ calls' = Handled(calls)
      /\ UNCHANGED <<session, count, at, keyStack, objectDepth>>
  BY <1>0 DEF HydraterHandles, Throw, selectionVars
<1>3. /\ Stacked(calls, p, e) /\ InScript(p)
      /\ objectDepth = Depth(Level) - 1 - OwedDepth
      /\ Len(keyStack) <= KeyDepth(Level) - Unpushed(e) - Owed(1)
      /\ \A g \in 1..Len(hydraters) :
           Len(hydraters[g].stack) <= KeyDepth(Level) - Waiting(e) - Owed(g + 1)
  BY DEF Progress, Handling
<1>4. /\ Stacked(calls', p, e) /\ Len(calls') = Len(calls)
      /\ Running("emit")' /\ ~Running("create")'
      /\ Current'.event = item /\ Current'.handler = h + 2
      /\ Waiting(e)' = Waiting(e)
  BY <1>0, <1>1, <1>2, <1>3, GoesOn
<1>5. /\ Len(hydraters') = Len(hydraters)
      /\ \A g \in 1..Len(hydraters) : g # h => hydraters'[g] = hydraters[g]
      /\ Len(hydraters'[h].stack) \in Nat
      /\ \/ Len(hydraters'[h].stack) <= Len(hydraters[h].stack) + KeyShift(item)
         \/ Len(hydraters'[h].stack) = 0
  BY <1>1, <1>2, StackFollows
<1>6. Level' = Level /\ Script' = Script /\ Unpushed(e)' = Unpushed(e)
  BY <1>2, <1>4 DEF Level, Script, Unpushed
<1>7. ~Owes(1) /\ ~Owes(1)' /\ Owes(h + 1) /\ ~Owes(h + 1)'
  <2>1. ~(h + 1 <= 1) /\ ~(h + 2 <= 1) /\ h + 1 <= h + 1 /\ ~(h + 2 <= h + 1)
    BY <1>1
  <2> QED
    BY <1>1, <1>4, <2>1 DEF Owes
<1>8. /\ OwedDepth = 0 /\ OwedDepth' = 0 /\ Owed(1) = 0 /\ Owed(1)' = 0
      /\ Owed(h + 1) = KeyShift(item) /\ Owed(h + 1)' = 0
  BY <1>0, <1>7 DEF OwedDepth, Owed
<1>9. \A g \in 1..Len(hydraters) : g # h => Owed(g + 1)' = Owed(g + 1)
  <2> SUFFICES ASSUME NEW g \in 1..Len(hydraters), g # h
               PROVE  Owed(g + 1)' = Owed(g + 1)
    OBVIOUS
  <2>1. Owes(g + 1)' <=> Owes(g + 1)
    BY <1>1, <1>4 DEF Owes
  <2> QED
    BY <1>0, <1>4, <2>1 DEF Owed
<1>10. /\ KeyDepth(Level) \in Int /\ Waiting(e) \in Int /\ Waiting(e) <= KeyDepth(Level)
       /\ KeyShift(item) \in Int /\ Len(hydraters[h].stack) \in Nat
  BY <1>1, <1>3, Room, ShiftType, Lengths
<1>11. Len(hydraters'[h].stack) <= KeyDepth(Level) - Waiting(e)
  <2>1. Len(hydraters[h].stack) <= KeyDepth(Level) - Waiting(e) - KeyShift(item)
    BY <1>1, <1>3, <1>8
  <2> QED
    BY <1>5, <1>10, <2>1, SMTT(30)
<1>12. \A g \in 1..Len(hydraters') :
          Len(hydraters'[g].stack) <= KeyDepth(Level') - Waiting(e)' - Owed(g + 1)'
  <2> SUFFICES ASSUME NEW g \in 1..Len(hydraters)
               PROVE  Len(hydraters'[g].stack) <= KeyDepth(Level) - Waiting(e) - Owed(g + 1)'
    BY <1>4, <1>5, <1>6
  <2>1. CASE g = h
    <3>1. Owed(g + 1)' = 0
      BY <1>8, <2>1
    <3> QED
      BY <1>10, <1>11, <2>1, <3>1
  <2>2. CASE g # h
    BY <1>3, <1>5, <1>9, <2>2
  <2> QED
    BY <2>1, <2>2
<1>13. Handling(e)'
  BY <1>2, <1>3, <1>6, <1>8, <1>12 DEF Handling
<1>14. InScript(p)'
  BY <1>2, <1>3, <1>4, <1>6, <1>7 DEF InScript
<1> QED
  BY <1>4, <1>13, <1>14 DEF Progress

\* innerMain has handled the event of the emission, and hydrated nothing.
LEMMA MainFollows ==
    ASSUME ScriptsBracketed, JrqInv, NEW p, NEW e, Progress(p, e), NEW item,
           Running("emit"), Current.handler = 1, Current.event = item, JrqReturns,
           objectDepth' = objectDepth + Shift(item), Len(keyStack') \in Nat,
           \/ Len(keyStack') <= Len(keyStack) + KeyShift(item)
           \/ Len(keyStack') = 0
    PROVE  Progress(p, e)'
<1>1. calls' = Handled(calls) /\ UNCHANGED <<session, count, at, hydraters>>
  BY DEF JrqReturns, createVars
<1>2. /\ Stacked(calls, p, e) /\ InScript(p)
      /\ objectDepth = Depth(Level) - 1 - OwedDepth
      /\ Len(keyStack) <= KeyDepth(Level) - Unpushed(e) - Owed(1)
      /\ \A h \in 1..Len(hydraters) :
           Len(hydraters[h].stack) <= KeyDepth(Level) - Waiting(e) - Owed(h + 1)
  BY DEF Progress, Handling
<1>3. /\ Stacked(calls', p, e) /\ Len(calls') = Len(calls)
      /\ Running("emit")' /\ ~Running("create")'
      /\ Current'.event = item /\ Current'.handler = 2
      /\ Waiting(e)' = Waiting(e)
  BY <1>1, <1>2, GoesOn
<1>4. Level' = Level /\ Script' = Script /\ Unpushed(e)' = Unpushed(e)
  BY <1>1, <1>3 DEF Level, Script, Unpushed
<1>5. Owes(1) /\ ~Owes(1)'
  BY <1>3 DEF Owes
<1>6. /\ OwedDepth = Shift(item) /\ OwedDepth' = 0 /\ Owed(1) = KeyShift(item) /\ Owed(1)' = 0
  BY <1>5 DEF OwedDepth, Owed
<1>7. \A h \in 1..Len(hydraters) : Owed(h + 1)' = Owed(h + 1)
  <2> SUFFICES ASSUME NEW h \in 1..Len(hydraters)
               PROVE  Owed(h + 1)' = Owed(h + 1)
    OBVIOUS
  <2>1. 1 <= h + 1 /\ 2 <= h + 1
    BY Lengths
  <2>2. Owes(h + 1)' /\ Owes(h + 1)
    BY <1>3, <2>1 DEF Owes
  <2> QED
    BY <1>3, <2>2 DEF Owed
<1>8. /\ KeyDepth(Level) \in Int /\ Depth(Level) \in Int /\ Unpushed(e) \in Int
      /\ Unpushed(e) <= KeyDepth(Level)
      /\ KeyShift(item) \in Int /\ Shift(item) \in Int /\ Len(keyStack) \in Nat
  BY <1>2, Room, ShiftType, Lengths
<1>9. objectDepth' = Depth(Level') - 1 - OwedDepth'
  BY <1>2, <1>4, <1>6, <1>8
<1>10. Len(keyStack') <= KeyDepth(Level') - Unpushed(e)' - Owed(1)'
  BY <1>2, <1>4, <1>6, <1>8
<1>11. Handling(e)'
  BY <1>1, <1>2, <1>3, <1>4, <1>7, <1>9, <1>10 DEF Handling
<1>12. InScript(p)'
  BY <1>1, <1>2, <1>3, <1>4, <1>5 DEF InScript
<1> QED
  BY <1>3, <1>11, <1>12 DEF Progress

\* The first handler of an announcement hydrates what is announced.
LEMMA MainHydrates ==
    ASSUME ScriptsBracketed, JrqInv, NEW p, NEW e, Progress(p, e), NEW item,
           Running("emit"), Current.handler = 1, Current.event = item,
           Starts(item), Keyed(item), Create, at' = at + 1,
           objectDepth' = objectDepth + 1, Len(keyStack') \in Nat,
           Len(keyStack') <= Len(keyStack) + (IF session.args = <<>> THEN 1 ELSE 0)
    PROVE  \E q, d : Progress(q, d)'
<1>0. PICK n, k : n = Len(calls) /\ k = Len(hydraters)
  OBVIOUS
<1>1. /\ n \in Nat /\ n > 0 /\ k \in Nat /\ calls[n] = Current /\ Current.call = "emit"
      /\ calls \in Seq(Frames) /\ hydraters \in Seq(Hydrater)
      /\ calls' = calls \o <<Creating(k + 1), Parsing>>
      /\ hydraters' = Append(hydraters, NewHydrater)
      /\ session' = session /\ count' = count
  BY <1>0, Lengths DEF Create, Running, Current, JrqInv, ControlOK, HeapInv
<1>2. /\ Stacked(calls, p, e) /\ InScript(p) /\ at - 1 \in 0..(Len(Script) + 1) /\ p[n] = Level.parsers
      /\ objectDepth = Depth(Level) - 1 - OwedDepth
      /\ Len(keyStack) <= KeyDepth(Level) - Unpushed(e) - Owed(1)
      /\ \A h \in 1..k :
           Len(hydraters[h].stack) <= KeyDepth(Level) - Waiting(e) - Owed(h + 1)
  BY <1>0 DEF Progress, Handling, InScript
<1>3. Shift(item) = 1 /\ KeyShift(item) = 1
  BY DEF Shift, KeyShift
<1>4. /\ Owes(1) /\ OwedDepth = 1 /\ Owed(1) = 1 /\ Waiting(e) = e[n] - 1
      /\ \A h \in 1..k : Owed(h + 1) = 1
  <2>1. Owes(1) /\ \A h \in 1..k : Owes(h + 1)
    BY <1>1 DEF Owes
  <2> QED
    BY <1>0, <1>3, <2>1 DEF OwedDepth, Owed, Waiting
<1>5. p[n] \in Nat /\ e[n] \in Nat /\ e[n] > 0 /\ e[n] <= p[n] /\ p[n] > 0
  <2>1. calls[n].call = "emit" /\ Len(calls) = n
    BY <1>0, <1>1
  <2>2. p[n] \in Nat /\ e[n] \in Nat /\ e[n] > 0 /\ e[n] <= p[n]
    BY <1>1, <1>2, <2>1, StackTop
  <2> QED
    BY <2>2
<1>6. Level.where = "announced"
  BY <1>2, <1>4 DEF InScript
<1>7. /\ at \in 0..(Len(Script) + 1) /\ Level \in Levels
      /\ Trail(Script)[at] \in Levels /\ Takes(Level, Item, Trail(Script)[at])
  BY <1>2, <1>5, NextLevel
<1>8. Script' = Script /\ at' - 1 = at /\ Level' = Trail(Script)[at]
  BY <1>1 DEF Script, Level, JrqInv, ControlOK
<1>9. /\ Depth(Level') = Depth(Level) /\ KeyDepth(Level') = KeyDepth(Level)
      /\ Level'.parsers = Level.parsers + 1
  <2>1. Shift(Call) = 0 /\ KeyShift(Call) = 0
    BY DEF Shift, KeyShift, Starts, Ends, Call
  <2>2. Depth(Level) \in Int /\ KeyDepth(Level) \in Int
    BY <1>7, DepthBounds
  <2> QED
    BY <1>6, <1>7, <1>8, <2>1, <2>2, Moves
<1>10. PICK s : s = Append(calls, Creating(k + 1))
  OBVIOUS
<1>11. Creating(k + 1).call = "create" /\ Parsing.call = "parse"
  BY DEF Creating, Parsing
<1>12. /\ Len(s) = n + 1 /\ (\A i \in 1..n : s[i] = calls[i]) /\ s[n + 1].call = "create"
       /\ Len(calls') = n + 2 /\ (\A i \in 1..(n + 1) : calls'[i] = s[i])
       /\ calls'[n + 2].call = "parse"
  <2>1. Creating(k + 1) \in Frames \cup {Creating(k + 1), Parsing}
    OBVIOUS
  <2>2. PICK c, T : c = Creating(k + 1) /\ T = Frames \cup {c, Parsing}
    OBVIOUS
  <2>3. calls \in Seq(T) /\ c \in T /\ Parsing \in T
    BY <1>1, <2>2
  <2>4. /\ s \in Seq(T) /\ Len(s) = n + 1 /\ (\A i \in 1..n : s[i] = calls[i]) /\ s[n + 1] = c
    BY <1>0, <1>10, <2>2, <2>3, AppendProperties
  <2>5. calls' = Append(s, Parsing)
    BY <1>1, <1>10, <2>2, <2>3, AppendTwo, SMTT(30)
  <2>6. /\ Len(calls') = n + 2 /\ (\A i \in 1..(n + 1) : calls'[i] = s[i]) /\ calls'[n + 2] = Parsing
    <3>1. /\ Len(calls') = Len(s) + 1 /\ (\A i \in 1..Len(s) : calls'[i] = s[i])
          /\ calls'[Len(s) + 1] = Parsing
      BY <2>3, <2>4, <2>5, AppendProperties
    <3> QED
      BY <1>1, <2>4, <3>1, SMTT(30)
  <2> QED
    BY <1>11, <2>2, <2>4, <2>6
<1>13. PICK q1, d1 : Stacked(s, q1, d1) /\ q1[n + 1] = p[n] /\ d1[n + 1] = e[n]
  <2>1. Counted(s, n + 1, p[n], e[n])
    <3>1. calls[n].call = "emit" /\ calls[n].handler = 1 /\ Starts(calls[n].event) /\ Keyed(calls[n].event)
      BY <1>1
    <3> QED
      BY <1>0, <1>1, <1>2, <1>12, <3>1, StackGrows
  <2> QED
    BY <2>1 DEF Counted
<1>14. PICK q, d : Stacked(calls', q, d) /\ q[n + 2] = p[n] + 1 /\ d[n + 2] = e[n]
  <2>1. PICK m : m = n + 1 /\ m \in Nat
    BY <1>1
  <2>2. Counted(calls', m + 1, q1[m] + 1, d1[m])
    <3>1. Len(s) = m /\ Len(calls') = m + 1 /\ (\A i \in 1..m : calls'[i] = s[i])
      BY <1>1, <1>12, <2>1
    <3>2. s[m].call = "create" /\ calls'[m + 1].call = "parse"
      <4>1. n + 2 = m + 1
        BY <1>1, <2>1
      <4> QED
        BY <1>12, <2>1, <4>1
    <3> QED
      BY <1>13, <2>1, <3>1, <3>2, StackGrows
  <2>3. m + 1 = n + 2 /\ q1[m] = p[n] /\ d1[m] = e[n]
    BY <1>1, <1>13, <2>1
  <2> QED
    BY <2>2, <2>3 DEF Counted
<1>15. ~Running("emit")' /\ ~Running("create")'
  BY <1>1, <1>12 DEF Running
<1>16. /\ OwedDepth' = 0 /\ (\A h : Owed(h)' = 0) /\ Waiting(d)' = e[n]
  <2>1. \A h : ~Owes(h)'
    BY <1>15 DEF Owes
  <2>2. d[Len(calls')] - 0 = e[n]
    BY <1>5, <1>12, <1>14
  <2> QED
    BY <1>15, <2>1, <2>2 DEF OwedDepth, Owed, Waiting
<1>17. /\ KeyDepth(Level) \in Int /\ Depth(Level) \in Int /\ KeyDepth(Level) >= p[n]
       /\ Len(keyStack) \in Nat
  <2>1. KeyDepth(Level) = Level.parsers /\ Depth(Level) \in Int
    <3>1. KeyDepth(Level) = Level.parsers - 0
      BY <1>6 DEF KeyDepth
    <3> QED
      BY <1>2, <1>5, <1>7, <3>1, DepthBounds
  <2> QED
    BY <1>2, <1>5, <2>1, Lengths
<1>18. objectDepth' = Depth(Level') - 1 - OwedDepth'
  BY <1>2, <1>4, <1>9, <1>16, <1>17
<1>19. Len(keyStack') <= KeyDepth(Level') - Unpushed(d)' - Owed(1)'
  <2>2. CASE session.args = <<>>
    <3>1. Unpushed(e) = 0 /\ Unpushed(d)' = 0 /\ Len(keyStack') <= Len(keyStack) + 1
      BY <1>1, <2>2 DEF Unpushed
    <3> QED
      BY <1>2, <1>4, <1>9, <1>16, <1>17, <3>1
  <2>3. CASE session.args # <<>>
    <3>1. Unpushed(e) = e[n] - 1 /\ Unpushed(d)' = e[n] /\ Len(keyStack') <= Len(keyStack) + 0
      BY <1>1, <1>4, <1>16, <2>3 DEF Unpushed
    <3> QED
      BY <1>2, <1>4, <1>5, <1>9, <1>16, <1>17, <3>1
  <2> QED
    BY <2>2, <2>3
<1>20. \A h \in 1..Len(hydraters') :
          Len(hydraters'[h].stack) <= KeyDepth(Level') - Waiting(d)' - Owed(h + 1)'
  <2>4. Len(hydraters') = k + 1
    BY <1>0, <1>1
  <2>5. KeyDepth(Level') - Waiting(d)' - 0 = KeyDepth(Level) - e[n]
    BY <1>5, <1>9, <1>16, <1>17
  <2> SUFFICES ASSUME NEW h \in 1..(k + 1)
               PROVE  Len(hydraters'[h].stack) <= KeyDepth(Level) - e[n]
    BY <1>16, <2>4, <2>5
  <2>1. CASE h = k + 1
    <3>1. hydraters'[h] = NewHydrater /\ NewHydrater.stack = <<>>
      BY <1>0, <1>1, <2>1 DEF NewHydrater
    <3> QED
      BY <1>5, <1>17, <3>1
  <2>2. CASE h \in 1..k
    <3>1. hydraters'[h] = hydraters[h] /\ Len(hydraters[h].stack) \in Nat
      BY <1>0, <1>1, <2>2, Lengths
    <3>2. Len(hydraters[h].stack) <= KeyDepth(Level) - (e[n] - 1) - 1
      BY <1>2, <1>4, <2>2
    <3>3. KeyDepth(Level) - (e[n] - 1) - 1 = KeyDepth(Level) - e[n]
      BY <1>5, <1>17
    <3> QED
      BY <3>1, <3>2, <3>3
  <2>3. h = k + 1 \/ h \in 1..k
    <3>1. k \in Nat
      BY <1>1
    <3> QED
      BY <3>1
  <2> QED
    BY <2>1, <2>2, <2>3
<1>21. Handling(d)'
  BY <1>18, <1>19, <1>20 DEF Handling
<1>22. InScript(q)'
  <2>1. (at - 1)' \in 0..(Len(Script') + 1)
    BY <1>7, <1>8
  <2>2. q[Len(calls')] = Level'.parsers
    BY <1>2, <1>9, <1>12, <1>14
  <2> QED
    BY <1>15, <2>1, <2>2 DEF InScript, Owes
<1> QED
  BY <1>14, <1>21, <1>22 DEF Progress

LEMMA KeyLengths ==
    ASSUME JrqInv, NEW key \in Maybe(Keys)
    PROVE  /\ Len(Pushed(key)) = Len(keyStack) + (IF key = Undefined THEN 0 ELSE 1)
           /\ Len(Popped(key)) \in Nat
           /\ \/ Len(Popped(key)) = Len(keyStack) - (IF key = Undefined THEN 0 ELSE 1)
              \/ Len(Popped(key)) = 0
<1>1. keyStack \in Seq(Keys) /\ Len(keyStack) \in Nat
  BY DEF JrqInv, SelectionOK
<1>2. CASE key = Undefined
  BY <1>1, <1>2 DEF Pushed, Popped
<1>3. CASE key # Undefined
  <2>1. Len(Pushed(key)) = Len(keyStack) + 1
    BY <1>1, <1>3 DEF Pushed, Maybe
  <2>2. CASE keyStack = <<>>
    BY <1>1, <1>3, <2>1, <2>2 DEF Popped
  <2>3. CASE keyStack # <<>>
    <3>1. Popped(key) = Below(keyStack)
      BY <1>3, <2>3 DEF Popped, Below
    <3>2. Len(Below(keyStack)) = Len(keyStack) - 1 /\ Len(Below(keyStack)) \in Nat
      BY <1>1, <2>3, BelowTop
    <3> QED
      BY <1>3, <2>1, <3>1, <3>2
  <2> QED
    BY <2>2, <2>3
<1> QED
  BY <1>2, <1>3

LEMMA FindsAndEnds ==
    ASSUME ScriptsBracketed, JrqInv, NEW p, NEW e, Progress(p, e), main' # "failed",
           JrqFoundKey \/ JrqFoundValue \/ JrqEnd
    PROVE  Progress(p, e)'
<1>0. PICK item : item = Current.event
  OBVIOUS
<1>1. Running("emit") /\ Current.handler = 1 /\ Key \in Maybe(Keys) /\ Key = item.key
  <2>1. Running("emit") /\ Current.handler = 1
    BY DEF JrqFoundKey, JrqFoundValue, JrqEnd, OnEvent
  <2> QED
    BY <1>0, <2>1, Emission DEF Key
<1>2. /\ objectDepth \in Int /\ Len(keyStack) \in Nat
      /\ Shift(item) \in Int /\ KeyShift(item) \in Int
  BY Lengths, ShiftType
<1>3. CASE JrqFoundKey \/ JrqFoundValue
  <2>1. item.event \in {"foundKey", "foundValue"} /\ JrqReturns /\ UNCHANGED <<objectDepth, keyStack>>
    BY <1>0, <1>3 DEF JrqFoundKey, JrqFoundValue, OnEvent, Throw, selectionVars
  <2>2. Shift(item) = 0 /\ KeyShift(item) = 0
    BY <2>1 DEF Shift, KeyShift, Starts, Ends
  <2>3. objectDepth' = objectDepth + Shift(item) /\ Len(keyStack') <= Len(keyStack) + KeyShift(item)
    BY <1>2, <2>1, <2>2
  <2>4. Len(keyStack') \in Nat
    BY <1>2, <2>1
  <2> QED
    BY <1>0, <1>1, <2>1, <2>3, <2>4, MainFollows
<1>4. CASE JrqEnd
  <2>1. /\ item.event \in {"endObject", "endArray"} /\ JrqReturns
        /\ objectDepth' = objectDepth - 1 /\ keyStack' = Popped(Key)
    BY <1>0, <1>4 DEF JrqEnd, OnEvent
  <2>2. Shift(item) = -1 /\ KeyShift(item) = IF Key = Undefined THEN 0 ELSE -1
    BY <1>1, <2>1 DEF Shift, KeyShift, Starts, Ends, Keyed
  <2>3. /\ Len(keyStack') \in Nat
        /\ Len(keyStack') = Len(keyStack) - (IF Key = Undefined THEN 0 ELSE 1) \/ Len(keyStack') = 0
    BY <1>1, <2>1, KeyLengths
  <2>4. objectDepth' = objectDepth + Shift(item)
    BY <1>2, <2>1, <2>2
  <2>5. Len(keyStack') <= Len(keyStack) + KeyShift(item) \/ Len(keyStack') = 0
    <3>1. CASE Key = Undefined
      BY <1>2, <2>2, <2>3, <3>1
    <3>2. CASE Key # Undefined
      BY <1>2, <2>2, <2>3, <3>2
    <3> QED
      BY <3>1, <3>2
  <2> QED
    BY <1>0, <1>1, <2>1, <2>3, <2>4, <2>5, MainFollows
<1> QED
  BY <1>3, <1>4

\* An element that is hydrated is announced by the parser of the outermost container.
LEMMA ElementHasKey ==
    ASSUME ScriptsBracketed, JrqInv, NEW p, NEW e, Progress(p, e), NEW item,
           Running("emit"), Current.handler = 1, Current.event = item, Starts(item),
           WantsElement, objectDepth' = objectDepth + 1
    PROVE  session.args = <<>> /\ Keyed(item)
<1>1. session.args = <<>> /\ objectDepth' = 1
  BY DEF WantsElement
<1>2. /\ Level \in Levels /\ objectDepth = Depth(Level) - 1 - OwedDepth
      /\ Level.where = IF Keyed(item) THEN "announced" ELSE "inside"
  <2>1. Owes(1)
    BY DEF Owes
  <2>2. Stacked(calls, p, e) /\ InScript(p) /\ Handling(e)
    BY DEF Progress
  <2> QED
    BY <2>1, <2>2, Room DEF InScript, Handling
<1>3. OwedDepth = 1
  BY DEF OwedDepth, Owes, Shift
<1>4. Depth(Level) = 2
  <2>1. Depth(Level) \in Int
    BY <1>2, DepthBounds
  <2>2. objectDepth = 0
    BY Lengths, <1>1
  <2>3. objectDepth = Depth(Level) - 1 - 1
    BY <1>2, <1>3
  <2> QED
    BY <2>1, <2>2, <2>3
<1>5. Keyed(item)
  <2> SUFFICES ASSUME ~Keyed(item) PROVE FALSE
    OBVIOUS
  <2>1. Level.where = "inside" /\ Level.parsers \in Nat
    BY <1>2 DEF Levels
  <2>2. 2 * (Level.parsers - 1) + 1 = 2
    BY <1>4, <2>1 DEF Depth
  <2>3. \A n \in Nat : 2 * (n - 1) + 1 # 2
    <3> TAKE n \in Nat
    <3>1. n <= 1 \/ n >= 2
      OBVIOUS
    <3>2. n <= 1 => 2 * (n - 1) + 1 <= 1
      OBVIOUS
    <3>3. n >= 2 => 2 * (n - 1) + 1 >= 3
      OBVIOUS
    <3> QED
      BY <3>1, <3>2, <3>3
  <2> QED
    BY <2>1, <2>2, <2>3
<1> QED
  BY <1>1, <1>5

LEMMA StartsInOrder ==
    ASSUME ScriptsBracketed, JrqInv, NEW p, NEW e, Progress(p, e), JrqStartObject \/ JrqStartArray
    PROVE  \E q, d : Progress(q, d)'
<1>0. PICK item : item = Current.event
  OBVIOUS
<1>1. /\ Running("emit") /\ Current.handler = 1 /\ Key \in Maybe(Keys) /\ Key = item.key
      /\ item.event \in {"startObject", "startArray"}
  <2>1. Running("emit") /\ Current.handler = 1
    BY DEF JrqStartObject, JrqStartArray, OnEvent
  <2>2. item.event \in {"startObject", "startArray"}
    BY <1>0 DEF JrqStartObject, JrqStartArray, OnEvent
  <2> QED
    BY <1>0, <2>1, <2>2, Emission DEF Key
<1>2. objectDepth' = objectDepth + 1 /\ objectDepth \in Int /\ Len(keyStack) \in Nat
  BY Lengths DEF JrqStartObject, JrqStartArray, StartContainer
<1>3. Starts(item) /\ Shift(item) = 1 /\ KeyShift(item) = IF Key = Undefined THEN 0 ELSE 1
  BY <1>1 DEF Shift, KeyShift, Starts, Keyed
<1>4. keyStack' = keyStack \/ keyStack' = Pushed(Key)
  BY DEF JrqStartObject, JrqStartArray
<1>5. Len(keyStack') \in Nat /\ Len(keyStack') <= Len(keyStack) + KeyShift(item)
  <2>1. Len(Pushed(Key)) = Len(keyStack) + (IF Key = Undefined THEN 0 ELSE 1)
    BY <1>1, KeyLengths
  <2>2. CASE Key = Undefined
    BY <1>2, <1>3, <1>4, <2>1, <2>2
  <2>3. CASE Key # Undefined
    BY <1>2, <1>3, <1>4, <2>1, <2>3
  <2> QED
    BY <2>2, <2>3
<1>6. CASE JrqReturns
  <2>1. objectDepth' = objectDepth + Shift(item)
    BY <1>2, <1>3
  <2>2. Progress(p, e)'
    BY <1>0, <1>1, <1>5, <1>6, <2>1, MainFollows
  <2> QED
    BY <2>2
<1>7. CASE ~JrqReturns
  <2>1. /\ Create /\ at' = at + 1
        /\ \/ Key # Undefined /\ Paths(Key) # {} /\ keyStack' = keyStack
           \/ WantsElement
    BY <1>7 DEF JrqStartObject, JrqStartArray
  <2>2. CASE Key # Undefined /\ Paths(Key) # {} /\ keyStack' = keyStack
    <3>1. Keyed(item)
      BY <1>1, <2>2 DEF Keyed
    <3>2. Len(keyStack') <= Len(keyStack) + (IF session.args = <<>> THEN 1 ELSE 0)
      BY <1>2, <2>2
    <3> QED
      BY <1>0, <1>1, <1>2, <1>3, <1>5, <2>1, <3>1, <3>2, MainHydrates
  <2>3. CASE WantsElement
    <3>1. session.args = <<>> /\ Keyed(item)
      BY <1>0, <1>1, <1>2, <1>3, <2>3, ElementHasKey
    <3>2. Len(keyStack') <= Len(keyStack) + (IF session.args = <<>> THEN 1 ELSE 0)
      BY <1>2, <1>3, <1>5, <3>1
    <3> QED
      BY <1>0, <1>1, <1>2, <1>3, <1>5, <2>1, <3>1, <3>2, MainHydrates
  <2> QED
    BY <2>1, <2>2, <2>3
<1> QED
  BY <1>6, <1>7

\* A hydrater returns to the announcement that waits for it, if there is one.
LEMMA CallerGoesOn ==
    ASSUME JrqInv, NEW p, NEW e, Stacked(calls, p, e), Running("create"),
           calls' = IF Callers = <<>> THEN <<>> ELSE Handled(Callers),
           NEW m \in Nat, m + 1 = Len(calls)
    PROVE  /\ Stacked(calls', p, e) /\ Len(calls') = m /\ ~Running("create")'
           /\ Callers # <<>> <=> m > 0
           /\ p[m] = p[m + 1] /\ e[m] = e[m + 1]
           /\ m = 0 => ~Running("emit")'
           /\ m > 0 => /\ Running("emit")' /\ Current'.handler = 2
                       /\ Current'.event = Callers[m].event
                       /\ Starts(Callers[m].event) /\ Keyed(Callers[m].event)
                       /\ Callers[m].event \in Items /\ Callers[m] = calls[m]
           /\ \A i \in 1..(m - 1) : calls'[i] = calls[i]
<1>1. /\ Callers \in Seq(Frames) /\ Callers \in [1..m -> Frames] /\ Len(Callers) = m
      /\ (\A i \in 1..m : Callers[i] = calls[i]) /\ calls[m + 1].call = "create"
      /\ Len(hydraters) \in Nat /\ (Callers # <<>> <=> m > 0)
  <2>1. calls # <<>> /\ Len(calls) = m + 1
    BY DEF Running
  <2>2. /\ Callers \in Seq(Frames) /\ Len(Callers) = m /\ (\A i \in 1..m : Callers[i] = calls[i])
    BY <2>1, CurrentFrame
  <2>3. Callers # <<>> <=> m > 0
    BY <2>2
  <2>4. calls[m + 1].call = "create"
    BY <2>1 DEF Running
  <2> QED
    BY <2>2, <2>3, <2>4, Lengths
<1>2. /\ p[m] = p[m + 1] /\ e[m] = e[m + 1]
      /\ m > 0 => /\ calls[m].call = "emit" /\ calls[m].handler = 1
                  /\ Starts(calls[m].event) /\ Keyed(calls[m].event)
  <2>1. PICK n : n = m + 1 /\ n \in Nat /\ n > 0 /\ n - 1 = m
    OBVIOUS
  <2>2. /\ p[n - 1] = p[n] /\ e[n - 1] = e[n]
        /\ n > 1 => calls[n - 1].call = "emit"
        /\ n > 1 /\ calls[n - 1].call = "emit" =>
             calls[n - 1].handler = 1 /\ Starts(calls[n - 1].event) /\ Keyed(calls[n - 1].event)
    <3>1. Len(calls) = n /\ calls[n].call = "create" /\ (n > 1 => n # 1)
      BY <1>1, <2>1
    <3> QED
      BY <2>1, <3>1, StackTop
  <2> QED
    BY <2>1, <2>2
<1>3. CASE m = 0
  <2>1. calls' = <<>> /\ Len(calls') = 0
    BY <1>1, <1>3
  <2>2. Stacked(calls', p, e)
    BY <1>3, <2>1, StackShrinks
  <2>3. \A call : ~Running(call)'
    BY <2>1 DEF Running
  <2> QED
    BY <1>1, <1>2, <1>3, <2>1, <2>2, <2>3
<1>4. CASE m > 0
  <2>1. PICK g, f : g = Callers[m] /\ f = [g EXCEPT !.handler = @ + 1]
    OBVIOUS
  <2>2. /\ g \in Frames /\ g = calls[m] /\ g.call = "emit" /\ g.handler = 1
        /\ Starts(g.event) /\ Keyed(g.event)
    BY <1>1, <1>2, <1>4, <2>1
  <2>3. g \in [call : {"emit"}, event : Items, handler : 1..(Handlers + 1)]
    BY <2>2 DEF Frames, Parsing
  <2>4. f.call = "emit" /\ f.event = g.event /\ f.handler = 2 /\ g.event \in Items
    BY <2>1, <2>2, <2>3
  <2>5. calls' = [Callers EXCEPT ![m] = f]
    BY <1>1, <1>4, <2>1 DEF Handled
  <2>6. /\ calls' \in [1..m -> Frames \cup {f}]
        /\ \A i \in 1..m : calls'[i] = IF i = m THEN f ELSE calls[i]
    BY <1>1, <2>5
  <2>7. Len(calls') = m
    <3>1. DOMAIN calls' = 1..m /\ calls' \in Seq(Frames \cup {f})
      BY <2>6
    <3> QED
      BY <3>1
  <2>8. /\ \A i \in 1..m : calls'[i].call = calls[i].call
        /\ \A i \in 1..(m - 1) : calls'[i] = calls[i]
    BY <2>2, <2>4, <2>6
  <2>9. Stacked(calls', p, e)
    <3>1. Len(calls) \in Nat /\ m <= Len(calls)
      OBVIOUS
    <3> QED
      BY <2>7, <2>8, <3>1, StackShrinks
  <2>10. calls' # <<>> /\ Current' = f
    <3>1. calls'[m] = f
      BY <1>4, <2>6
    <3>2. calls' # <<>>
      BY <1>4, <2>7
    <3> QED
      BY <2>7, <3>1, <3>2 DEF Current
  <2>11. Running("emit")' /\ ~Running("create")'
    BY <2>4, <2>10 DEF Running, Current
  <2> QED
    BY <1>1, <1>2, <1>4, <2>1, <2>2, <2>4, <2>7, <2>8, <2>9, <2>10, <2>11
<1> QED
  BY <1>3, <1>4

LEMMA HydraterReturns ==
    ASSUME ScriptsBracketed, JrqInv, NEW p, NEW e, Progress(p, e), CreateReturns
    PROVE  Progress(p, e)'
<1>0. PICK m, h : m + 1 = Len(calls) /\ m \in Nat /\ h = Current.hydrater
  <2>1. Len(calls) \in Nat /\ Len(calls) > 0
    BY Lengths DEF CreateReturns, Running
  <2>2. Len(calls) - 1 \in Nat /\ (Len(calls) - 1) + 1 = Len(calls)
    BY <2>1
  <2> QED
    BY <2>2
<1>1. /\ Running("create") /\ Conclude(h)
      /\ calls' = IF Callers = <<>> THEN <<>> ELSE Handled(Callers)
      /\ UNCHANGED <<session, count, at, objectDepth>>
  BY <1>0 DEF CreateReturns
<1>2. /\ Stacked(calls, p, e) /\ InScript(p)
      /\ objectDepth = Depth(Level) - 1 - OwedDepth
      /\ Len(keyStack) <= KeyDepth(Level) - Unpushed(e) - Owed(1)
      /\ \A g \in 1..Len(hydraters) :
           Len(hydraters[g].stack) <= KeyDepth(Level) - Waiting(e) - Owed(g + 1)
  BY DEF Progress, Handling
<1>3. /\ Stacked(calls', p, e) /\ Len(calls') = m /\ ~Running("create")'
      /\ Callers # <<>> <=> m > 0
      /\ p[m] = p[m + 1] /\ e[m] = e[m + 1]
      /\ m = 0 => ~Running("emit")'
      /\ m > 0 => /\ Running("emit")' /\ Current'.handler = 2
                  /\ Current'.event = Callers[m].event
                  /\ Starts(Callers[m].event) /\ Keyed(Callers[m].event)
                  /\ Callers[m].event \in Items
  BY <1>0, <1>1, <1>2, CallerGoesOn
<1>4. e[m] \in Nat /\ (m = 0 => e[m] = 0) /\ e[m + 1] \in Nat
  <2>1. e[m] \in Nat /\ (m = 0 => e[m] = 0)
    BY <1>0, <1>3, StackTop
  <2> QED
    BY <1>3, <2>1
<1>5. ~Running("emit")
  BY <1>1 DEF Running
<1>6. OwedDepth = 0 /\ (\A g : Owed(g) = 0) /\ Waiting(e) = e[m]
  BY <1>0, <1>3, <1>4, <1>5, Resting
<1>7. Level' = Level /\ Script' = Script
  BY <1>1 DEF Level, Script
<1>8. /\ ~Owes(1)' /\ OwedDepth' = 0 /\ Owed(1)' = 0
      /\ \A g \in 1..Len(hydraters) : Owed(g + 1)' = IF m > 0 THEN 1 ELSE 0
      /\ Waiting(e)' = e[m] - (IF m > 0 THEN 1 ELSE 0)
  <2>1. CASE m = 0
    <3>1. \A g : ~Owes(g)'
      BY <1>3, <2>1 DEF Owes
    <3>2. Waiting(e)' = e[m] - 0
      BY <1>3, <2>1 DEF Waiting
    <3> QED
      BY <2>1, <3>1, <3>2 DEF OwedDepth, Owed
  <2>2. CASE m > 0
    <3>1. ~Owes(1)'
      BY <1>3, <2>2 DEF Owes
    <3>2. \A g \in 1..Len(hydraters) : Owes(g + 1)'
      <4> TAKE g \in 1..Len(hydraters)
      <4>1. 2 <= g + 1
        BY Lengths
      <4> QED
        BY <1>3, <2>2, <4>1 DEF Owes
    <3>3. KeyShift(Current'.event) = 1
      BY <1>3, <2>2 DEF KeyShift, Shift
    <3>4. Waiting(e)' = e[m] - 1
      BY <1>3, <2>2 DEF Waiting
    <3> QED
      BY <2>2, <3>1, <3>2, <3>3, <3>4 DEF OwedDepth, Owed
  <2>3. m = 0 \/ m > 0
    BY <1>0
  <2> QED
    BY <2>1, <2>2, <2>3
<1>9. /\ KeyDepth(Level) \in Int /\ e[m] <= KeyDepth(Level) /\ Len(keyStack) \in Nat
  BY <1>2, <1>6, Room, Lengths
<1>10. objectDepth' = Depth(Level') - 1 - OwedDepth'
  BY <1>1, <1>2, <1>6, <1>7, <1>8
<1>11. Len(keyStack') <= KeyDepth(Level') - Unpushed(e)' - Owed(1)'
  <2>1. CASE session.args = <<>>
    <3>1. keyStack' = keyStack
      BY <2>1 DEF CreateReturns
    <3>2. Unpushed(e)' = 0 /\ Unpushed(e) = 0
      BY <1>1, <2>1 DEF Unpushed
    <3> QED
      BY <1>2, <1>6, <1>7, <1>8, <3>1, <3>2
  <2>2. CASE session.args # <<>> /\ m = 0
    <3>1. keyStack' = keyStack
      BY <1>3, <2>2 DEF CreateReturns
    <3>2. Unpushed(e)' = 0 /\ Unpushed(e) = 0
      <4>1. Unpushed(e)' = e[m] - 0 /\ Unpushed(e) = e[m] /\ e[m] = 0
        BY <1>1, <1>4, <1>6, <1>8, <2>2 DEF Unpushed
      <4> QED
        BY <4>1
    <3> QED
      BY <1>2, <1>6, <1>7, <1>8, <3>1, <3>2
  <2>3. CASE session.args # <<>> /\ m > 0
    <3>1. PICK key : key = Callers[m].event.key
      OBVIOUS
    <3>2. key \in Maybe(Keys) /\ key # Undefined
      BY <1>3, <2>3, <3>1 DEF Items, Keyed
    <3>3. Len(Callers) = m
      BY <1>0, <1>1, CurrentFrame DEF Running
    <3>4. keyStack' = Pushed(key)
      BY <1>3, <2>3, <3>1, <3>3 DEF CreateReturns
    <3>5. Len(keyStack') = Len(keyStack) + 1
      BY <3>2, <3>4, KeyLengths
    <3>6. Unpushed(e)' = e[m] - 1 /\ Unpushed(e) = e[m]
      BY <1>1, <1>6, <1>8, <2>3 DEF Unpushed
    <3>7. Len(keyStack) <= KeyDepth(Level) - e[m] - 0
      BY <1>2, <1>6, <3>6
    <3>8. Len(keyStack) + 1 <= KeyDepth(Level) - (e[m] - 1) - 0
      BY <1>4, <1>9, <3>7
    <3> QED
      BY <1>7, <1>8, <3>5, <3>6, <3>8
  <2> QED
    BY <1>0, <2>1, <2>2, <2>3
<1>12. /\ Len(hydraters') = Len(hydraters)
       /\ \A g \in 1..Len(hydraters) : hydraters'[g].stack = hydraters[g].stack \/ hydraters'[g].stack = <<>>
  <2>1. hydraters \in Seq(Hydrater)
    BY DEF JrqInv, HeapInv
  <2>2. PICK new : new = [cur |-> Remaining(h), stack |-> <<>>]
    OBVIOUS
  <2>3. hydraters' = [hydraters EXCEPT ![h] = new] /\ new.stack = <<>>
    BY <1>1, <2>2 DEF Conclude
  <2> QED
    BY <2>1, <2>3
<1>13. \A g \in 1..Len(hydraters') :
          Len(hydraters'[g].stack) <= KeyDepth(Level') - Waiting(e)' - Owed(g + 1)'
  <2>1. \A g \in 1..Len(hydraters) : KeyDepth(Level') - Waiting(e)' - Owed(g + 1)' = KeyDepth(Level) - e[m]
    <3>1. CASE m > 0
      <4>1. KeyDepth(Level) - (e[m] - 1) - 1 = KeyDepth(Level) - e[m]
        BY <1>4, <1>9
      <4> QED
        BY <1>7, <1>8, <3>1, <4>1
    <3>2. CASE m = 0
      <4>1. KeyDepth(Level) - (e[m] - 0) - 0 = KeyDepth(Level) - e[m]
        BY <1>4, <1>9
      <4> QED
        BY <1>7, <1>8, <3>2, <4>1
    <3> QED
      BY <1>0, <3>1, <3>2
  <2>2. \A g \in 1..Len(hydraters) : Len(hydraters'[g].stack) <= KeyDepth(Level) - e[m]
    <3> TAKE g \in 1..Len(hydraters)
    <3>1. Len(hydraters[g].stack) <= KeyDepth(Level) - e[m] - 0
      BY <1>2, <1>6
    <3>2. Len(hydraters[g].stack) <= KeyDepth(Level) - e[m]
      BY <1>4, <1>9, <3>1
    <3>3. CASE hydraters'[g].stack = <<>>
      <4>1. 0 <= KeyDepth(Level) - e[m]
        BY <1>4, <1>9
      <4> QED
        BY <3>3, <4>1
    <3> QED
      BY <1>12, <3>2, <3>3
  <2> QED
    BY <1>12, <2>1, <2>2
<1>14. Handling(e)'
  BY <1>10, <1>11, <1>13 DEF Handling
<1>15. InScript(p)'
  BY <1>0, <1>1, <1>2, <1>3, <1>7, <1>8 DEF InScript
<1> QED
  BY <1>3, <1>14, <1>15 DEF Progress

LEMMA OutermostBegins ==
    ASSUME ScriptsBracketed, SettledInv, ParseTurn
    PROVE  \E q, d : Progress(q, d)'
<1>0. PICK k : k = Len(hydraters)
  OBVIOUS
<1>1. /\ JrqInv /\ calls = <<>> /\ at = 1 /\ k \in Nat /\ hydraters \in Seq(Hydrater)
      /\ keyStack = <<>> /\ objectDepth = -1 /\ \A h \in 1..k : hydraters[h].stack = <<>>
      /\ UNCHANGED <<session, count, at, keyStack, objectDepth>>
  <2>1. JrqInv /\ main = "loop" /\ UNCHANGED <<session, count, at, keyStack, objectDepth>>
    BY DEF SettledInv, ParseTurn, Create
  <2> QED
    BY <1>0, <2>1, Lengths DEF SettledInv, Settled, JrqInv, ControlOK, HeapInv
<1>2. /\ Len(Script) \in Nat /\ Trail(Script) \in [0..(Len(Script) + 1) -> Levels]
      /\ IsTrail(Trail(Script), Script)
  BY <1>1, ScriptTrail
<1>3. /\ Script' = Script /\ (at - 1)' = 0 /\ Level' = Trail(Script)[0]
      /\ Level' = [parsers |-> 1, where |-> "outside"]
  <2>1. at' - 1 = 0 /\ Script' = Script
    BY <1>1 DEF Script
  <2>2. Level' = Trail(Script)[0]
    BY <2>1 DEF Level
  <2> QED
    BY <1>2, <2>1, <2>2 DEF IsTrail
<1>4. Depth(Level') = 0 /\ KeyDepth(Level') = 0 /\ Level'.parsers = 1
  BY <1>3 DEF Depth, KeyDepth
<1>5. Creating(k + 1).call = "create" /\ Parsing.call = "parse"
  BY DEF Creating, Parsing
<1>6. PICK z, o : z[0] = 0 /\ o = 0 /\ o \in Nat /\ o + 1 = 1
  <2>1. PICK z : z = [i \in 0..0 |-> 0]
    OBVIOUS
  <2>2. z[0] = 0 /\ 0 = 0 /\ 0 \in Nat /\ 0 + 1 = 1
    BY <2>1
  <2> QED
    BY <2>2, Zenon
<1>7. Stacked(<<>>, z, z)
  <2>1. \A i \in 0..0 : z[i] \in Nat /\ z[i] <= z[i]
    BY <1>6
  <2> QED
    BY <1>6, <2>1 DEF Stacked
<1>8. \/ calls' = <<Parsing>> /\ hydraters' = hydraters
      \/ calls' = <<Creating(k + 1), Parsing>> /\ hydraters' = Append(hydraters, NewHydrater)
  <2>1. calls \o <<Creating(k + 1), Parsing>> = <<Creating(k + 1), Parsing>>
    BY <1>1
  <2> QED
    BY <1>0, <2>1 DEF ParseTurn, Create, createVars
<1>9. calls'[Len(calls')].call = "parse" /\ calls' # <<>> /\ Len(calls') \in Nat
  <2>1. CASE calls' = <<Parsing>>
    BY <1>5, <2>1
  <2>2. CASE calls' = <<Creating(k + 1), Parsing>>
    <3>1. Len(calls') = 2 /\ calls'[2] = Parsing /\ calls' # <<>>
      BY <2>2
    <3> QED
      BY <1>5, <3>1
  <2> QED
    BY <1>8, <2>1, <2>2
<1>10. PICK q, d : Stacked(calls', q, d) /\ q[Len(calls')] = 1 /\ d[Len(calls')] = 0
  <2>1. \A f : <<f>>[1] = f /\ Len(<<f>>) = 1
    OBVIOUS
  <2>2. CASE calls' = <<Parsing>>
    <3>1. PICK t, s : /\ t = calls' /\ Len(t) = o + 1 /\ t[o + 1].call = "parse"
                      /\ s = <<>> /\ Len(s) = o /\ \A i \in 1..o : t[i] = s[i]
      BY <1>5, <1>6, <2>2
    <3>2. Counted(t, o + 1, z[o] + 1, z[o])
      <4>1. Stacked(s, z, z) /\ ~(o > 0)
        BY <1>6, <1>7, <3>1
      <4> QED
        BY <1>6, <3>1, <4>1, StackGrows
    <3> QED
      BY <1>6, <3>1, <3>2 DEF Counted
  <2>3. CASE calls' = <<Creating(k + 1), Parsing>>
    <3>1. PICK s : s = <<Creating(k + 1)>>
      OBVIOUS
    <3>2. Len(s) = 1 /\ s[1].call = "create"
      BY <1>5, <2>1, <3>1
    <3>3. Counted(s, o + 1, z[o], z[o])
      <4>1. PICK r : /\ r = <<>> /\ Len(r) = o /\ (\A i \in 1..o : s[i] = r[i])
                     /\ Len(s) = o + 1 /\ s[o + 1].call = "create" /\ ~(o > 0)
        BY <1>6, <3>2
      <4>2. Stacked(r, z, z)
        BY <1>7, <4>1
      <4> QED
        BY <1>6, <4>1, <4>2, StackGrows
    <3>4. PICK q1, d1 : Stacked(s, q1, d1) /\ q1[1] = 0 /\ d1[1] = 0
      BY <1>6, <3>3 DEF Counted
    <3>5. PICK t : t = calls'
      OBVIOUS
    <3>6. Len(t) = 1 + 1 /\ (\A i \in 1..1 : t[i] = s[i]) /\ t[1 + 1].call = "parse"
      BY <1>5, <2>3, <3>1, <3>5
    <3>7. Counted(t, 1 + 1, q1[1] + 1, d1[1])
      BY <3>2, <3>4, <3>6, StackGrows
    <3> QED
      BY <3>4, <3>5, <3>6, <3>7 DEF Counted
  <2> QED
    BY <1>8, <2>2, <2>3
<1>11. ~Running("emit")' /\ ~Running("create")'
  BY <1>9 DEF Running
<1>12. /\ OwedDepth' = 0 /\ (\A h : Owed(h)' = 0) /\ ~Owes(1)' /\ Waiting(d)' = 0 /\ Unpushed(d)' = 0
  <2>1. \A h : ~Owes(h)'
    BY <1>11 DEF Owes
  <2>2. Waiting(d)' = 0
    <3>1. d[Len(calls')] - 0 = 0
      BY <1>10
    <3> QED
      BY <1>11, <3>1 DEF Waiting
  <2> QED
    BY <2>1, <2>2 DEF OwedDepth, Owed, Unpushed
<1>13. \A h \in 1..Len(hydraters') : hydraters'[h].stack = <<>>
  <2>1. CASE hydraters' = hydraters
    BY <1>0, <1>1, <2>1
  <2>2. CASE hydraters' = Append(hydraters, NewHydrater)
    <3>1. \A h \in 1..(k + 1) : h = k + 1 \/ h \in 1..k
      BY <1>1
    <3>2. /\ Len(hydraters') = k + 1 /\ hydraters'[k + 1] = NewHydrater
          /\ \A h \in 1..k : hydraters'[h] = hydraters[h]
      BY <1>0, <1>1, <2>2
    <3>3. NewHydrater.stack = <<>>
      BY DEF NewHydrater
    <3> QED
      BY <1>1, <3>1, <3>2, <3>3
  <2> QED
    BY <1>8, <2>1, <2>2
<1>14. Handling(d)'
  <2>1. Len(keyStack') = 0 /\ objectDepth' = -1
    BY <1>1
  <2>2. \A h \in 1..Len(hydraters') : Len(hydraters'[h].stack) = 0
    BY <1>13
  <2> QED
    BY <1>4, <1>12, <2>1, <2>2 DEF Handling
<1>15. InScript(q)'
  <2>1. 0 \in 0..(Len(Script') + 1)
    BY <1>2, <1>3
  <2> QED
    BY <1>3, <1>4, <1>10, <1>11, <1>12, <2>1 DEF InScript
<1> QED
  BY <1>10, <1>14, <1>15 DEF Progress

LEMMA NothingLeft ==
    ASSUME ScriptsBracketed, JrqInv, NEW p, NEW e, Progress(p, e), calls = <<>>
    PROVE  /\ keyStack = <<>> /\ objectDepth = -1
           /\ \A h \in 1..Len(hydraters) : hydraters[h].stack = <<>>
<1>1. /\ Stacked(calls, p, e) /\ InScript(p) /\ Len(calls) = 0
      /\ objectDepth = Depth(Level) - 1 - OwedDepth
      /\ Len(keyStack) <= KeyDepth(Level) - Unpushed(e) - Owed(1)
      /\ \A h \in 1..Len(hydraters) :
           Len(hydraters[h].stack) <= KeyDepth(Level) - Waiting(e) - Owed(h + 1)
  BY DEF Progress, Handling
<1>2. p[0] = 0 /\ e[0] = 0
  BY <1>1 DEF Stacked
<1>3. Depth(Level) = 0 /\ KeyDepth(Level) = 0
  BY <1>1, <1>2, LastLevel DEF InScript
<1>4. ~Running("emit")
  BY DEF Running
<1>5. OwedDepth = 0 /\ (\A h : Owed(h) = 0) /\ Waiting(e) = 0 /\ Unpushed(e) = 0
  <2>1. OwedDepth = 0 /\ (\A h : Owed(h) = 0) /\ Waiting(e) = 0
    BY <1>1, <1>2, <1>4, Resting
  <2> QED
    BY <2>1 DEF Unpushed
<1>6. objectDepth = -1 /\ Len(keyStack) <= 0
  BY <1>1, <1>3, <1>5
<1>7. \A h \in 1..Len(hydraters) : Len(hydraters[h].stack) <= 0
  BY <1>1, <1>3, <1>5
<1>8. keyStack \in Seq(Keys) /\ \A h \in 1..Len(hydraters) : hydraters[h].stack \in Seq(Objects)
  <2>1. keyStack \in Seq(Keys) /\ hydraters \in Seq(Hydrater)
    BY DEF JrqInv, SelectionOK, HeapInv
  <2>2. \A h \in 1..Len(hydraters) : hydraters[h] \in Hydrater
    BY <2>1
  <2> QED
    BY <2>1, <2>2 DEF Hydrater
<1>9. \A S : \A s \in Seq(S) : Len(s) <= 0 => s = <<>>
  OBVIOUS
<1> QED
  BY <1>6, <1>7, <1>8, <1>9

LEMMA SettledInvStays ==
    ASSUME ScriptsBracketed, SettledInv, [Next]_vars
    PROVE  SettledInv'
<1>1. JrqInv /\ JrqInv' /\ (main = "parsing" => \E p, e : Progress(p, e))
  BY JrqInvStays DEF SettledInv
<1>2. CASE main' = "failed"
  BY <1>1, <1>2 DEF SettledInv, Settled
<1>3. CASE calls # <<>> /\ main' # "failed" /\ ~UNCHANGED vars
  <2>1. main = "parsing"
    BY <1>1, <1>3, CurrentFrame
  <2>2. PICK p, e : Progress(p, e)
    BY <1>1, <2>1
  <2>3. main' = main /\ \E q, d : Progress(q, d)'
    <3>1. CASE ParserEmits
      BY <1>1, <2>2, <3>1, EmitsInOrder DEF ParserEmits
    <3>2. CASE ParserCalls
      BY <1>1, <2>2, <3>2, CallsInOrder DEF ParserCalls
    <3>3. CASE ParserReturns
      BY <1>1, <2>2, <3>3, ReturnsInOrder DEF ParserReturns
    <3>4. CASE EmitDone
      BY <1>1, <2>2, <3>4, EmissionEnds DEF EmitDone
    <3>5. CASE HydraterHandles
      <4>1. main' = main
        BY <1>3, <3>5 DEF HydraterHandles, Throw
      <4> QED
        BY <1>1, <1>3, <2>2, <3>5, <4>1, HydratersFollow
    <3>6. CASE JrqFoundKey \/ JrqFoundValue \/ JrqEnd
      <4>1. main' = main
        BY <1>3, <3>6 DEF JrqFoundKey, JrqFoundValue, JrqEnd, JrqReturns, Throw
      <4> QED
        BY <1>1, <1>3, <2>2, <3>6, <4>1, FindsAndEnds
    <3>7. CASE JrqStartObject \/ JrqStartArray
      <4>1. main' = main
        BY <3>7 DEF JrqStartObject, JrqStartArray, JrqReturns
      <4> QED
        BY <1>1, <2>2, <3>7, <4>1, StartsInOrder
    <3>8. CASE CreateReturns
      BY <1>1, <2>2, <3>8, HydraterReturns DEF CreateReturns
    <3> QED
      BY <1>3, <2>1, <3>1, <3>2, <3>3, <3>4, <3>5, <3>6, <3>7, <3>8
         DEF Next, StackTooLong, Throw, ParseTurn, WriteTurn, JrqExited
  <2> QED
    BY <1>1, <2>1, <2>3 DEF SettledInv, Settled
<1>4. CASE calls = <<>> /\ ~UNCHANGED vars
  <2>1. ParseTurn \/ WriteTurn
    BY <1>4 DEF Next, ParserEmits, ParserCalls, ParserReturns, EmitDone, HydraterHandles, JrqFoundKey,
                JrqFoundValue, JrqStartObject, JrqStartArray, JrqEnd, StackTooLong, CreateReturns,
                JrqExited, OnEvent, Running
  <2>2. CASE ParseTurn
    <3>1. main' = "parsing"
      BY <2>2 DEF ParseTurn
    <3> QED
      BY <1>1, <2>2, <3>1, OutermostBegins DEF SettledInv, Settled
  <2>3. CASE WriteTurn
    <3>1. main = "parsing" /\ main' \in {"loop", "done"} /\ (main' = "loop" => at' = 1)
          /\ UNCHANGED <<keyStack, objectDepth, hydraters>>
      BY <2>3 DEF WriteTurn, createVars
    <3>2. /\ keyStack = <<>> /\ objectDepth = -1
          /\ \A h \in 1..Len(hydraters) : hydraters[h].stack = <<>>
      BY <1>1, <1>4, <3>1, NothingLeft
    <3> QED
      BY <1>1, <3>1, <3>2 DEF SettledInv, Settled
  <2> QED
    BY <2>1, <2>2, <2>3
<1>5. CASE UNCHANGED vars
  <2>1. UNCHANGED <<session, count, at, main, calls, keyStack, objectDepth, hydraters>>
    BY <1>5 DEF vars, selectionVars, createVars
  <2>2. \A p, e : Progress(p, e)' <=> Progress(p, e)
    BY <2>1 DEF Progress, InScript, Handling, Level, Script, Running, Current, Owes, Owed, OwedDepth,
                Waiting, Unpushed
  <2>3. Settled' <=> Settled
    BY <2>1 DEF Settled
  <2> QED
    BY <1>1, <2>1, <2>2, <2>3 DEF SettledInv
<1> QED
  BY <1>2, <1>3, <1>4, <1>5

---------------------------------------------------------------------------
\* When every script is that of a complete document, whatever is selected,
\* hydrated or left to stale hydraters: between documents keyStack is empty,
\* objectDepth where it was, and the stack of every hydrater ever made empty.
THEOREM AlwaysSettled ==
    ASSUME ScriptsBracketed
    PROVE  Spec => []Settled
<1>1. Init => SettledInv
  <2> SUFFICES ASSUME Init PROVE SettledInv
    OBVIOUS
  <2>1. JrqInv
    BY JrqInvInitially
  <2> QED
    BY <2>1 DEF Init, SettledInv, Settled
<1>2. SettledInv /\ [Next]_vars => SettledInv'
  BY SettledInvStays
<1>3. SettledInv => Settled
  BY DEF SettledInv
<1> QED
  BY <1>1, <1>2, <1>3, PTL DEF Spec

---------------------------------------------------------------------------
(* The open containers. *)

\* What the n-th item makes of them.
OpensWith(script, n, open) ==
    IF n > Len(script) THEN open
    ELSE IF Announces(script[n]) THEN Append(open, script[n])
    ELSE IF Concludes(script[n]) THEN Front(open)
    ELSE open

OpenFollows(script, open) ==
    /\ open \in [0..(Len(script) + 1) -> Seq(Items)]
    /\ open[0] = <<>>
    /\ \A n \in 1..(Len(script) + 1) : open[n] = OpensWith(script, n, open[n - 1])

LEMMA OpensWithIsSeq ==
    ASSUME NEW script \in Seq(Items), NEW n \in 1..(Len(script) + 1), NEW open \in Seq(Items)
    PROVE  OpensWith(script, n, open) \in Seq(Items)
<1>1. CASE n > Len(script)
  BY <1>1 DEF OpensWith
<1>2. CASE ~(n > Len(script))
  <2>1. script[n] \in Items
    BY <1>2
  <2>2. Append(open, script[n]) \in Seq(Items)
    BY <2>1
  <2>3. Front(open) \in Seq(Items)
    <3>1. \A i \in 1..(Len(open) - 1) : open[i] \in Items
      OBVIOUS
    <3> QED
      BY <3>1, SubSeqProperties DEF Front
  <2> QED
    BY <1>2, <2>2, <2>3 DEF OpensWith
<1> QED
  BY <1>1, <1>2

LEMMA OpenItemsFollow ==
    ASSUME NEW script \in Seq(Items)
    PROVE  OpenFollows(script, OpenItems(script))
<1> DEFINE m == Len(script) + 1
           V == Seq(Items)
           none == <<>>
           before == [n \in 1..m |-> n - 1]
           step == [n \in 1..m |-> [open \in V |-> OpensWith(script, n, open)]]
<1>1. m \in Nat
  OBVIOUS
<1>2. none \in V
  OBVIOUS
<1>3. LooksBack(before, m)
  BY <1>1 DEF LooksBack
<1>4. step \in [1..m -> [V -> V]]
  BY OpensWithIsSeq
<1>5. PICK f \in [0..m -> V] : Follows(f, m, none, before, step)
  <2> HIDE DEF m, V, before, step, none
  <2> QED
    BY <1>1, <1>2, <1>3, <1>4, RecursionDefines
<1>6. f[0] = <<>> /\ \A n \in 1..m : f[n] = OpensWith(script, n, f[n - 1])
  <2>1. \A n \in 1..m : n - 1 \in 0..m /\ f[n - 1] \in V /\ before[n] = n - 1
    <3>1. \A n \in 1..m : before[n] = n - 1
      OBVIOUS
    <3> HIDE DEF m, V, before
    <3> QED
      BY <1>1, <1>5, <3>1
  <2>2. f[0] = none /\ \A n \in 1..m : f[n] = step[n][f[before[n]]]
    <3> HIDE DEF m, V, before, step, none
    <3> QED
      BY <1>5 DEF Follows
  <2> QED
    BY <2>1, <2>2
<1> DEFINE D(g) == [n \in 0..m |->
                      IF n = 0 THEN <<>>
                      ELSE IF n > Len(script) THEN g[n - 1]
                      ELSE IF Announces(script[n]) THEN Append(g[n - 1], script[n])
                      ELSE IF Concludes(script[n]) THEN Front(g[n - 1])
                      ELSE g[n - 1]]
<1>7. \A g : D(g) = [n \in 0..m |-> IF n = 0 THEN <<>> ELSE OpensWith(script, n, g[n - 1])]
  BY DEF OpensWith
<1>8. f = D(f)
  <2>1. \A n \in 0..m : n = 0 \/ n \in 1..m
    BY <1>1
  <2>2. f = [n \in 0..m |-> IF n = 0 THEN <<>> ELSE OpensWith(script, n, f[n - 1])]
    <3> HIDE DEF V, m
    <3> QED
      BY <1>5, <1>6, <2>1
  <2> QED
    BY <1>7, <2>2
<1>9. OpenItems(script) = CHOOSE g : g = D(g)
  BY DEF OpenItems
<1> DEFINE g == OpenItems(script)
<1>10. g = D(g)
  <2> HIDE DEF D
  <2> QED
    BY <1>8, <1>9
<1>11. \A n \in 1..m : g[n] = OpensWith(script, n, g[n - 1])
  <2>1. g = [n \in 0..m |-> IF n = 0 THEN <<>> ELSE OpensWith(script, n, g[n - 1])]
    BY <1>7, <1>10
  <2>2. \A n \in 1..m : n \in 0..m /\ n # 0
    BY <1>1
  <2> HIDE DEF g, m
  <2> QED
    BY <2>1, <2>2
<1>12. DOMAIN g = 0..m /\ g[0] = <<>>
  <2>1. g = [n \in 0..m |-> IF n = 0 THEN <<>> ELSE OpensWith(script, n, g[n - 1])]
    BY <1>7, <1>10
  <2> HIDE DEF g
  <2> QED
    BY <1>1, <2>1
<1> DEFINE S == {n \in Nat : n <= m => g[n] \in V}
<1>13. 0 \in S
  BY <1>2, <1>12
<1>14. ASSUME NEW n \in Nat, n \in S PROVE n + 1 \in S
  <2>1. SUFFICES ASSUME n + 1 <= m PROVE g[n + 1] \in V
    OBVIOUS
  <2>2. n + 1 \in 1..m /\ (n + 1) - 1 = n /\ g[n] \in V
    BY <1>1, <1>14, <2>1
  <2>3. g[n + 1] = OpensWith(script, n + 1, g[n])
    BY <1>11, <2>2
  <2> HIDE DEF g
  <2> QED
    BY <2>2, <2>3, OpensWithIsSeq
<1>15. \A n \in 0..m : g[n] \in V
  <2>1. S = Nat
    <3> HIDE DEF S
    <3>1. S \subseteq Nat
      BY DEF S
    <3> QED
      BY <1>13, <1>14, <3>1, Induction
  <2> HIDE DEF g, V
  <2> QED
    BY <1>1, <2>1
<1>16. g = [n \in 0..m |-> g[n]]
  <2>1. g = [n \in 0..m |-> IF n = 0 THEN <<>> ELSE OpensWith(script, n, g[n - 1])]
    BY <1>7, <1>10
  <2> HIDE DEF g
  <2> QED
    BY <2>1
<1>17. g \in [0..m -> V]
  <2> HIDE DEF g, V, m
  <2> QED
    BY <1>15, <1>16
<1> QED
  BY <1>11, <1>12, <1>17 DEF OpenFollows

LEMMA FrontOf ==
    ASSUME NEW S, NEW s \in Seq(S), Len(s) > 0
    PROVE  /\ Front(s) \in Seq(S) /\ Len(Front(s)) = Len(s) - 1
           /\ \A i \in 1..(Len(s) - 1) : Front(s)[i] = s[i]
           /\ s = Append(Front(s), s[Len(s)]) /\ s[Len(s)] \in S
<1> DEFINE n == Len(s)
           t == SubSeq(s, 1, n - 1)
<1>1. n \in Nat /\ n > 0 /\ \A i \in 1..n : s[i] \in S
  OBVIOUS
<1>2. /\ t \in Seq(S) /\ Len(t) = n - 1
      /\ \A i \in 1..(n - 1) : t[i] = s[i]
  <2>1. \A i \in 1..(n - 1) : s[i] \in S
    BY <1>1
  <2>2. /\ t \in Seq(S) /\ Len(t) = (IF 1 <= n - 1 THEN (n - 1) - 1 + 1 ELSE 0)
        /\ \A i \in 1..((n - 1) - 1 + 1) : t[i] = s[1 + i - 1]
    BY <2>1, SubSeqProperties
  <2> HIDE DEF t, n
  <2>3. (n - 1) - 1 + 1 = n - 1 /\ (n - 1 = 0 \/ 1 <= n - 1) /\ \A i \in 1..(n - 1) : 1 + i - 1 = i
    BY <1>1
  <2> QED
    BY <1>1, <2>2, <2>3
<1>3. Front(s) = t
  BY DEF Front
<1> HIDE DEF t
<1>4. s[n] \in S
  BY <1>1
<1> DEFINE a == Append(t, s[n])
<1>5. a \in Seq(S) /\ Len(a) = n /\ \A i \in 1..n : a[i] = s[i]
  <2>1. Len(a) = n /\ (\A i \in 1..(n - 1) : a[i] = t[i]) /\ a[n] = s[n] /\ a \in Seq(S)
    BY <1>1, <1>2, <1>4
  <2>2. \A i \in 1..n : i = n \/ i \in 1..(n - 1)
    BY <1>1
  <2> HIDE DEF a, n
  <2> QED
    BY <1>2, <2>1, <2>2
<1>6. s = a
  <2> HIDE DEF a
  <2> QED
    BY <1>5, SeqEqual
<1> QED
  BY <1>2, <1>3, <1>4, <1>6

\* Their number is what the trail of the script says.
LEMMA OpensLength ==
    ASSUME NEW script \in Seq(Items), NEW n \in 1..(Len(script) + 1), NEW open \in Seq(Items),
           NEW from \in Levels, NEW to \in Levels, from.parsers > 0,
           Takes(from, IF n = Len(script) + 1 THEN Return ELSE script[n], to),
           Len(open) = KeyDepth(from)
    PROVE  /\ Len(OpensWith(script, n, open)) = KeyDepth(to)
           /\ n <= Len(script) /\ Concludes(script[n]) => from.where = "nested" /\ open # <<>>
<1> DEFINE item == IF n = Len(script) + 1 THEN Return ELSE script[n]
<1>1. from = [parsers |-> from.parsers, where |-> from.where] /\ from.parsers \in Nat
  BY DEF Levels
<1>2. KeyDepth(to) = KeyDepth(from) + KeyShift(item)
  BY Moves
<1>3. Call.event = "call" /\ Return.event = "return"
  BY DEF Call, Return
<1>4. Concludes(item) => from.where = "nested"
  <2>1. Concludes(item) => ~Starts(item) /\ Ends(item) /\ Keyed(item)
                           /\ item.event \notin {"foundKey", "foundValue"} /\ item # Call /\ item # Return
    BY <1>3 DEF Concludes, Ends, Starts
  <2> HIDE DEF item
  <2>2. Takes(from, item, to)
    BY DEF item
  <2> QED
    BY <2>1, <2>2 DEF Takes
<1>5. Concludes(item) => Len(open) > 0
  BY <1>1, <1>4 DEF KeyDepth
<1>6. CASE n > Len(script)
  <2>1. item = Return /\ n = Len(script) + 1
    BY <1>6
  <2>2. KeyShift(item) = 0
    BY <2>1, <1>3 DEF KeyShift, Shift, Starts, Ends
  <2>3. KeyDepth(from) \in Int
    BY <1>1 DEF KeyDepth
  <2>4. OpensWith(script, n, open) = open
    BY <1>6 DEF OpensWith
  <2> QED
    BY <1>2, <1>6, <2>2, <2>3, <2>4
<1>7. CASE n <= Len(script)
  <2>1. item = script[n] /\ item \in Items /\ n # Len(script) + 1 /\ ~(n > Len(script))
    BY <1>7
  <2>2. OpensWith(script, n, open) =
          IF Announces(item) THEN Append(open, item) ELSE IF Concludes(item) THEN Front(open) ELSE open
    <3> HIDE DEF item
    <3> QED
      BY <2>1 DEF OpensWith
  <2> HIDE DEF item
  <2>3. /\ Announces(item) => KeyShift(item) = 1
        /\ Concludes(item) => KeyShift(item) = -1 /\ ~Announces(item)
        /\ ~Announces(item) /\ ~Concludes(item) => KeyShift(item) = 0
    BY DEF Announces, Concludes, KeyShift, Shift, Starts, Ends
  <2>4. KeyDepth(from) \in Int
    BY <1>1 DEF KeyDepth
  <2>8. Concludes(script[n]) => from.where = "nested" /\ open # <<>>
    BY <1>4, <1>5, <2>1
  <2>5. CASE Announces(item)
    BY <1>2, <2>1, <2>2, <2>3, <2>4, <2>5, <2>8
  <2>6. CASE Concludes(item)
    <3>1. Len(Front(open)) = Len(open) - 1
      BY <1>5, <2>6, FrontOf
    <3>2. OpensWith(script, n, open) = Front(open) /\ KeyShift(item) = -1
      BY <2>2, <2>3, <2>6
    <3> QED
      BY <1>2, <2>4, <2>8, <3>1, <3>2
  <2>7. CASE ~Announces(item) /\ ~Concludes(item)
    <3>1. OpensWith(script, n, open) = open /\ KeyShift(item) = 0
      BY <2>2, <2>3, <2>7
    <3> QED
      BY <1>2, <2>4, <2>8, <3>1
  <2> QED
    BY <1>7, <2>5, <2>6, <2>7
<1> QED
  BY <1>6, <1>7

LEMMA OpenLengths ==
    ASSUME NEW script \in Seq(Items), NEW levels \in [0..(Len(script) + 1) -> Levels],
           IsTrail(levels, script)
    PROVE  \A n \in 0..(Len(script) + 1) : Len(OpenItems(script)[n]) = KeyDepth(levels[n])
<1> DEFINE m == Len(script) + 1
           g == OpenItems(script)
           S == {n \in Nat : n <= m => Len(g[n]) = KeyDepth(levels[n])}
<1>1. m \in Nat /\ m > 0 /\ OpenFollows(script, g)
  BY OpenItemsFollow
<1> HIDE DEF g
<1>2. 0 \in S
  <2>1. KeyDepth(levels[0]) = 0
    BY DEF IsTrail, KeyDepth
  <2>2. Len(g[0]) = 0
    BY <1>1 DEF OpenFollows
  <2> QED
    BY <2>1, <2>2
<1>3. ASSUME NEW n \in Nat, n \in S PROVE n + 1 \in S
  <2>1. SUFFICES ASSUME n + 1 <= m PROVE Len(g[n + 1]) = KeyDepth(levels[n + 1])
    OBVIOUS
  <2>2. /\ n \in 0..Len(script) /\ n + 1 \in 1..m /\ (n + 1) - 1 = n /\ n \in 0..m /\ n + 1 \in 0..m
        /\ Len(g[n]) = KeyDepth(levels[n]) /\ (n = Len(script) <=> n + 1 = Len(script) + 1)
    BY <1>1, <1>3, <2>1
  <2>3. g[n + 1] = OpensWith(script, n + 1, g[n]) /\ g[n] \in Seq(Items)
    BY <2>2, SMTT(30) DEF OpenFollows, g
  <2>4. levels[n] \in Levels /\ levels[n + 1] \in Levels /\ levels[n].parsers > 0
    BY <2>2 DEF IsTrail
  <2>5. Takes(levels[n], IF n + 1 = Len(script) + 1 THEN Return ELSE script[n + 1], levels[n + 1])
    BY <2>2 DEF IsTrail
  <2> HIDE DEF m, S
  <2> QED
    BY <2>2, <2>3, <2>4, <2>5, OpensLength DEF m
<1>4. Nat \subseteq S
  <2> HIDE DEF S
  <2> QED
    BY <1>2, <1>3, Induction
<1>5. \A n \in 0..m : n \in S
  BY <1>1, <1>4
<1> QED
  BY <1>1, <1>5 DEF g

---------------------------------------------------------------------------
(* The calls. *)

IsParse(frame) == frame.call = "parse"

LEMMA ParsersStep ==
    ASSUME NEW frames, NEW n \in Nat
    PROVE  /\ Parsers(frames, 0) = 0
           /\ Parsers(frames, n) \in Nat
           /\ Parsers(frames, n + 1) = Parsers(frames, n) + (IF IsParse(frames[n + 1]) THEN 1 ELSE 0)
<1> DEFINE P(k) == {i \in 1..k : frames[i].call = "parse"}
<1>1. \A k \in Nat : IsFiniteSet(P(k)) /\ Cardinality(P(k)) \in Nat
  <2> SUFFICES ASSUME NEW k \in Nat PROVE IsFiniteSet(P(k)) /\ Cardinality(P(k)) \in Nat
    OBVIOUS
  <2>1. IsFiniteSet(1..k)
    BY FS_Interval
  <2>2. IsFiniteSet(P(k))
    BY <2>1, FS_Subset
  <2> QED
    BY <2>2, FS_CardinalityType
<1>2. \A k : Parsers(frames, k) = Cardinality(P(k))
  BY DEF Parsers
<1>3. Parsers(frames, 0) = 0
  <2>1. P(0) = {}
    OBVIOUS
  <2> HIDE DEF P
  <2> QED
    BY <1>2, <2>1, FS_EmptySet
<1>4. CASE IsParse(frames[n + 1])
  <2>1. P(n + 1) = P(n) \cup {n + 1} /\ n + 1 \notin P(n)
    BY <1>4 DEF IsParse
  <2> HIDE DEF P
  <2>2. Cardinality(P(n) \cup {n + 1}) = Cardinality(P(n)) + 1
    BY <1>1, <2>1, FS_AddElement
  <2> QED
    BY <1>1, <1>2, <1>3, <1>4, <2>1, <2>2
<1>5. CASE ~IsParse(frames[n + 1])
  <2>1. P(n + 1) = P(n)
    BY <1>5 DEF IsParse
  <2> HIDE DEF P
  <2> QED
    BY <1>1, <1>2, <1>3, <1>5, <2>1
<1> QED
  BY <1>4, <1>5

LEMMA ParsersGrow ==
    ASSUME NEW frames, NEW i \in Nat, NEW j \in Nat, i <= j
    PROVE  Parsers(frames, i) <= Parsers(frames, j)
<1> DEFINE P(k) == {l \in 1..k : frames[l].call = "parse"}
<1>1. IsFiniteSet(P(j))
  <2>1. IsFiniteSet(1..j)
    BY FS_Interval
  <2> QED
    BY <2>1, FS_Subset
<1>2. P(i) \subseteq P(j)
  OBVIOUS
<1>3. Parsers(frames, i) = Cardinality(P(i)) /\ Parsers(frames, j) = Cardinality(P(j))
  BY DEF Parsers
<1> HIDE DEF P
<1> QED
  BY <1>1, <1>2, <1>3, FS_Subset

\* The calls are the same so far.
SameCalls(frames, others, n) == \A i \in 1..n : frames[i].call = others[i].call

LEMMA SameParsers ==
    ASSUME NEW frames, NEW others, NEW n \in Nat, SameCalls(frames, others, n)
    PROVE  Parsers(frames, n) = Parsers(others, n)
BY DEF SameCalls, Parsers

\* The emissions among the first n calls.
EmissionsUpTo(frames, n) == {Parsers(frames, i) : i \in {i \in 1..n : frames[i].call = "emit"}}

LEMMA HydratingIs ==
    ASSUME NEW frames PROVE Hydrating(frames) = EmissionsUpTo(frames, Len(frames) - 1)
BY DEF Hydrating, EmissionsUpTo

LEMMA SameEmissions ==
    ASSUME NEW frames, NEW others, NEW n \in Nat, SameCalls(frames, others, n)
    PROVE  EmissionsUpTo(frames, n) = EmissionsUpTo(others, n)
<1>1. \A i \in 1..n : Parsers(frames, i) = Parsers(others, i)
  <2> SUFFICES ASSUME NEW i \in 1..n PROVE Parsers(frames, i) = Parsers(others, i)
    OBVIOUS
  <2>1. i \in Nat /\ SameCalls(frames, others, i)
    BY DEF SameCalls
  <2> QED
    BY <2>1, SameParsers
<1> QED
  BY <1>1 DEF EmissionsUpTo, SameCalls

LEMMA EmissionsStep ==
    ASSUME NEW frames, NEW n \in Nat
    PROVE  EmissionsUpTo(frames, n + 1) =
             IF frames[n + 1].call = "emit" THEN EmissionsUpTo(frames, n) \cup {Parsers(frames, n + 1)}
             ELSE EmissionsUpTo(frames, n)
<1>1. 1..(n + 1) = (1..n) \cup {n + 1}
  OBVIOUS
<1> QED
  BY <1>1 DEF EmissionsUpTo

LEMMA EmissionsBound ==
    ASSUME NEW frames, NEW n \in Nat, NEW k \in EmissionsUpTo(frames, n)
    PROVE  k \in Nat /\ k <= Parsers(frames, n)
<1>1. PICK i \in 1..n : k = Parsers(frames, i)
  BY DEF EmissionsUpTo
<1>2. i \in Nat /\ i <= n
  OBVIOUS
<1> QED
  BY <1>1, <1>2, ParsersStep, ParsersGrow

\* Stacked counts the same.
LEMMA StackedParsers ==
    ASSUME NEW frames, Len(frames) \in Nat, NEW p, NEW e, Stacked(frames, p, e)
    PROVE  \A i \in 0..Len(frames) : p[i] = Parsers(frames, i)
<1> DEFINE n == Len(frames)
           S == {i \in Nat : i <= n => p[i] = Parsers(frames, i)}
<1>1. 0 \in S
  <2>1. Parsers(frames, 0) = 0 /\ p[0] = 0
    BY ParsersStep DEF Stacked
  <2> QED
    BY <2>1
<1>2. ASSUME NEW i \in Nat, i \in S PROVE i + 1 \in S
  <2>1. SUFFICES ASSUME i + 1 <= n PROVE p[i + 1] = Parsers(frames, i + 1)
    OBVIOUS
  <2>2. i + 1 \in 1..n /\ i <= n /\ (i + 1) - 1 = i /\ p[i] = Parsers(frames, i)
    BY <1>2, <2>1
  <2>3. \/ frames[i + 1].call = "parse" /\ p[i + 1] = p[i] + 1
        \/ frames[i + 1].call \in {"create", "emit"} /\ p[i + 1] = p[i]
    BY <2>2 DEF Stacked
  <2>4. Parsers(frames, i + 1) = Parsers(frames, i) + (IF IsParse(frames[i + 1]) THEN 1 ELSE 0)
        /\ Parsers(frames, i) \in Nat
    BY ParsersStep
  <2> QED
    BY <2>2, <2>3, <2>4 DEF IsParse
<1>3. Nat \subseteq S
  <2> HIDE DEF S
  <2> QED
    BY <1>1, <1>2, Induction
<1> QED
  BY <1>3

---------------------------------------------------------------------------
(* The keys of the open containers. *)

KeysFor(open, some) == [k \in 1..Len(open) |-> IF k \in some THEN <<>> ELSE <<open[k].key>>]

LEMMA KeysForAre ==
    ASSUME NEW open \in Seq(Items), NEW some
    PROVE  /\ KeysFor(open, some) \in Seq(Seq(Maybe(Keys)))
           /\ KeysWithout(open, some) = FlattenSeq(KeysFor(open, some))
           /\ KeysWithout(open, some) \in Seq(Maybe(Keys))
<1> DEFINE f == KeysFor(open, some)
           S == Maybe(Keys)
<1>1. \A k \in 1..Len(open) : open[k].key \in S
  <2>1. \A item \in Items : item.key \in S
    BY DEF Items
  <2> QED
    BY <2>1
<1>2. \A k \in 1..Len(open) : (IF k \in some THEN <<>> ELSE <<open[k].key>>) \in Seq(S)
  <2> HIDE DEF S
  <2> QED
    BY <1>1
<1>3. f \in [1..Len(open) -> Seq(S)]
  <2> HIDE DEF S
  <2> QED
    BY <1>2 DEF KeysFor
<1>4. f \in Seq(Seq(S))
  <2> DEFINE n == Len(open)
  <2>1. n \in Nat
    OBVIOUS
  <2> HIDE DEF f, S, n
  <2> QED
    BY <1>3, <2>1, FunctionIsSeq DEF n
<1>5. KeysWithout(open, some) = FlattenSeq(f)
  <2>1. DOMAIN open = 1..Len(open)
    OBVIOUS
  <2> QED
    BY <2>1 DEF KeysWithout, KeysFor
<1>6. FlattenSeq(f) \in Seq(S)
  <2> HIDE DEF f, S
  <2> QED
    BY <1>4, FlattenIsSeq
<1> QED
  BY <1>4, <1>5, <1>6

LEMMA KeysNone == ASSUME NEW some PROVE KeysWithout(<<>>, some) = <<>>
<1>1. KeysWithout(<<>>, some) = FlattenSeq(<<>>)
  BY DEF KeysWithout
<1> QED
  BY <1>1, FlattenNone

LEMMA KeysSame ==
    ASSUME NEW open \in Seq(Items), NEW some, NEW others,
           \A k \in 1..Len(open) : k \in some <=> k \in others
    PROVE  KeysWithout(open, some) = KeysWithout(open, others)
<1>1. KeysFor(open, some) = KeysFor(open, others)
  BY DEF KeysFor
<1> QED
  BY <1>1, KeysForAre

LEMMA KeysAppend ==
    ASSUME NEW open \in Seq(Items), NEW item \in Items, NEW some
    PROVE  KeysWithout(Append(open, item), some) =
             IF Len(open) + 1 \in some THEN KeysWithout(open, some)
             ELSE Append(KeysWithout(open, some), item.key)
<1> DEFINE S == Maybe(Keys)
           n == Len(open)
           more == Append(open, item)
           f == KeysFor(open, some)
           last == IF n + 1 \in some THEN <<>> ELSE <<item.key>>
<1>1. more \in Seq(Items) /\ Len(more) = n + 1 /\ n \in Nat
      /\ (\A k \in 1..n : more[k] = open[k]) /\ more[n + 1] = item
  OBVIOUS
<1>2. item.key \in S
  BY DEF Items
<1>3. last \in Seq(S)
  <2> HIDE DEF S
  <2> QED
    BY <1>2
<1>4. f \in Seq(Seq(S)) /\ KeysWithout(open, some) = FlattenSeq(f) /\ FlattenSeq(f) \in Seq(S)
  BY KeysForAre
<1>5. KeysWithout(more, some) = FlattenSeq(KeysFor(more, some)) /\ KeysFor(more, some) \in Seq(Seq(S))
  <2> HIDE DEF more
  <2> QED
    BY <1>1, KeysForAre
<1>6. KeysFor(more, some) = Append(f, last)
  <2>1. Len(f) = n
    <3>1. DOMAIN f = 1..n
      BY DEF KeysFor
    <3> HIDE DEF f, n
    <3> QED
      BY <1>1, <1>4, <3>1
  <2>2. KeysFor(more, some) = [k \in 1..(n + 1) |-> IF k \in some THEN <<>> ELSE <<more[k].key>>]
    <3> HIDE DEF more, n
    <3> QED
      BY <1>1 DEF KeysFor
  <2>3. \A k \in 1..n : f[k] = IF k \in some THEN <<>> ELSE <<open[k].key>>
    BY DEF KeysFor
  <2>4. Append(f, last) = [k \in 1..(n + 1) |-> IF k <= n THEN f[k] ELSE last]
    <3> DEFINE T == Seq(S)
               a == Append(f, last)
    <3> HIDE DEF f, last, n, S, T
    <3>1. f \in Seq(T) /\ last \in T
      BY <1>3, <1>4 DEF T
    <3>2. /\ a \in Seq(T) /\ Len(a) = n + 1
          /\ (\A i \in 1..n : a[i] = f[i]) /\ a[n + 1] = last
      BY <2>1, <3>1, AppendProperties
    <3>3. a = [k \in 1..(n + 1) |-> a[k]]
      <4> HIDE DEF a
      <4> QED
        BY <3>2
    <3>4. \A k \in 1..(n + 1) : (k = n + 1 /\ ~(k <= n)) \/ (k \in 1..n /\ k <= n)
      <4>1. n \in Nat
        BY <1>1
      <4> QED
        BY <4>1
    <3> HIDE DEF a
    <3>5. \A k \in 1..(n + 1) : a[k] = IF k <= n THEN f[k] ELSE last
      BY <3>2, <3>4
    <3> QED
      BY <3>3, <3>5 DEF a
  <2>5. \A k \in 1..(n + 1) : (IF k \in some THEN <<>> ELSE <<more[k].key>>) = IF k <= n THEN f[k] ELSE last
    <3> SUFFICES ASSUME NEW k \in 1..(n + 1)
                 PROVE  (IF k \in some THEN <<>> ELSE <<more[k].key>>) = IF k <= n THEN f[k] ELSE last
      OBVIOUS
    <3>1. CASE k <= n
      <4>1. k \in 1..n
        BY <1>1, <3>1
      <4> HIDE DEF f, more, n
      <4> QED
        BY <1>1, <2>3, <3>1, <4>1
    <3>2. CASE ~(k <= n)
      <4>1. k = n + 1
        BY <1>1, <3>2
      <4> HIDE DEF f, more, n
      <4> QED
        BY <1>1, <3>2, <4>1
    <3> QED
      BY <3>1, <3>2
  <2> HIDE DEF f, last, more, n
  <2> QED
    BY <2>2, <2>4, <2>5
<1>7. FlattenSeq(Append(f, last)) = FlattenSeq(f) \o last
  <2> HIDE DEF f, last, S
  <2> QED
    BY <1>3, <1>4, FlattenAppend
<1> DEFINE keys == FlattenSeq(f)
<1>8. keys \o <<>> = keys /\ keys \o <<item.key>> = Append(keys, item.key)
  <2> HIDE DEF keys, S
  <2>1. keys \in Seq(S)
    BY <1>4 DEF keys
  <2> QED
    BY <1>2, <2>1, ConcatEmptySeq, AppendIsConcat
<1>9. KeysWithout(more, some) = keys \o last
  BY <1>5, <1>6, <1>7
<1> HIDE DEF keys, f, more
<1>10. KeysWithout(open, some) = keys
  BY <1>4 DEF keys
<1> QED
  BY <1>8, <1>9, <1>10 DEF more

---------------------------------------------------------------------------
(* What an emission that waits was made for. *)

\* Where it was announced among the open containers.
Marks(frames, open) ==
    \A i \in 1..(Len(frames) - 1) :
        frames[i].call = "emit" =>
            Parsers(frames, i) \in 1..Len(open) /\ open[Parsers(frames, i)] = frames[i].event

LEMMA MarksStay ==
    ASSUME NEW frames, NEW others, NEW open, Marks(frames, open),
           Len(frames) \in Nat, Len(others) \in Nat,
           NEW n \in Int, n <= Len(frames) - 1,
           \A i \in 1..n : others[i] = frames[i],
           \A i \in 1..(Len(others) - 1) : i <= n \/ others[i].call # "emit"
    PROVE  Marks(others, open)
<1> SUFFICES ASSUME NEW i \in 1..(Len(others) - 1), others[i].call = "emit"
             PROVE  Parsers(others, i) \in 1..Len(open) /\ open[Parsers(others, i)] = others[i].event
  BY DEF Marks
<1>1. i \in 1..n /\ i \in 1..(Len(frames) - 1) /\ i \in Nat
  OBVIOUS
<1>2. others[i] = frames[i]
  BY <1>1
<1>3. SameCalls(others, frames, i)
  <2>1. \A j \in 1..i : j \in 1..n
    BY <1>1
  <2> QED
    BY <2>1 DEF SameCalls
<1>4. Parsers(others, i) = Parsers(frames, i)
  BY <1>1, <1>3, SameParsers
<1> QED
  BY <1>1, <1>2, <1>4 DEF Marks

\* The k-th of the open containers stays open.
StaysOpen(k, open, others) == k <= Len(others) /\ others[k] = open[k]

LEMMA MarksOpen ==
    ASSUME NEW frames, NEW open, NEW others, Marks(frames, open),
           \A i \in 1..(Len(frames) - 1) :
               frames[i].call = "emit" => StaysOpen(Parsers(frames, i), open, others),
           Len(open) \in Nat, Len(others) \in Nat
    PROVE  Marks(frames, others)
<1> SUFFICES ASSUME NEW i \in 1..(Len(frames) - 1), frames[i].call = "emit"
             PROVE  Parsers(frames, i) \in 1..Len(others) /\ others[Parsers(frames, i)] = frames[i].event
  BY DEF Marks
<1> DEFINE k == Parsers(frames, i)
<1>1. k \in 1..Len(open) /\ open[k] = frames[i].event
  BY DEF Marks
<1>2. k <= Len(others) /\ others[k] = open[k]
  BY DEF StaysOpen
<1> HIDE DEF k
<1>3. k \in 1..Len(others) /\ others[k] = frames[i].event
  BY <1>1, <1>2
<1> QED
  BY <1>3 DEF k

LEMMA OpensStay ==
    ASSUME NEW script \in Seq(Items), NEW n \in 1..(Len(script) + 1), NEW open \in Seq(Items),
           NEW k \in 1..Len(open), n <= Len(script) /\ Concludes(script[n]) => k < Len(open)
    PROVE  StaysOpen(k, open, OpensWith(script, n, open))
<1>1. Len(open) \in Nat
  OBVIOUS
<1>2. CASE n <= Len(script) /\ Announces(script[n])
  <2> DEFINE others == Append(open, script[n])
  <2>1. script[n] \in Items
    BY <1>2
  <2>2. Len(others) = Len(open) + 1 /\ \A j \in 1..Len(open) : others[j] = open[j]
    BY <2>1
  <2>3. OpensWith(script, n, open) = others
    BY <1>2 DEF OpensWith
  <2> HIDE DEF others
  <2> QED
    BY <1>1, <2>2, <2>3 DEF StaysOpen
<1>3. CASE n <= Len(script) /\ ~Announces(script[n]) /\ Concludes(script[n])
  <2> DEFINE others == Front(open)
  <2>1. k < Len(open) /\ Len(open) > 0
    BY <1>1, <1>3
  <2>2. Len(others) = Len(open) - 1 /\ \A j \in 1..(Len(open) - 1) : others[j] = open[j]
    BY <2>1, FrontOf
  <2>3. OpensWith(script, n, open) = others
    BY <1>3 DEF OpensWith
  <2> HIDE DEF others
  <2> QED
    BY <1>1, <2>1, <2>2, <2>3 DEF StaysOpen
<1>4. CASE ~(n <= Len(script)) \/ (~Announces(script[n]) /\ ~Concludes(script[n]))
  <2>1. OpensWith(script, n, open) = open
    BY <1>4 DEF OpensWith
  <2> QED
    BY <1>1, <2>1 DEF StaysOpen
<1> QED
  BY <1>2, <1>3, <1>4

\* An emission has been made by the innermost parser, and those below it by parsers
\* further out.
LEMMA EmissionsBelow ==
    ASSUME NEW frames, NEW p, NEW e, Stacked(frames, p, e), Len(frames) \in Nat,
           NEW m \in 1..Len(frames), frames[m].call = "emit"
    PROVE  /\ m > 1 /\ EmissionsUpTo(frames, m - 1) = EmissionsUpTo(frames, m - 2)
           /\ Parsers(frames, m) \in Nat
           /\ \A k \in EmissionsUpTo(frames, m - 1) : k \in Nat /\ k < Parsers(frames, m)
<1>1. m > 1 /\ frames[m - 1].call = "parse"
  BY DEF Stacked
<1>2. m - 2 \in Nat /\ (m - 2) + 1 = m - 1 /\ m - 1 \in Nat /\ (m - 1) + 1 = m
  BY <1>1
<1>3. EmissionsUpTo(frames, m - 1) = EmissionsUpTo(frames, m - 2)
  BY <1>1, <1>2, EmissionsStep
<1>4. /\ Parsers(frames, m - 1) = Parsers(frames, m - 2) + 1
      /\ Parsers(frames, m) = Parsers(frames, m - 1) + 0
      /\ Parsers(frames, m - 2) \in Nat
  BY <1>1, <1>2, ParsersStep DEF IsParse
<1>5. \A k \in EmissionsUpTo(frames, m - 2) : k \in Nat /\ k <= Parsers(frames, m - 2)
  BY <1>2, EmissionsBound
<1> QED
  BY <1>1, <1>3, <1>4, <1>5

\* What the innermost call adds, if it is no emission: nothing.
LEMMA NoEmission ==
    ASSUME NEW frames, NEW n \in Nat, n > 0, frames[n].call # "emit"
    PROVE  EmissionsUpTo(frames, n) = EmissionsUpTo(frames, n - 1)
<1>1. n - 1 \in Nat /\ (n - 1) + 1 = n
  OBVIOUS
<1> QED
  BY <1>1, EmissionsStep

\* A parser that is innermost has been called after every emission that waits.
LEMMA MarksBelow ==
    ASSUME NEW frames, NEW p, NEW e, Stacked(frames, p, e), Len(frames) \in Nat,
           Len(frames) > 0, frames[Len(frames)].call = "parse",
           NEW i \in 1..(Len(frames) - 1)
    PROVE  Parsers(frames, i) < Parsers(frames, Len(frames))
<1> DEFINE n == Len(frames)
<1>1. n - 1 \in Nat /\ (n - 1) + 1 = n /\ i \in Nat /\ i <= n - 1
  OBVIOUS
<1>2. Parsers(frames, n) = Parsers(frames, n - 1) + 1 /\ Parsers(frames, n - 1) \in Nat
  BY <1>1, ParsersStep DEF IsParse
<1>3. Parsers(frames, i) <= Parsers(frames, n - 1) /\ Parsers(frames, i) \in Nat
  BY <1>1, ParsersGrow, ParsersStep
<1> QED
  BY <1>2, <1>3

---------------------------------------------------------------------------
(* The last of the open containers. *)

LEMMA KeysFront ==
    ASSUME NEW open \in Seq(Items), Len(open) > 0, NEW some, Len(open) \notin some
    PROVE  KeysWithout(open, some) = Append(KeysWithout(Front(open), some), open[Len(open)].key)
<1> DEFINE f == Front(open)
           last == open[Len(open)]
<1>1. f \in Seq(Items) /\ Len(f) = Len(open) - 1 /\ open = Append(f, last) /\ last \in Items
  BY FrontOf
<1>2. Len(f) + 1 = Len(open)
  BY <1>1
<1> HIDE DEF f, last
<1>3. KeysWithout(Append(f, last), some) = Append(KeysWithout(f, some), last.key)
  BY <1>1, <1>2, KeysAppend
<1> QED
  BY <1>1, <1>3 DEF f, last

\* Those that are no longer open do not matter.
LEMMA KeysBeyond ==
    ASSUME NEW open \in Seq(Items), NEW some, NEW k, k = Len(open) + 1
    PROVE  KeysWithout(open, some \cup {k}) = KeysWithout(open, some)
<1>1. Len(open) \in Nat
  OBVIOUS
<1>2. \A j \in 1..Len(open) : j \in some \cup {k} <=> j \in some
  BY <1>1
<1> QED
  BY <1>2, KeysSame

LEMMA PopsLast ==
    ASSUME NEW S, NEW s \in Seq(S), NEW x \in S
    PROVE  Append(s, x) # <<>> /\ SubSeq(Append(s, x), 1, Len(Append(s, x)) - 1) = s
<1> DEFINE a == Append(s, x)
           n == Len(s)
           t == SubSeq(a, 1, Len(a) - 1)
<1>1. n \in Nat /\ a \in Seq(S) /\ Len(a) = n + 1 /\ a # <<>> /\ \A i \in 1..n : a[i] = s[i]
  OBVIOUS
<1> HIDE DEF a
<1>2. t = Front(a)
  BY DEF Front
<1>3. t \in Seq(S) /\ Len(t) = n /\ \A i \in 1..n : t[i] = a[i]
  BY <1>1, <1>2, FrontOf
<1> HIDE DEF t, n
<1>4. t = s
  <2>1. Len(t) = Len(s) /\ \A i \in 1..Len(t) : t[i] = s[i]
    BY <1>1, <1>3 DEF n
  <2> QED
    BY <1>3, <2>1, SeqEqual
<1> QED
  BY <1>1, <1>4 DEF a, t

---------------------------------------------------------------------------
(* What the calls of an action change. *)

LEMMA MarksMove ==
    ASSUME NEW frames, NEW p, NEW e, Stacked(frames, p, e), Len(frames) \in Nat,
           Len(frames) > 0, frames[Len(frames)].call = "parse",
           NEW script \in Seq(Items), NEW n \in 1..(Len(script) + 1), NEW open \in Seq(Items),
           Marks(frames, open),
           n <= Len(script) /\ Concludes(script[n]) =>
               Len(open) > 0 /\ Len(open) = Parsers(frames, Len(frames))
    PROVE  Marks(frames, OpensWith(script, n, open))
<1> DEFINE others == OpensWith(script, n, open)
<1>1. Len(open) \in Nat /\ Len(others) \in Nat
  <2>1. others \in Seq(Items)
    BY OpensWithIsSeq
  <2> HIDE DEF others
  <2> QED
    BY <2>1
<1>2. ASSUME NEW i \in 1..(Len(frames) - 1), frames[i].call = "emit"
      PROVE  StaysOpen(Parsers(frames, i), open, others)
  <2> DEFINE k == Parsers(frames, i)
  <2>1. k \in 1..Len(open)
    BY <1>2 DEF Marks
  <2>2. k < Parsers(frames, Len(frames))
    BY MarksBelow
  <2> HIDE DEF k
  <2>3. StaysOpen(k, open, others)
    BY <2>1, <2>2, OpensStay
  <2> QED
    BY <2>3 DEF k
<1> HIDE DEF others
<1>3. Marks(frames, others)
  BY <1>1, <1>2, MarksOpen
<1> QED
  BY <1>3 DEF others

LEMMA HydratingStays ==
    ASSUME NEW frames, NEW others, NEW n \in Nat, n > 0, Len(frames) = n, frames[n].call # "emit",
           Len(others) = n + 1, \A i \in 1..n : others[i] = frames[i]
    PROVE  Hydrating(others) = Hydrating(frames)
<1>1. (n + 1) - 1 = n /\ SameCalls(others, frames, n)
  BY DEF SameCalls
<1>2. Hydrating(others) = EmissionsUpTo(others, n) /\ Hydrating(frames) = EmissionsUpTo(frames, n - 1)
  BY <1>1, HydratingIs
<1>3. EmissionsUpTo(others, n) = EmissionsUpTo(frames, n)
  BY <1>1, SameEmissions
<1>4. EmissionsUpTo(frames, n) = EmissionsUpTo(frames, n - 1)
  BY NoEmission
<1> QED
  BY <1>2, <1>3, <1>4

LEMMA HydratingEnds ==
    ASSUME NEW frames, NEW others, NEW n \in Nat, n > 0, Len(frames) = n,
           Len(others) = n - 1, \A i \in 1..(n - 1) : others[i] = frames[i],
           n > 1 => frames[n - 1].call # "emit"
    PROVE  Hydrating(others) = Hydrating(frames)
<1>1. Hydrating(others) = EmissionsUpTo(others, (n - 1) - 1)
      /\ Hydrating(frames) = EmissionsUpTo(frames, n - 1)
  BY HydratingIs
<1>2. CASE n = 1
  <2>1. (n - 1) - 1 = -1 /\ n - 1 = 0
    BY <1>2
  <2>2. 1..(-1) = {} /\ 1..0 = {}
    OBVIOUS
  <2> QED
    BY <1>1, <2>1, <2>2 DEF EmissionsUpTo
<1>3. CASE n > 1
  <2>1. n - 1 \in Nat /\ n - 1 > 0 /\ (n - 1) - 1 \in Nat
    BY <1>3
  <2>2. SameCalls(others, frames, (n - 1) - 1)
    BY DEF SameCalls
  <2>3. EmissionsUpTo(others, (n - 1) - 1) = EmissionsUpTo(frames, (n - 1) - 1)
    BY <2>1, <2>2, SameEmissions
  <2>4. EmissionsUpTo(frames, n - 1) = EmissionsUpTo(frames, (n - 1) - 1)
    BY <1>3, <2>1, NoEmission
  <2> QED
    BY <1>1, <2>3, <2>4
<1> QED
  BY <1>2, <1>3

\* An emission comes to wait for a hydrater and the parser that one calls.
LEMMA HydratingMore ==
    ASSUME NEW frames, NEW others, NEW n \in Nat, n > 0, Len(frames) = n, frames[n].call = "emit",
           Len(others) = n + 2, others[n + 1].call # "emit", \A i \in 1..n : others[i] = frames[i]
    PROVE  Hydrating(others) = Hydrating(frames) \cup {Parsers(frames, n)}
<1>1. /\ n - 1 \in Nat /\ (n - 1) + 1 = n /\ n + 1 \in Nat /\ n + 1 > 0
      /\ (n + 2) - 1 = n + 1 /\ (n + 1) - 1 = n
  OBVIOUS
<1>2. Hydrating(others) = EmissionsUpTo(others, n + 1) /\ Hydrating(frames) = EmissionsUpTo(frames, n - 1)
  BY <1>1, HydratingIs
<1>3. EmissionsUpTo(others, n + 1) = EmissionsUpTo(others, (n + 1) - 1)
  BY <1>1, NoEmission
<1>4. EmissionsUpTo(others, n) = EmissionsUpTo(frames, n)
  <2>1. SameCalls(others, frames, n)
    BY DEF SameCalls
  <2> QED
    BY <2>1, SameEmissions
<1>5. EmissionsUpTo(frames, n) = EmissionsUpTo(frames, n - 1) \cup {Parsers(frames, n)}
  BY <1>1, EmissionsStep, ZenonT(60)
<1> QED
  BY <1>1, <1>2, <1>3, <1>4, <1>5

LEMMA HydratingOver ==
    ASSUME NEW frames, NEW others, NEW m \in Nat, m > 0, Len(frames) = m + 1, frames[m].call = "emit",
           Len(others) = m, \A i \in 1..(m - 1) : others[i] = frames[i]
    PROVE  /\ Hydrating(frames) = Hydrating(others) \cup {Parsers(frames, m)}
           /\ Hydrating(others) = EmissionsUpTo(frames, m - 1)
<1>1. m - 1 \in Nat /\ (m - 1) + 1 = m /\ (m + 1) - 1 = m
  OBVIOUS
<1>2. Hydrating(others) = EmissionsUpTo(others, m - 1) /\ Hydrating(frames) = EmissionsUpTo(frames, m)
  BY <1>1, HydratingIs
<1>3. EmissionsUpTo(others, m - 1) = EmissionsUpTo(frames, m - 1)
  <2>1. SameCalls(others, frames, m - 1)
    BY DEF SameCalls
  <2> QED
    BY <1>1, <2>1, SameEmissions
<1>4. EmissionsUpTo(frames, m) = EmissionsUpTo(frames, m - 1) \cup {Parsers(frames, m)}
  BY <1>1, EmissionsStep
<1> QED
  BY <1>2, <1>3, <1>4

---------------------------------------------------------------------------
(* keyStack, the open containers and the calls.  While the first handler   *)
(* of an emission has not been called, its event has not counted yet.      *)

Opens == OpenItems(Script)

\* The containers whose keys are not pushed yet.
Left == IF session.args = <<>> THEN {} ELSE Hydrating(calls)

Marked == Marks(calls, Opens[at - 1])

Announcing == Owes(1) => at - 1 \in 1..Len(Script) /\ Current.event = Script[at - 1]

OnPath == ~session.keys => keyStack = KeysWithout(Opens[IF Owes(1) THEN at - 2 ELSE at - 1], Left)

PathSoFar == Marked /\ Announcing /\ OnPath

KeyPathInv ==
    /\ SettledInv
    /\ main # "failed" => PathSoFar

LEMMA OpensMove ==
    ASSUME ScriptsBracketed, JrqInv, NEW n \in 1..(Len(Script) + 1)
    PROVE  /\ Opens[n - 1] \in Seq(Items) /\ Opens[n] \in Seq(Items)
           /\ Opens[n] = OpensWith(Script, n, Opens[n - 1])
           /\ Len(Opens[n]) = KeyDepth(Trail(Script)[n])
           /\ n <= Len(Script) /\ Concludes(Script[n]) =>
                /\ Len(Opens[n - 1]) > 0
                /\ Len(Opens[n - 1]) = Trail(Script)[n - 1].parsers
                /\ Trail(Script)[n].parsers = Trail(Script)[n - 1].parsers
<1> DEFINE script == Script
           levels == Trail(script)
           open == OpenItems(script)
           from == levels[n - 1]
           to == levels[n]
<1>1. /\ script \in Seq(Items) /\ Len(script) \in Nat
      /\ levels \in [0..(Len(script) + 1) -> Levels] /\ IsTrail(levels, script)
  BY ScriptTrail
<1>2. n - 1 \in 0..Len(script) /\ n \in 0..(Len(script) + 1) /\ n - 1 \in 0..(Len(script) + 1)
      /\ (n - 1) + 1 = n /\ (n - 1 = Len(script) <=> n = Len(script) + 1) /\ n \in 1..(Len(script) + 1)
  BY <1>1
<1> HIDE DEF script
<1>3. from \in Levels /\ to \in Levels /\ from.parsers > 0
      /\ Takes(from, IF n = Len(script) + 1 THEN Return ELSE script[n], to)
  BY <1>1, <1>2 DEF IsTrail
<1>4. OpenFollows(script, open)
  BY <1>1, OpenItemsFollow
<1>5. open[n - 1] \in Seq(Items) /\ open[n] \in Seq(Items) /\ open[n] = OpensWith(script, n, open[n - 1])
  BY <1>2, <1>4 DEF OpenFollows
<1>6. Len(open[n - 1]) = KeyDepth(from) /\ Len(open[n]) = KeyDepth(to)
  BY <1>1, <1>2, OpenLengths
<1>7. ASSUME n <= Len(script), Concludes(script[n])
      PROVE  Len(open[n - 1]) > 0 /\ Len(open[n - 1]) = from.parsers /\ to.parsers = from.parsers
  <2>1. n # Len(script) + 1
    BY <1>1, <1>7
  <2>2. Takes(from, script[n], to)
    BY <1>3, <2>1
  <2> DEFINE o == open[n - 1]
  <2> HIDE DEF levels, open, from, to
  <2>3. from.where = "nested"
    BY <1>1, <1>2, <1>3, <1>5, <1>6, <1>7, OpensLength
  <2>4. Len(open[n - 1]) = from.parsers
    BY <1>3, <1>6, <2>3, DepthBounds
  <2>5. script[n].event \notin {"call", "return"}
    BY <1>7 DEF Concludes, Ends
  <2>6. to.parsers = from.parsers
    BY <1>3, <2>2, <2>5, Moves
  <2> QED
    BY <1>3, <2>4, <2>6
<1> QED
  BY <1>5, <1>6, <1>7 DEF Opens, script

LEMMA OpensHere ==
    ASSUME ScriptsBracketed, JrqInv, NEW p, NEW e, Progress(p, e)
    PROVE  /\ Len(Script) \in Nat /\ at \in Nat /\ at - 1 \in 0..(Len(Script) + 1)
           /\ Opens[at - 1] \in Seq(Items) /\ Len(Opens[at - 1]) = KeyDepth(Level)
           /\ Level \in Levels /\ Len(calls) \in Nat /\ Stacked(calls, p, e)
           /\ Parsers(calls, Len(calls)) = Level.parsers
<1>1. Stacked(calls, p, e) /\ InScript(p) /\ at - 1 \in 0..(Len(Script) + 1) /\ p[Len(calls)] = Level.parsers
  BY DEF Progress, InScript
<1>2. Level \in Levels /\ Len(calls) \in Nat /\ at \in Nat
  BY <1>1, Room, Lengths DEF JrqInv, ControlOK
<1>3. Parsers(calls, Len(calls)) = p[Len(calls)]
  <2>1. Len(calls) \in 0..Len(calls)
    BY <1>2
  <2> QED
    BY <1>1, <1>2, <2>1, StackedParsers
<1> DEFINE script == Script
           levels == Trail(script)
           k == at - 1
<1>4. /\ script \in Seq(Items) /\ Len(script) \in Nat
      /\ levels \in [0..(Len(script) + 1) -> Levels] /\ IsTrail(levels, script)
  BY ScriptTrail
<1> HIDE DEF script
<1>5. OpenFollows(script, OpenItems(script))
  BY <1>4, OpenItemsFollow
<1>6. k \in 0..(Len(script) + 1)
  BY <1>1 DEF script
<1> HIDE DEF k
<1>7. OpenItems(script)[k] \in Seq(Items) /\ Len(OpenItems(script)[k]) = KeyDepth(levels[k])
  BY <1>4, <1>5, <1>6, OpenLengths DEF OpenFollows
<1> QED
  BY <1>1, <1>2, <1>3, <1>4, <1>7 DEF Opens, Level, script, k

\* The next item.
LEMMA OpensNext ==
    ASSUME ScriptsBracketed, JrqInv, NEW p, NEW e, Progress(p, e), Level.parsers > 0
    PROVE  /\ at \in 1..(Len(Script) + 1)
           /\ Item.event \in {"call", "return"} => Opens[at] = Opens[at - 1]
           /\ Item.event \notin {"call", "return"} => at \in 1..Len(Script) /\ Item = Script[at]
<1>1. /\ Len(Script) \in Nat /\ at \in Nat \ {0} /\ at - 1 \in 0..(Len(Script) + 1)
      /\ Opens[at - 1] \in Seq(Items)
  BY OpensHere DEF JrqInv, ControlOK
<1>2. at \in 0..(Len(Script) + 1)
  BY <1>1, NextLevel
<1>3. at \in 1..(Len(Script) + 1)
  BY <1>1, <1>2
<1>4. Call.event = "call" /\ Return.event = "return"
  BY DEF Call, Return
<1>5. ASSUME Item.event \in {"call", "return"} PROVE Opens[at] = Opens[at - 1]
  <2>1. Opens[at] = OpensWith(Script, at, Opens[at - 1])
    BY <1>3, OpensMove
  <2>2. at > Len(Script) \/ Script[at].event \in {"call", "return"}
    BY <1>5 DEF Item
  <2>3. at > Len(Script) \/ (~Announces(Script[at]) /\ ~Concludes(Script[at]))
    BY <2>2 DEF Announces, Concludes, Starts, Ends
  <2> QED
    BY <2>1, <2>3 DEF OpensWith
<1>6. ASSUME Item.event \notin {"call", "return"} PROVE at \in 1..Len(Script) /\ Item = Script[at]
  <2>1. ~(at > Len(Script))
    BY <1>4, <1>6 DEF Item
  <2> QED
    BY <1>1, <1>3, <2>1 DEF Item
<1> QED
  BY <1>3, <1>5, <1>6

LEMMA PathEmits ==
    ASSUME ScriptsBracketed, JrqInv, NEW p, NEW e, Progress(p, e), PathSoFar, ParserEmits
    PROVE  PathSoFar'
<1> DEFINE n == Len(calls)
<1>1. /\ n \in Nat /\ n > 0 /\ calls[n].call = "parse" /\ calls \in Seq(Frames)
      /\ calls' = Append(calls, Emitting(Item)) /\ at' = at + 1 /\ Item.event \notin {"call", "return"}
      /\ UNCHANGED <<session, count, keyStack>>
  BY Lengths DEF ParserEmits, Running, selectionVars, JrqInv, ControlOK
<1>2. /\ Len(Script) \in Nat /\ Opens[at - 1] \in Seq(Items) /\ Stacked(calls, p, e)
      /\ Parsers(calls, n) = Level.parsers /\ at \in Nat
  BY OpensHere
<1>3. Level.parsers > 0
  <2>1. n - 1 \in Nat /\ (n - 1) + 1 = n
    BY <1>1
  <2>2. Parsers(calls, n) = Parsers(calls, n - 1) + 1 /\ Parsers(calls, n - 1) \in Nat
    BY <1>1, <2>1, ParsersStep DEF IsParse
  <2> QED
    BY <1>2, <2>2
<1>4. at \in 1..Len(Script) /\ at \in 1..(Len(Script) + 1) /\ Item = Script[at]
  BY <1>1, <1>3, OpensNext
<1>5. /\ Len(calls') = n + 1 /\ (\A i \in 1..n : calls'[i] = calls[i]) /\ calls'[n + 1] = Emitting(Item)
  BY <1>1
<1>6. Emitting(Item).call = "emit" /\ Emitting(Item).event = Item /\ Emitting(Item).handler = 1
  BY DEF Emitting
<1>7. ~Owes(1) /\ Owes(1)' /\ Current'.event = Item
  <2>1. calls' # <<>>
    BY <1>1, <1>5
  <2> QED
    BY <1>1, <1>5, <1>6, <2>1 DEF Owes, Running, Current
<1>8. Script' = Script /\ Opens' = Opens /\ at' - 1 = at /\ at' - 2 = at - 1
  BY <1>1, <1>2 DEF Script, Opens
<1>9. Marks(calls, Opens[at])
  <2>1. Opens[at] = OpensWith(Script, at, Opens[at - 1])
    BY <1>4, OpensMove
  <2>2. at <= Len(Script) /\ Concludes(Script[at]) =>
          Len(Opens[at - 1]) > 0 /\ Len(Opens[at - 1]) = Parsers(calls, n)
    BY <1>2, <1>4, OpensMove DEF Level
  <2>3. Script \in Seq(Items)
    BY ScriptTrail
  <2>4. Marks(calls, Opens[at - 1])
    BY DEF PathSoFar, Marked
  <2> QED
    BY <1>1, <1>2, <1>4, <2>1, <2>2, <2>3, <2>4, MarksMove
<1>10. Marks(calls', Opens[at])
  <2>1. n - 1 \in Int /\ n - 1 <= Len(calls) - 1 /\ Len(calls') \in Nat
    BY <1>1, <1>5
  <2>2. \A i \in 1..(n - 1) : calls'[i] = calls[i]
    BY <1>1, <1>5
  <2>3. \A i \in 1..(Len(calls') - 1) : i <= n - 1 \/ calls'[i].call # "emit"
    <3>1. \A i \in 1..(Len(calls') - 1) : i <= n - 1 \/ (i = n /\ calls'[i] = calls[n])
      BY <1>1, <1>5
    <3> QED
      BY <1>1, <3>1
  <2> QED
    BY <1>1, <1>9, <2>1, <2>2, <2>3, MarksStay
<1>11. Left' = Left
  <2>1. Hydrating(calls') = Hydrating(calls)
    BY <1>1, <1>5, HydratingStays
  <2> QED
    BY <1>1, <2>1 DEF Left
<1>12. Marked'
  BY <1>8, <1>10 DEF Marked
<1>13. Announcing'
  BY <1>4, <1>7, <1>8 DEF Announcing
<1>14. OnPath'
  <2>1. ~session.keys => keyStack = KeysWithout(Opens[at - 1], Left)
    BY <1>7 DEF PathSoFar, OnPath
  <2> QED
    BY <1>1, <1>7, <1>8, <1>11, <2>1 DEF OnPath
<1> QED
  BY <1>12, <1>13, <1>14 DEF PathSoFar

\* Nothing is emitted, and no emission waits that has not waited before.
LEMMA PathRests ==
    ASSUME PathSoFar, ~Owes(1), ~Owes(1)', UNCHANGED <<session, count, keyStack>>,
           Opens[at' - 1] = Opens[at - 1], Hydrating(calls') = Hydrating(calls),
           Len(calls) \in Nat, Len(calls') \in Nat, NEW n \in Int, n <= Len(calls) - 1,
           \A i \in 1..n : calls'[i] = calls[i],
           \A i \in 1..(Len(calls') - 1) : i <= n \/ calls'[i].call # "emit"
    PROVE  PathSoFar'
<1>1. Opens' = Opens
  BY DEF Opens, Script
<1>2. Left' = Left
  BY DEF Left
<1>3. Marked'
  <2>1. Marks(calls, Opens[at - 1])
    BY DEF PathSoFar, Marked
  <2>2. Marks(calls', Opens[at - 1])
    BY <2>1, MarksStay
  <2> QED
    BY <1>1, <2>2 DEF Marked
<1>4. OnPath'
  <2>1. ~session.keys => keyStack = KeysWithout(Opens[at - 1], Left)
    BY DEF PathSoFar, OnPath
  <2> QED
    BY <1>1, <1>2, <2>1 DEF OnPath
<1> QED
  BY <1>3, <1>4 DEF PathSoFar, Announcing

LEMMA PathCalls ==
    ASSUME ScriptsBracketed, JrqInv, NEW p, NEW e, Progress(p, e), PathSoFar, ParserCalls
    PROVE  PathSoFar'
<1> DEFINE n == Len(calls)
<1>1. /\ n \in Nat /\ n > 0 /\ calls[n].call = "parse" /\ calls \in Seq(Frames)
      /\ calls' = Append(calls, Parsing) /\ at' = at + 1 /\ Item = Call
      /\ UNCHANGED <<session, count, keyStack>>
  BY Lengths DEF ParserCalls, Running, selectionVars, JrqInv, ControlOK
<1>2. /\ Stacked(calls, p, e) /\ Parsers(calls, n) = Level.parsers /\ at \in Nat
  BY OpensHere
<1>3. Level.parsers > 0
  <2>1. n - 1 \in Nat /\ (n - 1) + 1 = n
    BY <1>1
  <2>2. Parsers(calls, n) = Parsers(calls, n - 1) + 1 /\ Parsers(calls, n - 1) \in Nat
    BY <1>1, <2>1, ParsersStep DEF IsParse
  <2> QED
    BY <1>2, <2>2
<1>4. Opens[at' - 1] = Opens[at - 1]
  <2>1. Opens[at] = Opens[at - 1]
    BY <1>1, <1>3, OpensNext DEF Call
  <2> QED
    BY <1>1, <1>2, <2>1
<1>5. /\ Len(calls') = n + 1 /\ (\A i \in 1..n : calls'[i] = calls[i]) /\ calls'[n + 1].call = "parse"
  BY <1>1 DEF Parsing
<1>6. ~Owes(1) /\ ~Owes(1)'
  BY <1>1, <1>5 DEF Owes, Running
<1>7. Hydrating(calls') = Hydrating(calls)
  BY <1>1, <1>5, HydratingStays
<1>8. n - 1 \in Int /\ n - 1 <= Len(calls) - 1 /\ Len(calls') \in Nat /\ \A i \in 1..(n - 1) : calls'[i] = calls[i]
  BY <1>1, <1>5
<1>9. \A i \in 1..(Len(calls') - 1) : i <= n - 1 \/ calls'[i].call # "emit"
  <2>1. \A i \in 1..(Len(calls') - 1) : i <= n - 1 \/ (i = n /\ calls'[i] = calls[n])
    BY <1>1, <1>5
  <2> QED
    BY <1>1, <2>1
<1> QED
  BY <1>1, <1>4, <1>6, <1>7, <1>8, <1>9, PathRests

LEMMA PathReturns ==
    ASSUME ScriptsBracketed, JrqInv, NEW p, NEW e, Progress(p, e), PathSoFar, ParserReturns
    PROVE  PathSoFar'
<1> DEFINE n == Len(calls)
<1>1. /\ n \in Nat /\ n > 0 /\ calls[n].call = "parse" /\ calls # <<>>
      /\ calls' = Callers /\ at' = at + 1 /\ Item = Return
      /\ UNCHANGED <<session, count, keyStack>>
  BY Lengths DEF ParserReturns, Running, selectionVars
<1>2. /\ Stacked(calls, p, e) /\ Parsers(calls, n) = Level.parsers /\ at \in Nat
  BY OpensHere
<1>3. Level.parsers > 0
  <2>1. n - 1 \in Nat /\ (n - 1) + 1 = n
    BY <1>1
  <2>2. Parsers(calls, n) = Parsers(calls, n - 1) + 1 /\ Parsers(calls, n - 1) \in Nat
    BY <1>1, <2>1, ParsersStep DEF IsParse
  <2> QED
    BY <1>2, <2>2
<1>4. Opens[at' - 1] = Opens[at - 1]
  <2>1. Opens[at] = Opens[at - 1]
    BY <1>1, <1>3, OpensNext DEF Return
  <2> QED
    BY <1>1, <1>2, <2>1
<1>5. Len(calls') = n - 1 /\ \A i \in 1..(n - 1) : calls'[i] = calls[i]
  BY <1>1, CurrentFrame
<1>6. n > 1 => calls[n - 1].call # "emit"
  BY <1>1, <1>2, StackTop
<1>7. ~Owes(1) /\ ~Owes(1)'
  <2>1. ~Running("emit")'
    <3>1. CASE n > 1
      <4>1. calls'[Len(calls')].call # "emit"
        BY <1>1, <1>5, <1>6, <3>1
      <4> QED
        BY <4>1 DEF Running
    <3>2. CASE n = 1
      <4>1. calls' = <<>>
        <5>1. Len(calls') = 0 /\ calls' \in Seq(Frames)
          BY <1>1, <1>5, <3>2, CurrentFrame
        <5> QED
          BY <5>1
      <4> QED
        BY <4>1 DEF Running
    <3>3. n = 1 \/ n > 1
      <4>1. n \in Nat /\ n > 0
        BY <1>1
      <4> HIDE DEF n
      <4> QED
        BY <4>1
    <3> QED
      BY <3>1, <3>2, <3>3
  <2>2. ~Running("emit")
    BY <1>1 DEF Running
  <2> QED
    BY <2>1, <2>2 DEF Owes
<1>8. Hydrating(calls') = Hydrating(calls)
  BY <1>1, <1>5, <1>6, HydratingEnds
<1>9. /\ n - 1 \in Int /\ n - 1 <= Len(calls) - 1 /\ Len(calls') \in Nat
      /\ \A i \in 1..(Len(calls') - 1) : i <= n - 1 \/ calls'[i].call # "emit"
  BY <1>1, <1>5
<1> QED
  BY <1>1, <1>4, <1>5, <1>7, <1>8, <1>9, PathRests

LEMMA PathEmitDone ==
    ASSUME ScriptsBracketed, JrqInv, NEW p, NEW e, Progress(p, e), PathSoFar, EmitDone
    PROVE  PathSoFar'
<1> DEFINE n == Len(calls)
<1>1. /\ n \in Nat /\ n > 0 /\ calls[n].call = "emit" /\ calls # <<>>
      /\ calls' = Callers /\ Current.handler > Handlers
      /\ UNCHANGED <<session, count, at, keyStack>>
  BY Lengths DEF EmitDone, Running, selectionVars
<1>2. Stacked(calls, p, e) /\ Len(hydraters) \in Nat /\ Current.handler \in Int
  <2>1. Running("emit")
    BY <1>1 DEF Running
  <2>2. Current.handler \in 1..(Handlers + 1) /\ Len(hydraters) \in Nat
    BY <2>1, Emission, Lengths
  <2> QED
    BY <2>2, OpensHere DEF Handlers
<1>3. n > 1 /\ calls[n - 1].call = "parse"
  BY <1>1, <1>2, StackTop, SMTT(30)
<1>4. Len(calls') = n - 1 /\ \A i \in 1..(n - 1) : calls'[i] = calls[i]
  BY <1>1, CurrentFrame
<1>5. ~Owes(1)
  BY <1>1, <1>2 DEF Owes, Handlers
<1>6. ~Owes(1)'
  <2>1. calls'[Len(calls')].call = "parse"
    BY <1>1, <1>3, <1>4
  <2> QED
    BY <2>1 DEF Owes, Running
<1>7. Hydrating(calls') = Hydrating(calls)
  BY <1>1, <1>3, <1>4, HydratingEnds
<1>8. /\ n - 1 \in Int /\ n - 1 <= Len(calls) - 1 /\ Len(calls') \in Nat
      /\ \A i \in 1..(Len(calls') - 1) : i <= n - 1 \/ calls'[i].call # "emit"
  BY <1>1, <1>4
<1>9. Opens[at' - 1] = Opens[at - 1]
  BY <1>1
<1> QED
  BY <1>1, <1>4, <1>5, <1>6, <1>7, <1>8, <1>9, PathRests

\* A handler of an emission has returned.
LEMMA PathGoesOn ==
    ASSUME JrqInv, NEW p, NEW e, Stacked(calls, p, e), PathSoFar, Running("emit"),
           calls' = Handled(calls), UNCHANGED <<session, count, at>>,
           ~session.keys => keyStack' = KeysWithout(Opens[at - 1], Left)
    PROVE  PathSoFar'
<1> DEFINE n == Len(calls)
<1>1. /\ Len(calls') = n /\ Running("emit")' /\ Current'.handler = Current.handler + 1
      /\ (\A i \in 1..n : calls'[i].call = calls[i].call)
      /\ \A i \in 1..(n - 1) : calls'[i] = calls[i]
  BY GoesOn
<1>2. n \in Nat /\ n > 0 /\ Current.handler \in Nat \ {0}
  <2>1. Current.handler \in 1..(Handlers + 1) /\ Handlers \in Nat
    BY Emission, Lengths DEF Handlers
  <2> QED
    BY <2>1, CurrentFrame DEF Running
<1>3. ~Owes(1)'
  BY <1>1, <1>2 DEF Owes
<1>4. Opens' = Opens
  BY DEF Opens, Script
<1>5. Left' = Left
  <2>1. n - 1 \in Nat /\ SameCalls(calls', calls, n - 1)
    BY <1>1, <1>2 DEF SameCalls
  <2>2. EmissionsUpTo(calls', n - 1) = EmissionsUpTo(calls, n - 1)
    BY <2>1, SameEmissions
  <2>3. Hydrating(calls') = Hydrating(calls)
    BY <1>1, <2>2, HydratingIs
  <2> QED
    BY <2>3 DEF Left
<1>6. Marked'
  <2>1. Marks(calls, Opens[at - 1])
    BY DEF PathSoFar, Marked
  <2>2. /\ n - 1 \in Int /\ n - 1 <= Len(calls) - 1 /\ Len(calls') \in Nat
        /\ \A i \in 1..(Len(calls') - 1) : i <= n - 1
    BY <1>1, <1>2
  <2>3. Marks(calls', Opens[at - 1])
    BY <1>1, <1>2, <2>1, <2>2, MarksStay
  <2> QED
    BY <1>4, <2>3 DEF Marked
<1>7. OnPath'
  BY <1>3, <1>4, <1>5 DEF OnPath
<1> QED
  BY <1>3, <1>6, <1>7 DEF PathSoFar, Announcing

LEMMA PathHydrates ==
    ASSUME ScriptsBracketed, JrqInv, NEW p, NEW e, Progress(p, e), PathSoFar, HydraterHandles,
           main' # "failed"
    PROVE  PathSoFar'
<1>1. /\ Running("emit") /\ Current.handler \in 2..Handlers
      /\ calls' = Handled(calls) /\ UNCHANGED <<session, count, at, keyStack>>
  BY DEF HydraterHandles, Throw, selectionVars
<1>2. ~Owes(1) /\ Stacked(calls, p, e)
  <2>1. Handlers \in Nat
    BY Lengths DEF Handlers
  <2> QED
    BY <1>1, <2>1, OpensHere DEF Owes
<1>3. ~session.keys => keyStack' = KeysWithout(Opens[at - 1], Left)
  BY <1>1, <1>2 DEF PathSoFar, OnPath
<1> QED
  BY <1>1, <1>2, <1>3, PathGoesOn

---------------------------------------------------------------------------
(* innerMain's handlers: what they do to keyStack is what the event does   *)
(* to the open containers.                                                 *)

LEMMA FirstHandler ==
    ASSUME ScriptsBracketed, JrqInv, NEW p, NEW e, Progress(p, e), PathSoFar,
           Running("emit"), Current.handler = 1, NEW item, item = Current.event
    PROVE  /\ at - 1 \in 1..Len(Script) /\ item = Script[at - 1] /\ item \in Items
           /\ ~session.keys => keyStack = KeysWithout(Opens[at - 2], Left)
           /\ Opens[at - 2] \in Seq(Items)
           /\ Opens[at - 1] = IF Announces(item) THEN Append(Opens[at - 2], item)
                              ELSE IF Concludes(item) THEN Front(Opens[at - 2])
                              ELSE Opens[at - 2]
           /\ Announces(item) => Parsers(calls, Len(calls)) = Len(Opens[at - 2]) + 1
           /\ Concludes(item) => Parsers(calls, Len(calls)) = Len(Opens[at - 2]) /\ Len(Opens[at - 2]) > 0
           /\ Parsers(calls, Len(calls)) \notin Left
<1> DEFINE n == Len(calls)
           open == Opens[at - 2]
<1>1. Owes(1)
  BY DEF Owes
<1>2. at - 1 \in 1..Len(Script) /\ item = Script[at - 1] /\ at \in Nat /\ Len(Script) \in Nat
  BY <1>1, OpensHere DEF PathSoFar, Announcing
<1>3. at - 1 \in 1..(Len(Script) + 1) /\ (at - 1) - 1 = at - 2 /\ at - 1 <= Len(Script)
      /\ ~(at - 1 > Len(Script))
  BY <1>2
<1>4. /\ open \in Seq(Items) /\ Opens[at - 1] = OpensWith(Script, at - 1, open)
      /\ Len(Opens[at - 1]) = KeyDepth(Level)
      /\ Concludes(item) => /\ Len(open) > 0
                            /\ Len(open) = Trail(Script)[at - 2].parsers
                            /\ Level.parsers = Trail(Script)[at - 2].parsers
  <2>1. PICK k : k = at - 1 /\ k \in 1..(Len(Script) + 1) /\ k - 1 = at - 2 /\ k <= Len(Script)
    BY <1>3
  <2>2. /\ Opens[k - 1] \in Seq(Items) /\ Opens[k] = OpensWith(Script, k, Opens[k - 1])
        /\ Len(Opens[k]) = KeyDepth(Trail(Script)[k])
        /\ Concludes(Script[k]) => /\ Len(Opens[k - 1]) > 0
                                   /\ Len(Opens[k - 1]) = Trail(Script)[k - 1].parsers
                                   /\ Trail(Script)[k].parsers = Trail(Script)[k - 1].parsers
    BY <2>1, OpensMove
  <2> QED
    BY <1>2, <2>1, <2>2 DEF Level
<1>5. item \in Items
  BY <1>1, Emission DEF Owes
<1>6. Opens[at - 1] = IF Announces(item) THEN Append(open, item)
                      ELSE IF Concludes(item) THEN Front(open) ELSE open
  BY <1>2, <1>3, <1>4 DEF OpensWith
<1>7. /\ Stacked(calls, p, e) /\ n \in Nat /\ n > 0 /\ calls[n].call = "emit"
      /\ Parsers(calls, n) = Level.parsers /\ Level \in Levels
  <2>1. calls # <<>> /\ calls[n].call = "emit"
    BY DEF Running
  <2> QED
    BY <2>1, OpensHere, CurrentFrame
<1>8. Announces(item) => Parsers(calls, n) = Len(open) + 1
  <2>1. SUFFICES ASSUME Announces(item) PROVE Parsers(calls, n) = Len(open) + 1
    OBVIOUS
  <2>2. Level.where = "announced"
    <3>1. Starts(item) /\ Keyed(item)
      BY <2>1 DEF Announces
    <3> QED
      BY <1>1, <3>1 DEF Progress, InScript
  <2>3. KeyDepth(Level) = Level.parsers - 0 /\ Level.parsers \in Nat
    BY <1>7, <2>2 DEF KeyDepth, Levels
  <2>4. Len(Opens[at - 1]) = Len(open) + 1
    <3>1. Opens[at - 1] = Append(open, item)
      BY <1>6, <2>1
    <3> HIDE DEF open
    <3> QED
      BY <1>4, <1>5, <3>1
  <2> QED
    BY <1>4, <1>7, <2>3, <2>4
<1>9. Concludes(item) => Parsers(calls, n) = Len(open) /\ Len(open) > 0
  BY <1>4, <1>7
<1>10. Parsers(calls, n) \notin Left
  <2>1. n \in 1..Len(calls)
    BY <1>7
  <2>2. \A k \in EmissionsUpTo(calls, n - 1) : k \in Nat /\ k < Parsers(calls, n)
    BY <1>7, <2>1, EmissionsBelow
  <2>3. Parsers(calls, n) \in Nat
    BY <1>7, ParsersStep
  <2>4. Parsers(calls, n) \notin EmissionsUpTo(calls, n - 1)
    BY <2>2, <2>3
  <2> QED
    BY <2>4, HydratingIs DEF Left
<1>11. ~session.keys => keyStack = KeysWithout(open, Left)
  BY <1>1 DEF PathSoFar, OnPath
<1> QED
  BY <1>2, <1>4, <1>5, <1>6, <1>8, <1>9, <1>10, <1>11

LEMMA PathFinds ==
    ASSUME ScriptsBracketed, JrqInv, NEW p, NEW e, Progress(p, e), PathSoFar, main' # "failed",
           JrqFoundKey \/ JrqFoundValue
    PROVE  PathSoFar'
<1>1. /\ Running("emit") /\ Current.handler = 1 /\ Current.event.event \in {"foundKey", "foundValue"}
      /\ calls' = Handled(calls) /\ UNCHANGED <<session, count, at, keyStack>>
  BY DEF JrqFoundKey, JrqFoundValue, OnEvent, JrqReturns, Throw, selectionVars
<1>2. PICK item : item = Current.event
  OBVIOUS
<1>3. ~Announces(item) /\ ~Concludes(item)
  BY <1>1, <1>2 DEF Announces, Concludes, Starts, Ends
<1>4. ~session.keys => keyStack = KeysWithout(Opens[at - 1], Left)
  BY <1>1, <1>2, <1>3, FirstHandler
<1>5. Stacked(calls, p, e)
  BY DEF Progress
<1> QED
  BY <1>1, <1>4, <1>5, PathGoesOn

LEMMA PathEnds ==
    ASSUME ScriptsBracketed, JrqInv, NEW p, NEW e, Progress(p, e), PathSoFar, JrqEnd
    PROVE  PathSoFar'
<1>1. PICK item : item = Current.event
  OBVIOUS
<1>2. /\ Running("emit") /\ Current.handler = 1 /\ Ends(item)
      /\ calls' = Handled(calls) /\ UNCHANGED <<session, count, at>>
      /\ Key = item.key /\ keyStack' = Popped(Key)
  BY <1>1 DEF JrqEnd, OnEvent, JrqReturns, Ends, Key
<1>3. ~Announces(item) /\ (Concludes(item) <=> Key # Undefined)
  BY <1>2 DEF Announces, Concludes, Starts, Ends, Keyed
<1> DEFINE open == Opens[at - 2]
           keys == KeysWithout(Front(open), Left)
<1>4. /\ ~session.keys => keyStack = KeysWithout(open, Left)
      /\ open \in Seq(Items)
      /\ Opens[at - 1] = IF Concludes(item) THEN Front(open) ELSE open
      /\ Concludes(item) => Len(open) > 0 /\ Len(open) \notin Left
  BY <1>1, <1>2, <1>3, FirstHandler
<1>5. ASSUME ~session.keys PROVE keyStack' = KeysWithout(Opens[at - 1], Left)
  <2>1. CASE Key = Undefined
    BY <1>2, <1>3, <1>4, <1>5, <2>1 DEF Popped
  <2>2. CASE Key # Undefined
    <3> DEFINE last == open[Len(open)].key
    <3>1. Len(open) > 0 /\ Len(open) \notin Left /\ Opens[at - 1] = Front(open)
      BY <1>3, <1>4, <2>2
    <3> HIDE DEF open
    <3>2. keyStack = Append(keys, last)
      BY <1>4, <1>5, <3>1, KeysFront
    <3>3. keys \in Seq(Maybe(Keys)) /\ last \in Maybe(Keys)
      <4>1. Front(open) \in Seq(Items) /\ open[Len(open)] \in Items
        BY <1>4, <3>1, FrontOf
      <4>2. keys \in Seq(Maybe(Keys))
        BY <4>1, KeysForAre
      <4> QED
        BY <4>1, <4>2 DEF Items
    <3> HIDE DEF keys, last
    <3>4. keyStack # <<>> /\ SubSeq(keyStack, 1, Len(keyStack) - 1) = keys
      BY <3>2, <3>3, PopsLast
    <3>5. keyStack' = keys
      BY <1>2, <2>2, <3>4 DEF Popped
    <3> QED
      BY <3>1, <3>5 DEF keys
  <2> QED
    BY <2>1, <2>2
<1>6. Stacked(calls, p, e)
  BY DEF Progress
<1> QED
  BY <1>2, <1>5, <1>6, PathGoesOn

\* A hydrater is made, and its parser called, while the emission waits.
LEMMA PathCreates ==
    ASSUME ScriptsBracketed, JrqInv, NEW p, NEW e, Progress(p, e), PathSoFar,
           Running("emit"), Current.handler = 1, NEW item, item = Current.event,
           Announces(item), Create, at' = at + 1,
           ~session.keys => keyStack' = IF session.args = <<>> THEN Append(keyStack, item.key) ELSE keyStack
    PROVE  PathSoFar'
<1> DEFINE n == Len(calls)
           k == Parsers(calls, n)
           open == Opens[at - 2]
           more == Opens[at - 1]
<1>1. /\ n \in Nat /\ n > 0 /\ calls[n].call = "emit" /\ calls[n].event = item /\ calls \in Seq(Frames)
      /\ calls' = calls \o <<Creating(Len(hydraters) + 1), Parsing>> /\ UNCHANGED <<session, count>>
      /\ at' = at + 1
  BY CurrentFrame DEF Create, Running, Current, JrqInv, ControlOK
<1>2. /\ at \in Nat /\ Stacked(calls, p, e) /\ k = Level.parsers /\ k \in Nat
      /\ more \in Seq(Items) /\ at - 1 \in 0..(Len(Script) + 1)
  BY <1>1, OpensHere, ParsersStep
<1>3. /\ item \in Items /\ open \in Seq(Items) /\ more = Append(open, item)
      /\ k = Len(open) + 1 /\ k \notin Left
      /\ ~session.keys => keyStack = KeysWithout(open, Left)
  BY FirstHandler
<1>4. Level.parsers > 0 /\ Item = Call
  <2>1. Len(open) \in Nat
    BY <1>3
  <2>2. Level.parsers > 0
    BY <1>2, <1>3, <2>1
  <2>3. Owes(1) /\ Starts(item) /\ Keyed(item)
    BY DEF Owes, Announces
  <2>4. Level.where = "announced"
    BY <2>3 DEF Progress, InScript
  <2>5. Level \in Levels /\ Trail(Script)[at] \in Levels /\ Takes(Level, Item, Trail(Script)[at])
    BY <1>2, <2>2, NextLevel
  <2> QED
    BY <2>2, <2>4, <2>5, Moves
<1>5. Script' = Script /\ Opens' = Opens /\ at' - 1 = at /\ Opens[at] = more
  <2>1. Item.event = "call"
    BY <1>4 DEF Call
  <2> QED
    BY <1>1, <1>2, <1>4, <2>1, OpensNext DEF Script, Opens
<1>6. /\ Len(calls') = n + 2 /\ (\A i \in 1..n : calls'[i] = calls[i])
      /\ calls'[n + 1].call = "create" /\ calls'[n + 2].call = "parse"
  BY <1>1 DEF Creating, Parsing
<1>7. ~Owes(1)'
  <2>1. calls'[Len(calls')].call = "parse"
    BY <1>6
  <2> QED
    BY <2>1 DEF Owes, Running
<1>8. Len(more) = k /\ more[k] = item
  <2> HIDE DEF more, open, k
  <2> QED
    BY <1>3
<1>9. Marks(calls', more)
  <2> SUFFICES ASSUME NEW i \in 1..(Len(calls') - 1), calls'[i].call = "emit"
               PROVE  Parsers(calls', i) \in 1..Len(more) /\ more[Parsers(calls', i)] = calls'[i].event
    BY DEF Marks
  <2>1. i \in 1..n /\ i \in Nat
    <3>1. i \in 1..(n + 1) /\ calls'[i].call = "emit"
      BY <1>1, <1>6
    <3>2. i # n + 1
      BY <1>6, <3>1
    <3>3. n \in Nat
      BY <1>1
    <3> HIDE DEF n
    <3> QED
      BY <3>1, <3>2, <3>3
  <2>2. calls'[i] = calls[i]
    BY <1>6, <2>1
  <2>3. Parsers(calls', i) = Parsers(calls, i)
    <3>1. SameCalls(calls', calls, i)
      <4>1. \A j \in 1..i : j \in 1..n
        BY <1>1, <2>1
      <4> QED
        BY <1>6, <4>1 DEF SameCalls
    <3> QED
      BY <2>1, <3>1, SameParsers
  <2>4. CASE i = n
    <3>1. k \in 1..Len(more)
      <4>1. k > 0
        BY <1>2, <1>4
      <4> HIDE DEF k, more
      <4> QED
        BY <1>2, <1>8, <4>1
    <3> QED
      BY <1>1, <1>8, <2>2, <2>3, <2>4, <3>1
  <2>5. CASE i # n
    <3>1. i \in 1..(Len(calls) - 1) /\ calls[i].call = "emit"
      BY <1>1, <2>1, <2>2, <2>5
    <3>2. Marks(calls, more)
      BY DEF PathSoFar, Marked
    <3> HIDE DEF more
    <3> QED
      BY <2>2, <2>3, <3>1, <3>2 DEF Marks
  <2> QED
    BY <2>4, <2>5
<1>10. ASSUME ~session.keys PROVE keyStack' = KeysWithout(more, Left')
  <2>1. CASE session.args = <<>>
    <3>1. Left = {} /\ Left' = {}
      BY <1>1, <2>1 DEF Left
    <3>2. keyStack' = Append(keyStack, item.key) /\ keyStack = KeysWithout(open, {})
      BY <1>3, <1>10, <2>1, <3>1
    <3>3. KeysWithout(Append(open, item), {}) = Append(KeysWithout(open, {}), item.key)
      <4> HIDE DEF open
      <4> QED
        BY <1>3, KeysAppend
    <3> QED
      BY <1>3, <3>1, <3>2, <3>3
  <2>2. CASE session.args # <<>>
    <3>1. Left' = Left \cup {k}
      <4>1. Hydrating(calls') = Hydrating(calls) \cup {k}
        <5>1. /\ n \in Nat /\ n > 0 /\ Len(calls) = n /\ calls[n].call = "emit"
              /\ Len(calls') = n + 2 /\ calls'[n + 1].call # "emit"
              /\ \A i \in 1..n : calls'[i] = calls[i]
          BY <1>1, <1>6
        <5> HIDE DEF n
        <5> QED
          BY <5>1, HydratingMore
      <4> QED
        BY <1>1, <2>2, <4>1 DEF Left
    <3>2. keyStack' = KeysWithout(open, Left)
      BY <1>3, <1>10, <2>2
    <3> HIDE DEF open, k, more
    <3>3. KeysWithout(Append(open, item), Left \cup {k}) = KeysWithout(open, Left \cup {k})
      BY <1>3, KeysAppend
    <3>4. KeysWithout(open, Left \cup {k}) = KeysWithout(open, Left)
      BY <1>3, KeysBeyond
    <3> QED
      BY <1>3, <3>1, <3>2, <3>3, <3>4
  <2> QED
    BY <2>1, <2>2
<1>11. Marked'
  BY <1>5, <1>9 DEF Marked
<1>12. OnPath'
  BY <1>1, <1>5, <1>7, <1>10 DEF OnPath
<1> QED
  BY <1>7, <1>11, <1>12 DEF PathSoFar, Announcing

LEMMA PathStarts ==
    ASSUME ScriptsBracketed, JrqInv, NEW p, NEW e, Progress(p, e), PathSoFar,
           JrqStartObject \/ JrqStartArray
    PROVE  PathSoFar'
<1>1. PICK item : item = Current.event
  OBVIOUS
<1>2. /\ Running("emit") /\ Current.handler = 1 /\ Starts(item) /\ Key = item.key
      /\ objectDepth' = objectDepth + 1 /\ (Announces(item) <=> Key # Undefined) /\ ~Concludes(item)
  <2>1. /\ Running("emit") /\ Current.handler = 1 /\ item.event \in {"startObject", "startArray"}
    BY <1>1 DEF JrqStartObject, JrqStartArray, OnEvent
  <2>2. objectDepth' = objectDepth + 1
    BY DEF JrqStartObject, JrqStartArray, StartContainer
  <2> QED
    BY <1>1, <2>1, <2>2 DEF Starts, Ends, Announces, Concludes, Keyed, Key
<1>3. Stacked(calls, p, e)
  BY DEF Progress
<1> DEFINE open == Opens[at - 2]
<1>4. /\ item \in Items /\ open \in Seq(Items)
      /\ ~session.keys => keyStack = KeysWithout(open, Left)
      /\ Opens[at - 1] = IF Key # Undefined THEN Append(open, item) ELSE open
      /\ Key # Undefined => Len(open) + 1 \notin Left
  BY <1>1, <1>2, FirstHandler
<1>5. \/ /\ JrqReturns
         /\ ~session.keys => keyStack' = Pushed(Key)
      \/ /\ Create /\ at' = at + 1 /\ ~session.keys
         /\ \/ Key # Undefined /\ Paths(Key) # {} /\ keyStack' = keyStack
            \/ WantsElement /\ keyStack' = Pushed(Key)
  BY DEF JrqStartObject, JrqStartArray, Pushed
<1>6. CASE JrqReturns /\ (~session.keys => keyStack' = Pushed(Key))
  <2>1. ~session.keys => keyStack' = KeysWithout(Opens[at - 1], Left)
    <3> HIDE DEF open
    <3>1. CASE Key = Undefined
      BY <1>4, <1>6, <3>1 DEF Pushed
    <3>2. CASE Key # Undefined
      <4>1. KeysWithout(Append(open, item), Left) = Append(KeysWithout(open, Left), item.key)
        BY <1>4, <3>2, KeysAppend
      <4> QED
        BY <1>2, <1>4, <1>6, <3>2, <4>1 DEF Pushed
    <3> QED
      BY <3>1, <3>2
  <2> QED
    BY <1>2, <1>3, <1>6, <2>1, PathGoesOn DEF JrqReturns
<1>7. CASE Create /\ at' = at + 1 /\ Key # Undefined /\ Paths(Key) # {} /\ keyStack' = keyStack
  <2>1. session.args # <<>>
    <3> SUFFICES ASSUME session.args = <<>> PROVE Paths(Key) = {}
      BY <1>7
    <3> QED
      BY DEF Paths
  <2> QED
    BY <1>1, <1>2, <1>7, <2>1, PathCreates
<1>8. CASE Create /\ at' = at + 1 /\ WantsElement /\ keyStack' = Pushed(Key)
  <2>1. session.args = <<>> /\ Keyed(item)
    BY <1>1, <1>2, <1>8, ElementHasKey
  <2>2. Key # Undefined
    BY <1>2, <2>1 DEF Keyed
  <2>3. keyStack' = Append(keyStack, item.key)
    BY <1>2, <1>8, <2>2 DEF Pushed
  <2> QED
    BY <1>1, <1>2, <1>8, <2>1, <2>2, <2>3, PathCreates
<1> QED
  BY <1>5, <1>6, <1>7, <1>8

---------------------------------------------------------------------------
(* A hydrater returns: the key of a selected object is pushed at last. *)

LEMMA PathCreated ==
    ASSUME ScriptsBracketed, JrqInv, NEW p, NEW e, Progress(p, e), PathSoFar, CreateReturns
    PROVE  PathSoFar'
<1>0. PICK m : m + 1 = Len(calls) /\ m \in Nat
  <2>1. Len(calls) \in Nat /\ Len(calls) > 0
    BY Lengths DEF CreateReturns, Running
  <2>2. Len(calls) - 1 \in Nat /\ (Len(calls) - 1) + 1 = Len(calls)
    BY <2>1
  <2> QED
    BY <2>2
<1>1. /\ Running("create") /\ calls' = (IF Callers = <<>> THEN <<>> ELSE Handled(Callers))
      /\ UNCHANGED <<session, count, at>> /\ Stacked(calls, p, e) /\ calls # <<>>
  BY DEF CreateReturns, Progress, Running
<1>2. /\ Len(calls') = m /\ (Callers # <<>> <=> m > 0)
      /\ m = 0 => ~Running("emit")'
      /\ m > 0 => Running("emit")' /\ Current'.handler = 2 /\ Callers[m] = calls[m]
      /\ \A i \in 1..(m - 1) : calls'[i] = calls[i]
  BY <1>0, <1>1, CallerGoesOn
<1>3. ~Owes(1) /\ ~Owes(1)'
  BY <1>0, <1>1, <1>2 DEF Owes, Running
<1>4. Opens' = Opens /\ at' = at
  BY <1>1 DEF Opens, Script
<1> DEFINE open == Opens[at - 1]
<1>5. open \in Seq(Items) /\ Len(open) = KeyDepth(Level) /\ Parsers(calls, m + 1) = Level.parsers
      /\ Level \in Levels
  BY <1>0, OpensHere
<1>6. calls[m + 1].call = "create"
  BY <1>0, <1>1 DEF Running
<1>7. Len(open) = Parsers(calls, m)
  <2>1. KeyDepth(Level) = Level.parsers
    <3>1. Level.where = "nested"
      BY <1>1 DEF Progress, InScript
    <3> QED
      BY <1>5, <3>1, DepthBounds
  <2>2. Parsers(calls, m + 1) = Parsers(calls, m) + 0 /\ Parsers(calls, m) \in Nat
    BY <1>0, <1>6, ParsersStep DEF IsParse
  <2> QED
    BY <1>5, <2>1, <2>2
<1>8. Marks(calls', open)
  <2>1. Marks(calls, open)
    BY DEF PathSoFar, Marked
  <2>2. /\ m - 1 \in Int /\ m - 1 <= Len(calls) - 1 /\ Len(calls') \in Nat /\ Len(calls) \in Nat
        /\ \A i \in 1..(Len(calls') - 1) : i <= m - 1
    BY <1>0, <1>2
  <2> HIDE DEF open
  <2> QED
    BY <1>2, <2>1, <2>2, MarksStay
<1>9. ~session.keys => keyStack = KeysWithout(open, Left)
  BY <1>3 DEF PathSoFar, OnPath
<1>10. ASSUME ~session.keys PROVE keyStack' = KeysWithout(open, Left')
  <2>1. CASE session.args = <<>>
    <3>1. keyStack' = keyStack
      BY <2>1 DEF CreateReturns
    <3>2. Left' = Left
      BY <1>1, <2>1 DEF Left
    <3> QED
      BY <1>9, <1>10, <3>1, <3>2
  <2>2. CASE session.args # <<>>
    <3>1. m > 0
      <4>1. SUFFICES ASSUME m = 0 PROVE FALSE
        BY <1>0
      <4>2. calls[1].call = "create" /\ 1 \in 1..Len(calls)
        BY <1>0, <1>6, <4>1
      <4> QED
        BY <2>2, <4>2 DEF JrqInv, ControlOK, Callings
    <3>2. calls[m].call = "emit" /\ m \in 1..Len(calls) /\ m \in 1..(Len(calls) - 1) /\ m - 1 \in Nat
      <4>1. m + 1 \in Nat /\ m + 1 > 1 /\ (m + 1) - 1 = m
        BY <1>0, <3>1
      <4>2. calls[(m + 1) - 1].call = "emit"
        BY <1>0, <1>1, <1>6, <4>1, StackTop
      <4> QED
        BY <1>0, <3>1, <4>1, <4>2
    <3> DEFINE item == calls[m].event
               k == Parsers(calls, m)
    <3>3. open[k] = item /\ k \in 1..Len(open)
      BY <3>2 DEF PathSoFar, Marked, Marks
    <3>4. /\ Hydrating(calls) = Hydrating(calls') \cup {k}
          /\ Hydrating(calls') = EmissionsUpTo(calls, m - 1)
      <4>1. Len(calls) = m + 1
        BY <1>0
      <4> QED
        BY <1>0, <1>2, <3>1, <3>2, <4>1, HydratingOver
    <3>5. Left = Left' \cup {k} /\ k \notin Left'
      <4>1. Left = Hydrating(calls) /\ Left' = Hydrating(calls')
        BY <1>1, <2>2 DEF Left
      <4>2. \A j \in EmissionsUpTo(calls, m - 1) : j \in Nat /\ j < k
        BY <1>0, <1>1, <3>2, EmissionsBelow
      <4>3. k \in Nat
        BY <1>0, ParsersStep
      <4>4. k \notin EmissionsUpTo(calls, m - 1)
        <5> HIDE DEF k
        <5> QED
          BY <4>2, <4>3
      <4> HIDE DEF k
      <4> QED
        BY <3>4, <4>1, <4>4
    <3>6. keyStack' = Append(keyStack, item.key)
      <4>1. Callers # <<>> /\ Len(Callers) = m /\ Callers[m] = calls[m]
        <5>1. Len(Callers) = Len(calls) - 1
          BY <1>1, CurrentFrame
        <5> QED
          BY <1>0, <1>2, <3>1, <5>1, SMTT(30)
      <4>2. keyStack' = Pushed(item.key)
        BY <2>2, <4>1 DEF CreateReturns
      <4>3. item.key # Undefined
        <5>1. Starts(item) /\ Keyed(item)
          BY <1>0, <1>1, <3>2 DEF Stacked
        <5> QED
          BY <5>1 DEF Keyed
      <4> QED
        BY <4>2, <4>3 DEF Pushed
    <3> DEFINE front == Front(open)
    <3>7. Len(open) = k /\ Len(open) > 0
      BY <1>7, <3>3
    <3> HIDE DEF open, k
    <3>8. front \in Seq(Items) /\ Len(front) = k - 1 /\ open = Append(front, item) /\ item \in Items
      <4>1. open[Len(open)] = item
        BY <3>3, <3>7
      <4> QED
        BY <1>5, <3>7, <4>1, FrontOf
    <3>9. k = Len(front) + 1
      BY <1>5, <3>7, <3>8
    <3> HIDE DEF front, item
    <3>10. KeysWithout(open, Left) = KeysWithout(front, Left)
      BY <3>5, <3>8, <3>9, KeysAppend
    <3>11. KeysWithout(front, Left' \cup {k}) = KeysWithout(front, Left')
      BY <3>8, <3>9, KeysBeyond
    <3>12. KeysWithout(open, Left') = Append(KeysWithout(front, Left'), item.key)
      BY <3>5, <3>8, <3>9, KeysAppend
    <3> QED
      BY <1>9, <1>10, <3>5, <3>6, <3>10, <3>11, <3>12
  <2> QED
    BY <2>1, <2>2
<1>11. Marked'
  BY <1>4, <1>8 DEF Marked
<1>12. OnPath'
  BY <1>1, <1>3, <1>4, <1>10 DEF OnPath
<1> QED
  BY <1>3, <1>11, <1>12 DEF PathSoFar, Announcing

LEMMA PathBegins ==
    ASSUME ScriptsBracketed, SettledInv, ParseTurn
    PROVE  PathSoFar'
<1>1. /\ JrqInv /\ calls = <<>> /\ at = 1 /\ keyStack = <<>>
      /\ UNCHANGED <<session, count, at, keyStack>>
  <2>1. JrqInv /\ main = "loop" /\ UNCHANGED <<session, count, at, keyStack>>
    BY DEF SettledInv, ParseTurn, Create
  <2> QED
    BY <2>1 DEF SettledInv, Settled, JrqInv, ControlOK
<1>2. \A i \in 1..Len(calls') : calls'[i].call # "emit"
  <2> DEFINE new == Creating(Len(hydraters) + 1)
  <2>1. new.call = "create" /\ Parsing.call = "parse"
    BY DEF Creating, Parsing
  <2> HIDE DEF new
  <2>2. calls' = <<Parsing>> \/ calls' = <<new, Parsing>>
    <3>1. calls \o <<new, Parsing>> = <<new, Parsing>>
      BY <1>1
    <3> QED
      BY <3>1 DEF ParseTurn, Create, new
  <2> QED
    BY <2>1, <2>2
<1>3. Len(calls') \in Nat
  <2>1. JrqInv'
    BY <1>1, ParseTurnKeeps
  <2> QED
    BY <2>1 DEF JrqInv, ControlOK
<1>4. ~Owes(1)'
  <2>1. calls' # <<>> => Len(calls') \in 1..Len(calls')
    <3>1. calls' # <<>> => Len(calls') > 0
      <4>1. calls' \in Seq(Frames')
        BY <1>1, ParseTurnKeeps DEF JrqInv, ControlOK
      <4> QED
        BY <4>1
    <3> QED
      BY <1>3, <3>1
  <2> QED
    BY <1>2, <2>1 DEF Owes, Running
<1>5. Opens'[at' - 1] = <<>>
  <2>1. Script \in Seq(Items) /\ at' - 1 = 0 /\ Script' = Script
    BY <1>1, ScriptTrail DEF Script
  <2>2. OpenItems(Script)[0] = <<>>
    BY <2>1, OpenItemsFollow DEF OpenFollows
  <2> QED
    BY <2>1, <2>2 DEF Opens
<1>6. Marked'
  <2>1. \A i \in 1..(Len(calls') - 1) : i \in 1..Len(calls')
    BY <1>3
  <2> QED
    BY <1>2, <2>1 DEF Marked, Marks
<1>7. OnPath'
  BY <1>1, <1>4, <1>5, KeysNone DEF OnPath
<1> QED
  BY <1>4, <1>6, <1>7 DEF PathSoFar, Announcing

\* No call is in progress and nothing is open.
LEMMA PathOutside ==
    ASSUME ScriptsBracketed, JrqInv, at = 1, keyStack = <<>>, calls = <<>>
    PROVE  PathSoFar
<1>1. ~Owes(1)
  BY DEF Owes, Running
<1>2. Opens[at - 1] = <<>>
  <2>1. Script \in Seq(Items)
    BY ScriptTrail
  <2>2. OpenItems(Script)[0] = <<>> /\ at - 1 = 0
    BY <2>1, OpenItemsFollow DEF OpenFollows
  <2> QED
    BY <2>2 DEF Opens
<1>3. Marked
  <2>1. 1..(Len(calls) - 1) = {}
    OBVIOUS
  <2> QED
    BY <2>1 DEF Marked, Marks
<1>4. OnPath
  BY <1>1, <1>2, KeysNone DEF OnPath
<1> QED
  BY <1>1, <1>3, <1>4 DEF PathSoFar, Announcing

LEMMA PathRestarts ==
    ASSUME ScriptsBracketed, SettledInv, JrqInv', SettledInv', PathSoFar, calls = <<>>, WriteTurn
    PROVE  PathSoFar'
<1>1. calls' = calls /\ keyStack' = keyStack /\ session' = session /\ main' \in {"loop", "done"}
  BY DEF WriteTurn
<1>2. CASE main' = "loop"
  <2>1. ScriptsBracketed /\ JrqInv' /\ at' = 1 /\ keyStack' = <<>> /\ calls' = <<>>
    BY <1>1, <1>2 DEF SettledInv, Settled
  <2>2. (JrqInv /\ at = 1 /\ keyStack = <<>> /\ calls = <<>> => PathSoFar)'
    BY PathOutside, PTL
  <2> QED
    BY <2>1, <2>2
<1>3. CASE main' = "done"
  <2>1. UNCHANGED <<session, count, at, calls, keyStack>>
    BY <1>1, <1>3 DEF WriteTurn
  <2> QED
    BY <2>1 DEF PathSoFar, Marked, Announcing, OnPath, Owes, Running, Current, Opens, Script, Left
<1> QED
  BY <1>1, <1>2, <1>3

---------------------------------------------------------------------------
LEMMA KeyPathInvStays ==
    ASSUME ScriptsBracketed, KeyPathInv, [Next]_vars
    PROVE  KeyPathInv'
<1>1. SettledInv /\ JrqInv /\ SettledInv' /\ (main # "failed" => PathSoFar)
  BY SettledInvStays DEF KeyPathInv, SettledInv
<1>2. CASE main' = "failed"
  BY <1>1, <1>2 DEF KeyPathInv
<1>3. CASE calls # <<>> /\ main' # "failed" /\ ~UNCHANGED vars
  <2>1. main = "parsing" /\ PathSoFar
    BY <1>1, <1>3, CurrentFrame
  <2>2. PICK p, e : Progress(p, e)
    BY <1>1, <2>1 DEF SettledInv
  <2>3. CASE ParserEmits
    BY <1>1, <2>1, <2>2, <2>3, PathEmits DEF KeyPathInv
  <2>4. CASE ParserCalls
    BY <1>1, <2>1, <2>2, <2>4, PathCalls DEF KeyPathInv
  <2>5. CASE ParserReturns
    BY <1>1, <2>1, <2>2, <2>5, PathReturns DEF KeyPathInv
  <2>6. CASE EmitDone
    BY <1>1, <2>1, <2>2, <2>6, PathEmitDone DEF KeyPathInv
  <2>7. CASE HydraterHandles
    BY <1>1, <1>3, <2>1, <2>2, <2>7, PathHydrates DEF KeyPathInv
  <2>8. CASE JrqFoundKey \/ JrqFoundValue
    BY <1>1, <1>3, <2>1, <2>2, <2>8, PathFinds DEF KeyPathInv
  <2>9. CASE JrqStartObject \/ JrqStartArray
    BY <1>1, <2>1, <2>2, <2>9, PathStarts DEF KeyPathInv
  <2>10. CASE JrqEnd
    BY <1>1, <2>1, <2>2, <2>10, PathEnds DEF KeyPathInv
  <2>11. CASE CreateReturns
    BY <1>1, <2>1, <2>2, <2>11, PathCreated DEF KeyPathInv
  <2> QED
    BY <1>3, <2>1, <2>3, <2>4, <2>5, <2>6, <2>7, <2>8, <2>9, <2>10, <2>11
       DEF Next, StackTooLong, Throw, ParseTurn, WriteTurn, JrqExited
<1>4. CASE calls = <<>> /\ ~UNCHANGED vars
  <2>1. ParseTurn \/ WriteTurn
    BY <1>4 DEF Next, ParserEmits, ParserCalls, ParserReturns, EmitDone, HydraterHandles, JrqFoundKey,
                JrqFoundValue, JrqStartObject, JrqStartArray, JrqEnd, StackTooLong, CreateReturns,
                JrqExited, OnEvent, Running
  <2>2. CASE ParseTurn
    BY <1>1, <2>2, PathBegins DEF KeyPathInv
  <2>3. CASE WriteTurn
    <3>1. main = "parsing"
      BY <2>3 DEF WriteTurn
    <3>2. JrqInv' /\ PathSoFar
      BY <1>1, <3>1 DEF SettledInv
    <3> QED
      BY <1>1, <1>4, <2>3, <3>2, PathRestarts DEF KeyPathInv
  <2> QED
    BY <2>1, <2>2, <2>3
<1>5. CASE UNCHANGED vars
  <2>1. UNCHANGED <<session, count, at, main, calls, keyStack>>
    BY <1>5 DEF vars, selectionVars
  <2>2. PathSoFar' <=> PathSoFar
    BY <2>1 DEF PathSoFar, Marked, Announcing, OnPath, Owes, Running, Current, Opens, Script, Left
  <2> QED
    BY <1>1, <2>1, <2>2 DEF KeyPathInv
<1> QED
  BY <1>2, <1>3, <1>4, <1>5

LEMMA KeyPathInitially ==
    ASSUME ScriptsBracketed, Init
    PROVE  KeyPathInv
<1>1. JrqInv
  BY JrqInvInitially
<1> QED
  BY <1>1, PathOutside DEF Init, SettledInv, Settled, KeyPathInv

LEMMA PathIsKeyStack ==
    ASSUME KeyPathInv
    PROVE  KeyStackIsPath
<1>1. ASSUME main # "failed", ~session.keys, ~(Running("emit") /\ Current.handler = 1)
      PROVE  keyStack = KeysWithout(OpenItems(Script)[at - 1],
                                    IF session.args = <<>> THEN {} ELSE Hydrating(calls))
  <2>1. ~Owes(1)
    <3>1. Running("emit") => Current.handler \in 1..(Handlers + 1) /\ Handlers \in Nat
      BY Emission, Lengths DEF Handlers, KeyPathInv, SettledInv
    <3> QED
      BY <1>1, <3>1 DEF Owes
  <2> QED
    BY <1>1, <2>1 DEF KeyPathInv, PathSoFar, OnPath, Opens, Left
<1> QED
  BY <1>1 DEF KeyStackIsPath

\* When every script is that of a complete document: whenever no handler of
\* innerMain is at work, keyStack, by which keyInPath decides what an argument
\* names, has the keys of the containers that are announced and not concluded,
\* outermost first, without those of selected objects that are being hydrated;
\* whatever is selected, and however the emissions were nested.
THEOREM KeyStackAlways ==
    ASSUME ScriptsBracketed
    PROVE  Spec => []KeyStackIsPath
<1>1. Init => KeyPathInv
  BY KeyPathInitially
<1>2. KeyPathInv /\ [Next]_vars => KeyPathInv'
  BY KeyPathInvStays
<1>3. KeyPathInv => KeyStackIsPath
  BY PathIsKeyStack
<1> QED
  BY <1>1, <1>2, <1>3, PTL DEF Spec

---------------------------------------------------------------------------
(* The values that wait to be written, without references. *)

\* An object whose references are replaced by what they stand for.
Filled(object, tree) ==
    [object EXCEPT !.members = [k \in Shown(object) |-> IF IsRef(@[k]) THEN tree[@[k].ref] ELSE @[k]]]

AreTrees(objects, tree) == tree = [n \in 1..Len(objects) |-> Filled(objects[n], tree)]

Trees(objects) == CHOOSE tree : AreTrees(objects, tree)

ToLater(objects) ==
    \A n \in 1..Len(objects) : \A key \in DOMAIN objects[n].members :
        IsRef(objects[n].members[key]) => objects[n].members[key].ref \in (n + 1)..Len(objects)

LEMMA FilledAlike ==
    ASSUME NEW objects, ToLater(objects), NEW n \in 1..Len(objects), NEW f, NEW g,
           \A m \in (n + 1)..Len(objects) : f[m] = g[m]
    PROVE  Filled(objects[n], f) = Filled(objects[n], g)
<1> DEFINE o == objects[n]
<1>1. \A k \in Shown(o) : IsRef(o.members[k]) => f[o.members[k].ref] = g[o.members[k].ref]
  BY DEF ToLater, Shown
<1> HIDE DEF o
<1>2. [k \in Shown(o) |-> IF IsRef(o.members[k]) THEN f[o.members[k].ref] ELSE o.members[k]]
      = [k \in Shown(o) |-> IF IsRef(o.members[k]) THEN g[o.members[k].ref] ELSE o.members[k]]
  BY <1>1
<1>3. Filled(o, f) = Filled(o, g)
  BY <1>2 DEF Filled
<1> QED
  BY <1>3 DEF o

\* What is found from the last object on, as every reference is to a later one.
LEMMA TreesExist ==
    ASSUME NEW objects, Len(objects) \in Nat, ToLater(objects)
    PROVE  AreTrees(objects, Trees(objects))
<1> DEFINE last == Len(objects)
           Known(f, k) == \A n \in (last - k + 1)..last : f[n] = Filled(objects[n], f)
           S == {k \in Nat : k <= last => \E f : f = [n \in 1..last |-> f[n]] /\ Known(f, k)}
<1>0. last \in Nat
  OBVIOUS
<1>1. 0 \in S
  <2> DEFINE f == [n \in 1..last |-> n]
  <2>1. f = [n \in 1..last |-> f[n]] /\ (last - 0 + 1)..last = {}
    BY <1>0
  <2>2. Known(f, 0)
    <3> HIDE DEF f
    <3> QED
      BY <2>1
  <2> HIDE DEF f, Known
  <2> QED
    BY <2>1, <2>2
<1>2. ASSUME NEW k \in Nat, k \in S PROVE k + 1 \in S
  <2>1. SUFFICES ASSUME k + 1 <= last PROVE \E g : g = [n \in 1..last |-> g[n]] /\ Known(g, k + 1)
    <3> HIDE DEF Known
    <3> QED
      BY <1>2
  <2>2. PICK f : f = [n \in 1..last |-> f[n]] /\ Known(f, k)
    <3> HIDE DEF Known, last
    <3> QED
      BY <1>0, <1>2, <2>1
  <2> DEFINE q == last - k
             o == Filled(objects[q], f)
             g == [n \in 1..last |-> IF n = q THEN o ELSE f[n]]
  <2>3. /\ q \in 1..last /\ last - k + 1 = q + 1 /\ last - (k + 1) + 1 = q
        /\ \A n \in q..last : n = q \/ n \in (q + 1)..last
        /\ \A n \in q..last : n \in 1..last /\ \A m \in (n + 1)..last : m \in 1..last /\ m # q
    BY <1>0, <2>1
  <2> HIDE DEF last, q, o
  <2>4. g[q] = o /\ (\A m \in 1..last : m # q => g[m] = f[m]) /\ g = [n \in 1..last |-> g[n]]
    BY <2>3
  <2> HIDE DEF g
  <2>5. \A n \in q..last : Filled(objects[n], g) = Filled(objects[n], f)
    <3> TAKE n \in q..last
    <3>1. n \in 1..Len(objects) /\ \A m \in (n + 1)..Len(objects) : g[m] = f[m]
      BY <2>3, <2>4 DEF last
    <3> QED
      BY <3>1, FilledAlike
  <2>6. \A n \in (q + 1)..last : f[n] = Filled(objects[n], f)
    BY <2>2, <2>3
  <2>7. \A n \in q..last : g[n] = Filled(objects[n], f)
    <3> TAKE n \in q..last
    <3>1. CASE n = q
      BY <2>4, <3>1 DEF o
    <3>2. CASE n \in (q + 1)..last
      <4>1. n \in 1..last /\ n # q
        <5>1. q \in Nat
          BY <2>3
        <5> QED
          BY <2>3, <3>2, <5>1
      <4> QED
        BY <2>4, <2>6, <3>2, <4>1
    <3> QED
      BY <2>3, <3>1, <3>2
  <2>8. Known(g, k + 1)
    BY <2>3, <2>5, <2>7
  <2> HIDE DEF Known
  <2> QED
    BY <2>4, <2>8
<1>3. last \in S
  <2>1. Nat \subseteq S
    <3> HIDE DEF S
    <3> QED
      BY <1>1, <1>2, Induction
  <2> HIDE DEF S
  <2> QED
    BY <1>0, <2>1
<1>4. PICK f : f = [n \in 1..last |-> f[n]] /\ Known(f, last)
  <2> HIDE DEF Known
  <2> QED
    BY <1>0, <1>3
<1>5. \A n \in 1..last : f[n] = Filled(objects[n], f)
  <2>1. last - last + 1 = 1
    BY <1>0
  <2> QED
    BY <1>4, <2>1
<1>6. AreTrees(objects, f)
  <2>1. f = [n \in 1..last |-> Filled(objects[n], f)]
    BY <1>4, <1>5
  <2> QED
    BY <2>1 DEF AreTrees
<1> HIDE DEF last, Known, S
<1> QED
  BY <1>6 DEF Trees

\* Objects that are made later change nothing.
LEMMA TreesGrow ==
    ASSUME NEW objects, NEW more, Len(objects) \in Nat, Len(more) \in Nat, Len(objects) <= Len(more),
           ToLater(objects), \A n \in 1..Len(objects) : more[n] = objects[n],
           NEW f, AreTrees(objects, f), NEW g, AreTrees(more, g)
    PROVE  \A n \in 1..Len(objects) : f[n] = g[n]
<1> DEFINE last == Len(objects)
           S == {k \in Nat : k <= last => \A n \in (last - k + 1)..last : f[n] = g[n]}
<1>0. last \in Nat /\ \A n \in 1..last : n \in 1..Len(more)
  OBVIOUS
<1>1. 0 \in S
  <2>1. (last - 0 + 1)..last = {}
    BY <1>0
  <2> QED
    BY <2>1
<1>2. ASSUME NEW k \in Nat, k \in S PROVE k + 1 \in S
  <2>1. SUFFICES ASSUME k + 1 <= last PROVE \A n \in (last - (k + 1) + 1)..last : f[n] = g[n]
    OBVIOUS
  <2>2. \A n \in (last - k + 1)..last : f[n] = g[n]
    BY <1>2, <2>1
  <2> DEFINE q == last - k
  <2>3. /\ q \in 1..last /\ last - k + 1 = q + 1 /\ last - (k + 1) + 1 = q
        /\ \A n \in q..last : n = q \/ n \in (q + 1)..last
    BY <1>0, <2>1
  <2> HIDE DEF q
  <2>4. Filled(objects[q], f) = Filled(objects[q], g)
    BY <2>2, <2>3, FilledAlike
  <2>5. f[q] = Filled(objects[q], f)
    BY <2>3 DEF AreTrees
  <2>6. g[q] = Filled(more[q], g)
    BY <1>0, <2>3 DEF AreTrees
  <2>7. f[q] = g[q]
    BY <2>3, <2>4, <2>5, <2>6
  <2> QED
    BY <2>2, <2>3, <2>7
<1>3. last \in S
  <2>1. Nat \subseteq S
    <3> HIDE DEF S
    <3> QED
      BY <1>1, <1>2, Induction
  <2> HIDE DEF S
  <2> QED
    BY <1>0, <2>1
<1>4. last - last + 1 = 1
  BY <1>0
<1> QED
  BY <1>0, <1>3, <1>4

LEMMA RefsAreLater ==
    ASSUME NEW objects,
           \A n \in 1..Len(objects) : \A key \in DOMAIN objects[n].members :
               objects[n].members[key] \in [scalar : Texts] \cup [ref : 1..Len(objects)],
           \A n \in 1..Len(objects) : \A key \in DOMAIN objects[n].members : \A m \in 1..n :
               objects[n].members[key] # Ref(m)
    PROVE  ToLater(objects)
<1> SUFFICES ASSUME NEW n \in 1..Len(objects), NEW key \in DOMAIN objects[n].members,
                    IsRef(objects[n].members[key])
             PROVE  objects[n].members[key].ref \in (n + 1)..Len(objects)
  BY DEF ToLater
<1> DEFINE value == objects[n].members[key]
<1>1. value \in [scalar : Texts] \cup [ref : 1..Len(objects)] /\ "ref" \in DOMAIN value
      /\ \A m \in 1..n : value # Ref(m)
  BY DEF IsRef
<1> HIDE DEF value
<1>2. PICK m \in 1..Len(objects) : value = [ref |-> m]
  BY <1>1
<1>3. m \notin 1..n
  BY <1>1, <1>2 DEF Ref
<1>4. m \in (n + 1)..Len(objects)
  BY <1>3
<1> QED
  BY <1>2, <1>4 DEF value

LEMMA TreesStay ==
    ASSUME HeapInv, HeapInv', Len(heap) <= Len(heap'), \A n \in 1..Len(heap) : heap'[n] = heap[n],
           NEW value \in Maybe(Values)
    PROVE  Tree(value)' = Tree(value)
<1>1. ToLater(heap) /\ Len(heap) \in Nat
  <2>1. Len(heap) \in Nat /\ RefsExist /\ Acyclic
    BY DEF HeapInv
  <2> QED
    BY <2>1, RefsAreLater DEF RefsExist, Acyclic, Values, Objects
<1>2. ToLater(heap') /\ Len(heap') \in Nat
  <2>1. Len(heap') \in Nat /\ RefsExist' /\ Acyclic'
    BY DEF HeapInv
  <2> QED
    BY <2>1, RefsAreLater DEF RefsExist, Acyclic, Values, Objects
<1>3. AreTrees(heap, Trees(heap)) /\ AreTrees(heap', Trees(heap'))
  BY <1>1, <1>2, TreesExist
<1>4. \A n \in 1..Len(heap) : Trees(heap)[n] = Trees(heap')[n]
  BY <1>1, <1>2, <1>3, TreesGrow
<1>5. Tree(value) = IF IsRef(value) THEN Trees(heap)[value.ref] ELSE value
  BY DEF Tree, Trees, AreTrees, Filled
<1>6. Tree(value)' = IF IsRef(value) THEN Trees(heap')[value.ref] ELSE value
  BY DEF Tree, Trees, AreTrees, Filled
<1>7. IsRef(value) => value.ref \in 1..Len(heap)
  BY DEF Values, Objects, IsRef, Maybe
<1> QED
  BY <1>4, <1>5, <1>6, <1>7

---------------------------------------------------------------------------
(* Which hydraters there are, and where the parser may be while a result waits. *)

\* The calls of hydraters.
Creates(frames) == {i \in 1..Len(frames) : frames[i].call = "create"}

NoHydrater == Creates(calls) = {}

\* Values that a handler cannot change.
ScalarsWait == argOutput # Undefined => \A i \in DOMAIN argOutput : ~IsRef(argOutput[i])

\* A document waits only when nothing is left to be handled.
WholeWaits ==
    /\ Creates(calls) \subseteq {1}
    /\ argOutput # Undefined => calls = <<>>

Element(item) == item.event = "startObject" /\ Keyed(item) /\ IsIndex(item.key)

\* A hydrater parses an element of the outermost array.
ForElements(frames) ==
    \A i \in 1..Len(frames) :
        frames[i].call = "create" => i = 3 /\ frames[2].call = "emit" /\ Element(frames[2].event)

\* The r-th item is the return from an element.
HasReturned(r) == r \in 1..Len(Script) /\ Script[r] = Return /\ Len(Opens[r - 1]) = 1

Emits  == Len(calls) = 2 /\ Running("emit")
Parses == Len(calls) = 1 /\ Running("parse")

\* The other handlers meet the announcement of the element, then its end, and
\* then it is found without a value, which has it written.
Finishing(r) ==
    \/ at = r + 1 /\ Emits /\ Current.handler > 1 /\ Element(Current.event)
    \/ at = r + 1 /\ Parses
    \/ at = r + 2 /\ Emits /\ Current.event = Script[r + 1]
    \/ at = r + 2 /\ Parses
    \/ at = r + 3 /\ Emits /\ Current.handler = 1 /\ Current.event = Script[r + 2]

InArray == initialObject # "object" /\ (objectDepth >= 0 => initialObject = "array")

ElementWaits == argOutput # Undefined => \E r \in 1..Len(Script) : HasReturned(r) /\ Finishing(r)

ElementsInv ==
    /\ InArray
    /\ ForElements(calls)
    /\ Running("create") => HasReturned(at - 1)
    /\ ElementWaits

ResultsInv ==
    main # "failed" =>
        /\ session.keys => NoHydrater /\ argOutput = Undefined
        /\ ~session.keys /\ session.args # <<>> => NoHydrater /\ ScalarsWait
        /\ ~session.keys /\ session.args = <<>> /\ ~session.array => WholeWaits
        /\ ~session.keys /\ session.args = <<>> /\ session.array => ElementsInv

---------------------------------------------------------------------------
(* The elements of an array. *)

LEMMA SameScript ==
    ASSUME UNCHANGED <<session, count>>
    PROVE  Script' = Script /\ Opens' = Opens /\ \A r : HasReturned(r)' <=> HasReturned(r)
BY DEF Script, Opens, HasReturned

\* What follows the return from an element.
LEMMA ElementEnds ==
    ASSUME ScriptsBracketed, JrqInv, ListsObjects(Script), NEW r, HasReturned(r)
    PROVE  /\ r \in Nat /\ r > 0 /\ Len(Script) \in Nat /\ r + 2 <= Len(Script)
           /\ Script[r + 1].event = "endObject" /\ Keyed(Script[r + 1]) /\ IsIndex(Script[r + 1].key)
           /\ Script[r + 2].event = "foundValue" /\ Script[r + 2].value = Undefined
           /\ Depth(Trail(Script)[r + 2]) = 1
<1> DEFINE script == Script
           levels == Trail(script)
<1>1. /\ script \in Seq(Items) /\ Len(script) \in Nat
      /\ levels \in [0..(Len(script) + 1) -> Levels] /\ IsTrail(levels, script)
  BY ScriptTrail
<1>2. r \in 1..Len(script) /\ script[r] = Return /\ Len(OpenItems(script)[r - 1]) = 1
  BY DEF HasReturned, Opens
<1>3. /\ r + 2 <= Len(script)
      /\ script[r + 1].event = "endObject" /\ Keyed(script[r + 1]) /\ IsIndex(script[r + 1].key)
      /\ script[r + 2].event = "foundValue" /\ script[r + 2].value = Undefined
  <2>1. ListsObjects(script)
    OBVIOUS
  <2> HIDE DEF script
  <2> QED
    BY <1>2, <2>1 DEF ListsObjects
<1>4. Len(Opens[r]) = 1 /\ Len(Opens[r]) = KeyDepth(levels[r])
  <2>1. r \in 1..(Len(Script) + 1) /\ ~(r > Len(Script))
    BY <1>1, <1>2
  <2>2. ~Announces(Script[r]) /\ ~Concludes(Script[r])
    BY <1>2 DEF Return, Announces, Concludes, Starts, Ends
  <2>3. Opens[r] = OpensWith(Script, r, Opens[r - 1]) /\ Len(Opens[r]) = KeyDepth(Trail(Script)[r])
    BY <2>1, OpensMove
  <2> QED
    BY <1>2, <2>1, <2>2, <2>3 DEF OpensWith, Opens
<1> HIDE DEF script
<1>5. /\ r - 1 \in 0..Len(script) /\ r \in 0..Len(script) /\ r + 1 \in 0..Len(script)
      /\ (r - 1) + 1 = r /\ (r + 1) + 1 = r + 2
      /\ r - 1 # Len(script) /\ r # Len(script) /\ r + 1 # Len(script)
      /\ r + 2 \in 0..(Len(script) + 1)
  BY <1>1, <1>2, <1>3
<1>6. /\ Takes(levels[r - 1], script[r], levels[r])
      /\ Takes(levels[r], script[r + 1], levels[r + 1])
      /\ Takes(levels[r + 1], script[r + 2], levels[r + 2])
  BY <1>1, <1>5 DEF IsTrail
<1>7. levels[r - 1] \in Levels /\ levels[r] \in Levels /\ levels[r + 1] \in Levels /\ levels[r + 2] \in Levels
  BY <1>1, <1>5
<1> HIDE DEF levels
<1>8. levels[r].where = "nested"
  BY <1>2, <1>6, <1>7, Moves
<1>9. levels[r].parsers = 1
  BY <1>4, <1>7, <1>8, DepthBounds
<1>10. Depth(levels[r]) = 2
  BY <1>8, <1>9 DEF Depth
<1>11. Shift(script[r + 1]) = -1 /\ Shift(script[r + 2]) = 0
  BY <1>3 DEF Shift, Starts, Ends
<1>12. Depth(levels[r + 1]) = 2 - 1 /\ Depth(levels[r + 2]) = (2 - 1) + 0
  BY <1>6, <1>7, <1>10, <1>11, Moves
<1> QED
  BY <1>1, <1>2, <1>3, <1>12 DEF script, levels

\* The events of the calls stay.
LEMMA ForElementsStays ==
    ASSUME NEW s, NEW t, Len(s) \in Nat, Len(t) \in Nat, ForElements(s),
           \A i \in 1..Len(t) : t[i].call = "create" => i <= Len(s) /\ s[i].call = "create",
           \A i \in 1..Len(t) : i <= Len(s) /\ s[i].call = "emit" =>
               t[i].call = "emit" /\ t[i].event = s[i].event
    PROVE  ForElements(t)
<1> SUFFICES ASSUME NEW i \in 1..Len(t), t[i].call = "create"
             PROVE  i = 3 /\ t[2].call = "emit" /\ Element(t[2].event)
  BY DEF ForElements
<1>1. i \in 1..Len(s) /\ s[i].call = "create"
  OBVIOUS
<1>2. i = 3 /\ s[2].call = "emit" /\ Element(s[2].event)
  BY <1>1 DEF ForElements
<1>3. 2 \in 1..Len(t) /\ 2 <= Len(s)
  BY <1>1, <1>2
<1> QED
  BY <1>2, <1>3

\* The outermost parser is at the bottom, when hydraters are for elements.
LEMMA ParserAtBottom ==
    ASSUME NEW frames, NEW p, NEW e, Stacked(frames, p, e), Len(frames) \in Nat, Len(frames) > 0,
           frames[1].call # "create"
    PROVE  frames[1].call = "parse" /\ p[1] = 1
<1>1. 1 \in 1..Len(frames) /\ p[0] = 0
  BY DEF Stacked
<1> QED
  BY <1>1 DEF Stacked

Listing ==
    /\ ScriptsBracketed /\ JrqInv /\ PathSoFar /\ ElementsInv
    /\ ListsObjects(Script) /\ main = "parsing" /\ calls # <<>>
    /\ ~session.keys /\ session.args = <<>> /\ session.array

LEMMA ElementEmits ==
    ASSUME Listing, NEW p, NEW e, Progress(p, e), ParserEmits
    PROVE  ElementsInv'
<1> DEFINE n == Len(calls)
           f == Emitting(Item)
<1>1. /\ n \in Nat /\ n > 0 /\ calls[n].call = "parse" /\ calls \in Seq(Frames)
      /\ calls' = Append(calls, f) /\ at' = at + 1 /\ at \in Nat
      /\ UNCHANGED <<session, count, objectDepth, initialObject, argOutput>>
  BY Lengths DEF Listing, ParserEmits, Running, selectionVars, createVars, JrqInv, ControlOK
<1>2. f.call = "emit" /\ f.event = Item /\ f.handler = 1
  BY DEF Emitting
<1> HIDE DEF f
<1>3. Len(calls') = n + 1 /\ (\A i \in 1..n : calls'[i] = calls[i]) /\ calls'[n + 1] = f
  BY <1>1
<1>4. Running("emit")' /\ Current' = f /\ ~Running("create")'
  BY <1>1, <1>2, <1>3 DEF Running, Current
<1>5. ForElements(calls')
  <2>1. Len(calls') \in Nat /\ Len(calls) \in Nat /\ ForElements(calls)
    BY <1>1, <1>3 DEF Listing, ElementsInv
  <2>2. \A i \in 1..Len(calls') : i \in 1..n \/ i = n + 1
    BY <1>1, <1>3
  <2>3. \A i \in 1..Len(calls') : calls'[i].call = "create" => i <= Len(calls) /\ calls[i].call = "create"
    BY <1>2, <1>3, <2>2
  <2>4. \A i \in 1..Len(calls') : i <= Len(calls) /\ calls[i].call = "emit" =>
            calls'[i].call = "emit" /\ calls'[i].event = calls[i].event
    BY <1>1, <1>3
  <2> QED
    BY <2>1, <2>3, <2>4, ForElementsStays
<1>6. ElementWaits'
  <2> SUFFICES ASSUME argOutput # Undefined PROVE \E r \in 1..Len(Script') : HasReturned(r)' /\ Finishing(r)'
    BY <1>1 DEF ElementWaits
  <2>1. PICK r \in 1..Len(Script) : HasReturned(r) /\ Finishing(r)
    BY DEF Listing, ElementsInv, ElementWaits
  <2>2. (at = r + 1 \/ at = r + 2) /\ n = 1
    BY <1>1, <2>1 DEF Finishing, Emits, Parses, Running
  <2>3. r \in Nat /\ r + 2 <= Len(Script)
    BY <2>1, ElementEnds DEF Listing
  <2>4. Item = Script[at]
    BY <1>1, <2>2, <2>3, ScriptTrail DEF Item, Listing
  <2>5. Script' = Script /\ HasReturned(r)'
    BY <1>1, <2>1, SameScript
  <2>6. Len(calls') = 2
    BY <1>3, <2>2
  <2>7. Finishing(r)'
    <3>1. CASE at = r + 1
      BY <1>1, <1>2, <1>4, <2>3, <2>4, <2>5, <2>6, <3>1 DEF Finishing, Emits
    <3>2. CASE at = r + 2
      BY <1>1, <1>2, <1>4, <2>3, <2>4, <2>5, <2>6, <3>2 DEF Finishing, Emits
    <3> QED
      BY <2>2, <3>1, <3>2
  <2> QED
    BY <2>5, <2>7
<1> QED
  BY <1>1, <1>4, <1>5, <1>6 DEF Listing, ElementsInv, InArray

\* A parser is called or returns: no element is waiting.
LEMMA NothingWaits ==
    ASSUME Listing, Running("parse"), Item.event \in {"call", "return"}
    PROVE  argOutput = Undefined
<1> SUFFICES ASSUME argOutput # Undefined PROVE FALSE
  OBVIOUS
<1>1. PICK r \in 1..Len(Script) : HasReturned(r) /\ Finishing(r)
  BY DEF Listing, ElementsInv, ElementWaits
<1>2. at = r + 1 \/ at = r + 2
  BY <1>1 DEF Finishing, Emits, Parses, Running
<1>3. /\ r \in Nat /\ r + 2 <= Len(Script) /\ Len(Script) \in Nat
      /\ Script[r + 1].event = "endObject" /\ Script[r + 2].event = "foundValue"
  BY <1>1, ElementEnds DEF Listing
<1>4. Item = Script[at]
  BY <1>2, <1>3 DEF Item
<1> QED
  BY <1>2, <1>3, <1>4

LEMMA ElementCalls ==
    ASSUME Listing, ParserCalls
    PROVE  ElementsInv'
<1> DEFINE n == Len(calls)
           f == Parsing
<1>1. /\ n \in Nat /\ n > 0 /\ calls \in Seq(Frames) /\ calls' = Append(calls, f)
      /\ UNCHANGED <<objectDepth, initialObject, argOutput>>
  BY Lengths DEF Listing, ParserCalls, Running, selectionVars, JrqInv, ControlOK
<1>2. f.call = "parse"
  BY DEF Parsing
<1> HIDE DEF f
<1>3. Len(calls') = n + 1 /\ (\A i \in 1..n : calls'[i] = calls[i]) /\ calls'[n + 1] = f
  BY <1>1
<1>4. ~Running("create")'
  BY <1>1, <1>2, <1>3 DEF Running
<1>5. ForElements(calls')
  <2>1. Len(calls') \in Nat /\ Len(calls) \in Nat /\ ForElements(calls)
    BY <1>1, <1>3 DEF Listing, ElementsInv
  <2>2. \A i \in 1..Len(calls') : i \in 1..n \/ i = n + 1
    BY <1>1, <1>3
  <2>3. \A i \in 1..Len(calls') : calls'[i].call = "create" => i <= Len(calls) /\ calls[i].call = "create"
    BY <1>2, <1>3, <2>2
  <2>4. \A i \in 1..Len(calls') : i <= Len(calls) /\ calls[i].call = "emit" =>
            calls'[i].call = "emit" /\ calls'[i].event = calls[i].event
    BY <1>1, <1>3
  <2> QED
    BY <2>1, <2>3, <2>4, ForElementsStays
<1>6. argOutput = Undefined
  BY NothingWaits DEF ParserCalls, Call
<1> QED
  BY <1>1, <1>4, <1>5, <1>6 DEF Listing, ElementsInv, InArray, ElementWaits

LEMMA ElementReturns ==
    ASSUME Listing, NEW p, NEW e, Progress(p, e), ParserReturns
    PROVE  ElementsInv'
<1> DEFINE n == Len(calls)
<1>1. /\ n \in Nat /\ n > 0 /\ calls[n].call = "parse" /\ Running("parse") /\ Item = Return
      /\ calls' = Callers /\ at' = at + 1 /\ at \in Nat
      /\ UNCHANGED <<session, count, objectDepth, initialObject, argOutput>>
  BY Lengths, SMTT(30) DEF Listing, ParserReturns, Running, selectionVars, JrqInv, ControlOK
<1>2. /\ Len(calls') = n - 1 /\ \A i \in 1..(n - 1) : calls'[i] = calls[i]
      /\ calls' \in Seq(Frames)
  BY <1>1, CurrentFrame DEF Listing
<1>3. ForElements(calls')
  <2>1. Len(calls') \in Nat /\ Len(calls) \in Nat /\ ForElements(calls)
    BY <1>1, <1>2 DEF Listing, ElementsInv
  <2>2. \A i \in 1..Len(calls') : i \in 1..(n - 1) /\ i <= Len(calls)
    BY <1>1, <1>2
  <2>3. \A i \in 1..Len(calls') : calls'[i].call = "create" => i <= Len(calls) /\ calls[i].call = "create"
    BY <1>2, <2>2
  <2>4. \A i \in 1..Len(calls') : i <= Len(calls) /\ calls[i].call = "emit" =>
            calls'[i].call = "emit" /\ calls'[i].event = calls[i].event
    BY <1>2, <2>2
  <2> QED
    BY <2>1, <2>3, <2>4, ForElementsStays
<1>4. argOutput = Undefined
  BY <1>1, NothingWaits DEF Return
<1>5. ASSUME Running("create")' PROVE HasReturned(at)
  <2>1. n - 1 > 0 /\ calls[n - 1].call = "create"
    <3>1. calls' # <<>> /\ calls'[Len(calls')].call = "create"
      BY <1>5 DEF Running
    <3>2. Len(calls') > 0
      BY <1>2, <3>1
    <3> QED
      BY <1>1, <1>2, <3>1, <3>2
  <2>2. n = 4 /\ calls[2].call = "emit" /\ calls[1].call # "create"
    <3>1. ForElements(calls) /\ n - 1 \in 1..n /\ 1 \in 1..n
      BY <1>1, <2>1 DEF Listing, ElementsInv
    <3>2. n - 1 = 3 /\ calls[2].call = "emit"
      BY <2>1, <3>1 DEF ForElements
    <3>3. calls[1].call # "create"
      BY <3>1 DEF ForElements
    <3> QED
      BY <1>1, <3>2, <3>3
  <2>3. Stacked(calls, p, e) /\ p[4] = Level.parsers /\ at - 1 \in 0..(Len(Script) + 1)
    BY <2>2 DEF Progress, InScript
  <2>4. p[1] = 1
    BY <1>1, <2>2, <2>3, ParserAtBottom
  <2>5. p[2] = p[1]
    <3>1. 2 \in 1..Len(calls)
      BY <2>2
    <3> QED
      BY <2>2, <2>3, <3>1 DEF Stacked
  <2>6. p[3] = p[2]
    <3>1. 3 \in 1..Len(calls) /\ calls[3].call = "create"
      BY <2>1, <2>2
    <3> QED
      BY <2>3, <3>1 DEF Stacked
  <2>7. p[4] = p[3] + 1
    <3>1. 4 \in 1..Len(calls) /\ calls[4].call = "parse"
      BY <1>1, <2>2
    <3> QED
      BY <2>3, <3>1 DEF Stacked
  <2>8. Level.parsers = 2
    BY <2>3, <2>4, <2>5, <2>6, <2>7
  <2>9. /\ at \in 0..(Len(Script) + 1) /\ Level \in Levels
        /\ Trail(Script)[at] \in Levels /\ Takes(Level, Item, Trail(Script)[at])
    BY <2>3, <2>8, NextLevel DEF Listing
  <2>10. Trail(Script)[at].parsers = 1 /\ Trail(Script)[at].where = "nested"
    BY <1>1, <2>8, <2>9, Moves
  <2>11. Len(Script) \in Nat /\ Trail(Script)[Len(Script) + 1].parsers = 0
    BY ScriptTrail DEF IsTrail, Listing
  <2>12. at \in 1..Len(Script) /\ at \in 1..(Len(Script) + 1)
    <3>1. at # Len(Script) + 1
      BY <2>10, <2>11
    <3>2. at > 0
      BY DEF Listing, JrqInv, ControlOK
    <3> QED
      BY <2>9, <2>11, <3>1, <3>2
  <2>13. Script[at] = Return
    BY <1>1, <2>12 DEF Item
  <2>14. Len(Opens[at - 1]) = 1
    <3>1. Len(Opens[at]) = KeyDepth(Trail(Script)[at])
      BY <2>12, OpensMove DEF Listing
    <3>2. KeyDepth(Trail(Script)[at]) = 1
      BY <2>9, <2>10, DepthBounds
    <3>3. Opens[at] = Opens[at - 1]
      BY <1>1, <2>8, OpensNext DEF Return, Listing
    <3> QED
      BY <3>1, <3>2, <3>3
  <2> QED
    BY <2>12, <2>13, <2>14 DEF HasReturned
<1>6. Running("create")' => HasReturned(at - 1)'
  <2>1. at' - 1 = at /\ Script' = Script /\ Opens' = Opens
    BY <1>1, SameScript
  <2>2. HasReturned(at) => HasReturned(at - 1)'
    BY <2>1 DEF HasReturned
  <2> QED
    BY <1>5, <2>2
<1> QED
  BY <1>1, <1>3, <1>4, <1>6 DEF Listing, ElementsInv, InArray, ElementWaits

LEMMA ElementEmitDone ==
    ASSUME Listing, NEW p, NEW e, Progress(p, e), EmitDone
    PROVE  ElementsInv'
<1> DEFINE n == Len(calls)
<1>1. /\ n \in Nat /\ n > 0 /\ calls[n].call = "emit" /\ Running("emit") /\ Current.handler > Handlers
      /\ calls' = Callers /\ UNCHANGED <<session, count, at, objectDepth, initialObject, argOutput>>
  BY Lengths, SMTT(30) DEF Listing, EmitDone, Running, selectionVars, JrqInv, ControlOK
<1>2. /\ Len(calls') = n - 1 /\ \A i \in 1..(n - 1) : calls'[i] = calls[i]
      /\ calls' \in Seq(Frames)
  BY <1>1, CurrentFrame DEF Listing
<1>3. n > 1 /\ calls[n - 1].call = "parse"
  BY <1>1, StackTop DEF Progress
<1>4. Running("parse")' /\ ~Running("create")'
  <2>1. calls' # <<>> /\ calls'[Len(calls')] = calls[n - 1]
    BY <1>1, <1>2, <1>3
  <2> QED
    BY <1>3, <2>1 DEF Running
<1>5. ForElements(calls')
  <2>1. Len(calls') \in Nat /\ Len(calls) \in Nat /\ ForElements(calls)
    BY <1>1, <1>2 DEF Listing, ElementsInv
  <2>2. \A i \in 1..Len(calls') : i \in 1..(n - 1) /\ i <= Len(calls)
    BY <1>1, <1>2
  <2>3. \A i \in 1..Len(calls') : calls'[i].call = "create" => i <= Len(calls) /\ calls[i].call = "create"
    BY <1>2, <2>2
  <2>4. \A i \in 1..Len(calls') : i <= Len(calls) /\ calls[i].call = "emit" =>
            calls'[i].call = "emit" /\ calls'[i].event = calls[i].event
    BY <1>2, <2>2
  <2> QED
    BY <2>1, <2>3, <2>4, ForElementsStays
<1>6. ElementWaits'
  <2> SUFFICES ASSUME argOutput # Undefined PROVE \E r \in 1..Len(Script') : HasReturned(r)' /\ Finishing(r)'
    BY <1>1 DEF ElementWaits
  <2>1. PICK r \in 1..Len(Script) : HasReturned(r) /\ Finishing(r)
    BY DEF Listing, ElementsInv, ElementWaits
  <2>2. Current.handler > 1
    <3>1. Len(hydraters) \in Nat /\ Current.handler \in 1..(Handlers + 1)
      BY <1>1, Lengths, Emission DEF Listing
    <3> QED
      BY <1>1, <3>1 DEF Handlers
  <2>3. (at = r + 1 \/ at = r + 2) /\ n = 2
    BY <1>1, <2>1, <2>2 DEF Finishing, Emits, Parses, Running
  <2>4. Script' = Script /\ HasReturned(r)'
    BY <1>1, <2>1, SameScript
  <2>5. Parses'
    BY <1>2, <1>4, <2>3 DEF Parses
  <2>6. Finishing(r)'
    BY <1>1, <2>3, <2>5 DEF Finishing
  <2> QED
    BY <2>4, <2>6
<1> QED
  BY <1>1, <1>4, <1>5, <1>6 DEF Listing, ElementsInv, InArray

\* The next handler has its turn.
LEMMA HandledFrames ==
    ASSUME JrqInv, Running("emit"), calls' = Handled(calls)
    PROVE  /\ Len(calls) \in Nat /\ Len(calls) > 0 /\ Len(calls') = Len(calls)
           /\ \A i \in 1..Len(calls) : i # Len(calls) => calls'[i] = calls[i]
           /\ calls[Len(calls)].call = "emit" /\ calls'[Len(calls)].call = "emit"
           /\ Running("emit")' /\ ~Running("create")'
           /\ Current'.event = Current.event /\ Current'.handler = Current.handler + 1
           /\ Current.handler \in 1..(Handlers + 1) /\ Handlers \in Nat
<1> DEFINE n == Len(calls)
<1>1. /\ n \in Nat /\ n > 0 /\ calls \in [1..n -> Frames] /\ calls # <<>> /\ calls \in Seq(Frames)
  BY CurrentFrame DEF Running, JrqInv, ControlOK
<1>2. /\ Current = [call |-> "emit", event |-> Current.event, handler |-> Current.handler]
      /\ Current = calls[n] /\ Current.handler \in 1..(Handlers + 1)
  BY Emission DEF Current
<1>3. calls' = [calls EXCEPT ![n].handler = @ + 1]
  BY DEF Handled
<1>4. Len(calls') = n /\ calls' # <<>>
  BY <1>1, <1>3
<1>5. \A i \in 1..n : i # n => calls'[i] = calls[i]
  BY <1>1, <1>3
<1>6. calls'[n] = [call |-> "emit", event |-> Current.event, handler |-> Current.handler + 1]
  BY <1>1, <1>2, <1>3
<1>7. Handlers \in Nat
  BY Lengths DEF Handlers
<1>8. /\ Current' = [call |-> "emit", event |-> Current.event, handler |-> Current.handler + 1]
      /\ Running("emit")' /\ ~Running("create")'
  BY <1>4, <1>6 DEF Running, Current
<1>9. calls[n].call = "emit" /\ calls'[n].call = "emit"
  BY <1>6 DEF Running
<1>10. Current'.event = Current.event /\ Current'.handler = Current.handler + 1
  BY <1>8
<1> QED
  BY <1>1, <1>2, <1>4, <1>5, <1>7, <1>8, <1>9, <1>10

LEMMA ElementsHandled ==
    ASSUME JrqInv, Running("emit"), calls' = Handled(calls), ForElements(calls)
    PROVE  ForElements(calls')
<1>1. /\ Len(calls) \in Nat /\ Len(calls) > 0 /\ Len(calls') = Len(calls)
      /\ \A i \in 1..Len(calls) : i # Len(calls) => calls'[i] = calls[i]
      /\ calls[Len(calls)].call = "emit" /\ calls'[Len(calls)].call = "emit"
      /\ Running("emit")' /\ Current'.event = Current.event
  BY HandledFrames
<1>2. calls'[Len(calls)].event = calls[Len(calls)].event
  BY <1>1 DEF Current
<1>3. \A i \in 1..Len(calls') : calls'[i].call = "create" => i <= Len(calls) /\ calls[i].call = "create"
  BY <1>1
<1>4. \A i \in 1..Len(calls') : i <= Len(calls) /\ calls[i].call = "emit" =>
          calls'[i].call = "emit" /\ calls'[i].event = calls[i].event
  BY <1>1, <1>2
<1> QED
  BY <1>1, <1>3, <1>4, ForElementsStays

LEMMA ElementHandled ==
    ASSUME Listing, Running("emit"), calls' = Handled(calls),
           UNCHANGED <<session, count, at, initialObject, argOutput>>,
           objectDepth' = objectDepth \/ objectDepth' = objectDepth - 1,
           Current.handler # 1 \/ Current.event.event # "foundValue"
    PROVE  ElementsInv'
<1>1. /\ Len(calls) \in Nat /\ Len(calls) > 0 /\ Len(calls') = Len(calls)
      /\ Running("emit")' /\ ~Running("create")'
      /\ Current'.event = Current.event /\ Current'.handler = Current.handler + 1
      /\ Current.handler \in 1..(Handlers + 1) /\ Handlers \in Nat
  BY HandledFrames DEF Listing
<1>2. ForElements(calls')
  BY ElementsHandled DEF Listing, ElementsInv
<1>3. InArray'
  BY Lengths DEF InArray, Listing, ElementsInv
<1>4. ElementWaits'
  <2> SUFFICES ASSUME argOutput # Undefined PROVE \E r \in 1..Len(Script') : HasReturned(r)' /\ Finishing(r)'
    BY DEF ElementWaits
  <2>1. PICK r \in 1..Len(Script) : HasReturned(r) /\ Finishing(r)
    BY DEF Listing, ElementsInv, ElementWaits
  <2>2. Script' = Script /\ HasReturned(r)'
    BY <2>1, SameScript
  <2>3. Script[r + 2].event = "foundValue"
    BY <2>1, ElementEnds DEF Listing
  <2>4. Len(calls) = 2 /\ ((at = r + 1 /\ Element(Current.event)) \/ (at = r + 2 /\ Current.event = Script[r + 1]))
    BY <2>1, <2>3 DEF Finishing, Emits, Parses, Running
  <2>5. Emits' /\ Current'.handler > 1
    BY <1>1, <2>4 DEF Emits
  <2>6. Finishing(r)'
    BY <1>1, <2>2, <2>4, <2>5 DEF Finishing
  <2> QED
    BY <2>2, <2>6
<1> QED
  BY <1>1, <1>2, <1>3, <1>4 DEF ElementsInv

LEMMA NothingSelected ==
    ASSUME session.args = <<>>, NEW key
    PROVE  Paths(key) = {}
BY DEF Paths

\* The end of an element is met by a found value that has it written.
LEMMA ElementFound ==
    ASSUME Listing, NEW p, NEW e, Progress(p, e), JrqFoundValue
    PROVE  ElementsInv'
<1>1. /\ OnEvent("foundValue") /\ ~session.keys /\ session.array /\ session.args = <<>>
      /\ Running("emit") /\ Current.handler = 1 /\ Current.event.event = "foundValue"
  BY DEF Listing, JrqFoundValue, OnEvent
<1>2. Paths(Key) = {} /\ \A value : Selected(Key, value) = argOutput
  <2>1. Paths(Key) = {}
    BY <1>1, NothingSelected
  <2> QED
    BY <2>1 DEF Selected
<1>3. /\ argOutput' = IF objectDepth = 0 /\ initialObject = "array" THEN Undefined ELSE argOutput
      /\ JrqReturns /\ UNCHANGED <<objectDepth, initialObject>>
  BY <1>1, <1>2 DEF JrqFoundValue
<1>4. calls' = Handled(calls)
  BY <1>3 DEF JrqReturns
<1>5. ~Running("create")' /\ Running("emit")'
  BY <1>1, <1>4, HandledFrames DEF Listing
<1>6. ForElements(calls')
  BY <1>1, <1>4, ElementsHandled DEF Listing, ElementsInv
<1>7. ASSUME argOutput # Undefined PROVE objectDepth = 0 /\ initialObject = "array"
  <2>1. PICK r \in 1..Len(Script) : HasReturned(r) /\ Finishing(r)
    BY <1>7 DEF Listing, ElementsInv, ElementWaits
  <2>2. /\ r \in Nat /\ r + 2 <= Len(Script) /\ Script[r + 1].event = "endObject"
        /\ Depth(Trail(Script)[r + 2]) = 1
    BY <2>1, ElementEnds DEF Listing
  <2>3. at = r + 3
    BY <1>1, <2>1, <2>2 DEF Finishing, Parses, Running, Element
  <2>4. Level = Trail(Script)[r + 2]
    <3>1. at - 1 = r + 2
      BY <2>2, <2>3
    <3> QED
      BY <3>1 DEF Level
  <2>5. OwedDepth = 0
    <3>1. Shift(Current.event) = 0
      BY <1>1 DEF Shift, Starts, Ends
    <3> QED
      BY <3>1 DEF OwedDepth
  <2>6. objectDepth = Depth(Level) - 1 - OwedDepth
    BY DEF Progress, Handling
  <2>7. objectDepth = 0
    BY <2>2, <2>4, <2>5, <2>6
  <2> QED
    BY <2>7 DEF Listing, ElementsInv, InArray
<1>8. argOutput' = Undefined
  BY <1>3, <1>7
<1> QED
  BY <1>3, <1>5, <1>6, <1>8 DEF Listing, ElementsInv, InArray, ElementWaits

\* No element waits when a container begins.
LEMMA NoneWaiting ==
    ASSUME Listing, Running("emit"), Current.handler = 1, Starts(Current.event)
    PROVE  argOutput = Undefined
<1> SUFFICES ASSUME argOutput # Undefined PROVE FALSE
  OBVIOUS
<1>1. PICK r \in 1..Len(Script) : HasReturned(r) /\ Finishing(r)
  BY DEF Listing, ElementsInv, ElementWaits
<1>2. Script[r + 1].event = "endObject" /\ Script[r + 2].event = "foundValue"
  BY <1>1, ElementEnds DEF Listing
<1> QED
  BY <1>1, <1>2 DEF Finishing, Parses, Running, Starts

\* The first container is an array, and an element of it is an object.
LEMMA ElementsAre ==
    ASSUME Listing, NEW p, NEW e, Progress(p, e), Running("emit"), Current.handler = 1,
           NEW item, item = Current.event, Starts(item), Len(Opens[at - 2]) = 0
    PROVE  IF Keyed(item) THEN Element(item) ELSE item.event = "startArray"
<1>1. /\ at - 1 \in 1..Len(Script) /\ item = Script[at - 1] /\ Opens[at - 2] \in Seq(Items)
  BY FirstHandler DEF Listing
<1>2. PICK n : n = at - 1 /\ n \in 1..Len(Script) /\ n - 1 = at - 2
  <2>1. at \in Nat /\ (at - 1) - 1 = at - 2
    BY DEF Listing, JrqInv, ControlOK
  <2> QED
    BY <1>1, <2>1
<1>3. OpenItems(Script)[n - 1] = <<>>
  <2>1. Opens[at - 2] = <<>>
    BY <1>1
  <2> QED
    BY <1>2, <2>1 DEF Opens
<1>4. ListsObjects(Script)
  BY DEF Listing
<1>5. IF Keyed(item) THEN item.event = "startObject" /\ IsIndex(item.key) ELSE item.event = "startArray"
  BY <1>1, <1>2, <1>3, <1>4 DEF ListsObjects
<1> QED
  BY <1>5 DEF Element

\* One parser has been called for the emission.
LEMMA OneParser ==
    ASSUME Listing, NEW p, NEW e, Progress(p, e), Running("emit"), Level.parsers = 1
    PROVE  Len(calls) = 2
<1> DEFINE n == Len(calls)
<1>1. /\ Stacked(calls, p, e) /\ p[n] = 1 /\ n \in Nat /\ n > 0 /\ calls[n].call = "emit" /\ ForElements(calls)
  BY Lengths DEF Progress, InScript, Running, Listing, ElementsInv
<1>2. n > 1 /\ calls[n - 1].call = "parse" /\ p[n - 1] = 1
  BY <1>1, StackTop
<1>3. calls[1].call # "create"
  BY <1>1, <1>2 DEF ForElements
<1>4. p[1] = 1
  BY <1>1, <1>3, ParserAtBottom
<1>5. \A i \in 0..n : p[i] = Parsers(calls, i)
  BY <1>1, StackedParsers
<1>6. ASSUME n > 2 PROVE FALSE
  <2>1. p[n - 1] = p[n - 2] + 1
    <3>1. PICK m : m = n - 1 /\ m \in 1..n /\ m - 1 = n - 2
      BY <1>1, <1>2
    <3>2. p[m] = p[m - 1] + 1
      BY <1>1, <1>2, <3>1 DEF Stacked
    <3> QED
      BY <3>1, <3>2
  <2>2. p[1] <= p[n - 2]
    <3>1. 1 \in Nat /\ n - 2 \in Nat /\ 1 <= n - 2 /\ 1 \in 0..n /\ n - 2 \in 0..n
      BY <1>1, <1>6
    <3>2. Parsers(calls, 1) <= Parsers(calls, n - 2)
      BY <3>1, ParsersGrow
    <3> QED
      BY <1>5, <3>1, <3>2
  <2>3. p[n - 2] \in Nat
    <3>1. n - 2 \in 0..Len(calls)
      BY <1>1, <1>6
    <3> QED
      BY <1>1, <3>1 DEF Stacked
  <2> QED
    BY <1>2, <1>4, <2>1, <2>2, <2>3
<1>7. n \in Nat /\ n > 1 /\ ~(n > 2)
  BY <1>1, <1>2, <1>6
<1> HIDE DEF n
<1>8. n = 2
  BY <1>7
<1> QED
  BY <1>8 DEF n

LEMMA ElementStarts ==
    ASSUME Listing, NEW p, NEW e, Progress(p, e), JrqStartObject \/ JrqStartArray
    PROVE  ElementsInv'
<1>0. PICK item : item = Current.event
  OBVIOUS
<1>1. /\ Running("emit") /\ Current.handler = 1 /\ Starts(item) /\ Key = item.key
      /\ StartContainer(IF item.event = "startObject" THEN "object" ELSE "array")
      /\ argOutput' = argOutput /\ session.args = <<>> /\ ~session.keys
  BY <1>0 DEF Listing, JrqStartObject, JrqStartArray, OnEvent, Starts, Key
<1>2. argOutput = Undefined /\ argOutput' = Undefined
  BY <1>0, <1>1, NoneWaiting
<1>3. /\ Level \in Levels /\ objectDepth = Depth(Level) - 2 /\ objectDepth \in Int
      /\ Level.where = IF Keyed(item) THEN "announced" ELSE "inside"
      /\ Depth(Level) \in Int /\ Level.parsers \in Nat /\ Level.parsers > 0
      /\ Len(Opens[at - 1]) = KeyDepth(Level)
  <2>1. Owes(1)
    BY <1>1 DEF Owes
  <2>2. OwedDepth = 1
    BY <1>0, <1>1, <2>1 DEF OwedDepth, Shift
  <2>3. /\ Level.where = IF Keyed(item) THEN "announced" ELSE "inside"
        /\ objectDepth = Depth(Level) - 1 - OwedDepth
        /\ p[Len(calls)] = Level.parsers
    BY <1>0, <1>1, <2>1 DEF Progress, InScript, Handling
  <2>4. Level \in Levels /\ Stacked(calls, p, e) /\ Len(Opens[at - 1]) = KeyDepth(Level)
    BY OpensHere DEF Listing
  <2>5. Depth(Level) \in Int /\ objectDepth \in Int /\ Len(calls) \in Nat
    BY <2>4, DepthBounds, Lengths DEF Listing
  <2>6. e[Len(calls)] > 0 /\ e[Len(calls)] <= p[Len(calls)] /\ e[Len(calls)] \in Nat /\ p[Len(calls)] \in Nat
    <3>1. Len(calls) > 0 /\ calls[Len(calls)].call = "emit"
      BY <1>1, <2>5, Lengths DEF Running, Listing
    <3> QED
      BY <2>4, <2>5, <3>1, StackTop
  <2>7. Level.parsers \in Nat /\ Level.parsers > 0
    BY <2>3, <2>6
  <2> QED
    BY <2>2, <2>3, <2>4, <2>5, <2>7
<1>4. /\ Opens[at - 2] \in Seq(Items)
      /\ Keyed(item) => Parsers(calls, Len(calls)) = Len(Opens[at - 2]) + 1
      /\ ~Keyed(item) => Opens[at - 1] = Opens[at - 2]
      /\ Parsers(calls, Len(calls)) = Level.parsers
  BY <1>0, <1>1, FirstHandler, OpensHere DEF Listing, Announces, Concludes, Starts, Ends
<1>5. Level.parsers = 1 => IF Keyed(item) THEN Element(item) ELSE item.event = "startArray"
  <2> SUFFICES ASSUME Level.parsers = 1 PROVE IF Keyed(item) THEN Element(item) ELSE item.event = "startArray"
    OBVIOUS
  <2>1. Len(Opens[at - 2]) \in Nat
    BY <1>4
  <2>2. CASE Keyed(item)
    BY <1>0, <1>1, <1>4, <2>1, <2>2, ElementsAre
  <2>3. CASE ~Keyed(item)
    <3>1. KeyDepth(Level) = 0
      BY <1>3, <2>3 DEF KeyDepth
    <3> QED
      BY <1>0, <1>1, <1>3, <1>4, <2>3, <3>1, ElementsAre
  <2> QED
    BY <2>2, <2>3
<1>6. InArray'
  <2>1. initialObject' = IF initialObject = Undefined THEN (IF item.event = "startObject" THEN "object" ELSE "array")
                         ELSE initialObject
    BY <1>1 DEF StartContainer
  <2>2. CASE initialObject # Undefined
    <3>1. initialObject = "array"
      BY <2>2 DEF Listing, ElementsInv, InArray, JrqInv, SelectionOK, Maybe
    <3> QED
      BY <2>1, <2>2, <3>1 DEF InArray
  <2>3. CASE initialObject = Undefined
    <3>1. ~(objectDepth >= 0)
      <4>1. Undefined # "array"
        BY UndefinedIsNoType
      <4> QED
        BY <2>3, <4>1 DEF Listing, ElementsInv, InArray
    <3>2. Depth(Level) < 2
      BY <1>3, <3>1
    <3>3. Level.parsers = 1 /\ ~Keyed(item)
      BY <1>3, <3>2 DEF Depth
    <3>4. item.event = "startArray"
      BY <1>5, <3>3
    <3> QED
      BY <2>1, <2>3, <3>4 DEF InArray
  <2> QED
    BY <2>2, <2>3
<1>7. CASE JrqReturns
  <2>1. calls' = Handled(calls)
    BY <1>7 DEF JrqReturns
  <2>2. ~Running("create")' /\ ForElements(calls')
    BY <1>1, <2>1, HandledFrames, ElementsHandled DEF Listing, ElementsInv
  <2> QED
    BY <1>2, <1>6, <2>2 DEF ElementsInv, ElementWaits
<1>8. CASE ~JrqReturns
  <2>1. Create /\ WantsElement
    <3>1. Paths(Key) = {}
      BY <1>1, NothingSelected
    <3> QED
      BY <1>8, <3>1 DEF JrqStartObject, JrqStartArray
  <2>2. objectDepth' = objectDepth + 1
    BY <1>1 DEF StartContainer
  <2>3. Keyed(item)
    BY <1>0, <1>1, <2>1, <2>2, ElementHasKey DEF Listing
  <2>4. Level.parsers = 1
    <3>1. objectDepth' = 1
      BY <2>1 DEF WantsElement
    <3>2. Depth(Level) = 2
      BY <1>3, <2>2, <3>1
    <3> QED
      BY <1>3, <2>3, <3>2 DEF Depth
  <2>5. Element(item) /\ Len(calls) = 2
    BY <1>1, <1>5, <2>3, <2>4, OneParser
  <2>6. calls' = calls \o <<Creating(Len(hydraters) + 1), Parsing>> /\ calls \in Seq(Frames)
    BY <2>1 DEF Create, Listing, JrqInv, ControlOK
  <2>7. /\ Len(calls') = 4 /\ calls'[1] = calls[1] /\ calls'[2] = calls[2]
        /\ calls'[3] = Creating(Len(hydraters) + 1) /\ calls'[4] = Parsing
    <3> DEFINE f == Creating(Len(hydraters) + 1)
               g == Parsing
    <3> HIDE DEF f, g
    <3>1. calls' = calls \o <<f, g>>
      BY <2>6 DEF f, g
    <3>2. /\ Len(calls') = Len(calls) + 2 /\ (\A i \in 1..Len(calls) : calls'[i] = calls[i])
          /\ calls'[Len(calls) + 1] = f /\ calls'[Len(calls) + 2] = g
      BY <2>6, <3>1
    <3>3. Len(calls') = 4 /\ calls'[1] = calls[1] /\ calls'[2] = calls[2] /\ calls'[3] = f /\ calls'[4] = g
      BY <2>5, <3>2
    <3> QED
      BY <3>3 DEF f, g
  <2>8. Parsing.call = "parse"
    BY DEF Parsing
  <2>9. ~Running("create")'
    BY <2>7, <2>8 DEF Running
  <2>10. calls[2].call = "emit" /\ calls[2].event = item
    BY <1>0, <1>1, <2>5 DEF Running, Current
  <2>11. calls[1].call # "create"
    <3>1. 1 \in 1..Len(calls)
      BY <2>5
    <3> QED
      BY <3>1 DEF Listing, ElementsInv, ForElements
  <2>12. ForElements(calls')
    <3> SUFFICES ASSUME NEW i \in 1..Len(calls'), calls'[i].call = "create"
                 PROVE  i = 3 /\ calls'[2].call = "emit" /\ Element(calls'[2].event)
      BY DEF ForElements
    <3>1. i \in {1, 2, 3, 4}
      BY <2>7
    <3>2. i = 3
      BY <2>7, <2>8, <2>10, <2>11, <3>1
    <3> QED
      BY <2>5, <2>7, <2>10, <3>2
  <2> QED
    BY <1>2, <1>6, <2>9, <2>12 DEF ElementsInv, ElementWaits
<1> QED
  BY <1>7, <1>8

\* The element is there as soon as its parser has returned.
LEMMA ElementCreated ==
    ASSUME Listing, NEW p, NEW e, Progress(p, e), CreateReturns
    PROVE  ElementsInv'
<1>1. /\ Running("create") /\ calls \in Seq(Frames) /\ Len(calls) \in Nat /\ at \in Nat
      /\ UNCHANGED <<session, count, at, objectDepth, initialObject>>
      /\ calls' = IF Callers = <<>> THEN <<>> ELSE Handled(Callers)
      /\ Stacked(calls, p, e)
  BY Lengths DEF CreateReturns, Listing, JrqInv, ControlOK, Progress
<1>2. calls[Len(calls)].call = "create" /\ Len(calls) \in 1..Len(calls)
  BY <1>1, Lengths DEF Running, Listing
<1>3. Len(calls) = 3 /\ calls[2].call = "emit" /\ Element(calls[2].event) /\ calls[1].call # "create"
  <2>1. ForElements(calls)
    BY DEF Listing, ElementsInv
  <2>2. Len(calls) = 3 /\ calls[2].call = "emit" /\ Element(calls[2].event)
    BY <1>2, <2>1 DEF ForElements
  <2>3. 1 \in 1..Len(calls)
    BY <2>2
  <2>4. calls[1].call # "create"
    BY <2>1, <2>3 DEF ForElements
  <2> QED
    BY <2>2, <2>4
<1>4. /\ Len(calls') = 2 /\ ~Running("create")' /\ Callers # <<>> /\ Running("emit")'
      /\ Current'.handler = 2 /\ Current'.event = Callers[2].event /\ Callers[2] = calls[2]
      /\ calls'[1] = calls[1]
  <2>1. 2 \in Nat /\ 2 + 1 = Len(calls)
    BY <1>3
  <2>2. JrqInv
    BY DEF Listing
  <2>3. PICK m \in Nat : m = 2 /\ m + 1 = Len(calls)
    BY <2>1
  <2>4. /\ Len(calls') = m /\ ~Running("create")' /\ (Callers # <<>> <=> m > 0)
        /\ m > 0 => /\ Running("emit")' /\ Current'.handler = 2
                    /\ Current'.event = Callers[m].event /\ Callers[m] = calls[m]
        /\ \A i \in 1..(m - 1) : calls'[i] = calls[i]
    <3>1. m + 1 = Len(calls) /\ m \in Nat
      BY <2>3
    <3> QED
      BY <1>1, <2>2, <3>1, CallerGoesOn
  <2>5. /\ Len(calls') = m /\ ~Running("create")' /\ Callers # <<>> /\ Running("emit")'
        /\ Current'.handler = 2 /\ Current'.event = Callers[m].event /\ Callers[m] = calls[m]
        /\ \A i \in 1..(m - 1) : calls'[i] = calls[i]
    BY <2>3, <2>4
  <2>6. 1 \in 1..(m - 1)
    BY <2>3
  <2> QED
    BY <2>3, <2>5, <2>6
<1>5. ForElements(calls')
  <2> SUFFICES ASSUME NEW i \in 1..Len(calls'), calls'[i].call = "create" PROVE FALSE
    BY DEF ForElements
  <2>1. i = 1 \/ i = 2
    BY <1>4
  <2>2. calls'[2].call = "emit"
    BY <1>4 DEF Running
  <2> QED
    BY <1>3, <1>4, <2>1, <2>2
<1>6. PICK r : r = at - 1 /\ HasReturned(r) /\ r \in 1..Len(Script) /\ at = r + 1
  <2>1. HasReturned(at - 1)
    BY <1>1 DEF Listing, ElementsInv
  <2> QED
    BY <1>1, <2>1 DEF HasReturned
<1>7. Script' = Script /\ HasReturned(r)'
  BY <1>1, <1>6, SameScript
<1>8. Finishing(r)'
  <2>1. Element(Current'.event) /\ Current'.handler > 1 /\ at' = r + 1 /\ Emits'
    BY <1>1, <1>3, <1>4, <1>6 DEF Emits
  <2> QED
    BY <2>1 DEF Finishing
<1>9. ElementWaits'
  BY <1>6, <1>7, <1>8 DEF ElementWaits
<1> QED
  BY <1>1, <1>4, <1>5, <1>9 DEF ElementsInv, Listing, InArray

---------------------------------------------------------------------------
(* The other requests. *)

LEMMA HandledCreates ==
    ASSUME JrqInv, Running("emit"), calls' = Handled(calls)
    PROVE  Creates(calls') \subseteq Creates(calls)
<1>1. /\ Len(calls) \in Nat /\ Len(calls') = Len(calls)
      /\ \A i \in 1..Len(calls) : i # Len(calls) => calls'[i] = calls[i]
      /\ calls'[Len(calls)].call = "emit"
  BY HandledFrames
<1> QED
  BY <1>1 DEF Creates

LEMMA AppendCreates ==
    ASSUME JrqInv, NEW f, f.call # "create", calls' = Append(calls, f)
    PROVE  Creates(calls') \subseteq Creates(calls)
<1>1. calls \in Seq(Frames) /\ Len(calls) \in Nat
  BY DEF JrqInv, ControlOK
<1>2. Len(calls') = Len(calls) + 1 /\ (\A i \in 1..Len(calls) : calls'[i] = calls[i]) /\ calls'[Len(calls) + 1] = f
  BY <1>1
<1>3. \A i \in 1..Len(calls') : i \in 1..Len(calls) \/ i = Len(calls) + 1
  BY <1>1, <1>2
<1> QED
  BY <1>2, <1>3 DEF Creates

LEMMA CallersCreate ==
    ASSUME JrqInv, calls # <<>>, calls' = Callers
    PROVE  Creates(calls') \subseteq Creates(calls)
<1>1. /\ Len(calls) \in Nat /\ Len(calls') = Len(calls) - 1
      /\ \A i \in 1..Len(calls') : calls'[i] = calls[i]
  BY CurrentFrame
<1>2. \A i \in 1..Len(calls') : i \in 1..Len(calls)
  BY <1>1
<1> QED
  BY <1>1, <1>2, SMTT(30) DEF Creates

LEMMA FewCreates ==
    /\ Creates(<<>>) = {}
    /\ Creates(<<Parsing>>) = {}
<1>1. Parsing.call = "parse"
  BY DEF Parsing
<1> QED
  BY <1>1 DEF Creates

\* A hydrater is called for a document, for an object that an argument names, or
\* for an element of an array.
CallsHydrater ==
    /\ Create /\ ~session.keys
    /\ \/ ParseTurn /\ ~session.array /\ session.args = <<>>
       \/ JrqStartObject /\ Key # Undefined /\ Paths(Key) # {}
       \/ (JrqStartObject \/ JrqStartArray) /\ WantsElement

LEMMA WhoCreates ==
    ASSUME JrqInv, Next, ~CreateReturns
    PROVE  Creates(calls') \subseteq Creates(calls) \/ CallsHydrater
<1>1. CASE ParserEmits
  <2>1. Emitting(Item).call # "create" /\ calls' = Append(calls, Emitting(Item))
    BY <1>1 DEF ParserEmits, Emitting
  <2> QED
    BY <2>1, AppendCreates
<1>2. CASE ParserCalls
  <2>1. Parsing.call # "create" /\ calls' = Append(calls, Parsing)
    BY <1>2 DEF ParserCalls, Parsing
  <2> QED
    BY <2>1, AppendCreates
<1>3. CASE ParserReturns \/ EmitDone
  <2>1. calls # <<>> /\ calls' = Callers
    BY <1>3 DEF ParserReturns, EmitDone, Running
  <2> QED
    BY <2>1, CallersCreate
<1>4. CASE calls' = <<>>
  BY <1>4, FewCreates
<1>5. CASE Running("emit") /\ calls' = Handled(calls)
  BY <1>5, HandledCreates
<1>6. CASE HydraterHandles \/ JrqFoundKey \/ JrqFoundValue \/ JrqEnd \/ StackTooLong
  <2>1. calls' = <<>> \/ (Running("emit") /\ calls' = Handled(calls))
    BY <1>6 DEF HydraterHandles, JrqFoundKey, JrqFoundValue, JrqEnd, StackTooLong, Throw, OnEvent, JrqReturns
  <2> QED
    BY <1>4, <1>5, <2>1
<1>7. CASE JrqStartObject \/ JrqStartArray
  <2>1. CallsHydrater \/ (Running("emit") /\ calls' = Handled(calls))
    BY <1>7 DEF JrqStartObject, JrqStartArray, OnEvent, JrqReturns, CallsHydrater
  <2> QED
    BY <1>5, <2>1
<1>8. CASE ParseTurn
  <2>1. CallsHydrater \/ calls' = <<Parsing>>
    BY <1>8 DEF ParseTurn, CallsHydrater
  <2> QED
    BY <2>1, FewCreates
<1>9. CASE WriteTurn \/ JrqExited
  <2>1. calls' = calls
    BY <1>9 DEF WriteTurn, JrqExited, vars
  <2> QED
    BY <2>1
<1> QED
  BY <1>1, <1>2, <1>3, <1>6, <1>7, <1>8, <1>9 DEF Next

LEMMA NothingFound ==
    ASSUME Next, ~CreateReturns, ~JrqFoundValue
    PROVE  argOutput' \in {argOutput, Undefined}
<1>1. CASE ParserEmits
  BY <1>1 DEF ParserEmits, selectionVars
<1>2. CASE ParserCalls
  BY <1>2 DEF ParserCalls, selectionVars
<1>3. CASE ParserReturns
  BY <1>3 DEF ParserReturns, selectionVars
<1>4. CASE EmitDone
  BY <1>4 DEF EmitDone, selectionVars
<1>5. CASE HydraterHandles
  BY <1>5 DEF HydraterHandles, selectionVars, Throw
<1>6. CASE StackTooLong
  BY <1>6 DEF StackTooLong, Throw, selectionVars
<1>7. CASE JrqFoundKey \/ JrqStartObject \/ JrqStartArray \/ JrqEnd
  BY <1>7 DEF JrqFoundKey, JrqStartObject, JrqStartArray, JrqEnd
<1>8. CASE ParseTurn \/ WriteTurn \/ JrqExited
  BY <1>8 DEF ParseTurn, WriteTurn, JrqExited, vars, selectionVars
<1> QED
  BY <1>1, <1>2, <1>3, <1>4, <1>5, <1>6, <1>7, <1>8 DEF Next

\* An emission waits only for a hydrater.
LEMMA NothingUnpushed ==
    ASSUME NoHydrater, NEW p, NEW e, Stacked(calls, p, e), Len(calls) \in Nat
    PROVE  Left = {}
<1>1. \A i \in 1..(Len(calls) - 1) : calls[i].call # "emit"
  <2> SUFFICES ASSUME NEW i \in 1..(Len(calls) - 1), calls[i].call = "emit" PROVE FALSE
    OBVIOUS
  <2>1. PICK j : j = i + 1 /\ j \in 1..Len(calls) /\ j # 1 /\ j - 1 = i
    OBVIOUS
  <2>2. calls[j].call # "create"
    BY <2>1 DEF NoHydrater, Creates
  <2> QED
    BY <2>1, <2>2 DEF Stacked
<1>2. Hydrating(calls) = {}
  BY <1>1 DEF Hydrating
<1> QED
  BY <1>2 DEF Left

LEMMA NoObjectNamed ==
    ASSUME ScriptsBracketed, JrqInv, NEW p, NEW e, Progress(p, e), PathSoFar, NoHydrater,
           NamesNoObject(session, Script), JrqStartObject, Key # Undefined, ~session.keys
    PROVE  Paths(Key) = {}
<1>1. PICK item : item = Current.event
  OBVIOUS
<1>2. /\ Running("emit") /\ Current.handler = 1 /\ Key = item.key
      /\ item.event = "startObject" /\ Announces(item)
  BY <1>1 DEF JrqStartObject, OnEvent, Key, Announces, Starts, Keyed
<1>3. Stacked(calls, p, e) /\ Len(calls) \in Nat
  BY Lengths DEF Progress
<1>4. Left = {}
  BY <1>3, NothingUnpushed
<1>5. /\ at - 1 \in 1..Len(Script) /\ item = Script[at - 1]
      /\ keyStack = KeysWithout(Opens[at - 2], {})
  BY <1>1, <1>2, <1>4, FirstHandler
<1>6. PICK n : n = at - 1 /\ n \in 1..Len(Script) /\ n - 1 = at - 2
  <2>1. at \in Nat /\ (at - 1) - 1 = at - 2
    BY DEF JrqInv, ControlOK
  <2> QED
    BY <1>5, <2>1
<1>7. \A i \in 1..Len(session.args) :
         /\ session.args[i] # Append(keyStack, Key)
         /\ session.array => session.args[i] # Append(SubSeq(keyStack, 2, Len(keyStack)), Key)
  <2>1. keyStack = KeysWithout(OpenItems(Script)[n - 1], {})
    BY <1>5, <1>6 DEF Opens
  <2>2. Script[n] = item
    BY <1>5, <1>6
  <2> QED
    BY <1>2, <1>6, <2>1, <2>2 DEF NamesNoObject
<1>8. Path(Key) = Append(keyStack, Key)
      \/ (session.array /\ Path(Key) = Append(SubSeq(keyStack, 2, Len(keyStack)), Key))
  BY DEF Path
<1> QED
  BY <1>7, <1>8 DEF Paths

LEMMA NoHydraterStays ==
    ASSUME ScriptsBracketed, SettledInv, main # "failed" => PathSoFar, NoHydrater, Next,
           session.keys \/ (session.args # <<>> /\ NamesNoObject(session, Script))
    PROVE  NoHydrater' /\ ~CreateReturns
<1>1. ~CreateReturns
  <2>1. Len(calls) \in Nat /\ (calls = <<>> <=> Len(calls) = 0)
    BY Lengths DEF SettledInv
  <2>2. ~Running("create")
    BY <2>1 DEF Running, NoHydrater, Creates
  <2> QED
    BY <2>2 DEF CreateReturns
<1>2. ~CallsHydrater
  <2> SUFFICES ASSUME CallsHydrater PROVE FALSE
    OBVIOUS
  <2>1. ~session.keys /\ session.args # <<>> /\ NamesNoObject(session, Script)
    BY DEF CallsHydrater
  <2>2. JrqStartObject /\ Key # Undefined /\ Paths(Key) # {}
    BY <2>1 DEF CallsHydrater, WantsElement
  <2>3. JrqInv /\ main = "parsing"
    <3>1. calls # <<>>
      BY <2>2 DEF JrqStartObject, OnEvent, Running
    <3> QED
      BY <3>1, CurrentFrame DEF SettledInv
  <2>4. PICK p, e : Progress(p, e)
    BY <2>3 DEF SettledInv
  <2> QED
    BY <2>1, <2>2, <2>3, <2>4, NoObjectNamed
<1>3. Creates(calls') \subseteq Creates(calls)
  BY <1>1, <1>2, WhoCreates DEF SettledInv
<1> QED
  BY <1>1, <1>3 DEF NoHydrater

LEMMA ScalarsStay ==
    ASSUME ScalarsWait, ~session.keys, main' # "failed", JrqFoundValue
    PROVE  ScalarsWait'
<1> DEFINE text  == Current.event.value
           value == IF text = Undefined THEN Undefined ELSE Parsed(text)
           s     == Selected(Key, value)
<1>1. argOutput' = Undefined \/ argOutput' = s
  BY DEF JrqFoundValue, Throw
<1>2. ~IsRef(Undefined) /\ ~IsRef(Parsed(text))
  BY DEF IsRef, Parsed
<1>3. ~IsRef(value)
  BY <1>2
<1> HIDE DEF value, text
<1>4. ASSUME s # Undefined PROVE \A i \in DOMAIN s : ~IsRef(s[i])
  <2> DEFINE output == IF argOutput = Undefined THEN NewOutput ELSE argOutput
  <2>1. \A i \in DOMAIN output : ~IsRef(output[i])
    <3>1. CASE argOutput = Undefined
      <4>1. \A i \in DOMAIN NewOutput : NewOutput[i] = Undefined
        BY DEF NewOutput
      <4> QED
        BY <1>2, <3>1, <4>1
    <3>2. CASE argOutput # Undefined
      BY <3>2 DEF ScalarsWait
    <3> QED
      BY <3>1, <3>2
  <2>2. s = argOutput \/ s = [i \in DOMAIN output |-> IF i \in Paths(Key) THEN value ELSE output[i]]
    BY DEF Selected
  <2> HIDE DEF output, s
  <2>3. CASE s = argOutput
    BY <1>4, <2>3 DEF ScalarsWait
  <2>4. CASE s = [i \in DOMAIN output |-> IF i \in Paths(Key) THEN value ELSE output[i]]
    BY <1>3, <2>1, <2>4
  <2> QED
    BY <2>2, <2>3, <2>4
<1> HIDE DEF s
<1> QED
  BY <1>1, <1>4 DEF ScalarsWait

LEMMA WholeStays ==
    ASSUME JrqInv, WholeWaits, Next, main' # "failed",
           ~session.keys, session.args = <<>>, ~session.array
    PROVE  WholeWaits'
<1>1. Len(calls) \in Nat /\ (calls = <<>> <=> Len(calls) = 0) /\ calls \in Seq(Frames)
  BY Lengths DEF JrqInv, ControlOK
<1>2. \A key : Paths(key) = {}
  BY NothingSelected
<1>3. ~WantsElement
  BY DEF WantsElement
<1>4. CASE CreateReturns
  <2>1. Running("create") /\ calls' = IF Callers = <<>> THEN <<>> ELSE Handled(Callers)
    BY <1>4 DEF CreateReturns
  <2>2. Len(calls) = 1
    <3>1. Len(calls) \in 1..Len(calls) /\ calls[Len(calls)].call = "create"
      BY <1>1, <2>1 DEF Running
    <3>2. Len(calls) \in Creates(calls)
      BY <3>1 DEF Creates
    <3> QED
      BY <3>2 DEF WholeWaits
  <2>3. Callers = <<>>
    BY <1>1, <2>2, CurrentFrame
  <2>4. calls' = <<>>
    BY <2>1, <2>3
  <2> QED
    BY <2>4, FewCreates DEF WholeWaits
<1>5. CASE ParseTurn
  <2>1. calls = <<>> /\ calls' = calls \o <<Creating(Len(hydraters) + 1), Parsing>> /\ argOutput' = Undefined
    BY <1>5 DEF ParseTurn, Create, JrqInv, ControlOK
  <2>2. calls' = <<Creating(Len(hydraters) + 1), Parsing>>
    <3> DEFINE x == <<Creating(Len(hydraters) + 1), Parsing>>
    <3>1. <<>> \o x = x
      OBVIOUS
    <3> QED
      BY <2>1, <3>1
  <2>3. Parsing.call = "parse"
    BY DEF Parsing
  <2>4. Creates(calls') \subseteq {1}
    BY <2>2, <2>3 DEF Creates
  <2> QED
    BY <2>1, <2>4 DEF WholeWaits
<1>6. CASE ~CreateReturns /\ ~ParseTurn
  <2>1. ~CallsHydrater
    BY <1>2, <1>3, <1>6 DEF CallsHydrater
  <2>2. Creates(calls') \subseteq {1}
    BY <1>6, <2>1, WhoCreates DEF WholeWaits
  <2>3. argOutput' \in {argOutput, Undefined}
    <3>1. CASE JrqFoundValue
      <4>1. \A value : Selected(Key, value) = argOutput
        BY <1>2 DEF Selected
      <4> QED
        BY <3>1, <4>1 DEF JrqFoundValue, Throw
    <3> QED
      BY <1>6, <3>1, NothingFound
  <2>4. calls = <<>> => calls' = <<>>
    BY <1>6 DEF Next, ParserEmits, ParserCalls, ParserReturns, EmitDone, HydraterHandles, JrqFoundKey,
                JrqFoundValue, JrqStartObject, JrqStartArray, JrqEnd, StackTooLong, CreateReturns,
                WriteTurn, JrqExited, OnEvent, Running, vars
  <2> QED
    BY <2>2, <2>3, <2>4 DEF WholeWaits
<1> QED
  BY <1>4, <1>5, <1>6

LEMMA ElementsStay ==
    ASSUME ScriptsBracketed, SettledInv, main # "failed" => PathSoFar, ElementsInv, Next, main' # "failed",
           ListsObjects(Script), ~session.keys, session.args = <<>>, session.array
    PROVE  ElementsInv'
<1>1. JrqInv
  BY DEF SettledInv
<1>2. CASE calls # <<>>
  <2>1. main = "parsing" /\ PathSoFar
    BY <1>1, <1>2, CurrentFrame
  <2>2. PICK p, e : Progress(p, e)
    BY <2>1 DEF SettledInv
  <2>3. Listing
    BY <1>1, <1>2, <2>1 DEF Listing
  <2>4. CASE ParserEmits
    BY <2>2, <2>3, <2>4, ElementEmits
  <2>5. CASE ParserCalls
    BY <2>3, <2>5, ElementCalls
  <2>6. CASE ParserReturns
    BY <2>2, <2>3, <2>6, ElementReturns
  <2>7. CASE EmitDone
    BY <2>2, <2>3, <2>7, ElementEmitDone
  <2>8. CASE HydraterHandles
    <3>1. /\ Running("emit") /\ calls' = Handled(calls) /\ objectDepth' = objectDepth
          /\ UNCHANGED <<session, count, at, initialObject, argOutput>> /\ Current.handler \in 2..Handlers
      BY <2>8 DEF HydraterHandles, Throw, selectionVars
    <3>2. Current.handler # 1
      BY <3>1
    <3> QED
      BY <2>3, <3>1, <3>2, ElementHandled
  <2>9. CASE JrqFoundKey \/ JrqEnd
    <3>1. /\ Running("emit") /\ calls' = Handled(calls) /\ Current.event.event # "foundValue"
          /\ UNCHANGED <<session, count, at, initialObject, argOutput>>
          /\ objectDepth' = objectDepth \/ objectDepth' = objectDepth - 1
      BY <2>9 DEF JrqFoundKey, JrqEnd, OnEvent, JrqReturns
    <3> QED
      BY <2>3, <3>1, ElementHandled
  <2>10. CASE JrqFoundValue
    BY <2>2, <2>3, <2>10, ElementFound
  <2>11. CASE JrqStartObject \/ JrqStartArray
    BY <2>2, <2>3, <2>11, ElementStarts
  <2>12. CASE CreateReturns
    BY <2>2, <2>3, <2>12, ElementCreated
  <2> QED
    BY <1>2, <2>1, <2>4, <2>5, <2>6, <2>7, <2>8, <2>9, <2>10, <2>11, <2>12
       DEF Next, StackTooLong, Throw, ParseTurn, WriteTurn, JrqExited
<1>3. CASE calls = <<>>
  <2>1. ParseTurn \/ WriteTurn \/ JrqExited
    BY <1>3 DEF Next, ParserEmits, ParserCalls, ParserReturns, EmitDone, HydraterHandles, JrqFoundKey,
                JrqFoundValue, JrqStartObject, JrqStartArray, JrqEnd, StackTooLong, CreateReturns,
                OnEvent, Running
  <2>2. argOutput = Undefined
    <3> SUFFICES ASSUME argOutput # Undefined PROVE FALSE
      OBVIOUS
    <3>1. PICK r \in 1..Len(Script) : Finishing(r)
      BY DEF ElementsInv, ElementWaits
    <3> QED
      BY <1>3, <3>1 DEF Finishing, Emits, Parses, Running
  <2>3. /\ argOutput' = Undefined /\ UNCHANGED <<initialObject, objectDepth>>
        /\ calls' = <<>> \/ calls' = <<Parsing>>
    BY <1>3, <2>1, <2>2 DEF ParseTurn, WriteTurn, JrqExited, vars, selectionVars
  <2>4. Parsing.call = "parse"
    BY DEF Parsing
  <2>5. ~Running("create")' /\ ForElements(calls')
    BY <2>3, <2>4 DEF Running, ForElements
  <2> QED
    BY <2>3, <2>5 DEF ElementsInv, InArray, ElementWaits
<1> QED
  BY <1>2, <1>3

---------------------------------------------------------------------------
(* What waits stays. *)

SessionsUndisturbed == \A s \in Sessions : Undisturbed(s)

LEMMA ThisSession ==
    ASSUME SessionsUndisturbed, JrqInv, ~session.keys
    PROVE  /\ session.args # <<>> => NamesNoObject(session, Script)
           /\ session.args = <<>> /\ session.array => ListsObjects(Script)
<1>1. Undisturbed(session) /\ count \in 1..Len(session.parses)
  BY DEF SessionsUndisturbed, JrqInv, ControlOK
<1> QED
  BY <1>1 DEF Undisturbed, Script

LEMMA ResultsInvStays ==
    ASSUME ScriptsBracketed, SessionsUndisturbed, KeyPathInv, ResultsInv, [Next]_vars
    PROVE  ResultsInv'
<1>1. SettledInv /\ JrqInv /\ (main # "failed" => PathSoFar)
  BY DEF KeyPathInv, SettledInv
<1>2. CASE UNCHANGED vars
  <2>1. UNCHANGED <<session, count, at, main, calls, objectDepth, initialObject, argOutput>>
    BY <1>2 DEF vars, selectionVars
  <2> QED
    BY <2>1 DEF ResultsInv, NoHydrater, ScalarsWait, WholeWaits, ElementsInv, InArray, ElementWaits,
                HasReturned, Finishing, Emits, Parses, Running, Current, Opens, Script
<1>3. CASE Next /\ main' # "failed"
  <2>1. main # "failed"
    <3> SUFFICES ASSUME main = "failed" PROVE FALSE
      OBVIOUS
    <3>1. calls = <<>>
      BY <1>1 DEF JrqInv, ControlOK
    <3> QED
      BY <1>3, <3>1 DEF Next, ParserEmits, ParserCalls, ParserReturns, EmitDone, HydraterHandles,
                JrqFoundKey, JrqFoundValue, JrqStartObject, JrqStartArray, JrqEnd, StackTooLong,
                CreateReturns, OnEvent, Running, ParseTurn, WriteTurn, JrqExited, vars
  <2>2. session' = session
    BY <1>3 DEF Next, ParserEmits, ParserCalls, ParserReturns, EmitDone, HydraterHandles, Throw,
                JrqFoundKey, JrqFoundValue, JrqStartObject, JrqStartArray, JrqEnd, StackTooLong,
                CreateReturns, JrqReturns, Create, ParseTurn, WriteTurn, JrqExited, vars
  <2>3. CASE session.keys
    <3>1. NoHydrater /\ argOutput = Undefined
      BY <2>1, <2>3 DEF ResultsInv
    <3>2. NoHydrater' /\ ~CreateReturns
      BY <1>1, <1>3, <2>3, <3>1, NoHydraterStays
    <3>3. argOutput' = Undefined
      <4>1. CASE JrqFoundValue
        BY <2>3, <3>1, <4>1 DEF JrqFoundValue, selectionVars
      <4>2. CASE ~JrqFoundValue
        BY <1>3, <3>1, <3>2, <4>2, NothingFound
      <4> QED
        BY <4>1, <4>2
    <3> QED
      BY <2>2, <2>3, <3>2, <3>3 DEF ResultsInv
  <2>4. CASE ~session.keys /\ session.args # <<>>
    <3>1. NoHydrater /\ ScalarsWait /\ NamesNoObject(session, Script)
      BY <1>1, <2>1, <2>4, ThisSession DEF ResultsInv
    <3>2. NoHydrater' /\ ~CreateReturns
      BY <1>1, <1>3, <2>4, <3>1, NoHydraterStays
    <3>3. ScalarsWait'
      <4>1. CASE JrqFoundValue
        BY <1>3, <2>4, <3>1, <4>1, ScalarsStay
      <4>2. CASE argOutput' \in {argOutput, Undefined}
        BY <3>1, <4>2 DEF ScalarsWait
      <4> QED
        BY <1>3, <3>2, <4>1, <4>2, NothingFound
    <3> QED
      BY <2>2, <2>4, <3>2, <3>3 DEF ResultsInv
  <2>5. CASE ~session.keys /\ session.args = <<>> /\ ~session.array
    <3>1. WholeWaits
      BY <2>1, <2>5 DEF ResultsInv
    <3>2. WholeWaits'
      BY <1>1, <1>3, <2>5, <3>1, WholeStays
    <3> QED
      BY <2>2, <2>5, <3>2 DEF ResultsInv
  <2>6. CASE ~session.keys /\ session.args = <<>> /\ session.array
    <3>1. ElementsInv /\ ListsObjects(Script)
      BY <1>1, <2>1, <2>6, ThisSession DEF ResultsInv
    <3>2. ElementsInv'
      BY <1>1, <1>3, <2>6, <3>1, ElementsStay
    <3> QED
      BY <2>2, <2>6, <3>2 DEF ResultsInv
  <2> QED
    BY <2>3, <2>4, <2>5, <2>6
<1>4. CASE main' = "failed"
  BY <1>4 DEF ResultsInv
<1> QED
  BY <1>2, <1>3, <1>4

\* While an element waits, hydraters only make objects.
LEMMA ElementsUntouched ==
    ASSUME Listing, argOutput # Undefined, HydraterHandles
    PROVE  heap' = heap \/ \E object : heap' = Append(heap, object)
<1>1. PICK r \in 1..Len(Script) : HasReturned(r) /\ Finishing(r)
  BY DEF Listing, ElementsInv, ElementWaits
<1>2. Script[r + 1].event = "endObject" /\ IsIndex(Script[r + 1].key)
  BY <1>1, ElementEnds DEF Listing
<1>3. Running("emit") /\ Current.handler \in 2..Handlers /\ Handlers \in Nat
  BY Lengths DEF HydraterHandles, Handlers, Listing
<1>4. Current.handler # 1
  BY <1>3
<1>5. Element(Current.event) \/ Current.event = Script[r + 1]
  BY <1>1, <1>3, <1>4 DEF Finishing, Parses, Running
<1>6. PICK h : h = Current.handler - 1 /\ (Hydrates(h, Current.event) \/ heap' = heap)
  BY DEF HydraterHandles, Throw, createVars
<1>7. CASE heap' = heap
  BY <1>7
<1>8. CASE Hydrates(h, Current.event) /\ Element(Current.event)
  <2>1. PushObject(h, Current.event.key, "object")
    BY <1>8 DEF Hydrates, Element
  <2> QED
    BY <2>1 DEF PushObject, createVars
<1>9. CASE Hydrates(h, Current.event) /\ Current.event = Script[r + 1]
  <2>1. PopObject(h, Current.event.key, "object") /\ IsIndex(Current.event.key)
    BY <1>2, <1>9 DEF Hydrates
  <2> QED
    BY <2>1 DEF PopObject, Stores, createVars
<1> QED
  BY <1>5, <1>6, <1>7, <1>8, <1>9

LEMMA ResultsStay ==
    ASSUME ScriptsBracketed, SessionsUndisturbed, KeyPathInv, KeyPathInv', ResultsInv, [Next]_vars,
           argOutput # Undefined, NEW i \in DOMAIN argOutput
    PROVE  Tree(argOutput[i])' = Tree(argOutput[i]) \/ argOutput' # argOutput
<1> SUFFICES ASSUME argOutput' = argOutput PROVE Tree(argOutput[i])' = Tree(argOutput[i])
  OBVIOUS
<1>1. SettledInv /\ JrqInv /\ HeapInv /\ HeapInv' /\ (main # "failed" => PathSoFar)
  BY DEF KeyPathInv, SettledInv, JrqInv
<1>2. CASE heap' = heap
  BY <1>2 DEF Tree
<1>3. CASE heap' # heap
  <2>1. HydraterHandles
    BY <1>3 DEF Next, ParserEmits, ParserCalls, ParserReturns, EmitDone, Throw, JrqFoundKey,
                JrqFoundValue, JrqStartObject, JrqStartArray, JrqEnd, StackTooLong, CreateReturns, Conclude,
                JrqReturns, Create, ParseTurn, WriteTurn, JrqExited, vars, createVars
  <2>2. calls # <<>> /\ main = "parsing" /\ PathSoFar
    <3>1. calls # <<>>
      BY <2>1 DEF HydraterHandles, Running
    <3> QED
      BY <1>1, <3>1, CurrentFrame
  <2>3. CASE session.keys \/ (session.args = <<>> /\ ~session.array)
    BY <2>2, <2>3 DEF ResultsInv, WholeWaits
  <2>4. CASE ~session.keys /\ session.args # <<>>
    <3>1. ~IsRef(argOutput[i])
      BY <2>2, <2>4 DEF ResultsInv, ScalarsWait
    <3> QED
      BY <3>1 DEF Tree, IsRef
  <2>5. CASE ~session.keys /\ session.args = <<>> /\ session.array
    <3>1. Listing
      BY <1>1, <2>2, <2>5, ThisSession DEF Listing, ResultsInv
    <3>2. PICK object : heap' = Append(heap, object)
      BY <1>3, <2>1, <3>1, ElementsUntouched
    <3>3. heap \in Seq(HeapObjects)
      BY <1>1 DEF HeapInv
    <3>4. Len(heap) <= Len(heap') /\ \A n \in 1..Len(heap) : heap'[n] = heap[n]
      BY <3>2, <3>3
    <3>5. argOutput[i] \in Maybe(Values)
      <4>1. argOutput \in [Places -> Maybe(Values)]
        BY <1>1 DEF JrqInv, SelectionOK, Maybe
      <4> QED
        BY <4>1
    <3>6. PICK value : value = argOutput[i] /\ value = argOutput'[i]
      OBVIOUS
    <3>7. Tree(value)' = Tree(value)
      BY <1>1, <3>4, <3>5, <3>6, TreesStay
    <3>8. Tree(argOutput[i])' = Tree(value)' /\ Tree(argOutput[i]) = Tree(value)
      BY <3>6 DEF Tree
    <3> QED
      BY <3>7, <3>8
  <2> QED
    BY <2>3, <2>4, <2>5
<1> QED
  BY <1>2, <1>3

\* What waits in argOutput to be written stays as it was found (jrq.js:184-361),
\* when every script is that of a complete document and no argument names an
\* object: the handlers of the hydraters that are still registered
\* (json_create.js:101-139) find nothing to do in it before it is written.
THEOREM ResultsAlwaysKeep ==
    ASSUME ScriptsBracketed, SessionsUndisturbed
    PROVE  Spec => ResultsKeep
<1> DEFINE Inv == KeyPathInv /\ ResultsInv
           Keeps == argOutput # Undefined /\ argOutput' = argOutput =>
                        \A i \in DOMAIN argOutput : Tree(argOutput[i])' = Tree(argOutput[i])
<1>1. Init => Inv
  <2> SUFFICES ASSUME Init PROVE Inv
    OBVIOUS
  <2>1. KeyPathInv
    BY KeyPathInitially
  <2>2. calls = <<>> /\ argOutput = Undefined /\ objectDepth = -1 /\ initialObject = Undefined
    BY DEF Init
  <2>3. ~Running("create") /\ ForElements(calls) /\ Creates(calls) = {}
    BY <2>2 DEF Running, ForElements, Creates
  <2>4. InArray
    BY <2>2, UndefinedIsNoType DEF InArray
  <2> QED
    BY <2>1, <2>2, <2>3, <2>4 DEF ResultsInv, NoHydrater, ScalarsWait, WholeWaits, ElementsInv, ElementWaits
<1>2. Inv /\ [Next]_vars => Inv'
  BY KeyPathInvStays, ResultsInvStays
<1>3. Inv /\ Inv' /\ [Next]_vars => [Keeps]_vars
  BY ResultsStay
<1> HIDE DEF Inv, Keeps
<1>4. ResultsKeep <=> [][Keeps]_vars
  BY DEF ResultsKeep, Keeps
<1> QED
  BY <1>1, <1>2, <1>3, <1>4, PTL DEF Spec
============================================================================
