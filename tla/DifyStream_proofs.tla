---------------------------- MODULE DifyStream_proofs ----------------------------
(***************************************************************************)
(* For every stream of events and every way of cutting it into chunks.     *)
(* What the reader makes of a text is a recursive function; that it exists *)
(* and what it computes is shown by induction, with sets for predicates.   *)
(***************************************************************************)
EXTENDS DifyStream, SequenceTheorems, WellFoundedInduction, TLAPS

\* A set with 0 and the successor of each of its numbers has them all.
LEMMA Induction ==
  ASSUME NEW S, 0 \in S, \A n \in Nat : n \in S => n + 1 \in S
  PROVE  Nat \subseteq S
<1> DEFINE Missing == Nat \ S
           Less == {ss \in Nat \X Nat : ss[1] < ss[2]}
<1>1. SUFFICES ASSUME Missing # {} PROVE FALSE
  OBVIOUS
<1>2. IsWellFoundedOn(Less, Nat)
  BY NatLessThanWellFounded DEF OpToRel
<1>3. PICK n \in Missing : \A m \in Missing : <<m, n>> \notin Less
  <2> Missing \subseteq Nat
    OBVIOUS
  <2> HIDE DEF Missing, Less
  <2>1. QED
    BY <1>1, <1>2, WFMin
<1>4. n # 0 /\ n - 1 \in Nat /\ n - 1 < n
  BY <1>3
<1>5. n - 1 \notin Missing
  BY <1>3, <1>4
<1>6. QED
  BY <1>3, <1>4, <1>5

\* A function on 0 .. N with given first value and steps exists.
Steps(V) == [Nat \X V -> V]
Follows(f, N, v, step) == f[0] = v /\ \A k \in 1 .. N : f[k] = step[<<k, f[k - 1]>>]
LEMMA RecursionExists ==
  ASSUME NEW N \in Nat, NEW V, NEW v \in V, NEW step \in Steps(V)
  PROVE  \E f \in [0 .. N -> V] : Follows(f, N, v, step)
<1> USE DEF Steps, Follows
<1> DEFINE Good(n, f) == f[0] = v /\ \A k \in 1 .. n : f[k] = step[<<k, f[k - 1]>>]
           S == {n \in Nat : \E f \in [0 .. n -> V] : Good(n, f)}
<1>1. 0 \in S
  <2>1. [k \in 0 .. 0 |-> v] \in [0 .. 0 -> V] /\ Good(0, [k \in 0 .. 0 |-> v])
    OBVIOUS
  <2>2. QED
    BY <2>1
<1>2. ASSUME NEW n \in Nat, n \in S PROVE n + 1 \in S
  <2>1. PICK f \in [0 .. n -> V] : Good(n, f)
    BY <1>2
  <2> DEFINE g == [k \in 0 .. n + 1 |-> IF k <= n THEN f[k] ELSE step[<<n + 1, f[n]>>]]
  <2>2. f[n] \in V /\ <<n + 1, f[n]>> \in Nat \X V
    BY <2>1
  <2>3. g \in [0 .. n + 1 -> V]
    BY <2>1, <2>2
  <2>4. \A k \in 1 .. n + 1 : g[k] = step[<<k, g[k - 1]>>]
    <3>1. TAKE k \in 1 .. n + 1
    <3>2. CASE k <= n
      BY <2>1, <3>2
    <3>3. CASE k = n + 1
      BY <3>3
    <3>4. QED
      BY <3>2, <3>3
  <2>5. g[0] = v
    BY <2>1
  <2> HIDE DEF g
  <2>6. QED
    BY <2>3, <2>4, <2>5
<1>3. N \in S
  <2> HIDE DEF S
  <2>1. QED
    BY <1>1, <1>2, Induction
<1>4. QED
  BY <1>3
-------------------------------------------------------------------------------
\* The arithmetic of positions: an event has six of them.
LEMMA Positions ==
  ASSUME NEW m \in Nat, NEW i \in 1 .. 6
  PROVE  /\ EventAt(6 * m + i) = m + 1
         /\ PartAt(6 * m + i) = CASE i = 1 -> "head" [] i = 2 -> "lead" [] i = 3 -> "continuation"
                                  [] i = 4 -> "tail" [] OTHER -> "newline"
<1>1. EventAt(6 * m + i) = m + 1
  BY DEF EventAt
<1>2. (6 * m + i) % 6 = IF i = 6 THEN 0 ELSE i
  OBVIOUS
<1>3. QED
  BY <1>1, <1>2 DEF PartAt

LEMMA Division ==
  ASSUME NEW n \in Nat
  PROVE  /\ n % 6 \in 0 .. 5
         /\ n \div 6 \in Nat
         /\ n = 6 * (n \div 6) + (n % 6)
<1> DEFINE S == {k \in Nat : \E m \in Nat : k - 6 * m \in 0 .. 5}
<1>1. 0 \in S
  OBVIOUS
<1>2. ASSUME NEW k \in Nat, k \in S PROVE k + 1 \in S
  <2>1. PICK m \in Nat : k - 6 * m \in 0 .. 5
    BY <1>2
  <2>2. \/ (k + 1) - 6 * m \in 0 .. 5
        \/ (k + 1) - 6 * (m + 1) \in 0 .. 5
    BY <2>1
  <2>3. m + 1 \in Nat /\ k + 1 \in Nat
    OBVIOUS
  <2>4. QED
    BY <2>2, <2>3
<1>3. n \in S
  <2> HIDE DEF S
  <2>1. QED
    BY <1>1, <1>2, Induction
<1>4. PICK m \in Nat : n - 6 * m \in 0 .. 5
  BY <1>3
<1>5. n \div 6 = m
  BY <1>4
<1>6. n % 6 = n - 6 * m
  BY <1>4
<1>7. n % 6 \in 0 .. 5
  BY <1>4, <1>6
<1>8. 6 * (n \div 6) + (n % 6) = n
  <2> DEFINE q == n \div 6
             i == n % 6
  <2>1. q = m /\ i = n - 6 * m
    BY <1>5, <1>6
  <2> HIDE DEF q, i
  <2>2. 6 * q + i = n
    BY <2>1
  <2>3. QED
    BY <2>2 DEF q, i
<1>9. QED
  BY <1>5, <1>7, <1>8
-------------------------------------------------------------------------------
\* The symbol that position p has in a text.
Symbol(p) == [part |-> IF PartAt(p) \in {"lead", "continuation"} THEN "char" ELSE PartAt(p),
              event |-> EventAt(p)]

\* The text of n positions after p, when its bytes are decoded.
TextAt(p, n) == Decode(Chunk(p, n))

LEMMA PartIsKnown ==
  ASSUME NEW p \in Nat
  PROVE  PartAt(p) \in {"head", "lead", "continuation", "tail", "newline"} /\ EventAt(p) \in Nat
<1>1. EventAt(p) \in Nat
  BY Division DEF EventAt
<1>2. QED
  BY <1>1 DEF PartAt

LEMMA TextSymbols ==
  ASSUME NEW p \in Nat, NEW n \in Nat
  PROVE  /\ TextAt(p, n) = [k \in 1 .. n |-> Symbol(p + k)]
         /\ TextAt(p, n) \in Seq(Text)
         /\ Len(TextAt(p, n)) = n
         /\ \A k \in 1 .. n : TextAt(p, n)[k] = Symbol(p + k)
<1>1. TextAt(p, n) = [k \in 1 .. n |-> Symbol(p + k)]
  BY DEF TextAt, Decode, Chunk, Symbol
<1>2. \A k \in 1 .. n : Symbol(p + k) \in Text
  BY PartIsKnown DEF Symbol, Text
<1>3. QED
  BY <1>1, <1>2

\* Where events end in a text, and that their lines are in it.
LEMMA EndsAtSixths ==
  ASSUME NEW m \in Nat, NEW n \in Nat, NEW k \in 1 .. n
  PROVE  /\ Ends(TextAt(6 * m, n), k) <=> k % 6 = 0
         /\ k % 6 = 0 => /\ IsLine(TextAt(6 * m, n), k)
                         /\ TextAt(6 * m, n)[k].event = m + k \div 6
<1> DEFINE text == TextAt(6 * m, n)
           q == k \div 6
<1>1. q \in Nat /\ k % 6 \in 0 .. 5 /\ k = 6 * q + (k % 6)
  BY Division
<1>2. \A j \in 1 .. n : text[j] = Symbol(6 * m + j)
  BY TextSymbols
<1>3. CASE k % 6 = 0
  <2>1. /\ q - 1 \in Nat /\ m + (q - 1) \in Nat
        /\ 6 * m + k = 6 * (m + (q - 1)) + 6
        /\ 6 * m + (k - 1) = 6 * (m + (q - 1)) + 5
        /\ 6 * m + (k - 5) = 6 * (m + (q - 1)) + 1
        /\ k - 1 \in 1 .. n /\ k - 5 \in 1 .. k /\ k - 5 \in 1 .. n /\ k > 1
    BY <1>1, <1>3
  <2>2. /\ PartAt(6 * m + k) = "newline" /\ EventAt(6 * m + k) = m + q
        /\ PartAt(6 * m + (k - 1)) = "newline"
        /\ PartAt(6 * m + (k - 5)) = "head" /\ EventAt(6 * m + (k - 5)) = m + q
    <3>1. m + (q - 1) + 1 = m + q
      BY <1>1
    <3>2. QED
      BY <2>1, <3>1, Positions
  <2>3. /\ text[k].part = "newline" /\ text[k].event = m + q
        /\ text[k - 1].part = "newline"
        /\ text[k - 5] = [part |-> "head", event |-> m + q]
    <3>1. /\ text[k] = Symbol(6 * m + k)
          /\ text[k - 1] = Symbol(6 * m + (k - 1))
          /\ text[k - 5] = Symbol(6 * m + (k - 5))
      <4> HIDE DEF text
      <4>1. QED
        BY <1>2, <2>1
    <3> HIDE DEF text
    <3>2. QED
      BY <2>2, <3>1 DEF Symbol
  <2> HIDE DEF text
  <2>4. Ends(text, k)
    BY <2>1, <2>3 DEF Ends
  <2>5. IsLine(text, k)
    BY <2>1, <2>3 DEF IsLine
  <2>6. QED
    BY <1>3, <2>3, <2>4, <2>5 DEF text
<1>4. CASE k % 6 # 0 /\ k > 1
  <2>1. \E p \in {k - 1, k} : p \in 1 .. n /\ PartAt(6 * m + p) # "newline"
    <3>1. CASE k % 6 = 5
      <4>1. k - 1 \in 1 .. n /\ 6 * m + (k - 1) = 6 * (m + q) + 4 /\ m + q \in Nat
        BY <1>1, <1>4, <3>1
      <4>2. PartAt(6 * m + (k - 1)) = "tail"
        BY <4>1, Positions
      <4>3. QED
        BY <4>1, <4>2
    <3>2. CASE k % 6 \in 1 .. 4
      <4>1. PICK i \in 1 .. 4 : i = k % 6
        BY <3>2
      <4>2. 6 * m + k = 6 * (m + q) + i /\ m + q \in Nat
        BY <1>1, <4>1
      <4>3. PartAt(6 * m + k) \in {"head", "lead", "continuation", "tail"}
        BY <4>2, Positions
      <4>4. QED
        BY <4>3
    <3>3. QED
      BY <1>1, <1>4, <3>1, <3>2
  <2>2. PICK p \in {k - 1, k} : p \in 1 .. n /\ PartAt(6 * m + p) # "newline"
    BY <2>1
  <2>3. text[p].part # "newline"
    <3>1. text[p] = Symbol(6 * m + p)
      BY <1>2, <2>2
    <3> HIDE DEF text
    <3>2. QED
      BY <2>2, <3>1 DEF Symbol
  <2> HIDE DEF text
  <2>4. ~Ends(text, k)
    BY <2>2, <2>3 DEF Ends
  <2>5. QED
    BY <1>4, <2>4 DEF text
<1>5. CASE k = 1
  BY <1>5 DEF Ends
<1>6. QED
  BY <1>1, <1>3, <1>4, <1>5
-------------------------------------------------------------------------------
\* What the first m events of the script add up to.
After[m \in 0 .. Len(script)] == IF m = 0 THEN Nothing ELSE ReadLine(After[m - 1], m)

LEMMA ScriptIsTyped ==
  ASSUME script \in Scripts
  PROVE  /\ Len(script) \in Nat /\ DOMAIN script = 1 .. Len(script)
         /\ \A i \in 1 .. Len(script) : script[i].kind \in Kind /\ script[i].ids \in BOOLEAN
<1> DEFINE E == [kind : Kind, ids : BOOLEAN]
<1>1. script \in Seq(E)
  BY ScriptsAssumption
<1> HIDE DEF E
<1>2. Len(script) \in Nat /\ DOMAIN script = 1 .. Len(script)
  BY <1>1, LenProperties
<1>3. \A i \in 1 .. Len(script) : script[i] \in E
  BY <1>1, ElementOfSeq
<1>4. QED
  BY <1>2, <1>3 DEF E

LEMMA ReadLineIsTyped ==
  ASSUME script \in Scripts, NEW r \in Result, NEW i \in 1 .. Len(script)
  PROVE  ReadLine(r, i) \in Result
<1> DEFINE withIds == [r EXCEPT !.ids = IF @ = 0 /\ script[i].ids THEN i ELSE @]
<1>1. i \in Nat /\ script[i].kind \in Kind
  BY ScriptIsTyped
<1>2. r.answer \in Seq(Nat) /\ withIds.answer = r.answer /\ withIds \in Result
  BY <1>1 DEF Result
<1>3. [r EXCEPT !.error = TRUE] \in Result
  BY DEF Result
<1>4. /\ [withIds EXCEPT !.answer = Append(@, i)] \in Result
      /\ [withIds EXCEPT !.metadata = TRUE] \in Result
  <2>1. Append(withIds.answer, i) \in Seq(Nat)
    BY <1>1, <1>2
  <2> HIDE DEF withIds
  <2>2. QED
    BY <1>2, <2>1 DEF Result
<1>5. QED
  BY <1>1, <1>2, <1>3, <1>4 DEF ReadLine, Kind

LEMMA NothingIsTyped == Nothing \in Result
BY DEF Nothing, Result

LEMMA AfterEquation ==
  ASSUME script \in Scripts
  PROVE  After = [m \in 0 .. Len(script) |-> IF m = 0 THEN Nothing ELSE ReadLine(After[m - 1], m)]
<1> DEFINE N == Len(script)
           Solves(f) == f = [m \in 0 .. N |-> IF m = 0 THEN Nothing ELSE ReadLine(f[m - 1], m)]
           step == [x \in Nat \X Result |-> IF x[1] \in 1 .. N THEN ReadLine(x[2], x[1]) ELSE x[2]]
<1>1. N \in Nat
  BY ScriptIsTyped
<1>2. Nothing \in Result
  BY NothingIsTyped
<1>3. step \in Steps(Result)
  BY ReadLineIsTyped DEF Steps
<1>4. PICK f \in [0 .. N -> Result] : Follows(f, N, Nothing, step)
  <2> HIDE DEF N, step
  <2>1. QED
    BY <1>1, <1>2, <1>3, RecursionExists
<1>5. \A k \in 1 .. N : f[k] = ReadLine(f[k - 1], k)
  <2>1. TAKE k \in 1 .. N
  <2>2. k - 1 \in 0 .. N /\ k \in Nat
    BY <1>1
  <2>3. <<k, f[k - 1]>> \in Nat \X Result
    BY <1>4, <2>2
  <2>4. QED
    BY <1>4, <2>3 DEF Follows
<1>6. Solves(f)
  <2>1. \A k \in 0 .. N : k = 0 \/ k \in 1 .. N
    BY <1>1
  <2> HIDE DEF N
  <2>2. QED
    BY <1>4, <1>5, <2>1 DEF Follows
<1>7. After = CHOOSE g : Solves(g)
  BY DEF After
<1>8. QED
  BY <1>6, <1>7

LEMMA AfterSteps ==
  ASSUME script \in Scripts
  PROVE  /\ After[0] = Nothing
         /\ \A m \in 1 .. Len(script) : After[m] = ReadLine(After[m - 1], m)
         /\ \A m \in 0 .. Len(script) : After[m] \in Result
<1> DEFINE N == Len(script)
           S == {m \in Nat : m \in 0 .. N => After[m] \in Result}
<1>1. N \in Nat
  BY ScriptIsTyped
<1>2. After[0] = Nothing
  BY <1>1, AfterEquation
<1>3. \A m \in 1 .. N : After[m] = ReadLine(After[m - 1], m)
  BY <1>1, AfterEquation
<1>4. 0 \in S
  BY <1>2, NothingIsTyped
<1>5. ASSUME NEW m \in Nat, m \in S PROVE m + 1 \in S
  <2>1. SUFFICES ASSUME m + 1 \in 0 .. N PROVE After[m + 1] \in Result
    OBVIOUS
  <2>2. m + 1 \in 1 .. N /\ m \in 0 .. N /\ (m + 1) - 1 = m
    BY <1>1, <2>1
  <2>3. After[m] \in Result
    BY <1>5, <2>2
  <2>4. QED
    BY <1>3, <2>2, <2>3, ReadLineIsTyped
<1>6. \A m \in Nat : m \in S
  <2> HIDE DEF S
  <2>1. QED
    BY <1>4, <1>5, Induction
<1>7. QED
  BY <1>1, <1>2, <1>3, <1>6

LEMMA OneBefore ==
  ASSUME NEW k \in Nat \ {0}
  PROVE  (k - 1) \div 6 = IF k % 6 = 0 THEN (k \div 6) - 1 ELSE k \div 6
<1> DEFINE q == k \div 6
<1>1. q \in Nat /\ k % 6 \in 0 .. 5 /\ k = 6 * q + (k % 6)
  BY Division
<1>2. CASE k % 6 = 0
  <2>1. k - 1 = 6 * (q - 1) + 5 /\ q - 1 \in Nat
    BY <1>1, <1>2
  <2>2. (6 * (q - 1) + 5) \div 6 = q - 1
    BY <2>1
  <2>3. QED
    BY <1>2, <2>1, <2>2
<1>3. CASE k % 6 # 0
  <2>1. PICK i \in 0 .. 4 : k - 1 = 6 * q + i
    <3>1. (k % 6) - 1 \in 0 .. 4 /\ k - 1 = 6 * q + ((k % 6) - 1)
      BY <1>1, <1>3
    <3>2. QED
      BY <3>1
  <2>2. (6 * q + i) \div 6 = q
    BY <1>1
  <2>3. QED
    BY <1>3, <2>1, <2>2
<1>4. QED
  BY <1>2, <1>3

\* A text that begins where an event begins is read as the events that end in it,
\* one after the other.
LEMMA ReadAllText ==
  ASSUME script \in Scripts, NEW m \in Nat, NEW n \in Nat, 6 * m + n <= Length
  PROVE  /\ m \in 0 .. Len(script) /\ m + (n \div 6) \in 0 .. Len(script)
         /\ ReadAll(After[m], TextAt(6 * m, n)) = After[m + (n \div 6)]
<1> DEFINE text == TextAt(6 * m, n)
           N == Len(script)
           Read(f, k) == IF k = 0 THEN After[m]
                         ELSE IF Ends(text, k) /\ IsLine(text, k) THEN ReadLine(f[k - 1], text[k].event)
                         ELSE f[k - 1]
           Solves(f) == f = [k \in 0 .. Len(text) |-> Read(f, k)]
           h == [k \in 0 .. n |-> After[m + (k \div 6)]]
<1>1. N \in Nat /\ Len(text) = n /\ 6 * m + n <= 6 * N
  BY ScriptIsTyped, TextSymbols DEF Length
<1>2. \A k \in 0 .. n : k \div 6 \in Nat /\ m + (k \div 6) \in 0 .. N
  <2>1. TAKE k \in 0 .. n
  <2>2. k \div 6 \in Nat /\ 6 * (k \div 6) <= k
    BY Division
  <2>3. 6 * (m + (k \div 6)) <= 6 * N
    BY <1>1, <2>2
  <2>4. QED
    BY <1>1, <2>2, <2>3
<1>3. 0 \div 6 = 0 /\ m \in 0 .. N
  BY <1>1
<1>4. \A f : \A k \in 1 .. n :
        Read(f, k) = IF k % 6 = 0 THEN ReadLine(f[k - 1], m + (k \div 6)) ELSE f[k - 1]
  <2>1. TAKE f
  <2>2. TAKE k \in 1 .. n
  <2>3. /\ Ends(text, k) <=> k % 6 = 0
        /\ k % 6 = 0 => IsLine(text, k) /\ text[k].event = m + (k \div 6)
    BY EndsAtSixths
  <2>4. k # 0
    OBVIOUS
  <2> HIDE DEF text
  <2>5. QED
    BY <2>3, <2>4
<1>5. \A k \in 1 .. n :
        After[m + (k \div 6)] = IF k % 6 = 0 THEN ReadLine(After[m + ((k - 1) \div 6)], m + (k \div 6))
                                ELSE After[m + ((k - 1) \div 6)]
  <2>1. TAKE k \in 1 .. n
  <2>2. CASE k % 6 = 0
    <3>1. (k - 1) \div 6 = (k \div 6) - 1
      BY <2>2, OneBefore
    <3>2. m + (k \div 6) \in 1 .. N /\ m + ((k - 1) \div 6) = (m + (k \div 6)) - 1
      <4>1. k \div 6 >= 1
        <5>1. k \div 6 \in Nat /\ k = 6 * (k \div 6) + (k % 6)
          BY Division
        <5>2. QED
          BY <2>2, <5>1
      <4>2. k \div 6 \in Nat /\ m + (k \div 6) \in 0 .. N
        BY <1>2
      <4>3. QED
        BY <3>1, <4>1, <4>2
    <3>3. QED
      BY <2>2, <3>2, AfterSteps
  <2>3. CASE k % 6 # 0
    BY <2>3, OneBefore
  <2>4. QED
    BY <2>2, <2>3
<1>6. Solves(h)
  <2>1. \A k \in 0 .. n : h[k] = Read(h, k)
    <3>1. TAKE k \in 0 .. n
    <3>2. CASE k = 0
      BY <1>3, <3>2
    <3>3. CASE k \in 1 .. n
      <4>1. k - 1 \in 0 .. n /\ h[k - 1] = After[m + ((k - 1) \div 6)] /\ h[k] = After[m + (k \div 6)]
        BY <3>3
      <4>2. QED
        BY <1>4, <1>5, <3>3, <4>1
    <3>4. QED
      BY <3>2, <3>3
  <2> HIDE DEF Read
  <2>2. QED
    BY <1>1, <2>1
<1>7. ASSUME NEW f, Solves(f) PROVE f[n] = After[m + (n \div 6)]
  <2> DEFINE S == {k \in Nat : k \in 0 .. n => f[k] = After[m + (k \div 6)]}
  <2>1. \A k \in 0 .. n : f[k] = Read(f, k)
    <3> HIDE DEF Read
    <3>1. QED
      BY <1>1, <1>7
  <2>2. 0 \in S
    BY <1>3, <2>1
  <2>3. ASSUME NEW k \in Nat, k \in S PROVE k + 1 \in S
    <3>1. SUFFICES ASSUME k + 1 \in 0 .. n PROVE f[k + 1] = After[m + ((k + 1) \div 6)]
      OBVIOUS
    <3>2. k \in 0 .. n /\ k + 1 \in 1 .. n /\ (k + 1) - 1 = k
      BY <3>1
    <3>3. f[k] = After[m + (k \div 6)]
      BY <2>3, <3>2
    <3>4. f[k + 1] = Read(f, k + 1)
      BY <2>1, <3>1
    <3> HIDE DEF Read
    <3>5. QED
      BY <1>4, <1>5, <3>2, <3>3, <3>4
  <2>4. n \in S
    <3> HIDE DEF S
    <3>1. QED
      BY <2>2, <2>3, Induction
  <2>5. QED
    BY <2>4
<1>8. ReadAll(After[m], text) = (CHOOSE f : Solves(f))[Len(text)]
  BY DEF ReadAll
<1>9. Solves(CHOOSE f : Solves(f))
  <2> HIDE DEF Solves, h
  <2>1. QED
    BY <1>6
<1>10. QED
  <2> HIDE DEF Solves
  <2>1. QED
    BY <1>1, <1>2, <1>3, <1>7, <1>8, <1>9
-------------------------------------------------------------------------------
\* An event after an error event changes nothing, and a message is added at the end.
LEMMA ReadLineFacts ==
  ASSUME script \in Scripts, NEW r \in Result, NEW i \in 1 .. Len(script)
  PROVE  /\ r.error => ReadLine(r, i) = r
         /\ script[i].kind = "error" => ReadLine(r, i).error
         /\ ReadLine(r, i).answer \in {r.answer, Append(r.answer, i)}
         /\ script[i].kind = "error" => ReadLine(r, i).answer = r.answer
<1> DEFINE withIds == [r EXCEPT !.ids = IF @ = 0 /\ script[i].ids THEN i ELSE @]
<1>1. r = [answer |-> r.answer, ids |-> r.ids, metadata |-> r.metadata, error |-> r.error]
  BY DEF Result
<1>2. withIds = [answer |-> r.answer, ids |-> withIds.ids, metadata |-> r.metadata, error |-> r.error]
  BY <1>1
<1>3. /\ [withIds EXCEPT !.answer = Append(@, i)].answer = Append(r.answer, i)
      /\ [withIds EXCEPT !.metadata = TRUE].answer = r.answer
      /\ [r EXCEPT !.error = TRUE].answer = r.answer
      /\ [r EXCEPT !.error = TRUE].error
  <2> HIDE DEF withIds
  <2>1. QED
    BY <1>1, <1>2
<1>4. r.error \in BOOLEAN
  BY DEF Result
<1> HIDE DEF withIds
<1>5. QED
  BY <1>3, <1>4 DEF ReadLine, withIds

\* Among the first m events, an error leaves only messages before it in the answer.
NoAnswerPastError(m) ==
  /\ DOMAIN After[m].answer = 1 .. Len(After[m].answer) /\ Len(After[m].answer) \in Nat
  /\ \A j \in DOMAIN After[m].answer : After[m].answer[j] \in 1 .. m
  /\ \A i \in 1 .. m : script[i].kind = "error" =>
       /\ After[m].error
       /\ \A j \in DOMAIN After[m].answer : After[m].answer[j] < i

LEMMA ErrorsEndTheAnswer ==
  ASSUME script \in Scripts
  PROVE  \A m \in 0 .. Len(script) : NoAnswerPastError(m)
<1> DEFINE N == Len(script)
           S == {m \in Nat : m \in 0 .. N => NoAnswerPastError(m)}
<1>1. N \in Nat
  BY ScriptIsTyped
<1>2. 0 \in S
  BY AfterSteps DEF NoAnswerPastError, Nothing
<1>3. ASSUME NEW m \in Nat, m \in S PROVE m + 1 \in S
  <2>1. SUFFICES ASSUME m + 1 \in 0 .. N PROVE NoAnswerPastError(m + 1)
    OBVIOUS
  <2> DEFINE r == After[m]
             new == After[m + 1]
  <2>2. m \in 0 .. N /\ m + 1 \in 1 .. N /\ (m + 1) - 1 = m
    BY <2>1
  <2>3. NoAnswerPastError(m)
    BY <1>3, <2>2
  <2>4. r \in Result /\ new = ReadLine(r, m + 1)
    BY <2>2, AfterSteps
  <2>5. r.answer \in Seq(Nat)
    BY <2>4 DEF Result
  <2>6. /\ r.error => new = r
        /\ script[m + 1].kind = "error" => new.error /\ new.answer = r.answer
        /\ new.answer \in {r.answer, Append(r.answer, m + 1)}
    BY <2>2, <2>4, ReadLineFacts
  <2>7. \A i \in 1 .. m + 1 : i \in 1 .. m \/ i = m + 1
    OBVIOUS
  <2>8. CASE r.error \/ new.answer = r.answer
    <3>1. new.answer = r.answer /\ (r.error => new.error)
      BY <2>6, <2>8
    <3>2. \A j \in DOMAIN r.answer : r.answer[j] \in 1 .. m + 1 /\ r.answer[j] < m + 1
      BY <2>3 DEF NoAnswerPastError
    <3> HIDE DEF r, new
    <3>3. QED
      BY <2>3, <2>6, <2>7, <3>1, <3>2 DEF NoAnswerPastError, r, new
  <2>9. CASE ~r.error /\ new.answer = Append(r.answer, m + 1)
    <3>1. \A i \in 1 .. m : script[i].kind # "error"
      BY <2>3, <2>9 DEF NoAnswerPastError
    <3>2. new.answer # r.answer
      <4> DEFINE a == r.answer
      <4>1. Len(Append(a, m + 1)) = Len(a) + 1 /\ Len(a) \in Nat
        BY <2>5
      <4>2. QED
        BY <2>9, <4>1
    <3>3. script[m + 1].kind # "error"
      BY <2>6, <3>2
    <3>4. /\ DOMAIN new.answer = 1 .. Len(new.answer) /\ Len(new.answer) \in Nat
          /\ \A j \in DOMAIN new.answer : new.answer[j] = m + 1 \/ new.answer[j] \in 1 .. m
      <4> DEFINE a == r.answer
      <4>1. /\ Append(a, m + 1) \in Seq(Nat)
            /\ \A j \in 1 .. Len(a) + 1 : Append(a, m + 1)[j] = IF j <= Len(a) THEN a[j] ELSE m + 1
            /\ Len(Append(a, m + 1)) = Len(a) + 1 /\ Len(a) \in Nat
        BY <2>5
      <4>2. \A j \in 1 .. Len(a) : a[j] \in 1 .. m
        BY <2>3 DEF NoAnswerPastError
      <4> HIDE DEF a
      <4>3. /\ DOMAIN Append(a, m + 1) = 1 .. Len(a) + 1
            /\ \A j \in 1 .. Len(a) + 1 : Append(a, m + 1)[j] = m + 1 \/ Append(a, m + 1)[j] \in 1 .. m
        BY <4>1, <4>2
      <4>4. QED
        BY <2>9, <4>1, <4>3 DEF a
    <3> HIDE DEF r, new
    <3>5. QED
      BY <2>7, <3>1, <3>3, <3>4 DEF NoAnswerPastError, new
  <2>10. QED
    BY <2>4, <2>6, <2>8, <2>9
<1>4. \A m \in Nat : m \in S
  <2> HIDE DEF S
  <2>1. QED
    BY <1>2, <1>3, Induction
<1>5. QED
  BY <1>1, <1>4
-------------------------------------------------------------------------------
LEMMA TextsJoin ==
  ASSUME NEW p \in Nat, NEW a \in Nat, NEW n \in Nat
  PROVE  TextAt(p, a) \o TextAt(p + a, n) = TextAt(p, a + n)
<1> DEFINE s == TextAt(p, a)
           t == TextAt(p + a, n)
           u == TextAt(p, a + n)
<1>1. s \in Seq(Text) /\ Len(s) = a /\ \A k \in 1 .. a : s[k] = Symbol(p + k)
  BY TextSymbols
<1>2. t \in Seq(Text) /\ Len(t) = n /\ \A k \in 1 .. n : t[k] = Symbol(p + a + k)
  <2>1. p + a \in Nat
    OBVIOUS
  <2>2. QED
    BY <2>1, TextSymbols
<1>3. u \in Seq(Text) /\ Len(u) = a + n /\ \A k \in 1 .. a + n : u[k] = Symbol(p + k)
  <2>1. a + n \in Nat
    OBVIOUS
  <2>2. QED
    BY <2>1, TextSymbols
<1> HIDE DEF s, t, u
<1>4. /\ s \o t \in Seq(Text) /\ Len(s \o t) = a + n
      /\ \A k \in 1 .. a + n : (s \o t)[k] = IF k <= a THEN s[k] ELSE t[k - a]
  BY <1>1, <1>2, ConcatProperties
<1>5. ASSUME NEW k \in 1 .. a + n PROVE (s \o t)[k] = u[k]
  <2>1. CASE k \in 1 .. a
    BY <1>1, <1>3, <1>4, <2>1
  <2>2. CASE k - a \in 1 .. n
    <3>1. p + a + (k - a) = p + k /\ ~(k <= a)
      BY <2>2
    <3>2. QED
      BY <1>2, <1>3, <1>4, <2>2, <3>1
  <2>3. k \in 1 .. a \/ k - a \in 1 .. n
    OBVIOUS
  <2>4. QED
    BY <2>1, <2>2, <2>3
<1>6. s \o t = u
  BY <1>3, <1>4, <1>5, SeqEqual
<1>7. QED
  BY <1>6 DEF s, t, u

\* What is left of a text is what follows its last complete event.
LEMMA LeftoverIsRest ==
  ASSUME NEW m \in Nat, NEW n \in Nat
  PROVE  Leftover(TextAt(6 * m, n)) = TextAt(6 * m + 6 * (n \div 6), n % 6)
<1> DEFINE text == TextAt(6 * m, n)
           q == n \div 6
           rest == TextAt(6 * m + 6 * q, n % 6)
<1>1. q \in Nat /\ n % 6 \in 0 .. 5 /\ n = 6 * q + (n % 6)
  BY Division
<1>2. /\ DOMAIN text = 1 .. n /\ Len(text) = n /\ text \in Seq(Text)
      /\ \A k \in 1 .. n : text[k] = Symbol(6 * m + k)
  BY TextSymbols
<1>3. \A k \in 1 .. n : Ends(text, k) <=> k % 6 = 0
  BY EndsAtSixths
<1>4. \A k \in 1 .. n : k % 6 = 0 => k <= 6 * q /\ q >= 1
  <2>1. TAKE k \in 1 .. n
  <2>2. k \div 6 \in Nat /\ k = 6 * (k \div 6) + (k % 6)
    BY Division
  <2>3. QED
    BY <1>1, <2>2
<1>5. CompleteUpTo(text) = 6 * q
  <2>1. CASE q = 0
    <3> HIDE DEF text, q
    <3>1. ~\E k \in DOMAIN text : Ends(text, k)
      BY <1>2, <1>3, <1>4, <2>1
    <3>2. QED
      BY <2>1, <3>1 DEF CompleteUpTo
  <2>2. CASE q >= 1
    <3>1. 6 * q \in 1 .. n /\ (6 * q) % 6 = 0
      BY <1>1, <2>2
    <3>2. /\ 6 * q \in DOMAIN text /\ Ends(text, 6 * q)
          /\ \A j \in DOMAIN text : Ends(text, j) => j <= 6 * q
      BY <1>2, <1>3, <1>4, <3>1
    <3>3. \A k \in DOMAIN text : k \in Nat
      BY <1>2
    <3> HIDE DEF text
    <3>4. \A k \in DOMAIN text :
            Ends(text, k) /\ (\A j \in DOMAIN text : Ends(text, j) => j <= k) => k = 6 * q
      <4> HIDE DEF q
      <4>1. QED
        BY <1>1, <3>2, <3>3
    <3>5. QED
      BY <3>2, <3>4 DEF CompleteUpTo
  <2>3. QED
    BY <1>1, <2>1, <2>2
<1>6. /\ rest \in Seq(Text) /\ Len(rest) = n % 6
      /\ \A k \in 1 .. n % 6 : rest[k] = Symbol(6 * m + 6 * q + k)
  <2>1. 6 * m + 6 * q \in Nat /\ n % 6 \in Nat
    BY <1>1
  <2> HIDE DEF q
  <2>2. QED
    BY <2>1, TextSymbols
<1> DEFINE left == SubSeq(text, 6 * q + 1, n)
<1>7. /\ left \in Seq(Text) /\ Len(left) = n % 6
      /\ \A k \in 1 .. n % 6 : left[k] = Symbol(6 * m + 6 * q + k)
  <2>1. \A k \in 6 * q + 1 .. n : text[k] \in Text /\ text[k] = Symbol(6 * m + k)
    BY <1>1, <1>2
  <2>2. n - (6 * q + 1) + 1 = n % 6 /\ 6 * q + 1 \in Int /\ n \in Int
    BY <1>1
  <2>3. \A k \in 1 .. n % 6 : /\ (6 * q + 1) + k - 1 \in 6 * q + 1 .. n
                              /\ 6 * m + ((6 * q + 1) + k - 1) = 6 * m + 6 * q + k
    BY <1>1
  <2> HIDE DEF text, q
  <2>4. /\ left \in Seq(Text)
        /\ Len(left) = IF 6 * q + 1 <= n THEN n - (6 * q + 1) + 1 ELSE 0
        /\ \A k \in 1 .. n - (6 * q + 1) + 1 : left[k] = text[(6 * q + 1) + k - 1]
    BY <2>1, <2>2, SubSeqProperties
  <2>5. Len(left) = n % 6
    BY <1>1, <2>2, <2>4
  <2> HIDE DEF left
  <2>6. QED
    BY <2>1, <2>2, <2>3, <2>4, <2>5
<1>8. Leftover(text) = left
  BY <1>2, <1>5 DEF Leftover
<1> HIDE DEF text, left, rest, q
<1>9. left = rest
  BY <1>6, <1>7, SeqEqual
<1>10. QED
  BY <1>8, <1>9 DEF text, rest, q
-------------------------------------------------------------------------------
\* While a call goes on, what its reader makes of the bytes depends on their number only.
LEMMA SameReading ==
  ASSUME script' = script
  PROVE  ReadAll(Nothing, TextAt(0, arrived))' = ReadAll(Nothing, TextAt(0, arrived'))
<1>1. TextAt(0, arrived)' = TextAt(0, arrived')
  BY DEF TextAt, Chunk, Decode, PartAt, EventAt
<1>2. QED
  BY <1>1, SMTT(30) DEF ReadAll, ReadLine, Ends, IsLine, Nothing

\* What has been read after p bytes that came in one piece.
LEMMA ReadInOnePiece ==
  ASSUME script \in Scripts, NEW p \in 0 .. Length
  PROVE  /\ p \div 6 \in 0 .. Len(script)
         /\ ReadAll(Nothing, TextAt(0, p)) = After[p \div 6]
<1>1. Len(script) \in Nat /\ p \in Nat /\ p <= Length
  BY ScriptIsTyped DEF Length
<1>2. p \div 6 \in Nat
  BY <1>1, Division
<1>3. 6 * 0 = 0 /\ 0 + p = p /\ 0 + (p \div 6) = p \div 6
  BY <1>1, <1>2
<1>4. 0 \in Nat /\ 6 * 0 + p <= Length
  BY <1>1, <1>3
<1>5. QED
  BY <1>1, <1>3, <1>4, ReadAllText, AfterSteps

\* A call that has read nothing.
LEMMA NewCall ==
  ASSUME script \in Scripts, arrived = 0, buffer = <<>>, result = Nothing
  PROVE  BufferIsRest /\ ChunkingIsInvisible
<1>1. 0 \in 0 .. Length /\ 0 % 6 = 0 /\ 0 - 0 = 0 /\ 0 \div 6 = 0
  BY ScriptIsTyped DEF Length
<1>2. TextAt(0, 0) = <<>>
  BY TextSymbols
<1>3. ReadAll(Nothing, TextAt(0, 0)) = Nothing
  BY <1>1, ReadInOnePiece, AfterSteps
<1>4. QED
  BY <1>1, <1>2, <1>3 DEF BufferIsRest, ChunkingIsInvisible, TextAt

LEMMA InitInv == Init => Inv
<1> SUFFICES ASSUME Init PROVE Inv
  OBVIOUS
<1>1. TypeOK
  BY NothingIsTyped, MaxCallsAssumption, ScriptIsTyped DEF Init, TypeOK, Length
<1>2. BufferIsRest /\ ChunkingIsInvisible
  BY NewCall DEF Init
<1>3. ErrorRejects /\ ErrorIsNeverAnAnswer
  BY ScriptIsTyped DEF Init, ErrorRejects, ErrorIsNeverAnAnswer, Nothing
<1>4. QED
  BY <1>1, <1>2, <1>3 DEF Inv

\* What is read so far says of itself whether an error has arrived.
LEMMA ErrorsAreSeen ==
  ASSUME script \in Scripts, arrived \in 0 .. Length, ChunkingIsInvisible, ErrorRejects
  PROVE  ErrorIsNeverAnAnswer
<1>1. result = After[arrived \div 6] /\ arrived \div 6 \in 0 .. Len(script)
  BY ReadInOnePiece DEF ChunkingIsInvisible, TextAt
<1>2. NoAnswerPastError(arrived \div 6)
  BY <1>1, ErrorsEndTheAnswer
<1>3. ASSUME NEW i \in DOMAIN script, 6 * i <= arrived PROVE i \in 1 .. arrived \div 6
  <2>1. Len(script) \in Nat /\ i \in 1 .. Len(script) /\ arrived \in Nat
    BY ScriptIsTyped DEF Length
  <2>2. arrived \div 6 \in Nat /\ arrived % 6 \in 0 .. 5 /\ arrived = 6 * (arrived \div 6) + (arrived % 6)
    BY <2>1, Division
  <2>3. QED
    BY <1>3, <2>1, <2>2
<1>4. QED
  BY <1>1, <1>2, <1>3 DEF NoAnswerPastError, ErrorRejects, ErrorIsNeverAnAnswer

LEMMA DataInv ==
  ASSUME Inv, NEW n \in 1 .. Length, Data(n)
  PROVE  Inv'
<1> DEFINE m == arrived \div 6
           a == arrived % 6
           text == buffer \o Decode(Chunk(arrived, n))
<1>1. /\ script \in Scripts /\ arrived \in 0 .. Length /\ Len(script) \in Nat
      /\ arrived \in Nat /\ n \in Nat
  BY ScriptIsTyped DEF Inv, TypeOK, Length
<1>2. m \in Nat /\ a \in 0 .. 5 /\ arrived = 6 * m + a
  BY <1>1, Division
<1>3. /\ (a + n) \div 6 \in Nat /\ (a + n) % 6 \in 0 .. 5 /\ a + n \in Nat
      /\ a + n = 6 * ((a + n) \div 6) + ((a + n) % 6)
  <2> HIDE DEF a
  <2>1. a + n \in Nat
    BY <1>1, <1>2
  <2>2. QED
    BY <2>1, Division
<1>4. /\ arrived' = arrived + n /\ arrived' \in 0 .. Length /\ script' = script /\ calls' = calls
      /\ buffer' = Leftover(text) /\ result' = ReadAll(result, text)
      /\ outcome' = AfterChunk(result') /\ outcome = "pending"
      /\ torn' = torn \cup Torn(Chunk(arrived, n))
  BY <1>1 DEF Data
<1>5. /\ arrived' \div 6 = m + ((a + n) \div 6)
      /\ arrived' % 6 = (a + n) % 6
  <2> DEFINE q == (a + n) \div 6
             i == (a + n) % 6
  <2>1. arrived' = 6 * (m + q) + i /\ m + q \in Nat /\ q \in Nat /\ i \in 0 .. 5
    <3> HIDE DEF m, a, q, i
    <3>1. a + n = 6 * q + i /\ q \in Nat /\ i \in 0 .. 5
      BY <1>3 DEF q, i
    <3>2. QED
      BY <1>1, <1>2, <1>4, <3>1
  <2> HIDE DEF m, a, q, i
  <2>2. (6 * (m + q) + i) \div 6 = m + q /\ (6 * (m + q) + i) % 6 = i
    BY <2>1
  <2>3. QED
    BY <2>1, <2>2 DEF q, i
<1>6. text = TextAt(6 * m, a + n)
  <2>1. arrived - a = 6 * m /\ 6 * m \in Nat /\ a \in Nat
    <3> HIDE DEF m, a
    <3>1. QED
      BY <1>1, <1>2
  <2>2. buffer = TextAt(6 * m, a)
    BY <2>1 DEF Inv, BufferIsRest, TextAt
  <2>3. Decode(Chunk(arrived, n)) = TextAt(6 * m + a, n)
    BY <1>2 DEF TextAt
  <2> HIDE DEF m, a
  <2>4. TextAt(6 * m, a) \o TextAt(6 * m + a, n) = TextAt(6 * m, a + n)
    BY <1>1, <2>1, TextsJoin
  <2>5. QED
    BY <2>2, <2>3, <2>4
<1> HIDE DEF m, a, text
<1>7. result = After[m]
  BY <1>1, ReadInOnePiece DEF Inv, ChunkingIsInvisible, TextAt, m
<1>8. result' = After[m + ((a + n) \div 6)] /\ m + ((a + n) \div 6) \in 0 .. Len(script)
  <2>1. 6 * m + (a + n) <= Length
    BY <1>1, <1>2, <1>4 DEF Length
  <2>2. QED
    BY <1>1, <1>2, <1>3, <1>4, <1>6, <1>7, <2>1, ReadAllText
<1>9. ChunkingIsInvisible'
  <2>1. Length' = Length
    BY <1>4 DEF Length
  <2>2. ReadAll(Nothing, TextAt(0, arrived')) = After[arrived' \div 6]
    BY <1>1, <1>4, ReadInOnePiece
  <2>3. ReadAll(Nothing, TextAt(0, arrived))' = ReadAll(Nothing, TextAt(0, arrived'))
    BY <1>4, SameReading
  <2>4. QED
    BY <1>5, <1>8, <2>2, <2>3 DEF ChunkingIsInvisible, TextAt
<1>10. buffer' = TextAt(arrived' - (arrived' % 6), arrived' % 6)
  <2>1. arrived' - (arrived' % 6) = 6 * m + 6 * ((a + n) \div 6)
    BY <1>1, <1>2, <1>3, <1>4, <1>5
  <2>2. QED
    BY <1>2, <1>3, <1>4, <1>5, <1>6, <2>1, LeftoverIsRest
<1>11. BufferIsRest'
  BY <1>10 DEF BufferIsRest, TextAt, Decode, Chunk, PartAt, EventAt
<1>12. result' \in Result
  BY <1>1, <1>8, AfterSteps
<1>13. ErrorRejects' /\ outcome' \in {"pending", "resolved", "rejected"}
  BY <1>4, <1>12 DEF ErrorRejects, AfterChunk, Result
<1>14. TypeOK'
  <2>1. /\ arrived' - (arrived' % 6) \in Nat /\ arrived' % 6 \in 0 .. 5
        /\ arrived' - (arrived' % 6) = 6 * (m + ((a + n) \div 6))
        /\ m + ((a + n) \div 6) \in Nat
    BY <1>1, <1>2, <1>3, <1>4, <1>5
  <2> DEFINE b == m + ((a + n) \div 6)
             l == arrived' % 6
  <2> HIDE DEF b, l
  <2>2. b \in Nat /\ l \in Nat /\ l \in 0 .. 5 /\ buffer' = TextAt(6 * b, l)
    BY <1>10, <2>1 DEF b, l
  <2>3. buffer' \in Seq(Text) /\ Len(buffer') = l
    BY <2>2, TextSymbols
  <2>4. \A k \in 1 .. l : ~Ends(buffer', k)
    <3>1. \A k \in 1 .. l : k % 6 # 0
      BY <2>2
    <3>2. QED
      BY <2>2, <3>1, EndsAtSixths
  <2>5. \A k \in 2 .. Len(buffer') : ~(buffer'[k - 1].part = "newline" /\ buffer'[k].part = "newline")
    BY <2>2, <2>3, <2>4 DEF Ends
  <2>6. Torn(Chunk(arrived, n)) \subseteq Nat
    <3>1. \A k \in 1 .. n : arrived + k \in Nat
      BY <1>1
    <3>2. \A k \in 1 .. n : EventAt(arrived + k) \in Nat
      BY <3>1, PartIsKnown
    <3>3. QED
      BY <3>2 DEF Torn, Chunk
  <2>7. QED
    BY <1>4, <1>12, <1>13, <2>3, <2>5, <2>6 DEF Inv, TypeOK, Length
<1>15. ErrorIsNeverAnAnswer'
  <2>1. (script \in Scripts /\ arrived \in 0 .. Length /\ ChunkingIsInvisible /\ ErrorRejects
           => ErrorIsNeverAnAnswer)'
    BY ErrorsAreSeen, PTL
  <2>2. QED
    BY <1>9, <1>13, <1>14, <2>1 DEF TypeOK
<1>16. QED
  BY <1>9, <1>11, <1>13, <1>14, <1>15 DEF Inv

LEMMA SettleInv ==
  ASSUME Inv, End \/ Fail \/ Finished
  PROVE  Inv'
<1>1. /\ UNCHANGED <<script, arrived, buffer, result, torn, calls>>
      /\ outcome' \in {"resolved", "rejected"}
      /\ outcome = "rejected" => outcome' = "rejected"
  BY DEF Inv, TypeOK, End, Fail, Finished, vars
<1>2. TypeOK'
  BY <1>1 DEF Inv, TypeOK, Length
<1>3. BufferIsRest'
  BY <1>1 DEF Inv, BufferIsRest, Decode, Chunk, PartAt, EventAt
<1>4. ChunkingIsInvisible'
  BY <1>1, SameReading DEF Inv, ChunkingIsInvisible, TextAt
<1>5. ErrorRejects' /\ ErrorIsNeverAnAnswer'
  BY <1>1 DEF Inv, ErrorRejects, ErrorIsNeverAnAnswer
<1>6. QED
  BY <1>2, <1>3, <1>4, <1>5 DEF Inv

LEMMA ChatStreamingInv ==
  ASSUME Inv, ChatStreaming
  PROVE  Inv'
<1>1. /\ script' \in Scripts /\ arrived' = 0 /\ buffer' = <<>> /\ result' = Nothing
      /\ torn' = {} /\ outcome' = "pending" /\ calls' \in 1 .. MaxCalls
  BY MaxCallsAssumption DEF Inv, TypeOK, ChatStreaming
<1>2. TypeOK'
  <2>1. (script \in Scripts => Len(script) \in Nat)'
    BY ScriptIsTyped, PTL
  <2>2. QED
    BY <1>1, <2>1, NothingIsTyped DEF TypeOK, Length, Result, Nothing
<1>3. BufferIsRest' /\ ChunkingIsInvisible'
  <2>1. (script \in Scripts /\ arrived = 0 /\ buffer = <<>> /\ result = Nothing
           => BufferIsRest /\ ChunkingIsInvisible)'
    BY NewCall, PTL
  <2>2. QED
    BY <1>1, <2>1 DEF Nothing
<1>4. ErrorRejects'
  BY <1>1 DEF ErrorRejects, Nothing
<1>5. ErrorIsNeverAnAnswer'
  <2>1. (script \in Scripts => DOMAIN script = 1 .. Len(script) /\ Len(script) \in Nat)'
    BY ScriptIsTyped, PTL
  <2>2. QED
    BY <1>1, <2>1 DEF ErrorIsNeverAnAnswer
<1>6. QED
  BY <1>2, <1>3, <1>4, <1>5 DEF Inv

LEMMA NextInv == Inv /\ [Next]_vars => Inv'
<1> SUFFICES ASSUME Inv, [Next]_vars PROVE Inv'
  OBVIOUS
<1>1. CASE \E n \in 1 .. Length : Data(n)
  BY <1>1, DataInv
<1>2. CASE End \/ Fail \/ Finished
  BY <1>2, SettleInv
<1>3. CASE ChatStreaming
  BY <1>3, ChatStreamingInv
<1>4. CASE UNCHANGED vars
  <2>1. UNCHANGED <<script, arrived, buffer, result, torn, outcome, calls>>
    BY <1>4 DEF vars
  <2>2. TypeOK'
    BY <2>1 DEF Inv, TypeOK, Length
  <2>3. BufferIsRest'
    BY <2>1 DEF Inv, BufferIsRest, Decode, Chunk, PartAt, EventAt
  <2>4. ChunkingIsInvisible'
    BY <2>1, SameReading DEF Inv, ChunkingIsInvisible, TextAt
  <2>5. ErrorRejects' /\ ErrorIsNeverAnAnswer'
    BY <2>1 DEF Inv, ErrorRejects, ErrorIsNeverAnAnswer
  <2>6. QED
    BY <2>2, <2>3, <2>4, <2>5 DEF Inv
<1>5. QED
  BY <1>1, <1>2, <1>3, <1>4 DEF Next
-------------------------------------------------------------------------------
\* What is read and what waits in the buffer follow from the number of bytes alone.
\* (the data handler of chatStreaming)
THEOREM InvIsInvariant == Spec => []Inv
<1>1. QED
  BY InitInv, NextInv, PTL DEF Spec

\* Every variable keeps its type: no byte of a character stays undecoded in the
\* buffer, and no complete event stays in it.  (chunk.toString(), parts.pop())
THEOREM TypeCorrect == Spec => []TypeOK
<1>1. Inv => TypeOK
  BY DEF Inv
<1>2. QED
  BY <1>1, InvIsInvariant, PTL

\* For streams of any length, cut anywhere: the reader arrives at what it would have
\* read had the bytes come in one piece.  (dify.ts:95-137)
THEOREM CutsDoNotMatter == Spec => []ChunkingIsInvisible
<1>1. Inv => ChunkingIsInvisible
  BY DEF Inv
<1>2. QED
  BY <1>1, InvIsInvariant, PTL

\* For streams of any length, cut anywhere: once an error event is there, the call is
\* rejected, and no later message is in its answer.  (dify.ts:127-133)
THEOREM ErrorsReject == Spec => []ErrorIsNeverAnAnswer
<1>1. Inv => ErrorIsNeverAnAnswer
  BY DEF Inv
<1>2. QED
  BY <1>1, InvIsInvariant, PTL
=============================================================================
