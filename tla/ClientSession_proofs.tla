------------------------- MODULE ClientSession_proofs -------------------------
(***************************************************************************)
(* Theorems about a client and its connection, for messages, results and   *)
(* texts of any length, any number of calls, and connections that break    *)
(* anywhere: what the client makes of the text of a scan, and that a call  *)
(* that returns has the answer to its own request.                         *)
(***************************************************************************)
EXTENDS ClientSession, ByteFormat_proofs

(* find.                                                                   *)

\* What find returns is a place of the character, or 0.
LEMMA FindFinds ==
    ASSUME NEW text \in Seq(Nat), NEW c, NEW from \in Nat
    PROVE  /\ Find(text, c, from) \in Nat
           /\ Find(text, c, from) # 0 =>
                 /\ Find(text, c, from) \in from .. Len(text)
                 /\ text[Find(text, c, from)] = c
<1> DEFINE S == {i \in from .. Len(text) : text[i] = c}
           First(i) == text[i] = c /\ \A j \in from .. i - 1 : text[j] # c
<1>1. Len(text) \in Nat /\ from .. Len(text) \subseteq Nat
  OBVIOUS
<1>2. CASE S = {}
  <2>1. Find(text, c, from) = 0
    BY <1>2 DEF Find
  <2> QED
    BY <2>1
<1>3. CASE S # {}
  <2>1. PICK i \in S : \A j \in S : i <= j
    BY <1>1, <1>3, LeastNumber
  <2>2. i \in from .. Len(text) /\ First(i)
    <3>1. \A j \in from .. i - 1 : j \in from .. Len(text) /\ ~(i <= j)
      BY <1>1
    <3> QED
      BY <2>1, <3>1
  <2>3. Find(text, c, from) = CHOOSE k \in from .. Len(text) : First(k)
    BY <2>2 DEF Find
  <2> HIDE DEF S
  <2>4. Find(text, c, from) \in from .. Len(text) /\ First(Find(text, c, from))
    <3> HIDE DEF First
    <3> QED
      BY <2>2, <2>3, Zenon
  <2> QED
    BY <1>1, <2>4
<1> QED
  BY <1>2, <1>3

\* find returns the first place.
LEMMA FindIs ==
    ASSUME NEW text \in Seq(Nat), NEW c, NEW from \in Nat, NEW i \in from .. Len(text),
           text[i] = c, \A j \in from .. i - 1 : text[j] # c
    PROVE  Find(text, c, from) = i
<1> DEFINE First(k) == text[k] = c /\ \A j \in from .. k - 1 : text[j] # c
           f == CHOOSE k \in from .. Len(text) : First(k)
<1>1. Find(text, c, from) = f
  BY DEF Find
<1>2. f \in from .. Len(text) /\ First(f)
  <2>1. First(i)
    OBVIOUS
  <2> HIDE DEF First
  <2> QED
    BY <2>1, Zenon
<1> HIDE DEF f
<1>3. ~(f < i) /\ ~(i < f)
  BY <1>2
<1> QED
  BY <1>1, <1>2, <1>3

LEMMA FindNone ==
    ASSUME NEW text \in Seq(Nat), NEW c, NEW from \in Nat,
           \A j \in from .. Len(text) : text[j] # c
    PROVE  Find(text, c, from) = 0
  BY DEF Find

-----------------------------------------------------------------------------
(* The two loops.                                                          *)

\* The places that one round of the client's loop finds, from character pos
\* on, and the pair it adds.
KeyAt(text, pos)    == Find(text, KeyTag, pos)
KeyEnd(text, pos)   == Find(text, Quote, KeyAt(text, pos) + 1)
ValueAt(text, pos)  == Find(text, ValueTag, KeyEnd(text, pos))
ValueEnd(text, pos) == Find(text, Quote, ValueAt(text, pos) + 1)

ParseStops(text, pos) ==
    KeyAt(text, pos) = 0 \/ KeyEnd(text, pos) = 0 \/ ValueAt(text, pos) = 0 \/ ValueEnd(text, pos) = 0

PairAt(text, pos) ==
    <<SubSeq(text, KeyAt(text, pos) + 1, KeyEnd(text, pos) - 1),
      SubSeq(text, ValueAt(text, pos) + 1, ValueEnd(text, pos) - 1)>>

\* Each round moves forward.
LEMMA ParseAdvances ==
    ASSUME NEW text \in Seq(Nat), NEW pos \in Nat, ~ParseStops(text, pos)
    PROVE  ValueEnd(text, pos) \in Nat /\ pos < ValueEnd(text, pos) /\ pos < Len(text)
<1> DEFINE a == KeyAt(text, pos)
           b == KeyEnd(text, pos)
           c == ValueAt(text, pos)
           d == ValueEnd(text, pos)
<1>0. a # 0 /\ b # 0 /\ c # 0 /\ d # 0 /\ Len(text) \in Nat
  BY DEF ParseStops
<1>1. a \in pos .. Len(text) /\ a \in Nat
  BY <1>0, FindFinds DEF KeyAt
<1> HIDE DEF a
<1>2. b \in a + 1 .. Len(text) /\ b \in Nat
  BY <1>0, <1>1, FindFinds DEF KeyEnd, a
<1> HIDE DEF b
<1>3. c \in b .. Len(text) /\ c \in Nat
  BY <1>0, <1>2, FindFinds DEF ValueAt, b
<1> HIDE DEF c
<1>4. d \in c + 1 .. Len(text) /\ d \in Nat
  BY <1>0, <1>3, FindFinds DEF ValueEnd, c
<1> HIDE DEF d
<1>5. d \in Nat /\ pos < d /\ pos < Len(text)
  BY <1>0, <1>1, <1>2, <1>3, <1>4
<1> QED
  BY <1>5 DEF d

\* The equation of the client's loop holds.
LEMMA ParseUnfolds ==
    ASSUME NEW text \in Seq(Nat)
    PROVE  \A pos \in Nat :
             PairsFrom(text)[pos] = IF ParseStops(text, pos) THEN << >>
                                    ELSE <<PairAt(text, pos)>> \o PairsFrom(text)[ValueEnd(text, pos)]
<1> DEFINE stop == [p \in Nat |-> ParseStops(text, p)]
           last == << >>
           item == [p \in Nat |-> <<PairAt(text, p)>>]
           next == [p \in Nat |-> IF ParseStops(text, p) THEN 0 ELSE ValueEnd(text, p)]
           Body(f) == [p \in Nat |-> IF ParseStops(text, p) THEN << >>
                                     ELSE <<PairAt(text, p)>> \o f[ValueEnd(text, p)]]
<1>1. stop \in [Nat -> BOOLEAN]
  BY DEF ParseStops
<1>2. next \in [Nat -> Nat]
  BY ParseAdvances
<1>3. \A p \in Nat : ~stop[p] => p < Len(text) /\ p < next[p]
  BY ParseAdvances
<1>4. Computable(stop, last, item, next)
  <2>1. Len(text) \in Nat
    OBVIOUS
  <2> HIDE DEF stop, last, item, next
  <2> QED
    BY <1>1, <1>2, <1>3, <2>1, LoopExists
<1>5. PICK f : f = Body(f)
  BY <1>4 DEF Loop, Computable
<1>6. PairsFrom(text) = CHOOSE parse : parse = Body(parse)
  BY DEF PairsFrom, ParseStops, PairAt, KeyAt, KeyEnd, ValueAt, ValueEnd
<1>7. PairsFrom(text) = Body(PairsFrom(text))
  <2> HIDE DEF Body
  <2> QED
    BY <1>5, <1>6
<1> QED
  BY <1>7

\* A pair as the server writes it, with the comma behind all but the last.
Entry(pairs, i) == Item(pairs[i]) \o (IF i < Len(pairs) THEN <<Comma>> ELSE << >>)

\* The equation of the server's loop holds.
LEMMA TextUnfolds ==
    ASSUME NEW pairs \in Seq(Seq(Nat) \X Seq(Nat))
    PROVE  \A i \in Nat :
             TextFrom(pairs)[i] = IF i > Len(pairs) THEN <<Closing>>
                                  ELSE Entry(pairs, i) \o TextFrom(pairs)[i + 1]
<1> DEFINE stop == [p \in Nat |-> p > Len(pairs)]
           last == <<Closing>>
           item == [p \in Nat |-> Entry(pairs, p)]
           next == [p \in Nat |-> p + 1]
           Body(f) == [p \in Nat |-> IF p > Len(pairs) THEN <<Closing>>
                                     ELSE Entry(pairs, p) \o f[p + 1]]
<1>0. Len(pairs) \in Nat
  OBVIOUS
<1>1. stop \in [Nat -> BOOLEAN]
  BY <1>0
<1>2. next \in [Nat -> Nat]
  OBVIOUS
<1>3. \A p \in Nat : ~stop[p] => p < Len(pairs) + 1 /\ p < next[p]
  <2>1. ASSUME NEW p \in Nat, ~(p > Len(pairs)) PROVE p < Len(pairs) + 1 /\ p < p + 1
    BY <1>0, <2>1
  <2>2. \A p \in Nat : stop[p] = (p > Len(pairs)) /\ next[p] = p + 1
    BY Zenon
  <2> HIDE DEF stop, next
  <2> QED
    BY <2>1, <2>2
<1>4. Computable(stop, last, item, next)
  <2>1. Len(pairs) + 1 \in Nat
    BY <1>0
  <2> HIDE DEF stop, last, item, next
  <2> QED
    BY <1>1, <1>2, <1>3, <2>1, LoopExists
<1>5. PICK f : f = Body(f)
  BY <1>4 DEF Loop, Computable
<1>6. TextFrom(pairs) = CHOOSE text : text = Body(text)
  BY DEF TextFrom, Entry
<1>7. TextFrom(pairs) = Body(TextFrom(pairs))
  <2> HIDE DEF Body
  <2> QED
    BY <1>5, <1>6
<1> QED
  BY <1>7

-----------------------------------------------------------------------------
(* One pair.                                                               *)

\* Cut is what is in front of the first quote.
LEMMA CutIs ==
    ASSUME NEW t \in Seq(Nat)
    PROVE  \E m \in 0 .. Len(t) :
              /\ Cut(t) = SubSeq(t, 1, m)
              /\ \A j \in 1 .. m : t[j] # Quote
              /\ m < Len(t) => t[m + 1] = Quote
<1> DEFINE S == {i \in 1 .. Len(t) : t[i] = Quote}
<1>1. Len(t) \in Nat /\ S \subseteq Nat
  OBVIOUS
<1>2. CASE S = {}
  <2>1. Find(t, Quote, 1) = 0
    BY <1>2, FindNone
  <2>2. Len(t) + 1 - 1 = Len(t) /\ Len(t) \in 0 .. Len(t) /\ ~(Len(t) < Len(t))
    BY <1>1
  <2>3. Cut(t) = SubSeq(t, 1, Len(t))
    BY <2>1, <2>2 DEF Cut
  <2>4. \A j \in 1 .. Len(t) : t[j] # Quote
    BY <1>2
  <2> QED
    BY <2>2, <2>3, <2>4, Zenon
<1>3. CASE S # {}
  <2>1. PICK i \in S : \A j \in S : i <= j
    BY <1>1, <1>3, LeastNumber
  <2>2. i \in 1 .. Len(t) /\ t[i] = Quote /\ i \in Nat
    BY <2>1
  <2>3. \A j \in 1 .. i - 1 : t[j] # Quote
    <3>1. \A j \in 1 .. i - 1 : j \in 1 .. Len(t) /\ ~(i <= j)
      BY <1>1, <2>2
    <3> QED
      BY <2>1, <3>1
  <2>4. Find(t, Quote, 1) = i
    BY <2>2, <2>3, FindIs
  <2>5. i # 0 /\ i - 1 \in 0 .. Len(t) /\ (i - 1) + 1 = i
    BY <1>1, <2>2
  <2>6. Cut(t) = SubSeq(t, 1, i - 1)
    BY <2>4, <2>5, Zenon DEF Cut
  <2> QED
    BY <2>2, <2>3, <2>5, <2>6
<1> QED
  BY <1>2, <1>3

\* The client takes a text that is followed by a quote up to the first quote.
LEMMA TextEnds ==
    ASSUME NEW text \in Seq(Nat), NEW t \in Seq(Nat), NEW p \in Nat, Holds(text, p, t),
           p + Len(t) + 1 <= Len(text), text[p + Len(t) + 1] = Quote
    PROVE  /\ Find(text, Quote, p + 1) \in p + 1 .. p + Len(t) + 1
           /\ SubSeq(text, p + 1, Find(text, Quote, p + 1) - 1) = Cut(t)
<1>1. Len(t) \in Nat /\ Len(text) \in Nat /\ p + Len(t) <= Len(text) /\ \A i \in 1 .. Len(t) : text[p + i] = t[i]
  BY DEF Holds
<1>2. PICK m \in 0 .. Len(t) : /\ Cut(t) = SubSeq(t, 1, m)
                               /\ \A j \in 1 .. m : t[j] # Quote
                               /\ m < Len(t) => t[m + 1] = Quote
  BY CutIs
<1>3. m \in Nat /\ m <= Len(t)
  BY <1>1
<1>4. text[p + m + 1] = Quote
  <2>1. CASE m < Len(t)
    <3>1. m + 1 \in 1 .. Len(t) /\ p + (m + 1) = p + m + 1
      BY <1>1, <1>3, <2>1
    <3> QED
      BY <1>1, <1>2, <2>1, <3>1
  <2>2. CASE m = Len(t)
    BY <2>2
  <2> QED
    BY <1>1, <1>3, <2>1, <2>2
<1>5. ASSUME NEW j \in p + 1 .. p + m PROVE text[j] # Quote
  <2>1. j - p \in 1 .. m /\ j - p \in 1 .. Len(t) /\ p + (j - p) = j
    BY <1>1, <1>3
  <2> QED
    BY <1>1, <1>2, <2>1
<1>6. Find(text, Quote, p + 1) = p + m + 1
  <2> DEFINE i == p + m + 1
             from == p + 1
  <2>1. i \in from .. Len(text) /\ from \in Nat /\ i - 1 = p + m
    BY <1>1, <1>3
  <2>2. text[i] = Quote
    BY <1>4
  <2>3. \A j \in from .. i - 1 : text[j] # Quote
    BY <1>5, <2>1
  <2> HIDE DEF i, from
  <2>4. Find(text, Quote, from) = i
    BY <2>1, <2>2, <2>3, FindIs
  <2> QED
    BY <2>4 DEF i, from
<1>7. SubSeq(text, p + 1, p + m) = SubSeq(t, 1, m)
  <2> DEFINE u == SubSeq(t, 1, m)
  <2>1. u \in Seq(Nat) /\ Len(u) = m /\ \A i \in 1 .. m : u[i] = t[i]
    BY <1>1, <1>3
  <2> HIDE DEF u
  <2>2. ASSUME NEW i \in 1 .. m PROVE text[p + i] = u[i]
    <3>1. i \in 1 .. Len(t)
      BY <1>1, <1>3
    <3>2. text[p + i] = t[i] /\ u[i] = t[i]
      BY <1>1, <2>1, <3>1
    <3> QED
      BY <3>2
  <2>3. Holds(text, p, u)
    BY <1>1, <1>3, <2>1, <2>2 DEF Holds
  <2>4. Bytes(text, p, Len(u)) = u
    BY <2>1, <2>3, HeldIsRead
  <2> QED
    BY <2>1, <2>4 DEF Bytes, u
<1>8. p + m + 1 - 1 = p + m /\ p + m + 1 \in p + 1 .. p + Len(t) + 1
  BY <1>1, <1>3
<1> DEFINE found == Find(text, Quote, p + 1)
           q == p + m + 1
<1>9. found = q /\ q - 1 = p + m /\ q \in p + 1 .. p + Len(t) + 1
  BY <1>6, <1>8
<1> HIDE DEF found, q
<1>10. found - 1 = p + m /\ found \in p + 1 .. p + Len(t) + 1
  BY <1>9, Zenon
<1> QED
  BY <1>2, <1>7, <1>10, Zenon DEF found

\* A text has no tag in it.
LEMMA TextHasNoTag ==
    ASSUME NEW t \in Text
    PROVE  /\ t \in Seq(Nat) /\ Len(t) \in Nat
           /\ \A j \in 1 .. Len(t) : t[j] # KeyTag /\ t[j] # ValueTag
<1>1. t \in Seq(Nat \ {KeyTag, ValueTag})
  BY DEF Text
<1>2. t \in Seq(Nat)
  BY <1>1, SeqMonotonic
<1>3. \A j \in 1 .. Len(t) : t[j] \in Nat \ {KeyTag, ValueTag}
  BY <1>1
<1> QED
  BY <1>2, <1>3

\* Where a pair has its tags, texts and quotes, from offset a of the text on.
PairIn(text, a, k, v) ==
    /\ a + 6 + Len(k) + Len(v) <= Len(text)
    /\ text[a + 1] = KeyTag
    /\ Holds(text, a + 1, k)
    /\ text[a + 2 + Len(k)] = Quote
    /\ text[a + 3 + Len(k)] = Comma
    /\ text[a + 4 + Len(k)] = ValueTag
    /\ Holds(text, a + 4 + Len(k), v)
    /\ text[a + 5 + Len(k) + Len(v)] = Quote
    /\ text[a + 6 + Len(k) + Len(v)] = Brace

LEMMA ItemHolds ==
    ASSUME NEW k \in Seq(Nat), NEW v \in Seq(Nat), NEW text \in Seq(Nat), NEW a \in Nat,
           Holds(text, a, Item(<<k, v>>))
    PROVE  /\ Item(<<k, v>>) \in Seq(Nat)
           /\ Len(Item(<<k, v>>)) = 6 + Len(k) + Len(v)
           /\ PairIn(text, a, k, v)
<1> DEFINE t1 == <<KeyTag>>
           t3 == <<Quote, Comma, ValueTag>>
           t5 == <<Quote, Brace>>
           s2 == t1 \o k
           s3 == s2 \o t3
           s4 == s3 \o v
           s5 == s4 \o t5
<1>1. /\ t1 \in Seq(Nat) /\ Len(t1) = 1 /\ t1[1] = KeyTag
      /\ t3 \in Seq(Nat) /\ Len(t3) = 3 /\ t3[1] = Quote /\ t3[2] = Comma /\ t3[3] = ValueTag
      /\ t5 \in Seq(Nat) /\ Len(t5) = 2 /\ t5[1] = Quote /\ t5[2] = Brace
  BY DEF KeyTag, Quote, Comma, ValueTag, Brace
<1>2. k \in Seq(Nat) /\ v \in Seq(Nat) /\ Len(k) \in Nat /\ Len(v) \in Nat
  OBVIOUS
<1>3. Item(<<k, v>>) = s5
  BY DEF Item
<1> HIDE DEF t1, t3, t5
<1>4. s2 \in Seq(Nat) /\ Len(s2) = Len(t1) + Len(k) /\ Holds(s2, 0, t1) /\ Holds(s2, Len(t1), k)
  BY <1>1, <1>2, ConcatHolds
<1> HIDE DEF s2
<1>5. /\ s3 \in Seq(Nat) /\ Len(s3) = Len(s2) + Len(t3)
      /\ Holds(s3, 0, t1) /\ Holds(s3, Len(t1), k) /\ Holds(s3, Len(s2), t3)
  BY <1>1, <1>2, <1>4, ConcatHolds
<1> HIDE DEF s3
<1>6. /\ s4 \in Seq(Nat) /\ Len(s4) = Len(s3) + Len(v)
      /\ Holds(s4, 0, t1) /\ Holds(s4, Len(t1), k) /\ Holds(s4, Len(s2), t3) /\ Holds(s4, Len(s3), v)
  <2>1. 0 \in Nat /\ Len(t1) \in Nat /\ Len(s2) \in Nat
    BY <1>1, <1>4
  <2>2. /\ s4 \in Seq(Nat) /\ Len(s4) = Len(s3) + Len(v) /\ Holds(s4, Len(s3), v)
        /\ \A u \in Seq(Nat), p \in Nat : Holds(s3, p, u) => Holds(s4, p, u)
    BY <1>2, <1>5, ConcatHolds
  <2> QED
    BY <1>1, <1>2, <1>5, <2>1, <2>2, Zenon
<1> HIDE DEF s4
<1>7. /\ s5 \in Seq(Nat) /\ Len(s5) = Len(s4) + Len(t5)
      /\ Holds(s5, 0, t1) /\ Holds(s5, Len(t1), k) /\ Holds(s5, Len(s2), t3) /\ Holds(s5, Len(s3), v)
      /\ Holds(s5, Len(s4), t5)
  <2>1. 0 \in Nat /\ Len(t1) \in Nat /\ Len(s2) \in Nat /\ Len(s3) \in Nat
    BY <1>1, <1>4, <1>5
  <2>2. /\ s5 \in Seq(Nat) /\ Len(s5) = Len(s4) + Len(t5) /\ Holds(s5, Len(s4), t5)
        /\ \A u \in Seq(Nat), p \in Nat : Holds(s4, p, u) => Holds(s5, p, u)
    BY <1>1, <1>6, ConcatHolds
  <2> QED
    BY <1>1, <1>2, <1>6, <2>1, <2>2, Zenon
<1> HIDE DEF s5
<1>8. /\ Holds(text, a + 0, t1) /\ Holds(text, a + Len(t1), k) /\ Holds(text, a + Len(s2), t3)
      /\ Holds(text, a + Len(s3), v) /\ Holds(text, a + Len(s4), t5)
  <2>1. Holds(text, a, s5)
    BY <1>3
  <2>2. 0 \in Nat /\ Len(t1) \in Nat /\ Len(s2) \in Nat /\ Len(s3) \in Nat /\ Len(s4) \in Nat
    BY <1>1, <1>4, <1>5, <1>6
  <2> QED
    BY <1>1, <1>2, <1>7, <2>1, <2>2, HoldsInside
<1>9. Len(t1) = 1 /\ Len(s2) = 1 + Len(k) /\ Len(s3) = 4 + Len(k) /\ Len(s4) = 4 + Len(k) + Len(v)
  BY <1>1, <1>2, <1>4, <1>5, <1>6
<1>10. Holds(text, a + 1, k) /\ Holds(text, a + 4 + Len(k), v)
  <2>1. a + (4 + Len(k)) = a + 4 + Len(k)
    BY <1>2
  <2> QED
    BY <1>8, <1>9, <2>1
<1>11. text[a + 1] = KeyTag
  <2>1. text[a + 0 + 1] = t1[1]
    BY <1>1, <1>8 DEF Holds
  <2> QED
    BY <1>1, <2>1
<1>12. text[a + 2 + Len(k)] = Quote /\ text[a + 3 + Len(k)] = Comma /\ text[a + 4 + Len(k)] = ValueTag
  <2> DEFINE b == a + (1 + Len(k))
  <2>1. Holds(text, b, t3)
    BY <1>8, <1>9
  <2>2. b + 1 = a + 2 + Len(k) /\ b + 2 = a + 3 + Len(k) /\ b + 3 = a + 4 + Len(k)
    BY <1>2
  <2> HIDE DEF b
  <2>3. text[b + 1] = t3[1] /\ text[b + 2] = t3[2] /\ text[b + 3] = t3[3]
    BY <1>1, <2>1 DEF Holds
  <2> QED
    BY <1>1, <2>2, <2>3, Zenon
<1>13. text[a + 5 + Len(k) + Len(v)] = Quote /\ text[a + 6 + Len(k) + Len(v)] = Brace
       /\ a + 6 + Len(k) + Len(v) <= Len(text)
  <2> DEFINE b == a + (4 + Len(k) + Len(v))
  <2>1. Holds(text, b, t5)
    BY <1>8, <1>9
  <2>2. b + 1 = a + 5 + Len(k) + Len(v) /\ b + 2 = a + 6 + Len(k) + Len(v)
    BY <1>2
  <2> HIDE DEF b
  <2>3. text[b + 1] = t5[1] /\ text[b + 2] = t5[2] /\ b + 2 <= Len(text)
    BY <1>1, <2>1 DEF Holds
  <2> QED
    BY <1>1, <2>2, <2>3, Zenon
<1>14. PairIn(text, a, k, v)
  BY <1>10, <1>11, <1>12, <1>13, Zenon DEF PairIn
<1>15. Len(s5) = 6 + Len(k) + Len(v)
  BY <1>1, <1>2, <1>7, <1>9
<1> QED
  BY <1>3, <1>7, <1>14, <1>15

\* One round of the client's loop, begun between the pair before and this one:
\* it takes this pair, and leaves off where no other begins before its end.
LEMMA RoundReads ==
    ASSUME NEW k \in Text, NEW v \in Text, NEW text \in Seq(Nat), NEW a \in Nat,
           PairIn(text, a, k, v), NEW pos \in 1 .. a + 1, \A j \in pos .. a : text[j] # KeyTag
    PROVE  /\ ~ParseStops(text, pos)
           /\ PairAt(text, pos) = <<Cut(k), Cut(v)>>
           /\ ValueEnd(text, pos) \in 1 .. a + 6 + Len(k) + Len(v)
           /\ \A j \in ValueEnd(text, pos) .. a + 6 + Len(k) + Len(v) : text[j] # KeyTag
<1> DEFINE lk == Len(k)
           lv == Len(v)
<1>1. /\ k \in Seq(Nat) /\ v \in Seq(Nat) /\ lk \in Nat /\ lv \in Nat /\ pos \in Nat /\ Len(text) \in Nat
      /\ \A j \in 1 .. lk : k[j] # ValueTag
      /\ \A j \in 1 .. lv : v[j] # KeyTag
  BY TextHasNoTag
<1>2. /\ a + 6 + lk + lv <= Len(text)
      /\ text[a + 1] = KeyTag
      /\ Holds(text, a + 1, k)
      /\ text[a + 2 + lk] = Quote
      /\ text[a + 3 + lk] = Comma
      /\ text[a + 4 + lk] = ValueTag
      /\ Holds(text, a + 4 + lk, v)
      /\ text[a + 5 + lk + lv] = Quote
      /\ text[a + 6 + lk + lv] = Brace
  BY DEF PairIn
<1>3. /\ \A j \in 1 .. lk : text[a + 1 + j] # ValueTag
      /\ \A j \in 1 .. lv : text[a + 4 + lk + j] # KeyTag
  BY <1>1, <1>2 DEF Holds
<1> HIDE DEF lk, lv
<1>4. KeyAt(text, pos) = a + 1
  <2> DEFINE i == a + 1
  <2>1. i \in pos .. Len(text) /\ i - 1 = a /\ text[i] = KeyTag
    BY <1>1, <1>2
  <2>2. \A j \in pos .. i - 1 : text[j] # KeyTag
    BY <2>1
  <2> HIDE DEF i
  <2>3. Find(text, KeyTag, pos) = i
    BY <1>1, <2>1, <2>2, FindIs
  <2> QED
    BY <2>3 DEF KeyAt, i
<1> DEFINE e == KeyEnd(text, pos)
<1>5. e \in a + 2 .. a + 2 + lk /\ SubSeq(text, a + 2, e - 1) = Cut(k)
  <2> DEFINE p == a + 1
  <2>1. p \in Nat /\ p + 1 = a + 2 /\ p + lk + 1 = a + 2 + lk /\ p + lk + 1 <= Len(text)
    BY <1>1, <1>2
  <2>2. Holds(text, p, k) /\ text[p + lk + 1] = Quote /\ e = Find(text, Quote, p + 1)
    BY <1>2, <1>4, <2>1 DEF KeyEnd
  <2> HIDE DEF p, e
  <2>3. e \in p + 1 .. p + lk + 1 /\ SubSeq(text, p + 1, e - 1) = Cut(k)
    BY <1>1, <2>1, <2>2, TextEnds DEF lk
  <2> QED
    BY <2>1, <2>3
<1>6. e \in Nat /\ a + 2 <= e /\ e <= a + 2 + lk
  <2>1. e \in a + 2 .. a + 2 + lk
    BY <1>5
  <2> HIDE DEF e
  <2> QED
    BY <1>1, <2>1
<1>7. ValueAt(text, pos) = a + 4 + lk
  <2> DEFINE i == a + 4 + lk
  <2>0. ValueAt(text, pos) = Find(text, ValueTag, e)
    BY DEF ValueAt
  <2> HIDE DEF e
  <2>1. i \in e .. Len(text) /\ i - 1 = a + 3 + lk /\ text[i] = ValueTag
    <3>1. a + 6 + lk + lv <= Len(text)
      BY <1>2
    <3>2. lk \in Nat /\ lv \in Nat /\ Len(text) \in Nat
      BY <1>1
    <3>3. i \in e .. Len(text) /\ i - 1 = a + 3 + lk
      BY <1>6, <3>1, <3>2
    <3> QED
      BY <1>2, <3>3, Zenon
  <2>2. ASSUME NEW j \in e .. a + 3 + lk PROVE text[j] # ValueTag
    <3>1. j \in Nat /\ j >= a + 2 /\ j <= a + 3 + lk
      BY <1>1, <1>6
    <3>2. CASE j <= a + 1 + lk
      <4> DEFINE i1 == j - a - 1
      <4>1. i1 \in 1 .. lk /\ a + 1 + i1 = j
        BY <1>1, <3>1, <3>2
      <4> HIDE DEF i1
      <4>2. text[a + 1 + i1] # ValueTag
        BY <1>3, <4>1, Zenon
      <4> QED
        BY <4>1, <4>2, Zenon
    <3>0. Quote # ValueTag /\ Comma # ValueTag
      BY DEF Quote, Comma, ValueTag
    <3>3. CASE j = a + 2 + lk
      BY <1>2, <3>0, <3>3, Zenon
    <3>4. CASE j = a + 3 + lk
      BY <1>2, <3>0, <3>4, Zenon
    <3>5. j <= a + 1 + lk \/ j = a + 2 + lk \/ j = a + 3 + lk
      BY <1>1, <3>1
    <3> QED
      BY <3>2, <3>3, <3>4, <3>5
  <2>3. \A j \in e .. i - 1 : text[j] # ValueTag
    BY <2>1, <2>2
  <2> HIDE DEF i
  <2>4. Find(text, ValueTag, e) = i
    BY <1>6, <2>1, <2>3, FindIs
  <2> QED
    BY <2>0, <2>4 DEF i
<1> DEFINE f == ValueEnd(text, pos)
<1>8. f \in a + 5 + lk .. a + 5 + lk + lv /\ SubSeq(text, a + 5 + lk, f - 1) = Cut(v)
  <2> DEFINE p == a + 4 + lk
  <2>1. p \in Nat /\ p + 1 = a + 5 + lk /\ p + lv + 1 = a + 5 + lk + lv /\ p + lv + 1 <= Len(text)
    BY <1>1, <1>2
  <2>2. Holds(text, p, v) /\ text[p + lv + 1] = Quote /\ f = Find(text, Quote, p + 1)
    BY <1>2, <1>7, <2>1 DEF ValueEnd
  <2> HIDE DEF p, f
  <2>3. f \in p + 1 .. p + lv + 1 /\ SubSeq(text, p + 1, f - 1) = Cut(v)
    BY <1>1, <2>1, <2>2, TextEnds DEF lv
  <2> QED
    BY <2>1, <2>3
<1>9. f \in Nat
  BY <1>1, <1>8
<1> HIDE DEF e, f
<1>10. ~ParseStops(text, pos)
  <2>1. a + 1 # 0 /\ e # 0 /\ a + 4 + lk # 0 /\ f # 0
    BY <1>1, <1>5, <1>6, <1>8, <1>9
  <2> QED
    BY <1>4, <1>7, <2>1, Zenon DEF ParseStops, e, f
<1>11. PairAt(text, pos) = <<Cut(k), Cut(v)>>
  <2>1. a + 1 + 1 = a + 2 /\ a + 4 + lk + 1 = a + 5 + lk
    BY <1>1
  <2> QED
    BY <1>4, <1>5, <1>7, <1>8, <2>1, Zenon DEF PairAt, e, f
<1>12. f \in 1 .. a + 6 + lk + lv
  BY <1>1, <1>8, <1>9
<1>13. ASSUME NEW j \in f .. a + 6 + lk + lv PROVE text[j] # KeyTag
  <2>1. j \in Nat /\ j >= a + 5 + lk /\ j <= a + 6 + lk + lv
    BY <1>1, <1>8, <1>9
  <2>2. CASE j <= a + 4 + lk + lv
    <3>1. j - a - 4 - lk \in 1 .. lv /\ a + 4 + lk + (j - a - 4 - lk) = j
      BY <1>1, <2>1, <2>2
    <3> QED
      BY <1>3, <3>1
  <2>3. CASE j = a + 5 + lk + lv
    BY <1>2, <2>3 DEF Quote, KeyTag
  <2>4. CASE j = a + 6 + lk + lv
    BY <1>2, <2>4 DEF Brace, KeyTag
  <2> QED
    BY <1>1, <2>1, <2>2, <2>3, <2>4
<1> QED
  BY <1>10, <1>11, <1>12, <1>13 DEF f, lk, lv

-----------------------------------------------------------------------------
(* All pairs.                                                              *)

LEMMA ItemIsText ==
    ASSUME NEW k \in Seq(Nat), NEW v \in Seq(Nat)
    PROVE  /\ Item(<<k, v>>) \in Seq(Nat)
           /\ Len(Item(<<k, v>>)) = 6 + Len(k) + Len(v)
<1>1. <<KeyTag>> \in Seq(Nat) /\ <<Quote, Comma, ValueTag>> \in Seq(Nat) /\ <<Quote, Brace>> \in Seq(Nat)
  BY DEF KeyTag, Quote, Comma, ValueTag, Brace
<1> DEFINE t == Item(<<k, v>>)
<1>3. t \in Seq(Nat)
  BY <1>1, ConcatProperties DEF Item
<1>4. Holds(t, 0, t)
  <2> HIDE DEF t
  <2> QED
    BY <1>3 DEF Holds
<1>5. Len(t) = 6 + Len(k) + Len(v)
  <2>1. Holds(t, 0, Item(<<k, v>>)) /\ 0 \in Nat
    BY <1>4
  <2> QED
    BY <1>3, <2>1, ItemHolds
<1> QED
  BY <1>3, <1>5

\* An entry is the item and, behind it, at most a comma.
LEMMA EntryHolds ==
    ASSUME NEW pairs \in Seq(Seq(Nat) \X Seq(Nat)), NEW i \in 1 .. Len(pairs)
    PROVE  /\ pairs[i] = <<pairs[i][1], pairs[i][2]>>
           /\ pairs[i][1] \in Seq(Nat) /\ pairs[i][2] \in Seq(Nat)
           /\ Item(pairs[i]) \in Seq(Nat)
           /\ Entry(pairs, i) \in Seq(Nat)
           /\ Holds(Entry(pairs, i), 0, Item(pairs[i]))
           /\ Len(Item(pairs[i])) <= Len(Entry(pairs, i))
           /\ \A j \in Len(Item(pairs[i])) + 1 .. Len(Entry(pairs, i)) : Entry(pairs, i)[j] # KeyTag
<1> DEFINE c == IF i < Len(pairs) THEN <<Comma>> ELSE << >>
           t == Item(pairs[i])
           e == t \o c
<1>1. pairs[i] \in Seq(Nat) \X Seq(Nat)
  OBVIOUS
<1>2. pairs[i] = <<pairs[i][1], pairs[i][2]>> /\ pairs[i][1] \in Seq(Nat) /\ pairs[i][2] \in Seq(Nat)
  BY <1>1
<1>3. t \in Seq(Nat) /\ Len(t) \in Nat
  <2>1. Item(<<pairs[i][1], pairs[i][2]>>) \in Seq(Nat)
    BY <1>2, ItemIsText, Zenon
  <2>2. t \in Seq(Nat)
    BY <1>2, <2>1, Zenon
  <2> HIDE DEF t
  <2> QED
    BY <2>2
<1>4. c \in Seq(Nat) /\ Len(c) \in Nat /\ \A j \in 1 .. Len(c) : c[j] # KeyTag
  BY DEF Comma, KeyTag
<1>5. Entry(pairs, i) = e
  BY DEF Entry
<1> HIDE DEF c, t
<1>6. e \in Seq(Nat) /\ Len(e) = Len(t) + Len(c) /\ Holds(e, 0, t) /\ Holds(e, Len(t), c)
  BY <1>3, <1>4, ConcatHolds
<1> HIDE DEF e
<1>7. ASSUME NEW j \in Len(t) + 1 .. Len(e) PROVE e[j] # KeyTag
  <2>1. j - Len(t) \in 1 .. Len(c) /\ Len(t) + (j - Len(t)) = j
    BY <1>3, <1>4, <1>6
  <2>2. e[Len(t) + (j - Len(t))] = c[j - Len(t)]
    BY <1>6, <2>1 DEF Holds
  <2> QED
    BY <1>4, <2>1, <2>2
<1>8. Len(t) <= Len(e)
  BY <1>3, <1>4, <1>6
<1> QED
  BY <1>2, <1>3, <1>5, <1>6, <1>7, <1>8 DEF t

LEMMA TextFromIsText ==
    ASSUME NEW pairs \in Seq(Seq(Nat) \X Seq(Nat))
    PROVE  \A i \in 1 .. Len(pairs) + 1 : TextFrom(pairs)[i] \in Seq(Nat)
<1> DEFINE G == {i \in Nat : TextFrom(pairs)[i] \in Seq(Nat)}
<1>1. Len(pairs) \in Nat
  OBVIOUS
<1>2. Len(pairs) + 1 \in G
  <2>1. Len(pairs) + 1 \in Nat /\ Len(pairs) + 1 > Len(pairs)
    BY <1>1
  <2>2. TextFrom(pairs)[Len(pairs) + 1] = <<Closing>>
    BY <2>1, TextUnfolds
  <2> QED
    <3>1. <<Closing>> \in Seq(Nat)
      BY DEF Closing
    <3> QED
      BY <2>1, <2>2, <3>1, Zenon
<1>3. ASSUME NEW i \in 1 .. Len(pairs), i + 1 \in G PROVE i \in G
  <2>1. i \in Nat /\ ~(i > Len(pairs))
    BY <1>1
  <2>2. TextFrom(pairs)[i] = Entry(pairs, i) \o TextFrom(pairs)[i + 1]
    BY <2>1, TextUnfolds
  <2>3. Entry(pairs, i) \in Seq(Nat) /\ TextFrom(pairs)[i + 1] \in Seq(Nat)
    BY <1>3, EntryHolds
  <2> DEFINE e == Entry(pairs, i)
             u == TextFrom(pairs)[i + 1]
  <2>4. e \in Seq(Nat) /\ u \in Seq(Nat)
    BY <2>3
  <2> HIDE DEF e, u
  <2>5. e \o u \in Seq(Nat)
    BY <2>4, ConcatProperties
  <2> QED
    BY <2>1, <2>2, <2>5, Zenon DEF e, u
<1>4. \A i \in 1 .. Len(pairs) + 1 : i \in G
  <2> HIDE DEF G
  <2> QED
    BY <1>1, <1>2, <1>3, Downwards
<1> QED
  BY <1>4

\* The pairs, with each text cut at its first quote.
CutPairs(pairs) == [j \in 1 .. Len(pairs) |-> <<Cut(pairs[j][1]), Cut(pairs[j][2])>>]

\* Behind any text s in which no pair begins from pos on, the client reads
\* from pos on the pairs whose text follows.
ReadBehind(pairs, i) ==
    \A s \in Seq(Nat) : \A pos \in 1 .. Len(s) + 1 :
        (\A j \in pos .. Len(s) : s[j] # KeyTag) =>
            PairsFrom(s \o TextFrom(pairs)[i])[pos] = SubSeq(CutPairs(pairs), i, Len(pairs))

LEMMA CutPairsIs ==
    ASSUME NEW pairs, Len(pairs) \in Nat
    PROVE  /\ CutPairs(pairs) \in Seq({CutPairs(pairs)[j] : j \in 1 .. Len(pairs)})
           /\ Len(CutPairs(pairs)) = Len(pairs)
<1> DEFINE n == Len(pairs)
           c == CutPairs(pairs)
<1>1. n \in Nat /\ DOMAIN c = 1 .. n /\ c = [j \in 1 .. n |-> c[j]]
  BY DEF CutPairs
<1> HIDE DEF n, c
<1> QED
  BY <1>1 DEF n, c

LEMMA ReadBehindLast ==
    ASSUME NEW pairs \in Seq(Seq(Nat) \X Seq(Nat))
    PROVE  ReadBehind(pairs, Len(pairs) + 1)
<1> DEFINE n == Len(pairs)
           last == <<Closing>>
<1> SUFFICES ASSUME NEW s \in Seq(Nat), NEW pos \in 1 .. Len(s) + 1,
                    \A j \in pos .. Len(s) : s[j] # KeyTag
             PROVE  PairsFrom(s \o TextFrom(pairs)[n + 1])[pos] = SubSeq(CutPairs(pairs), n + 1, n)
  BY DEF ReadBehind
<1>1. n \in Nat /\ Len(s) \in Nat /\ pos \in Nat
  OBVIOUS
<1>2. TextFrom(pairs)[n + 1] = last
  <2>1. n + 1 \in Nat /\ n + 1 > n
    BY <1>1
  <2> QED
    BY <2>1, TextUnfolds
<1>3. last \in Seq(Nat) /\ Len(last) = 1 /\ last[1] # KeyTag
  BY DEF Closing, KeyTag
<1> HIDE DEF last
<1> DEFINE text == s \o last
<1>4. text \in Seq(Nat) /\ Len(text) = Len(s) + 1 /\ Holds(text, 0, s) /\ Holds(text, Len(s), last)
  BY <1>3, ConcatHolds
<1> HIDE DEF text
<1>5. ASSUME NEW j \in pos .. Len(text) PROVE text[j] # KeyTag
  <2>1. CASE j = Len(s) + 1
    <3>1. text[Len(s) + 1] = last[1]
      BY <1>3, <1>4 DEF Holds
    <3> QED
      BY <1>3, <2>1, <3>1
  <2>2. CASE j # Len(s) + 1
    <3>1. j \in 1 .. Len(s) /\ j \in pos .. Len(s) /\ 0 + j = j
      BY <1>1, <1>4, <2>2
    <3>2. text[0 + j] = s[j]
      BY <1>4, <3>1 DEF Holds
    <3> QED
      BY <3>1, <3>2
  <2> QED
    BY <2>1, <2>2
<1>6. ParseStops(text, pos)
  BY <1>1, <1>4, <1>5, FindNone DEF ParseStops, KeyAt
<1>7. PairsFrom(text)[pos] = << >>
  BY <1>1, <1>4, <1>6, ParseUnfolds
<1>8. SubSeq(CutPairs(pairs), n + 1, n) = << >>
  BY <1>1, SubSeqEmpty
<1> QED
  BY <1>2, <1>7, <1>8 DEF text

LEMMA TextsAssociate ==
    ASSUME NEW s \in Seq(Nat), NEW t \in Seq(Nat), NEW u \in Seq(Nat)
    PROVE  (s \o t) \o u = s \o (t \o u)
  BY ConcatAssociative

LEMMA TextsArePairs ==
    ASSUME NEW pairs \in Seq(Text \X Text)
    PROVE  /\ pairs \in Seq(Seq(Nat) \X Seq(Nat))
           /\ \A i \in 1 .. Len(pairs) : pairs[i][1] \in Text /\ pairs[i][2] \in Text
<1>1. \A i \in 1 .. Len(pairs) : pairs[i] \in Text \X Text
  OBVIOUS
<1>2. Text \X Text \subseteq Seq(Nat) \X Seq(Nat)
  <2>1. Text \subseteq Seq(Nat)
    BY TextHasNoTag
  <2> QED
    BY <2>1
<1> QED
  BY <1>1, <1>2, SeqMonotonic

LEMMA ReadBehindEntry ==
    ASSUME NEW pairs \in Seq(Text \X Text), NEW i \in 1 .. Len(pairs), ReadBehind(pairs, i + 1)
    PROVE  ReadBehind(pairs, i)
<1> DEFINE n == Len(pairs)
           cut == CutPairs(pairs)
           E == Entry(pairs, i)
           R == TextFrom(pairs)[i + 1]
           t == Item(pairs[i])
           k == pairs[i][1]
           v == pairs[i][2]
<1> SUFFICES ASSUME NEW s \in Seq(Nat), NEW pos \in 1 .. Len(s) + 1,
                    \A j \in pos .. Len(s) : s[j] # KeyTag
             PROVE  PairsFrom(s \o TextFrom(pairs)[i])[pos] = SubSeq(cut, i, n)
  BY DEF ReadBehind
<1>0. /\ pairs \in Seq(Seq(Nat) \X Seq(Nat))
      /\ k \in Text /\ v \in Text /\ k \in Seq(Nat) /\ v \in Seq(Nat)
  BY TextsArePairs, TextHasNoTag
<1>1. n \in Nat /\ i \in Nat /\ Len(s) \in Nat /\ pos \in Nat /\ i + 1 \in 1 .. n + 1 /\ ~(i > n)
  OBVIOUS
<1>2. TextFrom(pairs)[i] = E \o R
  BY <1>0, <1>1, TextUnfolds
<1>3. /\ pairs[i] = <<k, v>>
      /\ t \in Seq(Nat) /\ E \in Seq(Nat) /\ Holds(E, 0, t)
      /\ Len(t) <= Len(E) /\ \A j \in Len(t) + 1 .. Len(E) : E[j] # KeyTag
  BY <1>0, EntryHolds, Zenon
<1>4. R \in Seq(Nat)
  BY <1>0, <1>1, TextFromIsText
<1>5. Len(t) = 6 + Len(k) + Len(v) /\ Len(k) \in Nat /\ Len(v) \in Nat
  <2>1. t = Item(<<k, v>>)
    BY <1>3, Zenon
  <2>2. k \in Seq(Nat) /\ v \in Seq(Nat)
    BY <1>0
  <2> HIDE DEF t, k, v
  <2>3. Len(Item(<<k, v>>)) = 6 + Len(k) + Len(v)
    BY <2>2, ItemIsText, Zenon
  <2> QED
    BY <2>1, <2>2, <2>3
<1>6. cut \in Seq({cut[j] : j \in 1 .. n}) /\ Len(cut) = n /\ cut[i] = <<Cut(k), Cut(v)>>
  <2>1. cut[i] = <<Cut(k), Cut(v)>>
    BY DEF CutPairs
  <2>2. cut \in Seq({cut[j] : j \in 1 .. n}) /\ Len(cut) = n
    BY <1>1, CutPairsIs, Zenon
  <2> QED
    BY <2>1, <2>2, Zenon
<1>t. t = Item(<<k, v>>)
  BY <1>3, Zenon
<1> HIDE DEF n, cut, E, R, t, k, v
<1> DEFINE longer == s \o E
           text == longer \o R
<1>7. s \o TextFrom(pairs)[i] = text
  <2>1. E \in Seq(Nat) /\ R \in Seq(Nat)
    BY <1>3, <1>4
  <2>2. (s \o E) \o R = s \o (E \o R)
    BY <2>1, TextsAssociate, Zenon
  <2> QED
    BY <1>2, <2>2, Zenon
<1>8. /\ longer \in Seq(Nat) /\ Len(longer) = Len(s) + Len(E)
      /\ Holds(longer, 0, s) /\ Holds(longer, Len(s), E)
  BY <1>3, ConcatHolds
<1> HIDE DEF longer
<1>9. text \in Seq(Nat) /\ Len(text) = Len(longer) + Len(R) /\ Holds(text, 0, longer)
  BY <1>4, <1>8, ConcatHolds
<1> HIDE DEF text
<1>10. Len(E) \in Nat /\ Len(R) \in Nat /\ Len(longer) \in Nat /\ Len(text) \in Nat
  BY <1>3, <1>4, <1>8, <1>9
<1>11. \A j \in 1 .. Len(longer) : text[j] = longer[j]
  <2>1. \A j \in 1 .. Len(longer) : text[0 + j] = longer[j] /\ 0 + j = j
    BY <1>9, <1>10 DEF Holds
  <2> QED
    BY <2>1
<1>12. \A j \in 1 .. Len(s) : longer[j] = s[j]
  <2>1. \A j \in 1 .. Len(s) : longer[0 + j] = s[j] /\ 0 + j = j
    BY <1>1, <1>8 DEF Holds
  <2> QED
    BY <2>1
<1>13. Holds(text, Len(s), t)
  <2>1. Holds(longer, Len(s) + 0, t) /\ Len(s) + 0 = Len(s)
    BY <1>1, <1>3, <1>8, HoldsInside
  <2>2. Holds(longer, Len(s), t)
    BY <2>1
  <2>3. Holds(text, 0 + Len(s), t) /\ 0 + Len(s) = Len(s)
    BY <1>1, <1>3, <1>8, <1>9, <2>2, HoldsInside
  <2> QED
    BY <2>3
<1>14. PairIn(text, Len(s), k, v)
  BY <1>0, <1>1, <1>9, <1>13, <1>t, ItemHolds
<1>15. ASSUME NEW j \in pos .. Len(s) PROVE text[j] # KeyTag
  <2>1. j \in 1 .. Len(s) /\ j \in 1 .. Len(longer)
    BY <1>1, <1>8, <1>10
  <2> QED
    BY <1>11, <1>12, <2>1
<1> DEFINE end == ValueEnd(text, pos)
           upto == Len(s) + 6 + Len(k) + Len(v)
<1>16. /\ ~ParseStops(text, pos)
       /\ PairAt(text, pos) = <<Cut(k), Cut(v)>>
       /\ end \in 1 .. upto
       /\ \A j \in end .. upto : text[j] # KeyTag
  <2>1. k \in Text /\ v \in Text /\ text \in Seq(Nat)
    BY <1>0, <1>9
  <2> QED
    BY <1>1, <1>14, <1>15, <2>1, RoundReads, Zenon
<1>17. upto = Len(s) + Len(t) /\ upto \in Nat /\ upto <= Len(longer)
  <2>1. Len(t) <= Len(E) /\ Len(longer) = Len(s) + Len(E)
    BY <1>3, <1>8
  <2> QED
    BY <1>1, <1>5, <1>10, <2>1
<1> HIDE DEF end, upto
<1>18. end \in Nat /\ end \in 1 .. Len(longer) + 1
  <2>1. end \in 1 .. upto
    BY <1>16
  <2> QED
    BY <1>10, <1>17, <2>1
<1>19. ASSUME NEW j \in end .. Len(longer) PROVE longer[j] # KeyTag
  <2>1. j \in Nat /\ j \in 1 .. Len(longer)
    BY <1>10, <1>18
  <2>2. CASE j <= upto
    <3>1. j \in end .. upto
      BY <1>17, <1>18, <2>1, <2>2
    <3> QED
      BY <1>11, <1>16, <2>1, <3>1
  <2>3. CASE ~(j <= upto)
    <3>1. j - Len(s) \in Len(t) + 1 .. Len(E) /\ j - Len(s) \in 1 .. Len(E) /\ Len(s) + (j - Len(s)) = j
      <4>1. Len(longer) = Len(s) + Len(E) /\ Len(t) \in Nat
        BY <1>5, <1>8
      <4> QED
        BY <1>1, <1>10, <1>17, <2>1, <2>3, <4>1
    <3>2. longer[Len(s) + (j - Len(s))] = E[j - Len(s)]
      BY <1>8, <3>1 DEF Holds
    <3> QED
      BY <1>3, <3>1, <3>2
  <2> QED
    BY <2>2, <2>3
<1>20. PairsFrom(text)[end] = SubSeq(cut, i + 1, n)
  BY <1>8, <1>18, <1>19 DEF ReadBehind, text, R, cut, n
<1>21. PairsFrom(text)[pos] = <<PairAt(text, pos)>> \o PairsFrom(text)[end]
  BY <1>1, <1>9, <1>16, ParseUnfolds DEF end
<1>22. SubSeq(cut, i, n) = <<cut[i]>> \o SubSeq(cut, i + 1, n)
  <2>1. i \in 1 .. Len(cut) /\ n \in i .. Len(cut)
    BY <1>1, <1>6 DEF n
  <2> QED
    BY <1>6, <2>1, SubSeqRecursiveFirst
<1> QED
  BY <1>6, <1>7, <1>16, <1>20, <1>21, <1>22, Zenon

\* From the text of any scan result whose keys and values hold no tag the
\* client reads back every pair, in order, each text up to its first quote:
\* scan in client.cpp undoes what process_request writes.
THEOREM ScanIsRead ==
    ASSUME NEW pairs \in Seq(Text \X Text)
    PROVE  PairsFrom(ScanText(pairs))[1] = CutPairs(pairs)
<1> DEFINE G == {i \in Nat : ReadBehind(pairs, i)}
           n == Len(pairs)
           s == <<Opening>>
<1>1. n \in Nat
  OBVIOUS
<1>2. \A i \in 1 .. n + 1 : i \in G
  <2>1. n + 1 \in G
    BY <1>1, TextsArePairs, ReadBehindLast
  <2>2. \A i \in 1 .. n : i + 1 \in G => i \in G
    BY <1>1, ReadBehindEntry
  <2> HIDE DEF G, n
  <2> QED
    BY <1>1, <2>1, <2>2, Downwards
<1>3. ReadBehind(pairs, 1)
  BY <1>1, <1>2
<1>4. s \in Seq(Nat) /\ Len(s) = 1 /\ s[1] # KeyTag
  BY DEF Opening, KeyTag
<1> HIDE DEF s
<1>5. 1 \in 1 .. Len(s) + 1 /\ \A j \in 1 .. Len(s) : s[j] # KeyTag
  BY <1>4
<1>6. PairsFrom(s \o TextFrom(pairs)[1])[1] = SubSeq(CutPairs(pairs), 1, n)
  BY <1>3, <1>4, <1>5, Zenon DEF ReadBehind
<1>7. SubSeq(CutPairs(pairs), 1, n) = CutPairs(pairs)
  <2> DEFINE c == CutPairs(pairs)
  <2>1. c \in Seq({c[j] : j \in 1 .. n}) /\ Len(c) = n
    BY <1>1 DEF CutPairs
  <2> HIDE DEF c
  <2> QED
    BY <2>1, SubSeqFull DEF c
<1> QED
  BY <1>6, <1>7 DEF ScanText, s

-----------------------------------------------------------------------------
(* Messages.                                                               *)

IsMessage(m) == m.type \in Nat /\ m.id \in Nat /\ m.key \in Seq(Nat) /\ m.value \in Seq(Nat)

\* Any number makes a word.
LEMMA WordIsBytes ==
    ASSUME NEW n \in Nat
    PROVE  /\ Word(n) \in Seq(Nat) /\ Len(Word(n)) = 2
           /\ Word(n)[1] + Base * Word(n)[2] = n
<1>1. n % Base \in Nat /\ n \div Base \in Nat /\ (n % Base) + Base * (n \div Base) = n
  BY WordHolds
<1>2. Word(n)[1] = n % Base /\ Word(n)[2] = n \div Base
  BY DEF Word
<1>3. Word(n) \in Seq(Nat) /\ Len(Word(n)) = 2
  BY <1>1 DEF Word
<1> QED
  BY <1>1, <1>2, <1>3, Zenon

\* Where serialize puts the fields, the key and the value.
LEMMA SerializedFields ==
    ASSUME NEW m, IsMessage(m)
    PROVE  /\ serialize(m) \in Seq(Nat)
           /\ Fields(serialize(m), m.type, m.id, m.key, m.value)
           /\ Len(serialize(m)) = 7 + Len(m.key) + Len(m.value)
           /\ Len(serialize(m)) \in Nat
<1>1. /\ m.type \in Nat /\ m.id \in Nat /\ m.key \in Seq(Nat) /\ m.value \in Seq(Nat)
      /\ Len(m.key) \in Nat /\ Len(m.value) \in Nat
  BY DEF IsMessage
<1>2. Word(m.id) \in Seq(Nat) /\ Word(Len(m.key)) \in Seq(Nat) /\ Word(Len(m.value)) \in Seq(Nat)
  BY <1>1, WordIsBytes
<1> DEFINE s == LaidOut(m.type, m.id, m.key, m.value)
<1>3. s \in Seq(Nat) /\ Fields(s, m.type, m.id, m.key, m.value)
  BY <1>1, <1>2, LayoutHolds, Zenon
<1>4. serialize(m) = s
  BY DEF serialize, LaidOut
<1> HIDE DEF s
<1>5. Len(s) = 7 + Len(m.key) + Len(m.value)
  BY <1>3 DEF Fields
<1>6. Len(s) \in Nat
  BY <1>3
<1> QED
  BY <1>3, <1>4, <1>5, <1>6, Zenon

\* deserialize takes out what is laid out so.
LEMMA FieldsAreRead ==
    ASSUME NEW s \in Seq(Nat), NEW type, NEW n, NEW key \in Seq(Nat), NEW value \in Seq(Nat),
           Fields(s, type, n, key, value)
    PROVE  /\ deserialize(s) = [type |-> type, id |-> n, key |-> key, value |-> value]
           /\ Valid(s) <=> Len(key) <= MAX_KEY_SIZE /\ Len(value) <= MAX_VALUE_SIZE
<1> DEFINE klen == Len(key)
           vlen == Len(value)
<1>1. HeaderSize = 7 /\ 1 + WordSize = 3 /\ 1 + 2 * WordSize = 5
  BY DEF HeaderSize, WordSize
<1>2. /\ Len(s) = 7 + klen + vlen /\ s[1] = type
      /\ WordAt(s, 1) = n /\ WordAt(s, 3) = klen /\ WordAt(s, 5) = vlen
      /\ Holds(s, 7, key) /\ Holds(s, 7 + klen, value)
  BY Zenon DEF Fields
<1>3. klen \in Nat /\ vlen \in Nat /\ 7 + klen \in Nat
  OBVIOUS
<1>4. KeyLength(s) = klen /\ ValueLength(s) = vlen
  BY <1>1, <1>2, Zenon DEF KeyLength, ValueLength
<1>5. Bytes(s, 7, klen) = key /\ Bytes(s, 7 + klen, vlen) = value
  <2> DEFINE p == 7 + klen
  <2>1. p \in Nat /\ Holds(s, p, value) /\ 7 \in Nat /\ Holds(s, 7, key)
    BY <1>2, <1>3
  <2> HIDE DEF p
  <2>2. Bytes(s, 7, Len(key)) = key
    BY <2>1, HeldIsRead
  <2>3. Bytes(s, p, Len(value)) = value
    BY <2>1, HeldIsRead
  <2> QED
    BY <2>2, <2>3, Zenon DEF p
<1> HIDE DEF klen, vlen
<1>6. deserialize(s) = [type |-> type, id |-> n, key |-> key, value |-> value]
  BY <1>1, <1>2, <1>4, <1>5, Zenon DEF deserialize
<1>7. Len(s) >= 7 /\ Len(s) >= 7 + klen + vlen
  BY <1>2, <1>3
<1>8. Valid(s) <=> klen <= MAX_KEY_SIZE /\ vlen <= MAX_VALUE_SIZE
  BY <1>1, <1>4, <1>7, Zenon DEF Valid
<1> QED
  BY <1>6, <1>8 DEF klen, vlen

\* A message that is read back is the one that was written, whatever its key
\* and value hold, and is refused only for a key or a value above its limit:
\* deserialize inverts serialize (protocol.cpp).
THEOREM MessageRoundTrip ==
    ASSUME NEW m, IsMessage(m)
    PROVE  /\ deserialize(serialize(m)) = [type |-> m.type, id |-> m.id, key |-> m.key, value |-> m.value]
           /\ Valid(serialize(m)) <=> Len(m.key) <= MAX_KEY_SIZE /\ Len(m.value) <= MAX_VALUE_SIZE
<1>1. m.key \in Seq(Nat) /\ m.value \in Seq(Nat)
  BY DEF IsMessage
<1>2. serialize(m) \in Seq(Nat) /\ Fields(serialize(m), m.type, m.id, m.key, m.value)
  BY SerializedFields
<1> QED
  BY <1>1, <1>2, FieldsAreRead, Zenon

\* A frame is the length and the message.
LEMMA FrameHolds ==
    ASSUME NEW m, IsMessage(m)
    PROVE  /\ Framed(m) \in Seq(Nat)
           /\ Len(Framed(m)) = 2 + Len(serialize(m))
           /\ WordAt(Framed(m), 0) = Len(serialize(m))
           /\ Holds(Framed(m), 2, serialize(m))
           /\ Bytes(Framed(m), 2, Len(serialize(m))) = serialize(m)
<1> DEFINE t == serialize(m)
           w == Word(Len(t))
           f == w \o t
<1>1. t \in Seq(Nat) /\ Len(t) \in Nat
  BY SerializedFields
<1> HIDE DEF t
<1>2. w \in Seq(Nat) /\ Len(w) = 2 /\ w[1] + Base * w[2] = Len(t)
  BY <1>1, WordIsBytes
<1> HIDE DEF w
<1>3. f \in Seq(Nat) /\ Len(f) = Len(w) + Len(t) /\ Holds(f, 0, w) /\ Holds(f, Len(w), t)
  BY <1>1, <1>2, ConcatHolds
<1> HIDE DEF f
<1>4. Len(f) = 2 + Len(t) /\ Holds(f, 2, t)
  BY <1>2, <1>3
<1>5. f[0 + 1] = w[1] /\ f[0 + 2] = w[2]
  BY <1>2, <1>3 DEF Holds
<1>6. WordAt(f, 0) = Len(t)
  BY <1>2, <1>5, Zenon DEF WordAt
<1>7. Bytes(f, 2, Len(t)) = t
  BY <1>1, <1>3, <1>4, HeldIsRead
<1>8. Framed(m) = f
  BY DEF Framed, f, w, t
<1> QED
  BY <1>3, <1>4, <1>6, <1>7, <1>8 DEF t

\* What async_write sends of the bytes is as long, and is right up to the end
\* of the first transfer.
LEMMA SentIs ==
    ASSUME NEW bytes \in Seq(Nat), NEW sent \in Sent(bytes)
    PROVE  /\ sent \in Seq(Nat)
           /\ Len(sent) = Len(bytes)
           /\ \A i \in 1 .. Len(bytes) : i <= TransferSize => sent[i] = bytes[i]
           /\ Len(bytes) <= TransferSize => sent = bytes
<1> DEFINE n == Len(bytes)
<1>1. n \in Nat /\ DOMAIN bytes = 1 .. n /\ \A i \in 1 .. n : bytes[i] \in Nat
  OBVIOUS
<1>2. CASE sent = bytes
  BY <1>2
<1>3. CASE sent # bytes
  <2>1. PICK j \in Junk : sent = [i \in 1 .. n |-> IF i <= TransferSize THEN bytes[i] ELSE j]
    BY <1>1, <1>3 DEF Sent
  <2>2. j \in Nat
    BY DataAssumption
  <2>3. sent \in Seq(Nat) /\ Len(sent) = n
    BY <1>1, <2>1, <2>2
  <2>4. \A i \in 1 .. n : i <= TransferSize => sent[i] = bytes[i]
    BY <2>1
  <2>5. ASSUME n <= TransferSize PROVE sent = bytes
    <3>1. TransferSize \in Nat
      BY LimitsAssumption
    <3>2. \A i \in 1 .. n : i <= TransferSize
      BY <1>1, <2>5, <3>1
    <3>3. \A i \in 1 .. Len(sent) : sent[i] = bytes[i]
      BY <2>3, <2>4, <3>2
    <3> QED
      BY <2>3, <3>3, SeqEqual
  <2> QED
    BY <2>3, <2>4, <2>5
<1> QED
  BY <1>2, <1>3

-----------------------------------------------------------------------------
(* The answer to a call.                                                   *)

Kinds == {GET, PUT, DELETE, SCAN, PING}

\* A call of the client.
IsCall(c) == c.type \in Kinds /\ IsMessage(c) /\ c.limit \in Nat

LEMMA AnswersTyped ==
    ASSUME NEW request, request.type \in Kinds, NEW a \in Answers(request)
    PROVE  /\ a.type \in {SUCCESS, ERROR, PONG}
           /\ request.type \in {PUT, DELETE} => a.type \in {SUCCESS, ERROR}
           /\ request.type = PING => a.type = PONG
           /\ request.type # SCAN \/ a.type # SUCCESS => a.data \in Seq(Nat)
           /\ request.type = SCAN /\ a.type = SUCCESS => a.data \in Seq(Seq(Nat) \X Seq(Nat))
<1>1. Found \subseteq Seq(Nat) /\ Pairs \subseteq Seq(Seq(Nat) \X Seq(Nat)) /\ << >> \in Seq(Nat)
  BY DataAssumption
<1>2. /\ request.type = GET \/ request.type = SCAN \/ request.type = PING \/ request.type \in {PUT, DELETE}
      /\ GET # SCAN /\ GET # PING /\ SCAN # PING /\ PUT # GET /\ PUT # SCAN /\ PUT # PING
      /\ DELETE # GET /\ DELETE # SCAN /\ DELETE # PING /\ SUCCESS # ERROR /\ SUCCESS # PONG
  BY DEF GET, PUT, DELETE, SCAN, PING, PONG, ERROR, SUCCESS, Kinds
<1>3. CASE request.type = GET
  <2>1. (\E v \in Found : a = [type |-> SUCCESS, data |-> v]) \/ a = [type |-> ERROR, data |-> << >>]
    BY <1>2, <1>3 DEF Answers
  <2>2. ASSUME NEW v \in Found, a = [type |-> SUCCESS, data |-> v] PROVE a.type = SUCCESS /\ a.data \in Seq(Nat)
    <3>1. v \in Seq(Nat)
      BY <1>1
    <3> QED
      BY <2>2, <3>1, Zenon
  <2>3. ASSUME a = [type |-> ERROR, data |-> << >>] PROVE a.type = ERROR /\ a.data \in Seq(Nat)
    BY <1>1, <2>3, Zenon
  <2> QED
    BY <1>2, <1>3, <2>1, <2>2, <2>3, Zenon
<1>4. CASE request.type = SCAN
  <2>1. (\E ps \in Pairs : a = [type |-> SUCCESS, data |-> ps]) \/ a = [type |-> ERROR, data |-> << >>]
    BY <1>2, <1>4 DEF Answers
  <2>2. ASSUME NEW ps \in Pairs, a = [type |-> SUCCESS, data |-> ps]
        PROVE  a.type = SUCCESS /\ a.data \in Seq(Seq(Nat) \X Seq(Nat))
    <3>1. ps \in Seq(Seq(Nat) \X Seq(Nat))
      BY <1>1
    <3> QED
      BY <2>2, <3>1, Zenon
  <2>3. ASSUME a = [type |-> ERROR, data |-> << >>] PROVE a.type = ERROR /\ a.data \in Seq(Nat)
    BY <1>1, <2>3, Zenon
  <2> QED
    BY <1>2, <1>4, <2>1, <2>2, <2>3, Zenon
<1>5. CASE request.type = PING
  <2>1. a = [type |-> PONG, data |-> << >>]
    BY <1>2, <1>5 DEF Answers
  <2>2. a.type = PONG /\ a.data \in Seq(Nat)
    BY <1>1, <2>1
  <2> QED
    BY <1>2, <1>5, <2>2, Zenon
<1>6. CASE request.type \in {PUT, DELETE}
  <2>1. a \in [type : {SUCCESS, ERROR}, data : {<< >>}]
    BY <1>2, <1>6 DEF Answers
  <2>2. a.type \in {SUCCESS, ERROR} /\ a.data \in Seq(Nat)
    BY <1>1, <2>1
  <2> QED
    BY <1>2, <1>6, <2>2, Zenon
<1> QED
  BY <1>2, <1>3, <1>4, <1>5, <1>6, Zenon

LEMMA ResponseIsMessage ==
    ASSUME NEW request, request.type \in Kinds, request.id \in Nat, NEW a \in Answers(request)
    PROVE  /\ IsMessage(Response(request, a))
           /\ Response(request, a).type = a.type
           /\ Response(request, a).id = request.id
           /\ Response(request, a).value = IF request.type = SCAN /\ a.type = SUCCESS
                                           THEN ScanText(a.data) ELSE a.data
<1> DEFINE v == IF request.type = SCAN /\ a.type = SUCCESS THEN ScanText(a.data) ELSE a.data
<1>1. a.type \in Nat
  BY AnswersTyped DEF SUCCESS, ERROR, PONG
<1>2. v \in Seq(Nat)
  <2>1. CASE request.type = SCAN /\ a.type = SUCCESS
    <3>1. a.data \in Seq(Seq(Nat) \X Seq(Nat))
      BY <2>1, AnswersTyped
    <3>2. 1 \in 1 .. Len(a.data) + 1
      BY <3>1
    <3>3. TextFrom(a.data)[1] \in Seq(Nat)
      BY <3>1, <3>2, TextFromIsText
    <3>4. <<Opening>> \in Seq(Nat)
      BY DEF Opening
    <3>5. ScanText(a.data) \in Seq(Nat)
      BY <3>3, <3>4, ConcatProperties DEF ScanText
    <3> QED
      BY <2>1, <3>5
  <2>2. CASE ~(request.type = SCAN /\ a.type = SUCCESS)
    BY <2>2, AnswersTyped
  <2> QED
    BY <2>1, <2>2
<1>3. Response(request, a) = [type |-> a.type, id |-> request.id, key |-> << >>, value |-> v]
  BY DEF Response
<1> HIDE DEF v
<1>4. << >> \in Seq(Nat)
  OBVIOUS
<1>5. IsMessage(Response(request, a))
  BY <1>1, <1>2, <1>3, <1>4 DEF IsMessage
<1> QED
  BY <1>3, <1>5 DEF v

\* The client reads the type and the id of a response that has arrived whole
\* and, if it went out in one transfer, its value.
LEMMA ResponseIsRead ==
    ASSUME NEW m, IsMessage(m), NEW sent \in Sent(Framed(m))
    PROVE  /\ sent \in Seq(Nat)
           /\ Len(sent) = 2 + Len(serialize(m)) /\ Len(serialize(m)) \in Nat /\ Len(serialize(m)) >= 7
           /\ WordAt(sent, 0) = Len(serialize(m))
           /\ deserialize(Bytes(sent, 2, Len(serialize(m)))).type = m.type
           /\ Len(sent) <= TransferSize =>
                 deserialize(Bytes(sent, 2, Len(serialize(m)))).value = m.value
<1> DEFINE f == Framed(m)
           t == serialize(m)
           n == Len(t)
           body == Bytes(sent, 2, n)
<1>1. /\ f \in Seq(Nat) /\ Len(f) = 2 + n /\ WordAt(f, 0) = n
      /\ Holds(f, 2, t) /\ Bytes(f, 2, n) = t
  BY FrameHolds
<1>2. t \in Seq(Nat) /\ n \in Nat /\ n >= 7 /\ t[1] = m.type
  <2>1. Len(m.key) \in Nat /\ Len(m.value) \in Nat
    BY DEF IsMessage
  <2>2. t \in Seq(Nat) /\ n \in Nat /\ n = 7 + Len(m.key) + Len(m.value) /\ t[1] = m.type
    BY SerializedFields, Zenon DEF Fields
  <2> HIDE DEF t, n
  <2>3. n >= 7
    <3>1. ASSUME NEW k \in Nat, NEW v \in Nat PROVE 7 + k + v >= 7
      OBVIOUS
    <3> QED
      BY <2>1, <2>2, <3>1, Zenon
  <2> QED
    BY <2>2, <2>3, Zenon
<1>3. TransferSize \in Nat /\ TransferSize >= 9
  BY LimitsAssumption, TransferAssumption DEF WordSize, HeaderSize
<1>4. deserialize(t).value = m.value
  BY MessageRoundTrip
<1> HIDE DEF f, t, n
<1>5. /\ sent \in Seq(Nat) /\ Len(sent) = 2 + n
      /\ \A i \in 1 .. 2 + n : i <= TransferSize => sent[i] = f[i]
      /\ 2 + n <= TransferSize => sent = f
  BY <1>1, SentIs DEF f
<1>6. sent[1] = f[1] /\ sent[2] = f[2] /\ sent[3] = f[3]
  BY <1>2, <1>3, <1>5
<1>7. WordAt(sent, 0) = n
  BY <1>1, <1>6 DEF WordAt
<1>8. body[1] = m.type
  <2>1. f[2 + 1] = t[1]
    BY <1>1, <1>2 DEF Holds, n
  <2>2. body = SubSeq(sent, 3, 2 + n)
    BY DEF Bytes
  <2>3. SubSeq(sent, 3, 2 + n)[1] = sent[3]
    <3> DEFINE k == 2 + n
    <3>1. k \in Int /\ 3 \in Int /\ \A i \in 3 .. k : sent[i] \in Nat
      BY <1>2, <1>5
    <3>2. 1 \in 1 .. k - 3 + 1 /\ 3 + 1 - 1 = 3
      BY <1>2
    <3> HIDE DEF k
    <3>3. \A i \in 1 .. k - 3 + 1 : SubSeq(sent, 3, k)[i] = sent[3 + i - 1]
      BY <3>1, SubSeqProperties
    <3> QED
      BY <3>2, <3>3 DEF k
  <2> QED
    BY <1>2, <1>6, <2>1, <2>2, <2>3
<1>9. deserialize(body).type = m.type
  BY <1>8 DEF deserialize
<1>10. Len(sent) <= TransferSize => deserialize(body).value = m.value
  BY <1>1, <1>4, <1>5
<1> QED
  BY <1>2, <1>5, <1>7, <1>9, <1>10 DEF n, t

\* What a call makes of a response to its own request: it has the database's
\* answer.  (get and scan have seen that the response is no error.)
LEMMA AnswerIsRight ==
    ASSUME IsCall(call), NEW a \in Answers(call), NEW response, NEW fits \in BOOLEAN,
           response.type = a.type,
           fits => response.value = Response(call, a).value,
           ~Refused(response)
    PROVE  /\ call.type \in {PUT, DELETE, PING} => (Returned(response) <=> a.type # ERROR)
           /\ call.type = GET /\ fits => Returned(response) = a.data
           /\ call.type = SCAN /\ fits /\ a.data \in Seq(Text \X Text) =>
                 /\ LET most == IF call.limit = 0 THEN 1 ELSE call.limit
                    IN  Len(Returned(response)) = IF Len(a.data) < most THEN Len(a.data) ELSE most
                 /\ \A i \in DOMAIN Returned(response) :
                       /\ Returned(response)[i][1] = Cut(a.data[i][1])
                       /\ Returned(response)[i][2] = Cut(a.data[i][2])
<1>1. call.type \in Kinds /\ call.id \in Nat /\ call.limit \in Nat
  BY DEF IsCall, IsMessage
<1>2. /\ a.type \in {SUCCESS, ERROR, PONG}
      /\ call.type \in {PUT, DELETE} => a.type \in {SUCCESS, ERROR}
      /\ call.type = PING => a.type = PONG
  BY <1>1, AnswersTyped, Zenon
<1>3. Response(call, a).value = IF call.type = SCAN /\ a.type = SUCCESS THEN ScanText(a.data) ELSE a.data
  BY <1>1, ResponseIsMessage
<1>4. ASSUME call.type \in {PUT, DELETE, PING} PROVE Returned(response) <=> a.type # ERROR
  <2>1. CASE call.type \in {PUT, DELETE}
    <3>1. Returned(response) = (response.type = SUCCESS)
      BY <2>1 DEF Returned, PUT, DELETE, PING, GET, SCAN
    <3>2. SUCCESS # ERROR
      BY DEF SUCCESS, ERROR
    <3> QED
      BY <1>2, <2>1, <3>1, <3>2, Zenon
  <2>2. CASE call.type = PING
    <3>1. Returned(response) = (response.type = PONG)
      BY <2>2 DEF Returned, PUT, DELETE, PING, GET, SCAN
    <3>2. PONG # ERROR
      BY DEF PONG, ERROR
    <3> QED
      BY <1>2, <2>2, <3>1, <3>2, Zenon
  <2> QED
    BY <1>4, <2>1, <2>2
<1>5. ASSUME call.type = GET, fits PROVE Returned(response) = a.data
  <2>1. Returned(response) = response.value
    BY <1>5 DEF Returned, PUT, DELETE, PING, GET, SCAN
  <2>2. call.type # SCAN
    BY <1>5 DEF GET, SCAN
  <2> QED
    BY <1>3, <1>5, <2>1, <2>2
<1>6. ASSUME call.type = SCAN, fits, a.data \in Seq(Text \X Text)
      PROVE  /\ LET most == IF call.limit = 0 THEN 1 ELSE call.limit
                IN  Len(Returned(response)) = IF Len(a.data) < most THEN Len(a.data) ELSE most
             /\ \A i \in DOMAIN Returned(response) :
                   /\ Returned(response)[i][1] = Cut(a.data[i][1])
                   /\ Returned(response)[i][2] = Cut(a.data[i][2])
  <2> DEFINE most == IF call.limit = 0 THEN 1 ELSE call.limit
             ps == a.data
             cut == CutPairs(ps)
             k == IF Len(ps) < most THEN Len(ps) ELSE most
  <2>1. a.type = SUCCESS
    BY <1>6 DEF Refused
  <2>2. ps \in Seq(Text \X Text) /\ Len(ps) \in Nat
    BY <1>2, <1>6, <2>1
  <2>3. Returned(response) = Parse(response.value, call.limit)
    BY <1>6 DEF Returned, PUT, DELETE, PING, GET, SCAN
  <2>4. PairsFrom(response.value)[1] = cut
    BY <1>3, <1>6, <2>1, <2>2, ScanIsRead
  <2>5. /\ cut \in Seq({cut[j] : j \in 1 .. Len(ps)}) /\ Len(cut) = Len(ps)
        /\ \A j \in 1 .. Len(ps) : cut[j][1] = Cut(ps[j][1]) /\ cut[j][2] = Cut(ps[j][2])
    <3> HIDE DEF ps
    <3>1. cut \in Seq({cut[j] : j \in 1 .. Len(ps)}) /\ Len(cut) = Len(ps)
      BY <2>2 DEF CutPairs
    <3>2. \A j \in 1 .. Len(ps) : cut[j] = <<Cut(ps[j][1]), Cut(ps[j][2])>>
      BY Zenon DEF CutPairs
    <3>3. ASSUME NEW j \in 1 .. Len(ps) PROVE cut[j][1] = Cut(ps[j][1]) /\ cut[j][2] = Cut(ps[j][2])
      <4>1. cut[j] = <<Cut(ps[j][1]), Cut(ps[j][2])>>
        BY <3>2
      <4> HIDE DEF cut
      <4> QED
        BY <4>1
    <3> QED
      BY <3>1, <3>3
  <2>6. Returned(response) = SubSeq(cut, 1, k)
    <3>1. Len(cut) = Len(ps)
      BY <2>5
    <3> HIDE DEF cut, ps
    <3> QED
      BY <2>3, <2>4, <3>1, Zenon DEF Parse
  <2>7. most \in Nat /\ k \in Nat /\ k <= Len(ps)
    BY <1>1, <2>2
  <2> HIDE DEF most, ps, cut, k
  <2> DEFINE r == SubSeq(cut, 1, k)
  <2>8. Len(r) = k /\ DOMAIN r = 1 .. k /\ \A j \in 1 .. k : r[j] = cut[j] /\ j \in 1 .. Len(ps)
    BY <2>2, <2>5, <2>7
  <2> HIDE DEF r
  <2>9. ASSUME NEW j \in DOMAIN r PROVE r[j][1] = Cut(ps[j][1]) /\ r[j][2] = Cut(ps[j][2])
    BY <2>5, <2>8
  <2> QED
    BY <2>6, <2>8, <2>9 DEF most, ps, k, r
<1> QED
  BY <1>4, <1>5, <1>6

-----------------------------------------------------------------------------
(* The invariant.                                                          *)

\* What the server sent for the call, of which n bytes have come through.
Replied(a, sent, n) ==
    /\ down = SubSeq(sent, 1, n)
    /\ link = "open" => n = Len(sent)
    /\ Len(sent) <= WordSize + MAX_MESSAGE_SIZE
    /\ served = [type |-> a.type, data |-> a.data, id |-> call.id, fits |-> Len(sent) <= TransferSize]

\* Between calls the streams are empty.  During a call its request is on the
\* way, or some of the answer to it, or neither when the connection is gone.
StreamsInv ==
    /\ call = NoCall => up = << >> /\ down = << >>
    /\ call # NoCall =>
          \/ link = "open" /\ up = Framed(call) /\ down = << >>
          \/ link = "shut" /\ up = << >> /\ down = << >>
          \/ /\ up = << >>
             /\ \E a \in Answers(call) : \E sent \in Sent(Framed(Response(call, a))) :
                   \E n \in 0 .. Len(sent) : Replied(a, sent, n)

CallInv == call # NoCall => IsCall(call) /\ result = NoResult

\* As long as the connection has carried no response above the limit.
SessionInv ==
    /\ request_id \in Nat
    /\ link \in {"none", "open", "shut"}
    /\ ~oversized => CallInv /\ StreamsInv /\ AnswersMatch

\* connect begins with empty streams, whatever was in the old ones, or leaves
\* those as they are.
LEMMA ConnectStep ==
    ASSUME SessionInv, Connect \/ ConnectFails
    PROVE  SessionInv'
<1>1. /\ call = NoCall /\ call' = NoCall /\ result' = NoResult /\ request_id' = request_id
      /\ \/ up' = << >> /\ down' = << >> /\ link' \in {"open", "shut"}
         \/ UNCHANGED <<up, down, link, served, oversized>>
  BY DEF Connect, ConnectFails
<1>2. ~oversized' => CallInv' /\ StreamsInv'
  <2>1. CASE up' = << >> /\ down' = << >> /\ link' \in {"open", "shut"}
    BY <1>1, <2>1 DEF CallInv, StreamsInv
  <2>2. CASE UNCHANGED <<up, down, link, served, oversized>>
    BY <1>1, <2>2 DEF SessionInv, CallInv, StreamsInv
  <2> QED
    BY <1>1, <2>1, <2>2
<1>3. AnswersMatch'
  BY <1>1 DEF AnswersMatch, NoResult
<1> QED
  BY <1>1, <1>2, <1>3 DEF SessionInv

LEMMA DisconnectStep ==
    ASSUME SessionInv, disconnect
    PROVE  SessionInv'
<1>1. /\ call = NoCall /\ link' = "none"
      /\ UNCHANGED <<up, down, request_id, call, result, served, oversized>>
  BY DEF disconnect
<1>2. ASSUME ~oversized PROVE CallInv' /\ StreamsInv' /\ AnswersMatch'
  BY <1>1, <1>2 DEF SessionInv, CallInv, StreamsInv, AnswersMatch
<1> QED
  BY <1>1, <1>2 DEF SessionInv

\* A request goes into an empty stream, or nowhere.
LEMMA SendStep ==
    ASSUME SessionInv, NEW op \in Operations, Send(op)
    PROVE  SessionInv'
<1>1. /\ call = NoCall /\ request_id' = request_id + 1
      /\ UNCHANGED <<connected, link, down, served, oversized>>
  BY DEF Send
<1>2. request_id' \in Nat /\ link' \in {"none", "open", "shut"}
  BY <1>1 DEF SessionInv
<1>3. ASSUME ~oversized PROVE CallInv' /\ StreamsInv' /\ AnswersMatch'
  <2>1. up = << >> /\ down = << >> /\ link \in {"none", "open", "shut"} /\ request_id \in Nat
    BY <1>1, <1>3 DEF SessionInv, StreamsInv
  <2>2. CASE is_connected /\ call' = Request(op)
             /\ up' = (IF link = "open" THEN up \o Framed(Request(op)) ELSE up) /\ result' = NoResult
    <3> DEFINE r == Request(op)
    <3>1. /\ op.type \in Kinds /\ op.key \in Seq(Nat) /\ op.value \in Seq(Nat) /\ op.limit \in Nat
      BY DataAssumption DEF Kinds
    <3>2. /\ r.type = op.type /\ r.id = request_id + 1 /\ r.key = op.key /\ r.value = op.value
          /\ r.limit = op.limit
      BY DEF Request
    <3>3. op.type \in Nat
      BY <3>1 DEF Kinds, GET, PUT, DELETE, SCAN, PING
    <3> HIDE DEF r
    <3>4. IsCall(r)
      BY <2>1, <3>1, <3>2, <3>3 DEF IsCall, IsMessage
    <3>5. r # NoCall
      BY <3>1, <3>2 DEF NoCall, Kinds, GET, PUT, DELETE, SCAN, PING
    <3>6. Framed(r) \in Seq(Nat)
      BY <3>4, FrameHolds DEF IsCall
    <3>7. up \o Framed(r) = Framed(r)
      BY <2>1, <3>6, ConcatEmptySeq
    <3>8. call' = r /\ result' = NoResult /\ down' = << >> /\ link' = link /\ link # "none"
      BY <1>1, <2>1, <2>2 DEF r, is_connected
    <3>9. up' = IF link = "open" THEN Framed(r) ELSE << >>
      BY <2>1, <2>2, <3>7 DEF r
    <3>10. CallInv'
      BY <3>4, <3>8 DEF CallInv
    <3>11. StreamsInv'
      <4>1. CASE link = "open"
        BY <3>5, <3>8, <3>9, <4>1, Zenon DEF StreamsInv
      <4>2. CASE link = "shut"
        <5>1. up' = << >>
          BY <3>9, <4>2
        <5> QED
          BY <3>5, <3>8, <4>2, <5>1, Zenon DEF StreamsInv
      <4> QED
        BY <2>1, <3>8, <4>1, <4>2
    <3>12. AnswersMatch'
      BY <3>8 DEF AnswersMatch, NoResult
    <3> QED
      BY <3>10, <3>11, <3>12
  <2>3. CASE Throw /\ UNCHANGED <<call, up>>
    <3>1. call' = NoCall /\ up' = << >> /\ down' = << >>
      BY <1>1, <2>1, <2>3
    <3>2. CallInv' /\ StreamsInv'
      BY <3>1 DEF CallInv, StreamsInv
    <3>3. AnswersMatch'
      BY <2>3 DEF AnswersMatch, Throw
    <3> QED
      BY <3>2, <3>3
  <2> QED
    BY <2>2, <2>3 DEF Send
<1> QED
  BY <1>1, <1>2, <1>3 DEF SessionInv

\* The connection goes, and with it the request and any part of the response.
LEMMA BreakStep ==
    ASSUME SessionInv, Break
    PROVE  SessionInv'
<1>1. /\ link = "open" /\ link' = "shut" /\ up' = << >>
      /\ UNCHANGED <<connected, request_id, call, result, served, oversized>>
  BY DEF Break
<1>2. PICK k \in 0 .. Len(down) : down' = SubSeq(down, 1, k)
  BY DEF Break
<1>3. ASSUME ~oversized PROVE CallInv' /\ StreamsInv' /\ AnswersMatch'
  <2>1. CallInv /\ StreamsInv /\ AnswersMatch
    BY <1>3 DEF SessionInv
  <2>2. CallInv' /\ AnswersMatch'
    BY <1>1, <2>1 DEF CallInv, AnswersMatch
  <2>3. ASSUME down = << >> PROVE down' = << >>
    <3>1. k = 0
      BY <1>2, <2>3
    <3> QED
      BY <1>2, <2>3, <3>1
  <2>4. CASE call = NoCall
    <3>1. down' = << >>
      BY <2>1, <2>3, <2>4 DEF StreamsInv
    <3> QED
      BY <1>1, <2>2, <2>4, <3>1 DEF StreamsInv
  <2>5. CASE call # NoCall /\ down = << >>
    <3>1. down' = << >>
      BY <2>3, <2>5
    <3> QED
      BY <1>1, <2>2, <2>5, <3>1 DEF StreamsInv
  <2>6. CASE call # NoCall /\ down # << >>
    <3>0. PICK a \in Answers(call) : \E sent \in Sent(Framed(Response(call, a))) :
             \E n \in 0 .. Len(sent) : Replied(a, sent, n)
      BY <2>1, <2>6, Zenon DEF StreamsInv
    <3>1. PICK sent \in Sent(Framed(Response(call, a))) : \E n \in 0 .. Len(sent) : Replied(a, sent, n)
      BY <3>0, Zenon
    <3>2. PICK n \in 0 .. Len(sent) : Replied(a, sent, n)
      BY <3>1, Zenon
    <3>3. sent \in Seq(Nat)
      <4>1. call.type \in Kinds /\ call.id \in Nat
        BY <2>1, <2>6 DEF CallInv, IsCall, IsMessage
      <4>2. IsMessage(Response(call, a))
        BY <4>1, ResponseIsMessage
      <4> QED
        BY <4>2, ResponseIsRead
    <3>4. n = Len(sent) /\ down = SubSeq(sent, 1, n)
      BY <1>1, <3>2 DEF Replied
    <3>5. down = sent
      BY <3>3, <3>4, SubSeqFull
    <3>6. k \in 0 .. Len(sent) /\ down' = SubSeq(sent, 1, k)
      BY <1>2, <3>5
    <3>7. Replied(a, sent, k)'
      BY <1>1, <3>2, <3>6 DEF Replied
    <3>8. StreamsInv'
      BY <1>1, <2>6, <3>6, <3>7 DEF StreamsInv
    <3> QED
      BY <2>2, <3>8
  <2> QED
    BY <2>4, <2>5, <2>6
<1> QED
  BY <1>1, <1>3 DEF SessionInv

LEMMA RejectStep ==
    ASSUME SessionInv, Reject
    PROVE  SessionInv'
<1>1. /\ link' = "shut" /\ up' = << >> /\ Len(up) >= WordSize
      /\ UNCHANGED <<connected, down, request_id, call, result, served, oversized>>
  BY DEF Reject
<1>2. ASSUME ~oversized PROVE CallInv' /\ StreamsInv' /\ AnswersMatch'
  <2>1. CallInv /\ StreamsInv /\ AnswersMatch
    BY <1>2 DEF SessionInv
  <2>2. up # << >>
    BY <1>1 DEF WordSize
  <2>3. call # NoCall /\ down = << >>
    BY <2>1, <2>2 DEF StreamsInv
  <2>4. StreamsInv'
    BY <1>1, <2>3 DEF StreamsInv
  <2> QED
    BY <1>1, <2>1, <2>4 DEF CallInv, AnswersMatch
<1> QED
  BY <1>1, <1>2 DEF SessionInv

\* The part of an answer that is lost with the connection is not left behind.
LEMMA ReceiveFailsStep ==
    ASSUME SessionInv, ReceiveFails
    PROVE  SessionInv'
<1>1. /\ call # NoCall /\ link = "shut" /\ Throw /\ down' = << >> /\ call' = NoCall
      /\ UNCHANGED <<connected, link, up, request_id, served, oversized>>
  BY DEF ReceiveFails
<1>2. ASSUME ~oversized PROVE CallInv' /\ StreamsInv' /\ AnswersMatch'
  <2>1. up' = << >>
    BY <1>1, <1>2 DEF SessionInv, StreamsInv
  <2>2. CallInv' /\ StreamsInv'
    BY <1>1, <2>1 DEF CallInv, StreamsInv
  <2>3. AnswersMatch'
    BY <1>1 DEF AnswersMatch, Throw
  <2> QED
    BY <2>2, <2>3
<1> QED
  BY <1>1, <1>2 DEF SessionInv

\* The server takes the request of the call out of its stream as the client
\* put it in, and its answer is the only one on the way.
LEMMA AnswerStep ==
    ASSUME SessionInv, Answer
    PROVE  SessionInv'
<1>1. /\ link = "open" /\ Len(up) >= 2
      /\ up' = SubSeq(up, 2 + Len(Message) + 1, Len(up))
      /\ UNCHANGED <<connected, link, request_id, call, result>>
  BY DEF Answer, WordSize
<1> DEFINE request == deserialize(Message)
           Frame(a) == Framed(Response(request, a))
<1>2. PICK a \in Answers(request) :
         /\ \E sent \in Sent(Frame(a)) : down' = down \o sent
         /\ served' = [type |-> a.type, data |-> a.data, id |-> request.id,
                       fits |-> Len(Frame(a)) <= TransferSize]
         /\ oversized' = (oversized \/ Len(Frame(a)) > WordSize + MAX_MESSAGE_SIZE)
  BY Zenon DEF Answer
<1>3. PICK sent \in Sent(Frame(a)) : down' = down \o sent
  BY <1>2, Zenon
<1> HIDE DEF request
<1>4. ASSUME ~oversized' PROVE CallInv' /\ StreamsInv' /\ AnswersMatch'
  <2>1. ~oversized /\ ~(Len(Frame(a)) > WordSize + MAX_MESSAGE_SIZE)
    BY <1>2, <1>4, Zenon
  <2>2. CallInv /\ StreamsInv /\ AnswersMatch
    BY <2>1 DEF SessionInv
  <2>3. up # << >>
    BY <1>1
  <2>4. call # NoCall /\ up = Framed(call) /\ down = << >>
    BY <2>2, <2>3, Zenon DEF StreamsInv
  <2>5. IsCall(call) /\ IsMessage(call) /\ call.type \in Kinds /\ call.id \in Nat /\ result = NoResult
    BY <2>2, <2>4 DEF CallInv, IsCall, IsMessage
  <2>6. /\ Message = serialize(call) /\ Len(Message) \in Nat
        /\ up \in Seq(Nat) /\ Len(up) = 2 + Len(Message)
    <3>1. Message = Bytes(up, 2, WordAt(up, 0))
      BY DEF Message, WordSize
    <3>2. /\ Framed(call) \in Seq(Nat) /\ Len(Framed(call)) = 2 + Len(serialize(call))
          /\ WordAt(Framed(call), 0) = Len(serialize(call))
          /\ Bytes(Framed(call), 2, Len(serialize(call))) = serialize(call)
      BY <2>5, FrameHolds
    <3>3. Len(serialize(call)) \in Nat
      BY <2>5, SerializedFields
    <3> QED
      BY <2>4, <3>1, <3>2, <3>3, Zenon
  <2>7. request.type = call.type /\ request.id = call.id
    <3>1. request = [type |-> call.type, id |-> call.id, key |-> call.key, value |-> call.value]
      BY <2>5, <2>6, MessageRoundTrip, Zenon DEF request
    <3> QED
      BY <3>1
  <2>8. Answers(request) = Answers(call) /\ Response(request, a) = Response(call, a)
    BY <2>7, Zenon DEF Answers, Response
  <2>9. up' = << >>
    <3> DEFINE k == Len(up)
    <3>1. k \in Nat /\ 2 + Len(Message) + 1 = k + 1
      BY <2>6
    <3>2. up' = SubSeq(up, k + 1, k)
      BY <1>1, <3>1, Zenon
    <3> HIDE DEF k
    <3> QED
      BY <2>6, <3>1, <3>2
  <2>10. a \in Answers(call) /\ sent \in Sent(Framed(Response(call, a)))
    BY <2>8, Zenon
  <2>11. IsMessage(Response(call, a))
    BY <2>5, <2>10, ResponseIsMessage
  <2>12. sent \in Seq(Nat) /\ Len(sent) \in Nat /\ Len(sent) = Len(Frame(a))
    <3>1. Framed(Response(call, a)) \in Seq(Nat)
      BY <2>11, FrameHolds
    <3>2. sent \in Seq(Nat) /\ Len(sent) = Len(Framed(Response(call, a)))
      BY <2>10, <3>1, SentIs
    <3>3. Len(sent) \in Nat
      BY <3>2
    <3> QED
      BY <2>8, <3>2, <3>3, Zenon
  <2>13. down' = sent
    BY <1>3, <2>4, <2>12, ConcatEmptySeq
  <2> HIDE DEF Frame
  <2> DEFINE n == Len(sent)
  <2>14. n \in 0 .. Len(sent) /\ SubSeq(sent, 1, n) = sent
    BY <2>12, SubSeqFull
  <2>15. Replied(a, sent, n)'
    <3>1. down' = SubSeq(sent, 1, n)
      BY <2>13, <2>14, Zenon
    <3>2. Len(sent) <= WordSize + MAX_MESSAGE_SIZE
      <4>1. WordSize + MAX_MESSAGE_SIZE \in Nat
        BY LimitsAssumption DEF WordSize
      <4> QED
        BY <2>1, <2>12, <4>1
    <3>3. served' = [type |-> a.type, data |-> a.data, id |-> call.id, fits |-> Len(sent) <= TransferSize]
      BY <1>2, <2>7, <2>12, Zenon
    <3> QED
      BY <1>1, <3>1, <3>2, <3>3, Zenon DEF Replied
  <2>16. StreamsInv'
    BY <1>1, <2>4, <2>9, <2>10, <2>14, <2>15, Zenon DEF StreamsInv
  <2>17. CallInv'
    BY <1>1, <2>4, <2>5, Zenon DEF CallInv
  <2>18. AnswersMatch'
    BY <1>1, <2>5 DEF AnswersMatch, NoResult
  <2> QED
    BY <2>16, <2>17, <2>18
<1> QED
  BY <1>1, <1>4 DEF SessionInv

\* The call takes its whole response out of the stream, and nothing else.
LEMMA ReceiveStep ==
    ASSUME SessionInv, receive_message
    PROVE  SessionInv'
<1>1. /\ call # NoCall /\ Len(down) >= 2 /\ call' = NoCall
      /\ UNCHANGED <<connected, link, up, request_id, served, oversized>>
  BY DEF receive_message, WordSize
<1>2. ASSUME ~oversized PROVE CallInv' /\ StreamsInv' /\ AnswersMatch'
  <2>1. CallInv /\ StreamsInv
    BY <1>2 DEF SessionInv
  <2>2. IsCall(call) /\ call.type \in Kinds /\ call.id \in Nat
    BY <1>1, <2>1 DEF CallInv, IsCall, IsMessage
  <2>3. down # << >>
    BY <1>1
  <2>4. up = << >> /\ \E a \in Answers(call) : \E sent \in Sent(Framed(Response(call, a))) :
                         \E n \in 0 .. Len(sent) : Replied(a, sent, n)
    BY <1>1, <2>1, <2>3, Zenon DEF StreamsInv
  <2>5. PICK a \in Answers(call) : \E sent \in Sent(Framed(Response(call, a))) :
                                     \E n \in 0 .. Len(sent) : Replied(a, sent, n)
    BY <2>4, Zenon
  <2>6. PICK sent \in Sent(Framed(Response(call, a))) : \E n \in 0 .. Len(sent) : Replied(a, sent, n)
    BY <2>5, Zenon
  <2>7. PICK n \in 0 .. Len(sent) : Replied(a, sent, n)
    BY <2>6, Zenon
  <2> DEFINE m == Response(call, a)
             size == Len(serialize(m))
  <2>8. IsMessage(m) /\ m.type = a.type
    BY <2>2, ResponseIsMessage
  <2>9. /\ sent \in Seq(Nat) /\ Len(sent) = 2 + size /\ size \in Nat /\ size >= 7
        /\ WordAt(sent, 0) = size
        /\ deserialize(Bytes(sent, 2, size)).type = m.type
        /\ Len(sent) <= TransferSize => deserialize(Bytes(sent, 2, size)).value = m.value
    BY <2>8, ResponseIsRead
  <2> HIDE DEF m, size
  <2>10. down = SubSeq(sent, 1, n) /\ n \in 0 .. Len(sent) /\ Len(sent) <= 2 + MAX_MESSAGE_SIZE
    BY <2>7 DEF Replied, WordSize
  <2>11. n \in Nat /\ Len(down) = n /\ n >= 2 /\ \A i \in 1 .. n : down[i] = sent[i]
    BY <1>1, <2>9, <2>10
  <2>12. WordAt(down, 0) = size
    <3>1. down[1] = sent[1] /\ down[2] = sent[2]
      BY <2>11
    <3> QED
      BY <2>9, <3>1 DEF WordAt
  <2>13. size <= MAX_MESSAGE_SIZE /\ ~(size > MAX_MESSAGE_SIZE)
    <3>1. MAX_MESSAGE_SIZE \in Nat
      BY LimitsAssumption
    <3>2. size \in Nat /\ 2 + size <= 2 + MAX_MESSAGE_SIZE
      BY <2>9, <2>10
    <3> QED
      BY <3>1, <3>2
  <2> DEFINE body == Bytes(down, 2, size)
  <2>14. /\ Len(down) >= 2 + size
         /\ IF Valid(body) THEN Return(deserialize(body)) ELSE Throw
         /\ down' = SubSeq(down, 2 + size + 1, Len(down))
    BY <2>12, <2>13, Zenon DEF receive_message, WordSize
  <2>15. n = Len(sent) /\ down = sent
    <3>1. n = Len(sent)
      <4>1. Len(sent) = 2 + size /\ size \in Nat /\ n \in 0 .. Len(sent) /\ n >= 2 + size
        BY <2>9, <2>10, <2>11, <2>14
      <4> QED
        BY <4>1
    <3> QED
      BY <2>9, <2>10, <3>1, SubSeqFull
  <2>16. down' = << >>
    <3> DEFINE k == Len(sent)
    <3>1. k \in Nat /\ 2 + size + 1 = k + 1
      BY <2>9
    <3>2. down' = SubSeq(sent, k + 1, k)
      BY <2>14, <2>15, <3>1, Zenon
    <3> HIDE DEF k
    <3> QED
      BY <2>9, <3>1, <3>2
  <2>17. CallInv' /\ StreamsInv'
    BY <1>1, <2>4, <2>16 DEF CallInv, StreamsInv
  <2>18. CASE Throw
    <3>1. AnswersMatch'
      BY <2>18 DEF AnswersMatch, Throw
    <3> QED
      BY <2>17, <3>1
  <2>19. CASE ~Throw
    <3> DEFINE response == deserialize(body)
               fits == Len(sent) <= TransferSize
    <3>1. ~Refused(response) /\ result' = [kind |-> "returned", type |-> call.type, id |-> call.id,
                                           limit |-> call.limit, answer |-> Returned(response)]
      BY <2>14, <2>19, Zenon DEF Return
    <3>2. /\ response.type = a.type
          /\ fits => response.value = Response(call, a).value
      BY <2>8, <2>9, <2>15, Zenon DEF m
    <3>3. fits \in BOOLEAN
      BY <2>9, LimitsAssumption
    <3>4. served' = [type |-> a.type, data |-> a.data, id |-> call.id, fits |-> fits]
      BY <1>1, <2>7, Zenon DEF Replied
    <3> HIDE DEF response, fits, body
    <3> DEFINE answer == Returned(response)
    <3>5. /\ call.type \in {PUT, DELETE, PING} => (answer <=> a.type # ERROR)
          /\ call.type = GET /\ fits => answer = a.data
          /\ call.type = SCAN /\ fits /\ a.data \in Seq(Text \X Text) =>
                /\ LET most == IF call.limit = 0 THEN 1 ELSE call.limit
                   IN  Len(answer) = IF Len(a.data) < most THEN Len(a.data) ELSE most
                /\ \A i \in DOMAIN answer :
                      /\ answer[i][1] = Cut(a.data[i][1])
                      /\ answer[i][2] = Cut(a.data[i][2])
      BY <2>2, <3>1, <3>2, <3>3, AnswerIsRight, Zenon
    <3> HIDE DEF answer
    <3>6. /\ result'.type = call.type /\ result'.id = call.id /\ result'.limit = call.limit
          /\ result'.answer = answer
      BY <3>1 DEF answer
    <3>7. /\ served'.type = a.type /\ served'.data = a.data /\ served'.id = call.id
          /\ served'.fits = fits
      BY <3>4
    <3>8. AnswersMatch'
      BY <3>5, <3>6, <3>7, Zenon DEF AnswersMatch
    <3> QED
      BY <2>17, <3>8
  <2> QED
    BY <2>18, <2>19
<1> QED
  BY <1>1, <1>2 DEF SessionInv

-----------------------------------------------------------------------------
\* A call that returns has the database's answer to its own request (get, put,
\* del, scan and ping of client.cpp compare no id): however calls, errors, lost
\* connections and new ones follow each other, no response is taken for
\* another's, as long as none above MAX_MESSAGE_SIZE was sent.
THEOREM AnswersAreTheCalls == Spec => []AnswersMatch
<1>1. Init => SessionInv
  <2> SUFFICES ASSUME Init PROVE SessionInv
    OBVIOUS
  <2>1. CallInv /\ StreamsInv
    BY DEF Init, CallInv, StreamsInv
  <2>2. AnswersMatch
    BY DEF Init, AnswersMatch, NoResult
  <2> QED
    BY <2>1, <2>2 DEF Init, SessionInv
<1>2. SessionInv /\ [Next]_vars => SessionInv'
  <2> SUFFICES ASSUME SessionInv, [Next]_vars PROVE SessionInv'
    OBVIOUS
  <2>1. CASE Connect \/ ConnectFails
    BY <2>1, ConnectStep
  <2>2. CASE disconnect
    BY <2>2, DisconnectStep
  <2>3. ASSUME NEW op \in Operations, Send(op) PROVE SessionInv'
    BY <2>3, SendStep
  <2>4. CASE receive_message
    BY <2>4, ReceiveStep
  <2>5. CASE ReceiveFails
    BY <2>5, ReceiveFailsStep
  <2>6. CASE Answer
    BY <2>6, AnswerStep
  <2>7. CASE Reject
    BY <2>7, RejectStep
  <2>8. CASE Break
    BY <2>8, BreakStep
  <2>9. CASE UNCHANGED vars
    BY <2>9 DEF vars, SessionInv, CallInv, StreamsInv, Replied, AnswersMatch
  <2> QED
    BY <2>1, <2>2, <2>3, <2>4, <2>5, <2>6, <2>7, <2>8, <2>9, Zenon DEF Next, Progress
<1>3. SessionInv => AnswersMatch
  BY DEF SessionInv, AnswersMatch
<1> QED
  BY <1>1, <1>2, <1>3, PTL DEF Spec
=============================================================================
