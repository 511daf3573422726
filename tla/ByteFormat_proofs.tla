-------------------------- MODULE ByteFormat_proofs --------------------------
(***************************************************************************)
(* Facts about bytes and loops over them that the proofs about the log and *)
(* about the protocol share.                                               *)
(*                                                                         *)
(* A loop is a recursive function, whose value is known only once some     *)
(* function is shown to satisfy its equation (LoopExists).                 *)
(***************************************************************************)
EXTENDS ByteFormat, SequenceTheorems, WellFoundedInduction, TLAPS

\* Every non-empty set of numbers has a least element: the form in which
\* induction is used here.
LEMMA LeastNumber ==
    ASSUME NEW S, S \subseteq Nat, S # {}
    PROVE  \E n \in S : \A m \in S : n <= m
<1> DEFINE less == {p \in Nat \X Nat : p[1] < p[2]}
<1>1. IsWellFoundedOn(less, Nat)
  <2>1. OpToRel(<, Nat) = less
    BY Zenon DEF OpToRel
  <2> QED
    BY <2>1, NatLessThanWellFounded, Zenon
<1>2. ASSUME NEW n \in Nat, NEW m \in Nat, m < n PROVE <<m, n>> \in less
  BY <1>2
<1> HIDE DEF less
<1>3. PICK n \in S : \A m \in S : <<m, n>> \notin less
  BY <1>1, WFMin
<1>4. \A m \in S : ~(m < n)
  BY <1>2, <1>3
<1> QED
  BY <1>4

\* Induction from a number downwards, for a set of numbers.
LEMMA Downwards ==
    ASSUME NEW n \in Nat, NEW G, n + 1 \in G, \A i \in 1 .. n : i + 1 \in G => i \in G
    PROVE  \A i \in 1 .. n + 1 : i \in G
<1> DEFINE S == {d \in Nat : \E i \in 1 .. n + 1 : i + d = n + 1 /\ i \notin G}
<1>1. S = {}
  <2> SUFFICES ASSUME S # {} PROVE FALSE
    OBVIOUS
  <2>1. PICK d \in S : \A e \in S : d <= e
    BY LeastNumber
  <2>2. PICK i \in 1 .. n + 1 : i + d = n + 1 /\ i \notin G
    BY <2>1
  <2>3. d \in Nat /\ i \in Nat /\ i # n + 1
    BY <2>1, <2>2
  <2>4. i \in 1 .. n /\ i + 1 \in 1 .. n + 1 /\ d - 1 \in Nat /\ (i + 1) + (d - 1) = n + 1 /\ ~(d <= d - 1)
    BY <2>2, <2>3
  <2>5. i + 1 \notin G
    BY <2>2, <2>4
  <2>6. d - 1 \in S
    BY <2>4, <2>5
  <2> QED
    BY <2>1, <2>4, <2>6
<1>2. ASSUME NEW i \in 1 .. n + 1, i \notin G PROVE FALSE
  <2>1. n + 1 - i \in Nat /\ i + (n + 1 - i) = n + 1
    OBVIOUS
  <2>2. n + 1 - i \in S
    BY <1>2, <2>1
  <2> QED
    BY <1>1, <2>2
<1> QED
  BY <1>2

\* What a loop over offsets computes, given what it returns further on.
Loop(stop, last, item, next, f) ==
    [p \in Nat |-> IF stop[p] THEN last ELSE item[p] \o f[next[p]]]

Computable(stop, last, item, next) == \E f : f = Loop(stop, last, item, next, f)

\* A loop that moves forward and stops at some bound computes something: a
\* function of the offset that satisfies the loop's equation.  It is built
\* from the bound downwards.
LEMMA LoopExists ==
    ASSUME NEW bound \in Nat, NEW stop \in [Nat -> BOOLEAN], NEW last, NEW item,
           NEW next \in [Nat -> Nat],
           \A p \in Nat : ~stop[p] => p < bound /\ p < next[p]
    PROVE  Computable(stop, last, item, next)
<1> DEFINE Step(f, p) == IF stop[p] THEN last ELSE item[p] \o f[next[p]]
           Solves(f, k) == f = [p \in Nat |-> f[p]] /\ \A p \in Nat : p >= k => f[p] = Step(f, p)
           S == {k \in Nat : \E f : Solves(f, k)}
<1>1. bound \in S
  <2> DEFINE f == [p \in Nat |-> last]
  <2>1. f = [p \in Nat |-> f[p]]
    OBVIOUS
  <2>2. \A p \in Nat : p >= bound => f[p] = Step(f, p)
    <3>1. \A p \in Nat : p >= bound => stop[p]
      OBVIOUS
    <3> QED
      BY <3>1
  <2> QED
    BY <2>1, <2>2
<1>2. PICK k \in S : \A m \in S : k <= m
  BY <1>1, LeastNumber
<1>3. k \in Nat
  BY <1>2
<1>4. PICK f : Solves(f, k)
  BY <1>2
<1>5. k = 0
  <2> SUFFICES ASSUME k # 0 PROVE FALSE
    OBVIOUS
  <2> HIDE DEF S
  <2> DEFINE g == [p \in Nat |-> IF p = k - 1 THEN Step(f, p) ELSE f[p]]
  <2>1. k - 1 \in Nat
    BY <1>3
  <2>2. ASSUME NEW p \in Nat, p >= k - 1 PROVE g[p] = Step(g, p)
    <3>1. ASSUME ~stop[p] PROVE g[next[p]] = f[next[p]]
      <4>1. next[p] \in Nat /\ next[p] # k - 1
        BY <1>3, <2>2, <3>1
      <4> QED
        BY <4>1
    <3>2. Step(g, p) = Step(f, p)
      BY <3>1
    <3>3. CASE p = k - 1
      BY <3>2, <3>3
    <3>4. CASE p # k - 1
      <4>1. p >= k
        BY <1>3, <3>4, <2>2
      <4>2. f[p] = Step(f, p)
        BY <4>1, <1>4
      <4>3. g[p] = f[p]
        BY <3>4
      <4> QED
        BY <3>2, <4>2, <4>3
    <3> QED
      BY <3>3, <3>4
  <2>3. g = [p \in Nat |-> g[p]]
    OBVIOUS
  <2> HIDE DEF g, Step
  <2>4. k - 1 \in S
    BY <2>1, <2>2, <2>3 DEF S
  <2> QED
    BY <1>2, <1>3, <2>1, <2>4
<1>6. f = [p \in Nat |-> Step(f, p)]
  <2>1. \A p \in Nat : f[p] = Step(f, p)
    <3>1. \A p \in Nat : p >= k => f[p] = Step(f, p)
      BY <1>4
    <3> HIDE DEF Step
    <3> QED
      BY <3>1, <1>5
  <2>2. f = [p \in Nat |-> f[p]]
    BY <1>4
  <2> HIDE DEF Step
  <2>3. [p \in Nat |-> f[p]] = [p \in Nat |-> Step(f, p)]
    BY <2>1
  <2> QED
    BY <2>2, <2>3
<1> QED
  BY <1>6 DEF Loop, Computable

-----------------------------------------------------------------------------
(* Layout.                                                                 *)

\* The bytes s hold the bytes t at an offset.
Holds(s, offset, t) ==
    /\ offset + Len(t) <= Len(s)
    /\ \A i \in 1 .. Len(t) : s[offset + i] = t[i]

\* A concatenation holds its two parts, and what the first one holds.
LEMMA ConcatHolds ==
    ASSUME NEW S, NEW s \in Seq(S), NEW t \in Seq(S)
    PROVE  /\ s \o t \in Seq(S)
           /\ Len(s \o t) = Len(s) + Len(t)
           /\ Holds(s \o t, 0, s)
           /\ Holds(s \o t, Len(s), t)
           /\ \A u \in Seq(S), p \in Nat : Holds(s, p, u) => Holds(s \o t, p, u)
<1> DEFINE st == s \o t
<1>1. /\ st \in Seq(S) /\ Len(st) = Len(s) + Len(t)
      /\ \A i \in 1 .. Len(s) + Len(t) : st[i] = IF i <= Len(s) THEN s[i] ELSE t[i - Len(s)]
  BY ConcatProperties
<1>2. Len(s) \in Nat /\ Len(t) \in Nat
  OBVIOUS
<1> HIDE DEF st
<1>3. Holds(st, 0, s)
  BY <1>1, <1>2 DEF Holds
<1>4. Holds(st, Len(s), t)
  <2>1. ASSUME NEW i \in 1 .. Len(t) PROVE st[Len(s) + i] = t[i]
    <3>1. Len(s) + i \in 1 .. Len(s) + Len(t) /\ ~(Len(s) + i <= Len(s)) /\ Len(s) + i - Len(s) = i
      BY <1>2
    <3> QED
      BY <1>1, <3>1
  <2>2. Len(s) + Len(t) <= Len(st)
    BY <1>1, <1>2
  <2> QED
    BY <2>1, <2>2 DEF Holds
<1>5. ASSUME NEW u \in Seq(S), NEW p \in Nat, Holds(s, p, u) PROVE Holds(st, p, u)
  <2>1. Len(u) \in Nat /\ p + Len(u) <= Len(s) /\ \A i \in 1 .. Len(u) : s[p + i] = u[i]
    BY <1>5 DEF Holds
  <2>2. ASSUME NEW i \in 1 .. Len(u) PROVE st[p + i] = u[i]
    <3>1. p + i \in 1 .. Len(s) + Len(t) /\ p + i <= Len(s)
      BY <1>2, <2>1
    <3> QED
      BY <1>1, <2>1, <3>1
  <2> QED
    BY <1>1, <1>2, <2>1, <2>2 DEF Holds
<1> QED
  BY <1>1, <1>3, <1>4, <1>5 DEF st

\* What is held by something that is held.
LEMMA HoldsInside ==
    ASSUME NEW S, NEW s \in Seq(S), NEW t \in Seq(S), NEW u \in Seq(S), NEW p \in Nat, NEW q \in Nat,
           Holds(s, p, t), Holds(t, q, u)
    PROVE  Holds(s, p + q, u)
<1>1. Len(s) \in Nat /\ Len(t) \in Nat /\ Len(u) \in Nat
  OBVIOUS
<1>2. /\ p + Len(t) <= Len(s) /\ q + Len(u) <= Len(t)
      /\ \A i \in 1 .. Len(t) : s[p + i] = t[i]
      /\ \A i \in 1 .. Len(u) : t[q + i] = u[i]
  BY DEF Holds
<1>3. ASSUME NEW i \in 1 .. Len(u) PROVE s[p + q + i] = u[i]
  <2>1. q + i \in 1 .. Len(t) /\ p + (q + i) = p + q + i
    BY <1>1, <1>2
  <2>2. s[p + (q + i)] = t[q + i]
    BY <1>2, <2>1
  <2> QED
    BY <1>2, <2>1, <2>2
<1>4. p + q + Len(u) <= Len(s)
  BY <1>1, <1>2
<1> QED
  BY <1>3, <1>4 DEF Holds

\* What is held is what Bytes takes out.
LEMMA HeldIsRead ==
    ASSUME NEW S, NEW s \in Seq(S), NEW t \in Seq(S), NEW p \in Nat, Holds(s, p, t)
    PROVE  Bytes(s, p, Len(t)) = t
<1> DEFINE n == Len(t)
           b == SubSeq(s, p + 1, p + n)
<1>1. n \in Nat /\ p + n <= Len(s) /\ Len(s) \in Nat /\ \A i \in 1 .. n : s[p + i] = t[i] /\ t[i] \in S
  BY DEF Holds
<1>2. b = t
  <2>1. p + 1 \in Int /\ p + n \in Int
    BY <1>1
  <2>2. \A i \in p + 1 .. p + n : s[i] \in S
    BY <1>1
  <2>3. /\ b \in Seq(S) /\ Len(b) = IF p + 1 <= p + n THEN p + n - (p + 1) + 1 ELSE 0
        /\ \A i \in 1 .. p + n - (p + 1) + 1 : b[i] = s[p + 1 + i - 1]
    BY <2>1, <2>2, SubSeqProperties
  <2>4. Len(b) = n /\ \A i \in 1 .. n : b[i] = t[i]
    <3>1. p + n - (p + 1) + 1 = n /\ (p + 1 <= p + n <=> n # 0)
      BY <1>1
    <3>2. ASSUME NEW i \in 1 .. n PROVE b[i] = t[i]
      <4>1. p + 1 + i - 1 = p + i
        BY <1>1
      <4> QED
        BY <1>1, <2>3, <3>1, <4>1
    <3> QED
      BY <2>3, <3>1, <3>2
  <2> HIDE DEF b
  <2> QED
    BY <2>3, <2>4, SeqEqual
<1> QED
  BY <1>2 DEF Bytes

\* A word gives back the number it was made from.
LEMMA WordHolds ==
    ASSUME NEW n \in Nat
    PROVE  /\ n % Base \in Nat
           /\ n \div Base \in Nat
           /\ (n % Base) + Base * (n \div Base) = n
  BY ByteAssumption

\* Two bytes more.
LEMMA PairBehind ==
    ASSUME NEW S, NEW s \in Seq(S), NEW t \in Seq(S), Len(t) = 2
    PROVE  /\ s \o t \in Seq(S)
           /\ Len(s \o t) = Len(s) + 2
           /\ \A i \in 1 .. Len(s) : (s \o t)[i] = s[i]
           /\ (s \o t)[Len(s) + 1] = t[1]
           /\ (s \o t)[Len(s) + 2] = t[2]
<1> DEFINE st == s \o t
<1>1. st \in Seq(S) /\ Len(st) = Len(s) + 2 /\ Holds(st, 0, s) /\ Holds(st, Len(s), t)
  BY ConcatHolds
<1> HIDE DEF st
<1>2. \A i \in 1 .. Len(s) : st[i] = s[i]
  BY <1>1 DEF Holds
<1>3. st[Len(s) + 1] = t[1] /\ st[Len(s) + 2] = t[2]
  BY <1>1 DEF Holds
<1> QED
  BY <1>1, <1>2, <1>3 DEF st

\* A byte and three words are seven bytes.
LEMMA HeaderTuple ==
    ASSUME NEW S, NEW a \in S, NEW b \in S, NEW c \in S, NEW d \in S,
           NEW e \in S, NEW f \in S, NEW g \in S
    PROVE  <<a>> \o <<b, c>> \o <<d, e>> \o <<f, g>> = <<a, b, c, d, e, f, g>>
<1> DEFINE r == <<a>>
           bc == <<b, c>>
           de == <<d, e>>
           fg == <<f, g>>
           t == <<a, b, c, d, e, f, g>>
           u == r \o bc
           v == u \o de
           w == v \o fg
<1>1. /\ r \in Seq(S) /\ Len(r) = 1 /\ r[1] = a
      /\ bc \in Seq(S) /\ Len(bc) = 2 /\ bc[1] = b /\ bc[2] = c
      /\ de \in Seq(S) /\ Len(de) = 2 /\ de[1] = d /\ de[2] = e
      /\ fg \in Seq(S) /\ Len(fg) = 2 /\ fg[1] = f /\ fg[2] = g
  OBVIOUS
<1>2. /\ t \in Seq(S) /\ Len(t) = 7
      /\ t[1] = a /\ t[2] = b /\ t[3] = c /\ t[4] = d /\ t[5] = e /\ t[6] = f /\ t[7] = g
  OBVIOUS
<1> HIDE DEF r, bc, de, fg, t
<1>3. u \in Seq(S) /\ Len(u) = 3 /\ u[1] = a /\ u[2] = b /\ u[3] = c
  <2>1. r \in Seq(S) /\ bc \in Seq(S) /\ Len(bc) = 2
    BY <1>1
  <2>2. u \in Seq(S) /\ Len(u) = Len(r) + 2 /\ u[Len(r) + 1] = bc[1] /\ u[Len(r) + 2] = bc[2]
    BY <2>1, PairBehind, Zenon
  <2>3. \A i \in 1 .. Len(r) : u[i] = r[i]
    BY <2>1
  <2> QED
    BY <1>1, <2>2, <2>3
<1> HIDE DEF u
<1>4. v \in Seq(S) /\ Len(v) = 5 /\ v[1] = a /\ v[2] = b /\ v[3] = c /\ v[4] = d /\ v[5] = e
  <2>1. u \in Seq(S) /\ de \in Seq(S) /\ Len(de) = 2
    BY <1>1, <1>3
  <2>2. v \in Seq(S) /\ Len(v) = Len(u) + 2 /\ v[Len(u) + 1] = de[1] /\ v[Len(u) + 2] = de[2]
    BY <2>1, PairBehind, Zenon
  <2>3. \A i \in 1 .. Len(u) : v[i] = u[i]
    BY <2>1
  <2> QED
    BY <1>1, <1>3, <2>2, <2>3
<1> HIDE DEF v
<1>5. /\ w \in Seq(S) /\ Len(w) = 7
      /\ w[1] = a /\ w[2] = b /\ w[3] = c /\ w[4] = d /\ w[5] = e /\ w[6] = f /\ w[7] = g
  <2>1. v \in Seq(S) /\ fg \in Seq(S) /\ Len(fg) = 2
    BY <1>1, <1>4
  <2>2. w \in Seq(S) /\ Len(w) = Len(v) + 2 /\ w[Len(v) + 1] = fg[1] /\ w[Len(v) + 2] = fg[2]
    BY <2>1, PairBehind, Zenon
  <2>3. \A i \in 1 .. Len(v) : w[i] = v[i]
    BY <2>1
  <2> QED
    BY <1>1, <1>4, <2>2, <2>3
<1> HIDE DEF w
<1>6. w = t
  <2>1. \A i \in 1 .. Len(w) : w[i] = t[i]
    BY <1>2, <1>5
  <2> QED
    BY <1>2, <1>5, <2>1, SeqEqual
<1> QED
  BY <1>6 DEF r, bc, de, fg, t, u, v, w

\* The layout that records of the log and messages share: a byte, three words
\* (a number and the two lengths), and the two texts.
LaidOut(type, n, key, value) ==
    <<type>> \o Word(n) \o Word(Len(key)) \o Word(Len(value)) \o key \o value

\* The bytes s have them where deserialize looks for them.
Fields(s, type, n, key, value) ==
    /\ Len(s) = 7 + Len(key) + Len(value)
    /\ s[1] = type
    /\ WordAt(s, 1) = n
    /\ WordAt(s, 3) = Len(key)
    /\ WordAt(s, 5) = Len(value)
    /\ Holds(s, 7, key)
    /\ Holds(s, 7 + Len(key), value)

LEMMA LayoutHolds ==
    ASSUME NEW S, NEW type \in S, NEW n \in Nat, NEW key \in Seq(S), NEW value \in Seq(S),
           Word(n) \in Seq(S), Word(Len(key)) \in Seq(S), Word(Len(value)) \in Seq(S)
    PROVE  /\ LaidOut(type, n, key, value) \in Seq(S)
           /\ Fields(LaidOut(type, n, key, value), type, n, key, value)
<1> DEFINE klen == Len(key)
           vlen == Len(value)
           h == <<type, n % Base, n \div Base, klen % Base, klen \div Base, vlen % Base, vlen \div Base>>
           hk == h \o key
           s == hk \o value
<1>1. klen \in Nat /\ vlen \in Nat
  OBVIOUS
<1>0. /\ n % Base \in S /\ n \div Base \in S
      /\ klen % Base \in S /\ klen \div Base \in S
      /\ vlen % Base \in S /\ vlen \div Base \in S
  <2>1. ASSUME NEW m, Word(m) \in Seq(S) PROVE m % Base \in S /\ m \div Base \in S
    <3> DEFINE w == Word(m)
    <3>1. w \in Seq(S)
      BY <2>1
    <3>2. Len(w) = 2 /\ w[1] = m % Base /\ w[2] = m \div Base
      BY DEF Word
    <3> HIDE DEF w
    <3>3. w[1] \in S /\ w[2] \in S
      <4>1. 1 \in 1 .. Len(w) /\ 2 \in 1 .. Len(w)
        BY <3>2
      <4> QED
        BY <3>1, <4>1, ElementOfSeq, Zenon
    <3> QED
      BY <3>2, <3>3, Zenon
  <2> QED
    BY <2>1
<1>2. LaidOut(type, n, key, value) = s
  <2>1. <<type>> \o <<n % Base, n \div Base>> \o <<klen % Base, klen \div Base>>
            \o <<vlen % Base, vlen \div Base>> = h
    BY <1>0, HeaderTuple
  <2> HIDE DEF h
  <2> QED
    BY <2>1 DEF Word, LaidOut
<1>3. /\ h \in Seq(S) /\ Len(h) = 7 /\ h[1] = type
      /\ h[2] = n % Base /\ h[3] = n \div Base
      /\ h[4] = klen % Base /\ h[5] = klen \div Base
      /\ h[6] = vlen % Base /\ h[7] = vlen \div Base
  BY <1>0
<1> HIDE DEF h
<1>4. hk \in Seq(S) /\ Len(hk) = Len(h) + Len(key) /\ Holds(hk, 0, h) /\ Holds(hk, Len(h), key)
  BY <1>3, ConcatHolds
<1> HIDE DEF hk
<1>5. /\ s \in Seq(S) /\ Len(s) = Len(hk) + Len(value)
      /\ Holds(s, 0, h) /\ Holds(s, Len(h), key) /\ Holds(s, Len(hk), value)
  <2>1. Len(h) \in Nat /\ 0 \in Nat
    OBVIOUS
  <2> QED
    BY <1>3, <1>4, <2>1, ConcatHolds
<1> HIDE DEF s
<1>6. Len(s) = 7 + klen + vlen /\ Holds(s, 7, key) /\ Holds(s, 7 + klen, value)
  BY <1>1, <1>3, <1>4, <1>5
<1>7. s[1] = h[1] /\ s[2] = h[2] /\ s[3] = h[3] /\ s[4] = h[4] /\ s[5] = h[5] /\ s[6] = h[6] /\ s[7] = h[7]
  <2>1. \A i \in 1 .. 7 : s[0 + i] = h[i]
    BY <1>3, <1>5 DEF Holds
  <2> QED
    BY <2>1
<1> HIDE DEF klen, vlen
<1>8. WordAt(s, 1) = n /\ WordAt(s, 3) = klen /\ WordAt(s, 5) = vlen
  <2>1. 1 + 1 = 2 /\ 1 + 2 = 3 /\ 3 + 1 = 4 /\ 3 + 2 = 5 /\ 5 + 1 = 6 /\ 5 + 2 = 7
    OBVIOUS
  <2>2. /\ (n % Base) + Base * (n \div Base) = n
        /\ (klen % Base) + Base * (klen \div Base) = klen
        /\ (vlen % Base) + Base * (vlen \div Base) = vlen
    BY <1>1, WordHolds
  <2> QED
    BY <1>3, <1>7, <2>1, <2>2, Zenon DEF WordAt
<1>9. s[1] = type
  BY <1>3, <1>7
<1> QED
  BY <1>2, <1>5, <1>6, <1>8, <1>9, Zenon DEF klen, vlen, Fields
=============================================================================
