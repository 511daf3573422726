---------------------------- MODULE LogFile_proofs ----------------------------
(***************************************************************************)
(* Theorems about the byte format of the log, for files and records of any *)
(* length: whatever is cut off, reading gives back what was written whole, *)
(* and a torn record at the end is not taken for a record.                 *)
(*                                                                         *)
(* Where each record begins is a sequence of offsets, of which the         *)
(* invariant says that there is one (Offsets).                             *)
(***************************************************************************)
EXTENDS LogFile, ByteFormat_proofs

-----------------------------------------------------------------------------
(* The loop.                                                               *)

\* The record that the loop makes of the bytes at an offset, and where it goes
\* on behind it.
RecordAt(bytes, pos) == deserialize(Fetch(bytes, pos + WordSize, WordAt(bytes, pos)))

After(bytes, pos) == pos + WordSize + WordAt(bytes, pos)

\* The size read at an offset is a number, and the loop goes on behind it.
LEMMA LoopAdvances ==
    ASSUME NEW bytes \in Seq(Byte), NEW pos \in Nat, ~Stops(bytes, pos)
    PROVE  /\ WordAt(bytes, pos) \in Nat
           /\ After(bytes, pos) \in Nat
           /\ pos < After(bytes, pos)
           /\ After(bytes, pos) <= Len(bytes)
<1>1. bytes[pos + 1] \in Byte /\ bytes[pos + 2] \in Byte /\ ~(Len(bytes) < pos + 2)
  BY DEF Stops, WordSize
<1>2. bytes[pos + 1] \in Nat /\ bytes[pos + 2] \in Nat /\ Base \in Nat
  BY <1>1, ByteAssumption DEF Byte
<1>3. Base * bytes[pos + 2] \in Nat
  BY <1>2
<1>4. WordAt(bytes, pos) \in Nat
  BY <1>2, <1>3 DEF WordAt
<1>5. ~ShortRead(bytes, pos + WordSize, WordAt(bytes, pos))
  BY DEF Stops
<1> QED
  BY <1>4, <1>5 DEF After, ShortRead, WordSize

\* The equation of the loop holds.
LEMMA LoopUnfolds ==
    ASSUME NEW bytes \in Seq(Byte)
    PROVE  \A pos \in Nat :
             ReadFrom(bytes)[pos] = IF Stops(bytes, pos) THEN << >>
                                    ELSE <<RecordAt(bytes, pos)>> \o ReadFrom(bytes)[After(bytes, pos)]
<1> DEFINE stop == [p \in Nat |-> Stops(bytes, p)]
           last == << >>
           item == [p \in Nat |-> <<RecordAt(bytes, p)>>]
           next == [p \in Nat |-> IF Stops(bytes, p) THEN 0 ELSE After(bytes, p)]
           Body(f) == [p \in Nat |-> IF Stops(bytes, p) THEN << >>
                                     ELSE <<RecordAt(bytes, p)>> \o f[After(bytes, p)]]
<1>1. stop \in [Nat -> BOOLEAN]
  BY DEF Stops, TooLong, ShortRead, Incomplete
<1>2. next \in [Nat -> Nat]
  BY LoopAdvances
<1>3. \A p \in Nat : ~stop[p] => p < Len(bytes) /\ p < next[p]
  BY LoopAdvances
<1>4. Computable(stop, last, item, next)
  <2>1. Len(bytes) \in Nat
    OBVIOUS
  <2> HIDE DEF stop, last, item, next
  <2> QED
    BY <1>1, <1>2, <1>3, <2>1, LoopExists
<1>5. PICK f : f = Body(f)
  BY <1>4 DEF Loop, Computable
<1>6. ReadFrom(bytes) = CHOOSE read : read = Body(read)
  BY DEF ReadFrom, RecordAt, After
<1>7. ReadFrom(bytes) = Body(ReadFrom(bytes))
  <2> HIDE DEF Body
  <2> QED
    BY <1>5, <1>6
<1> QED
  BY <1>7

-----------------------------------------------------------------------------
(* The format.                                                             *)

\* What is held is what Fetch delivers.
LEMMA HeldIsFetched ==
    ASSUME NEW s \in Seq(Byte), NEW t \in Seq(Byte), NEW p \in Nat, Holds(s, p, t)
    PROVE  Fetch(s, p, Len(t)) = t
<1> DEFINE n == Len(t)
           f == Fetch(s, p, n)
<1>1. n \in Nat /\ p + n <= Len(s) /\ Len(s) \in Nat /\ \A i \in 1 .. n : s[p + i] = t[i] /\ t[i] \in Byte
  BY DEF Holds
<1>2. f = [i \in 1 .. n |-> t[i]]
  BY <1>1 DEF Fetch
<1>3. t = [i \in 1 .. n |-> t[i]]
  BY LenProperties
<1> QED
  BY <1>2, <1>3

\* A number that fits is a word of two bytes.
LEMMA WordFits ==
    ASSUME NEW n \in Nat, n < Base * Base
    PROVE  Word(n) \in Seq(Byte)
<1>1. n % Base \in Byte /\ n \div Base \in Nat
  BY ByteAssumption DEF Byte
<1>2. n \div Base < Base
  BY ByteAssumption
<1>3. n \div Base \in Byte
  BY <1>1, <1>2, ByteAssumption DEF Byte
<1> QED
  BY <1>1, <1>3 DEF Word

\* The fields of a record fit the format.
LEMMA RecordFits ==
    ASSUME NEW rec \in Records
    PROVE  /\ rec.type \in Byte /\ rec.txn \in Nat /\ rec.txn < Base * Base
           /\ rec.key \in Seq(Byte) /\ Len(rec.key) \in Nat /\ Len(rec.key) < Base * Base
           /\ rec.value \in Seq(Byte) /\ Len(rec.value) \in Nat /\ Len(rec.value) < Base * Base
           /\ size(rec) \in Nat /\ size(rec) < Base * Base
           /\ size(rec) = 7 + Len(rec.key) + Len(rec.value)
<1>1. rec \in [type : Byte, txn : Nat, key : Seq(Byte), value : Seq(Byte)]
      /\ rec.txn < Base * Base /\ size(rec) < Base * Base
  BY RecordAssumption
<1>2. /\ rec.type \in Byte /\ rec.txn \in Nat /\ rec.key \in Seq(Byte) /\ rec.value \in Seq(Byte)
      /\ Len(rec.key) \in Nat /\ Len(rec.value) \in Nat
  BY <1>1
<1>3. size(rec) = 7 + Len(rec.key) + Len(rec.value)
  BY <1>2 DEF size, HeaderSize, WordSize
<1>4. Base * Base \in Nat
  BY ByteAssumption
<1> QED
  BY <1>1, <1>2, <1>3, <1>4

\* Where serialize puts the fields, the key and the value.
LEMMA Serialized ==
    ASSUME NEW rec \in Records
    PROVE  /\ serialize(rec) \in Seq(Byte)
           /\ Len(serialize(rec)) = size(rec)
           /\ serialize(rec)[1] = rec.type
           /\ WordAt(serialize(rec), 1) = rec.txn
           /\ WordAt(serialize(rec), 3) = Len(rec.key)
           /\ WordAt(serialize(rec), 5) = Len(rec.value)
           /\ Holds(serialize(rec), 7, rec.key)
           /\ Holds(serialize(rec), 7 + Len(rec.key), rec.value)
<1>1. /\ rec.type \in Byte /\ rec.txn \in Nat /\ rec.key \in Seq(Byte) /\ rec.value \in Seq(Byte)
      /\ Word(rec.txn) \in Seq(Byte) /\ Word(Len(rec.key)) \in Seq(Byte) /\ Word(Len(rec.value)) \in Seq(Byte)
  BY RecordFits, WordFits
<1>2. serialize(rec) = LaidOut(rec.type, rec.txn, rec.key, rec.value)
  BY DEF serialize, LaidOut
<1>3. size(rec) = 7 + Len(rec.key) + Len(rec.value)
  BY RecordFits
<1> DEFINE s == LaidOut(rec.type, rec.txn, rec.key, rec.value)
<1>4. s \in Seq(Byte) /\ Fields(s, rec.type, rec.txn, rec.key, rec.value)
  BY <1>1, LayoutHolds, Zenon
<1> HIDE DEF s
<1> QED
  BY <1>2, <1>3, <1>4, Zenon DEF s, Fields

\* A record that is read back is complete, and is the one that was written:
\* deserialize inverts serialize.
THEOREM RoundTrip ==
    ASSUME NEW rec \in Records
    PROVE  ~Incomplete(serialize(rec)) /\ deserialize(serialize(rec)) = rec
<1> DEFINE s == serialize(rec)
           klen == Len(rec.key)
           vlen == Len(rec.value)
<1>1. s[1] = rec.type
  BY Serialized
<1>2. /\ s \in Seq(Byte) /\ Len(s) = 7 + klen + vlen
      /\ klen \in Nat /\ vlen \in Nat
      /\ Holds(s, 7, rec.key) /\ Holds(s, 7 + klen, rec.value)
  BY Serialized, RecordFits
<1>3. WordAt(s, 1) = rec.txn /\ WordAt(s, 3) = klen /\ WordAt(s, 5) = vlen
  BY Serialized
<1> HIDE DEF s, klen, vlen
<1>4. HeaderSize = 7 /\ 1 + WordSize = 3 /\ 1 + 2 * WordSize = 5
  BY DEF HeaderSize, WordSize
<1>5. ~Incomplete(s)
  <2>1. WordAt(s, 1 + WordSize) = klen /\ WordAt(s, 1 + 2 * WordSize) = vlen
    BY <1>3, <1>4, Zenon
  <2>2. ~(Len(s) < 7) /\ ~(Len(s) < 7 + klen + vlen)
    BY <1>2
  <2> QED
    BY <1>4, <2>1, <2>2, Zenon DEF Incomplete
<1>6. Bytes(s, 7, klen) = rec.key
  BY <1>2, RecordFits, HeldIsRead DEF klen
<1>7. Bytes(s, 7 + klen, vlen) = rec.value
  <2> DEFINE p == 7 + klen
  <2>1. p \in Nat
    BY <1>2
  <2>2. Holds(s, p, rec.value)
    BY <1>2
  <2> HIDE DEF p
  <2>3. Bytes(s, p, Len(rec.value)) = rec.value
    BY <1>2, <2>1, <2>2, RecordFits, HeldIsRead
  <2> QED
    BY <2>3 DEF p, vlen
<1>8. deserialize(s) = [type |-> rec.type, txn |-> rec.txn, key |-> rec.key, value |-> rec.value]
  BY <1>1, <1>3, <1>4, <1>6, <1>7 DEF deserialize
<1>9. rec = [type |-> rec.type, txn |-> rec.txn, key |-> rec.key, value |-> rec.value]
  BY RecordAssumption
<1> QED
  BY <1>5, <1>8, <1>9 DEF s

\* A framed record is its size and its bytes.
LEMMA FramedBytes ==
    ASSUME NEW rec \in Records
    PROVE  /\ Framed(rec) \in Seq(Byte)
           /\ Len(Framed(rec)) = 2 + size(rec)
           /\ Framed(rec)[1] + Base * Framed(rec)[2] = size(rec)
           /\ Holds(Framed(rec), 2, serialize(rec))
<1> DEFINE w == Word(size(rec))
           t == serialize(rec)
<1>1. size(rec) \in Nat /\ (size(rec) % Base) + Base * (size(rec) \div Base) = size(rec)
  BY RecordFits, WordHolds
<1>2. w \in Seq(Byte) /\ Len(w) = 2 /\ w[1] = size(rec) % Base /\ w[2] = size(rec) \div Base
  <2>1. w \in Seq(Byte)
    BY RecordFits, WordFits
  <2> QED
    BY <2>1 DEF Word
<1>3. t \in Seq(Byte) /\ Len(t) = size(rec)
  BY Serialized
<1> HIDE DEF w, t
<1> DEFINE f == w \o t
<1>4. f \in Seq(Byte) /\ Len(f) = Len(w) + Len(t) /\ Holds(f, 0, w) /\ Holds(f, Len(w), t)
  BY <1>2, <1>3, ConcatHolds
<1> HIDE DEF f
<1>5. f[1] = w[1] /\ f[2] = w[2]
  BY <1>2, <1>4 DEF Holds
<1>6. f[1] + Base * f[2] = size(rec)
  BY <1>1, <1>2, <1>5, Zenon
<1>7. Len(f) = 2 + size(rec) /\ Holds(f, 2, t)
  BY <1>2, <1>3, <1>4
<1>8. Framed(rec) = f
  BY DEF Framed, f, w, t
<1> QED
  BY <1>4, <1>6, <1>7, <1>8 DEF t

\* What holds a framed record holds its parts.
LEMMA HoldsFrame ==
    ASSUME NEW bytes \in Seq(Byte), NEW pos \in Nat, NEW rec \in Records,
           Holds(bytes, pos, Framed(rec))
    PROVE  /\ WordAt(bytes, pos) = size(rec)
           /\ pos + 2 + size(rec) <= Len(bytes)
           /\ Holds(bytes, pos + 2, serialize(rec))
<1> DEFINE f == Framed(rec)
           t == serialize(rec)
<1>1. /\ f \in Seq(Byte) /\ Len(f) = 2 + size(rec)
      /\ f[1] + Base * f[2] = size(rec) /\ Holds(f, 2, t)
      /\ t \in Seq(Byte) /\ Len(t) = size(rec) /\ size(rec) \in Nat
  BY FramedBytes, Serialized, RecordFits
<1>2. Holds(bytes, pos, f) /\ Len(bytes) \in Nat
  OBVIOUS
<1> HIDE DEF f, t
<1>3. pos + Len(f) <= Len(bytes) /\ \A i \in 1 .. Len(f) : bytes[pos + i] = f[i]
  BY <1>2 DEF Holds
<1>4. bytes[pos + 1] = f[1] /\ bytes[pos + 2] = f[2]
  BY <1>1, <1>3
<1>5. WordAt(bytes, pos) = size(rec)
  BY <1>1, <1>4, Zenon DEF WordAt
<1>6. \A i \in 1 .. Len(t) : f[2 + i] = t[i]
  BY <1>1 DEF Holds
<1>7. ASSUME NEW i \in 1 .. Len(t) PROVE bytes[pos + 2 + i] = t[i]
  <2>1. 2 + i \in 1 .. Len(f) /\ pos + (2 + i) = pos + 2 + i
    BY <1>1
  <2>2. bytes[pos + (2 + i)] = f[2 + i]
    BY <1>3, <2>1
  <2> QED
    BY <1>6, <2>1, <2>2
<1>8. pos + 2 + Len(t) <= Len(bytes) /\ pos + 2 + size(rec) <= Len(bytes)
  BY <1>1, <1>2, <1>3
<1> QED
  BY <1>5, <1>7, <1>8 DEF Holds, t

\* At a record that was written whole the loop stops only because of the
\* limit; otherwise it returns that record and goes on behind it.
LEMMA ReadsRecord ==
    ASSUME NEW bytes \in Seq(Byte), NEW pos \in Nat, NEW rec \in Records,
           Holds(bytes, pos, Framed(rec))
    PROVE  /\ Stops(bytes, pos) <=> size(rec) > MaxRecordSize
           /\ RecordAt(bytes, pos) = rec
           /\ After(bytes, pos) = pos + Len(Framed(rec))
<1>1. /\ WordAt(bytes, pos) = size(rec) /\ pos + 2 + size(rec) <= Len(bytes)
      /\ Holds(bytes, pos + 2, serialize(rec))
  BY HoldsFrame
<1>2. size(rec) \in Nat /\ Len(bytes) \in Nat /\ pos + 2 \in Nat /\ WordSize = 2 /\ MaxRecordSize \in Nat
  <2>1. MaxRecordSize \in Nat
    BY RecordAssumption
  <2>2. size(rec) \in Nat
    BY RecordFits
  <2> QED
    BY <2>1, <2>2 DEF WordSize
<1>3. Fetch(bytes, pos + 2, size(rec)) = serialize(rec)
  <2> DEFINE q == pos + 2
  <2>1. Holds(bytes, q, serialize(rec)) /\ q \in Nat
    BY <1>1, <1>2
  <2> HIDE DEF q
  <2>2. Fetch(bytes, q, Len(serialize(rec))) = serialize(rec)
    BY <2>1, Serialized, HeldIsFetched
  <2> QED
    BY <2>2, Serialized DEF q
<1>4. Stops(bytes, pos) <=> size(rec) > MaxRecordSize
  <2>1. ~(Len(bytes) < pos + 2) /\ ~(Len(bytes) < pos + 2 + size(rec))
    BY <1>1, <1>2
  <2>2. ~ShortRead(bytes, pos + 2, size(rec))
    BY <2>1, Zenon DEF ShortRead
  <2>3. ~Incomplete(Fetch(bytes, pos + 2, size(rec)))
    BY <1>3, RoundTrip
  <2> QED
    BY <1>1, <1>2, <2>1, <2>2, <2>3, Zenon DEF Stops, TooLong
<1>5. RecordAt(bytes, pos) = rec
  BY <1>1, <1>2, <1>3, RoundTrip, Zenon DEF RecordAt
<1>6. After(bytes, pos) = pos + Len(Framed(rec))
  <2>1. pos + 2 + size(rec) = pos + (2 + size(rec))
    BY <1>2
  <2> QED
    BY <1>1, <1>2, <2>1, FramedBytes, Zenon DEF After
<1> QED
  BY <1>4, <1>5, <1>6

\* The bytes end n bytes into the framed record.
TornAt(bytes, pos, rec, n) ==
    /\ Len(bytes) = pos + n
    /\ \A i \in 1 .. n : bytes[pos + i] = Framed(rec)[i]

\* Wherever a record is cut off, the loop stops at it.
LEMMA StopsAtTear ==
    ASSUME NEW bytes \in Seq(Byte), NEW pos \in Nat, NEW rec \in Records,
           NEW n \in 0 .. Len(Framed(rec)) - 1, TornAt(bytes, pos, rec, n)
    PROVE  Stops(bytes, pos)
<1> DEFINE f == Framed(rec)
<1>1. Len(f) = 2 + size(rec) /\ f[1] + Base * f[2] = size(rec) /\ size(rec) \in Nat
  BY FramedBytes, RecordFits
<1>2. Len(bytes) = pos + n /\ \A i \in 1 .. n : bytes[pos + i] = f[i]
  BY DEF TornAt
<1>3. n \in Nat /\ n < Len(f)
  BY <1>1
<1> HIDE DEF f
<1>4. CASE n < 2
  <2>1. Len(bytes) < pos + 2
    BY <1>2, <1>3, <1>4
  <2> QED
    BY <2>1 DEF Stops, WordSize
<1>5. CASE n >= 2
  <2>1. bytes[pos + 1] = f[1] /\ bytes[pos + 2] = f[2]
    BY <1>2, <1>3, <1>5
  <2>2. WordAt(bytes, pos) = size(rec)
    BY <1>1, <2>1, Zenon DEF WordAt
  <2>3. Len(bytes) < pos + 2 + size(rec)
    BY <1>1, <1>2, <1>3
  <2>4. ShortRead(bytes, pos + WordSize, WordAt(bytes, pos))
    BY <2>2, <2>3, Zenon DEF ShortRead, WordSize
  <2> QED
    BY <2>4 DEF Stops
<1> QED
  BY <1>3, <1>4, <1>5

-----------------------------------------------------------------------------
(* The file.                                                               *)

\* The offsets at which the whole records begin, and the last one ends.
Offsets(f, recs, at) ==
    /\ at \in [1 .. Len(recs) + 1 -> Nat]
    /\ at[1] = 0
    /\ \A i \in 1 .. Len(recs) :
          /\ Holds(f, at[i], Framed(recs[i]))
          /\ at[i + 1] = at[i] + Len(Framed(recs[i]))

\* What is behind the last whole record, from offset end on: nothing, one torn
\* record, or anything.
Behind(end) ==
    /\ ~torn => Len(file) = end
    /\ torn /\ ~after =>
          \E rec \in Records : \E n \in 0 .. Len(Framed(rec)) - 1 : TornAt(file, end, rec, n)

\* The file is the whole records, one behind the other, and what is behind them.
FileInv ==
    /\ file \in Seq(Byte)
    /\ whole \in Seq(Records)
    /\ torn \in BOOLEAN
    /\ \E at : Offsets(file, whole, at) /\ Behind(at[Len(whole) + 1])

\* A longer file holds the same records at the same offsets.
LEMMA OffsetsStay ==
    ASSUME NEW f \in Seq(Byte), NEW part \in Seq(Byte), NEW recs \in Seq(Records), NEW at,
           Offsets(f, recs, at)
    PROVE  Offsets(f \o part, recs, at)
<1>1. ASSUME NEW i \in 1 .. Len(recs) PROVE Holds(f \o part, at[i], Framed(recs[i]))
  <2>1. at[i] \in Nat /\ recs[i] \in Records /\ Holds(f, at[i], Framed(recs[i]))
    <3>1. at \in [1 .. Len(recs) + 1 -> Nat] /\ Holds(f, at[i], Framed(recs[i]))
      BY <1>1 DEF Offsets
    <3>2. i \in 1 .. Len(recs) + 1 /\ recs[i] \in Records
      OBVIOUS
    <3> QED
      BY <3>1, <3>2
  <2> DEFINE r == Framed(recs[i])
             p == at[i]
  <2>2. r \in Seq(Byte) /\ p \in Nat /\ Holds(f, p, r)
    BY <2>1, FramedBytes
  <2> HIDE DEF r, p
  <2>3. Holds(f \o part, p, r)
    BY <2>2, ConcatHolds
  <2> QED
    BY <2>3 DEF r, p
<1> QED
  BY <1>1 DEF Offsets

\* One more record at the end has its own offset.
LEMMA OffsetsGrow ==
    ASSUME NEW f \in Seq(Byte), NEW rec \in Records, NEW recs \in Seq(Records), NEW at,
           Offsets(f, recs, at), at[Len(recs) + 1] = Len(f)
    PROVE  \E more : /\ Offsets(f \o Framed(rec), Append(recs, rec), more)
                     /\ more[Len(recs) + 2] = Len(f \o Framed(rec))
<1> DEFINE k == Len(recs)
           longer == f \o Framed(rec)
           all == Append(recs, rec)
           more == [i \in 1 .. k + 2 |-> IF i = k + 2 THEN Len(longer) ELSE at[i]]
<1>1. k \in Nat /\ Len(all) = k + 1 /\ all[k + 1] = rec /\ \A i \in 1 .. k : all[i] = recs[i] /\ recs[i] \in Records
  OBVIOUS
<1>2. /\ Offsets(longer, recs, at) /\ longer \in Seq(Byte) /\ Len(longer) = Len(f) + Len(Framed(rec))
      /\ Holds(longer, Len(f), Framed(rec))
  BY FramedBytes, OffsetsStay, ConcatHolds
<1>3. at \in [1 .. k + 1 -> Nat] /\ at[1] = 0 /\ at[k + 1] = Len(f)
  BY DEF Offsets
<1>4. \A i \in 1 .. k : Holds(longer, at[i], Framed(recs[i])) /\ at[i + 1] = at[i] + Len(Framed(recs[i]))
  BY <1>2 DEF Offsets
<1>5. Len(longer) \in Nat
  BY <1>2
<1> HIDE DEF k, longer, all
<1>6. more \in [1 .. k + 2 -> Nat] /\ more[1] = 0 /\ more[k + 2] = Len(longer)
  BY <1>1, <1>3, <1>5
<1>7. \A i \in 1 .. k + 1 : more[i] = at[i]
  BY <1>1
<1> HIDE DEF more
<1>8. ASSUME NEW i \in 1 .. k + 1
      PROVE  Holds(longer, more[i], Framed(all[i])) /\ more[i + 1] = more[i] + Len(Framed(all[i]))
  <2>1. CASE i = k + 1
    <3>1. more[i] = Len(f) /\ all[i] = rec /\ i + 1 = k + 2
      BY <1>1, <1>3, <1>7, <2>1
    <3>2. Holds(longer, more[i], Framed(all[i]))
      BY <1>2, <3>1
    <3>3. more[i + 1] = Len(f) + Len(Framed(rec))
      BY <1>2, <1>6, <3>1, Zenon
    <3> QED
      BY <3>1, <3>2, <3>3
  <2>2. CASE i # k + 1
    <3>1. i \in 1 .. k /\ i + 1 \in 1 .. k + 1
      BY <1>1, <2>2
    <3>2. more[i] = at[i] /\ more[i + 1] = at[i + 1] /\ all[i] = recs[i]
      BY <1>1, <1>7, <3>1
    <3> QED
      BY <1>4, <3>1, <3>2
  <2> QED
    BY <2>1, <2>2
<1>9. Offsets(longer, all, more)
  <2>1. Len(all) + 1 = k + 2
    BY <1>1
  <2> QED
    BY <1>1, <1>6, <1>8, <2>1 DEF Offsets
<1> QED
  BY <1>6, <1>9 DEF k, longer, all

\* A write, whole or cut off, keeps the layout of the file.
LEMMA WriteStep ==
    ASSUME FileInv, NEW rec \in Records, NEW n \in 1 .. Len(Framed(rec)), Write(rec, n)
    PROVE  FileInv'
<1> DEFINE f == Framed(rec)
           part == SubSeq(f, 1, n)
<1>1. f \in Seq(Byte) /\ Len(f) \in Nat /\ n \in Nat /\ n <= Len(f)
  BY FramedBytes
<1>2. part \in Seq(Byte) /\ Len(part) = n /\ \A i \in 1 .. n : part[i] = f[i]
  BY <1>1
<1>3. n = Len(f) => part = f
  BY <1>1, SubSeqFull
<1>4. /\ file' = file \o part /\ after' = torn
      /\ whole' = IF n = Len(f) /\ ~torn THEN Append(whole, rec) ELSE whole
      /\ torn' = (torn \/ n # Len(f))
  BY DEF Write
<1> HIDE DEF f, part
<1>5. PICK at : Offsets(file, whole, at) /\ Behind(at[Len(whole) + 1])
  BY DEF FileInv
<1>6. file \in Seq(Byte) /\ whole \in Seq(Records) /\ torn \in BOOLEAN /\ Len(whole) \in Nat
  BY DEF FileInv
<1>7. file' \in Seq(Byte) /\ Len(file') = Len(file) + n /\ Holds(file', Len(file), part)
  BY <1>2, <1>4, <1>6, ConcatHolds
<1>8. whole' \in Seq(Records) /\ torn' \in BOOLEAN
  BY <1>4, <1>6
<1>9. CASE n = Len(f) /\ ~torn
  <2>1. at[Len(whole) + 1] = Len(file)
    BY <1>5, <1>9 DEF Behind
  <2>2. PICK more : /\ Offsets(file \o f, Append(whole, rec), more)
                    /\ more[Len(whole) + 2] = Len(file \o f)
    BY <1>5, <1>6, <2>1, OffsetsGrow DEF f
  <2>3. Offsets(file', whole', more) /\ more[Len(whole) + 2] = Len(file')
    BY <1>3, <1>4, <1>9, <2>2
  <2>4. Len(whole') + 1 = Len(whole) + 2
    BY <1>4, <1>6, <1>9
  <2>5. ~torn' /\ more[Len(whole') + 1] = Len(file')
    BY <1>4, <1>9, <2>3, <2>4
  <2> QED
    BY <1>7, <1>8, <2>3, <2>5 DEF FileInv, Behind
<1>10. CASE ~(n = Len(f) /\ ~torn)
  <2> DEFINE end == at[Len(whole) + 1]
  <2>1. whole' = whole /\ torn'
    BY <1>4, <1>10
  <2>2. Offsets(file', whole', at)
    BY <1>2, <1>4, <1>5, <1>6, <2>1, OffsetsStay
  <2>3. ASSUME ~after'
        PROVE  \E r \in Records : \E m \in 0 .. Len(Framed(r)) - 1 : TornAt(file', end, r, m)
    <3>1. ~torn /\ n # Len(f)
      BY <1>4, <1>10, <2>3
    <3>2. end = Len(file)
      BY <1>5, <3>1 DEF Behind
    <3> HIDE DEF end
    <3>3. \A i \in 1 .. n : file'[end + i] = f[i]
      BY <1>2, <1>7, <3>2 DEF Holds
    <3>4. n \in 0 .. Len(f) - 1
      BY <1>1, <3>1
    <3>5. TornAt(file', end, rec, n)
      BY <1>7, <3>2, <3>3 DEF TornAt, f
    <3> QED
      BY <3>4, <3>5 DEF f
  <2> QED
    BY <1>7, <1>8, <2>1, <2>2, <2>3 DEF FileInv, Behind
<1> QED
  BY <1>9, <1>10

\* The file is laid out so in every state.
LEMMA FileInvariant == Spec => []FileInv
<1>1. Init => FileInv
  <2> SUFFICES ASSUME Init PROVE FileInv
    OBVIOUS
  <2> DEFINE at == [i \in 1 .. 1 |-> 0]
  <2>1. file = << >> /\ whole = << >> /\ torn = FALSE /\ Len(whole) = 0 /\ Len(file) = 0
    BY DEF Init
  <2>2. file \in Seq(Byte) /\ whole \in Seq(Records)
    BY <2>1
  <2>3. at \in [1 .. 1 -> Nat] /\ at[1] = 0
    OBVIOUS
  <2> HIDE DEF at
  <2>4. Offsets(file, whole, at) /\ Behind(at[Len(whole) + 1])
    BY <2>1, <2>3 DEF Offsets, Behind
  <2> QED
    BY <2>1, <2>2, <2>4 DEF FileInv
<1>2. FileInv /\ [Next]_vars => FileInv'
  <2> SUFFICES ASSUME FileInv, [Next]_vars PROVE FileInv'
    OBVIOUS
  <2>1. CASE Next
    BY <2>1, WriteStep DEF Next
  <2>2. CASE UNCHANGED vars
    BY <2>2 DEF FileInv, Behind, vars
  <2> QED
    BY <2>1, <2>2
<1> QED
  BY <1>1, <1>2, PTL DEF Spec

-----------------------------------------------------------------------------
(* What is read.                                                           *)

\* The records at some offset.
Found(bytes) == {RecordAt(bytes, pos) : pos \in Nat}

\* The loop returns a sequence of them.
LEMMA LoopReturns ==
    ASSUME NEW bytes \in Seq(Byte), NEW pos \in Nat
    PROVE  ReadFrom(bytes)[pos] \in Seq(Found(bytes))
<1> DEFINE read == ReadFrom(bytes)
           T == Found(bytes)
           S == {d \in Nat : \E p \in Nat : p + d = Len(bytes) /\ read[p] \notin Seq(T)}
<1>1. \A p \in Nat : read[p] = IF Stops(bytes, p) THEN << >>
                               ELSE <<RecordAt(bytes, p)>> \o read[After(bytes, p)]
  BY LoopUnfolds
<1> HIDE DEF read
<1>2. \A p \in Nat : RecordAt(bytes, p) \in T
  BY DEF Found
<1> HIDE DEF T
<1>3. ASSUME NEW p \in Nat, read[p] \notin Seq(T)
      PROVE  /\ ~Stops(bytes, p)
             /\ read[After(bytes, p)] \notin Seq(T)
  <2>1. ~Stops(bytes, p)
    BY <1>1, <1>3, EmptySeq
  <2>2. read[p] = <<RecordAt(bytes, p)>> \o read[After(bytes, p)]
    BY <1>1, <2>1
  <2>3. <<RecordAt(bytes, p)>> \in Seq(T)
    BY <1>2
  <2> QED
    BY <1>3, <2>1, <2>2, <2>3, ConcatProperties
<1>4. S = {}
  <2> SUFFICES ASSUME S # {} PROVE FALSE
    OBVIOUS
  <2>1. PICK d \in S : \A e \in S : d <= e
    BY LeastNumber
  <2>2. PICK p \in Nat : p + d = Len(bytes) /\ read[p] \notin Seq(T)
    BY <2>1
  <2>3. d \in Nat
    BY <2>1
  <2>4. ~Stops(bytes, p) /\ read[After(bytes, p)] \notin Seq(T)
    BY <1>3, <2>2
  <2> DEFINE q == After(bytes, p)
  <2>5. q \in Nat /\ p < q /\ q <= Len(bytes)
    BY <2>4, LoopAdvances
  <2> HIDE DEF q
  <2>6. Len(bytes) - q \in Nat /\ q + (Len(bytes) - q) = Len(bytes) /\ Len(bytes) - q < d
    BY <2>2, <2>3, <2>5
  <2>7. Len(bytes) - q \in S
    BY <2>4, <2>5, <2>6 DEF q
  <2> QED
    BY <2>1, <2>3, <2>6, <2>7
<1>5. ASSUME read[pos] \notin Seq(T) PROVE FALSE
  <2>1. ~Stops(bytes, pos)
    BY <1>3, <1>5
  <2>2. After(bytes, pos) \in Nat /\ pos < After(bytes, pos) /\ After(bytes, pos) <= Len(bytes)
    BY <2>1, LoopAdvances
  <2>3. Len(bytes) - pos \in Nat /\ pos + (Len(bytes) - pos) = Len(bytes)
    BY <2>2
  <2>4. Len(bytes) - pos \in S
    BY <1>5, <2>3
  <2> QED
    BY <1>4, <2>4
<1> QED
  BY <1>5 DEF read, T

\* Readable is the whole records before the first that is too long.
LEMMA ReadableIs ==
    ASSUME whole \in Seq(Records)
    PROVE  \E m \in 0 .. Len(whole) :
              /\ Readable = SubSeq(whole, 1, m)
              /\ \A i \in 1 .. m : ~(size(whole[i]) > MaxRecordSize)
              /\ m < Len(whole) => size(whole[m + 1]) > MaxRecordSize
<1> DEFINE long == {i \in DOMAIN whole : size(whole[i]) > MaxRecordSize}
           first == CHOOSE i \in {j - 1 : j \in long} : \A j \in long : i < j
<1>1. DOMAIN whole = 1 .. Len(whole) /\ Len(whole) \in Nat
  OBVIOUS
<1>2. CASE long = {}
  <2>1. Readable = SubSeq(whole, 1, Len(whole))
    BY <1>2 DEF Readable
  <2>2. \A i \in 1 .. Len(whole) : ~(size(whole[i]) > MaxRecordSize)
    BY <1>1, <1>2
  <2>3. Len(whole) \in 0 .. Len(whole) /\ ~(Len(whole) < Len(whole))
    BY <1>1
  <2> QED
    BY <2>1, <2>2, <2>3, Zenon
<1>3. CASE long # {}
  <2>1. Readable = SubSeq(whole, 1, first)
    BY <1>3 DEF Readable
  <2>2. long \subseteq Nat
    BY <1>1
  <2>3. PICK l \in long : \A j \in long : l <= j
    BY <1>3, <2>2, LeastNumber
  <2>4. l - 1 \in {j - 1 : j \in long} /\ \A j \in long : l - 1 < j
    BY <1>1, <2>3
  <2>5. first \in {j - 1 : j \in long} /\ \A j \in long : first < j
    BY <2>4
  <2>6. PICK j \in long : first = j - 1
    BY <2>5
  <2> HIDE DEF first
  <2>7. j \in 1 .. Len(whole) /\ size(whole[j]) > MaxRecordSize
    BY <1>1
  <2>8. first \in 0 .. Len(whole) /\ first + 1 = j
    BY <1>1, <2>6, <2>7
  <2>9. ASSUME NEW i \in 1 .. first PROVE ~(size(whole[i]) > MaxRecordSize)
    BY <1>1, <2>5, <2>8
  <2> QED
    BY <2>1, <2>7, <2>8, <2>9
<1> QED
  BY <1>2, <1>3

\* From the offset of a readable record the loop returns it and all readable
\* ones behind it, and then what it finds where the readable ones end.
LEMMA ReadsOn ==
    ASSUME NEW f \in Seq(Byte), NEW recs \in Seq(Records), NEW at, Offsets(f, recs, at),
           NEW m \in 0 .. Len(recs), \A i \in 1 .. m : ~(size(recs[i]) > MaxRecordSize)
    PROVE  ReadFrom(f)[0] = SubSeq(recs, 1, m) \o ReadFrom(f)[at[m + 1]]
<1> DEFINE read == ReadFrom(f)
           T == Records \cup Found(f)
           rest == read[at[m + 1]]
           Good(i) == read[at[i]] = SubSeq(recs, i, m) \o rest
           S == {d \in Nat : \E i \in 1 .. m + 1 : i + d = m + 1 /\ ~Good(i)}
<1>1. /\ Len(recs) \in Nat /\ m \in Nat /\ m <= Len(recs) /\ m + 1 \in 1 .. Len(recs) + 1
      /\ \A i \in 1 .. Len(recs) : recs[i] \in Records
  OBVIOUS
<1>2. at \in [1 .. Len(recs) + 1 -> Nat] /\ at[1] = 0
  BY DEF Offsets
<1>3. recs \in Seq(T)
  BY SeqMonotonic
<1>4. rest \in Seq(T)
  <2>1. at[m + 1] \in Nat
    BY <1>1, <1>2
  <2>2. rest \in Seq(Found(f))
    BY <2>1, LoopReturns
  <2> HIDE DEF rest
  <2> QED
    BY <2>2, SeqMonotonic
<1> HIDE DEF T, rest
<1>5. Good(m + 1)
  <2>1. SubSeq(recs, m + 1, m) = << >>
    BY <1>1, SubSeqEmpty
  <2> QED
    BY <1>4, <2>1, ConcatEmptySeq DEF rest
<1>6. ASSUME NEW i \in 1 .. m, Good(i + 1) PROVE Good(i)
  <2>1. i \in 1 .. Len(recs) /\ i \in 1 .. Len(recs) + 1 /\ recs[i] \in Records /\ at[i] \in Nat
    BY <1>1, <1>2
  <2>2. Holds(f, at[i], Framed(recs[i])) /\ at[i + 1] = at[i] + Len(Framed(recs[i]))
    BY <2>1 DEF Offsets
  <2>3. /\ Stops(f, at[i]) <=> size(recs[i]) > MaxRecordSize
        /\ RecordAt(f, at[i]) = recs[i]
        /\ After(f, at[i]) = at[i] + Len(Framed(recs[i]))
    BY <2>1, <2>2, ReadsRecord
  <2>4. read[at[i]] = <<recs[i]>> \o read[at[i + 1]]
    <3>1. read[at[i]] = IF Stops(f, at[i]) THEN << >> ELSE <<RecordAt(f, at[i])>> \o read[After(f, at[i])]
      BY <2>1, LoopUnfolds
    <3> QED
      BY <2>2, <2>3, <3>1, Zenon
  <2>5. SubSeq(recs, i, m) = <<recs[i]>> \o SubSeq(recs, i + 1, m)
    <3>1. i \in 1 .. Len(recs) /\ m \in i .. Len(recs)
      BY <1>1
    <3> QED
      BY <3>1, SubSeqRecursiveFirst
  <2>6. <<recs[i]>> \in Seq(T) /\ SubSeq(recs, i + 1, m) \in Seq(T)
    BY <1>1, <1>3, <2>1
  <2>7. (<<recs[i]>> \o SubSeq(recs, i + 1, m)) \o rest = <<recs[i]>> \o (SubSeq(recs, i + 1, m) \o rest)
    <3> DEFINE h == <<recs[i]>>
               q == SubSeq(recs, i + 1, m)
    <3>1. h \in Seq(T) /\ q \in Seq(T)
      BY <2>6
    <3> HIDE DEF h, q
    <3>2. (h \o q) \o rest = h \o (q \o rest)
      BY <1>4, <3>1, ConcatAssociative
    <3> QED
      BY <3>2 DEF h, q
  <2> QED
    BY <1>6, <2>4, <2>5, <2>7, Zenon
<1> HIDE DEF Good
<1>7. S = {}
  <2> SUFFICES ASSUME S # {} PROVE FALSE
    OBVIOUS
  <2>1. PICK d \in S : \A e \in S : d <= e
    BY LeastNumber
  <2>2. d \in Nat /\ \E i \in 1 .. m + 1 : i + d = m + 1 /\ ~Good(i)
    BY <2>1
  <2>3. PICK i \in 1 .. m + 1 : i + d = m + 1 /\ ~Good(i)
    BY <2>2
  <2>4. i # m + 1
    BY <1>5, <2>3
  <2>5. i \in 1 .. m /\ i + 1 \in 1 .. m + 1 /\ d - 1 \in Nat /\ (i + 1) + (d - 1) = m + 1
    BY <1>1, <2>2, <2>3, <2>4
  <2>6. ~Good(i + 1)
    BY <1>6, <2>3, <2>5
  <2>7. d - 1 \in S
    BY <2>5, <2>6
  <2>8. d <= d - 1
    BY <2>1, <2>7
  <2> QED
    BY <2>2, <2>8
<1>8. Good(1)
  <2>1. 1 \in 1 .. m + 1 /\ 1 + m = m + 1 /\ m \in Nat
    BY <1>1
  <2>2. ~Good(1) => m \in S
    BY <2>1, Zenon
  <2> QED
    BY <1>7, <2>2
<1> QED
  BY <1>2, <1>8 DEF Good, rest

\* What is read is the readable records and, when nothing was written behind a
\* tear, no more.
LEMMA FileIsRead ==
    ASSUME FileInv
    PROVE  /\ \E rest \in Seq(Found(file)) : read_all_records = Readable \o rest
           /\ Readable \in Seq(Records)
           /\ ~after => read_all_records = Readable
<1>1. file \in Seq(Byte) /\ whole \in Seq(Records) /\ torn \in BOOLEAN
  BY DEF FileInv
<1>2. PICK at : Offsets(file, whole, at) /\ Behind(at[Len(whole) + 1])
  BY DEF FileInv
<1>3. PICK m \in 0 .. Len(whole) : /\ Readable = SubSeq(whole, 1, m)
                                   /\ \A i \in 1 .. m : ~(size(whole[i]) > MaxRecordSize)
                                   /\ m < Len(whole) => size(whole[m + 1]) > MaxRecordSize
  BY <1>1, ReadableIs
<1> DEFINE end == at[m + 1]
           rest == ReadFrom(file)[end]
<1>4. read_all_records = Readable \o rest
  BY <1>1, <1>2, <1>3, ReadsOn DEF read_all_records
<1>5. Len(whole) \in Nat /\ m + 1 \in 1 .. Len(whole) + 1 /\ m \in Nat
  BY <1>1
<1>6. end \in Nat
  BY <1>2, <1>5 DEF Offsets
<1>7. rest \in Seq(Found(file))
  BY <1>1, <1>6, LoopReturns
<1>8. Readable \in Seq(Records)
  BY <1>1, <1>3, <1>5
<1>9. ASSUME ~after PROVE rest = << >>
  <2>1. Stops(file, end)
    <3>1. CASE m < Len(whole)
      <4>1. m + 1 \in 1 .. Len(whole) /\ whole[m + 1] \in Records
        BY <1>1, <1>5, <3>1
      <4>2. Holds(file, end, Framed(whole[m + 1]))
        BY <1>2, <4>1 DEF Offsets
      <4> QED
        BY <1>1, <1>3, <1>6, <3>1, <4>1, <4>2, ReadsRecord
    <3>2. CASE m = Len(whole)
      <4>1. Behind(end)
        BY <1>2, <3>2
      <4>2. CASE torn
        BY <1>1, <1>6, <1>9, <4>1, <4>2, StopsAtTear DEF Behind
      <4>3. CASE ~torn
        <5>1. Len(file) < end + 2
          BY <1>6, <4>1, <4>3 DEF Behind
        <5> QED
          BY <5>1 DEF Stops, WordSize
      <4> QED
        BY <4>2, <4>3
    <3> QED
      BY <1>5, <3>1, <3>2
  <2> QED
    BY <1>1, <1>6, <2>1, LoopUnfolds
<1> HIDE DEF rest
<1>10. ASSUME ~after PROVE read_all_records = Readable
  BY <1>4, <1>8, <1>9, <1>10, ConcatEmptySeq
<1> QED
  BY <1>4, <1>7, <1>8, <1>10

\* read_all_records returns the records written before the first tear, up to
\* one above the limit, unchanged and in order: for files and records of any
\* length, wherever a write was cut off and whatever was written behind the cut.
THEOREM WholeRecordsAreRead == Spec => []WholeRecordsRead
<1>1. FileInv => WholeRecordsRead
  <2> SUFFICES ASSUME FileInv PROVE IsPrefix(Readable, read_all_records)
    BY DEF WholeRecordsRead
  <2> DEFINE T == Records \cup Found(file)
             s == Readable
  <2>1. PICK rest \in Seq(Found(file)) : read_all_records = s \o rest
    BY FileIsRead
  <2>2. s \in Seq(Records)
    BY FileIsRead
  <2>3. s \in Seq(T) /\ rest \in Seq(T)
    BY <2>2, SeqMonotonic
  <2> HIDE DEF s, T
  <2>4. IsPrefix(s, s \o rest)
    <3>1. Len(s) \in Nat /\ Len(s) <= Len(s \o rest)
      BY <2>3
    <3>2. SubSeq(s, 1, Len(s)) = SubSeq(s \o rest, 1, Len(s))
      BY <2>3
    <3> QED
      BY <3>1, <3>2 DEF IsPrefix
  <2> QED
    BY <2>1, <2>4 DEF s
<1> QED
  BY <1>1, FileInvariant, PTL

\* A torn record at the end of a file is never taken for a record: for records
\* of any length, whichever of their bytes is the last to reach the file.
THEOREM NothingIsInvented == Spec => []NothingInvented
<1>1. FileInv => NothingInvented
  BY FileIsRead DEF NothingInvented
<1> QED
  BY <1>1, FileInvariant, PTL
=============================================================================
