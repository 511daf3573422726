------------------------------- MODULE LogFile -------------------------------
(***************************************************************************)
(* One log file, byte by byte: the record format and the framing of        *)
(* storage/wal.cpp, the loop of read_all_records, and writes that stop in  *)
(* the middle of a record (the process or the machine dies, the disk is    *)
(* full).  WriteAheadLog takes records to be whole; this module shows when *)
(* that is right.                                                          *)
(*                                                                         *)
(* whole, torn and after are history variables: the records written before *)
(* the first tear, whether there was one, and whether anything was written *)
(* behind it.  (Only an open that finds its name taken can do that: the    *)
(* stream refuses everything after an error.)                              *)
(***************************************************************************)
EXTENDS ByteFormat, SequencesExt

CONSTANTS
    Records,      \* the WALRecords that are appended
    MaxRecordSize, \* the reader's limit on record_size (1 MB)
    MaxAppends    \* bound: records appended to the file

Byte == 0 .. Base - 1

VARIABLES file, whole, torn, after, appends

vars == <<file, whole, torn, after, appends>>

-----------------------------------------------------------------------------
\* type, transaction_id, key_length, value_length, key, value.  The timestamp,
\* a field of fixed size that nobody reads back, is left out.
serialize(rec) ==
    <<rec.type>> \o Word(rec.txn) \o Word(Len(rec.key)) \o Word(Len(rec.value))
        \o rec.key \o rec.value

HeaderSize == 1 + 3 * WordSize

size(rec) == HeaderSize + Len(rec.key) + Len(rec.value)

\* The fields of fixed size hold what is written to them.
ASSUME RecordAssumption ==
    /\ \A rec \in Records :
          /\ rec \in [type : Byte, txn : Nat, key : Seq(Byte), value : Seq(Byte)]
          /\ rec.txn < Base * Base
          /\ size(rec) < Base * Base
    /\ MaxRecordSize \in Nat

\* deserialize throws.
Incomplete(bytes) ==
    \/ Len(bytes) < HeaderSize
    \/ Len(bytes) < HeaderSize + WordAt(bytes, 1 + WordSize) + WordAt(bytes, 1 + 2 * WordSize)

deserialize(bytes) ==
    LET klen == WordAt(bytes, 1 + WordSize)
        vlen == WordAt(bytes, 1 + 2 * WordSize)
    IN  [type  |-> bytes[1],
         txn   |-> WordAt(bytes, 1),
         key   |-> Bytes(bytes, HeaderSize, klen),
         value |-> Bytes(bytes, HeaderSize + klen, vlen)]

\* The size, then the record.
Framed(rec) == Word(size(rec)) \o serialize(rec)

\* Mutant of ShortRead: gcount() is not compared with the size.
NeverShort(bytes, from, n) == FALSE

\* Fewer than n bytes are left: gcount() != record_size.
ShortRead(bytes, from, n) == Len(bytes) < from + n

\* The bytes the stream delivers, and zeros of the vector for those it cannot.
Fetch(bytes, from, n) ==
    [i \in 1 .. n |-> IF from + i <= Len(bytes) THEN bytes[from + i] ELSE 0]

\* Mutant of TooLong: a record of exactly the limit is refused.
TooLongOrEqual(n) == n >= MaxRecordSize

TooLong(n) == n > MaxRecordSize

\* The loop ends at offset pos: the size or the record there is cut off, too
\* long or malformed.
Stops(bytes, pos) ==
    \/ Len(bytes) < pos + WordSize
    \/ LET n == WordAt(bytes, pos)
       IN  \/ TooLong(n)
           \/ ShortRead(bytes, pos + WordSize, n)
           \/ Incomplete(Fetch(bytes, pos + WordSize, n))

\* The loop of read_all_records over the bytes of a file: the records it
\* returns from each offset on.
ReadFrom(bytes) ==
    LET read[pos \in Nat] ==
            IF Stops(bytes, pos) THEN << >>
            ELSE LET n == WordAt(bytes, pos)
                 IN  <<deserialize(Fetch(bytes, pos + WordSize, n))>>
                         \o read[pos + WordSize + n]
    IN  read

read_all_records == ReadFrom(file)[0]

-----------------------------------------------------------------------------
Init ==
    /\ file = << >>
    /\ whole = << >>
    /\ torn = FALSE
    /\ after = FALSE
    /\ appends = 0

\* write_record_to_file and the flush, of which n bytes reach the file.
Write(rec, n) ==
    /\ appends < MaxAppends
    /\ appends' = appends + 1
    /\ file' = file \o SubSeq(Framed(rec), 1, n)
    /\ LET all == n = Len(Framed(rec))
       IN  /\ whole' = IF all /\ ~torn THEN Append(whole, rec) ELSE whole
           /\ torn' = (torn \/ ~all)
    /\ after' = torn

Next == \E rec \in Records : \E n \in 1 .. Len(Framed(rec)) : Write(rec, n)

Spec == Init /\ [][Next]_vars

-----------------------------------------------------------------------------
(* Properties.                                                             *)

\* The records in front of the first one that is too long for the reader.
Readable ==
    LET long == {i \in DOMAIN whole : size(whole[i]) > MaxRecordSize}
    IN  SubSeq(whole, 1, IF long = {} THEN Len(whole)
                         ELSE CHOOSE i \in {j - 1 : j \in long} : \A j \in long : i < j)

\* read_all_records gives back every record written before the first tear, up
\* to one above the 1 MB limit, unchanged and in order, wherever the write was
\* cut and whatever was written behind the cut.
WholeRecordsRead == IsPrefix(Readable, read_all_records)

\* A torn record at the end of the file is never taken for a record: no cut
\* of size, header, key or value makes one up.
NothingInvented == ~after => read_all_records = Readable
=============================================================================
