------------------------------ MODULE ByteFormat ------------------------------
(***************************************************************************)
(* How the log and the protocol lay integers out: memcpy of a little-      *)
(* endian word.  A byte is a number below Base and a word has two of them, *)
(* enough for a word to be cut in half by a torn write or a lost frame.    *)
(***************************************************************************)
EXTENDS Naturals, Sequences

CONSTANT Base \* values of a byte (256)

ASSUME ByteAssumption == Base \in Nat \ {0, 1}

WordSize == 2

Word(n) == <<n % Base, n \div Base>>

\* The word at offset i (from 0) of the bytes s.
WordAt(s, i) == s[i + 1] + Base * s[i + 2]

\* n bytes of s from offset i.
Bytes(s, i, n) == SubSeq(s, i + 1, i + n)
=============================================================================
