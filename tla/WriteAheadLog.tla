---------------------------- MODULE WriteAheadLog ----------------------------
(***************************************************************************)
(* The write-ahead log: class WriteAheadLog of storage/wal.h and wal.cpp.  *)
(*                                                                         *)
(* The log directory is the function files: one append-only file per       *)
(* millisecond stamp, each a sequence of records (a file that was never    *)
(* created is the empty sequence: the reader treats both alike).  A WAL    *)
(* object exists while stream # "none"; stream is the state of the         *)
(* std::ofstream log_file_, pending what its buffer still holds after a    *)
(* flush that failed.  tears tells where a file holds the first bytes of a *)
(* record and not the rest: <<s, n, 1>> is in it when a write to file s    *)
(* was cut off behind its n-th whole record, and <<s, n, 2>> too when that *)
(* happened there again.                                                   *)
(*                                                                         *)
(* Every member function holds mutex_ from its first to its last line, so  *)
(* each is one atomic action; recover_from_checkpoint, which locks mutex_  *)
(* a second time, is the exception and leaves wedged = TRUE.               *)
(*                                                                         *)
(* accepted and base are history variables: what append_record and         *)
(* create_checkpoint answered true to since log_file_ was last opened, and *)
(* how long the file already was at that moment.                           *)
(***************************************************************************)
EXTENDS Naturals, Sequences, FiniteSets

CONSTANTS
    Keys,      \* keys (std::string)
    Values,    \* values (std::string), EmptyString among them
    EmptyString,
    BigValues, \* values whose record exceeds the 1 MB limit of the reader
    Absent,    \* no value: a key that is not in the map, the value of a DELETE
    NoKey,     \* the key of a record that names none
    MaxTxns,   \* bound: transaction ids are 1 .. MaxTxns
    Stamps,    \* bound: the millisecond stamps that name log files
    MaxLog,    \* bound: records are appended while a file is shorter than this
    MaxTears,  \* bound: writes that are cut off
    ClockStepsBack, \* may std::chrono::system_clock be set back?
    Faults     \* the ways in which the file system may fail

\* "tears": a write that fails, or that the end of the process cuts off, may
\* leave some of its bytes in the file.
FaultKinds == {"writeFails", "flushFails", "openFails", "tears"}

ASSUME ConstantsAssumption ==
    /\ EmptyString \in Values
    /\ BigValues \subseteq Values
    /\ Absent \notin Values
    /\ NoKey \notin Keys
    /\ MaxTxns \in Nat
    /\ MaxLog \in Nat
    /\ MaxTears \in Nat
    /\ Stamps \subseteq Nat \ {0}
    /\ ClockStepsBack \in BOOLEAN
    /\ Faults \subseteq FaultKinds

VARIABLES
    files,         \* the log directory
    tears,         \* the torn records in it
    current,       \* current_log_file_
    stream,        \* log_file_: "none", "good", "bad" (badbit set) or "closed"
    pending,       \* unflushed bytes in the buffer of log_file_
    total_records, \* total_records_
    wedged,        \* mutex_ is held for ever by recover_from_checkpoint
    accepted, base

walVars == <<files, tears, current, stream, pending, total_records, wedged,
             accepted, base>>

-----------------------------------------------------------------------------
(* Records.  The timestamp is left out: nothing ever reads it back.        *)

TxnIds == 1 .. MaxTxns

PutRecord(k, v, id) == [type |-> "PUT", key |-> k, value |-> v, txn |-> id]
DeleteRecord(k, id) == [type |-> "DELETE", key |-> k, value |-> Absent, txn |-> id]
CommitRecord(id) == [type |-> "COMMIT", key |-> NoKey, value |-> Absent, txn |-> id]
CheckpointRecord ==
    [type |-> "CHECKPOINT", key |-> NoKey, value |-> Absent, txn |-> 0]

\* What the engine appends, and what a log file may hold.
TxnRecord == {PutRecord(k, v, id) : k \in Keys, v \in Values, id \in TxnIds}
                \cup {DeleteRecord(k, id) : k \in Keys, id \in TxnIds}
                \cup {CommitRecord(id) : id \in TxnIds}
Record == TxnRecord \cup {CheckpointRecord}

\* read_all_records gives up at the first record longer than 1 MB.
Oversized(rec) == rec.value \in BigValues

-----------------------------------------------------------------------------
(* log_file_.  A write goes to the stream's buffer and a flush hands it to *)
(* the file system.  Only the write is tested: a flush that fails sets     *)
(* badbit and keeps the bytes in the buffer, and the caller is still told  *)
(* true.  From then on every write is refused, until the file is opened    *)
(* anew.  Closing the file tries the buffered bytes one last time.         *)

\* Mutant of WriteOutcomes: write_record_to_file does not test the stream.
UntestedOutcomes ==
    IF stream = "good"
    THEN {"ok"} \cup (Faults \cap {"writeFails", "flushFails"})
    ELSE {"flushFails"}

WriteOutcomes ==
    IF stream = "good"
    THEN {"ok"} \cup (Faults \cap {"writeFails", "flushFails"})
    ELSE {"writeFails"}

Accepts(out) == out # "writeFails"

Torn(s, n) == <<s, n, 1>> \in tears

\* When may holds, the first bytes of a record may end up in the current file.
MayTear(may) ==
    LET n == Len(files[current])
    IN  \/ UNCHANGED tears
        \/ /\ may
           /\ "tears" \in Faults
           /\ Cardinality(tears) < MaxTears
           /\ tears' = tears \cup {<<current, n, IF Torn(current, n) THEN 2 ELSE 1>>}

WriteAndFlush(rec, out) ==
    /\ stream # "none"
    /\ ~wedged
    /\ out \in WriteOutcomes
    /\ files' = IF out = "ok"
                THEN [files EXCEPT ![current] = Append(@, rec)]
                ELSE files
    /\ pending' = IF out = "flushFails" THEN Append(pending, rec) ELSE pending
    /\ accepted' = IF Accepts(out) THEN Append(accepted, rec) ELSE accepted
    /\ stream' = IF stream = "good" /\ out # "ok" THEN "bad" ELSE stream
    /\ MayTear(stream = "good" /\ out # "ok")
    /\ UNCHANGED <<current, wedged, base>>

\* The directory once log_file_ is closed: the buffer is retried, all of it,
\* behind the bytes that a first attempt left (lands), or lost.
MayLand(lands) == lands \in BOOLEAN /\ (lands => pending # << >>)

ClosedFiles(lands) ==
    IF lands THEN [files EXCEPT ![current] = @ \o pending] ELSE files

MayOpen(opens) == opens \in BOOLEAN /\ (~opens => "openFails" \in Faults)

\* Mutant of OpenForAppend: mode trunc in place of app.
OpenTruncated(s, opens, dir) ==
    /\ MayOpen(opens)
    /\ files' = [dir EXCEPT ![s] = << >>]
    /\ current' = s
    /\ stream' = IF opens THEN "good" ELSE "closed"
    /\ pending' = << >>
    /\ accepted' = << >>
    /\ base' = 0

\* Opening in mode app on a directory dir: a file that already has the name
\* keeps its records, and new ones go after them.
OpenForAppend(s, opens, dir) ==
    /\ MayOpen(opens)
    /\ files' = dir
    /\ current' = s
    /\ stream' = IF opens THEN "good" ELSE "closed"
    /\ pending' = << >>
    /\ accepted' = << >>
    /\ base' = Len(dir[s])

\* The stamp open_new_log_file reads from the clock.  Two calls in one
\* millisecond read the same one.
ClockReads(s) == s \in Stamps /\ (ClockStepsBack \/ s >= current)

-----------------------------------------------------------------------------
(* The member functions.                                                   *)

\* The constructor.  The result of open_new_log_file is ignored.
construct(s, opens) ==
    /\ stream = "none"
    /\ ClockReads(s)
    /\ OpenForAppend(s, opens, files)
    /\ total_records' = 0
    /\ wedged' = FALSE
    /\ UNCHANGED tears

\* Mutant of append_record: it tries until the stream takes the record.
AppendUntilAccepted(rec, out) ==
    /\ Accepts(out)
    /\ WriteAndFlush(rec, out)
    /\ total_records' = total_records + 1

append_record(rec, out) ==
    /\ WriteAndFlush(rec, out)
    /\ total_records' = IF Accepts(out) THEN total_records + 1 ELSE total_records

\* A checkpoint is a record like any other; the statistics ignore it.
create_checkpoint(out) ==
    /\ WriteAndFlush(CheckpointRecord, out)
    /\ UNCHANGED total_records

\* What get_stats reports of the log.
get_stats == total_records

\* Closes log_file_, reads the current file and opens it again.  Neither a
\* failed read nor a failed open is reported.
read_all_records(lands, opens) ==
    /\ stream # "none"
    /\ ~wedged
    /\ MayLand(lands)
    /\ MayTear(stream = "bad" /\ ~lands)
    /\ OpenForAppend(current, opens, ClosedFiles(lands))
    /\ UNCHANGED <<total_records, wedged>>

\* Nothing is removed: the log goes on in a file named after the clock.
truncate_log(s, lands, opens) ==
    /\ stream # "none"
    /\ ~wedged
    /\ ClockReads(s)
    /\ MayLand(lands)
    /\ MayTear(stream = "bad" /\ ~lands)
    /\ OpenForAppend(s, opens, ClosedFiles(lands))
    /\ total_records' = IF opens THEN 0 ELSE total_records
    /\ UNCHANGED wedged

\* Locks mutex_ and calls read_all_records, which locks it again: mutex_ is
\* not recursive and the thread waits for itself.
recover_from_checkpoint ==
    /\ stream # "none"
    /\ ~wedged
    /\ wedged' = TRUE
    /\ UNCHANGED <<files, tears, current, stream, pending, total_records, accepted, base>>

\* The process ends: by a crash, in the middle of a write or not, or by an exit
\* whose destructor closes the file and so retries the buffer.
destroy(lands) ==
    /\ stream # "none"
    /\ MayLand(lands)
    /\ MayTear(stream \in {"good", "bad"} /\ ~lands)
    /\ files' = ClosedFiles(lands)
    /\ stream' = "none"
    /\ pending' = << >>
    /\ accepted' = << >>
    /\ base' = 0
    /\ total_records' = 0
    /\ wedged' = FALSE
    /\ UNCHANGED current

-----------------------------------------------------------------------------
(* The log on its own, called in any order.                                *)

WALInit ==
    /\ files = [s \in Stamps |-> << >>]
    /\ tears = {}
    /\ current = 0
    /\ stream = "none"
    /\ pending = << >>
    /\ total_records = 0
    /\ wedged = FALSE
    /\ accepted = << >>
    /\ base = 0

WALNext ==
    \/ \E s \in Stamps, opens \in BOOLEAN : construct(s, opens)
    \/ \E rec \in TxnRecord, out \in WriteOutcomes : append_record(rec, out)
    \/ \E out \in WriteOutcomes : create_checkpoint(out)
    \/ \E lands, opens \in BOOLEAN : read_all_records(lands, opens)
    \/ \E s \in Stamps, lands, opens \in BOOLEAN : truncate_log(s, lands, opens)
    \/ recover_from_checkpoint
    \/ \E lands \in BOOLEAN : destroy(lands)

WALSpec == WALInit /\ [][WALNext]_walVars

-----------------------------------------------------------------------------
(* Properties.                                                             *)

WALTypeOK ==
    /\ files \in [Stamps -> Seq(Record)]
    /\ tears \subseteq Stamps \X Nat \X {1, 2}
    /\ current \in Stamps \cup {0}
    /\ stream \in {"none", "good", "bad", "closed"}
    /\ pending \in Seq(Record)
    /\ total_records \in Nat
    /\ wedged \in BOOLEAN
    /\ accepted \in Seq(Record)
    /\ base \in Nat

\* The open file is what it was when it was opened, then every record that
\* append_record and create_checkpoint answered true to, in order, except
\* that the last of them may still be in the buffer.  Only one can be: the
\* flush whose failure nobody tests leaves the stream bad, and a bad stream
\* refuses everything after it.
AcceptedOnDiskOrPending ==
    stream # "none" =>
        /\ base + Len(accepted) = Len(files[current]) + Len(pending)
        /\ \A i \in 1 .. Len(accepted) :
              accepted[i] = IF base + i <= Len(files[current])
                            THEN files[current][base + i] ELSE pending[1]
        /\ pending # << >> => stream = "bad" /\ Len(pending) = 1

\* No member function ever takes a record out of the log directory: not an
\* open whose name is already taken because two opens read the same
\* millisecond, not a close with the buffer of a failed flush, and not
\* truncate_log either, which only moves on to another file.  (Its comment in
\* wal.h says "remove old records", which would be the end of the only copy:
\* what this promises is what the code does.)
FilesOnlyGrow ==
    [][\A s \in Stamps :
         /\ Len(files[s]) <= Len(files'[s])
         /\ \A i \in 1 .. Len(files[s]) : files'[s][i] = files[s][i]]_walVars
=============================================================================
