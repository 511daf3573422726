-------------------------- MODULE Durability_proofs --------------------------
(***************************************************************************)
(* Proofs about what PersistentDatabase keeps in its log and gets back     *)
(* from it: COMMIT records, the map and its file, and the refinement of    *)
(* KVStore.                                                                *)
(***************************************************************************)
EXTENDS PersistentDatabase_proofs, FiniteSetTheorems, WellFoundedInduction

(* What a thread's step does to the log and to the transactions.           *)

IsWrite(rec, id) == rec.type \in {"PUT", "DELETE"} /\ rec.txn = id

\* A commit of t would log a record.
Dirty(t) == pc[t] = "open" /\ txn[t].has_writes

\* No transaction becomes dirty, or another one while it is.
NoneDirtied == \A t \in Threads : Dirty(t)' => Dirty(t) /\ txn'[t].id = txn[t].id

LogUntouched ==
    /\ UNCHANGED <<files, tears, current, stream, pending, accepted, base, logged>>
    /\ NoneDirtied

LogMoved ==
    /\ "compact" \in Calls
    /\ \E s \in Stamps, lands, opens \in BOOLEAN : truncate_log(s, lands, opens)
    /\ UNCHANGED <<logged, threadVars>>

\* One record is appended, or refused: a write by the transaction it dirties,
\* a COMMIT by one that is dirty.
LogAppended(rec, out) ==
    /\ out \in WriteOutcomes
    /\ WriteAndFlush(rec, out)
    /\ LogIf(out, rec)
    /\ rec.type = "COMMIT" => \E t \in Threads : Dirty(t) /\ txn[t].id = rec.txn
    /\ \A t \in Threads : Dirty(t)' =>
          /\ txn'[t].id = txn[t].id
          /\ Dirty(t) \/ (Accepts(out) /\ IsWrite(rec, txn[t].id))

\* A thread between its calls, or in the middle of one, stays there.
LEMMA StillClean ==
    ASSUME DBInv, NEW t \in Threads, NEW to, pc' = [pc EXCEPT ![t] = to],
           \A u \in Threads : u # t => txn'[u] = txn[u],
           to = "open" => ~txn'[t].has_writes
    PROVE  NoneDirtied
  BY DEF NoneDirtied, Dirty, DBInv, TypeOK

\* The second half of a write.
LEMMA WriteDirties ==
    ASSUME DBInv, NEW t \in Threads, NEW out \in WriteOutcomes, PutLog(t, out) \/ DelLog(t, out)
    PROVE  \E rec \in Record : LogAppended(rec, out)
<1> DEFINE put == PutRecord(arg[t].key, arg[t].value, txn[t].id)
           del == DeleteRecord(arg[t].key, txn[t].id)
<1>1. /\ pc'[t] = "open" /\ txn'[t].id = txn[t].id /\ txn'[t].has_writes = Accepts(out)
      /\ \A u \in Threads : u # t => pc'[u] = pc[u] /\ txn'[u] = txn[u]
  BY DEF PutLog, DelLog, HasWritesAfter, DBInv, TypeOK
<1>2. ASSUME NEW rec, WriteAndFlush(rec, out), LogIf(out, rec), IsWrite(rec, txn[t].id)
      PROVE  LogAppended(rec, out)
  BY <1>1, <1>2 DEF LogAppended, Dirty, IsWrite
<1>3. CASE PutLog(t, out)
  <2>1. put \in Record
    BY <1>3, RecordFacts DEF PutLog, Up, DBInv, InFlightInv
  <2>2. WriteAndFlush(put, out) /\ LogIf(out, put) /\ IsWrite(put, txn[t].id)
    BY <1>3 DEF PutLog, append_record, IsWrite, PutRecord
  <2> QED
    BY <1>2, <2>1, <2>2
<1>4. CASE DelLog(t, out)
  <2>1. del \in Record
    BY <1>4, RecordFacts DEF DelLog, Up, DBInv, InFlightInv
  <2>2. WriteAndFlush(del, out) /\ LogIf(out, del) /\ IsWrite(del, txn[t].id)
    BY <1>4 DEF DelLog, append_record, IsWrite, DeleteRecord
  <2> QED
    BY <1>2, <2>1, <2>2
<1> QED
  BY <1>3, <1>4

\* A step of a thread is one of the three.
LEMMA ThreadStepKinds ==
    ASSUME DBInv, NEW t \in Threads, Call(t) \/ Finish(t)
    PROVE  /\ UNCHANGED <<phase, pos>> /\ phase = "up"
           /\ \/ LogUntouched
              \/ LogMoved
              \/ \E rec \in Record, out \in WriteOutcomes : LogAppended(rec, out)
<1> DEFINE Kind == \/ LogUntouched
                   \/ LogMoved
                   \/ \E rec \in Record, out \in WriteOutcomes : LogAppended(rec, out)
<1>1. ASSUME NEW out \in WriteOutcomes, PutLog(t, out) \/ DelLog(t, out) PROVE Kind
  BY <1>1, WriteDirties
<1>2. ASSUME NEW out \in WriteOutcomes, CommitLog(t, out) PROVE Kind
  <2>1. CommitRecord(txn[t].id) \in Record
    BY <1>2, RecordFacts DEF CommitLog, Up, DBInv, InFlightInv
  <2>2. LogAppended(CommitRecord(txn[t].id), out)
    BY <1>2 DEF CommitLog, Up, append_record, LogAppended, Dirty, CommitRecord, threadVars
  <2> QED
    BY <2>1, <2>2
<1>3. ASSUME NEW out \in WriteOutcomes, Backup(t, out) PROVE Kind
  <2>1. LogAppended(CheckpointRecord, out)
    BY <1>3 DEF Backup, create_checkpoint, LogAppended, Dirty, CheckpointRecord, threadVars
  <2> QED
    BY <2>1, RecordFacts
<1>4. ASSUME NEW out \in WriteOutcomes, ShutdownCheckpoint(t, out) PROVE Kind
  <2>1. NoneDirtied
    BY <1>4, StillClean DEF ShutdownCheckpoint
  <2>2. LogAppended(CheckpointRecord, out)
    BY <1>4, <2>1 DEF ShutdownCheckpoint, create_checkpoint, LogAppended, NoneDirtied, CheckpointRecord
  <2> QED
    BY <2>2, RecordFacts
<1>5. ASSUME NEW s \in Stamps, NEW lands \in BOOLEAN, NEW opens \in BOOLEAN,
             Compact(t, s, lands, opens)
      PROVE  Kind
  BY <1>5 DEF Compact, LogMoved
<1>6. ASSUME Begin(t) \/ End(t) \/ StatsLock(t) \/ Restore(t) \/ StatsRead(t) \/ ShutdownFlag(t)
      PROVE  Kind
  <2>1. NoneDirtied
    <3>1. Begin(t) => ~txn'[t].has_writes
      BY DEF Begin, DBInv, TypeOK
    <3>2. \A u \in Threads : u # t => txn'[u] = txn[u]
      BY <1>6 DEF Begin, End, StatsLock, Restore, StatsRead, ShutdownFlag, DBInv, TypeOK
    <3>3. PICK to : pc' = [pc EXCEPT ![t] = to] /\ (to = "open" => Begin(t))
      BY <1>6 DEF Begin, End, StatsLock, Restore, StatsRead, ShutdownFlag
    <3> QED
      BY <3>1, <3>2, <3>3, StillClean
  <2>2. UNCHANGED <<files, tears, current, stream, pending, accepted, base, logged>>
    BY <1>6 DEF Begin, End, StatsLock, Restore, StatsRead, ShutdownFlag, walVars,
                recover_from_checkpoint
  <2> QED
    BY <2>1, <2>2 DEF LogUntouched
<1>7. ASSUME \/ BeginRefused(t) \/ CommitNothing(t) \/ Rollback(t)
             \/ \E k \in Keys : Get(t, k) \/ DelMissing(t, k)
             \/ \E lo \in Keys, hi \in {k + 1 : k \in Keys} : Scan(t, lo, hi)
      PROVE  Kind
  BY <1>7 DEF BeginRefused, CommitNothing, Rollback, Get, DelMissing, Scan, walVars, threadVars,
              LogUntouched, NoneDirtied, Dirty
<1>8. ASSUME NEW k \in Keys, DelApply(t, k) \/ \E v \in Values : PutApply(t, k, v) PROVE Kind
  <2>1. NoneDirtied
    <3>1. \A u \in Threads : u # t => txn'[u] = txn[u]
      BY <1>8 DEF DelApply, PutApply, DBInv, TypeOK
    <3>2. PICK to : pc' = [pc EXCEPT ![t] = to] /\ to # "open"
      BY <1>8 DEF DelApply, PutApply
    <3> QED
      BY <3>1, <3>2, StillClean
  <2> QED
    BY <1>8, <2>1 DEF DelApply, PutApply, walVars, LogUntouched
<1>9. Kind
  BY <1>1, <1>2, <1>3, <1>4, <1>5, <1>6, <1>7, <1>8 DEF Call, Finish
<1>10. UNCHANGED <<phase, pos>> /\ phase = "up"
  BY DEF Call, Finish, Begin, BeginRefused, End, CommitNothing, Rollback, Get, DelMissing, DelApply,
         PutApply, Scan, CommitLog, Backup, ShutdownCheckpoint, StatsLock, Restore, Compact, PutLog,
         DelLog, StatsRead, ShutdownFlag, Up, sysVars
<1> QED
  BY <1>9, <1>10

-----------------------------------------------------------------------------
(* COMMIT records.                                                         *)

Vouched(log, id) == \E j \in 1 .. Len(log) : IsWrite(log[j], id)

CommitsVouched(log) ==
    \A i \in 1 .. Len(log) : log[i].type = "COMMIT" =>
        \E j \in 1 .. i - 1 : IsWrite(log[j], log[i].txn)

\* What a dirty transaction wrote is in the log.
DirtyVouched(log) == \A t \in Threads : Dirty(t) => Vouched(log, txn[t].id)

\* initialize has replayed the first pos records of the file.
ReplayInv ==
    /\ phase = "down" => logged = << >> /\ pos = 0
    /\ phase = "recovering" =>
          /\ Len(logged) = pos /\ pos <= Len(files[current])
          /\ \A i \in 1 .. pos : logged[i] = files[current][i]

\* An open file is at least as long as it was when it was opened.
BaseInv == stream # "none" => base <= Len(files[current])

\* Without compactions a COMMIT is in the file that its write is in.
FilesVouched ==
    /\ \A s \in Stamps : CommitsVouched(files[s])
    /\ CommitsVouched(accepted)
    /\ DirtyVouched(accepted)

\* A process that has not served anybody, and comes back never, has no records.
FilesEmpty == phase # "up" => tears = {} /\ \A s \in Stamps : files[s] = << >>

\* No torn record is ever there to be read: none is left, or nobody comes back.
NothingGarbled == "crash" \notin Calls \/ "tears" \notin Faults

CommitInv ==
    /\ ReplayInv
    /\ BaseInv
    /\ CommitsVouched(logged)
    /\ DirtyVouched(logged)
    /\ "compact" \in Calls \/ FilesVouched
    /\ "crash" \in Calls \/ FilesEmpty

LEMMA AppendFacts ==
    ASSUME NEW log \in Seq(Record), NEW rec \in Record
    PROVE  /\ Len(log) \in Nat /\ Len(Append(log, rec)) = Len(log) + 1
           /\ Append(log, rec)[Len(log) + 1] = rec
           /\ \A i \in 1 .. Len(log) : Append(log, rec)[i] = log[i]
  OBVIOUS

\* A COMMIT whose write is there may be appended, and what is vouched for stays so.
LEMMA AppendVouched ==
    ASSUME NEW log \in Seq(Record), NEW rec \in Record
    PROVE  /\ CommitsVouched(log) /\ (rec.type = "COMMIT" => Vouched(log, rec.txn))
                => CommitsVouched(Append(log, rec))
           /\ \A id : Vouched(log, id) \/ IsWrite(rec, id) => Vouched(Append(log, rec), id)
<1> DEFINE longer == Append(log, rec)
<1>1. /\ Len(log) \in Nat /\ Len(longer) = Len(log) + 1 /\ longer[Len(log) + 1] = rec
      /\ \A i \in 1 .. Len(log) : longer[i] = log[i]
  BY AppendFacts
<1> HIDE DEF longer
<1>2. ASSUME CommitsVouched(log), rec.type = "COMMIT" => Vouched(log, rec.txn),
             NEW i \in 1 .. Len(longer), longer[i].type = "COMMIT"
      PROVE  \E j \in 1 .. i - 1 : IsWrite(longer[j], longer[i].txn)
  <2>1. CASE i = Len(log) + 1
    BY <1>1, <1>2, <2>1 DEF Vouched
  <2>2. CASE i \in 1 .. Len(log)
    <3>1. PICK j \in 1 .. i - 1 : IsWrite(log[j], log[i].txn)
      BY <1>1, <1>2, <2>2 DEF CommitsVouched
    <3> QED
      BY <1>1, <2>2, <3>1
  <2> QED
    BY <1>1, <2>1, <2>2
<1>3. ASSUME NEW id, Vouched(log, id) \/ IsWrite(rec, id) PROVE Vouched(longer, id)
  BY <1>1, <1>3 DEF Vouched
<1> QED
  BY <1>2, <1>3 DEF CommitsVouched, longer

\* The accepted records of an open log are in its file, but for the last if
\* that is in the buffer.
LEMMA AcceptedInFile ==
    ASSUME WALInv, BaseInv, stream # "none", NEW i \in 1 .. Len(accepted)
    PROVE  /\ pending = << >> \/ i < Len(accepted)
                => base + i \in 1 .. Len(files[current]) /\ accepted[i] = files[current][base + i]
           /\ pending # << >> /\ i = Len(accepted) => pending = <<accepted[i]>>
<1> USE DEF WALInv, WALTypeOK, NamedWhenOpen
<1>1. /\ Len(accepted) \in Nat /\ Len(pending) \in Nat /\ base \in Nat
      /\ Len(files[current]) \in Nat
      /\ base + Len(accepted) = Len(files[current]) + Len(pending)
      /\ pending # << >> => Len(pending) = 1
      /\ pending = << >> => Len(pending) = 0
  BY DEF AcceptedOnDiskOrPending
<1>2. accepted[i] = IF base + i <= Len(files[current]) THEN files[current][base + i] ELSE pending[1]
  BY DEF AcceptedOnDiskOrPending
<1>3. ASSUME pending = << >> \/ i < Len(accepted)
      PROVE  base + i \in 1 .. Len(files[current]) /\ accepted[i] = files[current][base + i]
  <2> HIDE DEF WALInv, WALTypeOK, NamedWhenOpen
  <2>1. base + i <= Len(files[current])
    <3> DEFINE rest == Len(pending)
    <3>1. CASE pending = << >>
      BY <1>1, <3>1
    <3>2. CASE pending # << >>
      <4>1. i < Len(accepted) /\ rest = 1 /\ i \in Nat
        BY <1>1, <1>3, <3>2
      <4> HIDE DEF rest
      <4> QED
        BY <1>1, <4>1 DEF rest
    <3> QED
      BY <1>3, <3>1, <3>2
  <2>2. base + i \in 1 .. Len(files[current])
    BY <1>1, <2>1
  <2> QED
    BY <1>2, <2>1, <2>2
<1>4. ASSUME pending # << >>, i = Len(accepted) PROVE pending = <<accepted[i]>>
  <2>1. accepted[i] = pending[1]
    BY <1>1, <1>2, <1>4
  <2>2. pending = <<pending[1]>>
    BY <1>1, <1>4
  <2> QED
    BY <2>1, <2>2
<1> QED
  BY <1>3, <1>4

-----------------------------------------------------------------------------
(* CommitInv, when a thread takes a step.                                  *)

\* Nothing is appended.
LEMMA UntouchedCommits ==
    ASSUME DBInv, CommitInv, LogUntouched, UNCHANGED <<phase, pos>>
    PROVE  CommitInv'
<1> USE DEF LogUntouched, CommitInv
<1>1. ReplayInv' /\ BaseInv' /\ CommitsVouched(logged)' /\ FilesEmpty' = FilesEmpty
  BY DEF ReplayInv, BaseInv, CommitsVouched, FilesEmpty
<1>2. DirtyVouched(logged)'
  BY DEF DirtyVouched, Vouched, NoneDirtied
<1>3. FilesVouched => FilesVouched'
  BY DEF FilesVouched, DirtyVouched, CommitsVouched, Vouched, NoneDirtied
<1> QED
  BY <1>1, <1>2, <1>3

\* A record is appended to logged and, unless it is refused, to accepted.
LEMMA AppendedCommits ==
    ASSUME DBInv, WALInv', CommitInv, NEW rec \in Record, NEW out, LogAppended(rec, out),
           phase = "up", UNCHANGED <<phase, pos>>
    PROVE  CommitInv'
<1> USE DEF LogAppended
<1>1. /\ logged \in Seq(Record) /\ accepted \in Seq(Record) /\ pending \in Seq(Record)
      /\ files \in [Stamps -> Seq(Record)] /\ current \in Stamps /\ base \in Nat
      /\ stream # "none"
  BY DEF DBInv, TypeOK, WALTypeOK, WALInv, NamedWhenOpen, WriteAndFlush
<1>2. /\ logged' = IF Accepts(out) THEN Append(logged, rec) ELSE logged
      /\ accepted' = IF Accepts(out) THEN Append(accepted, rec) ELSE accepted
      /\ files' = IF out = "ok" THEN [files EXCEPT ![current] = Append(files[current], rec)] ELSE files
      /\ UNCHANGED <<current, base>>
  BY DEF LogIf, WriteAndFlush
<1>3. ASSUME NEW log \in Seq(Record), NEW longer,
             longer = IF Accepts(out) THEN Append(log, rec) ELSE log,
             CommitsVouched(log), DirtyVouched(log)
      PROVE  /\ CommitsVouched(longer)
             /\ \A t \in Threads : Dirty(t)' => Vouched(longer, txn'[t].id)
  <2>1. rec.type = "COMMIT" => Vouched(log, rec.txn)
    BY <1>3 DEF DirtyVouched
  <2>2. CommitsVouched(longer)
    BY <1>3, <2>1, AppendVouched
  <2>3. ASSUME NEW t \in Threads, Dirty(t)' PROVE Vouched(longer, txn'[t].id)
    BY <1>3, <2>3, AppendVouched DEF DirtyVouched
  <2> QED
    BY <2>2, <2>3
<1>4. CommitsVouched(logged') /\ DirtyVouched(logged)'
  BY <1>1, <1>2, <1>3 DEF CommitInv, DirtyVouched
<1>5. ASSUME FilesVouched PROVE FilesVouched'
  <2>1. CommitsVouched(accepted') /\ DirtyVouched(accepted)'
    BY <1>1, <1>2, <1>3, <1>5 DEF FilesVouched, DirtyVouched
  <2>2. ASSUME NEW s \in Stamps PROVE CommitsVouched(files'[s])
    <3>1. CASE files'[s] = files[s]
      BY <1>5, <3>1 DEF FilesVouched
    <3>2. CASE out = "ok" /\ s = current
      <4>1. files'[s] = Append(files[s], rec)
        BY <1>1, <1>2, <3>2
      <4>2. pending = << >>
        BY <3>2 DEF DBInv, WALInv, AcceptedOnDiskOrPending, WriteAndFlush, WriteOutcomes
      <4>3. rec.type = "COMMIT" => Vouched(accepted, rec.txn)
        BY <1>5 DEF FilesVouched, DirtyVouched
      <4>4. Vouched(accepted, rec.txn) => Vouched(files[s], rec.txn)
        BY <1>1, <3>2, <4>2, AcceptedInFile DEF DBInv, CommitInv, Vouched
      <4> QED
        BY <1>1, <1>5, <4>1, <4>3, <4>4, AppendVouched DEF FilesVouched
    <3> QED
      BY <1>1, <1>2, <3>1, <3>2
  <2> QED
    BY <2>1, <2>2 DEF FilesVouched
<1>6. BaseInv'
  <2>1. Len(files[current]) <= Len(files'[current])
    BY <1>1, <1>2, AppendFacts
  <2> QED
    BY <1>1, <1>2, <2>1 DEF CommitInv, BaseInv, DBInv, WALInv, WALTypeOK
<1>7. ReplayInv' /\ FilesEmpty'
  BY DEF ReplayInv, FilesEmpty
<1> QED
  BY <1>4, <1>5, <1>6, <1>7 DEF CommitInv

\* The log goes on in another file.
LEMMA MovedCommits ==
    ASSUME DBInv, CommitInv, LogMoved, phase = "up", UNCHANGED <<phase, pos>>
    PROVE  CommitInv'
<1> USE DEF LogMoved, threadVars
<1>1. BaseInv'
  <2>1. \E s \in Stamps, lands \in BOOLEAN : /\ base' = Len(ClosedFiles(lands)[s])
                                             /\ current' = s /\ files' = ClosedFiles(lands)
    BY DEF truncate_log, OpenForAppend
  <2>2. stream # "none"
    BY DEF truncate_log
  <2>3. base' = Len(files'[current']) /\ base' \in Nat
    BY <2>1, <2>2, ClosedFilesExtend DEF DBInv, WALInv
  <2> QED
    BY <2>3 DEF BaseInv
<1>2. CommitsVouched(logged') /\ DirtyVouched(logged)'
  BY DEF CommitInv, DirtyVouched, Dirty
<1>3. ReplayInv' /\ FilesEmpty'
  BY DEF ReplayInv, FilesEmpty
<1> QED
  BY <1>1, <1>2, <1>3 DEF CommitInv

-----------------------------------------------------------------------------
(* CommitInv, when the process starts, recovers and ends.                  *)

\* Before initialize returns nobody has a transaction.
LEMMA NobodyDirty == QuietInv /\ phase # "up" => \A t \in Threads : ~Dirty(t)
  BY DEF QuietInv, Dirty

LEMMA NothingToVouch == CommitsVouched(<< >>)
  BY DEF CommitsVouched

\* One more record of the file has been replayed.
LEMMA ReplayOne ==
    ASSUME DBInv, ReplayInv, RecoverRecord
    PROVE  /\ ReplayInv'
           /\ files[current][pos + 1] \in Record /\ logged' = Append(logged, files[current][pos + 1])
           /\ current \in Stamps /\ pos \in Nat /\ pos + 1 \in 1 .. Len(files[current])
           /\ Len(logged) = pos /\ \A i \in 1 .. pos : logged[i] = files[current][i]
<1> DEFINE file == files[current]
           rec == file[pos + 1]
<1>1. /\ phase = "recovering" /\ logged' = Append(logged, rec) /\ pos' = pos + 1
      /\ pos < Len(file) /\ phase' = phase /\ UNCHANGED <<files, current>>
  BY DEF RecoverRecord, AtEndOfLog, walVars
<1>2. /\ current \in Stamps /\ file \in Seq(Record) /\ Len(file) \in Nat /\ pos \in Nat
      /\ logged \in Seq(Record)
  BY <1>1 DEF DBInv, TypeOK, WALTypeOK, PhaseInv, WALInv, NamedWhenOpen
<1>3. Len(logged) = pos /\ \A i \in 1 .. pos : logged[i] = file[i]
  BY <1>1 DEF ReplayInv
<1> HIDE DEF file
<1>4. rec \in Record /\ pos + 1 \in 1 .. Len(file)
  BY <1>1, <1>2
<1>5. Len(logged') = pos' /\ (\A i \in 1 .. pos' : logged'[i] = file[i]) /\ pos' <= Len(file)
  BY <1>1, <1>2, <1>3, <1>4, AppendFacts
<1>6. ReplayInv'
  BY <1>1, <1>5 DEF ReplayInv, file
<1> QED
  BY <1>1, <1>2, <1>3, <1>4, <1>6 DEF file

LEMMA NotGarbled ==
    ASSUME tears = {}, NEW rec, RecoverGarbled(rec)
    PROVE  FALSE
  BY DEF RecoverGarbled, Torn

\* The record that initialize replays next, as the file vouches for it.
LEMMA ReplayedCommits ==
    ASSUME DBInv, DBInv', CommitInv, RecoverRecord, "crash" \notin Calls \/ "compact" \notin Calls
    PROVE  CommitInv'
<1> DEFINE file == files[current]
           rec == file[pos + 1]
<1>1. /\ phase = "recovering" /\ phase' = phase
      /\ UNCHANGED <<files, tears, current, stream, pending, accepted, base, pc, txn>>
  BY DEF RecoverRecord, walVars, threadVars
<1>2. /\ ReplayInv' /\ rec \in Record /\ logged' = Append(logged, rec) /\ current \in Stamps
      /\ pos \in Nat /\ pos + 1 \in 1 .. Len(file)
      /\ Len(logged) = pos /\ \A i \in 1 .. pos : logged[i] = file[i]
  BY ReplayOne DEF CommitInv
<1>3. FilesVouched
  <2>1. CASE "compact" \notin Calls
    BY <2>1 DEF CommitInv
  <2>2. CASE "crash" \notin Calls
    <3>1. file = << >>
      BY <1>1, <1>2, <2>2 DEF CommitInv, FilesEmpty
    <3> QED
      BY <1>2, <3>1
  <2> QED
    BY <2>1, <2>2
<1> HIDE DEF file
<1>4. rec.type = "COMMIT" => Vouched(logged, rec.txn)
  <2> SUFFICES ASSUME rec.type = "COMMIT" PROVE Vouched(logged, rec.txn)
    OBVIOUS
  <2>1. PICK j \in 1 .. (pos + 1) - 1 : IsWrite(file[j], rec.txn)
    BY <1>2, <1>3 DEF FilesVouched, CommitsVouched, file
  <2>2. j \in 1 .. pos
    BY <1>2, <2>1
  <2>3. logged[j] = file[j] /\ j \in 1 .. Len(logged)
    BY <1>2, <2>2
  <2>4. IsWrite(logged[j], rec.txn)
    BY <2>1, <2>3
  <2> HIDE DEF rec
  <2> QED
    BY <2>3, <2>4 DEF Vouched
<1> HIDE DEF rec
<1>5. CommitsVouched(logged')
  BY <1>2, <1>4, AppendVouched DEF CommitInv, DBInv, TypeOK
<1>6. \A t \in Threads : ~Dirty(t)'
  BY <1>1, NobodyDirty DEF DBInv, Dirty
<1>7. BaseInv' /\ FilesVouched' /\ DirtyVouched(logged)'
  BY <1>1, <1>3, <1>6 DEF CommitInv, BaseInv, FilesVouched, CommitsVouched, DirtyVouched
<1>8. "crash" \in Calls \/ FilesEmpty'
  BY <1>1 DEF CommitInv, FilesEmpty
<1> QED
  BY <1>2, <1>5, <1>7, <1>8 DEF CommitInv

\* A buffered record that still reaches the file when it is closed is the last
\* one that was accepted: its write is in the file before it.
LEMMA LandedCommits ==
    ASSUME WALInv, BaseInv, FilesVouched, stream # "none", NEW lands \in BOOLEAN, MayLand(lands),
           NEW s \in Stamps
    PROVE  CommitsVouched(ClosedFiles(lands)[s])
<1> DEFINE n == Len(accepted)
           rec == accepted[n]
           file == files[current]
<1>1. /\ current \in Stamps /\ files \in [Stamps -> Seq(Record)] /\ accepted \in Seq(Record)
      /\ pending \in Seq(Record) /\ base \in Nat
  BY DEF WALInv, WALTypeOK, NamedWhenOpen
<1>2. CASE ~(lands /\ s = current)
  BY <1>1, <1>2 DEF ClosedFiles, FilesVouched
<1>3. CASE lands /\ s = current
  <2>1. pending # << >>
    BY <1>3 DEF MayLand
  <2>2. n \in 1 .. Len(accepted)
    <3>1. Len(pending) = 1 /\ base + n = Len(file) + Len(pending) /\ base <= Len(file)
      BY <2>1 DEF WALInv, AcceptedOnDiskOrPending, BaseInv
    <3>2. n \in Nat /\ Len(file) \in Nat
      BY <1>1
    <3> HIDE DEF n, file
    <3>3. n >= 1
      BY <1>1, <3>1, <3>2
    <3> QED
      BY <3>2, <3>3 DEF n
  <2>3. pending = <<rec>> /\ rec \in Record
    BY <1>1, <2>1, <2>2, AcceptedInFile
  <2>4. ASSUME rec.type = "COMMIT" PROVE Vouched(file, rec.txn)
    <3>1. PICK j \in 1 .. n - 1 : IsWrite(accepted[j], rec.txn)
      BY <2>2, <2>4 DEF FilesVouched, CommitsVouched
    <3>2. j \in 1 .. Len(accepted) /\ j < Len(accepted)
      BY <2>2, <3>1
    <3>3. base + j \in 1 .. Len(file) /\ accepted[j] = file[base + j]
      BY <3>2, AcceptedInFile
    <3> QED
      BY <3>1, <3>3 DEF Vouched
  <2>5. ClosedFiles(lands)[s] = file \o <<rec>>
    BY <1>1, <1>3, <2>3 DEF ClosedFiles
  <2> HIDE DEF rec
  <2>6. file \o <<rec>> = Append(file, rec)
    BY <1>1, <2>3
  <2>7. CommitsVouched(Append(file, rec))
    BY <1>1, <2>3, <2>4, AppendVouched DEF FilesVouched
  <2> QED
    BY <2>5, <2>6, <2>7
<1> QED
  BY <1>2, <1>3

LEMMA SystemCommits ==
    ASSUME DBInv, DBInv', CommitInv, System, NothingGarbled,
           "crash" \notin Calls \/ "compact" \notin Calls
    PROVE  CommitInv'
<1>1. ASSUME NEW s \in Stamps, NEW opens \in BOOLEAN, Start(s, opens) PROVE CommitInv'
  <2> USE <1>1 DEF Start, construct, OpenForAppend, threadVars
  <2>1. phase = "down" /\ phase' = "recovering" /\ logged' = << >> /\ pos' = 0
    BY DEF CommitInv, ReplayInv
  <2>2. \A t \in Threads : ~Dirty(t)'
    BY NobodyDirty DEF DBInv, Dirty
  <2>3. files' = files /\ accepted' = << >> /\ current' = s /\ base' = Len(files[s])
    OBVIOUS
  <2>4. Len(files[s]) \in Nat
    BY DEF DBInv, TypeOK, WALTypeOK
  <2>5. ReplayInv' /\ BaseInv'
    BY <2>1, <2>3, <2>4 DEF ReplayInv, BaseInv
  <2>6. CommitsVouched(logged') /\ DirtyVouched(logged)'
    BY <2>1, <2>2, NothingToVouch DEF DirtyVouched
  <2>7. FilesVouched => FilesVouched'
    BY <2>2, <2>3, NothingToVouch DEF FilesVouched, DirtyVouched
  <2>8. FilesEmpty => FilesEmpty'
    BY <2>1, <2>3 DEF FilesEmpty
  <2> QED
    BY <2>5, <2>6, <2>7, <2>8 DEF CommitInv
<1>2. ASSUME RecoverRecord PROVE CommitInv'
  BY <1>2, ReplayedCommits
<1>5. ASSUME NEW rec \in Record, RecoverGarbled(rec) PROVE FALSE
  <2>1. tears = {}
    BY <1>5 DEF NothingGarbled, CommitInv, FilesEmpty, RecoverGarbled, DBInv, WALInv, TearsAreFaults
  <2> QED
    BY <1>5, <2>1, NotGarbled
<1>3. ASSUME NEW opens \in BOOLEAN, FinishRecovery(opens) PROVE CommitInv'
  <2> USE <1>3 DEF FinishRecovery, read_all_records, OpenForAppend, threadVars
  <2>1. files' = files /\ accepted' = << >> /\ current' = current /\ base' = Len(files[current])
    BY DEF ClosedFiles
  <2>2. \A t \in Threads : ~Dirty(t)'
    BY NobodyDirty DEF DBInv, Dirty
  <2>3. current \in Stamps /\ Len(files[current]) \in Nat
    BY DEF DBInv, TypeOK, WALTypeOK, WALInv, NamedWhenOpen
  <2>4. BaseInv' /\ ReplayInv' /\ FilesEmpty'
    BY <2>1, <2>3 DEF BaseInv, ReplayInv, FilesEmpty
  <2>5. CommitsVouched(logged') /\ DirtyVouched(logged)'
    BY <2>2 DEF CommitInv, DirtyVouched
  <2>6. FilesVouched => FilesVouched'
    BY <2>1, <2>2, NothingToVouch DEF FilesVouched, DirtyVouched
  <2> QED
    BY <2>4, <2>5, <2>6 DEF CommitInv
<1>4. ASSUME NEW lands \in BOOLEAN, Crash(lands) PROVE CommitInv'
  <2> USE <1>4 DEF Crash, destroy
  <2>1. \A t \in Threads : ~Dirty(t)'
    BY NobodyDirty DEF DBInv, Dirty
  <2>2. ReplayInv' /\ BaseInv'
    BY DEF ReplayInv, BaseInv
  <2>3. CommitsVouched(logged') /\ DirtyVouched(logged)'
    BY <2>1, NothingToVouch DEF DirtyVouched
  <2>4. FilesVouched /\ "crash" \in Calls
    BY DEF CommitInv
  <2>5. \A s \in Stamps : CommitsVouched(files'[s])
    BY <2>4, LandedCommits DEF DBInv, CommitInv
  <2>6. FilesVouched'
    BY <2>1, <2>5, NothingToVouch DEF FilesVouched, DirtyVouched
  <2> QED
    BY <2>2, <2>3, <2>4, <2>6 DEF CommitInv
<1> QED
  BY <1>1, <1>2, <1>3, <1>4, <1>5 DEF System, RecoverTurn

-----------------------------------------------------------------------------
\* A COMMIT never comes before a write of its transaction, whatever fails and
\* however the threads interleave, in a process that is never restarted; and
\* across restarts too, in a log that is never compacted and where no write is
\* cut off.  A compaction and a restart between them split a transaction over
\* two files of which one is read; a torn record may be read as anything.
THEOREM CommitsFollowWrites ==
    ASSUME "crash" \notin Calls \/ ("compact" \notin Calls /\ "tears" \notin Faults)
    PROVE  Spec => []CommitFollowsWrite
<1>1. Init => CommitInv
  <2> SUFFICES ASSUME Init PROVE CommitInv
    OBVIOUS
  <2> USE DEF Init, WALInit
  <2>1. \A t \in Threads : ~Dirty(t)
    BY DEF Dirty
  <2>2. ReplayInv /\ BaseInv /\ FilesEmpty
    BY DEF ReplayInv, BaseInv, FilesEmpty
  <2>3. CommitsVouched(logged) /\ DirtyVouched(logged) /\ FilesVouched
    BY <2>1, NothingToVouch DEF DirtyVouched, FilesVouched
  <2> QED
    BY <2>2, <2>3 DEF CommitInv
<1>2. DBInv /\ DBInv' /\ CommitInv /\ [Next]_vars => CommitInv'
  <2> SUFFICES ASSUME DBInv, DBInv', CommitInv, [Next]_vars PROVE CommitInv'
    OBVIOUS
  <2>1. ASSUME NEW t \in Threads, Call(t) \/ Finish(t) PROVE CommitInv'
    <3>1. /\ UNCHANGED <<phase, pos>> /\ phase = "up"
          /\ \/ LogUntouched
             \/ LogMoved
             \/ \E rec \in Record, out \in WriteOutcomes : LogAppended(rec, out)
      BY <2>1, ThreadStepKinds
    <3> QED
      BY <3>1, UntouchedCommits, MovedCommits, AppendedCommits DEF DBInv
  <2>2. CASE UNCHANGED vars
    <3>1. LogUntouched /\ UNCHANGED <<phase, pos>>
      BY <2>2 DEF vars, walVars, sysVars, threadVars, LogUntouched, NoneDirtied, Dirty
    <3> QED
      BY <3>1, UntouchedCommits
  <2> QED
    BY <2>1, <2>2, SystemCommits DEF Next, NothingGarbled
<1>3. DBInv /\ CommitInv => CommitFollowsWrite
  BY DEF DBInv, TypeOK, CommitInv, CommitsVouched, CommitFollowsWrite, IsWrite
<1> QED
  BY <1>1, <1>2, <1>3, DBInvariant, PTL DEF Spec

-----------------------------------------------------------------------------
(* The map, on a disk that does not fail.                                  *)

\* Without faults every record is accepted and written at once.
GoodInv == stream \in {"none", "good"} /\ pending = << >>

LEMMA GoodStep ==
    ASSUME Faults = {}, GoodInv, [WALNext]_walVars
    PROVE  GoodInv'
<1>1. ASSUME NEW rec, NEW out, WriteAndFlush(rec, out) PROVE GoodInv'
  BY <1>1 DEF GoodInv, WriteAndFlush, WriteOutcomes
<1>2. ASSUME NEW s, NEW opens, NEW dir, OpenForAppend(s, opens, dir) PROVE GoodInv'
  BY <1>2 DEF GoodInv, OpenForAppend, MayOpen
<1>3. ASSUME NEW lands, destroy(lands) PROVE GoodInv'
  BY <1>3 DEF GoodInv, destroy
<1>4. ASSUME recover_from_checkpoint \/ UNCHANGED walVars PROVE GoodInv'
  BY <1>4 DEF GoodInv, recover_from_checkpoint, walVars
<1> QED
  BY <1>1, <1>2, <1>3, <1>4
     DEF WALNext, construct, append_record, create_checkpoint, read_all_records, truncate_log

LEMMA GoodWrites ==
    ASSUME Faults = {}, GoodInv, stream # "none"
    PROVE  WriteOutcomes = {"ok"}
  BY DEF GoodInv, WriteOutcomes

\* The last record about a key is one record.
LEMMA LastWriteUnique ==
    ASSUME NEW log \in Seq(Record), NEW k, NEW v, NEW w, LastWrite(log, k, v), LastWrite(log, k, w)
    PROVE  v = w
<1>1. ASSUME NEW i \in DOMAIN log, Touches(log[i], k), \A j \in DOMAIN log : j > i => ~Touches(log[j], k),
             NEW u, LastWrite(log, k, u)
      PROVE  u = log[i].value
  <2>1. PICK m \in DOMAIN log : /\ Touches(log[m], k) /\ log[m].value = u
                                /\ \A j \in DOMAIN log : j > m => ~Touches(log[j], k)
    BY <1>1 DEF LastWrite
  <2>2. i \in Nat /\ m \in Nat
    OBVIOUS
  <2>3. i = m
    BY <1>1, <2>1, <2>2
  <2> QED
    BY <2>1, <2>3
<1> QED
  BY <1>1 DEF LastWrite

\* A step that leaves the map, its lock and the write under way alone.
MapKept == LoggedQuietly /\ UNCHANGED <<writer, arg, data>>

LEMMA KeptDataIsLog ==
    ASSUME TypeOK, DataIsLog, MapKept
    PROVE  DataIsLog'
  BY QuietLastWrite DEF MapKept, DataIsLog, Settled

\* The steps of a thread that change the map are those of put and del.
LEMMA ThreadKeepsMap ==
    ASSUME DBInv, NEW t \in Threads, Call(t) \/ Finish(t),
           ~ \E k \in Keys : DelApply(t, k) \/ \E v \in Values : PutApply(t, k, v),
           ~ \E out \in WriteOutcomes : PutLog(t, out) \/ DelLog(t, out)
    PROVE  MapKept
<1>1. ASSUME NEW out \in WriteOutcomes,
             CommitLog(t, out) \/ Backup(t, out) \/ ShutdownCheckpoint(t, out)
      PROVE  MapKept
  <2>1. UNCHANGED <<writer, arg, data>>
    BY <1>1 DEF CommitLog, Backup, ShutdownCheckpoint, lockVars, threadVars
  <2>2. ASSUME CommitLog(t, out) PROVE LoggedQuietly
    <3>1. CommitRecord(txn[t].id) \in Record /\ CommitRecord(txn[t].id).type = "COMMIT"
      BY <2>2, RecordFacts DEF CommitLog, DBInv, InFlightInv, Up, CommitRecord
    <3> QED
      BY <2>2, <3>1, QuietRecord DEF CommitLog
  <2>3. ASSUME Backup(t, out) \/ ShutdownCheckpoint(t, out) PROVE LoggedQuietly
    BY <2>3, RecordFacts, QuietRecord DEF Backup, ShutdownCheckpoint, CheckpointRecord
  <2> QED
    BY <1>1, <2>1, <2>2, <2>3 DEF MapKept
<1>2. ASSUME \/ Begin(t) \/ BeginRefused(t) \/ End(t) \/ CommitNothing(t) \/ Rollback(t)
             \/ StatsLock(t) \/ Restore(t) \/ StatsRead(t) \/ ShutdownFlag(t)
             \/ \E k \in Keys : Get(t, k) \/ DelMissing(t, k)
             \/ \E lo \in Keys, hi \in {k + 1 : k \in Keys} : Scan(t, lo, hi)
             \/ \E s \in Stamps, lands, opens \in BOOLEAN : Compact(t, s, lands, opens)
      PROVE  MapKept
  BY <1>2 DEF Begin, BeginRefused, End, CommitNothing, Rollback, StatsLock, Restore, StatsRead,
              ShutdownFlag, Get, DelMissing, Scan, Compact, lockVars, threadVars, MapKept,
              LoggedQuietly
<1> QED
  BY <1>1, <1>2 DEF Call, Finish

\* put and del have accepted their record, and that is the last one about the key.
LEMMA WriteDataIsLog ==
    ASSUME DBInv, Faults = {}, GoodInv, DataIsLog, NEW t \in Threads, NEW out \in WriteOutcomes,
           PutLog(t, out) \/ DelLog(t, out)
    PROVE  /\ DataIsLog'
           /\ out = "ok" /\ data' = data
<1>1. out = "ok" /\ Accepts(out)
  BY GoodWrites DEF PutLog, DelLog, append_record, WriteAndFlush, Accepts
<1>2. data' = data
  BY <1>1 DEF PutLog, DelLog, DataAfterPut, DataAfterDel
<1>3. writer = t /\ arg[t].key \in Keys
  BY DEF PutLog, DelLog, Up, DBInv, LockDiscipline, InFlightInv
<1>4. PICK rec \in Record : /\ logged' = Append(logged, rec)
                            /\ \A k \in Keys : Touches(rec, k) <=> k = arg[t].key
                            /\ rec.value = data[arg[t].key]
  <2>1. CASE PutLog(t, out)
    <3> DEFINE rec == PutRecord(arg[t].key, arg[t].value, txn[t].id)
    <3>1. rec \in Record /\ rec.value = data[arg[t].key]
      BY <2>1, RecordFacts DEF PutLog, Up, DBInv, InFlightInv, PutRecord
    <3>2. \A k \in Keys : Touches(rec, k) <=> k = arg[t].key
      BY DEF PutRecord, Touches
    <3>3. logged' = Append(logged, rec)
      BY <1>1, <2>1 DEF PutLog, LogIf
    <3> QED
      BY <3>1, <3>2, <3>3
  <2>2. CASE DelLog(t, out)
    <3> DEFINE rec == DeleteRecord(arg[t].key, txn[t].id)
    <3>1. rec \in Record /\ rec.value = data[arg[t].key]
      BY <2>2, RecordFacts DEF DelLog, Up, DBInv, InFlightInv, DeleteRecord
    <3>2. \A k \in Keys : Touches(rec, k) <=> k = arg[t].key
      BY DEF DeleteRecord, Touches
    <3>3. logged' = Append(logged, rec)
      BY <1>1, <2>2 DEF DelLog, LogIf
    <3> QED
      BY <3>1, <3>2, <3>3
  <2> QED
    BY <2>1, <2>2
<1>5. ASSUME NEW k \in Keys PROVE LastWrite(logged', k, data'[k])
  <2>1. logged \in Seq(Record)
    BY DEF DBInv, TypeOK
  <2>2. CASE k = arg[t].key
    BY <1>2, <1>4, <2>1, <2>2, LastWriteSame
  <2>3. CASE k # arg[t].key
    <3>1. LastWrite(logged, k, data[k])
      BY <1>3, <2>3 DEF DataIsLog, Settled
    <3> QED
      BY <1>2, <1>4, <2>1, <2>3, <3>1, LastWriteOther
  <2> QED
    BY <2>2, <2>3
<1> QED
  BY <1>1, <1>2, <1>5 DEF DataIsLog

\* put and del take the lock, so their key is not settled, and change no other.
LEMMA ApplyDataIsLog ==
    ASSUME DBInv, DataIsLog, NEW t \in Threads, NEW k \in Keys,
           DelApply(t, k) \/ \E v \in Values : PutApply(t, k, v)
    PROVE  DataIsLog'
<1>1. /\ writer = NoThread /\ writer' = t /\ arg'[t].key = k /\ logged' = logged
      /\ \A j \in Keys : j # k => data'[j] = data[j]
  BY DEF DelApply, PutApply, DBInv, TypeOK
<1>2. ASSUME NEW j \in Keys, Settled(j)' PROVE LastWrite(logged', j, data'[j])
  <2>1. j # k
    BY <1>1, <1>2, EngineAssumption DEF Settled
  <2>2. LastWrite(logged, j, data[j])
    BY <1>1 DEF DataIsLog, Settled
  <2> QED
    BY <1>1, <2>1, <2>2
<1> QED
  BY <1>2 DEF DataIsLog

\* initialize replays the log into the map, record by record.
LEMMA SystemDataIsLog ==
    ASSUME DBInv, DataIsLog, System
    PROVE  DataIsLog'
<1>1. ASSUME \/ \E s \in Stamps, opens \in BOOLEAN : Start(s, opens)
             \/ \E opens \in BOOLEAN : FinishRecovery(opens)
      PROVE  DataIsLog'
  <2>1. MapKept
    BY <1>1 DEF Start, FinishRecovery, lockVars, threadVars, MapKept, LoggedQuietly
  <2> QED
    BY <2>1, KeptDataIsLog DEF DBInv
<1>4. ASSUME NEW rec \in Record, phase = "recovering", data' = Replayed(rec),
             logged' = Append(logged, rec)
      PROVE  DataIsLog'
  <2>3. logged \in Seq(Record) /\ data \in [Keys -> Values \cup {Absent}]
    BY DEF DBInv, TypeOK
  <2>4. \A k \in Keys : data'[k] = IF Touches(rec, k) THEN rec.value ELSE data[k]
    BY <1>4, <2>3, RecordKinds DEF Replayed, Touches
  <2>5. writer = NoThread
    BY <1>4 DEF DBInv, QuietInv, TypeOK, LockDiscipline
  <2>6. ASSUME NEW k \in Keys PROVE LastWrite(logged', k, data'[k])
    <3>1. LastWrite(logged, k, data[k])
      BY <2>5 DEF DataIsLog, Settled
    <3> QED
      BY <1>4, <2>3, <2>4, <3>1, LastWriteSame, LastWriteOther
  <2> QED
    BY <2>6 DEF DataIsLog
<1>2. ASSUME RecoverRecord PROVE DataIsLog'
  <2> DEFINE rec == files[current][pos + 1]
  <2>1. rec \in Record
    <3>1. current \in Stamps
      BY <1>2 DEF RecoverRecord, DBInv, PhaseInv, WALInv, NamedWhenOpen
    <3>2. pos + 1 \in 1 .. Len(files[current])
      BY <1>2, <3>1 DEF RecoverRecord, AtEndOfLog, DBInv, TypeOK, WALTypeOK
    <3> QED
      BY <3>1, <3>2 DEF DBInv, TypeOK, WALTypeOK
  <2>2. data' = Replayed(rec) /\ logged' = Append(logged, rec) /\ phase = "recovering"
    BY <1>2 DEF RecoverRecord
  <2> HIDE DEF rec
  <2> QED
    BY <1>4, <2>1, <2>2
<1>5. ASSUME NEW rec \in Record, RecoverGarbled(rec) PROVE DataIsLog'
  BY <1>4, <1>5 DEF RecoverGarbled
<1>3. ASSUME NEW lands \in BOOLEAN, Crash(lands) PROVE DataIsLog'
  BY <1>3 DEF Crash, DataIsLog, LastWrite
<1> QED
  BY <1>1, <1>2, <1>3, <1>5 DEF System, RecoverTurn

LEMMA DataStep ==
    ASSUME DBInv, Faults = {}, GoodInv, DataIsLog, [Next]_vars
    PROVE  GoodInv' /\ DataIsLog'
<1>1. GoodInv'
  BY LogStep, GoodStep
<1>2. ASSUME NEW t \in Threads, Call(t) \/ Finish(t) PROVE DataIsLog'
  <2>1. CASE \E k \in Keys : DelApply(t, k) \/ \E v \in Values : PutApply(t, k, v)
    BY <2>1, ApplyDataIsLog
  <2>2. CASE \E out \in WriteOutcomes : PutLog(t, out) \/ DelLog(t, out)
    BY <2>2, WriteDataIsLog
  <2> QED
    BY <1>2, <2>1, <2>2, ThreadKeepsMap, KeptDataIsLog DEF DBInv
<1>3. CASE UNCHANGED vars
  <2>1. MapKept
    BY <1>3 DEF vars, lockVars, threadVars, MapKept, LoggedQuietly
  <2> QED
    BY <1>1, <2>1, KeptDataIsLog DEF DBInv
<1> QED
  BY <1>1, <1>2, <1>3, SystemDataIsLog DEF Next

\* On a disk that does not fail data_ is always what the log says, key by key,
\* but for the one key that a put or del is working on.
THEOREM DataFollowsLog ==
    ASSUME Faults = {}
    PROVE  Spec => []DataIsLog
<1>1. Init => GoodInv /\ DataIsLog
  BY DEF Init, WALInit, GoodInv, DataIsLog, LastWrite
<1>2. DBInv /\ GoodInv /\ DataIsLog /\ [Next]_vars => GoodInv' /\ DataIsLog'
  BY DataStep
<1> QED
  BY <1>1, <1>2, DBInvariant, PTL DEF Spec

-----------------------------------------------------------------------------
(* The file.                                                               *)

\* The log stays in one file: all of it is opened in one millisecond, or the
\* process is opened once and not compacted.
OneStamp == \A r, s \in Stamps : r = s
OneLogFile == OneStamp \/ Calls \cap {"crash", "compact"} = {}

\* A disk that does not fail and values that the reader can read back.
SoundDisk == Faults = {} /\ BigValues = {}

\* The records the process knows of are those of its file, and no other file
\* has any.
FileInv ==
    /\ ReplayInv
    /\ phase = "up" => logged = files[current]
    /\ \A s \in Stamps : s # current => files[s] = << >>
    /\ OneStamp \/ FilesEmpty

LEMMA SameRecords ==
    ASSUME NEW a \in Seq(Record), NEW b \in Seq(Record), Len(a) = Len(b),
           \A i \in 1 .. Len(a) : a[i] = b[i]
    PROVE  a = b
  OBVIOUS

\* Where every open succeeds and every record can be read, initialize replays
\* the whole file.
LEMMA ReplayAll ==
    ASSUME DBInv, ReplayInv, SoundDisk,
           NEW opens \in BOOLEAN, FinishRecovery(opens)
    PROVE  phase' = "up" /\ UNCHANGED <<logged, files, current>> /\ logged = files[current]
<1> DEFINE file == files[current]
<1>1. /\ phase = "recovering" /\ phase' = "up" /\ UNCHANGED <<logged, files, current>>
      /\ opens
  BY DEF SoundDisk, FinishRecovery, read_all_records, OpenForAppend, ClosedFiles, MayOpen
<1>2. file \in Seq(Record) /\ Len(file) \in Nat /\ pos \in Nat /\ logged \in Seq(Record)
  BY <1>1 DEF DBInv, TypeOK, WALTypeOK, PhaseInv, WALInv, NamedWhenOpen
<1>3. pos >= Len(file)
  BY <1>1, <1>2 DEF FinishRecovery, AtEndOfLog, Oversized, Torn, SoundDisk, DBInv, WALInv,
                    TearsAreFaults
<1>4. Len(logged) = pos /\ pos <= Len(file) /\ \A i \in 1 .. pos : logged[i] = file[i]
  BY <1>1 DEF ReplayInv
<1> HIDE DEF file
<1>5. pos = Len(file)
  BY <1>2, <1>3, <1>4
<1>6. logged = file
  BY <1>2, <1>4, <1>5, SameRecords
<1> QED
  BY <1>1, <1>6 DEF file

\* The directory is not touched, only opened or closed.
LEMMA GoodClose ==
    ASSUME GoodInv, NEW lands, MayLand(lands)
    PROVE  ClosedFiles(lands) = files
  BY DEF GoodInv, MayLand, ClosedFiles

LEMMA ThreadFileStep ==
    ASSUME DBInv, GoodInv, Faults = {}, OneLogFile, FileInv, NEW t \in Threads, Call(t) \/ Finish(t)
    PROVE  FileInv'
<1>1. /\ UNCHANGED <<phase, pos>> /\ phase = "up"
      /\ \/ LogUntouched
         \/ LogMoved
         \/ \E rec \in Record, out \in WriteOutcomes : LogAppended(rec, out)
  BY ThreadStepKinds
<1>2. CASE LogUntouched
  BY <1>1, <1>2 DEF LogUntouched, FileInv, ReplayInv, FilesEmpty
<1>3. CASE LogMoved
  <2>1. PICK s \in Stamps, lands \in BOOLEAN, opens \in BOOLEAN : truncate_log(s, lands, opens)
    BY <1>3 DEF LogMoved
  <2>2. files' = files /\ current' = s /\ stream # "none"
    BY <2>1, GoodClose DEF truncate_log, OpenForAppend
  <2>3. OneStamp /\ current = s
    BY <1>3, <2>2 DEF LogMoved, OneLogFile, OneStamp, DBInv, WALInv, NamedWhenOpen
  <2> QED
    BY <1>1, <1>3, <2>2, <2>3 DEF LogMoved, FileInv, ReplayInv
<1>4. ASSUME NEW rec \in Record, NEW out \in WriteOutcomes, LogAppended(rec, out) PROVE FileInv'
  <2>1. stream # "none" /\ current \in Stamps /\ files \in [Stamps -> Seq(Record)]
    BY <1>4 DEF LogAppended, WriteAndFlush, DBInv, WALInv, NamedWhenOpen, WALTypeOK
  <2>2. out = "ok"
    BY <2>1, GoodWrites
  <2>3. /\ files' = [files EXCEPT ![current] = Append(files[current], rec)]
        /\ logged' = Append(logged, rec) /\ current' = current
    BY <1>4, <2>2 DEF LogAppended, WriteAndFlush, LogIf, Accepts
  <2> QED
    BY <1>1, <2>1, <2>3 DEF FileInv, ReplayInv, FilesEmpty
<1> QED
  BY <1>1, <1>2, <1>3, <1>4

LEMMA SystemFileStep ==
    ASSUME DBInv, GoodInv, SoundDisk, OneLogFile, FileInv, System
    PROVE  FileInv'
<1>1. ASSUME NEW s \in Stamps, NEW opens \in BOOLEAN, Start(s, opens) PROVE FileInv'
  <2>1. /\ phase = "down" /\ phase' = "recovering" /\ UNCHANGED <<logged, pos, files, tears>>
        /\ current' = s
    BY <1>1 DEF Start, construct, OpenForAppend
  <2>2. Len(files[s]) \in Nat
    BY DEF DBInv, TypeOK, WALTypeOK
  <2>3. ReplayInv'
    BY <2>1, <2>2 DEF FileInv, ReplayInv
  <2>4. \A r \in Stamps : r # s => files[r] = << >>
    BY <2>1 DEF FileInv, OneStamp, FilesEmpty
  <2> QED
    BY <2>1, <2>3, <2>4 DEF FileInv, FilesEmpty
<1>2. ASSUME RecoverRecord PROVE FileInv'
  <2>1. phase = "recovering" /\ phase' = phase /\ UNCHANGED <<files, tears, current>>
    BY <1>2 DEF RecoverRecord, walVars
  <2>2. ReplayInv'
    BY <1>2, ReplayOne DEF FileInv
  <2> QED
    BY <2>1, <2>2 DEF FileInv, FilesEmpty
<1>3. ASSUME NEW opens \in BOOLEAN, FinishRecovery(opens) PROVE FileInv'
  <2>1. phase' = "up" /\ UNCHANGED <<logged, files, current>> /\ logged = files[current]
    BY <1>3, ReplayAll DEF FileInv
  <2> QED
    BY <2>1 DEF FileInv, ReplayInv, FilesEmpty
<1>4. ASSUME NEW lands \in BOOLEAN, Crash(lands) PROVE FileInv'
  <2>1. /\ phase' = "down" /\ logged' = << >> /\ pos' = 0 /\ current' = current
        /\ files' = files /\ "crash" \in Calls
    BY <1>4, GoodClose DEF Crash, destroy
  <2> QED
    BY <2>1 DEF FileInv, ReplayInv, OneLogFile
<1>5. ASSUME NEW rec \in Record, RecoverGarbled(rec) PROVE FALSE
  BY <1>5, NotGarbled DEF SoundDisk, DBInv, WALInv, TearsAreFaults
<1> QED
  BY <1>1, <1>2, <1>3, <1>4, <1>5 DEF System, RecoverTurn

\* All that is known of the engine on a sound disk.
SoundInv == DBInv /\ GoodInv /\ DataIsLog /\ FileInv

LEMMA SoundInvariant ==
    ASSUME SoundDisk, OneLogFile
    PROVE  Spec => []SoundInv
<1>1. Init => GoodInv /\ DataIsLog /\ FileInv
  BY DEF Init, WALInit, GoodInv, DataIsLog, LastWrite, FileInv, ReplayInv, FilesEmpty
<1>2. DBInv /\ GoodInv /\ DataIsLog /\ FileInv /\ [Next]_vars => GoodInv' /\ DataIsLog' /\ FileInv'
  <2> SUFFICES ASSUME DBInv, GoodInv, DataIsLog, FileInv, [Next]_vars
               PROVE  GoodInv' /\ DataIsLog' /\ FileInv'
    OBVIOUS
  <2>1. GoodInv' /\ DataIsLog'
    BY DataStep DEF SoundDisk
  <2>2. CASE UNCHANGED vars
    BY <2>1, <2>2 DEF vars, walVars, sysVars, FileInv, ReplayInv, FilesEmpty
  <2> QED
    BY <2>1, <2>2, ThreadFileStep, SystemFileStep DEF Next, SoundDisk
<1> QED
  BY <1>1, <1>2, DBInvariant, PTL DEF Spec, SoundInv

-----------------------------------------------------------------------------
(* The directory, once compactions have spread the log over several files. *)

\* Record i of file s is the last one about k in the directory.
DirectoryLast(dir, k, s, i) ==
    /\ Touches(dir[s][i], k)
    /\ \A j \in DOMAIN dir[s] : j > i => ~Touches(dir[s][j], k)
    /\ \A r \in Stamps : r > s => \A j \in DOMAIN dir[r] : ~Touches(dir[r][j], k)

\* The records are written to the newest file, so the last one about a key in
\* the directory is the last one that was accepted.
DirectoryInv ==
    /\ phase # "up" => logged = << >>
    /\ FilesEmpty
    /\ \A s \in Stamps : s > current => files[s] = << >>
    /\ \A k \in Keys, s \in Stamps : \A i \in DOMAIN files[s] :
          DirectoryLast(files, k, s, i) => LastWrite(logged, k, files[s][i].value)

LEMMA DirectoryAppend ==
    ASSUME DBInv, DirectoryInv, NEW rec \in Record, stream # "none",
           files' = [files EXCEPT ![current] = Append(files[current], rec)],
           logged' = Append(logged, rec), current' = current, phase = "up", phase' = phase
    PROVE  DirectoryInv'
<1> DEFINE file == files[current]
           longer == Append(file, rec)
<1>1. /\ current \in Stamps /\ files \in [Stamps -> Seq(Record)] /\ logged \in Seq(Record)
      /\ file \in Seq(Record)
  BY DEF DBInv, TypeOK, WALInv, WALTypeOK, NamedWhenOpen
<1>2. /\ DOMAIN file = 1 .. Len(file) /\ DOMAIN longer = 1 .. Len(file) + 1 /\ Len(file) \in Nat
      /\ longer[Len(file) + 1] = rec /\ \A i \in DOMAIN file : longer[i] = file[i]
  BY <1>1
<1>3. files'[current] = longer /\ \A s \in Stamps : s # current => files'[s] = files[s]
  BY <1>1
<1>4. \A s \in Stamps : s \in Nat
  BY ConstantsAssumption
<1> HIDE DEF longer
<1>5. ASSUME NEW k \in Keys, NEW s \in Stamps, NEW i \in DOMAIN files'[s],
             DirectoryLast(files', k, s, i)
      PROVE  LastWrite(logged', k, files'[s][i].value)
  <2>1. s <= current
    <3>1. CASE s > current
      <4>1. files'[s] = << >>
        BY <1>1, <1>3, <1>4, <3>1 DEF DirectoryInv
      <4> QED
        BY <1>5, <4>1
    <3> QED
      BY <1>1, <1>4, <3>1
  <2>2. CASE Touches(rec, k)
    <3>1. s = current
      <4>1. CASE s < current
        BY <1>1, <1>2, <1>3, <1>5, <2>2, <4>1 DEF DirectoryLast
      <4> QED
        BY <1>1, <1>4, <2>1, <4>1
    <3>2. i = Len(file) + 1
      <4>1. i \in 1 .. Len(file) + 1 /\ Len(file) + 1 \in DOMAIN files'[s]
        BY <1>2, <1>3, <1>5, <3>1
      <4>2. Touches(files'[s][Len(file) + 1], k)
        BY <1>2, <1>3, <2>2, <3>1
      <4>3. ~(Len(file) + 1 > i)
        BY <1>5, <4>1, <4>2 DEF DirectoryLast
      <4> QED
        BY <1>2, <4>1, <4>3
    <3>3. files'[s][i] = rec
      BY <1>2, <1>3, <3>1, <3>2
    <3> QED
      BY <1>1, <2>2, <3>3, LastWriteSame
  <2>3. CASE ~Touches(rec, k)
    <3>1. i \in DOMAIN files[s] /\ files'[s][i] = files[s][i]
      BY <1>2, <1>3, <1>5, <2>3 DEF DirectoryLast
    <3>2. \A r \in Stamps : \A j \in DOMAIN files[r] :
             j \in DOMAIN files'[r] /\ files'[r][j] = files[r][j]
      BY <1>2, <1>3
    <3>3. DirectoryLast(files, k, s, i)
      BY <1>5, <3>1, <3>2 DEF DirectoryLast
    <3>4. LastWrite(logged, k, files[s][i].value)
      BY <3>1, <3>3 DEF DirectoryInv
    <3> QED
      BY <1>1, <2>3, <3>1, <3>4, LastWriteOther
  <2> QED
    BY <2>2, <2>3
<1>6. \A s \in Stamps : s > current => files'[s] = << >>
  BY <1>1, <1>3, <1>4 DEF DirectoryInv
<1> QED
  BY <1>5, <1>6 DEF DirectoryInv, FilesEmpty

LEMMA DirectoryStep ==
    ASSUME DBInv, Faults = {}, GoodInv, "crash" \notin Calls, ~ClockStepsBack, DirectoryInv,
           [Next]_vars
    PROVE  DirectoryInv'
<1>1. ASSUME UNCHANGED <<files, logged, phase>>, phase = "up" \/ tears' = tears,
             current' \in Nat, current' >= current
      PROVE  DirectoryInv'
  <2>1. \A s \in Stamps : s > current' => s > current
    BY <1>1, ConstantsAssumption DEF DBInv, WALInv, WALTypeOK
  <2> QED
    BY <1>1, <2>1 DEF DirectoryInv, FilesEmpty
<1>2. current \in Nat
  BY ConstantsAssumption DEF DBInv, WALInv, WALTypeOK
<1>3. ASSUME NEW t \in Threads, Call(t) \/ Finish(t) PROVE DirectoryInv'
  <2>1. /\ UNCHANGED <<phase, pos>> /\ phase = "up"
        /\ \/ LogUntouched
           \/ LogMoved
           \/ \E rec \in Record, out \in WriteOutcomes : LogAppended(rec, out)
    BY <1>3, ThreadStepKinds
  <2>2. CASE LogUntouched
    BY <1>1, <1>2, <2>1, <2>2 DEF LogUntouched
  <2>3. CASE LogMoved
    <3>1. PICK s \in Stamps, lands \in BOOLEAN, opens \in BOOLEAN : truncate_log(s, lands, opens)
      BY <2>3 DEF LogMoved
    <3>2. files' = files /\ current' = s /\ s >= current /\ s \in Nat
      BY <3>1, GoodClose, ConstantsAssumption DEF truncate_log, OpenForAppend, ClockReads
    <3> QED
      BY <1>1, <2>1, <2>3, <3>2 DEF LogMoved
  <2>4. ASSUME NEW rec \in Record, NEW out \in WriteOutcomes, LogAppended(rec, out)
        PROVE  DirectoryInv'
    <3>1. stream # "none" /\ out = "ok"
      BY <2>4, GoodWrites DEF LogAppended, WriteAndFlush
    <3>2. /\ files' = [files EXCEPT ![current] = Append(files[current], rec)]
          /\ logged' = Append(logged, rec) /\ current' = current
      BY <2>4, <3>1 DEF LogAppended, WriteAndFlush, LogIf, Accepts
    <3> QED
      BY <2>1, <3>1, <3>2, DirectoryAppend
  <2> QED
    BY <2>1, <2>2, <2>3, <2>4
<1>4. ASSUME System PROVE DirectoryInv'
  <2>1. ASSUME NEW s \in Stamps, NEW opens \in BOOLEAN, Start(s, opens) PROVE DirectoryInv'
    <3>1. UNCHANGED <<files, tears, logged>> /\ phase = "down" /\ phase' = "recovering"
      BY <2>1 DEF Start, construct, OpenForAppend
    <3> QED
      BY <3>1 DEF DirectoryInv, FilesEmpty
  <2>2. ASSUME RecoverRecord PROVE FALSE
    <3>1. files[current] = << >> /\ pos < Len(files[current]) /\ pos \in Nat
      BY <2>2 DEF RecoverRecord, AtEndOfLog, DirectoryInv, FilesEmpty, DBInv, TypeOK, PhaseInv, WALInv,
                  NamedWhenOpen
    <3> QED
      BY <3>1
  <2>3. ASSUME NEW opens \in BOOLEAN, FinishRecovery(opens) PROVE DirectoryInv'
    <3>1. /\ UNCHANGED <<files, logged, current>> /\ \A s \in Stamps : files[s] = << >>
      BY <2>3 DEF FinishRecovery, read_all_records, OpenForAppend, ClosedFiles, DirectoryInv, FilesEmpty
    <3> QED
      BY <2>3, <3>1 DEF FinishRecovery, DirectoryInv, FilesEmpty
  <2>4. ASSUME NEW rec \in Record, RecoverGarbled(rec) PROVE FALSE
    BY <2>4, NotGarbled DEF DBInv, WALInv, TearsAreFaults
  <2> QED
    BY <1>4, <2>1, <2>2, <2>3, <2>4 DEF System, RecoverTurn, Crash
<1>5. CASE UNCHANGED vars
  BY <1>1, <1>2, <1>5 DEF vars, walVars, sysVars
<1> QED
  BY <1>3, <1>4, <1>5 DEF Next

\* While the process lives, a compaction loses nothing: what is in memory is
\* what the files of the directory hold, taken in the order of their names, on
\* a disk that does not fail and with a clock that is not set back.
THEOREM CompactionKeepsDirectory ==
    ASSUME Faults = {}, "crash" \notin Calls, ~ClockStepsBack
    PROVE  Spec => []RecoversLogDirectory
<1>1. Init => GoodInv /\ DataIsLog /\ DirectoryInv
  BY DEF Init, WALInit, GoodInv, DataIsLog, LastWrite, DirectoryInv, FilesEmpty
<1>2. DBInv /\ GoodInv /\ DataIsLog /\ DirectoryInv /\ [Next]_vars
         => GoodInv' /\ DataIsLog' /\ DirectoryInv'
  BY DataStep, DirectoryStep
<1>3. DBInv /\ DataIsLog /\ DirectoryInv => RecoversLogDirectory
  <2> SUFFICES ASSUME DBInv, DataIsLog, DirectoryInv, NEW k \in Keys, Settled(k), NEW s \in Stamps,
                      NEW i \in DOMAIN files[s], DirectoryLast(files, k, s, i)
               PROVE  data[k] = files[s][i].value
    BY DEF RecoversLogDirectory, DirectoryLast
  <2>1. LastWrite(logged, k, data[k]) /\ LastWrite(logged, k, files[s][i].value)
    BY DEF DataIsLog, DirectoryInv
  <2> QED
    BY <2>1, LastWriteUnique DEF DBInv, TypeOK
<1> QED
  BY <1>1, <1>2, <1>3, DBInvariant, PTL DEF Spec

-----------------------------------------------------------------------------
(* The map that a log stands for.                                          *)

\* Among natural numbers there is a least one.
LEMMA LeastNumber ==
    ASSUME NEW S, S \subseteq Nat, S # {}
    PROVE  \E n \in S : \A m \in S : n <= m
<1> DEFINE less == {p \in Nat \X Nat : p[1] < p[2]}
<1>1. IsWellFoundedOn(less, Nat)
  <2>1. OpToRel(<, Nat) = less
    BY Zenon DEF OpToRel
  <2> QED
    BY <2>1, NatLessThanWellFounded, Zenon
<1>2. ASSUME NEW n \in Nat, NEW m \in Nat, m < n PROVE <<m, n>> \in less
  BY <1>2
<1> HIDE DEF less
<1>3. PICK n \in S : \A m \in S : <<m, n>> \notin less
  BY <1>1, WFMin
<1>4. \A m \in S : ~(m < n)
  BY <1>2, <1>3
<1> QED
  BY <1>4

\* Every key has a last record, or none.
LEMMA LastWriteExists ==
    ASSUME NEW log \in Seq(Record), NEW k \in Keys
    PROVE  \E v \in Values \cup {Absent} : LastWrite(log, k, v)
<1>1. CASE \A i \in DOMAIN log : ~Touches(log[i], k)
  BY <1>1 DEF LastWrite
<1>2. ASSUME NEW i \in DOMAIN log, Touches(log[i], k)
      PROVE  \E v \in Values \cup {Absent} : LastWrite(log, k, v)
  <2> DEFINE behind == {n \in Nat : \E j \in DOMAIN log : Touches(log[j], k) /\ n = Len(log) - j}
  <2>1. Len(log) - i \in behind
    BY <1>2
  <2>2. PICK n \in behind : \A m \in behind : n <= m
    BY <2>1, LeastNumber
  <2>3. PICK j \in DOMAIN log : Touches(log[j], k) /\ n = Len(log) - j
    BY <2>2
  <2>4. ASSUME NEW h \in DOMAIN log, h > j PROVE ~Touches(log[h], k)
    <3>1. Len(log) - h \in Nat /\ Len(log) - h < n
      BY <2>3, <2>4
    <3> QED
      BY <2>2, <2>4, <3>1
  <2>5. log[j].value \in Values \cup {Absent}
    BY <2>3, RecordKinds DEF Touches
  <2> QED
    BY <2>3, <2>4, <2>5 DEF LastWrite
<1> QED
  BY <1>1, <1>2

CurrentLog == IF current = 0 THEN << >> ELSE files[current]

MapOf(log) == [k \in Keys |-> CHOOSE v \in Values \cup {Absent} : LastWrite(log, k, v)]

LEMMA StoredMapIs == StoredMap = MapOf(CurrentLog) /\ StoredMap' = MapOf(CurrentLog')
  BY DEF StoredMap, MapOf, CurrentLog

LEMMA MapOfLast ==
    ASSUME NEW log \in Seq(Record)
    PROVE  /\ MapOf(log) \in [Keys -> Values \cup {Absent}]
           /\ \A k \in Keys : LastWrite(log, k, MapOf(log)[k])
  BY LastWriteExists DEF MapOf

LEMMA MapOfIs ==
    ASSUME NEW log \in Seq(Record), NEW f, f = [k \in Keys |-> f[k]],
           \A k \in Keys : LastWrite(log, k, f[k])
    PROVE  MapOf(log) = f
<1>1. \A k \in Keys : MapOf(log)[k] = f[k]
  BY MapOfLast, LastWriteUnique
<1>2. MapOf(log) = [k \in Keys |-> MapOf(log)[k]]
  BY DEF MapOf
<1> QED
  BY <1>1, <1>2

LEMMA MapOfAppend ==
    ASSUME NEW log \in Seq(Record), NEW rec \in Record
    PROVE  /\ (\A k \in Keys : ~Touches(rec, k)) => MapOf(Append(log, rec)) = MapOf(log)
           /\ \A key \in Keys : (\A k \in Keys : Touches(rec, k) <=> k = key) =>
                 MapOf(Append(log, rec)) = [MapOf(log) EXCEPT ![key] = rec.value]
<1> DEFINE longer == Append(log, rec)
           old == MapOf(log)
<1>1. longer \in Seq(Record)
  OBVIOUS
<1>2. old \in [Keys -> Values \cup {Absent}] /\ \A k \in Keys : LastWrite(log, k, old[k])
  BY MapOfLast
<1> HIDE DEF old
<1>3. ASSUME \A k \in Keys : ~Touches(rec, k) PROVE MapOf(longer) = old
  <2>1. \A k \in Keys : LastWrite(longer, k, old[k])
    BY <1>2, <1>3, LastWriteOther
  <2> QED
    BY <1>1, <1>2, <2>1, MapOfIs
<1>4. ASSUME NEW key \in Keys, \A k \in Keys : Touches(rec, k) <=> k = key
      PROVE  MapOf(longer) = [old EXCEPT ![key] = rec.value]
  <2> DEFINE new == [old EXCEPT ![key] = rec.value]
  <2>1. \A k \in Keys : new[k] = IF k = key THEN rec.value ELSE old[k]
    BY <1>2
  <2>2. new = [k \in Keys |-> new[k]]
    BY <1>2
  <2> HIDE DEF new
  <2>3. \A k \in Keys : LastWrite(longer, k, new[k])
    BY <1>2, <1>4, <2>1, LastWriteOther, LastWriteSame
  <2>4. MapOf(longer) = new
    BY <1>1, <2>2, <2>3, MapOfIs
  <2> QED
    BY <2>4 DEF new
<1> QED
  BY <1>3, <1>4 DEF old

-----------------------------------------------------------------------------
(* The refinement of KVStore, step by step.                                *)

\* KVStore sees nothing.
Stutter == UNCHANGED <<StoredMap, reply>>

LEMMA CurrentLogIs ==
    ASSUME SoundInv
    PROVE  /\ CurrentLog \in Seq(Record)
           /\ stream # "none" => current \in Stamps /\ CurrentLog = files[current]
           /\ phase = "up" => CurrentLog = logged /\ stream # "none"
  BY ConstantsAssumption
     DEF SoundInv, DBInv, WALInv, WALTypeOK, NamedWhenOpen, CurrentLog, PhaseInv, FileInv

\* A key that nobody is writing holds in memory what it holds in the file.
LEMMA StoredIsData ==
    ASSUME SoundInv, phase = "up"
    PROVE  /\ \A k \in Keys : Settled(k) => StoredMap[k] = data[k]
           /\ writer = NoThread => StoredMap = data
<1>1. logged \in Seq(Record) /\ StoredMap = MapOf(logged) /\ data \in [Keys -> Values \cup {Absent}]
  BY CurrentLogIs, StoredMapIs DEF SoundInv, DBInv, TypeOK
<1>2. ASSUME NEW k \in Keys, Settled(k) PROVE StoredMap[k] = data[k]
  BY <1>1, <1>2, MapOfLast, LastWriteUnique DEF SoundInv, DataIsLog
<1>3. ASSUME writer = NoThread PROVE StoredMap = data
  <2>1. \A k \in Keys : LastWrite(logged, k, data[k])
    BY <1>3 DEF SoundInv, DataIsLog, Settled
  <2> QED
    BY <1>1, <2>1, MapOfIs
<1> QED
  BY <1>2, <1>3

LEMMA SameLog ==
    ASSUME CurrentLog' = CurrentLog
    PROVE  UNCHANGED StoredMap
  BY StoredMapIs

\* What appending a record does to the stored map.
LEMMA AppendedLog ==
    ASSUME SoundInv, SoundDisk, NEW rec \in Record, NEW out, WriteAndFlush(rec, out)
    PROVE  /\ Accepts(out)
           /\ (\A k \in Keys : ~Touches(rec, k)) => UNCHANGED StoredMap
           /\ \A key \in Keys : (\A k \in Keys : Touches(rec, k) <=> k = key) =>
                 StoredMap' = [StoredMap EXCEPT ![key] = rec.value]
<1>1. stream # "none" /\ out = "ok"
  BY GoodWrites DEF SoundInv, SoundDisk, WriteAndFlush
<1>2. CurrentLog' = Append(CurrentLog, rec) /\ CurrentLog \in Seq(Record)
  <2>1. current \in Stamps /\ current # 0 /\ CurrentLog = files[current]
    BY <1>1, CurrentLogIs, ConstantsAssumption
  <2>2. files'[current] = Append(files[current], rec) /\ current' = current
    BY <1>1, <2>1 DEF WriteAndFlush, SoundInv, DBInv, WALInv, WALTypeOK
  <2> QED
    BY <2>1, <2>2, CurrentLogIs DEF CurrentLog
<1>3. StoredMap' = MapOf(Append(CurrentLog, rec)) /\ StoredMap = MapOf(CurrentLog)
  BY <1>2, StoredMapIs
<1> QED
  BY <1>1, <1>2, <1>3, MapOfAppend DEF Accepts

\* A restart in the same file, or in the first one, finds the same map.
LEMMA SystemRefines ==
    ASSUME SoundInv, SoundDisk, OneLogFile, System
    PROVE  Stutter \/ Abstract!Crash
<1>1. ASSUME NEW s \in Stamps, NEW opens \in BOOLEAN, Start(s, opens) PROVE Stutter
  <2>1. files' = files /\ current' = s /\ phase = "down" /\ reply' = reply
    BY <1>1 DEF Start, construct, OpenForAppend
  <2>2. s # 0 /\ (current = 0 \/ current \in Stamps)
    BY ConstantsAssumption DEF SoundInv, DBInv, WALInv, WALTypeOK
  <2>3. files[s] = CurrentLog
    BY <2>1, <2>2 DEF SoundInv, FileInv, OneStamp, FilesEmpty, CurrentLog
  <2>4. CurrentLog' = CurrentLog
    BY <2>1, <2>2, <2>3 DEF CurrentLog
  <2> QED
    BY <2>1, <2>4, SameLog DEF Stutter
<1>2. ASSUME RecoverRecord \/ \E opens \in BOOLEAN : FinishRecovery(opens) PROVE Stutter
  <2>1. UNCHANGED <<files, current, reply>>
    BY <1>2 DEF RecoverRecord, FinishRecovery, walVars, read_all_records, OpenForAppend, ClosedFiles
  <2> QED
    BY <2>1, SameLog DEF CurrentLog, Stutter
<1>3. ASSUME NEW lands \in BOOLEAN, Crash(lands) PROVE Abstract!Crash
  <2>1. UNCHANGED <<files, current>> /\ reply' = <<"none">>
    BY <1>3, GoodClose DEF Crash, destroy, NoReply, SoundInv
  <2> QED
    BY <2>1, SameLog DEF CurrentLog, Abstract!Crash
<1>4. ASSUME NEW rec \in Record, RecoverGarbled(rec) PROVE FALSE
  BY <1>4, NotGarbled DEF SoundInv, SoundDisk, DBInv, WALInv, TearsAreFaults
<1> QED
  BY <1>1, <1>2, <1>3, <1>4 DEF System, RecoverTurn

\* put and del take effect when their record reaches the file.
LEMMA WriteRefines ==
    ASSUME SoundInv, SoundDisk, NEW t \in Threads, NEW out \in WriteOutcomes
    PROVE  /\ PutLog(t, out) => \E k \in Keys, v \in Values : Abstract!Put(t, k, v)
           /\ DelLog(t, out) => \E k \in Keys : Abstract!Del(t, k)
<1> DEFINE key == arg[t].key
<1>1. ASSUME PutLog(t, out) PROVE \E k \in Keys, v \in Values : Abstract!Put(t, k, v)
  <2> DEFINE rec == PutRecord(key, arg[t].value, txn[t].id)
  <2>1. key \in Keys /\ arg[t].value \in Values /\ txn[t].id \in TxnIds
    BY <1>1 DEF PutLog, Up, SoundInv, DBInv, InFlightInv
  <2>2. rec \in Record /\ rec.value = arg[t].value /\ \A k \in Keys : Touches(rec, k) <=> k = key
    BY <2>1, RecordFacts DEF PutRecord, Touches
  <2>3. WriteAndFlush(rec, out) /\ reply' = <<"put", t, key, arg[t].value, Result(out)>>
    BY <1>1 DEF PutLog, append_record
  <2> HIDE DEF rec
  <2>4. Accepts(out) /\ StoredMap' = [StoredMap EXCEPT ![key] = arg[t].value]
    BY <2>1, <2>2, <2>3, AppendedLog
  <2>5. Abstract!Put(t, key, arg[t].value)
    BY <2>3, <2>4 DEF Abstract!Put, Result
  <2> QED
    BY <2>1, <2>5
<1>2. ASSUME DelLog(t, out) PROVE \E k \in Keys : Abstract!Del(t, k)
  <2> DEFINE rec == DeleteRecord(key, txn[t].id)
  <2>1. /\ key \in Keys /\ txn[t].id \in TxnIds /\ phase = "up"
        /\ LastWrite(logged, key, arg[t].value) /\ arg[t].value \in Values
    BY <1>2 DEF DelLog, Up, SoundInv, DBInv, InFlightInv
  <2>2. rec \in Record /\ rec.value = Absent /\ \A k \in Keys : Touches(rec, k) <=> k = key
    BY <2>1, RecordFacts DEF DeleteRecord, Touches
  <2>3. WriteAndFlush(rec, out) /\ reply' = <<"del", t, key, Result(out)>>
    BY <1>2 DEF DelLog, append_record
  <2> HIDE DEF rec
  <2>4. Accepts(out) /\ StoredMap' = [StoredMap EXCEPT ![key] = Absent]
    BY <2>1, <2>2, <2>3, AppendedLog
  <2>5. StoredMap[key] = arg[t].value
    <3>1. StoredMap = MapOf(logged) /\ logged \in Seq(Record)
      BY <2>1, StoredMapIs, CurrentLogIs
    <3> QED
      BY <2>1, <3>1, MapOfLast, LastWriteUnique
  <2>6. Abstract!Del(t, key)
    BY <2>1, <2>3, <2>4, <2>5, ConstantsAssumption DEF Abstract!Del, Result
  <2> QED
    BY <2>1, <2>6
<1> QED
  BY <1>1, <1>2

\* What a reader is told is what the file holds: nobody is writing meanwhile.
LEMMA ReadRefines ==
    ASSUME SoundInv, NEW t \in Threads
    PROVE  /\ \A k \in Keys : Get(t, k) => Abstract!Get(t, k)
           /\ \A k \in Keys : DelMissing(t, k) => Abstract!Del(t, k)
           /\ StatsRead(t) => Abstract!Stats
           /\ \A lo \in Keys, hi \in {k + 1 : k \in Keys} : Scan(t, lo, hi) => Abstract!Scan(t, lo, hi)
<1>1. ASSUME UNCHANGED walVars PROVE UNCHANGED StoredMap
  BY <1>1, SameLog DEF walVars, CurrentLog
<1>2. ASSUME NEW k \in Keys, Get(t, k) PROVE Abstract!Get(t, k)
  BY <1>1, <1>2, StoredIsData DEF Get, Up, Found, Abstract!Get
<1>3. ASSUME NEW k \in Keys, DelMissing(t, k) PROVE Abstract!Del(t, k)
  BY <1>1, <1>3, StoredIsData DEF DelMissing, Up, Abstract!Del
<1>4. ASSUME StatsRead(t) PROVE Abstract!Stats
  <2>1. StoredMap = data
    BY <1>4, StoredIsData DEF StatsRead, Up, SoundInv, DBInv, LockDiscipline
  <2> QED
    BY <1>1, <1>4, <2>1 DEF StatsRead, Abstract!Stats, Abstract!Cardinality, Cardinality
<1>5. ASSUME NEW lo \in Keys, NEW hi \in {k + 1 : k \in Keys}, Scan(t, lo, hi)
      PROVE  Abstract!Scan(t, lo, hi)
  <2> DEFINE hits == {k \in Keys : lo <= k /\ k < hi /\ data[k] # Absent}
             size == IF Cardinality(hits) < ScanLimit THEN Cardinality(hits) ELSE ScanLimit
  <2>1. StoredMap = data /\ UNCHANGED StoredMap
    BY <1>1, <1>5, StoredIsData DEF Scan, Up
  <2>2. PICK kept \in SUBSET hits : /\ Cardinality(kept) = size
                                    /\ reply' = <<"scan", t, <<lo, hi>>, {<<k, data[k]>> : k \in kept}>>
    BY <1>5 DEF Scan, ScanResults
  <2>3. IsFiniteSet(hits) /\ Cardinality(hits) \in Nat
    BY EngineAssumption, FS_BoundedSetOfNaturals, FS_CardinalityType
  <2>4. hits = Abstract!Hits(lo, hi)
    BY <2>1 DEF Abstract!Hits
  <2> HIDE DEF hits
  <2>5. \/ kept = hits /\ Cardinality(kept) <= ScanLimit
        \/ Cardinality(kept) = ScanLimit
    <3>1. CASE Cardinality(hits) < ScanLimit
      <4>1. Cardinality(kept) = Cardinality(hits)
        BY <2>2, <3>1
      <4>2. kept = hits
        BY <2>2, <2>3, <4>1, FS_Subset
      <4> QED
        BY <2>3, <3>1, <4>2, EngineAssumption
    <3>2. CASE ~(Cardinality(hits) < ScanLimit)
      BY <2>2, <3>2
    <3> QED
      BY <3>1, <3>2
  <2> QED
    BY <2>1, <2>2, <2>4, <2>5 DEF Abstract!Scan, Abstract!Cardinality, Cardinality
<1> QED
  BY <1>2, <1>3, <1>4, <1>5

\* The rest is not about the map: a COMMIT or CHECKPOINT record, a compaction
\* that goes on in the same file, a transaction that begins or ends, and the
\* first half of a put or del, which only memory shows.
LEMMA OtherRefines ==
    ASSUME SoundInv, SoundDisk, OneLogFile, NEW t \in Threads
    PROVE  /\ \A out \in WriteOutcomes :
                 /\ CommitLog(t, out) \/ Backup(t, out) => Abstract!Other
                 /\ ShutdownCheckpoint(t, out) => Stutter
           /\ \A s \in Stamps, lands, opens \in BOOLEAN : Compact(t, s, lands, opens) => Abstract!Other
           /\ BeginRefused(t) \/ CommitNothing(t) \/ Rollback(t) \/ ShutdownFlag(t) => Abstract!Other
           /\ Begin(t) \/ End(t) \/ StatsLock(t) \/ Restore(t) => Stutter
           /\ \A k \in Keys : DelApply(t, k) \/ (\E v \in Values : PutApply(t, k, v)) => Stutter
<1>1. ASSUME UNCHANGED <<files, current>> PROVE UNCHANGED StoredMap
  BY <1>1, SameLog DEF CurrentLog
<1>2. ASSUME NEW rec \in Record, NEW out \in WriteOutcomes, rec.type \in {"COMMIT", "CHECKPOINT"},
             WriteAndFlush(rec, out)
      PROVE  UNCHANGED StoredMap
  BY <1>2, AppendedLog DEF Touches
<1>3. ASSUME NEW out \in WriteOutcomes, CommitLog(t, out) PROVE Abstract!Other
  <2>1. CommitRecord(txn[t].id) \in Record
    BY <1>3, RecordFacts DEF CommitLog, Up, SoundInv, DBInv, InFlightInv
  <2>2. CommitRecord(txn[t].id).type = "COMMIT" /\ WriteAndFlush(CommitRecord(txn[t].id), out)
    BY <1>3 DEF CommitLog, append_record, CommitRecord
  <2>3. UNCHANGED StoredMap
    BY <1>2, <2>1, <2>2
  <2> QED
    BY <1>3, <2>3 DEF CommitLog, Abstract!Other
<1>4. ASSUME NEW out \in WriteOutcomes, create_checkpoint(out) PROVE UNCHANGED StoredMap
  BY <1>2, <1>4, RecordFacts DEF create_checkpoint, CheckpointRecord
<1>5. ASSUME NEW out \in WriteOutcomes, Backup(t, out) PROVE Abstract!Other
  BY <1>4, <1>5 DEF Backup, Abstract!Other
<1>6. ASSUME NEW out \in WriteOutcomes, ShutdownCheckpoint(t, out) PROVE Stutter
  BY <1>4, <1>6 DEF ShutdownCheckpoint, Stutter
<1>7. ASSUME NEW s \in Stamps, NEW lands \in BOOLEAN, NEW opens \in BOOLEAN,
             Compact(t, s, lands, opens)
      PROVE  Abstract!Other
  <2>1. files' = files /\ current' = s /\ stream # "none" /\ "compact" \in Calls
    BY <1>7, GoodClose DEF Compact, truncate_log, OpenForAppend, SoundInv
  <2>2. current = s
    BY <2>1 DEF OneLogFile, OneStamp, SoundInv, DBInv, WALInv, NamedWhenOpen
  <2> QED
    BY <1>1, <1>7, <2>1, <2>2 DEF Compact, Abstract!Other
<1>8. ASSUME BeginRefused(t) \/ CommitNothing(t) \/ Rollback(t) \/ ShutdownFlag(t)
      PROVE  Abstract!Other
  BY <1>1, <1>8 DEF BeginRefused, CommitNothing, Rollback, ShutdownFlag, walVars, Abstract!Other
<1>9. ASSUME \/ Begin(t) \/ End(t) \/ StatsLock(t) \/ Restore(t)
             \/ \E k \in Keys : DelApply(t, k) \/ \E v \in Values : PutApply(t, k, v)
      PROVE  Stutter
  <2>1. UNCHANGED <<files, current, reply>>
    BY <1>9 DEF Begin, End, StatsLock, Restore, recover_from_checkpoint, DelApply, PutApply, walVars
  <2> QED
    BY <1>1, <2>1 DEF Stutter
<1> QED
  BY <1>3, <1>5, <1>6, <1>7, <1>8, <1>9

LEMMA RefinementStep ==
    ASSUME SoundDisk, OneLogFile, SoundInv, [Next]_vars
    PROVE  Abstract!Next \/ Stutter
<1>1. ASSUME NEW t \in Threads, Finish(t) PROVE Abstract!Next \/ Stutter
  <2>1. ASSUME NEW out \in WriteOutcomes, PutLog(t, out) \/ DelLog(t, out) PROVE Abstract!Next
    BY <2>1, WriteRefines DEF Abstract!Next
  <2>2. ASSUME StatsRead(t) PROVE Abstract!Next
    BY <2>2, ReadRefines DEF Abstract!Next
  <2>3. ASSUME ShutdownFlag(t) PROVE Abstract!Next
    BY <2>3, OtherRefines DEF Abstract!Next
  <2> QED
    BY <1>1, <2>1, <2>2, <2>3 DEF Finish
<1>2. ASSUME NEW t \in Threads, Call(t) PROVE Abstract!Next \/ Stutter
  <2>1. ASSUME \E k \in Keys : Get(t, k) \/ DelMissing(t, k) PROVE Abstract!Next
    BY <2>1, ReadRefines DEF Abstract!Next
  <2>2. ASSUME NEW lo \in Keys, NEW hi \in {k + 1 : k \in Keys}, Scan(t, lo, hi) PROVE Abstract!Next
    BY <2>2, ReadRefines DEF Abstract!Next
  <2>3. ASSUME NEW out \in WriteOutcomes, CommitLog(t, out) \/ Backup(t, out) PROVE Abstract!Next
    BY <2>3, OtherRefines DEF Abstract!Next
  <2>4. ASSUME \/ BeginRefused(t) \/ CommitNothing(t) \/ Rollback(t)
               \/ \E s \in Stamps, lands, opens \in BOOLEAN : Compact(t, s, lands, opens)
        PROVE  Abstract!Next
    BY <2>4, OtherRefines DEF Abstract!Next
  <2>5. ASSUME \/ Begin(t) \/ End(t) \/ StatsLock(t) \/ Restore(t)
               \/ \E out \in WriteOutcomes : ShutdownCheckpoint(t, out)
               \/ \E k \in Keys : DelApply(t, k) \/ \E v \in Values : PutApply(t, k, v)
        PROVE  Stutter
    BY <2>5, OtherRefines
  <2> QED
    BY <1>2, <2>1, <2>2, <2>3, <2>4, <2>5 DEF Call
<1>3. ASSUME System PROVE Abstract!Next \/ Stutter
  BY <1>3, SystemRefines DEF Abstract!Next
<1>4. CASE UNCHANGED vars
  BY <1>4, SameLog DEF vars, walVars, CurrentLog, Stutter
<1> QED
  BY <1>1, <1>2, <1>3, <1>4 DEF Next

\* On a sound disk, while the log stays in one file, the engine implements
\* KVStore: no call, of whichever thread and in whichever life of the process,
\* can tell it from one map on which each call takes effect at once.
THEOREM EngineImplementsKVStore ==
    ASSUME SoundDisk, OneLogFile
    PROVE  Spec => ImplementsKVStore
<1>1. Init => Abstract!Init
  <2> SUFFICES ASSUME Init PROVE Abstract!Init
    OBVIOUS
  <2>1. CurrentLog = << >> /\ << >> \in Seq(Record)
    BY DEF Init, WALInit, CurrentLog
  <2> DEFINE empty == [k \in Keys |-> Absent]
  <2>2. \A k \in Keys : LastWrite(<< >>, k, empty[k])
    BY DEF LastWrite
  <2>3. empty = [k \in Keys |-> empty[k]]
    OBVIOUS
  <2> HIDE DEF empty
  <2>4. StoredMap = empty
    BY <2>1, <2>2, <2>3, MapOfIs, StoredMapIs
  <2> QED
    BY <2>4 DEF Init, NoReply, Abstract!Init, empty
<1>2. SoundInv /\ [Next]_vars => [Abstract!Next]_<<StoredMap, reply>>
  BY RefinementStep DEF Stutter
<1> QED
  BY <1>1, <1>2, SoundInvariant, PTL DEF Spec, ImplementsKVStore, Abstract!Spec
=============================================================================
