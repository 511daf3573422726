---------------------- MODULE PersistentDatabase_proofs ----------------------
(***************************************************************************)
(* Proofs about PersistentDatabase, for any number of threads, keys,       *)
(* values and transactions, every fault, every crash and every clock.      *)
(***************************************************************************)
EXTENDS PersistentDatabase, TLAPS

USE ConstantsAssumption

-----------------------------------------------------------------------------
(***************************************************************************)
(* The log, which the engine writes.                                       *)
(***************************************************************************)

\* An open log has a file name.
NamedWhenOpen == stream # "none" => current \in Stamps

\* Where no write is cut off, no record is torn.
TearsAreFaults == "tears" \in Faults \/ tears = {}

WALInv == WALTypeOK /\ NamedWhenOpen /\ AcceptedOnDiskOrPending /\ TearsAreFaults

\* The directory dir is files, with records added at the end of some file.
Extends(dir) ==
    \A s \in Stamps :
        /\ Len(files[s]) <= Len(dir[s])
        /\ \A i \in 1 .. Len(files[s]) : dir[s][i] = files[s][i]

-----------------------------------------------------------------------------
(* Closing and opening.                                                    *)

\* A write that is cut off leaves one tear more.
LEMMA TearInv ==
    ASSUME WALTypeOK, NamedWhenOpen, stream # "none", TearsAreFaults, NEW may, MayTear(may)
    PROVE  tears' \subseteq Stamps \X Nat \X {1, 2} /\ TearsAreFaults'
<1>1. CASE tears' = tears
  BY <1>1 DEF WALTypeOK, TearsAreFaults
<1>2. ASSUME "tears" \in Faults, NEW m \in {1, 2}, tears' = tears \cup {<<current, Len(files[current]), m>>}
      PROVE  tears' \subseteq Stamps \X Nat \X {1, 2} /\ TearsAreFaults'
  <2>1. current \in Stamps /\ Len(files[current]) \in Nat
    BY DEF WALTypeOK, NamedWhenOpen
  <2> QED
    BY <1>2, <2>1 DEF WALTypeOK, TearsAreFaults
<1>3. tears' = tears \/ ("tears" \in Faults /\ \E m \in {1, 2} : tears' = tears \cup {<<current, Len(files[current]), m>>})
  BY DEF MayTear
<1> QED
  BY <1>1, <1>2, <1>3

\* Closing the file adds what was still buffered and removes nothing.
LEMMA ClosedFilesExtend ==
    ASSUME WALTypeOK, NamedWhenOpen, stream # "none", NEW lands \in BOOLEAN
    PROVE  ClosedFiles(lands) \in [Stamps -> Seq(Record)] /\ Extends(ClosedFiles(lands))
<1> USE DEF WALTypeOK, NamedWhenOpen
<1> DEFINE longer == files[current] \o pending
<1>1. /\ longer \in Seq(Record)
      /\ Len(files[current]) <= Len(longer)
      /\ \A i \in 1 .. Len(files[current]) : longer[i] = files[current][i]
  OBVIOUS
<1>2. CASE lands
  <2>1. ClosedFiles(lands) = [files EXCEPT ![current] = longer]
    BY <1>2 DEF ClosedFiles
  <2> HIDE DEF longer
  <2> QED
    BY <1>1, <2>1 DEF Extends
<1>3. CASE ~lands
  BY <1>3 DEF ClosedFiles, Extends
<1> QED
  BY <1>2, <1>3

\* An open starts a new account of accepted records.
LEMMA OpenInv ==
    ASSUME NEW s \in Stamps, NEW opens, NEW dir \in [Stamps -> Seq(Record)],
           OpenForAppend(s, opens, dir),
           tears' \subseteq Stamps \X Nat \X {1, 2}, TearsAreFaults',
           total_records' \in Nat, wedged' \in BOOLEAN
    PROVE  WALInv'
<1> USE DEF OpenForAppend, MayOpen
<1>1. WALTypeOK'
  BY DEF WALTypeOK
<1>2. NamedWhenOpen'
  BY DEF NamedWhenOpen
<1>3. AcceptedOnDiskOrPending'
  <2>1. base' + Len(accepted') = Len(files'[current']) + Len(pending')
    OBVIOUS
  <2>2. accepted' = << >> /\ pending' = << >>
    OBVIOUS
  <2> QED
    BY <2>1, <2>2 DEF AcceptedOnDiskOrPending
<1> QED
  BY <1>1, <1>2, <1>3 DEF WALInv

-----------------------------------------------------------------------------
(* Writing.                                                                *)

\* A record that is written, refused or kept in the buffer.
LEMMA WriteInv ==
    ASSUME WALInv, NEW rec \in Record, NEW out, WriteAndFlush(rec, out),
           total_records' \in Nat
    PROVE  WALInv' /\ Extends(files')
<1> DEFINE file == files[current]
<1>1. /\ current \in Stamps
      /\ file \in Seq(Record)
      /\ accepted \in Seq(Record)
      /\ base \in Nat
  BY DEF WALInv, WALTypeOK, NamedWhenOpen, WriteAndFlush
<1>0. tears' \subseteq Stamps \X Nat \X {1, 2} /\ TearsAreFaults'
  BY TearInv DEF WALInv, WriteAndFlush
<1>2. CASE out = "ok"
  <2>1. stream = "good" /\ pending = << >>
    BY <1>2 DEF WriteAndFlush, WriteOutcomes, WALInv, AcceptedOnDiskOrPending
  <2>2. /\ files' = [files EXCEPT ![current] = Append(file, rec)]
        /\ accepted' = Append(accepted, rec)
        /\ UNCHANGED <<pending, current, wedged, base, stream>>
    BY <1>2, <2>1 DEF WriteAndFlush, Accepts
  <2>3. files'[current'] = Append(file, rec)
    BY <1>1, <2>2 DEF WALInv, WALTypeOK
  <2>4. /\ base + Len(accepted) = Len(file)
        /\ \A i \in 1 .. Len(accepted) : accepted[i] = file[base + i]
    BY <1>1, <2>1 DEF WALInv, AcceptedOnDiskOrPending
  <2>5. AcceptedOnDiskOrPending'
    <3> HIDE DEF file
    <3>1. base + Len(Append(accepted, rec)) = Len(Append(file, rec))
      BY <1>1, <2>4
    <3>2. ASSUME NEW i \in 1 .. Len(Append(accepted, rec))
          PROVE  /\ base + i <= Len(Append(file, rec))
                 /\ Append(accepted, rec)[i] = Append(file, rec)[base + i]
      <4>1. CASE i \in 1 .. Len(accepted)
        <5>1. base + i \in 1 .. Len(file)
          BY <1>1, <2>4, <4>1
        <5> QED
          BY <1>1, <2>4, <4>1, <5>1
      <4>2. CASE i = Len(accepted) + 1
        BY <1>1, <2>4, <4>2
      <4> QED
        BY <1>1, <4>1, <4>2
    <3>3. pending' = << >> /\ Len(pending') = 0
      BY <2>1, <2>2
    <3>4. base' + Len(accepted') = Len(files'[current']) + Len(pending')
      BY <1>1, <2>2, <2>3, <3>1, <3>3
    <3>5. \A i \in 1 .. Len(accepted') :
             base' + i <= Len(files'[current']) /\ accepted'[i] = files'[current'][base' + i]
      BY <2>2, <2>3, <3>2
    <3> QED
      BY <3>3, <3>4, <3>5 DEF AcceptedOnDiskOrPending
  <2>6. WALTypeOK' /\ NamedWhenOpen' /\ Extends(files')
    BY <1>0, <1>1, <2>2 DEF Extends, WALInv, WALTypeOK, NamedWhenOpen
  <2> QED
    BY <1>0, <2>5, <2>6 DEF WALInv
<1>3. CASE out = "flushFails"
  <2>1. stream = "good" /\ pending = << >>
    BY <1>3 DEF WriteAndFlush, WriteOutcomes, WALInv, AcceptedOnDiskOrPending
  <2>2. /\ pending' = <<rec>>
        /\ stream' = "bad"
        /\ accepted' = Append(accepted, rec)
        /\ UNCHANGED <<files, current, wedged, base>>
    BY <1>3, <2>1 DEF WriteAndFlush, Accepts
  <2>3. /\ base + Len(accepted) = Len(file)
        /\ \A i \in 1 .. Len(accepted) : accepted[i] = file[base + i]
    BY <1>1, <2>1 DEF WALInv, AcceptedOnDiskOrPending
  <2>4. AcceptedOnDiskOrPending'
    <3>0. files'[current'] = file
      BY <2>2
    <3> HIDE DEF file
    <3>1. base + Len(Append(accepted, rec)) = Len(file) + Len(<<rec>>)
      BY <1>1, <2>3
    <3>2. ASSUME NEW i \in 1 .. Len(Append(accepted, rec))
          PROVE  Append(accepted, rec)[i] = IF base + i <= Len(file)
                                            THEN file[base + i] ELSE <<rec>>[1]
      <4>1. CASE i \in 1 .. Len(accepted)
        BY <1>1, <2>3, <4>1
      <4>2. CASE i = Len(accepted) + 1
        BY <1>1, <2>3, <4>2
      <4> QED
        BY <1>1, <4>1, <4>2
    <3> QED
      BY <2>2, <3>0, <3>1, <3>2 DEF AcceptedOnDiskOrPending
  <2>5. WALTypeOK' /\ NamedWhenOpen' /\ Extends(files')
    BY <1>0, <1>1, <2>2 DEF Extends, WALInv, WALTypeOK, NamedWhenOpen
  <2> QED
    BY <1>0, <2>4, <2>5 DEF WALInv
<1>4. CASE out = "writeFails"
  <2>1. UNCHANGED <<files, pending, accepted, current, wedged, base>>
    BY <1>4 DEF WriteAndFlush, Accepts
  <2>2. stream # "none" /\ stream' \in {"bad", "closed"} /\ (pending # << >> => stream' = "bad")
    BY <1>4 DEF WriteAndFlush, WALInv, WALTypeOK, AcceptedOnDiskOrPending
  <2>3. WALTypeOK' /\ NamedWhenOpen' /\ Extends(files')
    BY <1>0, <1>1, <2>1, <2>2 DEF Extends, WALInv, WALTypeOK, NamedWhenOpen
  <2>4. AcceptedOnDiskOrPending'
    BY <2>1, <2>2 DEF WALInv, AcceptedOnDiskOrPending
  <2> QED
    BY <1>0, <2>3, <2>4 DEF WALInv
<1> QED
  BY <1>2, <1>3, <1>4 DEF WriteAndFlush, WriteOutcomes

-----------------------------------------------------------------------------
LEMMA WALStep == WALInv /\ [WALNext]_walVars => WALInv' /\ Extends(files')
<1> SUFFICES ASSUME WALInv, [WALNext]_walVars PROVE WALInv' /\ Extends(files')
  OBVIOUS
<1>0. WALTypeOK /\ NamedWhenOpen /\ TearsAreFaults
  BY DEF WALInv
<1>1. ASSUME NEW s \in Stamps, NEW opens \in BOOLEAN, construct(s, opens)
      PROVE  WALInv' /\ Extends(files')
  <2>1. WALInv'
    BY <1>0, <1>1, OpenInv DEF construct, WALTypeOK, TearsAreFaults
  <2>2. Extends(files')
    BY <1>0, <1>1 DEF construct, OpenForAppend, Extends, WALTypeOK
  <2> QED
    BY <2>1, <2>2
<1>2. ASSUME NEW rec \in TxnRecord, NEW out, append_record(rec, out)
      PROVE  WALInv' /\ Extends(files')
  <2>1. rec \in Record
    BY DEF Record
  <2>2. total_records' \in Nat
    BY <1>0, <1>2 DEF append_record, WALTypeOK
  <2> QED
    BY <1>2, <2>1, <2>2, WriteInv DEF append_record
<1>3. ASSUME NEW out, create_checkpoint(out)
      PROVE  WALInv' /\ Extends(files')
  <2>1. CheckpointRecord \in Record
    BY DEF Record
  <2>2. total_records' \in Nat
    BY <1>0, <1>3 DEF create_checkpoint, WALTypeOK
  <2> QED
    BY <1>3, <2>1, <2>2, WriteInv DEF create_checkpoint
<1>4. ASSUME NEW lands \in BOOLEAN, NEW opens \in BOOLEAN, read_all_records(lands, opens)
      PROVE  WALInv' /\ Extends(files')
  <2>1. ClosedFiles(lands) \in [Stamps -> Seq(Record)] /\ Extends(ClosedFiles(lands))
    BY <1>0, <1>4, ClosedFilesExtend DEF read_all_records
  <2>2. current \in Stamps /\ total_records' \in Nat /\ wedged' \in BOOLEAN
    BY <1>0, <1>4 DEF read_all_records, NamedWhenOpen, WALTypeOK
  <2>3. OpenForAppend(current, opens, ClosedFiles(lands))
    BY <1>4 DEF read_all_records
  <2>4. files' = ClosedFiles(lands)
    BY <2>3 DEF OpenForAppend
  <2>5. tears' \subseteq Stamps \X Nat \X {1, 2} /\ TearsAreFaults'
    BY <1>0, <1>4, TearInv DEF read_all_records
  <2> QED
    BY <2>1, <2>2, <2>3, <2>4, <2>5, OpenInv
<1>5. ASSUME NEW s \in Stamps, NEW lands \in BOOLEAN, NEW opens \in BOOLEAN,
             truncate_log(s, lands, opens)
      PROVE  WALInv' /\ Extends(files')
  <2>1. ClosedFiles(lands) \in [Stamps -> Seq(Record)] /\ Extends(ClosedFiles(lands))
    BY <1>0, <1>5, ClosedFilesExtend DEF truncate_log
  <2>2. total_records' \in Nat /\ wedged' \in BOOLEAN
    BY <1>0, <1>5 DEF truncate_log, WALTypeOK
  <2>3. OpenForAppend(s, opens, ClosedFiles(lands))
    BY <1>5 DEF truncate_log
  <2>4. files' = ClosedFiles(lands)
    BY <2>3 DEF OpenForAppend
  <2>5. tears' \subseteq Stamps \X Nat \X {1, 2} /\ TearsAreFaults'
    BY <1>0, <1>5, TearInv DEF truncate_log
  <2> QED
    BY <2>1, <2>2, <2>3, <2>4, <2>5, OpenInv
<1>6. CASE recover_from_checkpoint
  <2>1. /\ wedged' \in BOOLEAN
        /\ UNCHANGED <<files, tears, current, stream, pending, total_records, accepted, base>>
    BY <1>6 DEF recover_from_checkpoint
  <2>2. WALTypeOK' /\ NamedWhenOpen' /\ TearsAreFaults'
    BY <1>0, <2>1 DEF WALInv, WALTypeOK, NamedWhenOpen, TearsAreFaults
  <2>3. AcceptedOnDiskOrPending'
    BY <1>0, <2>1, Zenon DEF WALInv, AcceptedOnDiskOrPending
  <2>4. Extends(files')
    BY <1>0, <2>1 DEF WALInv, WALTypeOK, Extends
  <2> QED
    BY <2>2, <2>3, <2>4 DEF WALInv
<1>7. ASSUME NEW lands \in BOOLEAN, destroy(lands)
      PROVE  WALInv' /\ Extends(files')
  <2>1. ClosedFiles(lands) \in [Stamps -> Seq(Record)] /\ Extends(ClosedFiles(lands))
    BY <1>0, <1>7, ClosedFilesExtend DEF destroy
  <2>2. files' = ClosedFiles(lands) /\ stream' = "none"
    BY <1>7 DEF destroy
  <2>4. tears' \subseteq Stamps \X Nat \X {1, 2} /\ TearsAreFaults'
    BY <1>0, <1>7, TearInv DEF destroy
  <2>3. WALTypeOK'
    <3>1. << >> \in Seq(Record)
      OBVIOUS
    <3>2. pending' = << >> /\ accepted' = << >> /\ base' = 0 /\ total_records' = 0
      BY <1>7 DEF destroy
    <3>3. wedged' = FALSE /\ current' = current
      BY <1>7 DEF destroy
    <3> QED
      BY <1>0, <2>1, <2>2, <2>4, <3>1, <3>2, <3>3 DEF WALTypeOK
  <2> QED
    BY <2>1, <2>2, <2>3, <2>4 DEF WALInv, NamedWhenOpen, AcceptedOnDiskOrPending
<1>8. CASE UNCHANGED walVars
  BY <1>8 DEF walVars, WALInv, WALTypeOK, NamedWhenOpen, AcceptedOnDiskOrPending, TearsAreFaults, Extends
<1> QED
  BY <1>1, <1>2, <1>3, <1>4, <1>5, <1>6, <1>7, <1>8 DEF WALNext

LEMMA WALInvariant == WALSpec => []WALInv
<1>1. WALInit => WALInv
  <2> SUFFICES ASSUME WALInit PROVE WALInv
    OBVIOUS
  <2>1. << >> \in Seq(Record)
    OBVIOUS
  <2>2. WALTypeOK
    BY <2>1 DEF WALInit, WALTypeOK
  <2> QED
    BY <2>2 DEF WALInit, WALInv, NamedWhenOpen, AcceptedOnDiskOrPending, TearsAreFaults
<1>2. WALInv /\ [WALNext]_walVars => WALInv'
  BY WALStep
<1> QED
  BY <1>1, <1>2, PTL DEF WALSpec

\* The state of the log is well typed.
THEOREM WALTypeCorrect == WALSpec => []WALTypeOK
<1>1. WALInv => WALTypeOK
  BY DEF WALInv
<1> QED
  BY <1>1, WALInvariant, PTL

\* The open log file is what it was when it was opened followed by every
\* record append_record and create_checkpoint answered true to, but for at
\* most one record that a failed flush left in the buffer.
THEOREM AcceptedRecordsKept == WALSpec => []AcceptedOnDiskOrPending
<1>1. WALInv => AcceptedOnDiskOrPending
  BY DEF WALInv
<1> QED
  BY <1>1, WALInvariant, PTL

\* No operation of the log, and no crash, removes or changes a record.
THEOREM LogOnlyGrows == WALSpec => FilesOnlyGrow
<1>1. WALInv /\ [WALNext]_walVars
        => [\A s \in Stamps :
              /\ Len(files[s]) <= Len(files'[s])
              /\ \A i \in 1 .. Len(files[s]) : files'[s][i] = files[s][i]]_walVars
  BY WALStep DEF Extends
<1> QED
  BY <1>1, WALInvariant, PTL DEF WALSpec, FilesOnlyGrow

-----------------------------------------------------------------------------
(***************************************************************************)
(* The engine.                                                             *)
(***************************************************************************)

HIDE ConstantsAssumption
USE EngineAssumption

(* The strengthening that makes NoPhantomData inductive.                   *)

\* A process has a log exactly while it runs.
PhaseInv == phase = "down" <=> stream = "none"

\* Nobody is served before initialize has returned.
QuietInv == phase # "up" => \A t \in Threads : pc[t] = "idle"

\* What put and del rely on between their two steps: data_ already shows the
\* change, and the old value that del would put back is still the last one
\* that the log accepted.
InFlightInv ==
    \A t \in Threads :
        /\ pc[t] \in {"open", "put", "del"} => txn[t].id \in TxnIds
        /\ pc[t] \in {"put", "del"} => arg[t].key \in Keys /\ arg[t].value \in Values
        /\ pc[t] = "put" => data[arg[t].key] = arg[t].value
        /\ pc[t] = "del" => /\ data[arg[t].key] = Absent
                            /\ LastWrite(logged, arg[t].key, arg[t].value)

DBInv ==
    /\ TypeOK
    /\ WALInv
    /\ PhaseInv
    /\ QuietInv
    /\ LockDiscipline
    /\ InFlightInv
    /\ NoPhantomData

-----------------------------------------------------------------------------
(* Records, and the last of them about a key.                              *)

LEMMA RecordFacts ==
    /\ \A k \in Keys, v \in Values, id \in TxnIds :
          PutRecord(k, v, id) \in TxnRecord
    /\ \A k \in Keys, id \in TxnIds : DeleteRecord(k, id) \in TxnRecord
    /\ \A id \in TxnIds : CommitRecord(id) \in TxnRecord
    /\ TxnRecord \subseteq Record
    /\ CheckpointRecord \in Record
  BY DEF TxnRecord, Record

LEMMA RecordKinds ==
    ASSUME NEW rec \in Record
    PROVE  /\ rec.type = "PUT" => rec.key \in Keys /\ rec.value \in Values
           /\ rec.type = "DELETE" => rec.key \in Keys /\ rec.value = Absent
  BY DEF Record, TxnRecord, PutRecord, DeleteRecord, CommitRecord, CheckpointRecord

\* A record about another key, or about none, changes nothing.
LEMMA LastWriteOther ==
    ASSUME NEW log \in Seq(Record), NEW rec \in Record, NEW k, NEW v,
           LastWrite(log, k, v), ~Touches(rec, k)
    PROVE  LastWrite(Append(log, rec), k, v)
<1> DEFINE longer == Append(log, rec)
<1>1. /\ DOMAIN log = 1 .. Len(log)
      /\ DOMAIN longer = 1 .. Len(log) + 1
      /\ \A i \in DOMAIN log : longer[i] = log[i]
      /\ longer[Len(log) + 1] = rec
      /\ Len(log) \in Nat
  OBVIOUS
<1> HIDE DEF longer
<1>2. CASE v = Absent /\ \A i \in DOMAIN log : ~Touches(log[i], k)
  <2>1. \A i \in DOMAIN longer : ~Touches(longer[i], k)
    BY <1>1, <1>2
  <2> QED
    BY <1>2, <2>1 DEF LastWrite, longer
<1>3. ASSUME NEW i \in DOMAIN log, Touches(log[i], k), log[i].value = v,
             \A j \in DOMAIN log : j > i => ~Touches(log[j], k)
      PROVE  LastWrite(longer, k, v)
  <2>1. i \in DOMAIN longer /\ Touches(longer[i], k) /\ longer[i].value = v
    BY <1>1, <1>3
  <2>2. \A j \in DOMAIN longer : j > i => ~Touches(longer[j], k)
    BY <1>1, <1>3
  <2> QED
    BY <2>1, <2>2 DEF LastWrite
<1> QED
  BY <1>2, <1>3 DEF LastWrite, longer

\* A record about the key is the last one.
LEMMA LastWriteSame ==
    ASSUME NEW log \in Seq(Record), NEW rec \in Record, NEW k, Touches(rec, k)
    PROVE  LastWrite(Append(log, rec), k, rec.value)
<1> DEFINE longer == Append(log, rec)
<1>1. /\ DOMAIN longer = 1 .. Len(log) + 1
      /\ longer[Len(log) + 1] = rec
      /\ Len(log) \in Nat
  OBVIOUS
<1> HIDE DEF longer
<1>2. LastWrite(longer, k, rec.value)
  BY <1>1 DEF LastWrite
<1> QED
  BY <1>2 DEF longer

-----------------------------------------------------------------------------
(* The log inside the engine.                                              *)

\* Whatever the engine does, the log sees one of its own operations or none.
LEMMA LogStep == DBInv /\ [Next]_vars => [WALNext]_walVars
<1> SUFFICES ASSUME DBInv, [Next]_vars PROVE [WALNext]_walVars
  OBVIOUS
<1>1. ASSUME System PROVE [WALNext]_walVars
  BY <1>1 DEF System, RecoverTurn, Start, RecoverRecord, RecoverGarbled, FinishRecovery, Crash, WALNext
<1>2. ASSUME NEW t \in Threads, Finish(t) PROVE [WALNext]_walVars
  <2>1. ASSUME NEW out \in WriteOutcomes, PutLog(t, out) PROVE WALNext
    <3>1. PutRecord(arg[t].key, arg[t].value, txn[t].id) \in TxnRecord
      BY <2>1, RecordFacts DEF PutLog, Up, DBInv, InFlightInv
    <3> QED
      BY <2>1, <3>1 DEF PutLog, WALNext
  <2>2. ASSUME NEW out \in WriteOutcomes, DelLog(t, out) PROVE WALNext
    <3>1. DeleteRecord(arg[t].key, txn[t].id) \in TxnRecord
      BY <2>2, RecordFacts DEF DelLog, Up, DBInv, InFlightInv
    <3> QED
      BY <2>2, <3>1 DEF DelLog, WALNext
  <2>3. ASSUME StatsRead(t) \/ ShutdownFlag(t) PROVE UNCHANGED walVars
    BY <2>3 DEF StatsRead, ShutdownFlag
  <2> QED
    BY <1>2, <2>1, <2>2, <2>3 DEF Finish
<1>3. ASSUME NEW t \in Threads, Call(t) PROVE [WALNext]_walVars
  <2>1. ASSUME NEW out \in WriteOutcomes, CommitLog(t, out) PROVE WALNext
    <3>1. CommitRecord(txn[t].id) \in TxnRecord
      BY <2>1, RecordFacts DEF CommitLog, Up, DBInv, InFlightInv
    <3> QED
      BY <2>1, <3>1 DEF CommitLog, WALNext
  <2>2. ASSUME NEW out \in WriteOutcomes, Backup(t, out) \/ ShutdownCheckpoint(t, out)
        PROVE  WALNext
    BY <2>2 DEF Backup, ShutdownCheckpoint, WALNext
  <2>3. ASSUME NEW s \in Stamps, NEW lands \in BOOLEAN, NEW opens \in BOOLEAN,
               Compact(t, s, lands, opens)
        PROVE  WALNext
    BY <2>3 DEF Compact, WALNext
  <2>4. ASSUME Restore(t) PROVE WALNext
    BY <2>4 DEF Restore, WALNext
  <2>5. ASSUME \/ Begin(t) \/ BeginRefused(t) \/ End(t) \/ CommitNothing(t) \/ Rollback(t)
               \/ StatsLock(t)
               \/ \E k \in Keys : Get(t, k) \/ DelMissing(t, k) \/ DelApply(t, k)
               \/ \E k \in Keys, v \in Values : PutApply(t, k, v)
               \/ \E lo \in Keys, hi \in {k + 1 : k \in Keys} : Scan(t, lo, hi)
        PROVE  UNCHANGED walVars
    BY <2>5 DEF Begin, BeginRefused, End, CommitNothing, Rollback, StatsLock, Get,
                DelMissing, DelApply, PutApply, Scan
  <2> QED
    BY <1>3, <2>1, <2>2, <2>3, <2>4, <2>5 DEF Call
<1>4. ASSUME UNCHANGED vars PROVE UNCHANGED walVars
  BY <1>4 DEF vars
<1> QED
  BY <1>1, <1>2, <1>3, <1>4 DEF Next

\* An operation on an open log leaves it open.
LEMMA LogStaysOpen ==
    ASSUME stream # "none",
           \/ \E rec, out : append_record(rec, out)
           \/ \E out : create_checkpoint(out)
           \/ \E lands, opens : read_all_records(lands, opens)
           \/ \E s, lands, opens : truncate_log(s, lands, opens)
           \/ recover_from_checkpoint
    PROVE  stream' # "none"
  BY DEF append_record, create_checkpoint, read_all_records, truncate_log,
         recover_from_checkpoint, WriteAndFlush, OpenForAppend

-----------------------------------------------------------------------------
(* Steps that leave the engine's own state alone.                          *)

\* The log accepts nothing, or a record about no key.
LoggedQuietly ==
    \/ logged' = logged
    \/ \E rec \in Record : (\A k \in Keys : ~Touches(rec, k)) /\ logged' = Append(logged, rec)

\* A COMMIT or CHECKPOINT record is about no key, refused or not.
LEMMA QuietRecord ==
    ASSUME NEW rec \in Record, rec.type \in {"COMMIT", "CHECKPOINT"}, NEW out, LogIf(out, rec)
    PROVE  LoggedQuietly
  BY DEF LogIf, LoggedQuietly, Touches

LEMMA QuietLastWrite ==
    ASSUME TypeOK, LoggedQuietly, NEW k \in Keys, NEW v, LastWrite(logged, k, v)
    PROVE  LastWrite(logged', k, v)
<1>1. CASE logged' = logged
  BY <1>1 DEF LastWrite, Touches
<1>2. ASSUME NEW rec \in Record, ~Touches(rec, k), logged' = Append(logged, rec)
      PROVE  LastWrite(logged', k, v)
  BY <1>2, LastWriteOther DEF TypeOK
<1> QED
  BY <1>1, <1>2 DEF LoggedQuietly

\* Nobody's call advances: a step of the log, of a reader or of a commit.
LEMMA QuietStep ==
    ASSUME DBInv, WALInv', PhaseInv', LoggedQuietly,
           UNCHANGED <<sysVars, lockVars, threadVars, data>>
    PROVE  DBInv'
<1> USE DEF sysVars, lockVars, threadVars
<1>1. logged' \in Seq(Record)
  BY DEF LoggedQuietly, DBInv, TypeOK
<1>2. TypeOK'
  BY <1>1 DEF DBInv, TypeOK, WALInv
<1>3. QuietInv' /\ LockDiscipline'
  BY DEF DBInv, QuietInv, LockDiscipline
<1>4. InFlightInv'
  BY QuietLastWrite DEF DBInv, InFlightInv
<1>5. NoPhantomData'
  BY QuietLastWrite DEF DBInv, NoPhantomData, Settled
<1> QED
  BY <1>2, <1>3, <1>4, <1>5 DEF DBInv

\* A thread moves between two places outside put and del; it may take or drop
\* its transaction and the shared lock.
LEMMA MoveStep ==
    ASSUME DBInv, WALInv', PhaseInv', LoggedQuietly, UNCHANGED <<phase, writer, arg, data>>,
           TypeOK', NEW t \in Threads, phase = "up", pc[t] \notin {"put", "del"},
           NEW to, to \notin {"put", "del"}, pc' = [pc EXCEPT ![t] = to],
           to = "open" => txn'[t].id \in TxnIds,
           \A u \in Threads : u # t => txn'[u] = txn[u],
           to = "stats" <=> t \in readers',
           \A u \in Threads : u # t => (u \in readers' <=> u \in readers),
           readers' # {} => writer = NoThread
    PROVE  DBInv'
<1>1. pc'[t] = to /\ \A u \in Threads : u # t => pc'[u] = pc[u]
  BY DEF DBInv, TypeOK
<1>2. QuietInv' /\ LockDiscipline'
  BY <1>1 DEF DBInv, QuietInv, LockDiscipline
<1>3. InFlightInv'
  BY <1>1, QuietLastWrite DEF DBInv, InFlightInv
<1>4. NoPhantomData'
  BY QuietLastWrite DEF DBInv, NoPhantomData, Settled
<1> QED
  BY <1>2, <1>3, <1>4 DEF DBInv

-----------------------------------------------------------------------------
(* put and del.                                                            *)

\* The first half of a put or del: a thread takes the lock and changes one
\* key, which is then unsettled.
LEMMA ApplyStep ==
    ASSUME DBInv, NEW t \in Threads, NEW k \in Keys, NEW v \in Values,
           NEW new \in Values \cup {Absent}, NEW where \in {"put", "del"},
           Up(t, "open"), writer = NoThread, readers = {},
           where = "put" => new = v,
           where = "del" => new = Absent /\ LastWrite(logged, k, v),
           writer' = t,
           data' = [data EXCEPT ![k] = new],
           txn' = [txn EXCEPT ![t].has_writes = TRUE],
           arg' = [arg EXCEPT ![t] = [key |-> k, value |-> v]],
           pc' = [pc EXCEPT ![t] = where],
           UNCHANGED <<walVars, sysVars, logged, readers>>
    PROVE  DBInv'
<1> USE DEF walVars, sysVars
<1>1. /\ pc'[t] = where /\ \A u \in Threads : u # t => pc'[u] = pc[u]
      /\ arg'[t] = [key |-> k, value |-> v]
      /\ \A u \in Threads : txn'[u].id = txn[u].id
      /\ data'[k] = new /\ \A j \in Keys : j # k => data'[j] = data[j]
  BY DEF DBInv, TypeOK
<1>2. WALInv'
  BY DEF DBInv, WALInv, WALTypeOK, NamedWhenOpen, AcceptedOnDiskOrPending, TearsAreFaults
<1>3. TypeOK'
  BY <1>2 DEF DBInv, TypeOK, WALInv
<1>4. PhaseInv' /\ QuietInv'
  BY DEF DBInv, PhaseInv, QuietInv, Up
<1>5. \A u \in Threads : pc[u] \notin {"put", "del"}
  BY DEF DBInv, LockDiscipline
<1>6. LockDiscipline'
  BY <1>1, <1>5 DEF DBInv, LockDiscipline, Up
<1>7. InFlightInv'
  BY <1>1, <1>5 DEF DBInv, InFlightInv, Up
<1>8. NoPhantomData'
  <2> SUFFICES ASSUME NEW j \in Keys, j # k, data'[j] # Absent
               PROVE  LastWrite(logged', j, data'[j])
    BY <1>1 DEF NoPhantomData, Settled
  <2> QED
    BY <1>1 DEF DBInv, NoPhantomData, Settled
<1> QED
  BY <1>2, <1>3, <1>4, <1>6, <1>7, <1>8 DEF DBInv

\* The second half: the record is accepted or the change undone, and either
\* way what the key holds is what the log says, or nothing.
LEMMA LogStepOfWrite ==
    ASSUME DBInv, WALInv', PhaseInv', NEW t \in Threads,
           Up(t, "put") \/ Up(t, "del"),
           NEW rec \in Record, \A k \in Keys : Touches(rec, k) <=> k = arg[t].key,
           NEW new \in Values \cup {Absent},
           \/ /\ logged' = Append(logged, rec)
              /\ rec.value = new
           \/ /\ logged' = logged
              /\ new # Absent => LastWrite(logged, arg[t].key, new),
           data' = [data EXCEPT ![arg[t].key] = new],
           NEW has \in BOOLEAN,
           txn' = [txn EXCEPT ![t].has_writes = has],
           writer' = NoThread,
           arg' = [arg EXCEPT ![t] = NoArg],
           pc' = [pc EXCEPT ![t] = "open"],
           UNCHANGED <<sysVars, readers>>
    PROVE  DBInv'
<1> USE DEF sysVars
<1> DEFINE key == arg[t].key
<1>1. /\ pc'[t] = "open" /\ \A u \in Threads : u # t => pc'[u] = pc[u]
      /\ \A u \in Threads : txn'[u].id = txn[u].id
  BY DEF DBInv, TypeOK
<1>2. key \in Keys /\ writer = t /\ txn[t].id \in TxnIds /\ logged \in Seq(Record)
  BY DEF DBInv, InFlightInv, LockDiscipline, Up, TypeOK
<1>3. data'[key] = new /\ \A j \in Keys : j # key => data'[j] = data[j]
  BY <1>2 DEF DBInv, TypeOK
<1>4. \A u \in Threads : pc'[u] \notin {"put", "del"}
  BY <1>1, <1>2 DEF DBInv, LockDiscipline
<1>5. TypeOK'
  <2>1. logged' \in Seq(Record)
    BY <1>2
  <2>2. data' \in [Keys -> Values \cup {Absent}]
    BY DEF DBInv, TypeOK
  <2>3. txn' \in [Threads -> [id : TxnIds \cup {0}, has_writes : BOOLEAN]]
    BY DEF DBInv, TypeOK
  <2>4. arg' \in [Threads -> [key : Keys \cup {NoKey}, value : Values \cup {Absent}]]
    BY DEF DBInv, TypeOK, NoArg
  <2>5. pc' \in [Threads -> {"idle", "open", "put", "del", "stats", "restore", "shutdown"}]
    BY DEF DBInv, TypeOK
  <2> QED
    BY <2>1, <2>2, <2>3, <2>4, <2>5 DEF DBInv, TypeOK, WALInv
<1>6. QuietInv' /\ LockDiscipline'
  BY <1>1, <1>2, <1>4 DEF DBInv, QuietInv, LockDiscipline, Up
<1>7. InFlightInv'
  BY <1>1, <1>2, <1>4 DEF DBInv, InFlightInv
<1>8. NoPhantomData'
  <2> SUFFICES ASSUME NEW j \in Keys, data'[j] # Absent
               PROVE  LastWrite(logged', j, data'[j])
    BY DEF NoPhantomData
  <2>1. CASE j = key
    <3>1. data'[j] = new
      BY <1>3, <2>1
    <3>2. CASE logged' = Append(logged, rec) /\ rec.value = new
      <4>1. Touches(rec, j)
        BY <2>1
      <4>2. LastWrite(Append(logged, rec), j, rec.value)
        BY <1>2, <4>1, LastWriteSame
      <4> QED
        BY <3>1, <3>2, <4>2
    <3>3. CASE logged' = logged /\ (new # Absent => LastWrite(logged, key, new))
      BY <2>1, <3>1, <3>3
    <3> QED
      BY <3>2, <3>3
  <2>2. CASE j # key
    <3>1. LastWrite(logged, j, data'[j])
      BY <1>2, <1>3, <2>2 DEF DBInv, NoPhantomData, Settled
    <3> QED
      BY <1>2, <2>2, <3>1, LastWriteOther
  <2> QED
    BY <2>1, <2>2
<1> QED
  BY <1>5, <1>6, <1>7, <1>8 DEF DBInv

-----------------------------------------------------------------------------
(* Start-up and crash.                                                     *)

\* initialize replays a record, one of the file's or one made of torn ones.
LEMMA ReplayStep ==
    ASSUME DBInv, WALInv', phase = "recovering", NEW rec \in Record, NEW p \in Nat,
           data' = Replayed(rec), logged' = Append(logged, rec), pos' = p,
           UNCHANGED <<walVars, writer, readers, pc, txn, arg, phase, initialized, next_transaction_id>>
    PROVE  DBInv'
<1>1. logged \in Seq(Record) /\ data \in [Keys -> Values \cup {Absent}]
  BY DEF DBInv, TypeOK
<1>2. \A t \in Threads : pc[t] = "idle"
  BY DEF DBInv, QuietInv
<1>3. \A k \in Keys : data'[k] = IF Touches(rec, k) THEN rec.value ELSE data[k]
  BY <1>1, RecordKinds DEF Replayed, Touches
<1>4. data' \in [Keys -> Values \cup {Absent}]
  BY <1>1, RecordKinds DEF Replayed
<1>5. TypeOK'
  BY <1>1, <1>4 DEF DBInv, TypeOK, WALInv
<1>6. PhaseInv' /\ QuietInv' /\ LockDiscipline'
  BY DEF DBInv, PhaseInv, QuietInv, LockDiscipline, walVars
<1>7. InFlightInv'
  BY <1>2 DEF InFlightInv
<1>8. NoPhantomData'
  <2> SUFFICES ASSUME NEW k \in Keys, data'[k] # Absent
               PROVE  LastWrite(logged', k, data'[k])
    BY DEF NoPhantomData
  <2>1. CASE Touches(rec, k)
    BY <1>1, <1>3, <2>1, LastWriteSame
  <2>2. CASE ~Touches(rec, k)
    <3>1. writer = NoThread
      BY <1>2 DEF DBInv, TypeOK, LockDiscipline
    <3>2. LastWrite(logged, k, data[k])
      BY <1>3, <2>2, <3>1 DEF DBInv, NoPhantomData, Settled
    <3> QED
      BY <1>1, <1>3, <2>2, <3>2, LastWriteOther
  <2> QED
    BY <2>1, <2>2
<1> QED
  BY <1>5, <1>6, <1>7, <1>8 DEF DBInv

LEMMA SystemStep == DBInv /\ WALInv' /\ System => DBInv'
<1> SUFFICES ASSUME DBInv, WALInv', System PROVE DBInv'
  OBVIOUS
<1>1. ASSUME NEW s \in Stamps, NEW opens \in BOOLEAN, Start(s, opens) PROVE DBInv'
  <2> USE <1>1 DEF Start, lockVars, threadVars
  <2>1. TypeOK' /\ PhaseInv'
    BY DEF DBInv, TypeOK, WALInv, PhaseInv, construct, OpenForAppend
  <2>2. QuietInv' /\ LockDiscipline'
    BY DEF DBInv, QuietInv, LockDiscipline
  <2>3. InFlightInv' /\ NoPhantomData'
    BY DEF DBInv, InFlightInv, NoPhantomData, Settled
  <2> QED
    BY <2>1, <2>2, <2>3 DEF DBInv
<1>2. ASSUME RecoverRecord PROVE DBInv'
  <2> DEFINE rec == files[current][pos + 1]
  <2>1. rec \in Record
    <3>1. current \in Stamps
      BY <1>2 DEF RecoverRecord, DBInv, PhaseInv, WALInv, NamedWhenOpen
    <3>2. pos + 1 \in 1 .. Len(files[current])
      BY <1>2, <3>1 DEF RecoverRecord, AtEndOfLog, DBInv, TypeOK, WALTypeOK
    <3> QED
      BY <3>1, <3>2 DEF DBInv, TypeOK, WALTypeOK
  <2>2. /\ phase = "recovering" /\ data' = Replayed(rec) /\ logged' = Append(logged, rec)
        /\ pos' = pos + 1 /\ pos + 1 \in Nat
        /\ UNCHANGED <<walVars, writer, readers, pc, txn, arg, phase, initialized,
                       next_transaction_id>>
    BY <1>2 DEF RecoverRecord, lockVars, threadVars, DBInv, TypeOK
  <2> HIDE DEF rec
  <2> QED
    BY <2>1, <2>2, ReplayStep
<1>5. ASSUME NEW rec \in Record, RecoverGarbled(rec) PROVE DBInv'
  <2>1. /\ phase = "recovering" /\ data' = Replayed(rec) /\ logged' = Append(logged, rec)
        /\ pos' \in Nat
        /\ UNCHANGED <<walVars, writer, readers, pc, txn, arg, phase, initialized,
                       next_transaction_id>>
    BY <1>5 DEF RecoverGarbled, lockVars, threadVars, DBInv, TypeOK
  <2> QED
    BY <2>1, ReplayStep
<1>3. ASSUME NEW opens \in BOOLEAN, FinishRecovery(opens) PROVE DBInv'
  <2> USE <1>3 DEF FinishRecovery, lockVars, threadVars
  <2>1. TypeOK' /\ PhaseInv'
    BY DEF DBInv, TypeOK, WALInv, PhaseInv, read_all_records, OpenForAppend
  <2>2. QuietInv' /\ LockDiscipline'
    BY DEF DBInv, QuietInv, LockDiscipline
  <2>3. InFlightInv' /\ NoPhantomData'
    BY DEF DBInv, InFlightInv, NoPhantomData, Settled
  <2> QED
    BY <2>1, <2>2, <2>3 DEF DBInv
<1>4. ASSUME NEW lands \in BOOLEAN, Crash(lands) PROVE DBInv'
  <2> USE <1>4 DEF Crash
  <2>1. txn' \in [Threads -> [id : TxnIds \cup {0}, has_writes : BOOLEAN]]
    BY DEF NoTxn
  <2>2. arg' \in [Threads -> [key : Keys \cup {NoKey}, value : Values \cup {Absent}]]
    BY DEF NoArg
  <2>3. << >> \in Seq(Record)
    OBVIOUS
  <2>4. next_transaction_id' \in 1 .. MaxTxns + 1
    BY ConstantsAssumption
  <2>5. TypeOK'
    BY <2>1, <2>2, <2>3, <2>4 DEF TypeOK, WALInv
  <2>6. PhaseInv' /\ QuietInv' /\ LockDiscipline'
    BY DEF PhaseInv, QuietInv, LockDiscipline, destroy
  <2>7. InFlightInv' /\ NoPhantomData'
    BY DEF InFlightInv, NoPhantomData
  <2> QED
    BY <2>5, <2>6, <2>7 DEF DBInv
<1> QED
  BY <1>1, <1>2, <1>3, <1>4, <1>5 DEF System, RecoverTurn

-----------------------------------------------------------------------------
(* Steps of the threads.                                                   *)

LEMMA FinishStep ==
    ASSUME DBInv, WALInv', NEW t \in Threads, Finish(t)
    PROVE  DBInv'
<1>1. ASSUME NEW out \in WriteOutcomes, PutLog(t, out) PROVE DBInv'
  <2> DEFINE rec == PutRecord(arg[t].key, arg[t].value, txn[t].id)
             new == IF Accepts(out) THEN arg[t].value ELSE Absent
  <2>1. /\ arg[t].key \in Keys /\ arg[t].value \in Values /\ txn[t].id \in TxnIds
        /\ data[arg[t].key] = arg[t].value
    BY <1>1 DEF PutLog, Up, DBInv, InFlightInv
  <2>2. rec \in Record
    BY <2>1, RecordFacts
  <2>3. (\A k \in Keys : Touches(rec, k) <=> k = arg[t].key) /\ rec.value = arg[t].value
    BY DEF Touches, PutRecord
  <2>4. PhaseInv'
    BY <1>1, LogStaysOpen DEF PutLog, Up, sysVars, DBInv, PhaseInv
  <2>5. data' = [data EXCEPT ![arg[t].key] = new]
    BY <1>1, <2>1 DEF PutLog, DataAfterPut, DBInv, TypeOK
  <2>6. /\ Accepts(out) => logged' = Append(logged, rec)
        /\ ~Accepts(out) => logged' = logged
    BY <1>1 DEF PutLog, LogIf
  <2>7. HasWritesAfter(out) \in BOOLEAN
    BY DEF HasWritesAfter, Accepts
  <2>8. /\ Up(t, "put") /\ txn' = [txn EXCEPT ![t].has_writes = HasWritesAfter(out)]
        /\ writer' = NoThread /\ arg' = [arg EXCEPT ![t] = NoArg]
        /\ pc' = [pc EXCEPT ![t] = "open"] /\ UNCHANGED <<sysVars, readers>>
    BY <1>1 DEF PutLog
  <2>9. new \in Values \cup {Absent}
    BY <2>1
  <2>10. \/ logged' = Append(logged, rec) /\ rec.value = new
         \/ logged' = logged /\ (new # Absent => LastWrite(logged, arg[t].key, new))
    BY <2>3, <2>6
  <2> HIDE DEF rec, new
  <2> QED
    BY <2>2, <2>3, <2>4, <2>5, <2>7, <2>8, <2>9, <2>10, LogStepOfWrite
<1>2. ASSUME NEW out \in WriteOutcomes, DelLog(t, out) PROVE DBInv'
  <2> DEFINE rec == DeleteRecord(arg[t].key, txn[t].id)
             new == IF Accepts(out) THEN Absent ELSE arg[t].value
  <2>1. /\ arg[t].key \in Keys /\ arg[t].value \in Values /\ txn[t].id \in TxnIds
        /\ data[arg[t].key] = Absent /\ LastWrite(logged, arg[t].key, arg[t].value)
    BY <1>2 DEF DelLog, Up, DBInv, InFlightInv
  <2>2. rec \in Record
    BY <2>1, RecordFacts
  <2>3. (\A k \in Keys : Touches(rec, k) <=> k = arg[t].key) /\ rec.value = Absent
    BY DEF Touches, DeleteRecord
  <2>4. PhaseInv'
    BY <1>2, LogStaysOpen DEF DelLog, Up, sysVars, DBInv, PhaseInv
  <2>5. data' = [data EXCEPT ![arg[t].key] = new]
    BY <1>2, <2>1 DEF DelLog, DataAfterDel, DBInv, TypeOK
  <2>6. /\ Accepts(out) => logged' = Append(logged, rec)
        /\ ~Accepts(out) => logged' = logged
    BY <1>2 DEF DelLog, LogIf
  <2>7. HasWritesAfter(out) \in BOOLEAN
    BY DEF HasWritesAfter, Accepts
  <2>8. /\ Up(t, "del") /\ txn' = [txn EXCEPT ![t].has_writes = HasWritesAfter(out)]
        /\ writer' = NoThread /\ arg' = [arg EXCEPT ![t] = NoArg]
        /\ pc' = [pc EXCEPT ![t] = "open"] /\ UNCHANGED <<sysVars, readers>>
    BY <1>2 DEF DelLog
  <2>9. new \in Values \cup {Absent}
    BY <2>1
  <2>10. \/ logged' = Append(logged, rec) /\ rec.value = new
         \/ logged' = logged /\ (new # Absent => LastWrite(logged, arg[t].key, new))
    BY <2>1, <2>3, <2>6
  <2> HIDE DEF rec, new
  <2> QED
    BY <2>2, <2>3, <2>4, <2>5, <2>7, <2>8, <2>9, <2>10, LogStepOfWrite
<1>3. ASSUME StatsRead(t) PROVE DBInv'
  <2> USE <1>3 DEF StatsRead, Up, walVars, sysVars
  <2>1. TypeOK' /\ PhaseInv'
    BY DEF DBInv, TypeOK, WALInv, PhaseInv
  <2>2. readers' # {} => writer = NoThread
    BY DEF DBInv, LockDiscipline
  <2> QED
    BY <2>1, <2>2, MoveStep DEF LoggedQuietly
<1>4. ASSUME ShutdownFlag(t) PROVE DBInv'
  <2> USE <1>4 DEF ShutdownFlag, Up, walVars, lockVars
  <2>1. TypeOK' /\ PhaseInv'
    BY DEF DBInv, TypeOK, WALInv, PhaseInv
  <2>2. (readers' # {} => writer = NoThread) /\ t \notin readers
    BY DEF DBInv, LockDiscipline
  <2> QED
    BY <2>1, <2>2, MoveStep DEF LoggedQuietly
<1> QED
  BY <1>1, <1>2, <1>3, <1>4 DEF Finish

LEMMA CallStep ==
    ASSUME DBInv, WALInv', NEW t \in Threads, Call(t)
    PROVE  DBInv'
<1>1. ASSUME \/ BeginRefused(t) \/ CommitNothing(t) \/ Rollback(t)
             \/ \E k \in Keys : Get(t, k) \/ DelMissing(t, k)
             \/ \E lo \in Keys, hi \in {k + 1 : k \in Keys} : Scan(t, lo, hi)
      PROVE  DBInv'
  <2> USE <1>1 DEF BeginRefused, CommitNothing, Rollback, Get, DelMissing, Scan, walVars
  <2>1. PhaseInv'
    BY DEF DBInv, PhaseInv, sysVars
  <2>2. LoggedQuietly /\ UNCHANGED <<sysVars, lockVars, threadVars, data>>
    BY DEF LoggedQuietly
  <2> QED
    BY <2>1, <2>2, QuietStep
<1>2. ASSUME NEW out \in WriteOutcomes, CommitLog(t, out) PROVE DBInv'
  <2> USE <1>2 DEF CommitLog
  <2>1. PhaseInv'
    BY LogStaysOpen DEF DBInv, PhaseInv, Up, sysVars
  <2>2. CommitRecord(txn[t].id) \in Record /\ CommitRecord(txn[t].id).type = "COMMIT"
    BY RecordFacts DEF DBInv, InFlightInv, Up, CommitRecord
  <2>3. LoggedQuietly
    BY <2>2, QuietRecord
  <2> QED
    BY <2>1, <2>3, QuietStep
<1>3. ASSUME NEW out \in WriteOutcomes, Backup(t, out) PROVE DBInv'
  <2> USE <1>3 DEF Backup
  <2>1. PhaseInv'
    BY LogStaysOpen DEF DBInv, PhaseInv, Up, sysVars
  <2>2. LoggedQuietly
    BY RecordFacts, QuietRecord DEF CheckpointRecord
  <2> QED
    BY <2>1, <2>2, QuietStep
<1>4. ASSUME NEW s \in Stamps, NEW lands \in BOOLEAN, NEW opens \in BOOLEAN,
             Compact(t, s, lands, opens)
      PROVE  DBInv'
  <2> USE <1>4 DEF Compact
  <2>1. PhaseInv'
    BY LogStaysOpen DEF DBInv, PhaseInv, Up, sysVars
  <2>2. LoggedQuietly
    BY DEF LoggedQuietly, DBInv, TypeOK
  <2> QED
    BY <2>1, <2>2, QuietStep
<1>5. ASSUME Begin(t) PROVE DBInv'
  <2> USE <1>5 DEF Begin, Up, walVars, lockVars
  <2>1. next_transaction_id \in TxnIds
    BY ConstantsAssumption DEF DBInv, TypeOK, TxnIds
  <2>2. /\ next_transaction_id' \in 1 .. MaxTxns + 1
        /\ txn' \in [Threads -> [id : TxnIds \cup {0}, has_writes : BOOLEAN]]
    BY <2>1, ConstantsAssumption DEF DBInv, TypeOK, TxnIds
  <2>3. TypeOK' /\ PhaseInv'
    BY <2>2 DEF DBInv, TypeOK, WALInv, PhaseInv
  <2>4. /\ readers' # {} => writer = NoThread
        /\ t \notin readers
        /\ txn'[t].id \in TxnIds
        /\ \A u \in Threads : u # t => txn'[u] = txn[u]
    BY <2>1 DEF DBInv, LockDiscipline, TypeOK
  <2> QED
    BY <2>3, <2>4, MoveStep DEF LoggedQuietly
<1>6. ASSUME End(t) PROVE DBInv'
  <2> USE <1>6 DEF End, Up, walVars, sysVars, lockVars
  <2>1. txn' \in [Threads -> [id : TxnIds \cup {0}, has_writes : BOOLEAN]]
    BY DEF DBInv, TypeOK, NoTxn
  <2>2. TypeOK' /\ PhaseInv'
    BY <2>1 DEF DBInv, TypeOK, WALInv, PhaseInv
  <2>3. /\ readers' # {} => writer = NoThread
        /\ t \notin readers
        /\ \A u \in Threads : u # t => txn'[u] = txn[u]
    BY DEF DBInv, LockDiscipline, TypeOK
  <2> QED
    BY <2>2, <2>3, MoveStep DEF LoggedQuietly
<1>7. ASSUME StatsLock(t) PROVE DBInv'
  <2> USE <1>7 DEF StatsLock, Up, walVars, sysVars
  <2>1. TypeOK' /\ PhaseInv'
    BY DEF DBInv, TypeOK, WALInv, PhaseInv
  <2> QED
    BY <2>1, MoveStep DEF LoggedQuietly
<1>8. ASSUME Restore(t) PROVE DBInv'
  <2> USE <1>8 DEF Restore, Up, sysVars, lockVars
  <2>1. PhaseInv'
    BY LogStaysOpen DEF DBInv, PhaseInv
  <2>2. TypeOK'
    BY DEF DBInv, TypeOK, WALInv
  <2>3. (readers' # {} => writer = NoThread) /\ t \notin readers
    BY DEF DBInv, LockDiscipline
  <2> QED
    BY <2>1, <2>2, <2>3, MoveStep DEF LoggedQuietly
<1>9. ASSUME NEW out \in WriteOutcomes, ShutdownCheckpoint(t, out) PROVE DBInv'
  <2> USE <1>9 DEF ShutdownCheckpoint, Up, sysVars, lockVars
  <2>1. PhaseInv'
    BY LogStaysOpen DEF DBInv, PhaseInv
  <2>2. LoggedQuietly
    BY RecordFacts, QuietRecord DEF CheckpointRecord
  <2>3. logged' \in Seq(Record)
    BY RecordFacts DEF LogIf, DBInv, TypeOK
  <2>4. TypeOK'
    BY <2>3 DEF DBInv, TypeOK, WALInv
  <2>5. (readers' # {} => writer = NoThread) /\ t \notin readers
    BY DEF DBInv, LockDiscipline
  <2> QED
    BY <2>1, <2>2, <2>4, <2>5, MoveStep
<1>10. ASSUME NEW k \in Keys, NEW v \in Values, PutApply(t, k, v) PROVE DBInv'
  BY <1>10, ApplyStep DEF PutApply
<1>11. ASSUME NEW k \in Keys, DelApply(t, k) PROVE DBInv'
  <2> USE <1>11 DEF DelApply
  <2>1. data[k] \in Values
    BY DEF DBInv, TypeOK
  <2>2. LastWrite(logged, k, data[k])
    BY DEF DBInv, NoPhantomData, Settled
  <2> QED
    BY <2>1, <2>2, ApplyStep
<1> QED
  BY <1>1, <1>2, <1>3, <1>4, <1>5, <1>6, <1>7, <1>8, <1>9, <1>10, <1>11 DEF Call

-----------------------------------------------------------------------------
LEMMA DBInit == Init => DBInv
<1> SUFFICES ASSUME Init PROVE DBInv
  OBVIOUS
<1> USE DEF Init
<1>1. << >> \in Seq(Record)
  OBVIOUS
<1>2. WALInv
  BY <1>1 DEF WALInit, WALInv, WALTypeOK, NamedWhenOpen, AcceptedOnDiskOrPending, TearsAreFaults
<1>3. txn \in [Threads -> [id : TxnIds \cup {0}, has_writes : BOOLEAN]]
  BY DEF NoTxn
<1>4. arg \in [Threads -> [key : Keys \cup {NoKey}, value : Values \cup {Absent}]]
  BY DEF NoArg
<1>5. next_transaction_id \in 1 .. MaxTxns + 1
  BY ConstantsAssumption
<1>6. TypeOK
  BY <1>1, <1>2, <1>3, <1>4, <1>5 DEF TypeOK, WALInv
<1>7. PhaseInv /\ QuietInv /\ LockDiscipline
  BY DEF PhaseInv, QuietInv, LockDiscipline, WALInit
<1>8. InFlightInv /\ NoPhantomData
  BY DEF InFlightInv, NoPhantomData
<1> QED
  BY <1>2, <1>6, <1>7, <1>8 DEF DBInv

LEMMA DBStep == DBInv /\ [Next]_vars => DBInv'
<1> SUFFICES ASSUME DBInv, [Next]_vars PROVE DBInv'
  OBVIOUS
<1>1. WALInv'
  BY LogStep, WALStep DEF DBInv
<1>2. CASE UNCHANGED vars
  <2> USE <1>2 DEF vars, walVars, sysVars, lockVars, threadVars
  <2>1. PhaseInv'
    BY DEF DBInv, PhaseInv, TypeOK
  <2> QED
    BY <1>1, <2>1, QuietStep DEF LoggedQuietly
<1> QED
  BY <1>1, <1>2, SystemStep, CallStep, FinishStep DEF Next

LEMMA DBInvariant == Spec => []DBInv
  BY DBInit, DBStep, PTL DEF Spec

\* The state of the engine and of its log is well typed.
THEOREM TypeCorrect == Spec => []TypeOK
<1>1. DBInv => TypeOK
  BY DEF DBInv
<1> QED
  BY <1>1, DBInvariant, PTL

\* No value in data_ is other than the last one the log accepted for its key,
\* whatever fails, crashes or interleaves with the writer.
THEOREM NoPhantomDataEver == Spec => []NoPhantomData
<1>1. DBInv => NoPhantomData
  BY DEF DBInv
<1> QED
  BY <1>1, DBInvariant, PTL

\* Used by the engine, the log still is a log: every behaviour of the engine
\* is one of WALSpec, and so is FilesOnlyGrow a property of the engine.
THEOREM EngineKeepsLog == Spec => WALSpec /\ FilesOnlyGrow
<1>1. Init => WALInit
  BY DEF Init
<1>2. DBInv /\ [Next]_vars => [WALNext]_walVars
  BY LogStep
<1>3. Spec => WALSpec
  BY <1>1, <1>2, DBInvariant, PTL DEF Spec, WALSpec
<1> QED
  BY <1>3, LogOnlyGrows, PTL
=============================================================================
