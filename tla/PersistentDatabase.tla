-------------------------- MODULE PersistentDatabase --------------------------
(***************************************************************************)
(* The database engine: PersistentDatabase and PersistentTransaction of    *)
(* core/persistent_database.cpp, over the write-ahead log, called by a set *)
(* of threads, in a process that may crash and be started again.           *)
(*                                                                         *)
(* put and del hold mutex_ exclusively while they change data_ and then    *)
(* append to the log; other threads run between the two, and may use the   *)
(* log (commit, compact, backup and shutdown take only the log's mutex).   *)
(* Each is therefore two actions, Apply and Log.  get and scan hold        *)
(* mutex_ shared and touch nothing else, so each is one action.            *)
(*                                                                         *)
(* logged is a history variable: the records that this process read from   *)
(* the log at start-up, and then those that the log accepted.              *)
(***************************************************************************)
EXTENDS WriteAheadLog

CONSTANTS
    Threads,   \* threads that call the engine
    NoThread,
    ScanLimit, \* the limit argument of scan
    Calls      \* bound: the optional calls the environment makes

AllCalls == {"del", "scan", "rollback", "stats", "compact", "backup",
             "restore", "shutdown", "crash"}

ASSUME EngineAssumption ==
    /\ NoThread \notin Threads
    /\ Keys \subseteq Nat
    /\ ScanLimit \in Nat
    /\ Calls \subseteq AllCalls

VARIABLES
    phase,       \* "down", "recovering" (initialize is running) or "up"
    pos,         \* how many records of the log recovery has replayed
    data,        \* data_
    initialized, \* initialized_
    next_transaction_id, \* next_transaction_id_
    writer,      \* the thread that holds mutex_ exclusively, or NoThread
    readers,     \* the threads that hold mutex_ shared across a step
    pc,          \* where each thread is
    txn,         \* the transaction object a thread holds: id_, has_writes_
    arg,         \* key of the put or del in progress, and the value it needs
    reply,       \* the last call that returned, and what it returned
    logged       \* history: see above

sysVars    == <<phase, pos, initialized, next_transaction_id>>
lockVars   == <<writer, readers>>
threadVars == <<pc, txn, arg>>
vars == <<walVars, sysVars, lockVars, threadVars, logged, data, reply>>

NoTxn == [id |-> 0, has_writes |-> FALSE]
NoArg == [key |-> NoKey, value |-> Absent]
NoReply == <<"none">>

\* A process that does not run: nothing in memory.
Init ==
    /\ WALInit
    /\ phase = "down"
    /\ pos = 0
    /\ data = [k \in Keys |-> Absent]
    /\ initialized = FALSE
    /\ next_transaction_id = 1
    /\ writer = NoThread
    /\ readers = {}
    /\ pc = [t \in Threads |-> "idle"]
    /\ txn = [t \in Threads |-> NoTxn]
    /\ arg = [t \in Threads |-> NoArg]
    /\ reply = NoReply
    /\ logged = << >>

-----------------------------------------------------------------------------
(* Start-up: PersistentDatabase::initialize, before any thread is served.  *)

\* The constructor and initialize up to recover_from_wal.
Start(s, opens) ==
    /\ phase = "down"
    /\ construct(s, opens)
    /\ phase' = "recovering"
    /\ UNCHANGED <<lockVars, threadVars, logged, pos, data, initialized, next_transaction_id, reply>>

\* Mutant of Replayed: DELETE records are passed over.
ReplayedPuts(rec) ==
    IF rec.type = "PUT" THEN [data EXCEPT ![rec.key] = rec.value] ELSE data

\* The map after one record of the log.
Replayed(rec) ==
    CASE rec.type = "PUT"    -> [data EXCEPT ![rec.key] = rec.value]
      [] rec.type = "DELETE" -> [data EXCEPT ![rec.key] = Absent]
      [] OTHER               -> data

\* Mutant of AtEndOfLog: the loop stops one record short.
BeforeEndOfLog ==
    Torn(current, pos) \/ (pos + 1 < Len(files[current]) => Oversized(files[current][pos + 1]))

\* What comes next cannot be read: nothing, a record cut short or one too long.
AtEndOfLog ==
    Torn(current, pos) \/ (pos < Len(files[current]) => Oversized(files[current][pos + 1]))

\* The next whole record.  Records come from the current file only, and COMMIT
\* and CHECKPOINT records are passed over.
RecoverRecord ==
    /\ phase = "recovering"
    /\ ~AtEndOfLog
    /\ LET rec == files[current][pos + 1]
       IN  /\ data' = Replayed(rec)
           /\ logged' = Append(logged, rec)
    /\ pos' = pos + 1
    /\ UNCHANGED <<walVars, lockVars, threadVars, phase, initialized, next_transaction_id, reply>>

\* A record cut short with more bytes behind it: they may complete it to any
\* record, and the reader goes on wherever that one ends, in the middle of
\* another (the model then stays at the tear) or between two.
RecoverGarbled(rec) ==
    /\ phase = "recovering"
    /\ Torn(current, pos)
    /\ pos < Len(files[current]) \/ <<current, pos, 2>> \in tears
    /\ ~Oversized(rec)
    /\ Len(logged) < MaxLog
    /\ data' = Replayed(rec)
    /\ logged' = Append(logged, rec)
    /\ pos' \in pos .. Len(files[current])
    /\ UNCHANGED <<walVars, lockVars, threadVars, phase, initialized, next_transaction_id, reply>>

\* A turn of the loop that gives a record.
RecoverTurn ==
    /\ phase = "recovering"
    /\ RecoverRecord \/ \E rec \in Record : RecoverGarbled(rec)

\* The end of the log, or a file that could not be read at all: initialize
\* cannot tell the second from an empty log.  (read_all_records has run
\* before the loop: no other thread is there to see the difference.)
FinishRecovery(opens) ==
    /\ phase = "recovering"
    /\ AtEndOfLog \/ (pos = 0 /\ ~opens)
    /\ read_all_records(FALSE, opens)
    /\ phase' = "up"
    /\ initialized' = TRUE
    /\ UNCHANGED <<lockVars, threadVars, logged, pos, data, next_transaction_id, reply>>

\* The process ends.  The log directory is all that is left of it.
Crash(lands) ==
    /\ "crash" \in Calls
    /\ phase # "down"
    /\ destroy(lands)
    /\ phase' = "down"
    /\ pos' = 0
    /\ data' = [k \in Keys |-> Absent]
    /\ initialized' = FALSE
    /\ next_transaction_id' = 1
    /\ writer' = NoThread
    /\ readers' = {}
    /\ pc' = [t \in Threads |-> "idle"]
    /\ txn' = [t \in Threads |-> NoTxn]
    /\ arg' = [t \in Threads |-> NoArg]
    /\ reply' = NoReply
    /\ logged' = << >>

-----------------------------------------------------------------------------
(* Transactions.                                                           *)

Up(t, where) == phase = "up" /\ pc[t] = where

\* Bound on what the environment asks for.
Room == Len(logged) < MaxLog /\ Len(files[current]) < MaxLog

LogIf(out, rec) == logged' = IF Accepts(out) THEN Append(logged, rec) ELSE logged

Result(out) == IF Accepts(out) THEN "SUCCESS" ELSE "SYSTEM_ERROR"

\* Mutant of Begin: the id is read after the increment.
BeginAfterIncrement(t) ==
    /\ Up(t, "idle")
    /\ initialized
    /\ next_transaction_id <= MaxTxns
    /\ txn' = [txn EXCEPT ![t] = [id |-> next_transaction_id + 1, has_writes |-> FALSE]]
    /\ next_transaction_id' = next_transaction_id + 1
    /\ pc' = [pc EXCEPT ![t] = "open"]
    /\ UNCHANGED <<walVars, lockVars, logged, phase, pos, data, initialized, arg, reply>>

\* begin_transaction on an initialized engine.
Begin(t) ==
    /\ Up(t, "idle")
    /\ initialized
    /\ next_transaction_id <= MaxTxns
    /\ txn' = [txn EXCEPT ![t] = [id |-> next_transaction_id, has_writes |-> FALSE]]
    /\ next_transaction_id' = next_transaction_id + 1
    /\ pc' = [pc EXCEPT ![t] = "open"]
    /\ UNCHANGED <<walVars, lockVars, logged, phase, pos, data, initialized, arg, reply>>

\* begin_transaction after shutdown: a null pointer.
BeginRefused(t) ==
    /\ Up(t, "idle")
    /\ ~initialized
    /\ reply' = <<"begin", t, "nullptr">>
    /\ UNCHANGED <<walVars, sysVars, lockVars, threadVars, logged, data>>

\* A key that is absent and one that holds the empty string read the same.
Found(v) == IF v = Absent THEN EmptyString ELSE v

\* Mutant of Get: mutex_ is not taken.
GetUnlocked(t, k) ==
    /\ Up(t, "open")
    /\ reply' = <<"get", t, k, Found(data[k])>>
    /\ UNCHANGED <<walVars, sysVars, lockVars, threadVars, logged, data>>

Get(t, k) ==
    /\ Up(t, "open")
    /\ writer = NoThread
    /\ reply' = <<"get", t, k, Found(data[k])>>
    /\ UNCHANGED <<walVars, sysVars, lockVars, threadVars, logged, data>>

\* The pairs of store with a key in lo .. hi - 1, cut off at ScanLimit: which
\* ones are kept depends on the iteration order of the unordered_map.
ScanResults(store, lo, hi) ==
    LET hits == {k \in Keys : lo <= k /\ k < hi /\ store[k] # Absent}
        size == IF Cardinality(hits) < ScanLimit THEN Cardinality(hits) ELSE ScanLimit
    IN  {{<<k, store[k]>> : k \in kept} :
            kept \in {ks \in SUBSET hits : Cardinality(ks) = size}}

Scan(t, lo, hi) ==
    /\ "scan" \in Calls
    /\ Up(t, "open")
    /\ writer = NoThread
    /\ \E pairs \in ScanResults(data, lo, hi) :
          reply' = <<"scan", t, <<lo, hi>>, pairs>>
    /\ UNCHANGED <<walVars, sysVars, lockVars, threadVars, logged, data>>

\* put, up to the call of append_record.
PutApply(t, k, v) ==
    /\ Up(t, "open")
    /\ Room
    /\ writer = NoThread
    /\ readers = {}
    /\ writer' = t
    /\ data' = [data EXCEPT ![k] = v]
    /\ txn' = [txn EXCEPT ![t].has_writes = TRUE]
    /\ arg' = [arg EXCEPT ![t] = [key |-> k, value |-> v]]
    /\ pc' = [pc EXCEPT ![t] = "put"]
    /\ UNCHANGED <<walVars, sysVars, logged, readers, reply>>

\* Mutant of DataAfterPut: a refused record is not undone.
PutNotUndone(t, out) == data

\* The "rollback" of a put erases the key, whatever it held before.
DataAfterPut(t, out) ==
    IF Accepts(out) THEN data ELSE [data EXCEPT ![arg[t].key] = Absent]

\* Mutant of HasWritesAfter: a refused record leaves has_writes_ set.
HasWritesAnyway(out) == TRUE

\* has_writes_ once a put or del returns, whatever it was before the call.
HasWritesAfter(out) == Accepts(out)

\* append_record and the rest of put.
PutLog(t, out) ==
    /\ Up(t, "put")
    /\ LET rec == PutRecord(arg[t].key, arg[t].value, txn[t].id)
       IN  append_record(rec, out) /\ LogIf(out, rec)
    /\ data' = DataAfterPut(t, out)
    /\ txn' = [txn EXCEPT ![t].has_writes = HasWritesAfter(out)]
    /\ reply' = <<"put", t, arg[t].key, arg[t].value, Result(out)>>
    /\ writer' = NoThread
    /\ arg' = [arg EXCEPT ![t] = NoArg]
    /\ pc' = [pc EXCEPT ![t] = "open"]
    /\ UNCHANGED <<sysVars, readers>>

DelMissing(t, k) ==
    /\ "del" \in Calls
    /\ Up(t, "open")
    /\ writer = NoThread
    /\ readers = {}
    /\ data[k] = Absent
    /\ reply' = <<"del", t, k, "KEY_NOT_FOUND">>
    /\ UNCHANGED <<walVars, sysVars, lockVars, threadVars, logged, data>>

\* del of a key that is there, up to the call of append_record: old_value is
\* kept for the rollback.
DelApply(t, k) ==
    /\ "del" \in Calls
    /\ Up(t, "open")
    /\ Room
    /\ writer = NoThread
    /\ readers = {}
    /\ data[k] # Absent
    /\ writer' = t
    /\ data' = [data EXCEPT ![k] = Absent]
    /\ txn' = [txn EXCEPT ![t].has_writes = TRUE]
    /\ arg' = [arg EXCEPT ![t] = [key |-> k, value |-> data[k]]]
    /\ pc' = [pc EXCEPT ![t] = "del"]
    /\ UNCHANGED <<walVars, sysVars, logged, readers, reply>>

DataAfterDel(t, out) ==
    IF Accepts(out) THEN data ELSE [data EXCEPT ![arg[t].key] = arg[t].value]

DelLog(t, out) ==
    /\ Up(t, "del")
    /\ LET rec == DeleteRecord(arg[t].key, txn[t].id)
       IN  append_record(rec, out) /\ LogIf(out, rec)
    /\ data' = DataAfterDel(t, out)
    /\ txn' = [txn EXCEPT ![t].has_writes = HasWritesAfter(out)]
    /\ reply' = <<"del", t, arg[t].key, Result(out)>>
    /\ writer' = NoThread
    /\ arg' = [arg EXCEPT ![t] = NoArg]
    /\ pc' = [pc EXCEPT ![t] = "open"]
    /\ UNCHANGED <<sysVars, readers>>

\* commit when has_writes_ is unset: nothing is logged.
CommitNothing(t) ==
    /\ Up(t, "open")
    /\ ~txn[t].has_writes
    /\ reply' = <<"commit", t, txn[t].id, "SUCCESS">>
    /\ UNCHANGED <<walVars, sysVars, lockVars, threadVars, logged, data>>

\* commit when it is set.  mutex_ is not taken: another thread may be inside
\* put or del.  The object stays usable, and has_writes_ stays set.
CommitLog(t, out) ==
    /\ Up(t, "open")
    /\ Room
    /\ txn[t].has_writes
    /\ LET rec == CommitRecord(txn[t].id)
       IN  append_record(rec, out) /\ LogIf(out, rec)
    /\ reply' = <<"commit", t, txn[t].id, Result(out)>>
    /\ UNCHANGED <<sysVars, lockVars, threadVars, data>>

\* rollback prints a line.
Rollback(t) ==
    /\ "rollback" \in Calls
    /\ Up(t, "open")
    /\ reply' = <<"rollback", t, txn[t].id>>
    /\ UNCHANGED <<walVars, sysVars, lockVars, threadVars, logged, data>>

\* The caller drops its shared_ptr.
End(t) ==
    /\ Up(t, "open")
    /\ pc' = [pc EXCEPT ![t] = "idle"]
    /\ txn' = [txn EXCEPT ![t] = NoTxn]
    /\ UNCHANGED <<walVars, sysVars, lockVars, logged, data, reply, arg>>

-----------------------------------------------------------------------------
(* Calls on the database itself.                                           *)

\* get_stats takes mutex_ shared, then the log's mutex.
StatsLock(t) ==
    /\ "stats" \in Calls
    /\ Up(t, "idle")
    /\ writer = NoThread
    /\ readers' = readers \cup {t}
    /\ pc' = [pc EXCEPT ![t] = "stats"]
    /\ UNCHANGED <<walVars, sysVars, logged, data, reply, txn, arg, writer>>

StatsRead(t) ==
    /\ Up(t, "stats")
    /\ ~wedged
    /\ reply' = <<"stats", t, Cardinality({k \in Keys : data[k] # Absent}), get_stats>>
    /\ readers' = readers \ {t}
    /\ pc' = [pc EXCEPT ![t] = "idle"]
    /\ UNCHANGED <<walVars, sysVars, logged, data, txn, arg, writer>>

\* compact reports success whatever truncate_log returned.
Compact(t, s, lands, opens) ==
    /\ "compact" \in Calls
    /\ Up(t, "idle")
    /\ truncate_log(s, lands, opens)
    /\ reply' = <<"compact", t, "SUCCESS">>
    /\ UNCHANGED <<sysVars, lockVars, threadVars, logged, data>>

Backup(t, out) ==
    /\ "backup" \in Calls
    /\ Up(t, "idle")
    /\ Room
    /\ create_checkpoint(out)
    /\ LogIf(out, CheckpointRecord)
    /\ reply' = <<"backup", t, Result(out)>>
    /\ UNCHANGED <<sysVars, lockVars, threadVars, data>>

\* restore never comes back from recover_from_checkpoint.
Restore(t) ==
    /\ "restore" \in Calls
    /\ Up(t, "idle")
    /\ recover_from_checkpoint
    /\ pc' = [pc EXCEPT ![t] = "restore"]
    /\ UNCHANGED <<sysVars, lockVars, logged, data, reply, txn, arg>>

\* shutdown of an initialized engine: the checkpoint, whose result is
\* ignored, then the flag.  Open transactions are not waited for.
ShutdownCheckpoint(t, out) ==
    /\ "shutdown" \in Calls
    /\ Up(t, "idle")
    /\ Room
    /\ initialized
    /\ create_checkpoint(out)
    /\ LogIf(out, CheckpointRecord)
    /\ pc' = [pc EXCEPT ![t] = "shutdown"]
    /\ UNCHANGED <<sysVars, lockVars, data, reply, txn, arg>>

ShutdownFlag(t) ==
    /\ Up(t, "shutdown")
    /\ initialized' = FALSE
    /\ pc' = [pc EXCEPT ![t] = "idle"]
    /\ reply' = <<"shutdown", t>>
    /\ UNCHANGED <<walVars, lockVars, logged, phase, pos, next_transaction_id,
                   data, txn, arg>>

-----------------------------------------------------------------------------
\* Steps that a thread takes inside a call it has begun.
Finish(t) ==
    \/ \E out \in WriteOutcomes : PutLog(t, out) \/ DelLog(t, out)
    \/ StatsRead(t)
    \/ ShutdownFlag(t)

Call(t) ==
    \/ Begin(t) \/ BeginRefused(t) \/ End(t) \/ CommitNothing(t) \/ Rollback(t)
    \/ \E k \in Keys : Get(t, k) \/ DelMissing(t, k) \/ DelApply(t, k)
    \/ \E k \in Keys, v \in Values : PutApply(t, k, v)
    \/ \E lo \in Keys, hi \in {k + 1 : k \in Keys} : Scan(t, lo, hi)
    \/ \E out \in WriteOutcomes :
          CommitLog(t, out) \/ Backup(t, out) \/ ShutdownCheckpoint(t, out)
    \/ StatsLock(t) \/ Restore(t)
    \/ \E s \in Stamps, lands, opens \in BOOLEAN : Compact(t, s, lands, opens)

System ==
    \/ \E s \in Stamps, opens \in BOOLEAN : Start(s, opens)
    \/ RecoverTurn
    \/ \E opens \in BOOLEAN : FinishRecovery(opens)
    \/ \E lands \in BOOLEAN : Crash(lands)

Next == System \/ \E t \in Threads : Call(t) \/ Finish(t)

Spec == Init /\ [][Next]_vars

\* A thread inside a call keeps running; nobody is obliged to make a call.
FairSpec == Spec /\ \A t \in Threads : WF_vars(Finish(t))

-----------------------------------------------------------------------------
(* Properties.                                                             *)

TypeOK ==
    /\ WALTypeOK
    /\ phase \in {"down", "recovering", "up"}
    /\ pos \in Nat
    /\ data \in [Keys -> Values \cup {Absent}]
    /\ initialized \in BOOLEAN
    /\ next_transaction_id \in 1 .. MaxTxns + 1
    /\ writer \in Threads \cup {NoThread}
    /\ readers \subseteq Threads
    /\ pc \in [Threads -> {"idle", "open", "put", "del", "stats", "restore", "shutdown"}]
    /\ txn \in [Threads -> [id : TxnIds \cup {0}, has_writes : BOOLEAN]]
    /\ arg \in [Threads -> [key : Keys \cup {NoKey}, value : Values \cup {Absent}]]
    /\ logged \in Seq(Record)

Touches(rec, k) == rec.type \in {"PUT", "DELETE"} /\ rec.key = k

\* v is what the last record of log about key k leaves there.
LastWrite(log, k, v) ==
    \/ /\ v = Absent
       /\ \A i \in DOMAIN log : ~Touches(log[i], k)
    \/ \E i \in DOMAIN log :
          /\ Touches(log[i], k)
          /\ log[i].value = v
          /\ \A j \in DOMAIN log : j > i => ~Touches(log[j], k)

\* Nobody is in the middle of a put or del of k.
Settled(k) == writer = NoThread \/ arg[writer].key # k

\* data_ never shows a value that is not the last one the log accepted for its
\* key, or gave back at start-up, although it is changed before the log is:
\* neither an interleaving of writers, commits and compactions, nor a refused
\* record (all are, once a compact has said SUCCESS without a file to write
\* to), nor a replay after a crash brings back an old value or invents one.
NoPhantomData ==
    \A k \in Keys : Settled(k) /\ data[k] # Absent => LastWrite(logged, k, data[k])

\* "Rollback on WAL failure" (persistent_database.cpp, put and del): once the
\* call is over, data_ is what the log says, also when its record was refused.
DataIsLog == \A k \in Keys : Settled(k) => LastWrite(logged, k, data[k])

\* mutex_: one writer and no reader beside it, and a writer is in put or del.
LockDiscipline ==
    /\ writer # NoThread => readers = {}
    /\ \A t \in Threads : pc[t] \in {"put", "del"} <=> writer = t
    /\ \A t \in Threads : pc[t] = "stats" <=> t \in readers

\* A COMMIT that the log accepted (commit) vouches for a write of its
\* transaction that it accepted before, failed writes and compactions in
\* between or not.  This is about one process: after a compaction the two are
\* in different files, and a restart reads only one of them.
CommitFollowsWrite ==
    \A i \in DOMAIN logged : logged[i].type = "COMMIT" =>
        \E j \in 1 .. i - 1 : /\ logged[j].type \in {"PUT", "DELETE"}
                             /\ logged[j].txn = logged[i].txn

\* "Write-Ahead Logging (WAL) for data durability and crash recovery"
\* (README): a started engine holds what the log directory holds, its files
\* taken in the order of their stamps; also after a compaction that reads the
\* millisecond of an earlier one and so appends to a file that is there.
RecoversLogDirectory ==
    \A k \in Keys : phase = "up" /\ Settled(k) =>
        \A s \in Stamps : \A i \in DOMAIN files[s] :
            /\ Touches(files[s][i], k)
            /\ \A j \in DOMAIN files[s] : j > i => ~Touches(files[s][j], k)
            /\ \A r \in Stamps : r > s => \A j \in DOMAIN files[r] : ~Touches(files[r][j], k)
            => data[k] = files[s][i].value

\* A thread inside put, del, get_stats or shutdown gets out of it, whatever
\* the disk and the other threads do: a write that fails is given up, not tried
\* again, and mutex_ is released.  A restore that got hold of the log's mutex
\* is the one thing that keeps a call from returning.
CallsReturn ==
    \A t \in Threads : pc[t] \in {"put", "del", "stats", "shutdown"}
                          ~> (pc[t] \in {"idle", "open"} \/ wedged)

\* "Recover from checkpoint and WAL" (wal.h): restore returns.
RestoreReturns == \A t \in Threads : pc[t] = "restore" ~> pc[t] # "restore"

-----------------------------------------------------------------------------
\* What a restart would find in the current file.
StoredMap ==
    LET log == IF current = 0 THEN << >> ELSE files[current]
    IN  [k \in Keys |-> CHOOSE v \in Values \cup {Absent} : LastWrite(log, k, v)]

Abstract == INSTANCE KVStore WITH store <- StoredMap

\* On a disk that does not fail, and while the log stays in one file, the
\* engine implements KVStore, crashes included: a put or del takes effect when
\* its record reaches the file, not when data_ changes, and no get, scan or
\* get_stats of another thread, nor any call after a restart, can tell the
\* difference.  This is about single calls: KVStore has no transactions, and
\* between the calls of one the engine isolates and undoes nothing.
ImplementsKVStore == Abstract!Spec
=============================================================================
