------------------------ MODULE RequestHandler_proofs ------------------------
(***************************************************************************)
(* Proofs about RequestHandler, for any number of threads, keys and        *)
(* values: the engine's theorems hold of the server that calls it, and     *)
(* what clients are told is true.                                          *)
(***************************************************************************)
EXTENDS RequestHandler, Durability_proofs

(* The strengthening that makes AnswersBackedByLog inductive.              *)

\* AnswersBackedByLog, for one thread.
Stored(k, v) == \E id \in TxnIds : Accepted(PutRecord(k, v, id))
Backed(t) ==
    CASE req[t].type = "GET"  -> Stored(req[t].key, answer[t].value)
      [] req[t].type = "SCAN" -> \A pair \in answer[t].value : Stored(pair[1], pair[2])
      [] OTHER                -> Accepted(WriteRecord(t))

\* Where the thread of a request is in the engine, and what it passed to it.
\* Once put or del has succeeded its record is in the log.
Served(t) ==
    /\ stage[t] \in {"idle", "call", "commit", "end"}
    /\ stage[t] = "idle" => pc[t] \notin {"open", "put", "del"}
    /\ stage[t] \in {"call", "commit"} => req[t] \in Requests
    /\ stage[t] = "call" =>
          \/ pc[t] = "open"
          \/ /\ pc[t] = "put" /\ req[t].type = "PUT"
             /\ arg[t].key = req[t].key /\ arg[t].value = req[t].value
          \/ pc[t] = "del" /\ req[t].type = "DELETE" /\ arg[t].key = req[t].key
    /\ stage[t] = "commit" => /\ pc[t] = "open" /\ req[t].type \in {"PUT", "DELETE"}
                              /\ Accepted(WriteRecord(t))
    /\ stage[t] = "end" => pc[t] \in {"open", "idle"}
    /\ answer[t].type = "SUCCESS" => stage[t] = "end" /\ Backed(t)

HandlerDomains == DOMAIN stage = Threads /\ DOMAIN req = Threads /\ DOMAIN answer = Threads

HandlerInv == HandlerDomains /\ \A t \in Threads : Served(t)

LEMMA RequestFacts ==
    ASSUME NEW r \in Requests
    PROVE  /\ r.type \in {"GET", "DELETE", "PUT", "SCAN"} /\ r.key \in Keys
           /\ r.type = "PUT" => r.value \in Values
           /\ r.type = "SCAN" => r.value \in {k + 1 : k \in Keys}
  BY DEF Requests

-----------------------------------------------------------------------------
(* The engine inside the server.                                           *)

\* What a thread does for a request, and an administrator's calls.
ThreadNext(t) ==
    \/ \E type \in {"PONG", "ERROR"} : ServePlain(t, type)
    \/ \E r \in Requests : Open(t, r)
    \/ OpenRefused(t) \/ Serve(t) \/ Administer(t) \/ FinishCall(t)

LEMMA ThreadIsEngineStep ==
    ASSUME NEW t \in Threads, Served(t), ThreadNext(t)
    PROVE  Call(t) \/ Finish(t) \/ UNCHANGED vars
<1>1. ASSUME Serve(t) PROVE Call(t) \/ Finish(t) \/ UNCHANGED vars
  <2>1. ASSUME ServeGet(t) \/ ServeScan(t) \/ ServeMissing(t) \/ ApplyWrite(t) PROVE Call(t)
    <3>1. stage[t] = "call" /\ req[t] \in Requests
      BY <2>1 DEF ServeGet, ServeScan, ServeMissing, ApplyWrite, At, Served
    <3> QED
      BY <2>1, <3>1, RequestFacts DEF ServeGet, ServeScan, ServeMissing, ApplyWrite, At, Call
  <2>2. ASSUME NEW out \in WriteOutcomes, LogWrite(t, out) PROVE Finish(t)
    BY <2>2 DEF LogWrite, Finish
  <2>3. ASSUME NEW out \in WriteOutcomes, CommitWrite(t, out) PROVE Call(t)
    BY <2>3 DEF CommitWrite, Call
  <2>4. ASSUME EndRequest(t) PROVE Call(t) \/ UNCHANGED vars
    BY <2>4 DEF EndRequest, Call
  <2> QED
    BY <1>1, <2>1, <2>2, <2>3, <2>4 DEF Serve
<1>2. ASSUME Administer(t) \/ FinishCall(t) \/ OpenRefused(t) \/ \E r \in Requests : Open(t, r)
      PROVE  Call(t) \/ Finish(t)
  BY <1>2 DEF Administer, FinishCall, OpenRefused, Open, Call, Finish
<1>3. ASSUME NEW type, ServePlain(t, type) PROVE UNCHANGED vars
  BY <1>3 DEF ServePlain
<1> QED
  BY <1>1, <1>2, <1>3 DEF ThreadNext

LEMMA HandlerIsEngineStep == HandlerInv /\ [HandlerNext]_allVars => [Next]_vars
<1> SUFFICES ASSUME HandlerInv, [HandlerNext]_allVars PROVE [Next]_vars
  OBVIOUS
<1>1. ASSUME ProcessStarts \/ ProcessEnds PROVE Next
  BY <1>1 DEF ProcessStarts, ProcessEnds, Next, System, RecoverTurn
<1>2. ASSUME NEW t \in Threads, ThreadNext(t) PROVE [Next]_vars
  BY <1>2, ThreadIsEngineStep DEF HandlerInv, Next
<1>3. CASE UNCHANGED allVars
  BY <1>3 DEF allVars
<1> QED
  BY <1>1, <1>2, <1>3 DEF HandlerNext, ThreadNext

\* Records stay in the log while the process lives.
LoggedGrows == \A i \in DOMAIN logged : i \in DOMAIN logged' /\ logged'[i] = logged[i]

LEMMA GrowsByOne ==
    ASSUME logged \in Seq(Record), logged' = logged \/ \E rec \in Record : logged' = Append(logged, rec)
    PROVE  LoggedGrows
<1>1. CASE logged' = logged
  BY <1>1 DEF LoggedGrows
<1>2. ASSUME NEW rec \in Record, logged' = Append(logged, rec) PROVE LoggedGrows
  <2>1. DOMAIN logged = 1 .. Len(logged) /\ DOMAIN logged' = 1 .. Len(logged) + 1 /\ Len(logged) \in Nat
    BY <1>2
  <2>2. \A i \in 1 .. Len(logged) : logged'[i] = logged[i]
    BY <1>2, AppendFacts
  <2> QED
    BY <2>1, <2>2 DEF LoggedGrows
<1> QED
  BY <1>1, <1>2

\* A thread's step in the engine leaves the other threads where they are.
OthersStay(t) ==
    \A u \in Threads : u # t => pc'[u] = pc[u] /\ txn'[u] = txn[u] /\ arg'[u] = arg[u]

LEMMA EngineFrame ==
    ASSUME DBInv, NEW t \in Threads, Call(t) \/ Finish(t) \/ UNCHANGED vars
    PROVE  LoggedGrows /\ OthersStay(t)
<1>1. CASE UNCHANGED vars
  BY <1>1 DEF vars, threadVars, LoggedGrows, OthersStay
<1>2. ASSUME Call(t) \/ Finish(t) PROVE LoggedGrows
  <2>1. logged' = logged \/ \E rec \in Record : logged' = Append(logged, rec)
    BY <1>2, ThreadStepKinds DEF LogUntouched, LogMoved, LogAppended, LogIf
  <2> QED
    BY <2>1, GrowsByOne DEF DBInv, TypeOK
<1>3. ASSUME Call(t) PROVE OthersStay(t)
  BY <1>3 DEF Call, Begin, BeginRefused, End, CommitNothing, Rollback, Get, DelMissing, DelApply,
              PutApply, Scan, CommitLog, Backup, ShutdownCheckpoint, StatsLock, Restore, Compact,
              threadVars, OthersStay, DBInv, TypeOK
<1>4. ASSUME Finish(t) PROVE OthersStay(t)
  BY <1>4 DEF Finish, PutLog, DelLog, StatsRead, ShutdownFlag, threadVars, OthersStay, DBInv, TypeOK
<1> QED
  BY <1>1, <1>2, <1>3, <1>4

\* What is served stays served while its thread waits.
LEMMA ServedStays ==
    ASSUME LoggedGrows, NEW u \in Threads, Served(u), pc'[u] = pc[u], txn'[u] = txn[u],
           arg'[u] = arg[u], stage'[u] = stage[u], req'[u] = req[u], answer'[u] = answer[u]
    PROVE  Served(u)'
<1>1. ASSUME NEW rec, Accepted(rec) PROVE \E i \in DOMAIN logged' : logged'[i] = rec
  BY <1>1 DEF Accepted, LoggedGrows
<1>2. WriteRecord(u)' = WriteRecord(u)
  BY DEF WriteRecord, PutRecord, DeleteRecord
<1>3. Accepted(WriteRecord(u)) => Accepted(WriteRecord(u))'
  BY <1>1, <1>2 DEF Accepted
<1>4. ASSUME NEW k, NEW v, Stored(k, v) PROVE \E id \in TxnIds : Accepted(PutRecord(k, v, id))'
  BY <1>1, <1>4 DEF Stored, Accepted
<1>5. Backed(u) => Backed(u)'
  BY <1>3, <1>4 DEF Backed, Stored
<1> QED
  BY <1>3, <1>5 DEF Served

-----------------------------------------------------------------------------
(* One step of a request.                                                  *)

LEMMA RespondFacts ==
    ASSUME HandlerDomains, NEW t \in Threads, NEW type, NEW value, Respond(t, type, value)
    PROVE  stage'[t] = "end" /\ answer'[t] = [type |-> type, value |-> value]
  BY DEF HandlerDomains, Respond, GoTo

\* A value that a reader sees was put there by a record in the log.
LEMMA ReadIsStored ==
    ASSUME DBInv, NEW k \in Keys, writer = NoThread, data[k] # Absent
    PROVE  Stored(k, data[k])
<1>1. LastWrite(logged, k, data[k]) /\ logged \in Seq(Record)
  BY DEF DBInv, NoPhantomData, Settled, TypeOK
<1>2. PICK i \in DOMAIN logged : Touches(logged[i], k) /\ logged[i].value = data[k]
  BY <1>1 DEF LastWrite
<1>3. logged[i] \in Record
  BY <1>1
<1>4. \E id \in TxnIds : logged[i] = PutRecord(k, data[k], id)
  BY <1>2, <1>3 DEF Touches, Record, TxnRecord, PutRecord, DeleteRecord, CommitRecord, CheckpointRecord
<1> QED
  BY <1>4 DEF Stored, Accepted

\* An error, and a reply that is not about the database, commit to nothing.
LEMMA ServedPlainly ==
    ASSUME HandlerDomains, NEW t \in Threads, NEW type, type # "SUCCESS", NEW value,
           Respond(t, type, value), pc'[t] \in {"open", "idle"}
    PROVE  Served(t)'
<1>1. stage'[t] = "end" /\ answer'[t] = [type |-> type, value |-> value]
  BY RespondFacts, Zenon
<1>2. answer'[t].type # "SUCCESS"
  BY <1>1
<1> QED
  BY <1>1, <1>2 DEF Served

\* A reader answers with what it read.
LEMMA ServedRead ==
    ASSUME DBInv, HandlerDomains, NEW t \in Threads, Served(t), ServeGet(t) \/ ServeScan(t)
    PROVE  Served(t)'
<1>1. /\ stage[t] = "call" /\ req'[t] = req[t] /\ writer = NoThread /\ pc[t] = "open"
      /\ pc' = pc /\ logged' = logged
  BY DEF ServeGet, ServeScan, At, Get, Scan, Up, threadVars
<1>2. req[t] \in Requests
  BY <1>1 DEF Served
<1>3. ASSUME NEW k, NEW v PROVE Stored(k, v)' <=> Stored(k, v)
  BY <1>1 DEF Stored, Accepted
<1>4. CASE ServeGet(t)
  <2> DEFINE k == req[t].key
             value == Found(data[k])
  <2>1. reply'[4] = value /\ req[t].type = "GET" /\ k \in Keys
    BY <1>2, <1>4, RequestFacts DEF ServeGet, Get, At
  <2>2. /\ stage'[t] = "end"
        /\ answer'[t] = [type |-> IF value = EmptyString THEN "ERROR" ELSE "SUCCESS", value |-> value]
    BY <1>4, <2>1, RespondFacts DEF ServeGet
  <2>3. value # EmptyString => Stored(k, value)
    BY <1>1, <2>1, ReadIsStored DEF Found
  <2> HIDE DEF value
  <2>4. answer'[t].type = "SUCCESS" => Backed(t)'
    BY <1>1, <1>3, <2>1, <2>2, <2>3 DEF Backed
  <2> QED
    BY <1>1, <2>2, <2>4 DEF Served
<1>5. CASE ServeScan(t)
  <2>1. PICK pairs \in ScanResults(data, req[t].key, req[t].value) :
           reply' = <<"scan", t, <<req[t].key, req[t].value>>, pairs>>
    BY <1>5 DEF ServeScan, Scan
  <2>2. stage'[t] = "end" /\ answer'[t] = [type |-> "SUCCESS", value |-> pairs]
    BY <1>5, <2>1, RespondFacts DEF ServeScan
  <2>3. ASSUME NEW pair \in pairs PROVE Stored(pair[1], pair[2])
    <3>1. PICK k \in Keys : data[k] # Absent /\ pair = <<k, data[k]>>
      BY <2>1 DEF ScanResults
    <3> QED
      BY <1>1, <3>1, ReadIsStored
  <2>4. Backed(t)'
    BY <1>1, <1>3, <1>5, <2>2, <2>3 DEF Backed, ServeScan, At
  <2> QED
    BY <1>1, <2>2, <2>4 DEF Served
<1> QED
  BY <1>4, <1>5

\* put or del has answered: the record is in the log, or the client is told of
\* the error.
LEMMA ServedWrite ==
    ASSUME DBInv, HandlerDomains, NEW t \in Threads, Served(t), NEW out \in WriteOutcomes,
           LogWrite(t, out)
    PROVE  /\ Served(t)'
           /\ WriteRecord(t) = IF pc[t] = "put" THEN PutRecord(arg[t].key, arg[t].value, txn[t].id)
                                                ELSE DeleteRecord(arg[t].key, txn[t].id)
           /\ Accepts(out) => logged' = Append(logged, WriteRecord(t)) /\ WriteRecord(t) \in Record
<1>1. pc[t] \in {"put", "del"} /\ pc'[t] = "open" /\ txn'[t].id = txn[t].id /\ req'[t] = req[t]
  BY DEF LogWrite, PutLog, DelLog, Up, DBInv, TypeOK
<1>2. stage[t] = "call" /\ req[t] \in Requests /\ answer[t].type # "SUCCESS"
  BY <1>1 DEF Served
<1>3. /\ req[t].type = "PUT" <=> pc[t] = "put"
      /\ arg[t].key = req[t].key
      /\ pc[t] = "put" => arg[t].value = req[t].value
      /\ req[t].type \in {"PUT", "DELETE"}
  BY <1>1, <1>2 DEF Served
<1>4. WriteRecord(t) = IF pc[t] = "put" THEN PutRecord(arg[t].key, arg[t].value, txn[t].id)
                                        ELSE DeleteRecord(arg[t].key, txn[t].id)
  BY <1>3 DEF WriteRecord
<1>5. WriteRecord(t) \in Record
  BY <1>1, <1>4, RecordFacts DEF DBInv, InFlightInv
<1>6. Accepts(out) => logged' = Append(logged, WriteRecord(t))
  BY <1>1, <1>4 DEF LogWrite, PutLog, DelLog, Up, LogIf
<1>7. Served(t)'
  <2>1. CASE Accepts(out)
    <3>1. stage'[t] = "commit" /\ answer' = answer
      BY <2>1 DEF LogWrite, NextAfterWrite, GoTo, HandlerDomains
    <3>2. WriteRecord(t)' = WriteRecord(t)
      BY <1>1 DEF WriteRecord
    <3>3. Accepted(WriteRecord(t))'
      <4>1. Len(logged) + 1 \in DOMAIN logged' /\ logged'[Len(logged) + 1] = WriteRecord(t)
        BY <1>5, <1>6, <2>1 DEF DBInv, TypeOK
      <4> QED
        BY <3>2, <4>1 DEF Accepted
    <3> QED
      BY <1>1, <1>2, <1>3, <3>1, <3>3 DEF Served
  <2>2. CASE ~Accepts(out)
    <3>1. Respond(t, "ERROR", EmptyString)
      BY <2>2 DEF LogWrite, NextAfterWrite
    <3> QED
      BY <1>1, <3>1, ServedPlainly
  <2> QED
    BY <2>1, <2>2
<1> QED
  BY <1>4, <1>5, <1>6, <1>7

LEMMA ServedStep ==
    ASSUME DBInv, HandlerDomains, NEW t \in Threads, Served(t), ThreadNext(t), LoggedGrows
    PROVE  Served(t)'
<1> USE DEF HandlerDomains
<1>1. ASSUME NEW type \in {"PONG", "ERROR"}, ServePlain(t, type) PROVE Served(t)'
  BY <1>1, ServedPlainly DEF ServePlain, Up, vars, threadVars
<1>2. ASSUME OpenRefused(t) \/ ServeMissing(t) PROVE Served(t)'
  BY <1>2, ServedPlainly DEF OpenRefused, BeginRefused, ServeMissing, DelMissing, Up, threadVars
<1>3. ASSUME NEW r \in Requests, Open(t, r) PROVE Served(t)'
  <2>1. /\ stage[t] = "idle" /\ stage'[t] = "call" /\ req'[t] = r /\ answer'[t] = answer[t]
        /\ pc'[t] = "open"
    BY <1>3 DEF Open, Begin, GoTo, DBInv, TypeOK
  <2> QED
    BY <2>1 DEF Served
<1>4. ASSUME ApplyWrite(t) PROVE Served(t)'
  <2>1. UNCHANGED <<stage, req, answer>> /\ stage[t] = "call"
    BY <1>4 DEF ApplyWrite, At, handlerVars
  <2>2. \/ /\ req[t].type = "PUT" /\ pc'[t] = "put"
           /\ arg'[t].key = req[t].key /\ arg'[t].value = req[t].value
        \/ req[t].type = "DELETE" /\ pc'[t] = "del" /\ arg'[t].key = req[t].key
    BY <1>4 DEF ApplyWrite, At, PutApply, DelApply, DBInv, TypeOK
  <2> QED
    BY <2>1, <2>2 DEF Served
<1>5. ASSUME NEW out \in WriteOutcomes, CommitWrite(t, out) PROVE Served(t)'
  <2>1. pc' = pc /\ txn' = txn /\ req' = req /\ stage[t] = "commit"
    BY <1>5 DEF CommitWrite, CommitLog, CommitNothing, threadVars
  <2>2. stage'[t] = "end" /\ answer'[t] = [type |-> "SUCCESS", value |-> EmptyString]
    BY <1>5, RespondFacts DEF CommitWrite
  <2>3. WriteRecord(t)' = WriteRecord(t)
    BY <2>1 DEF WriteRecord
  <2>4. Accepted(WriteRecord(t))'
    BY <2>1, <2>3 DEF Served, Accepted, LoggedGrows
  <2> QED
    BY <2>1, <2>2, <2>4 DEF Served, Backed
<1>6. ASSUME EndRequest(t) PROVE Served(t)'
  <2>1. stage'[t] = "idle" /\ answer'[t] = NoAnswer
    BY <1>6 DEF EndRequest, GoTo
  <2>2. pc'[t] = "idle"
    BY <1>6 DEF EndRequest, End, vars, threadVars, Served, DBInv, TypeOK
  <2> QED
    BY <2>1, <2>2 DEF Served, NoAnswer
<1>7. ASSUME Administer(t) \/ FinishCall(t) PROVE Served(t)'
  <2>1. UNCHANGED <<stage, req, answer>>
    BY <1>7 DEF Administer, FinishCall, handlerVars
  <2>2. stage[t] = "idle" /\ pc'[t] \in {"idle", "stats", "shutdown"}
    BY <1>7 DEF Administer, FinishCall, StatsLock, ShutdownCheckpoint, StatsRead, ShutdownFlag, Up,
                Served, DBInv, TypeOK
  <2> QED
    BY <2>1, <2>2 DEF Served
<1> QED
  BY <1>1, <1>2, <1>3, <1>4, <1>5, <1>6, <1>7, ServedRead, ServedWrite DEF ThreadNext, Serve

-----------------------------------------------------------------------------
(* The invariant of the server.                                            *)

\* A thread's step leaves the requests of the others alone.
LEMMA HandlerFrame ==
    ASSUME HandlerDomains, NEW t \in Threads, ThreadNext(t)
    PROVE  /\ HandlerDomains'
           /\ \A u \in Threads : u # t => /\ stage'[u] = stage[u] /\ req'[u] = req[u]
                                          /\ answer'[u] = answer[u]
  BY DEF HandlerDomains, ThreadNext, ServePlain, Open, OpenRefused, Serve, ServeGet, ServeScan,
         ServeMissing, ApplyWrite, LogWrite, CommitWrite, EndRequest, Administer, FinishCall, Respond,
         GoTo, handlerVars

LEMMA HandlerStep == DBInv /\ HandlerInv /\ [HandlerNext]_allVars => HandlerInv'
<1> SUFFICES ASSUME DBInv, HandlerInv, [HandlerNext]_allVars PROVE HandlerInv'
  OBVIOUS
<1>1. ASSUME NEW t \in Threads, ThreadNext(t) PROVE HandlerInv'
  <2>1. Served(t) /\ HandlerDomains
    BY DEF HandlerInv
  <2>2. LoggedGrows /\ OthersStay(t)
    BY <1>1, <2>1, ThreadIsEngineStep, EngineFrame
  <2>3. Served(t)'
    BY <1>1, <2>1, <2>2, ServedStep
  <2>4. ASSUME NEW u \in Threads, u # t PROVE Served(u)'
    BY <1>1, <2>1, <2>2, <2>4, HandlerFrame, ServedStays DEF OthersStay, HandlerInv
  <2> QED
    BY <1>1, <2>1, <2>3, <2>4, HandlerFrame DEF HandlerInv
<1>2. ASSUME ProcessStarts PROVE HandlerInv'
  <2>1. UNCHANGED <<stage, req, answer, pc, txn, arg>>
    BY <1>2 DEF ProcessStarts, RecoverTurn, handlerVars, Start, RecoverRecord, RecoverGarbled, FinishRecovery,
                threadVars
  <2>2. phase # "up"
    BY <1>2 DEF ProcessStarts, RecoverTurn, Start, RecoverRecord, RecoverGarbled, FinishRecovery
  <2>3. ASSUME NEW t \in Threads PROVE Served(t)'
    <3>1. Served(t) /\ pc[t] = "idle"
      BY <2>2 DEF HandlerInv, DBInv, QuietInv
    <3>2. logged' = logged \/ \E rec \in Record : logged' = Append(logged, rec)
      <4>1. ASSUME RecoverRecord PROVE \E rec \in Record : logged' = Append(logged, rec)
        <5>1. current \in Stamps
          BY <4>1 DEF RecoverRecord, DBInv, PhaseInv, WALInv, NamedWhenOpen
        <5>2. files[current][pos + 1] \in Record
          BY <4>1, <5>1 DEF RecoverRecord, AtEndOfLog, DBInv, TypeOK, WALTypeOK
        <5> QED
          BY <4>1, <5>2 DEF RecoverRecord
      <4> QED
        BY <1>2, <4>1 DEF ProcessStarts, RecoverTurn, Start, RecoverGarbled, FinishRecovery
    <3>3. LoggedGrows
      BY <3>2, GrowsByOne DEF DBInv, TypeOK
    <3> QED
      BY <2>1, <3>1, <3>3, ServedStays
  <2> QED
    BY <2>1, <2>3 DEF HandlerInv, HandlerDomains
<1>3. ASSUME ProcessEnds PROVE HandlerInv'
  BY <1>3 DEF ProcessEnds, Crash, HandlerInv, HandlerDomains, Served, NoAnswer
<1>4. CASE UNCHANGED allVars
  <2>1. UNCHANGED <<stage, req, answer, pc, txn, arg, logged>>
    BY <1>4 DEF allVars, vars, threadVars, handlerVars
  <2>2. LoggedGrows
    BY <2>1 DEF LoggedGrows
  <2> QED
    BY <2>1, <2>2, ServedStays DEF HandlerInv, HandlerDomains
<1> QED
  BY <1>1, <1>2, <1>3, <1>4 DEF HandlerNext, ThreadNext

LEMMA HandlerInvariant == HandlerSpec => [](DBInv /\ HandlerInv)
<1>1. HandlerInit => DBInv /\ HandlerInv
  <2>1. HandlerInit => DBInv
    BY DBInit DEF HandlerInit
  <2>2. HandlerInit => HandlerInv
    BY DEF HandlerInit, Init, HandlerInv, HandlerDomains, Served, NoAnswer
  <2> QED
    BY <2>1, <2>2
<1>2. DBInv /\ HandlerInv /\ [HandlerNext]_allVars => DBInv' /\ HandlerInv'
  BY HandlerIsEngineStep, DBStep, HandlerStep
<1> QED
  BY <1>1, <1>2, PTL DEF HandlerSpec

\* The server uses the engine as its callers may: every behaviour of the server
\* is one of the engine, whose theorems so hold of it.
THEOREM ServerKeepsEngine == HandlerSpec => Spec
<1>1. HandlerInit => Init
  BY DEF HandlerInit
<1>2. HandlerInv /\ [HandlerNext]_allVars => [Next]_vars
  BY HandlerIsEngineStep
<1> QED
  BY <1>1, <1>2, HandlerInvariant, PTL DEF HandlerSpec, Spec

\* A client is told OK only of a write whose record the log accepted, and reads
\* only values that were put there by one, whatever fails or crashes and
\* whoever else is served.
THEOREM AnswersAreBacked == HandlerSpec => []AnswersBackedByLog
<1>1. HandlerInv => AnswersBackedByLog
  BY DEF HandlerInv, Served, Backed, Stored, AnswersBackedByLog
<1> QED
  BY <1>1, HandlerInvariant, PTL

-----------------------------------------------------------------------------
(* What was flushed survives.                                              *)

\* The readable ones among the first n records of the current file have been
\* replayed by the process, or were written by it.
KnownTo(n) ==
    \A i \in 1 .. Len(files[current]) :
        i <= n /\ Readable(current, i) => Accepted(files[current][i])

InFile(w) ==
    /\ w[1] \in Stamps
    /\ \E i \in 1 .. Len(files[w[1]]) : files[w[1]][i] = w[2] /\ Readable(w[1], i)

\* While the file is being read the process knows it as far as it has read it;
\* once it is open for writing, all of it.
SurvivalInv ==
    /\ phase = "down" => pos = 0
    /\ phase = "recovering" => KnownTo(pos)
    /\ phase = "up" /\ stream # "closed" => KnownTo(Len(files[current]))
    /\ \A w \in flushed : InFile(w)

\* Every torn record is torn at the end of its file, as it is then: behind what
\* is in the file already.
TearsAtEnd ==
    \/ tears' = tears
    \/ \E m \in {1, 2} : tears' = tears \cup {<<current, Len(files[current]), m>>}

LEMMA TearsStep ==
    ASSUME [WALNext]_walVars
    PROVE  TearsAtEnd
<1>1. ASSUME NEW may, MayTear(may) PROVE TearsAtEnd
  BY <1>1 DEF MayTear, TearsAtEnd
<1>2. CASE UNCHANGED walVars
  BY <1>2 DEF walVars, TearsAtEnd
<1> QED
  BY <1>1, <1>2 DEF WALNext, construct, append_record, create_checkpoint, WriteAndFlush,
                    read_all_records, truncate_log, recover_from_checkpoint, destroy, TearsAtEnd

\* So a record that can be read can be read for ever after, and one that cannot
\* will never be.
PrefixKept ==
    \A s \in Stamps : \A i \in 1 .. Len(files[s]) :
        /\ i \in 1 .. Len(files'[s]) /\ files'[s][i] = files[s][i]
        /\ Readable(s, i)' <=> Readable(s, i)

LEMMA PrefixStep ==
    ASSUME DBInv, DBInv', [Next]_vars
    PROVE  PrefixKept
<1>1. TearsAtEnd /\ Extends(files')
  BY LogStep, TearsStep, WALStep DEF DBInv
<1>2. ASSUME NEW s \in Stamps, NEW i \in 1 .. Len(files[s])
      PROVE  /\ i \in 1 .. Len(files'[s]) /\ files'[s][i] = files[s][i]
             /\ Readable(s, i)' <=> Readable(s, i)
  <2>1. /\ Len(files[s]) \in Nat /\ Len(files'[s]) \in Nat /\ Len(files[s]) <= Len(files'[s])
        /\ \A n \in 1 .. Len(files[s]) : files'[s][n] = files[s][n]
    BY <1>1 DEF Extends, DBInv, WALInv, WALTypeOK
  <2>2. \A n \in 0 .. i - 1 : n # Len(files[s])
    BY <2>1
  <2>3. \A n \in 0 .. i - 1 : Torn(s, n)' <=> Torn(s, n)
    BY <1>1, <2>2 DEF TearsAtEnd, Torn
  <2>4. \A n \in 1 .. i : files'[s][n] = files[s][n]
    BY <2>1
  <2>5. Readable(s, i)' <=> Readable(s, i)
    BY <2>3, <2>4 DEF Readable, Oversized
  <2>6. i \in 1 .. Len(files'[s])
    BY <2>1
  <2> QED
    BY <2>4, <2>5, <2>6
<1> QED
  BY <1>2 DEF PrefixKept

\* What is known stays known, and what is in a file stays in it.
LEMMA KnownStays ==
    ASSUME PrefixKept, LoggedGrows, current \in Stamps, current' = current, NEW n, KnownTo(n),
           NEW i \in 1 .. Len(files[current]), i <= n, Readable(current, i)'
    PROVE  Accepted(files[current][i])'
<1>1. Readable(current, i) /\ files'[current][i] = files[current][i]
  BY DEF PrefixKept, Readable, Torn, Oversized
<1>2. PICK j \in DOMAIN logged : logged[j] = files[current][i]
  BY <1>1 DEF KnownTo, Accepted
<1> QED
  BY <1>1, <1>2 DEF Accepted, LoggedGrows

LEMMA InFileStays ==
    ASSUME PrefixKept, NEW w, InFile(w)
    PROVE  InFile(w)'
<1>1. PICK i \in 1 .. Len(files[w[1]]) : files[w[1]][i] = w[2] /\ Readable(w[1], i)
  BY DEF InFile
<1>2. w[1] \in Stamps
  BY DEF InFile
<1>3. i \in 1 .. Len(files'[w[1]]) /\ files'[w[1]][i] = w[2] /\ Readable(w[1], i)'
  BY <1>1, <1>2 DEF PrefixKept
<1> QED
  BY <1>2, <1>3 DEF InFile

-----------------------------------------------------------------------------
\* A request writes one record to the log or none, and flushed tells which.
AppendsFor(rec, out) ==
    /\ phase = "up"
    /\ WriteAndFlush(rec, out)
    /\ LogIf(out, rec)
    /\ \/ flushed' = flushed
       \/ /\ out = "ok" /\ Readable(current, Len(files[current]))'
          /\ flushed' = flushed \cup {<<current, rec>>}

LEMMA HandlerLogStep ==
    ASSUME DBInv, HandlerInv, NEW t \in Threads, ThreadNext(t)
    PROVE  /\ UNCHANGED <<phase, pos>>
           /\ \/ UNCHANGED <<files, current, stream, logged, flushed>>
              \/ \E rec \in Record, out \in WriteOutcomes : AppendsFor(rec, out)
<1> DEFINE Appends == \E rec \in Record, out \in WriteOutcomes : AppendsFor(rec, out)
           Keeps == UNCHANGED <<files, current, stream, logged, flushed>>
<1>1. ASSUME NEW out \in WriteOutcomes, LogWrite(t, out) PROVE Appends
  <2> DEFINE put == PutRecord(arg[t].key, arg[t].value, txn[t].id)
             del == DeleteRecord(arg[t].key, txn[t].id)
  <2>1. WriteRecord(t) = IF pc[t] = "put" THEN put ELSE del
    BY <1>1, ServedWrite DEF HandlerInv
  <2>2. WriteRecord(t) \in Record
    <3>1. pc[t] \in {"put", "del"}
      BY <1>1 DEF LogWrite, PutLog, DelLog, Up
    <3> QED
      BY <2>1, <3>1, RecordFacts DEF DBInv, InFlightInv
  <2>3. phase = "up" /\ WriteAndFlush(WriteRecord(t), out) /\ LogIf(out, WriteRecord(t))
    BY <1>1, <2>1 DEF LogWrite, PutLog, DelLog, Up, append_record
  <2>4. \/ flushed' = flushed
        \/ /\ out = "ok" /\ Readable(current, Len(files[current]))'
           /\ flushed' = flushed \cup {<<current, WriteRecord(t)>>}
    BY <1>1 DEF LogWrite
  <2> QED
    BY <2>2, <2>3, <2>4 DEF AppendsFor
<1>2. ASSUME NEW out \in WriteOutcomes, CommitWrite(t, out) PROVE Appends \/ Keeps
  <2>1. CASE CommitLog(t, out)
    <3>1. CommitRecord(txn[t].id) \in Record
      BY <2>1, RecordFacts DEF CommitLog, Up, DBInv, InFlightInv
    <3> QED
      BY <1>2, <2>1, <3>1 DEF CommitWrite, CommitLog, Up, append_record, AppendsFor
  <2>2. CASE CommitNothing(t)
    BY <1>2, <2>2 DEF CommitWrite, CommitNothing, walVars
  <2> QED
    BY <1>2, <2>1, <2>2 DEF CommitWrite
<1>3. ASSUME NEW out \in WriteOutcomes, ShutdownCheckpoint(t, out), UNCHANGED handlerVars PROVE Appends
  BY <1>3, RecordFacts DEF ShutdownCheckpoint, Up, create_checkpoint, handlerVars, AppendsFor
<1>4. ASSUME StatsLock(t) \/ StatsRead(t) \/ ShutdownFlag(t), UNCHANGED handlerVars PROVE Keeps
  BY <1>4 DEF StatsLock, StatsRead, ShutdownFlag, walVars, handlerVars
<1>5. ASSUME \/ \E type \in {"PONG", "ERROR"} : ServePlain(t, type)
             \/ \E r \in Requests : Open(t, r)
             \/ OpenRefused(t) \/ EndRequest(t)
      PROVE  Keeps
  BY <1>5 DEF ServePlain, Open, OpenRefused, EndRequest, Begin, BeginRefused, End, vars, walVars
<1>6. ASSUME ServeGet(t) \/ ServeScan(t) \/ ServeMissing(t) \/ ApplyWrite(t) PROVE Keeps
  BY <1>6 DEF ServeGet, ServeScan, ServeMissing, ApplyWrite, Get, Scan, DelMissing, PutApply, DelApply,
              handlerVars, walVars
<1>7. Appends \/ Keeps
  BY <1>1, <1>2, <1>3, <1>4, <1>5, <1>6 DEF ThreadNext, Serve, Administer, FinishCall
<1>8. UNCHANGED <<phase, pos>>
  <2>1. Call(t) \/ Finish(t) \/ UNCHANGED vars
    BY ThreadIsEngineStep DEF HandlerInv
  <2>2. UNCHANGED vars => UNCHANGED <<phase, pos>>
    BY DEF vars, sysVars
  <2> QED
    BY <2>1, <2>2, ThreadStepKinds
<1> QED
  BY <1>7, <1>8

\* A write that is flushed becomes known and, if it can be read, is in the file.
LEMMA SurvivalThreadStep ==
    ASSUME DBInv, DBInv', HandlerInv, SurvivalInv, PrefixKept, NEW t \in Threads, ThreadNext(t)
    PROVE  SurvivalInv'
<1>1. UNCHANGED <<phase, pos>>
  BY HandlerLogStep
<1>2. CASE UNCHANGED <<files, current, stream, logged, flushed>>
  <2>1. LoggedGrows
    BY <1>2 DEF LoggedGrows
  <2>2. phase # "down" => current \in Stamps
    BY DEF DBInv, PhaseInv, WALInv, NamedWhenOpen
  <2>3. ASSUME NEW n, KnownTo(n), phase # "down" PROVE KnownTo(n)'
    BY <1>2, <2>1, <2>2, <2>3, KnownStays DEF KnownTo
  <2> QED
    BY <1>1, <1>2, <2>3, InFileStays DEF SurvivalInv
<1>3. ASSUME NEW rec \in Record, NEW out \in WriteOutcomes, AppendsFor(rec, out) PROVE SurvivalInv'
  <2> DEFINE file == files[current]
             newfile == files'[current]
  <2>1. /\ current \in Stamps /\ current' = current /\ file \in Seq(Record) /\ phase = "up"
        /\ files \in [Stamps -> Seq(Record)] /\ logged \in Seq(Record)
        /\ stream' # "closed" => stream # "closed"
    BY <1>3 DEF AppendsFor, WriteAndFlush, DBInv, TypeOK, WALInv, NamedWhenOpen, WALTypeOK
  <2>2. LoggedGrows
    BY <1>3, <2>1, GrowsByOne DEF AppendsFor, LogIf
  <2>3. ASSUME out = "ok"
        PROVE  /\ Len(newfile) = Len(file) + 1 /\ Len(file) \in Nat
               /\ newfile[Len(file) + 1] = rec
               /\ \E j \in DOMAIN logged' : logged'[j] = rec
    <3>1. newfile = Append(file, rec) /\ logged' = Append(logged, rec)
      BY <1>3, <2>1, <2>3 DEF AppendsFor, WriteAndFlush, LogIf, Accepts
    <3>2. Len(logged) + 1 \in DOMAIN logged' /\ logged'[Len(logged) + 1] = rec
      BY <2>1, <3>1
    <3>3. file \in Seq(Record)
      BY <2>1
    <3> HIDE DEF file, newfile
    <3>4. Len(newfile) = Len(file) + 1 /\ Len(file) \in Nat /\ newfile[Len(file) + 1] = rec
      BY <3>1, <3>3, AppendFacts
    <3> QED
      BY <3>2, <3>4
  <2>4. out # "ok" => newfile = file /\ flushed' = flushed
    BY <1>3 DEF AppendsFor, WriteAndFlush
  <2>5. ASSUME stream' # "closed", NEW i \in 1 .. Len(newfile), Readable(current, i)'
        PROVE  \E j \in DOMAIN logged' : logged'[j] = newfile[i]
    <3>1. CASE out = "ok" /\ i = Len(file) + 1
      BY <2>3, <3>1
    <3>2. CASE ~(out = "ok" /\ i = Len(file) + 1)
      <4> HIDE DEF file, newfile
      <4>1. i \in 1 .. Len(file) /\ i <= Len(file)
        BY <2>3, <2>4, <2>5, <3>2
      <4>2. KnownTo(Len(file))
        BY <2>1, <2>5 DEF SurvivalInv, file
      <4>3. Accepted(file[i])' /\ file' = newfile
        BY <2>1, <2>2, <2>5, <4>1, <4>2, KnownStays DEF file, newfile
      <4> QED
        BY <4>3 DEF Accepted
    <3> QED
      BY <3>1, <3>2
  <2>6. ASSUME NEW w \in flushed' PROVE InFile(w)'
    <3>1. CASE w \in flushed
      BY <3>1, InFileStays DEF SurvivalInv
    <3>2. CASE out = "ok" /\ Readable(current, Len(files[current]))' /\ w = <<current, rec>>
      <4>1. Len(newfile) \in 1 .. Len(newfile) /\ newfile[Len(newfile)] = rec
        BY <2>3, <3>2
      <4>2. /\ \A n \in 0 .. Len(newfile) - 1 : ~Torn(current, n)'
            /\ \A n \in 1 .. Len(newfile) : ~Oversized(newfile[n])
        BY <2>1, <3>2 DEF Readable, Torn
      <4>3. w[1] = current /\ w[2] = rec
        BY <3>2
      <4>4. w[1] \in Stamps /\ files'[w[1]] = newfile
        BY <2>1, <4>3
      <4>5. \A n \in 0 .. Len(newfile) - 1 : <<w[1], n, 1>> \notin tears'
        BY <2>1, <4>2, <4>3 DEF Torn
      <4> HIDE DEF newfile
      <4> QED
        BY <4>1, <4>2, <4>3, <4>4, <4>5 DEF InFile, Readable, Torn
    <3> QED
      BY <1>3, <2>6, <3>1, <3>2 DEF AppendsFor
  <2>7. stream' # "closed" => KnownTo(Len(files[current]))'
    BY <2>1, <2>5 DEF KnownTo, Accepted
  <2> QED
    BY <1>1, <2>1, <2>6, <2>7 DEF SurvivalInv
<1> QED
  BY <1>2, <1>3, HandlerLogStep

\* Recovery has read the file as far as it can be read when it ends.
LEMMA SurvivalSystemStep ==
    ASSUME DBInv, DBInv', SurvivalInv, PrefixKept, ProcessStarts \/ ProcessEnds
    PROVE  SurvivalInv'
<1>1. \A w \in flushed' : InFile(w)'
  BY InFileStays DEF SurvivalInv, ProcessStarts, ProcessEnds, handlerVars
<1>2. ASSUME NEW s \in Stamps, NEW opens \in BOOLEAN, Start(s, opens) PROVE SurvivalInv'
  <2>1. phase' = "recovering" /\ pos' = 0
    BY <1>2 DEF Start, SurvivalInv
  <2>2. KnownTo(pos)'
    BY <2>1 DEF KnownTo
  <2> QED
    BY <1>1, <2>1, <2>2 DEF SurvivalInv
<1>3. phase = "recovering" => current \in Stamps /\ pos \in Nat /\ KnownTo(pos) /\ logged \in Seq(Record)
  BY DEF DBInv, PhaseInv, WALInv, NamedWhenOpen, TypeOK, SurvivalInv
<1>4. ASSUME RecoverRecord PROVE SurvivalInv'
  <2> DEFINE file == files[current]
             rec == file[pos + 1]
  <2>1. /\ phase = "recovering" /\ phase' = phase /\ pos' = pos + 1 /\ UNCHANGED <<files, tears, current>>
        /\ logged' = Append(logged, rec) /\ pos < Len(file)
    BY <1>4 DEF RecoverRecord, AtEndOfLog, walVars
  <2>2. rec \in Record
    <3>1. files \in [Stamps -> Seq(Record)]
      BY DEF DBInv, WALInv, WALTypeOK
    <3>2. file \in Seq(Record)
      BY <1>3, <2>1, <3>1
    <3> HIDE DEF file
    <3> QED
      BY <1>3, <2>1, <3>2
  <2>3. LoggedGrows /\ Len(logged) + 1 \in DOMAIN logged' /\ logged'[Len(logged) + 1] = rec
    BY <1>3, <2>1, <2>2, GrowsByOne
  <2>4. ASSUME NEW i \in 1 .. Len(file), i <= pos + 1, Readable(current, i)'
        PROVE  Accepted(files[current][i])'
    <3>1. CASE i = pos + 1
      BY <2>1, <2>3, <3>1 DEF Accepted
    <3>2. CASE i <= pos
      BY <1>3, <2>1, <2>3, <2>4, <3>2, KnownStays
    <3> QED
      BY <1>3, <2>1, <2>4, <3>1, <3>2
  <2> QED
    BY <1>1, <2>1, <2>4 DEF SurvivalInv, KnownTo
<1>5. ASSUME NEW rec \in Record, RecoverGarbled(rec) PROVE SurvivalInv'
  <2>1. /\ phase = "recovering" /\ phase' = phase /\ UNCHANGED <<files, tears, current>>
        /\ logged' = Append(logged, rec) /\ Torn(current, pos)
    BY <1>5 DEF RecoverGarbled, walVars
  <2>2. LoggedGrows
    BY <1>3, <2>1, GrowsByOne
  <2>3. ASSUME NEW i \in 1 .. Len(files[current]), Readable(current, i)'
        PROVE  Accepted(files[current][i])'
    <3>1. i <= pos
      <4>1. ~(pos \in 0 .. i - 1)
        BY <2>1, <2>3 DEF Readable, Torn
      <4> QED
        BY <1>3, <2>1, <4>1
    <3> QED
      BY <1>3, <2>1, <2>2, <2>3, <3>1, KnownStays
  <2> QED
    BY <1>1, <2>1, <2>3 DEF SurvivalInv, KnownTo
<1>6. ASSUME NEW opens \in BOOLEAN, FinishRecovery(opens) PROVE SurvivalInv'
  <2> DEFINE file == files[current]
  <2>1. /\ phase = "recovering" /\ phase' = "up" /\ UNCHANGED <<logged, files, current>>
        /\ stream' # "closed" => AtEndOfLog
    BY <1>6 DEF FinishRecovery, read_all_records, OpenForAppend, ClosedFiles
  <2>2. LoggedGrows
    BY <2>1 DEF LoggedGrows
  <2>3. ASSUME AtEndOfLog, NEW i \in 1 .. Len(file), Readable(current, i)'
        PROVE  Accepted(files[current][i])'
    <3>0. Len(file) \in Nat /\ current \in Stamps
      BY <1>3, <2>1 DEF DBInv, WALInv, WALTypeOK
    <3>1. Readable(current, i) /\ Len(file) \in Nat
      BY <2>1, <2>3, <3>0 DEF PrefixKept, Readable, Torn, Oversized
    <3>2. ~Torn(current, pos) \/ ~(pos \in 0 .. i - 1)
      BY <3>1 DEF Readable
    <3>3. ~Oversized(file[pos + 1]) \/ ~(pos + 1 \in 1 .. i)
      BY <3>1 DEF Readable
    <3>4. i <= pos
      <4>1. Torn(current, pos) \/ pos >= Len(file) \/ Oversized(file[pos + 1])
        BY <1>3, <2>1, <2>3, <3>1 DEF AtEndOfLog
      <4> HIDE DEF file
      <4> QED
        BY <1>3, <2>1, <3>1, <3>2, <3>3, <4>1
    <3> QED
      BY <1>3, <2>1, <2>2, <2>3, <3>4, KnownStays
  <2> QED
    BY <1>1, <2>1, <2>3 DEF SurvivalInv, KnownTo
<1>7. ASSUME NEW lands \in BOOLEAN, Crash(lands) PROVE SurvivalInv'
  BY <1>1, <1>7 DEF Crash, SurvivalInv
<1> QED
  BY <1>2, <1>4, <1>5, <1>6, <1>7 DEF ProcessStarts, RecoverTurn, ProcessEnds

\* A write that was flushed to a readable place before its client was told OK
\* stays readable, and every life of the process that opens its file has it: for
\* any number of crashes, tears and failures and any clock.
THEOREM FlushedWritesAreKept == HandlerSpec => []FlushedWritesSurvive
<1>1. HandlerInit => SurvivalInv
  BY DEF HandlerInit, Init, WALInit, SurvivalInv
<1>2. DBInv /\ DBInv' /\ HandlerInv /\ SurvivalInv /\ [HandlerNext]_allVars => SurvivalInv'
  <2> SUFFICES ASSUME DBInv, DBInv', HandlerInv, SurvivalInv, [HandlerNext]_allVars
               PROVE  SurvivalInv'
    OBVIOUS
  <2>1. PrefixKept
    BY HandlerIsEngineStep, PrefixStep
  <2>2. CASE UNCHANGED allVars
    BY <2>2 DEF allVars, vars, walVars, sysVars, handlerVars, SurvivalInv, KnownTo, Accepted, InFile,
                Readable, Torn, Oversized
  <2> QED
    BY <2>1, <2>2, SurvivalThreadStep, SurvivalSystemStep DEF HandlerNext, ThreadNext
<1>3. DBInv /\ SurvivalInv => FlushedWritesSurvive
  <2> SUFFICES ASSUME DBInv, SurvivalInv, NEW w \in flushed
               PROVE  /\ \E i \in DOMAIN files[w[1]] : files[w[1]][i] = w[2] /\ Readable(w[1], i)
                      /\ phase = "up" /\ stream # "closed" /\ current = w[1] => Accepted(w[2])
    BY DEF FlushedWritesSurvive
  <2>1. PICK i \in 1 .. Len(files[w[1]]) : files[w[1]][i] = w[2] /\ Readable(w[1], i)
    BY DEF SurvivalInv, InFile
  <2>2. files[w[1]] \in Seq(Record)
    BY DEF SurvivalInv, InFile, DBInv, WALInv, WALTypeOK
  <2>3. i \in DOMAIN files[w[1]] /\ i <= Len(files[w[1]])
    BY <2>2
  <2> QED
    BY <2>1, <2>3 DEF SurvivalInv, KnownTo
<1> QED
  BY <1>1, <1>2, <1>3, HandlerInvariant, PTL DEF HandlerSpec
=============================================================================
