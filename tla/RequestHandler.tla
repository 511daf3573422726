---------------------------- MODULE RequestHandler ----------------------------
(***************************************************************************)
(* What the server does with a request: process_request_sync of a          *)
(* ConnectionHandler, and DatabaseServer::process_request, the same switch *)
(* run by a worker (network/server.cpp), over the engine.  Each thread     *)
(* serves one request at a time; between two requests it may stand for an  *)
(* administrator's thread that calls the database itself.                  *)
(*                                                                         *)
(* A request is one transaction: begin_transaction, one call, and for a    *)
(* write that succeeded a commit whose result nobody looks at.             *)
(*                                                                         *)
(* flushed is a history variable: the writes, in any life of the process,  *)
(* that their clients are told OK about and whose records were flushed to  *)
(* a place in a file where they can be read, each with the file's stamp.   *)
(***************************************************************************)
EXTENDS PersistentDatabase

VARIABLES
    stage,  \* of each thread's request: "idle", "call", "commit" or "end"
    req,    \* the request (a Message)
    answer, \* the response (a Message) made for it
    flushed

handlerVars == <<stage, req, answer, flushed>>
allVars == <<vars, handlerVars>>

\* A SCAN has its end key in the value field.
Requests ==
    [type : {"GET", "DELETE"}, key : Keys, value : {EmptyString}]
        \cup [type : {"PUT"}, key : Keys, value : Values]
        \cup [type : {"SCAN"}, key : Keys, value : {k + 1 : k \in Keys}]

NoRequest == [type |-> "none", key |-> NoKey, value |-> EmptyString]
NoAnswer == [type |-> "none", value |-> EmptyString]

HandlerInit ==
    /\ Init
    /\ stage = [t \in Threads |-> "idle"]
    /\ req = [t \in Threads |-> NoRequest]
    /\ answer = [t \in Threads |-> NoAnswer]
    /\ flushed = {}

GoTo(t, to) == stage' = [stage EXCEPT ![t] = to]

At(t, where, type) == stage[t] = where /\ req[t].type = type

Respond(t, type, value) ==
    /\ answer' = [answer EXCEPT ![t] = [type |-> type, value |-> value]]
    /\ GoTo(t, "end")

-----------------------------------------------------------------------------
\* A request that does not touch the database: a PING, answered with PONG, or
\* a type the switch does not know, answered with ERROR.  ("Database not
\* initialized" is never said: the program hands the server its database.)
ServePlain(t, type) ==
    /\ Up(t, "idle")
    /\ stage[t] = "idle"
    /\ Respond(t, type, EmptyString)
    /\ UNCHANGED <<vars, req, flushed>>

\* begin_transaction, the first thing every other request does.
Open(t, r) ==
    /\ stage[t] = "idle"
    /\ Begin(t)
    /\ req' = [req EXCEPT ![t] = r]
    /\ GoTo(t, "call")
    /\ UNCHANGED <<answer, flushed>>

\* "Failed to begin transaction".
OpenRefused(t) ==
    /\ stage[t] = "idle"
    /\ BeginRefused(t)
    /\ Respond(t, "ERROR", EmptyString)
    /\ UNCHANGED <<req, flushed>>

\* An empty value is answered like a missing key.
ServeGet(t) ==
    /\ At(t, "call", "GET")
    /\ Get(t, req[t].key)
    /\ Respond(t, IF reply'[4] = EmptyString THEN "ERROR" ELSE "SUCCESS", reply'[4])
    /\ UNCHANGED <<req, flushed>>

ServeScan(t) ==
    /\ At(t, "call", "SCAN")
    /\ Scan(t, req[t].key, req[t].value)
    /\ Respond(t, "SUCCESS", reply'[4])
    /\ UNCHANGED <<req, flushed>>

\* put or del, up to its append.
ApplyWrite(t) ==
    /\ \/ At(t, "call", "PUT") /\ PutApply(t, req[t].key, req[t].value)
       \/ At(t, "call", "DELETE") /\ DelApply(t, req[t].key)
    /\ UNCHANGED handlerVars

\* Mutant of NextAfterWrite: the result of put or del is not looked at.
CommitAnyway(out) == "commit"

\* The result of put or del decides between the commit and an error.
NextAfterWrite(out) == IF Accepts(out) THEN "commit" ELSE "end"

WriteRecord(t) ==
    IF req[t].type = "PUT" THEN PutRecord(req[t].key, req[t].value, txn[t].id)
                           ELSE DeleteRecord(req[t].key, txn[t].id)

\* A reader of file s gets as far as its i-th record: that one and those before
\* it are whole and within the limit.
Readable(s, i) ==
    /\ \A n \in 0 .. i - 1 : ~Torn(s, n)
    /\ \A n \in 1 .. i : ~Oversized(files[s][n])

LogWrite(t, out) ==
    /\ PutLog(t, out) \/ DelLog(t, out)
    /\ IF NextAfterWrite(out) = "commit"
       THEN GoTo(t, "commit") /\ UNCHANGED answer
       ELSE Respond(t, "ERROR", EmptyString)
    /\ flushed' = IF out = "ok" /\ Readable(current, Len(files[current]))'
                  THEN flushed \cup {<<current, WriteRecord(t)>>} ELSE flushed
    /\ UNCHANGED req

\* Mutant of ServeMissing: the switch is left without a response.
MissingUnanswered(t) ==
    /\ At(t, "call", "DELETE")
    /\ DelMissing(t, req[t].key)
    /\ UNCHANGED handlerVars

\* A key that is not there: "Failed to delete key".
ServeMissing(t) ==
    /\ At(t, "call", "DELETE")
    /\ DelMissing(t, req[t].key)
    /\ Respond(t, "ERROR", EmptyString)
    /\ UNCHANGED <<req, flushed>>

\* commit, whose result is ignored: the client is told OK.
CommitWrite(t, out) ==
    /\ stage[t] = "commit"
    /\ IF txn[t].has_writes THEN CommitLog(t, out) ELSE CommitNothing(t)
    /\ Respond(t, "SUCCESS", EmptyString)
    /\ UNCHANGED <<req, flushed>>

\* The transaction, if there is one, goes out of scope, and the response is
\* on its way.
EndRequest(t) ==
    /\ stage[t] = "end"
    /\ IF pc[t] = "open" THEN End(t) ELSE UNCHANGED vars
    /\ GoTo(t, "idle")
    /\ req' = [req EXCEPT ![t] = NoRequest]
    /\ answer' = [answer EXCEPT ![t] = NoAnswer]
    /\ UNCHANGED flushed

\* What a thread does with the request it has.
Serve(t) ==
    \/ ServeGet(t) \/ ServeScan(t) \/ ServeMissing(t) \/ ApplyWrite(t)
    \/ \E out \in WriteOutcomes : LogWrite(t, out) \/ CommitWrite(t, out)
    \/ EndRequest(t)

-----------------------------------------------------------------------------
\* Calls on the database beside the requests.  (compact, backup and restore
\* are left to the runs of the engine.)
Administer(t) ==
    /\ stage[t] = "idle"
    /\ \/ StatsLock(t)
       \/ \E out \in WriteOutcomes : ShutdownCheckpoint(t, out)
    /\ UNCHANGED handlerVars

FinishCall(t) == (StatsRead(t) \/ ShutdownFlag(t)) /\ UNCHANGED handlerVars

\* Start-up and the end of the process, with all that was in memory.
ProcessStarts ==
    /\ \/ \E s \in Stamps, opens \in BOOLEAN : Start(s, opens)
       \/ RecoverTurn
       \/ \E opens \in BOOLEAN : FinishRecovery(opens)
    /\ UNCHANGED handlerVars

ProcessEnds ==
    /\ \E lands \in BOOLEAN : Crash(lands)
    /\ stage' = [t \in Threads |-> "idle"]
    /\ req' = [t \in Threads |-> NoRequest]
    /\ answer' = [t \in Threads |-> NoAnswer]
    /\ UNCHANGED flushed

HandlerNext ==
    \/ ProcessStarts \/ ProcessEnds
    \/ \E t \in Threads :
          \/ \E type \in {"PONG", "ERROR"} : ServePlain(t, type)
          \/ \E r \in Requests : Open(t, r)
          \/ OpenRefused(t) \/ Serve(t) \/ Administer(t) \/ FinishCall(t)

HandlerSpec == HandlerInit /\ [][HandlerNext]_allVars

\* Threads that can run do, and one that waits for a lock which is free again
\* and again gets it in the end.  Nobody has to send a request.
FairHandlerSpec ==
    HandlerSpec /\ \A t \in Threads : SF_allVars(Serve(t)) /\ WF_allVars(FinishCall(t))

-----------------------------------------------------------------------------
(* Properties.                                                             *)

Accepted(rec) == \E i \in DOMAIN logged : logged[i] = rec

\* What a client is told is what the log says, whatever the disk, the other
\* threads, a shutdown or a crash do (process_request_sync): OK only for a
\* write whose own record was accepted, whatever becomes of its COMMIT and also
\* when the database is shut down under it; and a value read by GET or SCAN was
\* put by a record that was accepted or read at start-up, never by a put still
\* to be refused.
AnswersBackedByLog ==
    \A t \in Threads :
        LET r == req[t]
            stored(k, v) == \E id \in TxnIds : Accepted(PutRecord(k, v, id))
        IN  answer[t].type = "SUCCESS" =>
              CASE r.type = "GET"  -> stored(r.key, answer[t].value)
                [] r.type = "SCAN" -> \A pair \in answer[t].value : stored(pair[1], pair[2])
                [] OTHER           -> Accepted(WriteRecord(t))

\* A write that was flushed to a readable place before its client was told OK
\* stays there, whatever fails, is torn, crashes or is started again later, in
\* this file or another one; and a process that has opened this file, in the
\* life that wrote it or in a later one, has it.  (Three things may happen to a
\* write that was told OK and is not in flushed: its flush failed, which
\* append_record does not test, or it was put behind a torn or an oversized
\* record, or it is oversized itself.  And a start in another millisecond opens
\* another file: RecoversLogDirectory.)
FlushedWritesSurvive ==
    \A w \in flushed :
        /\ \E i \in DOMAIN files[w[1]] : files[w[1]][i] = w[2] /\ Readable(w[1], i)
        /\ phase = "up" /\ stream # "closed" /\ current = w[1] => Accepted(w[2])

\* Every request that was begun is answered, on a failing disk and with
\* shutdowns and statistics beside it, by all the locks and steps it takes, or
\* ends with the process.  (~Room is the bound on the length of the log.)
RequestsAnswered ==
    \A t \in Threads : stage[t] # "idle" ~> (stage[t] = "idle" \/ ~Room)
=============================================================================
