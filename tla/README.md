# Specifications of Custom_Database

TLA+ modules, TLC configurations and TLAPS proofs about the key-value server in
`src/`: a write-ahead log, an engine that keeps a map in memory and logs every
change, and a Boost.Asio server with a pool of worker threads.

All file and line references are to `src/` at the commit beside this directory.
`PROJECT.json` maps every definition to the lines it models.

## 1. Inventory

| Component | State | Operations | Hard behaviour | Correct when |
|---|---|---|---|---|
| Write-ahead log (`storage/wal.h`, `wal.cpp`) | log directory, open stream and its buffer, `current_log_file_`, `total_records_`, `mutex_` | constructor, `append_record`, `create_checkpoint`, `read_all_records`, `recover_from_checkpoint`, `truncate_log`, `get_stats`, destructor | writes, flushes and opens that fail; records of which only a part is written; file names taken from a millisecond clock; a mutex locked twice | what it answered true to is in the file, in order; nothing that can be read is ever lost |
| Storage engine and transactions (`core/database.h`, `persistent_database.cpp`) | `data_`, `mutex_` (shared), `initialized_`, `next_transaction_id_`; per transaction `id_`, `has_writes_` | `initialize`, `shutdown`, `begin_transaction`, `get_stats`, `compact`, `backup`, `restore`; `get`, `put`, `del`, `scan`, `commit`, `rollback` | the map is changed before the log; the log is used by calls that do not hold `mutex_`; crash and replay; undo of a refused record | callers see one linearizable map; the map is what the log says; a restart brings it back |
| Request queue and workers (`network/server.cpp` 256-271, 310-338) | `request_queue_`, `queue_mutex_`, `queue_condition_`, `running_` | `worker_thread_function`, `process_request_async`, `stop` | wake-ups lost between test and wait; stop racing with submissions | a queued task always has somebody to run it; answered once, and in the end |
| Connections and accept loop (`network/server.cpp` 10-96, 200-308) | `acceptor_`, `connection_count_`, per connection the operation under way | `handle_accept`, `read_header`, `read_body`, `write_response`, `on_client_disconnect`, `stop` | test and increment of the count in two steps; five ways out of a connection; errors at any moment | the count is exact, the limit holds, no slot leaks, every client is served or turned away |
| Request processing (`network/server.cpp` 98-203) | none of its own | `process_request_sync`, `process_request` | results of `commit` ignored; empty value reads as missing | an answer says what happened |
| Wire protocol (`network/protocol.*`) | none | serialize, deserialize, framing | size limits, lengths taken from the wire | decoding inverts encoding |
| Client (`network/client.*`) | `socket_`, `connected_`, `request_id_` | connect, disconnect, get, put, del, scan, ping | no id is compared; `connected_` outlives every error; framing lost after an answer above 1 MB | each answer belongs to its request |
| Server program (`server_main.cpp`) | globals `server`, `io_context`, `work_guard`; the io threads | main, signal handler | a handler that runs `stop` on the interrupted thread; globals destroyed in an order nobody wrote down | the process ends, with no thread left running on what is destroyed |
| Interactive client, demo, benchmark (`client_main.cpp`, `main.cpp`, `benchmark_main.cpp`) | none | text input and output, timing | - | - |
| B-tree (`storage/btree.h`), TransactionManager, isolation levels, locks (`storage/transaction.h`) | - | declared, never implemented | - | - |

How they interact. A connection's completion handler, or a worker, opens a
transaction on the engine, makes one call and commits. `put` and `del` hold the
engine's `mutex_` exclusively over the change of `data_` *and* the append, which
takes the log's `mutex_`. `commit`, `backup`, `compact` and `shutdown` take only
the log's mutex, so they run between the two halves of another thread's `put`.
`get_stats` takes `mutex_` shared and then the log's. `initialize` makes the log
object, which opens a new file, and replays *that* file.

`PROJECT.json` lists the hazards, each at its line, with the properties that
would catch it.

## 2. Modules

| Module | Models | Extends |
|---|---|---|
| `WriteAheadLog` | the log, one action per member function | - |
| `KVStore` | abstract: what the engine promises its callers | - |
| `PersistentDatabase` | the engine over the log, called by a set of threads, crashing and restarting | `WriteAheadLog`; instantiates `KVStore` |
| `RequestHandler` | what the server does with a request, over the engine | `PersistentDatabase` |
| `WorkerPool` | request queue, workers, `stop` | - |
| `ServerProgram` | main, signal handler, io threads and destruction, around the pool | `WorkerPool` |
| `ConnectionServer` | accept loop and connections | - |
| `ByteFormat` | words in byte strings, shared by log and protocol | - |
| `LogFile` | one log file byte by byte: format, reading loop, torn writes | `ByteFormat` |
| `ClientSession` | a client, the protocol and the server's end of one connection | `ByteFormat` |
| `MC...` | the names that a `.cfg` uses, symmetry sets | the module in question |
| `PersistentDatabase_proofs` | theorems about the log and about the engine on any disk | `PersistentDatabase` |
| `Durability_proofs` | theorems about memory, log and directory; the refinement of `KVStore` | `PersistentDatabase_proofs` |
| `RequestHandler_proofs` | theorems about answers | `RequestHandler`, `Durability_proofs` |
| `ServerProgram_proofs` | theorems about the pool and about shutdown | `ServerProgram` |
| `ConnectionServer_proofs` | theorems about connections | `ConnectionServer` |
| `ByteFormat_proofs` | lemmas about loops over byte strings and about fields laid out in them | `ByteFormat` |
| `LogFile_proofs` | theorems about the log's format | `LogFile`, `ByteFormat_proofs` |
| `ClientSession_proofs` | theorems about the protocol and the client | `ClientSession`, `ByteFormat_proofs` |

Definitions whose comment begins with "Mutant of" are deliberate bugs. No
specification uses them; `PROJECT.json` names, for each checked property, the one
that breaks it.

### WriteAheadLog

`files` maps each millisecond stamp to the records in the file of that name. A
file that was never created is the empty sequence, because the reader treats both
alike. `stream` is the `std::ofstream`: `"good"`, `"bad"` (badbit), `"closed"`
(the open failed) or `"none"` (no object). `pending` is what a failed flush left
in its buffer; closing the stream tries these bytes once more (`lands`).
A write or flush that fails, and a crash, may leave some bytes of a record behind
(`MayTear`): `tears` says behind which record of which file such a piece lies. The
reader stops there (`Torn`), and what is appended behind it is not found again.

All member functions hold `mutex_` from first to last line, so each is one action.
`write_record_to_file` tests the stream, the flush after it is not tested: outcome
`"flushFails"` therefore *accepts* the record, and leaves the stream bad, after
which the only outcome is `"writeFails"`. `recover_from_checkpoint` locks `mutex_`
and calls `read_all_records`, which locks it again; `std::mutex` is not recursive,
and what glibc does is wait: `wedged` becomes true and no later call gets in.

Left out: the timestamp of a record (never read back), checksums (there are none),
`flush()` (no caller). Whole records and torn ones are the units here; which byte a
record is cut at is a matter of `LogFile`, below it.

### LogFile

What `WriteAheadLog` takes for granted: that reading a file gives back the records
written to it. `serialize`, `deserialize` and the loop of `read_all_records` are written
over sequences of bytes, with words of two bytes. `Write` appends any non-empty prefix
of a framed record: a crash or a full disk may cut it anywhere, and when the next open
finds the same name the next record follows the cut. `whole` is the reference.
`RecordAssumption` says that a record's numbers and lengths fit the fields they are
written to, 64 and 32 bits wide in the code. What is appended *behind* a torn record is
read, if at all, from the middle of something (wal.cpp:170); nothing is promised about
it, and `NothingInvented` says so by its `after`. `PersistentDatabase` takes that
into its recovery as `RecoverGarbled`.

### PersistentDatabase

One process, its threads, and its log directory, which survives `Crash`.
`PutApply`/`PutLog` and `DelApply`/`DelLog` are the two halves of `put` and `del`,
split where the log's mutex is taken. `writer` and `readers` are `mutex_`. `get`,
`scan` and the failing `del` hold it over one step and touch nothing else, so each
is atomic. `StatsLock`/`StatsRead` and `ShutdownCheckpoint`/`ShutdownFlag` are
split for the same reason. Recovery is one action per record, so that a crash can
fall inside it; at a torn record with bytes behind it, recovery ends or replays any
record at all (`RecoverGarbled`), once or several times, and may find its way back
to a boundary between records. `scan` may return any `ScanLimit` of the matching pairs, as the
iteration order of an `unordered_map` is unspecified.

Keys are natural numbers, for the order that `scan` compares by; values are model
values, one of them the empty string, which `get` also answers for a missing key.
`BigValues` are those whose record is longer than the 1 MB at which the reader
gives up.

`logged` is a history variable: the records replayed at start-up, then those the
log accepted. `reply` is what the last call returned; `KVStore` is about it. Its
`Crash` loses nothing but the calls under way, each of which has then happened or
not; the refinement mapping (`StoredMap`) reads the stored map off `data_` while
the process serves and off its file while it does not, so `ImplementsKVStore`
says that the engine is linearizable *and* durable, call by call. It says nothing of
transactions: the engine neither isolates nor undoes one (section 3).

### RequestHandler

`process_request_sync` and `process_request` are the same switch. `Open` is
`begin_transaction`; the call follows in the engine's own steps, then `CommitWrite`,
whose result nobody looks at (server.cpp:127), and `EndRequest`, where the
transaction goes out of scope. `Administer` is somebody else calling `get_stats` or
`shutdown` on the same object. `flushed` remembers, across crashes, which
writes reached a file before their clients were told OK, at a place that a reader gets
to (`Readable`: no torn record before it, and none above 1 MB up to it).

### WorkerPool

`wait(lock, predicate)` is the loop the standard says it is: `Test`, `Block`
(unlock and sleep in one step), a wake-up (`NotifyOne`, `StopNotifyAll` or
`Spurious`), `Lock`, `Test`. `stop` clears `running_` and notifies without the
mutex. `process_request_async` has no caller in the repository: connections answer
their own requests. The checks about tasks are about the interface as it stands;
`ProgramStop` has `Tasks = {}`, which is the program as it runs. The pool has no
run of its own: its actions are steps of `ServerProgram`, which says when they
can happen.

### ServerProgram

`handler` walks through `signal_handler`; while it is under way the thread it
interrupted (`target`) takes no step of its own and keeps its locks (`Free`). The
handler's `stop()` is `WorkerPool`'s, except that a worker reaching its own join
aborts the program (`JoinsItself`). `context` is the `io_context` with its work guard:
the handler resets the guard (`ReleaseGuard`) and then stops the context
(`StopContext`), in two steps between which an io thread with nothing left to do may
leave `run()`. `busy` is whether connections keep it there.

`caught` remembers where main was when the signal came, which decides what the
handler finds. Before `MakeContext` it finds nothing and does nothing. Between that and
`MakeServer` it stops the context and no server; main goes on, its io threads
leave at once, and the destructor of the server closes an open acceptor whose
`io_context` is gone. That is undefined: `DestroyServer` is the case in which it works, and
`CloseWithoutContext` the one in which the program dies. Between construction and
`start()` the handler's `stop()` finds a server that is not running (`StopUnstarted`),
`start()` then runs all the same, and its workers are left to the destructor. After
`start()` the handler's `stop()` is the one that joins them. `start()` and the creation
of the io threads are one step.

### ConnectionServer

`conn[c]` is the operation a connection has under way. A read completes with data,
with data that are refused, or, once the client is gone, with an error.
`Accept`/`Count`/`AcceptAgain` are the three moments of `handle_accept` that other
threads can tell apart. Two `handle_accept`s never run at once, since
`start_accept` is its last call.

### ClientSession

`up` and `down` are the bytes on their way in each direction. A call is `Send` and then
`receive_message` or `ReceiveFails`; the server's end reads a frame and either answers
it (`Answer`) or drops the connection (`Reject`). What the database says is any of
`Found`, `Pairs`, success or error, and `served` remembers it. `write_response` passes
`async_write` buffers on its own stack (server.cpp:212), so bytes beyond the first
transfer are any `Junk`. The text of a scan is written and taken apart character by
character, since a quote in a key or value ends it early: a character is a byte, and the
two tags `{"key":"` and `"value":"` are one each. `Text` is the texts in which neither
tag occurs: a value that holds one is read as the beginning of another pair, and
`AnswersMatch` promises nothing about the pairs of such a scan. In the code a tag is
several characters, and a text that ends inside one can complete it with the quote
behind it; such a text counts as one that holds the tag. A scan with limit 0 returns one
pair, since the client looks at its limit after it has added a pair (client.cpp:120).
`oversized` is set by a response above `MAX_MESSAGE_SIZE`, whose body stays in the
stream (client.cpp:174); from then until the next `connect` nothing is promised.

## 3. Runs

| Run | Result | Question |
|---|---|---|
| `LogFile` | holds | Wherever a write is cut, does the reader return all before the cut, and never make a record of the torn one? |
| `DBFaults` | holds | Does the log keep what it accepted, and lose nothing, whatever fails and whatever the clock says? Does `data_` ever show a value the log did not accept last? Does a COMMIT ever vouch for nothing? |
| `DBDurable` | holds | As long as all records are short and in one file, is memory what the log says, and is the engine a linearizable map (`KVStore`) that survives a crash at any point, although it changes `data_` before the log? |
| `Request` | holds | Is a client ever told what the log did not accept? Is every request answered, and does every call return, on a disk that fails? |
| `RequestCrash` | holds | With writes that fail, are torn or are too long to be read, and restarts on the same file or another: does a write that was flushed to a readable place stay readable, and does each process that opens its file have it? |
| `Conn` | holds | Is the connection count exact, the limit kept, each slot given back? Is each client accepted or turned away in the end, whatever the accept loop went through? |
| `Session` | holds | Does a call ever return the answer to another one? Does each call end, whatever is refused or breaks? |
| `Program` | holds | Is no wake-up for a task lost, each task answered once, and in the end? Does a `stop()` that returns lead to an exit with all workers gone? |
| `DBLostOnRestart` | violated | "data durability and crash recovery" (README:82): a restart reads a new, empty file. |
| `DBFailedPut` | violated | "Rollback on WAL failure" (persistent_database.cpp:41): the undo of a refused `put` erases the older value. |
| `DBRestore` | violated | "Recover from checkpoint and WAL" (wal.h:59): `restore` waits for itself. |
| `ProgramStop` | violated | "Graceful shutdown" (README:89): the `stop` in the handler of a started server may wait for ever for a worker that missed its wake-up. |

What the runs that hold leave open matters as much as what they show. `RequestCrash`
counts a write as durable when it reached a *readable place of the file*. A client is told
OK also when the flush failed, and that write may be gone (`AcceptedOnDiskOrPending` says
how much that can cost, namely one record); when the write went behind a torn or an
oversized record of a file that was there, after a restart in the same millisecond; and
when its own record is above 1 MB. And a restart finds a write only if it opens its file,
which `DBLostOnRestart` shows that it does not. `Session` excludes connections that
carried a response above 1 MB, values beyond the first transfer, what follows a quote, and
scans of texts that hold a tag. `Program` follows a handler whose `stop` returned;
`ProgramStop` shows that it need not.

More disagreements between words and code were met and need no run to be seen.

- `append_record` answers true when its flush failed ("Flush to disk for durability",
  wal.cpp:129).
- A record above 1 MB is written and ends the replay of everything after it
  (wal.cpp:161); setting `BigValues = {v1}` in `DBDurable.cfg` shows it.
- `truncate_log` removes no record and no file ("Truncate log (remove old records)",
  wal.h:65); it goes on in another one, and that much `FilesOnlyGrow` promises. Since
  nobody replays the old file, only its being there keeps the data.
- `compact` answers SUCCESS when no file could be opened to go on in
  (persistent_database.cpp:193). Every write is refused from then on.
- A refused write clears `has_writes_`, so that `commit` answers SUCCESS and skips the
  record of an earlier, accepted write of the same transaction ("Log commit record (only
  if we had write operations)", "For read-only transactions, skip WAL commit",
  persistent_database.cpp:99-100). The server makes one write per transaction and does
  not meet it, and nobody reads a COMMIT back. `CommitFollowsWrite` is the other
  direction: no COMMIT without a write.
- Transactions are neither atomic nor isolated ("ACID transactions with commit/rollback
  support", README:81; "Atomic, Consistent, Isolated, Durable operations", demo.sh:64).
  `rollback` prints a line (persistent_database.cpp:114). Every write is in `data_`, for
  everybody, when its call returns, and replayed after a restart, COMMIT or not. What
  callers do get is stated by `KVStore`: one map, on which each single call takes
  effect at once.
- A signal on main before the `io_context` exists is swallowed, and the program goes on to
  serve ("Graceful shutdown with signal handling", README:89; server_main.cpp:16-24).
- Tasks that are queued when `stop()` is called are not answered; nothing says that they
  should be.

### Bounds, and why they are enough

- *Two threads.* Every conflict in the engine is between the two halves of one
  thread's write and one step of another: a third thread only adds steps of the
  same kind. Thread names are interchangeable; symmetry is used in safety runs only.
- *One or two keys, two values.* A write can disturb its own key or another one;
  `DBDurable`, which is about whole maps, has two. Of two values one is the empty
  string and one is not.
- *Two stamps* let a compaction or a restart get a new name, or find its own taken.
  `DBDurable` and `Request` have one: every open finds the file that is there, which
  is the case in which recovery can work at all.
- *`MaxTears` 2*, in `RequestCrash`: one torn record in front of others, and one more
  behind it, at the same place or later. `RequestCrash` has one thread, since what
  threads do to each other before the append is the matter of `Request`; its second
  value is one that is too long to be read back. A garbled replay stops at `MaxLog`.
- *`MaxLog` 2 or 3 records.* Enough for write, overwrite or delete, and commit, and for an
  open on a file that is not empty followed by an accepted and a refused record.
  `RequestsAnswered` lets a thread off when the bound (`~Room`) is what stops it.
- *`Calls`* names the optional calls a run makes; the runs that hold cover all of
  them between them. `CommitFollowsWrite` is about one process, so `DBFaults` does
  not crash.
- *`LogFile`: bytes below 4, three writes* of records on both sides of the limit, one
  of exactly the limit. A cut before, inside and after each field; two records behind a cut.
- *`Session`: bytes below 16, limits of 28, three calls.* Requests over each limit and
  responses below, at and above both `TransferSize` and `MAX_MESSAGE_SIZE`. Characters
  are at least 2, so that text read as a length exceeds the limit, as ASCII does.
  The third call is the one that could see what the second left behind.
- *`Program`: two io threads, one signal* on main, an io thread or a worker: the
  others of each kind are alike.
- *Three workers, two tasks; three clients, two slots.* More workers than tasks, so
  some stay asleep; more clients than slots, so some are turned away while others leave.
  `MaxUnread = 1`: a client has at most one header or body under way, and may hang up
  before or after it is read.

`MaxTxns` and `Room` only stop the environment from asking for more.

### Fairness

- `PersistentDatabase!FairSpec`: a thread inside a call goes on (`WF` of `Finish`).
  No thread has to begin a call, and the locks are not assumed fair. The code
  blocks nowhere but on locks.
- `RequestHandler!FairHandlerSpec`: `SF` of each thread's steps on its request. A
  writer waits for `mutex_` while others come and go, and with two threads it gets
  it: the other one has to let go between two reads. With more threads readers could
  overlap for ever, and `std::shared_mutex` does not promise that a writer gets in; there
  the assumption is one about the load. Nobody has to send a request.
- `WorkerPool!FairSpec`: weak fairness of each worker's own steps, of `notify_one`
  after a push, and of a `stop` that has begun. Spurious wake-ups are possible and
  never assumed, nor is a fair mutex.
- `ServerProgram!FairProgramSpec`: weak fairness of main, the handler, the io threads
  and each worker. No signal has to come.
- `ClientSession!FairSpec`: both ends go on (`WF` of `Progress`). The network need
  not break and nobody has to call.
- `ConnectionServer!FairSpec`: the io threads run ready handlers (`WF`), the accept
  loop's among them, on which `BacklogServed` rests; a
  connection in the backlog is accepted in the end (`SF`: the kernel keeps the
  backlog in order, and accept does not fail for ever). A client need never send; a
  write to one that is still there need never end, since it may not be reading.

Deadlock is not checked where callers may stop calling; the liveness properties
say what must not get stuck.

## 4. Proofs

The theorems hold for every set of threads, keys, values, stamps, workers, tasks,
clients and for every limit; files and logs may be of any length. Where nothing else is
said they hold for every `Faults` and every `Calls`. They rest on the named assumptions
of the modules (`ConstantsAssumption`, `EngineAssumption`, `PoolAssumption`,
`ProgramAssumption`, `ServerAssumption`, `ByteAssumption`, `RecordAssumption`,
`LimitsAssumption`, `TransferAssumption`, `DataAssumption`), which TLC evaluates.
`TransferAssumption` has that the first transfer of a write is long enough for the
header of a response (it is 64 KB, the header 17 bytes). `ProgramAssumption` has that
there is an io thread: with none `start()` would serve nobody, and main would have
nothing to wait for.

`PersistentDatabase_proofs`, about the log: `WALTypeCorrect`, `AcceptedRecordsKept`,
`LogOnlyGrows`.
The inductive invariant `WALInv` adds to `AcceptedOnDiskOrPending` that an open
log has a name; the clause "something pending means a bad stream and one record"
is what makes it inductive, since only a bad stream refuses the records that
would otherwise overtake the one in the buffer.

About the engine: `TypeCorrect`, `NoPhantomDataEver`, `EngineKeepsLog`.
`DBInv` adds to `NoPhantomData`: `LockDiscipline` (a thread between the halves of
a write is the writer), `InFlightInv` (what it has in hand is a legal record, what
`data_` holds at its key is what it is about to log, and the value a `del` would
put back is the last one logged), `QuietInv` (no thread is served while the
process is down or recovering) and `PhaseInv` (the process is down exactly when
there is no log object). `NoPhantomData` by itself is not inductive: the
undo of a `del` puts back a value that only `InFlightInv` knows to be logged.
`EngineKeepsLog` shows that each engine step is a step of `WriteAheadLog` or
leaves it alone, so that the log's theorems hold inside the engine.

`Durability_proofs` is about what the code keeps only under conditions. The
conditions are hypotheses of the theorems; the runs in the last column show what
happens without them.

| Theorem | States | Holds when | Otherwise |
|---|---|---|---|
| `CommitsFollowWrites` | `CommitFollowsWrite` | the process does not crash, or it neither compacts nor has a write torn: a file that a compaction left may begin with a COMMIT, and a restart may find it; bytes behind a torn record may be read as one | - |
| `DataFollowsLog` | `DataIsLog` | no operation on the disk fails | `DBFailedPut` |
| `CompactionKeepsDirectory` | `RecoversLogDirectory` | nothing fails, no crash, and the clock does not step back: then compactions may make any number of files | `DBLostOnRestart` |
| `EngineImplementsKVStore` | `ImplementsKVStore` | nothing fails, no record is above 1 MB (`SoundDisk`), and there is one log file (`OneLogFile`: all stamps are equal, or the process neither crashes nor compacts) | `DBLostOnRestart` |

`CommitInv` carries which transactions are vouched for by a logged write. `GoodInv` is
that the stream of an open log is good. `FileInv` relates `logged` to the open file
while records are replayed, `DirectoryInv` to all files. The refinement maps every
engine step: the second half of a `put` or `del`, its append, is the abstract write; a
crash between the halves loses a call that had not happened; a replayed record is a
stutter, because `StoredMap` already reads the file. It needs the map that a log stands
for, which is a `CHOOSE`; that there is a last write of each key to choose is
`LastWriteExists`, by the least-number principle (`LeastNumber`). That lemma, about a
set instead of a predicate, stands in for induction wherever it is needed.

`RequestHandler_proofs`: `ServerKeepsEngine` (every behaviour of the handler is one of the
engine, so that all of the above holds behind the server), `AnswersAreBacked`,
`FlushedWritesAreKept`. `HandlerInv` says, for each stage of a request, what its
transaction has logged so far; `AnswersBackedByLog` alone says it only of the last one.
`FlushedWritesAreKept` has no hypothesis: it holds for every fault, torn records and
records above 1 MB included, any number of files and any clock. `SurvivalInv` adds to
it that up to the place it has read, or once it is up, a process knows every readable
record of its file (`KnownTo`), and that a flushed write is at a readable place
(`InFile`). That needs that tears come only at the end of a file (`TearsStep`) and that
files only grow (`PrefixStep`): so a readable place stays readable, and recovery,
garbled or not, passes it before it meets the first tear.

`ServerProgram_proofs`, about the pool: `TypeCorrect`, `NoLostSubmission`, `AnsweredOnce`.
`QueuedTaskHasWaker` needs `BlockInv`: a worker about to sleep found the queue empty, and
`HolderInv`: it still holds the mutex, so that no push can fall between its test and its
sleep. (`StopClear` can: that is `ProgramStop`.) `AnsweredAtMostOnce` needs that a
task is in one place: not yet submitted, once in the queue, in the hands of one worker, or
answered.

About the program: `PoolInsideProgram`, `ExitIsOrderly`. Every step of the
program is a step of the pool or leaves it alone, so the pool's theorems hold inside it.
`ProgramInv` says how far the handler's `stop()` has come at each point of the handler and
of main, for each place where the signal may have found main, and which workers have been
joined by then. main passes its joins only when the handler is done: until the guard is
reset every io thread is in `run()`, and after that the handler still sits on main or
on one of them.

`ConnectionServer_proofs`: `TypeCorrect`, `CountStaysExact`, `LimitHolds`. `WithinLimit`
needs `CountingInv`: between test and increment there is still room, because others can
only make the count smaller. The type of `connection_count_` is the claim that it never
wraps below zero, and follows from its being exact.

`ByteFormat_proofs` has what both byte formats need. The loops of the code are recursive
functions, of which nothing is known until some function is shown to satisfy their
equation: `LoopExists` builds one from the end of the input downwards, for any loop that
moves forward. `Holds(s, p, t)` says that `t` lies in `s` behind offset `p`;
`LayoutHolds` takes a type, a number, a key and a value through the layout that log
records and messages have in common, field by field, with words split by `%` and `\div` for
any `Base`. `Downwards` stands in for induction from the end of a sequence.

`LogFile_proofs`: `RoundTrip`, `WholeRecordsAreRead`, `NothingIsInvented`. `LoopUnfolds`
concludes that the equation of `read_all_records` holds. `FileInv` says that there are
offsets at which the whole records lie one behind the other, and that behind the last
one there is nothing, one torn record, or (`after`) anything. `ReadsOn` then walks along
the offsets.

`ClientSession_proofs`: `MessageRoundTrip`, `ScanIsRead`, `AnswersAreTheCalls`.
`ScanIsRead` is about the client's loop and the server's on texts of any length: behind
any text in which no pair begins, the client reads the pairs whose text follows
(`ReadBehind`), which is shown from the last pair to the first; `RoundReads` is one
round of the loop. `AnswersMatch` is not inductive, because it only speaks of calls that
have ended. `SessionInv` says, as long as no response above the limit was sent, that
between calls both streams are empty, and that during a call there is its request in
`up`, or in `down` some part of what the server sent for it and no other byte
(`Replied`), or nothing on a connection that is gone. So each frame that the server
takes is the request of the call under way, each frame that the client takes is the
response to it, and the call takes all of it. That the client compares no id does no
harm: a call leaves nothing in the stream for the next one. The only way to break this
is a length above `MAX_MESSAGE_SIZE`, where `receive_message` throws in front of the
body.

Checked by TLC only: everything about liveness (`CallsReturn`, `RequestsAnswered`,
`TasksAnswered`, `BacklogServed`, `SlotsReclaimed`, `CallsEnd`, `StoppedServerExits`), which
is outside what the provers do. Every invariant that a passing run checks has its theorem.

## 5. What is not modelled

- What is read behind a torn record, and what a client reads after a response above
  1 MB: both happen in the models and neither is promised anything.
- A COMMIT's own promise: no reader of the log looks at one, so that a transaction of
  several writes is replayed as far as it was written.
- The timestamp of log records, which nobody reads back.
- Power loss: bytes handed to the file system are taken to stay. (`flush` is not
  `fsync`.)
- Exhausted memory, a second `initialize` on one object (no program does it).
- A second signal: two joins of one thread are undefined, with no outcome to choose
  from. A signal inside `start()`, and one on a thread inside `malloc` or a stream (the
  handler prints): the same.
- `ConnectionHandler::stop` and `DatabaseServer::process_request` without a database:
  nobody calls the first, and the program always hands the server its database.
- Interactive client, demo and benchmark: text and timing over interfaces that are
  modelled elsewhere. B-tree, TransactionManager and locks: headers only.

## 6. Plan

Order: what loses data first, then what blocks, then what answers wrongly.

1. Done: `WriteAheadLog`, `KVStore`, `PersistentDatabase`, `WorkerPool`,
   `ConnectionServer`, their runs and first theorems.
2. Done: `RequestHandler`, `ClientSession`, `LogFile`, `ServerProgram`, and crashes in
   `KVStore` and its refinement.
3. Done: proofs of every safety property that a passing run checks, of the refinement of
   `KVStore`, and of both byte formats.

The hazards without a property are those to which the code promises nothing: transactions
of several calls, a signal before the server exists, tasks still queued when it is
stopped, and a second signal. Each has its reason beside it in `PROJECT.json`. Should the
client come to check ids, or the server to escape quotes, `AnswersMatch` can promise what
it now leaves out.

## 7. Running

    tlc -config DBFaults.cfg MCPersistentDatabase
    tlapm PersistentDatabase_proofs.tla

`PROJECT.json` gives the module of each run. Each run takes at most about three minutes on
two workers, each proof module about one at most; `Durability_proofs` is the longest.
