------------------------------ MODULE WorkerPool ------------------------------
(***************************************************************************)
(* The request queue of DatabaseServer (network/server.cpp): the worker    *)
(* threads that start() creates, process_request_async, and stop().        *)
(*                                                                         *)
(* A worker waits on queue_condition_ with the test                        *)
(*     !request_queue_.empty() || !running_                                *)
(* made under queue_mutex_.  The test and the wait that follows it are two *)
(* steps: the mutex keeps submitters out from between them, but not stop(),*)
(* which clears running_ and notifies without taking it.  Wake-ups may be  *)
(* spurious, as the standard allows.                                       *)
(*                                                                         *)
(* Each task stands for one call of process_request_async by a thread of   *)
(* its own.  (No code in the repository makes that call yet: connections   *)
(* answer their requests themselves.  The program runs with Tasks = {}.)   *)
(***************************************************************************)
EXTENDS Naturals, Sequences, FiniteSets

CONSTANTS
    Workers,  \* worker_threads_
    NoWorker,
    Tasks,    \* the calls of process_request_async
    NoTask

ASSUME PoolAssumption ==
    /\ Workers # {}
    /\ NoWorker \notin Workers
    /\ NoTask \notin Tasks

VARIABLES
    running,  \* running_
    queue,    \* request_queue_
    holder,   \* the worker that holds queue_mutex_
    pc,       \* where each worker is in worker_thread_function
    hand,     \* the task a worker has taken
    call,     \* each call of process_request_async: "new", "pushed" (notify_one
              \* is still to come) or "returned"
    answers,  \* how often each task's callback was called
    total_requests, \* total_requests_
    stopper   \* stop(): "off", "cleared", "joining" or "stopped"

vars == <<running, queue, holder, pc, hand, call, answers, total_requests, stopper>>

\* After start().
Init ==
    /\ running = TRUE
    /\ queue = << >>
    /\ holder = NoWorker
    /\ pc = [w \in Workers |-> "top"]
    /\ hand = [w \in Workers |-> NoTask]
    /\ call = [r \in Tasks |-> "new"]
    /\ answers = [r \in Tasks |-> 0]
    /\ total_requests = 0
    /\ stopper = "off"

-----------------------------------------------------------------------------
(* worker_thread_function.                                                 *)

Go(w, to) == pc' = [pc EXCEPT ![w] = to]

\* while (running_)
Top(w) ==
    /\ pc[w] = "top"
    /\ Go(w, IF running THEN "lock" ELSE "exit")
    /\ UNCHANGED <<running, queue, holder, hand, call, answers, total_requests, stopper>>

\* The lock before wait, and the one wait takes again when it wakes up.
Lock(w) ==
    /\ pc[w] = "lock"
    /\ holder = NoWorker
    /\ holder' = w
    /\ Go(w, "test")
    /\ UNCHANGED <<running, queue, hand, call, answers, total_requests, stopper>>

\* Mutant of Test: the predicate looks at running_ only.
TestRunningOnly(w) ==
    /\ pc[w] = "test"
    /\ Go(w, IF ~running THEN "take" ELSE "block")
    /\ UNCHANGED <<running, queue, holder, hand, call, answers, total_requests, stopper>>

\* The predicate of wait.
Test(w) ==
    /\ pc[w] = "test"
    /\ Go(w, IF queue # << >> \/ ~running THEN "take" ELSE "block")
    /\ UNCHANGED <<running, queue, holder, hand, call, answers, total_requests, stopper>>

\* wait gives up the mutex and goes to sleep, in one step.
Block(w) ==
    /\ pc[w] = "block"
    /\ holder' = NoWorker
    /\ Go(w, "asleep")
    /\ UNCHANGED <<running, queue, hand, call, answers, total_requests, stopper>>

Spurious(w) ==
    /\ pc[w] = "asleep"
    /\ Go(w, "lock")
    /\ UNCHANGED <<running, queue, holder, hand, call, answers, total_requests, stopper>>

\* Mutant of Take: the task is copied and not popped.
TakeWithoutPop(w) ==
    /\ pc[w] = "take"
    /\ holder' = NoWorker
    /\ \/ /\ queue = << >>
          /\ Go(w, IF running THEN "top" ELSE "exit")
          /\ UNCHANGED hand
       \/ /\ queue # << >>
          /\ hand' = [hand EXCEPT ![w] = Head(queue)]
          /\ Go(w, "work")
    /\ UNCHANGED <<running, queue, call, answers, total_requests, stopper>>

\* What follows wait, up to the unlock.
Take(w) ==
    /\ pc[w] = "take"
    /\ holder' = NoWorker
    /\ \/ /\ queue = << >>
          /\ Go(w, IF running THEN "top" ELSE "exit")
          /\ UNCHANGED <<queue, hand>>
       \/ /\ queue # << >>
          /\ hand' = [hand EXCEPT ![w] = Head(queue)]
          /\ queue' = Tail(queue)
          /\ Go(w, "work")
    /\ UNCHANGED <<running, call, answers, total_requests, stopper>>

\* process_request, and the callback with its result.
Work(w) ==
    /\ pc[w] = "work"
    /\ answers' = [answers EXCEPT ![hand[w]] = @ + 1]
    /\ total_requests' = total_requests + 1
    /\ hand' = [hand EXCEPT ![w] = NoTask]
    /\ Go(w, "top")
    /\ UNCHANGED <<running, queue, holder, call, stopper>>

-----------------------------------------------------------------------------
(* process_request_async: the push under the mutex, then notify_one.       *)

\* Mutant of Push: the task is pushed after it was moved from.
PushMovedFrom(r) ==
    /\ call[r] = "new"
    /\ holder = NoWorker
    /\ queue' = Append(queue, NoTask)
    /\ call' = [call EXCEPT ![r] = "pushed"]
    /\ UNCHANGED <<running, holder, pc, hand, answers, total_requests, stopper>>

Push(r) ==
    /\ call[r] = "new"
    /\ holder = NoWorker
    /\ queue' = Append(queue, r)
    /\ call' = [call EXCEPT ![r] = "pushed"]
    /\ UNCHANGED <<running, holder, pc, hand, answers, total_requests, stopper>>

Asleep == {w \in Workers : pc[w] = "asleep"}

\* Mutant of NotifyOne: nobody is notified.
NotifyNobody(r) ==
    /\ call[r] = "pushed"
    /\ call' = [call EXCEPT ![r] = "returned"]
    /\ UNCHANGED <<running, queue, holder, pc, hand, answers, total_requests, stopper>>

NotifyOne(r) ==
    /\ call[r] = "pushed"
    /\ \/ Asleep = {} /\ UNCHANGED pc
       \/ \E w \in Asleep : Go(w, "lock")
    /\ call' = [call EXCEPT ![r] = "returned"]
    /\ UNCHANGED <<running, queue, holder, hand, answers, total_requests, stopper>>

-----------------------------------------------------------------------------
(* stop().                                                                 *)

\* running_ = false; the acceptor is closed.
StopClear ==
    /\ stopper = "off"
    /\ running' = FALSE
    /\ stopper' = "cleared"
    /\ UNCHANGED <<queue, holder, pc, hand, call, answers, total_requests>>

StopNotifyAll ==
    /\ stopper = "cleared"
    /\ pc' = [w \in Workers |-> IF pc[w] = "asleep" THEN "lock" ELSE pc[w]]
    /\ stopper' = "joining"
    /\ UNCHANGED <<running, queue, holder, hand, call, answers, total_requests>>

StopJoin ==
    /\ stopper = "joining"
    /\ \A w \in Workers : pc[w] = "exit"
    /\ stopper' = "stopped"
    /\ UNCHANGED <<running, queue, holder, pc, hand, call, answers, total_requests>>

-----------------------------------------------------------------------------
Step(w) == Top(w) \/ Lock(w) \/ Test(w) \/ Block(w) \/ Take(w) \/ Work(w)

Stop == StopClear \/ StopNotifyAll \/ StopJoin

Next ==
    \/ \E w \in Workers : Step(w) \/ Spurious(w)
    \/ \E r \in Tasks : Push(r) \/ NotifyOne(r)
    \/ Stop

Spec == Init /\ [][Next]_vars

\* Threads that can run do.  Nobody has to call stop(), no wake-up has to be
\* spurious, and queue_mutex_ need not be fair.
FairSpec ==
    /\ Spec
    /\ \A w \in Workers : WF_vars(Step(w))
    /\ \A r \in Tasks : WF_vars(NotifyOne(r))
    /\ WF_vars(StopNotifyAll \/ StopJoin)

-----------------------------------------------------------------------------
(* Properties.                                                             *)

TypeOK ==
    /\ running \in BOOLEAN
    /\ queue \in Seq(Tasks)
    /\ holder \in Workers \cup {NoWorker}
    /\ pc \in [Workers -> {"top", "lock", "test", "block", "asleep", "take", "work", "exit"}]
    /\ hand \in [Workers -> Tasks \cup {NoTask}]
    /\ call \in [Tasks -> {"new", "pushed", "returned"}]
    /\ answers \in [Tasks -> Nat]
    /\ total_requests \in Nat
    /\ stopper \in {"off", "cleared", "joining", "stopped"}

\* No submission is lost to a sleeping pool: while the server runs and a task
\* is queued, a worker is awake or a notify_one is still to come.  (A worker
\* goes to sleep only on an empty queue, and keeps submitters out until it
\* sleeps.)
QueuedTaskHasWaker ==
    running /\ queue # << >> =>
        \/ \E w \in Workers : pc[w] # "asleep"
        \/ \E r \in Tasks : call[r] = "pushed"

\* A task is queued at most once, taken by at most one worker and answered at
\* most once, and is never in two of these places; until stop() it is in one
\* of them from its push on.
AnsweredAtMostOnce ==
    \A r \in Tasks :
        LET places == Cardinality({i \in DOMAIN queue : queue[i] = r})
                        + Cardinality({w \in Workers : hand[w] = r}) + answers[r]
        IN  places = IF call[r] = "new" THEN 0 ELSE 1

\* Every task submitted to a server that keeps running is answered.
TasksAnswered ==
    \A r \in Tasks : call[r] # "new" ~> (answers[r] = 1 \/ ~running)
=============================================================================
