------------------------- MODULE ServerProgram_proofs -------------------------
(***************************************************************************)
(* Proofs about ServerProgram, for any number of workers, submissions and  *)
(* io threads, and a signal on any thread.                                 *)
(***************************************************************************)
EXTENDS ServerProgram, SequenceTheorems, FiniteSetTheorems, TLAPS

USE PoolAssumption

-----------------------------------------------------------------------------
(***************************************************************************)
(* The pool of workers, which the program runs.                            *)
(***************************************************************************)

(* The strengthening that makes QueuedTaskHasWaker inductive.              *)

\* queue_mutex_ is held from the lock of a worker to its wait or its unlock.
HolderInv == \A w \in Workers : pc[w] \in {"test", "block", "take"} <=> holder = w

\* A worker that has found the queue empty still finds it empty when it goes
\* to sleep.
BlockInv == \A w \in Workers : pc[w] = "block" => queue = << >>

WorkInv == \A w \in Workers : pc[w] = "work" => hand[w] \in Tasks

ExitInv == \A w \in Workers : pc[w] = "exit" => ~running

IInv == TypeOK /\ HolderInv /\ BlockInv /\ WorkInv /\ ExitInv /\ QueuedTaskHasWaker

-----------------------------------------------------------------------------
\* Each action keeps the type invariant.
LEMMA TypeStep == TypeOK /\ WorkInv /\ [Next]_vars => TypeOK'
<1> SUFFICES ASSUME TypeOK, WorkInv, [Next]_vars PROVE TypeOK'
  OBVIOUS
<1> USE DEF TypeOK, Go
<1>1. ASSUME NEW w \in Workers, Top(w) PROVE TypeOK'
  BY <1>1 DEF Top
<1>2. ASSUME NEW w \in Workers, Lock(w) PROVE TypeOK'
  BY <1>2 DEF Lock
<1>3. ASSUME NEW w \in Workers, Test(w) PROVE TypeOK'
  BY <1>3 DEF Test
<1>4. ASSUME NEW w \in Workers, Block(w) PROVE TypeOK'
  BY <1>4 DEF Block
<1>5. ASSUME NEW w \in Workers, Take(w) PROVE TypeOK'
  <2>1. CASE queue = << >>
    BY <1>5, <2>1 DEF Take
  <2>2. CASE queue # << >>
    <3>1. Head(queue) \in Tasks /\ Tail(queue) \in Seq(Tasks)
      BY <2>2, HeadTailProperties
    <3> QED
      BY <1>5, <2>2, <3>1 DEF Take
  <2> QED
    BY <2>1, <2>2
<1>6. ASSUME NEW w \in Workers, Work(w) PROVE TypeOK'
  BY <1>6 DEF Work, WorkInv
<1>7. ASSUME NEW w \in Workers, Spurious(w) PROVE TypeOK'
  BY <1>7 DEF Spurious
<1>8. ASSUME NEW r \in Tasks, Push(r) PROVE TypeOK'
  BY <1>8 DEF Push
<1>9. ASSUME NEW r \in Tasks, NotifyOne(r) PROVE TypeOK'
  BY <1>9 DEF NotifyOne, Asleep
<1>10. CASE Stop
  BY <1>10 DEF Stop, StopClear, StopNotifyAll, StopJoin
<1>11. CASE UNCHANGED vars
  BY <1>11 DEF vars
<1> QED
  BY <1>1, <1>2, <1>3, <1>4, <1>5, <1>6, <1>7, <1>8, <1>9, <1>10, <1>11 DEF Next, Step

\* The facts about single workers that hold the argument together.
LEMMA WorkerFacts ==
    TypeOK /\ HolderInv /\ BlockInv /\ WorkInv /\ ExitInv /\ [Next]_vars
        => HolderInv' /\ BlockInv' /\ WorkInv' /\ ExitInv'
<1> SUFFICES ASSUME TypeOK, HolderInv, BlockInv, WorkInv, ExitInv, [Next]_vars
             PROVE  HolderInv' /\ BlockInv' /\ WorkInv' /\ ExitInv'
  OBVIOUS
<1> USE DEF TypeOK, HolderInv, BlockInv, WorkInv, ExitInv, Go
<1>1. ASSUME NEW w \in Workers, Top(w)
      PROVE  HolderInv' /\ BlockInv' /\ WorkInv' /\ ExitInv'
  BY <1>1 DEF Top
<1>2. ASSUME NEW w \in Workers, Lock(w)
      PROVE  HolderInv' /\ BlockInv' /\ WorkInv' /\ ExitInv'
  BY <1>2 DEF Lock
<1>3. ASSUME NEW w \in Workers, Test(w)
      PROVE  HolderInv' /\ BlockInv' /\ WorkInv' /\ ExitInv'
  BY <1>3 DEF Test
<1>4. ASSUME NEW w \in Workers, Block(w)
      PROVE  HolderInv' /\ BlockInv' /\ WorkInv' /\ ExitInv'
  BY <1>4 DEF Block
<1>5. ASSUME NEW w \in Workers, Take(w)
      PROVE  HolderInv' /\ BlockInv' /\ WorkInv' /\ ExitInv'
  <2>1. CASE queue = << >>
    BY <1>5, <2>1 DEF Take
  <2>2. CASE queue # << >>
    <3>1. Head(queue) \in Tasks
      BY <2>2, HeadTailProperties
    <3>2. \A v \in Workers : pc[v] # "block"
      BY <2>2
    <3> QED
      BY <1>5, <2>2, <3>1, <3>2 DEF Take
  <2> QED
    BY <2>1, <2>2
<1>6. ASSUME NEW w \in Workers, Work(w)
      PROVE  HolderInv' /\ BlockInv' /\ WorkInv' /\ ExitInv'
  BY <1>6 DEF Work
<1>7. ASSUME NEW w \in Workers, Spurious(w)
      PROVE  HolderInv' /\ BlockInv' /\ WorkInv' /\ ExitInv'
  BY <1>7 DEF Spurious
<1>8. ASSUME NEW r \in Tasks, Push(r)
      PROVE  HolderInv' /\ BlockInv' /\ WorkInv' /\ ExitInv'
  BY <1>8 DEF Push
<1>9. ASSUME NEW r \in Tasks, NotifyOne(r)
      PROVE  HolderInv' /\ BlockInv' /\ WorkInv' /\ ExitInv'
  BY <1>9 DEF NotifyOne, Asleep
<1>10. CASE Stop
  BY <1>10 DEF Stop, StopClear, StopNotifyAll, StopJoin
<1>11. CASE UNCHANGED vars
  BY <1>11 DEF vars
<1> QED
  BY <1>1, <1>2, <1>3, <1>4, <1>5, <1>6, <1>7, <1>8, <1>9, <1>10, <1>11 DEF Next, Step

\* Only Block and NotifyOne can take away the last witness: Block finds the
\* queue empty, and a NotifyOne that wakes nobody finds everybody awake.
LEMMA WakerStep == IInv /\ [Next]_vars => QueuedTaskHasWaker'
<1> SUFFICES ASSUME IInv, [Next]_vars, running', queue' # << >>
             PROVE  \/ \E w \in Workers : pc'[w] # "asleep"
                    \/ \E r \in Tasks : call'[r] = "pushed"
  BY DEF QueuedTaskHasWaker
<1> USE DEF IInv, TypeOK, Go
<1>1. ASSUME NEW w \in Workers, Top(w) \/ Lock(w) \/ Test(w) \/ Take(w) \/ Work(w) \/ Spurious(w)
      PROVE  pc'[w] # "asleep"
  BY <1>1 DEF Top, Lock, Test, Take, Work, Spurious
<1>2. ASSUME NEW w \in Workers, Block(w) PROVE FALSE
  BY <1>2 DEF Block, BlockInv
<1>3. ASSUME NEW r \in Tasks, Push(r) PROVE call'[r] = "pushed"
  BY <1>3 DEF Push
<1>4. ASSUME NEW r \in Tasks, NotifyOne(r) PROVE \E w \in Workers : pc'[w] # "asleep"
  BY <1>4 DEF NotifyOne, Asleep
<1>5. CASE Stop
  BY <1>5 DEF Stop, StopClear, StopNotifyAll, StopJoin, QueuedTaskHasWaker
<1>6. CASE UNCHANGED vars
  BY <1>6 DEF vars, QueuedTaskHasWaker
<1> QED
  BY <1>1, <1>2, <1>3, <1>4, <1>5, <1>6 DEF Next, Step

-----------------------------------------------------------------------------
LEMMA InductiveInvariant == Spec => []IInv
<1>1. Init => IInv
  BY DEF Init, IInv, TypeOK, HolderInv, BlockInv, WorkInv, ExitInv, QueuedTaskHasWaker
<1>2. IInv /\ [Next]_vars => IInv'
  BY TypeStep, WorkerFacts, WakerStep DEF IInv
<1> QED
  BY <1>1, <1>2, PTL DEF Spec

\* The state of the request queue and of its workers is well typed.
THEOREM TypeCorrect == Spec => []TypeOK
<1>1. IInv => TypeOK
  BY DEF IInv
<1> QED
  BY <1>1, InductiveInvariant, PTL

\* process_request_async never leaves a task to a pool that is fast asleep,
\* whatever the number of workers and of concurrent submissions.
THEOREM NoLostSubmission == Spec => []QueuedTaskHasWaker
<1>1. IInv => QueuedTaskHasWaker
  BY DEF IInv
<1> QED
  BY <1>1, InductiveInvariant, PTL

-----------------------------------------------------------------------------
(* Where a task is.                                                        *)

Queued(r) == \E i \in 1 .. Len(queue) : queue[i] = r

InHand(r) == \E w \in Workers : hand[w] = r

\* A task that was submitted is in exactly one place: once in the queue, in one
\* worker's hand, or answered.  A worker that is not at work has none in hand.
PlaceInv ==
    /\ \A i, j \in 1 .. Len(queue) : queue[i] = queue[j] => i = j
    /\ \A v, w \in Workers : hand[v] \in Tasks /\ hand[v] = hand[w] => v = w
    /\ \A w \in Workers : hand[w] \in Tasks => pc[w] = "work"
    /\ \A r \in Tasks :
          /\ Queued(r) => ~InHand(r)
          /\ Queued(r) \/ InHand(r) => answers[r] = 0
          /\ IF call[r] = "new"
             THEN ~Queued(r) /\ ~InHand(r) /\ answers[r] = 0
             ELSE Queued(r) \/ InHand(r) \/ answers[r] = 1

\* A push puts its task, which was nowhere before, behind the others.
LEMMA PushPlace ==
    ASSUME TypeOK, PlaceInv, NEW r \in Tasks, Push(r)
    PROVE  PlaceInv'
<1> USE DEF TypeOK, Push
<1>1. /\ Len(queue) \in Nat /\ Len(queue') = Len(queue) + 1
      /\ queue'[Len(queue) + 1] = r
      /\ \A i \in 1 .. Len(queue) : queue'[i] = queue[i]
  OBVIOUS
<1>2. ~Queued(r) /\ ~InHand(r) /\ answers[r] = 0
  BY DEF PlaceInv
<1>3. \A i, j \in 1 .. Len(queue') : queue'[i] = queue'[j] => i = j
  BY <1>1, <1>2 DEF PlaceInv, Queued
<1>4. \A q \in Tasks : Queued(q)' <=> Queued(q) \/ q = r
  BY <1>1 DEF Queued
<1>5. \A q \in Tasks : InHand(q)' <=> InHand(q)
  BY DEF InHand
<1>6. \A q \in Tasks : call'[q] = IF q = r THEN "pushed" ELSE call[q]
  OBVIOUS
<1> QED
  BY <1>2, <1>3, <1>4, <1>5, <1>6 DEF PlaceInv

\* A worker moves the first task from the queue into its empty hand.
LEMMA TakePlace ==
    ASSUME TypeOK, PlaceInv, NEW w \in Workers, Take(w), queue # << >>
    PROVE  PlaceInv'
<1> DEFINE r == Head(queue)
<1>1. /\ r \in Tasks /\ r = queue[1]
      /\ Len(queue) \in Nat \ {0} /\ Len(queue') = Len(queue) - 1
      /\ \A i \in 1 .. Len(queue') : queue'[i] = queue[i + 1]
  <2>1. queue \in Seq(Tasks) /\ queue' = Tail(queue)
    BY DEF TypeOK, Take
  <2>2. r \in Tasks /\ r = queue[1] /\ Len(queue) \in Nat \ {0}
    BY <2>1, HeadTailProperties
  <2>3. Len(queue') = Len(queue) - 1 /\ \A i \in 1 .. Len(queue') : queue'[i] = queue[i + 1]
    BY <2>1
  <2> QED
    BY <2>2, <2>3
<1>0. \A i \in 1 .. Len(queue') : i + 1 \in 1 .. Len(queue)
  <2> DEFINE n == Len(queue)
             k == Len(queue')
  <2>1. n \in Nat \ {0} /\ k = n - 1
    BY <1>1
  <2> HIDE DEF n, k
  <2> QED
    BY <2>1 DEF n, k
<1> USE DEF TypeOK, Take, Go
<1> HIDE DEF r
<1>2. /\ hand'[w] = r /\ \A v \in Workers : v # w => hand'[v] = hand[v]
      /\ pc'[w] = "work" /\ \A v \in Workers : v # w => pc'[v] = pc[v]
      /\ UNCHANGED <<call, answers>>
  BY DEF r
<1>3. Queued(r) /\ ~InHand(r) /\ answers[r] = 0
  BY <1>1 DEF PlaceInv, Queued
<1>4. hand[w] \notin Tasks
  BY DEF PlaceInv
<1>5. \A i, j \in 1 .. Len(queue') : queue'[i] = queue'[j] => i = j
  <2> SUFFICES ASSUME NEW i \in 1 .. Len(queue'), NEW j \in 1 .. Len(queue'),
                      queue'[i] = queue'[j]
               PROVE  i = j
    OBVIOUS
  <2>1. /\ i + 1 \in 1 .. Len(queue) /\ j + 1 \in 1 .. Len(queue)
        /\ queue[i + 1] = queue[j + 1]
    BY <1>0, <1>1, Zenon
  <2>2. i + 1 = j + 1
    BY <2>1 DEF PlaceInv
  <2> QED
    BY <2>2
<1>6. \A q \in Tasks : Queued(q)' <=> Queued(q) /\ q # r
  <2> SUFFICES ASSUME NEW q \in Tasks PROVE Queued(q)' <=> Queued(q) /\ q # r
    OBVIOUS
  <2>1. ASSUME NEW i \in 1 .. Len(queue'), queue'[i] = q PROVE Queued(q) /\ q # r
    BY <1>1, <2>1 DEF Queued, PlaceInv
  <2>2. ASSUME NEW i \in 1 .. Len(queue), queue[i] = q, q # r PROVE Queued(q)'
    <3>1. i - 1 \in 1 .. Len(queue') /\ queue'[i - 1] = q
      BY <1>1, <2>2
    <3> QED
      BY <3>1 DEF Queued
  <2> QED
    BY <2>1, <2>2 DEF Queued
<1>7. \A q \in Tasks : InHand(q)' <=> InHand(q) \/ q = r
  BY <1>2, <1>4 DEF InHand
<1>8. \A u, v \in Workers : hand'[v] \in Tasks /\ hand'[v] = hand'[u] => v = u
  BY <1>1, <1>2, <1>3 DEF PlaceInv, InHand
<1> QED
  BY <1>1, <1>2, <1>3, <1>5, <1>6, <1>7, <1>8 DEF PlaceInv

\* The callback is called for the task in hand, which is answered by it.
LEMMA WorkPlace ==
    ASSUME TypeOK, WorkInv, PlaceInv, NEW w \in Workers, Work(w)
    PROVE  PlaceInv'
<1> USE DEF TypeOK, Work, Go
<1> DEFINE r == hand[w]
<1>1. r \in Tasks /\ InHand(r) /\ answers[r] = 0 /\ ~Queued(r)
  BY DEF WorkInv, PlaceInv, InHand
<1>2. /\ hand'[w] = NoTask /\ \A v \in Workers : v # w => hand'[v] = hand[v]
      /\ \A v \in Workers : v # w => pc'[v] = pc[v]
      /\ answers'[r] = 1 /\ \A q \in Tasks : q # r => answers'[q] = answers[q]
      /\ UNCHANGED <<queue, call>>
  BY <1>1
<1>3. \A q \in Tasks : Queued(q)' <=> Queued(q)
  BY <1>2 DEF Queued
<1>4. \A q \in Tasks : InHand(q)' <=> InHand(q) /\ q # r
  BY <1>1, <1>2, PoolAssumption DEF InHand, PlaceInv
<1>5. \A v \in Workers : hand'[v] \in Tasks => v # w
  BY <1>2, PoolAssumption
<1> HIDE DEF r
<1> QED
  BY <1>1, <1>2, <1>3, <1>4, <1>5 DEF PlaceInv

\* The other steps move no task.
LEMMA PlaceStep == TypeOK /\ WorkInv /\ PlaceInv /\ [Next]_vars => PlaceInv'
<1> SUFFICES ASSUME TypeOK, WorkInv, PlaceInv, [Next]_vars PROVE PlaceInv'
  OBVIOUS
<1>1. ASSUME UNCHANGED <<queue, hand, answers>>,
             \A r \in Tasks : call'[r] = "new" <=> call[r] = "new",
             \A w \in Workers : pc[w] = "work" => pc'[w] = "work"
      PROVE  PlaceInv'
  BY <1>1 DEF PlaceInv, Queued, InHand
<1> USE DEF TypeOK, Go
<1>2. ASSUME NEW w \in Workers, Top(w) \/ Lock(w) \/ Test(w) \/ Block(w) \/ Spurious(w)
      PROVE  PlaceInv'
  BY <1>1, <1>2 DEF Top, Lock, Test, Block, Spurious
<1>3. ASSUME NEW w \in Workers, Take(w), queue = << >> PROVE PlaceInv'
  BY <1>1, <1>3 DEF Take
<1>4. ASSUME NEW r \in Tasks, NotifyOne(r) PROVE PlaceInv'
  BY <1>1, <1>4 DEF NotifyOne, Asleep
<1>5. CASE Stop
  BY <1>1, <1>5 DEF Stop, StopClear, StopNotifyAll, StopJoin
<1>6. CASE UNCHANGED vars
  BY <1>1, <1>6 DEF vars
<1> QED
  BY <1>2, <1>3, <1>4, <1>5, <1>6, PushPlace, TakePlace, WorkPlace DEF Next, Step

LEMMA PlaceInvariant == Spec => []PlaceInv
<1>1. Init => PlaceInv
  BY DEF Init, PlaceInv, Queued, InHand
<1>2. IInv /\ PlaceInv /\ [Next]_vars => PlaceInv'
  BY PlaceStep DEF IInv
<1> QED
  BY <1>1, <1>2, InductiveInvariant, PTL DEF Spec

\* Being in one place, counted the way AnsweredAtMostOnce counts.
LEMMA PlacesCounted == TypeOK /\ PlaceInv => AnsweredAtMostOnce
<1> SUFFICES ASSUME TypeOK, PlaceInv, NEW r \in Tasks
             PROVE  Cardinality({i \in DOMAIN queue : queue[i] = r})
                      + Cardinality({w \in Workers : hand[w] = r}) + answers[r]
                      = IF call[r] = "new" THEN 0 ELSE 1
  BY DEF AnsweredAtMostOnce
<1> DEFINE inQueue == {i \in DOMAIN queue : queue[i] = r}
           inHand == {w \in Workers : hand[w] = r}
<1>1. DOMAIN queue = 1 .. Len(queue)
  BY DEF TypeOK
<1>2. Cardinality({}) = 0 /\ \A x : Cardinality({x}) = 1
  BY FS_EmptySet, FS_Singleton
<1>3. Cardinality(inQueue) = IF Queued(r) THEN 1 ELSE 0
  <2>1. ASSUME NEW i \in 1 .. Len(queue), queue[i] = r PROVE inQueue = {i}
    BY <1>1, <2>1 DEF PlaceInv
  <2>2. ~Queued(r) => inQueue = {}
    BY <1>1 DEF Queued
  <2> HIDE DEF inQueue
  <2> QED
    BY <1>2, <2>1, <2>2 DEF Queued
<1>4. Cardinality(inHand) = IF InHand(r) THEN 1 ELSE 0
  <2>1. ASSUME NEW w \in Workers, hand[w] = r PROVE inHand = {w}
    BY <2>1 DEF PlaceInv
  <2>2. ~InHand(r) => inHand = {}
    BY DEF InHand
  <2> HIDE DEF inHand
  <2> QED
    BY <1>2, <2>1, <2>2 DEF InHand
<1> HIDE DEF inQueue, inHand
<1>5. Cardinality(inQueue) + Cardinality(inHand) + answers[r] = IF call[r] = "new" THEN 0 ELSE 1
  BY <1>3, <1>4 DEF PlaceInv, TypeOK
<1> QED
  BY <1>5 DEF inQueue, inHand

\* Whatever the number of workers and of submissions, and with stop() at any
\* moment, no callback is called twice and no task is lost between the queue
\* and a worker.
THEOREM AnsweredOnce == Spec => []AnsweredAtMostOnce
<1>1. IInv /\ PlaceInv => AnsweredAtMostOnce
  BY PlacesCounted DEF IInv
<1> QED
  BY <1>1, InductiveInvariant, PlaceInvariant, PTL

-----------------------------------------------------------------------------
(***************************************************************************)
(* The program around it.                                                  *)
(***************************************************************************)

USE ProgramAssumption

(* The strengthening that makes OrderlyExit inductive.                     *)

\* main leaves its joins only when the handler is done: until work_guard is
\* reset every io thread is in run(), and after that the thread the handler sits
\* on, which is main or one of them, still is.
MainInv ==
    /\ main \in {"boot", "made", "serving", "returned", "destroyed", "gone", "aborted"}
    /\ acceptor \in {"none", "open", "closed"}
    /\ main = "boot" => acceptor = "none"
    /\ main = "gone" => acceptor = "none" \/ handler = "done"
    /\ main \in {"returned", "destroyed"} => handler = "done"
    /\ main = "serving" /\ handler \notin {"context", "done"} => io = IoThreads
    /\ main = "serving" /\ handler = "context" /\ target \in IoThreads => target \in io

\* main waits where the signal found it while the handler sits on it.  A worker
\* that gets the signal never sees the end of its stop().
HandlerInv ==
    /\ handler \in {"off", "entered", "stop", "guard", "context", "done"}
    /\ caught \in {"none", "boot", "made", "serving"}
    /\ handler = "off" <=> caught = "none"
    /\ target \in {Main} \cup IoThreads \cup Workers
    /\ caught \in {"boot", "made"} => target = Main
    /\ handler \in {"entered", "stop", "guard", "context"} =>
          main = caught \/ (caught = "serving" /\ main = "aborted")
    /\ handler \in {"guard", "context"} => target \notin Workers
    /\ main = "boot" => caught \in {"none", "boot"}
    /\ context \in {"released", "stopped"} => handler \in {"context", "done"}

\* Once the handler is past its stop() the acceptor is closed, and the workers
\* have been joined if there were any.
StopInv ==
    handler \in {"guard", "context", "done"} =>
        /\ caught \in {"made", "serving"} => acceptor = "closed"
        /\ caught = "serving" => stopper = "stopped"

\* join() returns when the thread has ended, and an ended thread stays so.
JoinedInv == stopper = "stopped" => \A w \in Workers : pc[w] = "exit"

ProgramInv == MainInv /\ HandlerInv /\ StopInv /\ JoinedInv

-----------------------------------------------------------------------------
\* Whatever the program does, the pool sees one of its own steps or none.
LEMMA PoolSteps == [ProgramNext]_allVars => [Next]_vars
<1> SUFFICES ASSUME [ProgramNext]_allVars PROVE [Next]_vars
  OBVIOUS
<1>1. ASSUME NEW w \in Workers, WorkerStep(w) PROVE Next
  BY <1>1 DEF WorkerStep, Next
<1>2. CASE PoolStep
  BY <1>2 DEF PoolStep, Next
<1>3. CASE DestroyServer \/ CloseWithoutContext \/ StopServer
  BY <1>3 DEF DestroyServer, CloseWithoutContext, StopServer, Next, Stop
<1>4. ASSUME \/ MakeContext \/ MakeServer \/ BootFails \/ StartServer \/ MainReturns \/ DestroyContext
             \/ HandlerEnters \/ StopUnstarted \/ JoinsItself \/ ReleaseGuard \/ StopContext
             \/ \E x \in IoThreads : LeaveRun(x)
             \/ \E x \in SignalTargets : Signal(x)
      PROVE  UNCHANGED vars
  BY <1>4 DEF MakeContext, MakeServer, BootFails, StartServer, MainReturns, DestroyContext,
              HandlerEnters, StopUnstarted, JoinsItself, ReleaseGuard, StopContext, LeaveRun, Signal
<1>5. CASE UNCHANGED allVars
  BY <1>5 DEF allVars
<1> QED
  BY <1>1, <1>2, <1>3, <1>4, <1>5 DEF ProgramNext, ProgramStep

LEMMA ProgramImplementsPool == ProgramSpec => Spec
<1>1. ProgramInit => Init
  BY DEF ProgramInit
<1> QED
  BY <1>1, PoolSteps, PTL DEF ProgramSpec, Spec

\* A worker that has left worker_thread_function is not seen again, and
\* nobody unjoins it.
LEMMA JoinedStep == TypeOK /\ JoinedInv /\ [Next]_vars => JoinedInv'
<1> SUFFICES ASSUME TypeOK, JoinedInv, [Next]_vars PROVE JoinedInv'
  OBVIOUS
<1> USE DEF TypeOK, JoinedInv, Go
<1>1. ASSUME NEW w \in Workers, Step(w) \/ Spurious(w) PROVE JoinedInv'
  BY <1>1 DEF Step, Top, Lock, Test, Block, Take, Work, Spurious
<1>2. ASSUME NEW r \in Tasks, Push(r) \/ NotifyOne(r) PROVE JoinedInv'
  BY <1>2 DEF Push, NotifyOne, Asleep
<1>3. CASE Stop
  BY <1>3 DEF Stop, StopClear, StopNotifyAll, StopJoin
<1>4. CASE UNCHANGED vars
  BY <1>4 DEF vars
<1> QED
  BY <1>1, <1>2, <1>3, <1>4 DEF Next

-----------------------------------------------------------------------------
(* Each action of the program.                                             *)

LEMMA ProgramInvStep == TypeOK /\ ProgramInv /\ [ProgramNext]_allVars => ProgramInv'
<1> SUFFICES ASSUME TypeOK, ProgramInv, [ProgramNext]_allVars
             PROVE  MainInv' /\ HandlerInv' /\ StopInv'
  BY PoolSteps, JoinedStep DEF ProgramInv
<1> USE DEF ProgramInv, MainInv, HandlerInv, StopInv
<1>1. ASSUME MakeContext \/ MakeServer \/ BootFails \/ StartServer
      PROVE  MainInv' /\ HandlerInv' /\ StopInv'
  <2>1. handler \in {"off", "done"}
    BY <1>1 DEF MakeContext, MakeServer, BootFails, StartServer, Free
  <2>2. CASE MakeContext \/ BootFails
    BY <2>1, <2>2 DEF MakeContext, BootFails, vars
  <2>3. CASE MakeServer \/ StartServer
    BY <2>1, <2>3 DEF MakeServer, StartServer, vars
  <2> QED
    BY <1>1, <2>2, <2>3
<1>2. ASSUME NEW x \in IoThreads, LeaveRun(x)
      PROVE  MainInv' /\ HandlerInv' /\ StopInv'
  BY <1>2 DEF LeaveRun, Free, vars
<1>3. CASE MainReturns
  <2>1. handler = "done"
    BY <1>3, ProgramAssumption DEF MainReturns, Free
  <2> QED
    BY <1>3, <2>1 DEF MainReturns, vars
<1>4. CASE DestroyContext
  BY <1>4 DEF DestroyContext, vars
<1>5. CASE DestroyServer
  <2>1. /\ handler = "done" /\ UNCHANGED <<handler, target, context, caught>>
        /\ acceptor' = "closed" /\ main' \in {"destroyed", "gone"}
    BY <1>5 DEF DestroyServer
  <2>2. stopper = "stopped" => stopper' = "stopped"
    BY <1>5 DEF DestroyServer, StopClear, StopNotifyAll, StopJoin, vars
  <2> QED
    BY <2>1, <2>2
<1>6. CASE CloseWithoutContext
  BY <1>6 DEF CloseWithoutContext, StopClear
<1>7. ASSUME NEW x \in SignalTargets, Signal(x)
      PROVE  MainInv' /\ HandlerInv' /\ StopInv'
  BY <1>7 DEF Signal, vars
<1>8. CASE HandlerEnters
  BY <1>8 DEF HandlerEnters, AfterEntry, vars
<1>9. CASE StopUnstarted
  BY <1>9 DEF StopUnstarted, vars
<1>10. CASE StopServer
  <2>1. /\ handler = "stop" /\ main = "serving" /\ acceptor' = "closed"
        /\ UNCHANGED <<main, target, io, context, caught>>
        /\ handler' = IF stopper = "joining" THEN "guard" ELSE "stop"
        /\ target \notin Workers \/ stopper # "joining"
    BY <1>10 DEF StopServer
  <2>2. stopper = "joining" => stopper' = "stopped"
    BY <1>10 DEF StopServer, StopClear, StopNotifyAll, StopJoin
  <2> QED
    BY <2>1, <2>2
<1>11. CASE JoinsItself
  BY <1>11 DEF JoinsItself, vars
<1>12. CASE ReleaseGuard
  BY <1>12 DEF ReleaseGuard, vars
<1>13. CASE StopContext
  BY <1>13 DEF StopContext, vars
<1>14. ASSUME (\E w \in Workers : WorkerStep(w)) \/ PoolStep \/ UNCHANGED allVars
       PROVE  MainInv' /\ HandlerInv' /\ StopInv'
  <2>1. UNCHANGED programVars
    BY <1>14 DEF WorkerStep, PoolStep, allVars
  <2>2. UNCHANGED stopper
    BY <1>14 DEF WorkerStep, PoolStep, allVars, vars, Step, Top, Lock, Test, Block, Take, Work,
                 Spurious, Push, NotifyOne
  <2> QED
    BY <2>1, <2>2 DEF programVars
<1> QED
  BY <1>1, <1>2, <1>3, <1>4, <1>5, <1>6, <1>7, <1>8, <1>9, <1>10, <1>11, <1>12,
     <1>13, <1>14 DEF ProgramNext, ProgramStep

LEMMA ProgramInvariant == ProgramSpec => []ProgramInv
<1>1. ProgramInit => ProgramInv
  BY DEF ProgramInit, Init, ProgramInv, MainInv, HandlerInv, StopInv, JoinedInv
<1> QED
  BY <1>1, ProgramInvStep, ProgramImplementsPool, TypeCorrect, PTL DEF ProgramSpec

-----------------------------------------------------------------------------
\* The pool keeps its promises inside the program: with main, io threads, a
\* signal handler that suspends a worker at any point, and destructors, no
\* submission is left to a sleeping pool and none is answered twice.
THEOREM PoolInsideProgram == ProgramSpec => [](TypeOK /\ QueuedTaskHasWaker /\ AnsweredAtMostOnce)
  BY ProgramImplementsPool, TypeCorrect, NoLostSubmission, AnsweredOnce, PTL

\* main gets past its joins only when the handler is done.  By then the acceptor
\* is closed, for a signal that came once the server existed, and every worker
\* has ended, for one that came after start(): what is destroyed next is used by
\* nobody.
THEOREM ExitIsOrderly == ProgramSpec => []OrderlyExit
<1>1. ProgramInv => OrderlyExit
  BY DEF ProgramInv, MainInv, HandlerInv, StopInv, JoinedInv, OrderlyExit
<1> QED
  BY <1>1, ProgramInvariant, PTL
=============================================================================
