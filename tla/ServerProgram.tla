---------------------------- MODULE ServerProgram ----------------------------
(***************************************************************************)
(* The server program: server_main.cpp around the pool of WorkerPool.      *)
(*                                                                         *)
(* main makes the io_context, its work guard and the server, starts it     *)
(* (the workers of WorkerPool come to life) and joins the threads that run *)
(* the io_context.  SIGINT or SIGTERM runs signal_handler on whatever      *)
(* thread the kernel picks, and that thread is suspended where it was,     *)
(* locks it holds included, until the handler returns.  The handler calls  *)
(* stop(), resets the guard and stops the io_context.  When main returns,  *)
(* the globals go in reverse order: the io_context first, then the server, *)
(* whose destructor calls stop() again.                                    *)
(*                                                                         *)
(* stopper of WorkerPool is the stop() that finds the workers: the one of  *)
(* the handler, or that of the destructor if the signal came before        *)
(* start().  (start() is one step: a signal on main while it makes the     *)
(* workers is not modelled.)                                               *)
(***************************************************************************)
EXTENDS WorkerPool

CONSTANTS
    Main,         \* the main thread
    IoThreads,    \* io_threads: one per core, or four if that is not known
    SignalTargets \* bound: the threads that may get the signal (one is sent)

ASSUME ProgramAssumption ==
    /\ IoThreads # {}
    /\ Main \notin IoThreads \cup Workers
    /\ IoThreads \cap Workers = {}
    /\ SignalTargets \subseteq {Main} \cup IoThreads \cup Workers

VARIABLES
    main,     \* "boot", "made" (server exists), "serving" (started, joining the
              \* io threads), "returned", "destroyed" (the io_context is), "gone"
              \* or "aborted"
    handler,  \* signal_handler: "off", "entered", "stop", "guard", "context"
              \* (what it does next) or "done"
    target,   \* the thread it runs on
    io,       \* the io threads in run()
    busy,     \* the io_context has connections to serve
    context,  \* io_context: "none", "running", "released" (work_guard is reset)
              \* or "stopped"
    acceptor, \* acceptor_: "none", "open" or "closed"
    caught    \* history: where main was when the signal came, or "none"

programVars == <<main, handler, target, io, busy, context, acceptor, caught>>
allVars == <<vars, programVars>>

ProgramInit ==
    /\ Init
    /\ main = "boot"
    /\ handler = "off"
    /\ target = Main
    /\ io = {}
    /\ busy \in BOOLEAN
    /\ context = "none"
    /\ acceptor = "none"
    /\ caught = "none"

\* A thread that can run: the handler is not sitting on it.
Free(x) == handler \in {"off", "done"} \/ target # x

Alive == main \in {"serving", "returned", "destroyed"}

-----------------------------------------------------------------------------
(* main.                                                                   *)

\* io_context, and the guard that keeps it running.
MakeContext ==
    /\ main = "boot"
    /\ Free(Main)
    /\ context = "none"
    /\ context' = "running"
    /\ UNCHANGED <<vars, main, handler, target, io, busy, acceptor, caught>>

\* The constructor of DatabaseServer binds and listens.
MakeServer ==
    /\ main = "boot"
    /\ Free(Main)
    /\ context # "none"
    /\ main' = "made"
    /\ acceptor' = "open"
    /\ UNCHANGED <<vars, handler, target, io, busy, context, caught>>

\* The database does not open, or the port is taken: main returns 1.
BootFails ==
    /\ main = "boot"
    /\ Free(Main)
    /\ context # "none"
    /\ main' = "gone"
    /\ UNCHANGED <<vars, handler, target, io, busy, context, acceptor, caught>>

\* server->start(), then the io threads.
StartServer ==
    /\ main = "made"
    /\ Free(Main)
    /\ main' = "serving"
    /\ io' = IoThreads
    /\ UNCHANGED <<vars, handler, target, busy, context, acceptor, caught>>

\* run() returns: the context was stopped, or the guard is reset and there is
\* nothing left to do, no connection and no accept.
LeaveRun(x) ==
    /\ x \in io
    /\ Free(x)
    /\ context = "stopped" \/ (context = "released" /\ ~busy /\ acceptor = "closed")
    /\ io' = io \ {x}
    /\ UNCHANGED <<vars, main, handler, target, busy, context, acceptor, caught>>

\* The joins, and the end of main.
MainReturns ==
    /\ main = "serving"
    /\ Free(Main)
    /\ io = {}
    /\ main' = "returned"
    /\ UNCHANGED <<vars, handler, target, io, busy, context, acceptor, caught>>

\* work_guard and io_context are destroyed.
DestroyContext ==
    /\ main = "returned"
    /\ main' = "destroyed"
    /\ UNCHANGED <<vars, handler, target, io, busy, context, acceptor, caught>>

\* ~DatabaseServer: stop() on what is left.  An acceptor that is still open is
\* closed after its io_context is gone, which is undefined: it may work.
DestroyServer ==
    /\ main = "destroyed"
    /\ \/ StopClear \/ StopNotifyAll \/ StopJoin
       \/ stopper = "stopped" /\ UNCHANGED vars
    /\ main' = IF stopper = "stopped" THEN "gone" ELSE main
    /\ acceptor' = "closed"
    /\ UNCHANGED <<handler, target, io, busy, context, caught>>

\* Or the program may die of it, with running_ cleared and nobody notified.
CloseWithoutContext ==
    /\ main = "destroyed"
    /\ acceptor = "open"
    /\ StopClear
    /\ main' = "aborted"
    /\ UNCHANGED <<handler, target, io, busy, context, acceptor, caught>>

-----------------------------------------------------------------------------
(* signal_handler.                                                         *)

Signal(x) ==
    /\ handler = "off"
    /\ main \in {"boot", "made", "serving"}
    /\ x = Main \/ main = "serving"
    /\ x \in Workers => pc[x] # "exit"
    /\ handler' = "entered"
    /\ target' = x
    /\ caught' = main
    /\ UNCHANGED <<vars, main, io, busy, context, acceptor>>

\* Mutant of AfterEntry: the io_context is stopped and the server is not.
ContextOnly == "guard"

\* Is there a server to stop?
AfterEntry == IF main = "boot" THEN "guard" ELSE "stop"

HandlerEnters ==
    /\ handler = "entered"
    /\ handler' = AfterEntry
    /\ UNCHANGED <<vars, main, target, io, busy, context, acceptor, caught>>

\* stop() of a server that was not started: nobody reads running_ before
\* start() sets it.
StopUnstarted ==
    /\ handler = "stop"
    /\ main = "made"
    /\ acceptor' = "closed"
    /\ handler' = "guard"
    /\ UNCHANGED <<vars, main, target, io, busy, context, caught>>

\* stop() of a running server.
StopServer ==
    /\ handler = "stop"
    /\ main = "serving"
    /\ target \notin Workers \/ stopper # "joining"
    /\ StopClear \/ StopNotifyAll \/ StopJoin
    /\ acceptor' = "closed"
    /\ handler' = IF stopper = "joining" THEN "guard" ELSE handler
    /\ UNCHANGED <<main, target, io, busy, context, caught>>

\* A worker joins itself: std::system_error leaves the thread.  (The workers
\* in front of it in worker_threads_ are joined first: any number of them.)
JoinsItself ==
    /\ handler = "stop"
    /\ main = "serving"
    /\ target \in Workers
    /\ stopper = "joining"
    /\ main' = "aborted"
    /\ UNCHANGED <<vars, handler, target, io, busy, context, acceptor, caught>>

\* work_guard->reset(), if main has made it yet.
ReleaseGuard ==
    /\ handler = "guard"
    /\ context' = IF context = "running" THEN "released" ELSE context
    /\ handler' = "context"
    /\ UNCHANGED <<vars, main, target, io, busy, acceptor, caught>>

\* Mutant of StopContext: only the guard is reset.
GuardOnly ==
    /\ handler = "context"
    /\ handler' = "done"
    /\ UNCHANGED <<vars, main, target, io, busy, context, acceptor, caught>>

\* io_context->stop(), if there is one.
StopContext ==
    /\ handler = "context"
    /\ context' = IF context = "none" THEN context ELSE "stopped"
    /\ handler' = "done"
    /\ UNCHANGED <<vars, main, target, io, busy, acceptor, caught>>

-----------------------------------------------------------------------------
WorkerStep(w) ==
    /\ Alive
    /\ Free(w)
    /\ Step(w)
    /\ UNCHANGED programVars

PoolStep ==
    /\ Alive
    /\ \/ \E w \in Workers : Free(w) /\ Spurious(w)
       \/ \E r \in Tasks : Push(r) \/ NotifyOne(r)
    /\ UNCHANGED programVars

ProgramStep ==
    \/ MakeContext \/ MakeServer \/ BootFails \/ StartServer
    \/ MainReturns \/ DestroyContext \/ DestroyServer \/ CloseWithoutContext
    \/ HandlerEnters \/ StopUnstarted \/ StopServer \/ JoinsItself \/ ReleaseGuard \/ StopContext
    \/ \E x \in IoThreads : LeaveRun(x)

ProgramNext ==
    \/ ProgramStep
    \/ \E x \in SignalTargets : Signal(x)
    \/ \E w \in Workers : WorkerStep(w)
    \/ PoolStep

ProgramSpec == ProgramInit /\ [][ProgramNext]_allVars

\* Threads that can run do.  No signal has to come.
FairProgramSpec ==
    /\ ProgramSpec
    /\ WF_allVars(ProgramStep)
    /\ \A w \in Workers : WF_allVars(WorkerStep(w))
    /\ \A r \in Tasks : WF_allVars(Alive /\ NotifyOne(r) /\ UNCHANGED programVars)

-----------------------------------------------------------------------------
(* Properties.                                                             *)

\* When a signal lets main get past its joins, nobody uses any more what is
\* destroyed then (signal_handler, and the order of the globals in
\* server_main.cpp): if it came once the server existed the acceptor is closed,
\* before its io_context goes; if it came after start(), the workers are gone
\* too.  (A signal before that finds no server to stop, and before MakeContext
\* nothing at all: then the program serves on.)
OrderlyExit ==
    main \in {"returned", "destroyed", "gone"} /\ acceptor # "none" =>
        /\ caught # "boot" => acceptor = "closed"
        /\ caught = "serving" => \A w \in Workers : pc[w] = "exit"

\* Once stop() has returned in the handler of a started server the program
\* ends, with connections open or not, and without another signal.
StoppedServerExits == handler = "guard" /\ caught = "serving" ~> main = "gone"

\* "Graceful shutdown with signal handling" (README): a signal to a started
\* server ends the program.
GracefulShutdown == caught = "serving" ~> main = "gone"
=============================================================================
