--------------------------- MODULE DaemonShutdown ---------------------------
(***************************************************************************)
(* How a node starts and stops: main and the background daemon of          *)
(* src/master/main.cpp (the garbage collector) and of src/worker/main.cpp  *)
(* (the heartbeat), with the HTTP server they run.  The two programs are   *)
(* the same but for the body of the daemon's loop and the collector's      *)
(* pool of threads: collects tells them apart.                             *)
(*                                                                         *)
(* main polls a flag that a signal handler sets, stops the server and      *)
(* joins its thread, clears keep_running, notifies the daemon and joins    *)
(* it.  keep_running is written, and the daemon notified, without the      *)
(* mutex the daemon's wait_for uses.                                       *)
(***************************************************************************)
EXTENDS Integers

CONSTANTS
  MaxRequests,  \* HTTP requests handled at the same time
  MaxTasks,     \* chunks of a batch
  SleepEnds,    \* the daemon's timeout may pass (24 hours; 5 seconds)
  EarlySignal   \* a signal may arrive before the server runs

ASSUME ShutdownAssumption ==
  /\ {SleepEnds, EarlySignal} \subseteq BOOLEAN
  /\ MaxRequests \in Nat /\ MaxTasks \in Nat

VARIABLES
  collects,      \* TRUE: a master; FALSE: a worker
  signalled,     \* shutdown_requested
  keep_running,
  main,          \* where main is
  server,        \* state of the server's thread
  requests,      \* requests its handlers are working on
  daemon,        \* where the daemon's thread is
  tasks          \* tasks of the batch that have not been answered

nodeVars == <<collects, signalled, keep_running, main, server, requests, daemon, tasks>>

NodeTypeOK ==
  /\ collects \in BOOLEAN
  /\ signalled \in BOOLEAN /\ keep_running \in BOOLEAN
  /\ main \in {"poll", "join_server", "clear", "notify", "join_daemon",
               "return", "exited", "stuck"}
  /\ server \in {"starting", "running", "draining", "ended"}
  /\ requests \in 0..MaxRequests
  /\ daemon \in {"test", "body", "purging", "resolving", "locked", "drowsy",
                 "asleep", "ended"}
  /\ tasks \in 0..MaxTasks

NodeInit ==
  /\ collects \in BOOLEAN
  /\ signalled = FALSE /\ keep_running = TRUE
  /\ main = "poll"
  /\ server = "starting" /\ requests = 0
  /\ daemon = "test" /\ tasks = 0

-----------------------------------------------------------------------------
(* The operating system and the clients.                                   *)

\* SIGINT or SIGTERM; the handler only sets the flag.
Signal ==
  /\ ~signalled
  /\ EarlySignal \/ server # "starting"
  /\ signalled' = TRUE
  /\ UNCHANGED <<collects, keep_running, main, server, requests, daemon, tasks>>

Accept ==
  /\ server = "running" /\ requests < MaxRequests
  /\ requests' = requests + 1
  /\ UNCHANGED <<collects, signalled, keep_running, main, server, daemon, tasks>>

Answer ==
  /\ requests > 0
  /\ requests' = requests - 1
  /\ UNCHANGED <<collects, signalled, keep_running, main, server, daemon, tasks>>

-----------------------------------------------------------------------------
(* The thread of the server: httplib's listen.                             *)

\* The port is bound and is_running_ set, or listen returns at once.
Listen ==
  /\ server = "starting"
  /\ server' \in {"running", "ended"}
  /\ UNCHANGED <<collects, signalled, keep_running, main, requests, daemon, tasks>>

\* The socket was closed: the server's own pool is shut down, which waits for
\* the requests it has taken.
Drain ==
  /\ server = "draining" /\ requests = 0
  /\ server' = "ended"
  /\ UNCHANGED <<collects, signalled, keep_running, main, requests, daemon, tasks>>

-----------------------------------------------------------------------------
(* The daemon.                                                             *)

\* while (keep_running)
Test ==
  /\ daemon = "test"
  /\ daemon' = IF keep_running THEN "body" ELSE "ended"
  /\ UNCHANGED <<collects, signalled, keep_running, main, server, requests, tasks>>

\* The worker's body: a heartbeat is sent, or fails.
Heartbeat ==
  /\ ~collects /\ daemon = "body"
  /\ daemon' = "locked"
  /\ UNCHANGED <<collects, signalled, keep_running, main, server, requests, tasks>>

\* Variant for mutation: batches are taken while there are orphans.
Sweep_untilEmpty ==
  /\ collects /\ daemon = "body"
  /\ \/ /\ daemon' = "locked"
        /\ UNCHANGED tasks
     \/ \E n \in 1..MaxTasks : tasks' = n /\ daemon' = "purging"
  /\ UNCHANGED <<collects, signalled, keep_running, main, server, requests>>

\* The collector's: while (keep_running), a batch is tombstoned and its
\* deletion handed to the pool; no orphans, or an exception, end the sweep.
Sweep ==
  /\ collects /\ daemon = "body"
  /\ \/ /\ daemon' = "locked"
        /\ UNCHANGED tasks
     \/ /\ keep_running
        /\ \E n \in 1..MaxTasks : tasks' = n /\ daemon' = "purging"
  /\ UNCHANGED <<collects, signalled, keep_running, main, server, requests>>

\* Variant for mutation: a future is counted again.
TaskDone_twice ==
  /\ tasks' = tasks - 1
  /\ UNCHANGED <<collects, signalled, keep_running, main, server, requests, daemon>>

\* A thread of the pool sets the value, or the exception, of a future.
TaskDone ==
  /\ tasks > 0
  /\ tasks' = tasks - 1
  /\ UNCHANGED <<collects, signalled, keep_running, main, server, requests, daemon>>

\* The last future is ready.
Gathered ==
  /\ daemon = "purging" /\ tasks = 0
  /\ daemon' = "resolving"
  /\ UNCHANGED <<collects, signalled, keep_running, main, server, requests, tasks>>

\* The rows of the batch are deleted or reverted.
Resolve ==
  /\ daemon = "resolving"
  /\ daemon' = "body"
  /\ UNCHANGED <<collects, signalled, keep_running, main, server, requests, tasks>>

\* wait_for, with the mutex, tests its predicate; then it releases the mutex
\* and sleeps, without another look at keep_running.
TestPredicate ==
  /\ daemon = "locked"
  /\ daemon' = IF keep_running THEN "drowsy" ELSE "test"
  /\ UNCHANGED <<collects, signalled, keep_running, main, server, requests, tasks>>

FallAsleep ==
  /\ daemon = "drowsy"
  /\ daemon' = "asleep"
  /\ UNCHANGED <<collects, signalled, keep_running, main, server, requests, tasks>>

\* The timeout of wait_for.
TimeOut ==
  /\ daemon = "asleep" /\ SleepEnds
  /\ daemon' = "test"
  /\ UNCHANGED <<collects, signalled, keep_running, main, server, requests, tasks>>

-----------------------------------------------------------------------------
(* main.                                                                   *)

\* The flag is seen.  httplib's stop closes the socket of a server that is
\* running, and does nothing to one that is not running yet.
Stop ==
  /\ main = "poll" /\ signalled
  /\ main' = "join_server"
  /\ server' = IF server = "running" THEN "draining" ELSE server
  /\ UNCHANGED <<collects, signalled, keep_running, requests, daemon, tasks>>

JoinServer ==
  /\ main = "join_server" /\ server = "ended"
  /\ main' = "clear"
  /\ UNCHANGED <<collects, signalled, keep_running, server, requests, daemon, tasks>>

ClearKeepRunning ==
  /\ main = "clear"
  /\ keep_running' = FALSE
  /\ main' = "notify"
  /\ UNCHANGED <<collects, signalled, server, requests, daemon, tasks>>

\* A daemon that sleeps wakes up and tests its predicate again.
Notify ==
  /\ main = "notify"
  /\ daemon' = IF daemon = "asleep" THEN "locked" ELSE daemon
  /\ main' = "join_daemon"
  /\ UNCHANGED <<collects, signalled, keep_running, server, requests, tasks>>

\* Variant for mutation: the daemon is detached.
JoinDaemon_detached ==
  /\ main = "join_daemon"
  /\ main' = "return"
  /\ UNCHANGED <<collects, signalled, keep_running, server, requests, daemon, tasks>>

JoinDaemon ==
  /\ main = "join_daemon" /\ daemon = "ended"
  /\ main' = "return"
  /\ UNCHANGED <<collects, signalled, keep_running, server, requests, daemon, tasks>>

\* Static objects are destroyed after main returns.  The destructor of the
\* collector's pool, which nobody has shut down, meets its 16 threads waiting
\* on the condition variable it destroys: undefined, and in the build's library
\* it waits for them for ever, or std::terminate is called for their handles.
Exit ==
  /\ main = "return"
  /\ main' = IF collects THEN "stuck" ELSE "exited"
  /\ UNCHANGED <<collects, signalled, keep_running, server, requests, daemon, tasks>>

-----------------------------------------------------------------------------
ServerStep == Listen \/ Drain

DaemonStep ==
  \/ Test \/ Heartbeat \/ Sweep \/ Gathered \/ Resolve
  \/ TestPredicate \/ FallAsleep \/ TimeOut

MainStep == \/ Stop \/ JoinServer \/ ClearKeepRunning
            \/ Notify \/ JoinDaemon \/ Exit

NodeNext == ServerStep \/ DaemonStep \/ MainStep \/ Signal \/ Accept \/ Answer \/ TaskDone

\* Threads that can run do, handlers and tasks end (they have timeouts), and so
\* does the daemon's sleep where SleepEnds.  Signals and requests need not come.
Fairness ==
  /\ WF_nodeVars(ServerStep) /\ WF_nodeVars(DaemonStep) /\ WF_nodeVars(MainStep)
  /\ WF_nodeVars(Answer) /\ WF_nodeVars(TaskDone)

NodeSpec == NodeInit /\ [][NodeNext]_nodeVars /\ Fairness

-----------------------------------------------------------------------------
\* When main returns, and with it the repository and the server that the other
\* threads refer to go away, none of them is still at work: no request is being
\* handled, no replica is being deleted and no batch has its rows tombstoned.
QuietReturn ==
  main \in {"return", "exited", "stuck"} =>
    /\ server = "ended" /\ requests = 0
    /\ daemon = "ended" /\ tasks = 0

\* The strengthening of QuietReturn that every step preserves.
ShutdownInv ==
  /\ NodeTypeOK
  /\ main \in {"poll", "join_server"} \/ server = "ended"
  /\ main \in {"return", "exited", "stuck"} => daemon = "ended"
  /\ server \in {"starting", "ended"} => requests = 0
  /\ daemon # "purging" => tasks = 0

\* A signal ends the program: main returns, whatever the daemon is doing when
\* the signal comes, and although keep_running is changed without its mutex.
SignalReturns == signalled ~> (main \in {"return", "exited", "stuck"})
=============================================================================
