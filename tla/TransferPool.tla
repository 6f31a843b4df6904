---------------------------- MODULE TransferPool ----------------------------
(***************************************************************************)
(* ParallelTransferManager::Upload: the calling thread walks the pending   *)
(* chunks and hands one task per replica to a thread pool; a semaphore     *)
(* bounds the chunks whose payload is in memory, a mutex protects the list *)
(* of indices that are not yet in the log, and a promise per task carries  *)
(* its answer back.                                                        *)
(*                                                                         *)
(* A permit is shared by the tasks of its chunk and, until it has enqueued *)
(* them all, by the calling thread: `refs' counts its owners and the last  *)
(* one to go releases it.                                                  *)
(***************************************************************************)
EXTENDS Integers, Sequences, FiniteSets

CONSTANTS
  Chunks,       \* number of pending chunks
  Nodes,        \* assigned_nodes of each, a sequence of different nodes
  Permits,      \* initial count of the semaphore (16)
  Thread,       \* threads of the pool (16)
  FlushAt,      \* size at which the list of indices is written out (64)
  Faults        \* besides refused uploads: "unreadable", "exception", "signal"

ASSUME PoolAssumption ==
  /\ Chunks \in Nat
  /\ Nodes \in [1..Chunks -> Seq(STRING)]
  /\ \A i \in 1..Chunks : \A k, m \in DOMAIN Nodes[i] : Nodes[i][k] = Nodes[i][m] => k = m
  /\ Permits \in Nat \ {0}
  /\ Thread # {} /\ IsFiniteSet(Thread)
  /\ FlushAt \in Nat \ {0}
  /\ Faults \subseteq {"unreadable", "exception", "signal"}

Index == 1..Chunks
Replica == UNION {{<<i, Nodes[i][k]>> : k \in DOMAIN Nodes[i]} : i \in Index}

NoTask == <<0, "none">>

VARIABLES
  pc,         \* the calling thread: "open", "loop", "drain", "acquire", "enqueue",
              \* "collect", "shutdown", "returned" or "unwound"
  next,       \* position in the pending chunks
  node,       \* position in the nodes of that chunk
  futures,    \* the tasks whose answer has not been taken, in order
  ok,         \* all_succeeded
  answer,     \* what Upload returned
  state,      \* the transfer state the signal handler sets
  permits,    \* the semaphore's count
  refs,       \* owners of the permit of each chunk
  jobs,       \* the pool's queue
  task,       \* the task each thread runs
  stage,      \* and where it is: "idle", "send", "log", "release", "resolve"
  result,     \* the answer it is going to give
  promise,    \* answers given: "none", "true", "false" or "exception"
  pending,    \* pending_disk_writes
  log,        \* indices in the log of completed chunks
  acked,      \* replicas whose upload was answered with 200
  stored      \* replicas on the workers

mainVars == <<pc, next, node, futures, ok, answer>>
semVars == <<permits, refs>>
poolVars == <<jobs, task, stage, result, promise>>
dataVars == <<pending, log, acked, stored>>
vars == <<mainVars, state, semVars, poolVars, dataVars>>

TypeOK ==
  /\ pc \in {"open", "loop", "drain", "acquire", "enqueue", "collect", "shutdown",
             "returned", "unwound"}
  /\ next \in 1..(Chunks + 1) /\ node \in Nat
  /\ futures \in Seq(Replica)
  /\ ok \in BOOLEAN /\ answer \in {"none", "true", "false"}
  /\ state \in {"RUNNING", "PAUSED"}
  /\ permits \in 0..Permits /\ refs \in [Index -> Nat]
  /\ jobs \in Seq(Replica)
  /\ task \in [Thread -> Replica \cup {NoTask}]
  /\ stage \in [Thread -> {"idle", "send", "log", "release", "resolve"}]
  /\ result \in [Thread -> {"true", "false", "exception"}]
  /\ promise \in [Replica -> {"none", "true", "false", "exception"}]
  /\ pending \in Seq(Index) /\ log \subseteq Index
  /\ acked \subseteq Replica /\ stored \subseteq Replica

Init ==
  /\ pc = "open" /\ next = 1 /\ node = 1 /\ futures = <<>> /\ ok = TRUE /\ answer = "none"
  /\ state = "RUNNING"
  /\ permits = Permits /\ refs = [i \in Index |-> 0]
  /\ jobs = <<>>
  /\ task = [t \in Thread |-> NoTask]
  /\ stage = [t \in Thread |-> "idle"]
  /\ result = [t \in Thread |-> "false"]
  /\ promise = [r \in Replica |-> "none"]
  /\ pending = <<>> /\ log = {} /\ acked = {} /\ stored = {}

Alive == pc \notin {"returned", "unwound"}

-----------------------------------------------------------------------------
(* The calling thread.  An exception that leaves Upload destroys the pool  *)
(* while its threads wait in it ("unwound"): what follows is undefined, and *)
(* with the build's library it blocks in the condition variable's          *)
(* destructor or ends the process.                                         *)

\* The threads are there and the file is opened; OpenStream throws if it is
\* gone.
OpenStream ==
  /\ pc = "open"
  /\ \/ pc' = "loop"
     \/ "unreadable" \in Faults /\ pc' = "unwound"
  /\ UNCHANGED <<next, node, futures, ok, answer, state, semVars, poolVars, dataVars>>

\* The loop ends after the last chunk and on a pause.
CheckState ==
  /\ pc = "loop"
  /\ pc' = IF next <= Chunks /\ state = "RUNNING" THEN "drain" ELSE "collect"
  /\ UNCHANGED <<next, node, futures, ok, answer, state, semVars, poolVars, dataVars>>

\* The answer of the first future is there.
Ready == futures # <<>> /\ promise[Head(futures)] # "none"

\* fut.get() on the first future: FALSE is remembered, an exception leaves
\* Upload.
Take ==
  /\ Ready
  /\ futures' = Tail(futures)
  /\ ok' = (ok /\ promise[Head(futures)] # "false")
  /\ pc' = IF promise[Head(futures)] = "exception" THEN "unwound" ELSE pc
  /\ UNCHANGED <<next, node, answer, state, semVars, poolVars, dataVars>>

\* Takes answers as long as the first one is there ..
TakeReady == pc = "drain" /\ Take

\* .. and goes on to the next chunk, or leaves the loop if an upload failed.
Proceed ==
  /\ pc = "drain" /\ ~Ready
  /\ pc' = IF ok THEN "acquire" ELSE "collect"
  /\ UNCHANGED <<next, node, futures, ok, answer, state, semVars, poolVars, dataVars>>

\* Waits for a permit and reads the chunk.
Acquire ==
  /\ pc = "acquire"
  /\ permits > 0
  /\ permits' = permits - 1
  /\ refs' = [refs EXCEPT ![next] = 1]
  /\ node' = 1
  /\ pc' = "enqueue"
  /\ UNCHANGED <<next, futures, ok, answer, state, poolVars, dataVars>>

\* refs[i] loses one owner; the last one releases the permit.
DropPermit(i) ==
  /\ refs' = [refs EXCEPT ![i] = @ - 1]
  /\ permits' = IF refs[i] = 1 THEN permits + 1 ELSE permits

\* Enqueues the task of the next replica ..
Enqueue ==
  /\ pc = "enqueue" /\ node \in DOMAIN Nodes[next]
  /\ LET r == <<next, Nodes[next][node]>>
     IN /\ futures' = Append(futures, r)
        /\ jobs' = Append(jobs, r)
  /\ refs' = [refs EXCEPT ![next] = @ + 1]
  /\ node' = node + 1
  /\ UNCHANGED <<pc, next, ok, answer, state, permits, task, stage, result, promise, dataVars>>

\* .. and drops its own share of the permit at the end of the loop's body.
EndIteration ==
  /\ pc = "enqueue" /\ node \notin DOMAIN Nodes[next]
  /\ DropPermit(next)
  /\ next' = next + 1
  /\ pc' = "loop"
  /\ UNCHANGED <<node, futures, ok, answer, state, poolVars, dataVars>>

\* Variant for mutation: the remaining answers are awaited and not looked at.
TakeRest_ignoresAnswers ==
  /\ pc = "collect" /\ Ready
  /\ futures' = Tail(futures)
  /\ UNCHANGED <<pc, next, node, ok, answer, state, semVars, poolVars, dataVars>>

\* The second loop waits for every remaining answer.
TakeRest == pc = "collect" /\ Take

Collected ==
  /\ pc = "collect" /\ futures = <<>>
  /\ pc' = "shutdown"
  /\ UNCHANGED <<next, node, futures, ok, answer, state, semVars, poolVars, dataVars>>

\* The set of the members of a sequence.
Members(s) == {s[k] : k \in DOMAIN s}

\* Joins the threads, writes the last indices to the log and returns.
Finish ==
  /\ pc = "shutdown"
  /\ jobs = <<>> /\ \A t \in Thread : stage[t] = "idle"
  /\ log' = log \cup Members(pending)
  /\ pending' = <<>>
  /\ pc' = "returned"
  /\ answer' = IF ok /\ state = "RUNNING" THEN "true" ELSE "false"
  /\ UNCHANGED <<next, node, futures, ok, state, semVars, poolVars, acked, stored>>

-----------------------------------------------------------------------------
(* The threads of the pool.                                                *)

Step(t, from, to) == Alive /\ stage[t] = from /\ stage' = [stage EXCEPT ![t] = to]

Fetch(t) ==
  /\ Step(t, "idle", "send")
  /\ jobs # <<>>
  /\ task' = [task EXCEPT ![t] = Head(jobs)]
  /\ jobs' = Tail(jobs)
  /\ UNCHANGED <<mainVars, state, semVars, result, promise, dataVars>>

\* UploadChunkToWorker: one of the attempts is answered with 200 ..
SendOk(t) ==
  /\ Step(t, "send", "log")
  /\ stored' = stored \cup {task[t]}
  /\ acked' = acked \cup {task[t]}
  /\ result' = [result EXCEPT ![t] = "true"]
  /\ UNCHANGED <<mainVars, state, semVars, jobs, task, promise, pending, log>>

\* .. or all are refused, or stored and the answer lost.
SendFail(t) ==
  /\ Step(t, "send", "release")
  /\ stored' \in {stored, stored \cup {task[t]}}
  /\ result' = [result EXCEPT ![t] = "false"]
  /\ UNCHANGED <<mainVars, state, semVars, jobs, task, promise, pending, log, acked>>

\* Notes the index, under the mutex; the log is written in batches.
Note(t) ==
  /\ Step(t, "log", "release")
  /\ LET list == Append(pending, task[t][1])
     IN IF Len(list) >= FlushAt
        THEN log' = log \cup Members(list) /\ pending' = <<>>
        ELSE pending' = list /\ UNCHANGED log
  /\ UNCHANGED <<mainVars, state, semVars, jobs, task, result, promise, acked, stored>>

\* Anything thrown on the way is caught.
Throw(t) ==
  /\ "exception" \in Faults
  /\ stage[t] \in {"send", "log"}
  /\ Step(t, stage[t], "release")
  /\ result' = [result EXCEPT ![t] = "exception"]
  /\ UNCHANGED <<mainVars, state, semVars, jobs, task, promise, dataVars>>

\* Variants for mutation: every task gives the permit back; a failed one keeps it.
ReleasePermit_eachTask(t) ==
  /\ Step(t, "release", "resolve")
  /\ refs' = [refs EXCEPT ![task[t][1]] = @ - 1]
  /\ permits' = permits + 1
  /\ UNCHANGED <<mainVars, state, jobs, task, result, promise, dataVars>>

ReleasePermit_notOnFailure(t) ==
  /\ Step(t, "release", "resolve")
  /\ IF result[t] = "true" THEN DropPermit(task[t][1]) ELSE UNCHANGED semVars
  /\ UNCHANGED <<mainVars, state, jobs, task, result, promise, dataVars>>

ReleasePermit(t) ==
  /\ Step(t, "release", "resolve")
  /\ DropPermit(task[t][1])
  /\ UNCHANGED <<mainVars, state, jobs, task, result, promise, dataVars>>

Resolve(t) ==
  /\ Step(t, "resolve", "idle")
  /\ promise' = [promise EXCEPT ![task[t]] = result[t]]
  /\ task' = [task EXCEPT ![t] = NoTask]
  /\ UNCHANGED <<mainVars, state, semVars, jobs, result, dataVars>>

\* Ctrl+C.
Pause ==
  /\ "signal" \in Faults /\ Alive
  /\ state = "RUNNING" /\ state' = "PAUSED"
  /\ UNCHANGED <<mainVars, semVars, poolVars, dataVars>>

Main == \/ OpenStream \/ CheckState \/ TakeReady \/ Proceed \/ Acquire \/ Enqueue \/ EndIteration
        \/ TakeRest \/ Collected \/ Finish

Work(t) == \/ Fetch(t) \/ SendOk(t) \/ SendFail(t) \/ Note(t) \/ Throw(t)
           \/ ReleasePermit(t) \/ Resolve(t)

Next == Main \/ (\E t \in Thread : Work(t)) \/ Pause

\* Threads are scheduled, and an upload attempt ends (connection timeout of two
\* seconds, three attempts).
Spec == Init /\ [][Next]_vars /\ WF_vars(Main) /\ \A t \in Thread : WF_vars(Work(t))

-----------------------------------------------------------------------------
\* The semaphore bounds the chunks held in memory: a chunk's permit goes back
\* exactly once, after its last task and the calling thread have let go of it,
\* whether its uploads succeed, fail or throw.
PermitsConserved ==
  permits + Cardinality({i \in Index : refs[i] > 0}) = Permits

\* The calling thread never waits for ever for a permit or for an answer:
\* Upload returns, or is left by an exception.
UploadEnds == <>(pc \in {"returned", "unwound"})

\* "Safety net: Guarantee the main thread never deadlocks!": whatever a task
\* throws, Upload returns.
UploadReturns == <>(pc = "returned")

\* How a run of the pool looks to the caller of Upload.
Outcome == CASE pc = "returned" -> answer
             [] pc = "unwound" -> "dead"
             [] OTHER -> "running"

Caller == INSTANCE ChunkTransfer WITH logged <- log, outcome <- Outcome

\* The pool does what the caller of Upload relies on: TRUE means that every
\* replica was acknowledged, the log never names a chunk without an
\* acknowledged replica, and when Upload returns it has all of them.
MeetsContract == Caller!TransferSpec
=============================================================================
