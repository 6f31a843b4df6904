------------------------------ MODULE Download ------------------------------
(***************************************************************************)
(* A download: DSEClient::DownloadFile, the master's GetDownloadPlan, and  *)
(* ParallelTransferManager::DownloadToFile, which fetches the chunks with  *)
(* a pool of threads into a file of its full size beside the output and    *)
(* leaves that file for a later run when it is paused or dies.             *)
(*                                                                         *)
(* A chunk stands for its bytes; a block of the local file is a chunk, a   *)
(* hole (never written) or torn (written in part).                         *)
(***************************************************************************)
EXTENDS Integers, Sequences, FiniteSets

CONSTANTS
  ChunkSize,  \* CHUNK_SIZE, 1 MB
  SizeOf,     \* the size of each chunk
  Versions,   \* rows of `files' the name may have: size and chunks
  NodesOf,    \* the sequence of nodes that the row of each chunk names
  Serving,    \* sets of pairs of a chunk and a node that may serve it undamaged
  Stale,      \* local files that may be there from earlier downloads
  Faults,     \* of "row_changes", "disk_full"
  MaxRuns     \* how often the command is run

NoRow == [size |-> 0, chunks |-> <<>>, none |-> TRUE]
Version(size, chunks) == [size |-> size, chunks |-> chunks, none |-> FALSE]
NoFile == [size |-> -1, blocks |-> <<>>]
AFile(size, blocks) == [size |-> size, blocks |-> blocks]

Chunk == DOMAIN SizeOf

\* Where a file of this size has blocks: it is cut every ChunkSize bytes.
Blocks(size) == {i \in 1..size : ChunkSize * (i - 1) < size}

IsFile(f) ==
  \/ f = NoFile
  \/ /\ f = AFile(f.size, f.blocks) /\ f.size \in Nat
     /\ f.blocks \in [Blocks(f.size) -> Chunk \cup {"hole", "torn"}]

\* The upload client commits the size of a file with the chunks it cut it into.
ASSUME DownloadAssumption ==
  /\ ChunkSize \in Nat \ {0} /\ MaxRuns \in Nat \ {0}
  /\ Chunk \cap {"hole", "torn"} = {} /\ NodesOf \in [Chunk -> Seq(STRING)]
  /\ \A v \in Versions :
       /\ v = Version(v.size, v.chunks) /\ v.size \in Nat
       /\ v.chunks \in Seq(Chunk) /\ DOMAIN v.chunks = Blocks(v.size)
  /\ \A f \in Stale : IsFile(f)

VARIABLES
  good,      \* the pairs of a chunk and a node that serves it undamaged
  row,       \* the row of `files' with the name
  pc,        \* where the command is
  state,     \* TransferState
  manifest,  \* the plan it received: size and chunks
  temp,      \* the local file with the temporary extension
  output,    \* the local file under the name the user asked for
  at,        \* slot of ordered_chunks that a loop has come to
  completed, \* chunk_completed
  jobs,      \* tasks of the pool: slot -> replica it asks next
  failed,    \* slots whose future holds an exception
  badbit,    \* shared_file has failed
  signals,   \* how often Ctrl+C was pressed in this run
  runs

vars == <<good, row, pc, state, manifest, temp, output, at, completed, jobs, failed, badbit,
          signals, runs>>

Least(x, y) == IF x < y THEN x ELSE y
Empty == [x \in {} |-> x]

\* ordered_chunks: the slots of the plan, and how the size is cut over them.
Slots == 1..Len(manifest.chunks)
Slice(i) == LET rest == manifest.size - ChunkSize * (i - 1)
            IN IF rest < 0 THEN 0 ELSE Least(ChunkSize, rest)
TotalSize == Least(manifest.size, ChunkSize * Len(manifest.chunks))

\* The size and the chunks of a plan may be of two rows.
Plans == {Version(v.size, w.chunks) : v \in Versions \cup {NoRow},
                                      w \in Versions \cup {NoRow}}

TypeOK ==
  /\ good \in Serving
  /\ row \in Versions \cup {NoRow}
  /\ pc \in {"start", "planning", "allocate", "verify", "dispatch", "await", "rename",
             "done", "error", "paused", "hung", "dead"}
  /\ state \in {"RUNNING", "PAUSED"}
  /\ manifest \in Plans
  /\ IsFile(temp) /\ IsFile(output)
  /\ completed \subseteq Slots /\ failed \subseteq Slots /\ DOMAIN jobs \subseteq Slots
  /\ at \in 1..(Len(manifest.chunks) + 1)
  /\ badbit \in BOOLEAN
  /\ signals \in 0..2
  /\ runs \in 1..MaxRuns

Idle ==
  /\ at' = 1
  /\ completed' = {}
  /\ jobs' = Empty
  /\ failed' = {}
  /\ badbit' = FALSE

Init ==
  /\ good \in Serving
  /\ row \in Versions
  /\ pc = "start" /\ state = "RUNNING" /\ manifest = Version(0, <<>>)
  /\ temp \in Stale \cup {NoFile} /\ output = NoFile
  /\ at = 1 /\ completed = {} /\ jobs = Empty /\ failed = {} /\ badbit = FALSE
  /\ signals = 0 /\ runs = 1

-----------------------------------------------------------------------------
(* The plan.                                                               *)

\* SELECT size; no row is an error.
SelectSize ==
  /\ pc = "start"
  /\ \/ /\ row = NoRow
        /\ pc' = "error"
        /\ UNCHANGED manifest
     \/ /\ row # NoRow
        /\ manifest' = Version(row.size, <<>>)
        /\ pc' = "planning"
  /\ UNCHANGED <<good, row, state, temp, output, at, completed, jobs, failed, badbit, signals, runs>>

\* SELECT of the chunks with their nodes, as it finds the row now.
SelectChunks ==
  /\ pc = "planning"
  /\ manifest' = Version(manifest.size, row.chunks)
  /\ pc' = "allocate"
  /\ UNCHANGED <<good, row, state, temp, output, at, completed, jobs, failed, badbit, signals, runs>>

\* Another client deletes the file, or deletes it and stores another one.
ChangeRow ==
  /\ pc # "planning" \/ "row_changes" \in Faults
  /\ row' \in (Versions \cup {NoRow}) \ {row}
  /\ UNCHANGED <<good, pc, state, manifest, temp, output, at, completed, jobs, failed, badbit, signals, runs>>

-----------------------------------------------------------------------------
(* DownloadToFile.                                                         *)

\* Variant for mutation: the file is always written from the beginning.
Resumable_never == FALSE

\* is_resume
Resumable == temp.size = TotalSize

Holes == [i \in Blocks(TotalSize) |-> "hole"]

\* The file is emptied and extended to its full size.
Allocate ==
  /\ pc = "allocate"
  /\ IF Resumable
     THEN UNCHANGED temp /\ pc' = "verify"
     ELSE temp' = AFile(TotalSize, Holes) /\ pc' = "dispatch"
  /\ UNCHANGED <<good, row, state, manifest, output, at, completed, jobs, failed, badbit, signals, runs>>

\* Variant for mutation: a block that is not a hole has been downloaded.
Intact_written(i) == i \in DOMAIN temp.blocks /\ temp.blocks[i] # "hole"

\* The hash of block i is the one of chunk i.
Intact(i) == i \in DOMAIN temp.blocks /\ temp.blocks[i] = manifest.chunks[i]

\* A slot of the partial file is hashed; the loop also ends when it is paused.
Verify ==
  /\ pc = "verify"
  /\ \/ /\ state = "RUNNING" /\ at \in Slots
        /\ completed' = IF Intact(at) THEN completed \cup {at} ELSE completed
        /\ at' = at + 1
        /\ UNCHANGED pc
     \/ /\ state # "RUNNING" \/ at \notin Slots
        /\ at' = 1
        /\ pc' = "dispatch"
        /\ UNCHANGED completed
  /\ UNCHANGED <<good, row, state, manifest, temp, output, jobs, failed, badbit, signals, runs>>

\* A slot that is not complete is handed to the pool.
Dispatch ==
  /\ pc = "dispatch"
  /\ \/ /\ state = "RUNNING" /\ at \in Slots
        /\ jobs' = IF at \in completed THEN jobs
                   ELSE [i \in DOMAIN jobs \cup {at} |-> IF i = at THEN 1 ELSE jobs[i]]
        /\ at' = at + 1
        /\ UNCHANGED pc
     \/ /\ state # "RUNNING" \/ at \notin Slots
        /\ pc' = "await"
        /\ UNCHANGED <<jobs, at>>
  /\ UNCHANGED <<good, row, state, manifest, temp, output, completed, failed, badbit, signals, runs>>

Without(i) == [j \in DOMAIN jobs \ {i} |-> jobs[j]]

Replicas(i) == NodesOf[manifest.chunks[i]]

\* Variant for mutation: only the first replica is asked.
Exhausted_firstOnly(i) == jobs[i] > 1

\* Every replica has been asked.
Exhausted(i) == jobs[i] > Len(Replicas(i))

\* The replica's answer has the size of the slot, and the hash of the chunk.
Serves(i) ==
  /\ <<manifest.chunks[i], Replicas(i)[jobs[i]]>> \in good
  /\ SizeOf[manifest.chunks[i]] = Slice(i)

\* The answer is good: the block is written, if the stream has not failed
\* before and does not now, which nobody looks at.
Store(i) ==
  \/ /\ ~badbit
     /\ temp' = [temp EXCEPT !.blocks[i] = manifest.chunks[i]]
     /\ UNCHANGED badbit
  \/ /\ ~badbit /\ "disk_full" \in Faults
     /\ temp' = [temp EXCEPT !.blocks[i] = "torn"]
     /\ badbit' = TRUE
  \/ /\ badbit
     /\ UNCHANGED <<temp, badbit>>

\* A thread of the pool asks the next replica for the chunk of slot i.
Fetch(i) ==
  /\ pc \in {"dispatch", "await"} /\ i \in DOMAIN jobs
  /\ \/ /\ Exhausted(i)
        /\ failed' = failed \cup {i}
        /\ jobs' = Without(i)
        /\ UNCHANGED <<temp, badbit>>
     \/ /\ ~Exhausted(i) /\ Serves(i)
        /\ Store(i)
        /\ jobs' = Without(i)
        /\ UNCHANGED failed
     \/ /\ ~Exhausted(i) /\ ~Serves(i)
        /\ jobs' = [jobs EXCEPT ![i] = @ + 1]
        /\ UNCHANGED <<temp, failed, badbit>>
  /\ UNCHANGED <<good, row, pc, state, manifest, output, at, completed, signals, runs>>

\* fut.get() rethrows: the pool is destroyed with its threads waiting in it,
\* which is undefined, and hangs or terminates the process in the build's library.
Rethrow ==
  /\ pc = "await"
  /\ \E i \in failed : \A j \in DOMAIN jobs : i < j
  /\ pc' = "hung"
  /\ UNCHANGED <<good, row, state, manifest, temp, output, at, completed, jobs, failed, badbit, signals, runs>>

\* Every future has a value.  The answer is whether the transfer is running.
Awaited ==
  /\ pc = "await" /\ jobs = Empty /\ failed = {}
  /\ pc' = IF state = "RUNNING" THEN "rename" ELSE "paused"
  /\ UNCHANGED <<good, row, state, manifest, temp, output, at, completed, jobs, failed, badbit, signals, runs>>

Rename ==
  /\ pc = "rename"
  /\ output' = temp
  /\ temp' = NoFile
  /\ pc' = "done"
  /\ UNCHANGED <<good, row, state, manifest, at, completed, jobs, failed, badbit, signals, runs>>

-----------------------------------------------------------------------------
(* The user and the machine.                                               *)

Active == pc \notin {"done", "error", "paused", "hung", "dead"}

\* Ctrl+C: the handler pauses a transfer that is running.  It never cancels one,
\* so that the branch of DownloadFile that removes the local file is not taken.
Interrupt ==
  /\ Active /\ signals < 2
  /\ state' = "PAUSED"
  /\ signals' = signals + 1
  /\ UNCHANGED <<good, row, pc, manifest, temp, output, at, completed, jobs, failed, badbit, runs>>

\* The process dies: the file it is allocating may be left empty, and blocks
\* that are being written torn.
Die ==
  /\ Active
  /\ pc' = "dead"
  /\ \/ UNCHANGED temp
     \/ /\ pc = "allocate" /\ ~Resumable
        /\ temp' = AFile(0, <<>>)
     \/ /\ pc \in {"dispatch", "await"} /\ ~badbit
        /\ \E i \in DOMAIN jobs \cap DOMAIN temp.blocks :
             temp' = [temp EXCEPT !.blocks[i] = "torn"]
  /\ Idle
  /\ UNCHANGED <<good, row, state, manifest, output, signals, runs>>

\* The command is run again.
RunAgain ==
  /\ pc \in {"paused", "dead", "error"} /\ runs < MaxRuns
  /\ runs' = runs + 1
  /\ pc' = "start"
  /\ state' = "RUNNING" /\ signals' = 0
  /\ manifest' = Version(0, <<>>)
  /\ Idle
  /\ UNCHANGED <<good, row, temp, output>>

ClientStep ==
  \/ SelectSize \/ SelectChunks \/ Allocate \/ Verify \/ Dispatch
  \/ (\E i \in Slots : Fetch(i)) \/ Rethrow \/ Awaited \/ Rename

Next == ClientStep \/ ChangeRow \/ Interrupt \/ Die \/ RunAgain

\* The client's threads run and requests to workers are answered or time out.
Spec == Init /\ [][Next]_vars /\ WF_vars(ClientStep)

-----------------------------------------------------------------------------
\* The plan is a version of the file: it did not change between the SELECTs.
PlanSound == \E v \in Versions : manifest = v

\* A file under the name the user asked for is one of the versions of the file,
\* complete: not an older download of another one, nor one that was paused,
\* died or was damaged half-way.  This leaves out what the code does not look
\* at: a stream that has failed, and a plan of two versions.
OutputWhole ==
  output # NoFile /\ ~badbit /\ PlanSound =>
    \E v \in Versions : output = AFile(v.size, v.chunks)

\* A block that has been downloaded is never lost: unless the plan is of another
\* version, no step spoils it, and later runs of the command start from it,
\* whatever ended the earlier ones.
ProgressKept ==
  [][\A v \in Versions : \A i \in DOMAIN v.chunks :
       /\ temp.size = v.size /\ temp.blocks[i] = v.chunks[i]
       /\ pc \in {"allocate", "dispatch", "await"} => manifest = v
       => temp' = NoFile \/ temp'.blocks[i] = v.chunks[i]]_vars

\* No node has the chunk of slot i, undamaged and with the size of the slot.
Lost(i) ==
  \/ SizeOf[manifest.chunks[i]] # Slice(i)
  \/ \A k \in DOMAIN Replicas(i) : <<manifest.chunks[i], Replicas(i)[k]>> \notin good

\* DownloadChunkFromReplica fails over to the end: a task fails only when none of
\* the replicas would do, however many damaged ones there are.
FailsOnlyLost == \A i \in failed : Lost(i)

\* If each chunk has a replica that is undamaged, the command ends with the
\* file, unless it is interrupted or there is no such file; in particular
\* damaged or unreachable replicas before that one do not make it fail.
Delivers == <>(\/ pc \in {"done", "paused", "dead", "error"} \/ state = "PAUSED"
               \/ \E i \in failed : Lost(i))
=============================================================================
