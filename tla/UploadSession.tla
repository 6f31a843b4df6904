--------------------------- MODULE UploadSession ----------------------------
(***************************************************************************)
(* The local side of UploadFile: the file being uploaded, which its owner  *)
(* may edit at any moment, against the stat, hash, transfer and commit     *)
(* that read it one after the other; and the manifest and log that let a   *)
(* later run resume, written and removed in several steps between which    *)
(* the process may die.  The cluster is what the client sees of it: some   *)
(* chunks are missing, a worker checks the hash of what it is sent, any    *)
(* request may fail.                                                       *)
(*                                                                         *)
(* A slice of the file is its contents, which its hash identifies.  Every  *)
(* edit gives the file a new modification time.                            *)
(***************************************************************************)
EXTENDS Integers, Sequences

CONSTANTS
  Slice,        \* contents of a slice
  MaxSlices,    \* bound on the length of the file, in slices
  MaxEdits,     \* bound on the edits
  MaxFailures,  \* bound on crashes and failed requests
  Faults        \* where it may also die: "saving", "cleaning"

ASSUME SessionAssumption ==
  /\ MaxSlices \in Nat \ {0}
  /\ MaxEdits \in Nat /\ MaxFailures \in Nat
  /\ Faults \subseteq {"saving", "cleaning"}

\* A manifest that is absent or not JSON.
Unreadable(state) == [state |-> state, hashes |-> <<>>, size |-> 0, mtime |-> 0]

Contents == UNION {[1..n -> Slice] : n \in 1..MaxSlices}

VARIABLES
  file,       \* what the file holds and when it was modified
  manifest,   \* the manifest on disk: whether there is one, and what it says
  log,        \* the positions in the completed log
  pc,         \* "idle", "stat", "load", "unlog", "hash", "save", "write", "init",
              \* "check", "transfer", "commit", "unmanifest" or "cleanup"
  initial,    \* initial_size and actual_modified_time
  hashes,     \* manifest.chunk_hashes, in memory
  completed,  \* manifest.completed_chunks, in memory
  tasks,      \* pending_tasks: positions
  committed,  \* whether the master has the file, with which hashes and size
  failures,   \* crashes and failed requests so far
  since,      \* history: what the file held at some moment of this run
  sent        \* history: the slices a worker has acknowledged

runVars == <<pc, initial, hashes, completed, tasks>>
vars == <<file, manifest, log, runVars, committed, failures, since, sent>>

TypeOK ==
  /\ file \in [data : Contents, mtime : 0..MaxEdits]
  /\ manifest \in [state : {"none", "torn", "saved"}, hashes : Seq(Slice),
                   size : Nat, mtime : 0..MaxEdits]
  /\ log \subseteq 1..MaxSlices
  /\ initial \in [size : 0..MaxSlices, mtime : 0..MaxEdits]
  /\ hashes \in Seq(Slice) /\ Len(hashes) <= MaxSlices
  /\ completed \subseteq DOMAIN hashes /\ tasks \subseteq DOMAIN hashes
  /\ committed \in [done : BOOLEAN, hashes : Seq(Slice), size : Nat]
  /\ failures \in 0..MaxFailures
  /\ since \subseteq Contents /\ sent \subseteq Slice

Init ==
  /\ file \in [data : Contents, mtime : {0}]
  /\ manifest = Unreadable("none") /\ log = {}
  /\ pc = "idle"
  /\ initial = [size |-> 0, mtime |-> 0] /\ hashes = <<>> /\ completed = {} /\ tasks = {}
  /\ committed = [done |-> FALSE, hashes |-> <<>>, size |-> 0]
  /\ failures = 0 /\ since = {} /\ sent = {}

\* The run goes from one stage to the next.
Step(from, to) == pc = from /\ pc' = to

\* Variant for mutation: only the size is compared.
Unmodified_sizeOnly == Len(file.data) = initial.size

\* The file is as it was when the run looked first.
Unmodified == Len(file.data) = initial.size /\ file.mtime = initial.mtime

-----------------------------------------------------------------------------
\* The command is given; the file has not been committed yet.  The size ..
Start ==
  /\ Step("idle", "stat")
  /\ ~committed.done
  /\ initial' = [initial EXCEPT !.size = Len(file.data)]
  /\ hashes' = <<>> /\ completed' = {} /\ tasks' = {}
  /\ since' = {file.data}
  /\ UNCHANGED <<file, manifest, log, committed, failures, sent>>

\* .. and then the modification time is read.
Stat ==
  /\ Step("stat", "load")
  /\ initial' = [initial EXCEPT !.mtime = file.mtime]
  /\ UNCHANGED <<file, manifest, log, hashes, completed, tasks, committed, failures, since, sent>>

NoSession ==
  /\ manifest.state = "none"
  /\ Step("load", "hash")
  /\ UNCHANGED <<file, manifest, log, initial, hashes, completed, tasks, committed, failures, since, sent>>

\* LoadUploadManifest throws on a file that is not JSON, out of UploadFile.
LoadThrows ==
  /\ manifest.state = "torn"
  /\ Step("load", "idle")
  /\ UNCHANGED <<file, manifest, log, initial, hashes, completed, tasks, committed, failures, since, sent>>

Current(m) == m.size = initial.size /\ m.mtime = initial.mtime

Resume ==
  /\ manifest.state = "saved" /\ Current(manifest)
  /\ Step("load", IF manifest.hashes = <<>> THEN "hash" ELSE "init")
  /\ hashes' = manifest.hashes
  /\ completed' = log \cap DOMAIN manifest.hashes
  /\ UNCHANGED <<file, manifest, log, initial, tasks, committed, failures, since, sent>>

\* Variants for mutation: the old session is refused and left as it is; its
\* log is left.
Discard_refuses ==
  /\ manifest.state = "saved" /\ ~Current(manifest)
  /\ Step("load", "idle")
  /\ UNCHANGED <<file, manifest, log, initial, hashes, completed, tasks, committed, failures, since, sent>>

Discard_keepsLog ==
  /\ manifest.state = "saved"
  /\ Step("load", "hash")
  /\ manifest' = Unreadable("none")
  /\ UNCHANGED <<file, log, initial, hashes, completed, tasks, committed, failures, since, sent>>

\* The file was modified since, or the session is older than 23 hours, which
\* any session may be: DeleteUploadManifest, first the manifest, then the log.
Discard ==
  /\ manifest.state = "saved"
  /\ Step("load", "unlog")
  /\ manifest' = Unreadable("none")
  /\ UNCHANGED <<file, log, initial, hashes, completed, tasks, committed, failures, since, sent>>

DiscardLog ==
  /\ Step("unlog", "hash")
  /\ log' = {}
  /\ UNCHANGED <<file, manifest, initial, hashes, completed, tasks, committed, failures, since, sent>>

\* ComputeHashes reads the next slice, as the file is now, until it ends.
HashSlice ==
  /\ pc = "hash" /\ Len(hashes) < Len(file.data)
  /\ hashes' = Append(hashes, file.data[Len(hashes) + 1])
  /\ UNCHANGED <<file, manifest, log, pc, initial, completed, tasks, committed, failures, since, sent>>

Hashed ==
  /\ Len(hashes) >= Len(file.data)
  /\ Step("hash", "save")
  /\ UNCHANGED <<file, manifest, log, initial, hashes, completed, tasks, committed, failures, since, sent>>

\* SaveUploadManifest opens the file, which empties it, and writes.
OpenManifest ==
  /\ Step("save", "write")
  /\ manifest' = Unreadable("torn")
  /\ UNCHANGED <<file, log, initial, hashes, completed, tasks, committed, failures, since, sent>>

WriteManifest ==
  /\ Step("write", "init")
  /\ manifest' = [state |-> "saved", hashes |-> hashes,
                  size |-> initial.size, mtime |-> initial.mtime]
  /\ UNCHANGED <<file, log, initial, hashes, completed, tasks, committed, failures, since, sent>>

\* upload-init names the chunks that are missing; what is not completed of
\* them is to be sent.
Negotiate ==
  /\ Step("init", "check")
  /\ \E missing \in SUBSET Slice :
       tasks' = {k \in DOMAIN hashes : hashes[k] \in missing} \ completed
  /\ UNCHANGED <<file, manifest, log, initial, hashes, completed, committed, failures, since, sent>>

\* The checks before and after the transfer; a modified file ends the run.
Check ==
  /\ \/ Unmodified /\ Step("check", "transfer")
     \/ Unmodified /\ tasks = {} /\ Step("transfer", "commit")
     \/ ~Unmodified /\ Step("check", "idle")
     \/ ~Unmodified /\ tasks = {} /\ Step("transfer", "idle")
  /\ UNCHANGED <<file, manifest, log, initial, hashes, completed, tasks, committed, failures, since, sent>>

\* ReadChunk reads the slice as it is now; the worker takes it if it has the
\* hash it was announced with, and otherwise the transfer fails.  Positions go
\* to the log in batches, so that a run that dies may leave some of them out.
Send(k) ==
  /\ pc = "transfer" /\ k \in tasks
  /\ IF k <= Len(file.data) /\ file.data[k] = hashes[k]
     THEN /\ tasks' = tasks \ {k}
          /\ log' \in {log, log \cup {k}}
          /\ sent' = sent \cup {hashes[k]}
          /\ UNCHANGED pc
     ELSE pc' = "idle" /\ UNCHANGED <<tasks, log, sent>>
  /\ UNCHANGED <<file, manifest, initial, hashes, completed, committed, failures, since>>

Commit ==
  /\ Step("commit", "unmanifest")
  /\ committed' = [done |-> TRUE, hashes |-> hashes, size |-> initial.size]
  /\ UNCHANGED <<file, manifest, log, initial, hashes, completed, tasks, failures, since, sent>>

RemoveManifest ==
  /\ Step("unmanifest", "cleanup")
  /\ manifest' = Unreadable("none")
  /\ UNCHANGED <<file, log, initial, hashes, completed, tasks, committed, failures, since, sent>>

RemoveLog ==
  /\ Step("cleanup", "idle")
  /\ log' = {}
  /\ UNCHANGED <<file, manifest, initial, hashes, completed, tasks, committed, failures, since, sent>>

-----------------------------------------------------------------------------
\* A request fails or the process dies; in the middle of a save or of a
\* removal only if Faults says so.
Fail ==
  /\ pc # "idle" /\ pc' = "idle"
  /\ pc = "write" => "saving" \in Faults
  /\ pc \in {"unlog", "cleanup"} => "cleaning" \in Faults
  /\ failures < MaxFailures /\ failures' = failures + 1
  /\ UNCHANGED <<file, manifest, log, initial, hashes, completed, tasks, committed, since, sent>>

\* The owner edits the file.
Edit ==
  /\ file.mtime < MaxEdits /\ ~committed.done
  /\ \E data \in Contents \ {file.data} :
       /\ file' = [data |-> data, mtime |-> file.mtime + 1]
       /\ since' = since \cup {data}
  /\ UNCHANGED <<manifest, log, runVars, committed, failures, sent>>

Run == \/ Start \/ Stat \/ NoSession \/ LoadThrows \/ Resume \/ Discard \/ DiscardLog
       \/ HashSlice \/ Hashed \/ OpenManifest \/ WriteManifest \/ Negotiate \/ Check
       \/ (\E k \in 1..MaxSlices : Send(k)) \/ Commit \/ RemoveManifest \/ RemoveLog

Next == Run \/ Fail \/ Edit

\* The command is given again after a run that failed, and a run goes on.
Spec == Init /\ [][Next]_vars /\ WF_vars(Run)

-----------------------------------------------------------------------------
\* What is committed is the file as it was at one moment of the run, whatever
\* its owner did between the stat, the hashing, the transfer and the commit,
\* and whatever manifest the run resumed from: never slices of two versions,
\* and with the size they have.
CommittedIsSnapshot ==
  committed.done =>
    /\ committed.hashes \in since
    /\ committed.size = Len(committed.hashes)

\* The positions a run skips because the log has them are of slices that a
\* worker has acknowledged: manifest and log always belong together.
CompletedWasSent == \A k \in completed : hashes[k] \in sent

\* Once edits and failures stop, running the command again uploads the file: no
\* leftover of an earlier run stands in the way for ever, except a manifest that
\* was being saved when the run died.
RetriesSucceed == <>(committed.done) \/ <>[](manifest.state = "torn")
=============================================================================
