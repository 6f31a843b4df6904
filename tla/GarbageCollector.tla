-------------------------- MODULE GarbageCollector --------------------------
(***************************************************************************)
(* GarbageCollectorDaemon of src/master/main.cpp: one thread per master,   *)
(* all of them on the same database.  A sweep repeats: tombstone a batch   *)
(* of orphans, delete every replica from the workers, remove the rows of   *)
(* the chunks whose every replica is gone, give the other chunks back.     *)
(* The sleep between sweeps is left out: a daemon may sweep at any time.   *)
(***************************************************************************)
EXTENDS MetadataRepository, ChunkWorkers

CONSTANT Master  \* the masters, each with its daemon

VARIABLE gc  \* gc[m]: the state of the daemon of master m

Daemon == [pc : {"idle", "purge", "revert"},
           batch : SUBSET Hash,              \* orphans of this round
           todo : SUBSET (Hash \X Worker),   \* replicas not yet asked for
           failed : SUBSET Hash]             \* some replica was not deleted

ADaemon(pc, batch, todo, failed) ==
  [pc |-> pc, batch |-> batch, todo |-> todo, failed |-> failed]

Resting == ADaemon("idle", {}, {}, {})

GcTypeOK == gc \in [Master -> Daemon]

GcInit == gc = [m \in Master |-> Resting]

\* Where the rows say the replicas of a set of chunks are.
Replicas(hashes) == {p \in hashes \X Worker : p[2] \in chunks[p[1]].nodes}

\* GetOrphanedChunks returned a batch; its replicas are now to be deleted.
Sweep(m) ==
  /\ gc[m].pc = "idle"
  /\ \E batch \in SUBSET Eligible \ {{}} :
       /\ GetOrphanedChunks(batch)
       /\ gc' = [gc EXCEPT ![m] = ADaemon("purge", batch, Replicas(batch), {})]
  /\ UNCHANGED disk

\* The commit of GetOrphanedChunks failed: the exception is logged, nothing is
\* tombstoned, and the batch is returned and purged all the same.
SweepUncommitted(m) ==
  /\ "sweep_commit_error" \in Faults
  /\ gc[m].pc = "idle"
  /\ \E batch \in SUBSET Eligible \ {{}} :
       /\ Cardinality(batch) <= BatchSize
       /\ gc' = [gc EXCEPT ![m] = ADaemon("purge", batch, Replicas(batch), {})]
  /\ UNCHANGED <<repositoryVars, disk>>

\* A worker answered 200 to DELETE /chunk.
DeleteReplica(m, h, w) ==
  /\ <<h, w>> \in gc[m].todo
  /\ DropChunk(w, h)
  /\ gc' = [gc EXCEPT ![m] = ADaemon(@.pc, @.batch, @.todo \ {<<h, w>>}, @.failed)]
  /\ UNCHANGED repositoryVars

\* No 200 within the timeouts: the chunk is not purged.  The worker may have
\* deleted its replica nevertheless.
DeleteReplicaFails(m, h, w) ==
  /\ <<h, w>> \in gc[m].todo
  /\ gc' = [gc EXCEPT ![m] = ADaemon(@.pc, @.batch, @.todo \ {<<h, w>>}, @.failed \cup {h})]
  /\ DropChunk(w, h) \/ UNCHANGED disk
  /\ UNCHANGED repositoryVars

\* Variants for mutation: chunks with a failed deletion are recorded as purged;
\* they are neither recorded nor given back.
RecordPurge_ignoresFailures(m) ==
  /\ gc[m].pc = "purge"
  /\ gc[m].todo = {}
  /\ DeleteChunkRecordsBulk(gc[m].batch)
  /\ gc' = [gc EXCEPT ![m] = Resting]
  /\ UNCHANGED disk
RecordPurge_noRevert(m) ==
  /\ gc[m].pc = "purge"
  /\ gc[m].todo = {}
  /\ DeleteChunkRecordsBulk(gc[m].batch \ gc[m].failed)
  /\ gc' = [gc EXCEPT ![m] = Resting]
  /\ UNCHANGED disk

\* Every future is resolved: bulk-delete the rows of the purged chunks, keep
\* the others for RevertTombstone.  With nothing purged there is no statement.
RecordPurge(m) ==
  /\ gc[m].pc = "purge"
  /\ gc[m].todo = {}
  /\ DeleteChunkRecordsBulk(gc[m].batch \ gc[m].failed)
  /\ gc' = [gc EXCEPT ![m] = IF @.failed = {} THEN Resting
                             ELSE ADaemon("revert", @.failed, {}, {})]
  /\ UNCHANGED disk

\* The bulk delete failed and changed nothing: the whole batch is given back,
\* although its replicas are gone.
RecordPurgeFails(m) ==
  /\ "bulk_delete_error" \in Faults
  /\ gc[m].pc = "purge"
  /\ gc[m].todo = {}
  /\ gc[m].batch # gc[m].failed
  /\ gc' = [gc EXCEPT ![m] = ADaemon("revert", @.batch, {}, {})]
  /\ UNCHANGED <<repositoryVars, disk>>

\* What is left of the batch once the tombstone of h has been dealt with.
AfterRevert(m, h) ==
  IF gc[m].batch = {h} THEN Resting ELSE ADaemon("revert", gc[m].batch \ {h}, {}, {})

RevertOne(m, h) ==
  /\ gc[m].pc = "revert"
  /\ h \in gc[m].batch
  /\ RevertTombstone(h)
  /\ gc' = [gc EXCEPT ![m] = AfterRevert(m, h)]
  /\ UNCHANGED disk

\* RevertTombstone swallows a database error: the tombstone stays.
RevertOneFails(m, h) ==
  /\ "revert_error" \in Faults
  /\ gc[m].pc = "revert"
  /\ h \in gc[m].batch
  /\ gc' = [gc EXCEPT ![m] = AfterRevert(m, h)]
  /\ UNCHANGED <<repositoryVars, disk>>

\* The master process dies and restarts: the batch was only in its memory.
MasterCrash(m) ==
  /\ "master_crash" \in Faults
  /\ gc[m].pc # "idle"
  /\ gc' = [gc EXCEPT ![m] = Resting]
  /\ UNCHANGED <<repositoryVars, disk>>

GcStep(m) ==
  \/ Sweep(m)
  \/ SweepUncommitted(m)
  \/ \E h \in Hash, w \in Worker : DeleteReplica(m, h, w) \/ DeleteReplicaFails(m, h, w)
  \/ RecordPurge(m)
  \/ RecordPurgeFails(m)
  \/ \E h \in Hash : RevertOne(m, h) \/ RevertOneFails(m, h)
  \/ MasterCrash(m)
=============================================================================
