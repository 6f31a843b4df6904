---------------------------- MODULE UploadClient ----------------------------
(***************************************************************************)
(* DSEClient::UploadFile of src/client/DSEClient.cpp with the local state  *)
(* it keeps (src/client/state/LocalStateManager.cpp) and the transfers of  *)
(* src/client/network/ParallelTransferManager.cpp, and RemoveFile.         *)
(*                                                                         *)
(* A client is one local workspace and one file basename in it: the        *)
(* manifest and the log of completed chunks are files keyed by that name.  *)
(* Two clients may be two workspaces of one user and upload the same name. *)
(***************************************************************************)
EXTENDS MetadataRepository, ChunkWorkers

CONSTANTS
  Client,           \* (workspace, basename) pairs
  NameOf,           \* the (user, filename) each client uploads as
  ResumeWindow,     \* hours a manifest may be resumed for (82800 s = 23)
  LogBatch          \* completed replicas that trigger a write of the log (64)

ASSUME ClientAssumption ==
  /\ NameOf \in [Client -> Name]
  /\ ResumeWindow \in Nat
  /\ LogBatch \in Nat \ {0}

VARIABLES
  run,       \* run[c]: the UploadFile call in progress, its variables in memory
  manifest,  \* manifest[c], if c \in DOMAIN manifest: <basename>.manifest.json
  log        \* log[c]: indices in <basename>.completed.log

clientVars == <<run, manifest, log>>

Index == Nat \ {0}

Run == [phase : {"idle", "hashing", "negotiating", "transfer"},
        chunk_hashes : Contents \cup {<<>>},
        completed : SUBSET Index,             \* manifest.completed_chunks
        since : Nat,                          \* when the phase began
        todo : SUBSET (Index \X Worker),      \* uploads that have not succeeded
        unlogged : SUBSET (Index \X Worker)]  \* pending_disk_writes

Manifest == [chunk_hashes : Contents, session_timestamp : Nat]

ARun(phase, chunk_hashes, completed, since, todo, unlogged) ==
  [phase |-> phase, chunk_hashes |-> chunk_hashes, completed |-> completed,
   since |-> since, todo |-> todo, unlogged |-> unlogged]

NoRun == ARun("idle", <<>>, {}, 0, {}, {})

ClientTypeOK ==
  /\ run \in [Client -> Run]
  /\ DOMAIN manifest \subseteq Client
  /\ manifest \in [DOMAIN manifest -> Manifest]
  /\ log \in [Client -> SUBSET Index]

ClientInit ==
  /\ run = [c \in Client |-> NoRun]
  /\ manifest = [c \in {} |-> c]
  /\ log = [c \in Client |-> {}]

-----------------------------------------------------------------------------
(* Local state.                                                            *)

Expired(c) == now - manifest[c].session_timestamp > ResumeWindow

\* Variant for mutation: the log survives.
DeleteUploadManifest_keepsLog(c) ==
  /\ manifest' = [d \in DOMAIN manifest \ {c} |-> manifest[d]]
  /\ UNCHANGED log

\* DeleteUploadManifest removes the manifest, then the log.
DeleteUploadManifest(c) ==
  /\ manifest' = [d \in DOMAIN manifest \ {c} |-> manifest[d]]
  /\ log' = [log EXCEPT ![c] = {}]

\* The indices whose upload to some node succeeded and is not in the log yet.
Unlogged(c) == {p[1] : p \in run[c].unlogged}

-----------------------------------------------------------------------------
(* UploadFile, step by step.                                               *)

\* The call starts: no file of that name exists (or the check failed, which
\* MasterHttpClient::FileExists reports as "does not exist").
Preflight(c) ==
  /\ run[c].phase = "idle"
  /\ ~FileExists(NameOf[c]) \/ "exists_unknown" \in Faults

\* No manifest, or one that is too old or of a file modified since: hash the
\* file, whose contents are now s.
StartFresh(c, s) ==
  /\ Preflight(c)
  /\ run' = [run EXCEPT ![c] = ARun("hashing", s, {}, now, {}, {})]
  /\ IF c \in DOMAIN manifest THEN DeleteUploadManifest(c)
                              ELSE UNCHANGED <<manifest, log>>
  /\ UNCHANGED <<repositoryVars, disk>>

\* The client dies inside DeleteUploadManifest while it discards a session,
\* after the manifest is removed and before the log is.
DiscardHalfCleaned(c) ==
  /\ "cleanup_crash" \in Faults
  /\ Preflight(c)
  /\ c \in DOMAIN manifest
  /\ manifest' = [d \in DOMAIN manifest \ {c} |-> manifest[d]]
  /\ UNCHANGED <<repositoryVars, disk, run, log>>

\* Variant for mutation: the manifest is saved before the hashes are in it.
SaveManifest_unhashed(c) ==
  /\ run[c].phase = "hashing"
  /\ manifest' = [d \in DOMAIN manifest \cup {c} |->
                    IF d = c THEN [chunk_hashes |-> <<>>,
                                   session_timestamp |-> run[c].since]
                             ELSE manifest[d]]
  /\ run' = [run EXCEPT ![c] = ARun("negotiating", @.chunk_hashes, {}, now, {}, {})]
  /\ UNCHANGED <<repositoryVars, disk, log>>

\* SaveUploadManifest.  The session's time is the one read before hashing.
SaveManifest(c) ==
  /\ run[c].phase = "hashing"
  /\ manifest' = [d \in DOMAIN manifest \cup {c} |->
                    IF d = c THEN [chunk_hashes |-> run[c].chunk_hashes,
                                   session_timestamp |-> run[c].since]
                             ELSE manifest[d]]
  /\ run' = [run EXCEPT ![c] = ARun("negotiating", @.chunk_hashes, {}, now, {}, {})]
  /\ UNCHANGED <<repositoryVars, disk, log>>

\* The file is unmodified and the manifest young enough: resume from it and
\* from the log.
StartResume(c) ==
  /\ Preflight(c)
  /\ c \in DOMAIN manifest
  /\ ~Expired(c)
  /\ run' = [run EXCEPT ![c] =
                ARun("negotiating", manifest[c].chunk_hashes,
                     log[c] \cap DOMAIN manifest[c].chunk_hashes, now, {}, {})]
  /\ UNCHANGED <<repositoryVars, disk, manifest, log>>

\* The nodes in the plan that FilterMissingChunks returns for chunk h.
PlanNodes(h, placement) == IF h \in DOMAIN chunks THEN chunks[h].nodes ELSE placement[h]

\* Correlation of the plans with the manifest: every index of a missing chunk
\* that is not completed is to be sent to every node of its plan.
PendingTasks(c, placement) ==
  LET s == run[c].chunk_hashes
  IN  {p \in (DOMAIN s) \X Worker : /\ s[p[1]] \in Missing(s)
                                  /\ p[1] \notin run[c].completed
                                  /\ p[2] \in PlanNodes(s[p[1]], placement)}

\* POST /upload-init succeeds and the client gets the plans.
InitializeUpload(c) ==
  /\ run[c].phase = "negotiating"
  /\ \E placement \in [Absent(run[c].chunk_hashes) -> NodeSets] :
       /\ FilterMissingChunks(run[c].chunk_hashes, placement)
       /\ run' = [run EXCEPT ![c] = ARun("transfer", @.chunk_hashes, @.completed, now,
                                         PendingTasks(c, placement), {})]
  /\ UNCHANGED <<disk, manifest, log>>

\* The master did it, but the answer does not reach the client.
InitializeUploadLost(c) ==
  /\ run[c].phase = "negotiating"
  /\ \E placement \in [Absent(run[c].chunk_hashes) -> NodeSets] :
       FilterMissingChunks(run[c].chunk_hashes, placement)
  /\ run' = [run EXCEPT ![c] = NoRun]
  /\ UNCHANGED <<disk, manifest, log>>

\* UploadChunkToWorker got a 200 for the chunk at index i from node w.  The
\* index is queued for the log as soon as one node has the chunk.
UploadSucceeds(c, i, w) ==
  LET done == run[c].unlogged \cup {<<i, w>>}
      full == Cardinality(done) >= LogBatch
  IN  /\ run[c].phase = "transfer"
      /\ <<i, w>> \in run[c].todo
      /\ PostChunk(w, run[c].chunk_hashes[i])
      /\ log' = [log EXCEPT ![c] = @ \cup (IF full THEN {p[1] : p \in done} ELSE {})]
      /\ run' = [run EXCEPT ![c] = ARun(@.phase, @.chunk_hashes, @.completed, @.since,
                                        @.todo \ {<<i, w>>}, IF full THEN {} ELSE done)]
      /\ UNCHANGED <<repositoryVars, manifest>>

\* The node stored the chunk but its answer is lost: the upload stays undone,
\* to be retried or to fail the run.
UploadLost(c, i, w) ==
  /\ run[c].phase = "transfer"
  /\ <<i, w>> \in run[c].todo
  /\ PostChunk(w, run[c].chunk_hashes[i])
  /\ UNCHANGED <<repositoryVars, clientVars>>

\* The node failed while it was writing the chunk.
UploadTorn(c, i, w) ==
  /\ "torn_write" \in Faults
  /\ run[c].phase = "transfer"
  /\ <<i, w>> \in run[c].todo
  /\ TearChunk(w, run[c].chunk_hashes[i])
  /\ UNCHANGED <<repositoryVars, clientVars>>

\* UploadFile returns false: hashing, negotiation or an upload failed, the
\* user paused, the file changed, or the commit was refused.
Abort(c) ==
  /\ run[c].phase # "idle"
  /\ log' = [log EXCEPT ![c] = @ \cup Unlogged(c)]
  /\ run' = [run EXCEPT ![c] = NoRun]
  /\ UNCHANGED <<repositoryVars, disk, manifest>>

\* The client process dies: what it had not logged is forgotten.
ClientCrash(c) ==
  /\ run[c].phase # "idle"
  /\ run' = [run EXCEPT ![c] = NoRun]
  /\ UNCHANGED <<repositoryVars, disk, manifest, log>>

\* Every upload succeeded, the file is committed, the local state removed.
Commit(c) ==
  /\ run[c].phase = "transfer"
  /\ run[c].todo = {}
  /\ CommitFile(NameOf[c], run[c].chunk_hashes)
  /\ DeleteUploadManifest(c)
  /\ run' = [run EXCEPT ![c] = NoRun]
  /\ UNCHANGED disk

\* Committed, but the client does not learn it or dies: the local state stays.
CommitLost(c) ==
  /\ run[c].phase = "transfer"
  /\ run[c].todo = {}
  /\ CommitFile(NameOf[c], run[c].chunk_hashes)
  /\ log' = [log EXCEPT ![c] = @ \cup Unlogged(c)]
  /\ run' = [run EXCEPT ![c] = NoRun]
  /\ UNCHANGED <<disk, manifest>>

\* Committed, and the client dies inside DeleteUploadManifest, after the
\* manifest is removed and before the log is.
CommitHalfCleaned(c) ==
  /\ "cleanup_crash" \in Faults
  /\ run[c].phase = "transfer"
  /\ run[c].todo = {}
  /\ CommitFile(NameOf[c], run[c].chunk_hashes)
  /\ manifest' = [d \in DOMAIN manifest \ {c} |-> manifest[d]]
  /\ log' = [log EXCEPT ![c] = @ \cup Unlogged(c)]
  /\ run' = [run EXCEPT ![c] = NoRun]
  /\ UNCHANGED disk

\* RemoveFile.  Whether the answer arrives changes nothing here.
Remove(n) ==
  /\ DeleteFile(n)
  /\ UNCHANGED <<disk, clientVars>>

ClientStep(c) ==
  \/ \E s \in Contents : StartFresh(c, s)
  \/ DiscardHalfCleaned(c)
  \/ SaveManifest(c)
  \/ StartResume(c)
  \/ InitializeUpload(c)
  \/ InitializeUploadLost(c)
  \/ \E p \in run[c].todo : \/ UploadSucceeds(c, p[1], p[2])
                            \/ UploadLost(c, p[1], p[2])
                            \/ UploadTorn(c, p[1], p[2])
  \/ Abort(c)
  \/ ClientCrash(c)
  \/ Commit(c)
  \/ CommitLost(c)
  \/ CommitHalfCleaned(c)
=============================================================================
