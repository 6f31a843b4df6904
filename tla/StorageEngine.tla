---------------------------- MODULE StorageEngine ---------------------------
(***************************************************************************)
(* The deployment as a whole: clients that upload, resume and remove files *)
(* while the masters' garbage collectors purge unused chunks, over one     *)
(* database and a set of workers.                                          *)
(*                                                                         *)
(* Nothing but time separates a client that relies on a pending chunk from *)
(* a collector that may purge it: the collector takes chunks untouched for *)
(* ExpiryHours, a client resumes a session for ResumeWindow hours and then *)
(* needs some time to talk to the master and to transfer its chunks.  The  *)
(* code bounds neither; the two bounds below make these times explicit.    *)
(***************************************************************************)
EXTENDS GarbageCollector, UploadClient

CONSTANTS
  NegotiationBound,  \* hours from the manifest check to the end of upload-init
  TransferBound,     \* hours from upload-init to the commit
  MaxTime            \* bound on the clock

ASSUME EngineAssumption ==
  /\ NegotiationBound \in Nat
  /\ TransferBound \in Nat
  /\ MaxTime \in Nat

vars == <<repositoryVars, disk, gc, clientVars>>

\* An hour passes, unless that would make a client overstay a phase of its run.
Tick ==
  /\ now < MaxTime
  /\ \A c \in Client :
       /\ run[c].phase = "negotiating" => now < run[c].since + NegotiationBound
       /\ run[c].phase = "transfer" => now < run[c].since + TransferBound
  /\ now' = now + 1
  /\ UNCHANGED <<chunks, files, disk, gc, clientVars>>

Init == RepositoryInit /\ DiskInit /\ GcInit /\ ClientInit

Next ==
  \/ Tick
  \/ \E c \in Client : ClientStep(c) /\ UNCHANGED gc
  \/ \E n \in Name : Remove(n) /\ UNCHANGED gc
  \/ \E m \in Master : GcStep(m) /\ UNCHANGED clientVars

Spec == Init /\ [][Next]_vars

\* A daemon in the middle of a batch goes on: every request has a timeout, so
\* every future is resolved and the loop proceeds.
GcFairness(m) ==
  /\ WF_vars(/\ \E h \in Hash, w \in Worker : \/ DeleteReplica(m, h, w)
                                              \/ DeleteReplicaFails(m, h, w)
             /\ UNCHANGED clientVars)
  /\ WF_vars((RecordPurge(m) \/ RecordPurgeFails(m)) /\ UNCHANGED clientVars)
  /\ WF_vars(/\ \E h \in Hash : RevertOne(m, h) \/ RevertOneFails(m, h)
             /\ UNCHANGED clientVars)

FairSpec == Spec /\ \A m \in Master : GcFairness(m)

-----------------------------------------------------------------------------
(* Properties.                                                             *)

\* Types of all variables.
TypeOK == RepositoryTypeOK /\ DiskTypeOK /\ GcTypeOK /\ ClientTypeOK

\* Reference counting (CommitFile, DeleteFile, GetOrphanedChunks): a chunk that
\* files use has a row, which counts at least those files.  So the collector,
\* which takes rows with count 0, never takes a chunk in use.
ReferencesCounted ==
  \A h \in Hash : Holders(h) # {} =>
    /\ h \in DOMAIN chunks
    /\ chunks[h].ref_count >= Cardinality(Holders(h))

\* A node from which a download of chunk h succeeds.
Available(h) == h \in DOMAIN chunks /\ \E w \in chunks[h].nodes : h \in disk[w]

\* GetDownloadPlan and DownloadChunkFromReplica: every chunk of every committed
\* file can be fetched from one of the nodes its row names.
FilesReadable ==
  \A f \in DOMAIN files : \A h \in Range(files[f].chunks) : Available(h)

\* Two daemons never purge the same chunk, and what they purge is tombstoned, so
\* that upload-init refuses it (GetOrphanedChunks, CHUNK_LOCKED).
PurgesExclusive ==
  /\ \A m \in Master : \A h \in gc[m].batch :
       h \in DOMAIN chunks /\ chunks[h].ref_count = -1
  /\ \A m, k \in Master : m # k => gc[m].batch \cap gc[k].batch = {}

\* A client resumes from its log without asking again for the chunks in it
\* (completed_chunks): while the session may still be resumed, each of them is
\* stored and its row protects it.
ResumableChunksKept ==
  \A c \in DOMAIN manifest : ~Expired(c) =>
    \A i \in log[c] \cap DOMAIN manifest[c].chunk_hashes :
      LET h == manifest[c].chunk_hashes[i]
      IN  Available(h) /\ chunks[h].ref_count # -1

\* Every chunk on a worker is known to the database at that worker: the
\* collector can find it, no disk space leaks (GetOrphanedChunks,
\* DeleteChunkRecordsBulk only after every replica is deleted).
NoLeakedBlobs ==
  \A w \in Worker : \A h \in disk[w] : h \in DOMAIN chunks /\ w \in chunks[h].nodes

\* The uses of chunk h that CommitFile has counted: a file and a position in it.
Uses(h) ==
  UNION {{f} \X {i \in DOMAIN files[f].chunks : files[f].chunks[i] = h} : f \in DOMAIN files}

\* With no file uploaded twice under one name and no chunk twice in a file, the
\* counts are exact: DeleteFile undoes what CommitFile did, and an unused chunk
\* has count 0 and becomes collectable.
ReferencesExact ==
  \A h \in DOMAIN chunks : chunks[h].ref_count # -1 =>
    chunks[h].ref_count = Cardinality(Uses(h))

\* A chunk locked for purging (HTTP 423 "Resource locked. Retry.") is unlocked
\* eventually, because the daemon finishes its batch.
TombstonesResolved ==
  \A h \in Hash : (h \in DOMAIN chunks /\ chunks[h].ref_count = -1)
                   ~> ~(h \in DOMAIN chunks /\ chunks[h].ref_count = -1)

\* A worker loses a replica only if no file uses the chunk and no upload that
\* has negotiated counts on it (DeletePhysicalChunkFromWorkers).
OnlyOrphansErased ==
  [][\A w \in Worker : \A h \in disk[w] \ disk'[w] :
       /\ Holders(h) = {}
       /\ \A c \in Client : run[c].phase = "transfer" => h \notin Range(run[c].chunk_hashes)]_vars

\* "Smart client writes to all returned nodes to maintain configured replication
\* factor" (tests/main.py): every node of a committed chunk's row has the chunk.
FullyReplicated ==
  \A f \in DOMAIN files : \A h \in Range(files[f].chunks) :
    h \in DOMAIN chunks /\ \A w \in chunks[h].nodes : h \in disk[w]

\* "Please delete the existing file ... before uploading a new one with the same
\* name" (DSEClient::UploadFile): no user has two files of one name.
NamesUnique == \A f, g \in DOMAIN files : files[f].name = files[g].name => f = g

\* What a download of file f delivers, chunk by chunk.
ReadsAs(f) ==
  [i \in DOMAIN files[f].chunks |->
     IF Available(files[f].chunks[i]) THEN files[f].chunks[i] ELSE "lost"]

Store == INSTANCE FileStore WITH
  store <- [f \in DOMAIN files |-> [name |-> files[f].name, data |-> ReadsAs(f)]]

\* Clients, masters and workers together implement FileStore: a committed file
\* reads back unchanged until it is removed.
ImplementsFileStore == Store!Spec
=============================================================================
