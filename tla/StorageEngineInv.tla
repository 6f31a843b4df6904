-------------------------- MODULE StorageEngineInv --------------------------
(***************************************************************************)
(* The inductive invariants behind the safety properties of StorageEngine. *)
(* They say when a chunk that some client or some file counts on is out of *)
(* the collectors' reach.                                                  *)
(***************************************************************************)
EXTENDS StorageEngine

\* The times assumed of clients: a transfer is shorter than the age at which
\* chunks become orphans, and so is the life of a session up to upload-init.
TransfersTimely == TransferBound <= ExpiryHours
ResumesTimely   == ResumeWindow + NegotiationBound <= ExpiryHours

\* The faults that can lose data; see README.
DataFaults == {"sweep_commit_error", "torn_write", "cleanup_crash"}
DataSafe == TransfersTimely /\ ResumesTimely /\ Faults \cap DataFaults = {}

\* A row the collector cannot tombstone before time t + ExpiryHours has passed.
Protected(h, t) ==
  /\ h \in DOMAIN chunks
  /\ chunks[h].ref_count >= 0
  /\ chunks[h].created_at >= t

Kept(h, t) == Protected(h, t) /\ Available(h)

-----------------------------------------------------------------------------
(* The metadata: holds under every fault.                                  *)

RowsSane ==
  \A h \in DOMAIN chunks : chunks[h].ref_count >= -1 /\ chunks[h].created_at <= now

\* A client that is transferring has a fresh claim on every chunk of its file.
RunSane(c) ==
  /\ run[c].since <= now
  /\ run[c].phase # "idle" => run[c].chunk_hashes \in Contents
  /\ run[c].phase = "transfer" =>
       /\ now <= run[c].since + TransferBound
       /\ run[c].todo \subseteq (DOMAIN run[c].chunk_hashes) \X Worker
       /\ \A h \in Range(run[c].chunk_hashes) : Protected(h, run[c].since)

RunsSane == \A c \in Client : RunSane(c)

MetadataInv == TypeOK /\ ReferencesCounted /\ RowsSane /\ RunsSane

-----------------------------------------------------------------------------
(* The data: holds when no data fault happens.                             *)

\* What a daemon still has to delete, and what it could not, is of its batch.
DaemonSane(m) ==
  /\ gc[m].pc = "idle" => gc[m] = Resting
  /\ gc[m].failed \subseteq gc[m].batch
  /\ \A p \in gc[m].todo : p[1] \in gc[m].batch

\* The replicas of a chunk that counts as purged are gone or still to be asked for.
PurgeComplete(m) ==
  gc[m].pc = "purge" =>
    \A h \in gc[m].batch \ gc[m].failed, w \in Worker :
      h \in disk[w] => <<h, w>> \in gc[m].todo

\* A chunk that is counted as used is stored.
CountedStored == \A h \in DOMAIN chunks : chunks[h].ref_count >= 1 => Available(h)

\* The session on disk and the run in memory agree.
SessionSane(c) ==
  /\ c \notin DOMAIN manifest => log[c] = {}
  /\ c \in DOMAIN manifest => manifest[c].session_timestamp <= now
  /\ run[c].phase = "hashing" => c \notin DOMAIN manifest
  /\ run[c].phase \in {"negotiating", "transfer"} =>
       /\ c \in DOMAIN manifest
       /\ manifest[c].chunk_hashes = run[c].chunk_hashes
       /\ manifest[c].session_timestamp <= run[c].since
  /\ run[c].phase = "negotiating" =>
       /\ run[c].completed \subseteq log[c]
       /\ now <= run[c].since + NegotiationBound
       /\ run[c].completed # {} =>
            run[c].since <= manifest[c].session_timestamp + ResumeWindow
  /\ run[c].phase # "transfer" => run[c].unlogged = {}

\* While the collector cannot have touched them, logged chunks are stored.
LogKept(c) ==
  (c \in DOMAIN manifest /\ now <= manifest[c].session_timestamp + ExpiryHours) =>
    \A i \in log[c] \cap DOMAIN manifest[c].chunk_hashes :
      Kept(manifest[c].chunk_hashes[i], manifest[c].session_timestamp)

\* Every chunk of a file being transferred is stored, or will be everywhere.
TransferComplete(c) ==
  run[c].phase = "transfer" =>
    LET s == run[c].chunk_hashes
    IN  /\ \A i \in DOMAIN s :
             \/ Available(s[i])
             \/ \A w \in chunks[s[i]].nodes : <<i, w>> \in run[c].todo
        /\ \A p \in run[c].todo : p[1] \in DOMAIN s /\ p[2] \in chunks[s[p[1]]].nodes
        /\ \A p \in run[c].unlogged : p[1] \in DOMAIN s /\ Available(s[p[1]])

DataInv ==
  /\ PurgesExclusive
  /\ \A m \in Master : DaemonSane(m) /\ PurgeComplete(m)
  /\ CountedStored
  /\ \A c \in Client : SessionSane(c) /\ LogKept(c) /\ TransferComplete(c)
  /\ NoLeakedBlobs
=============================================================================
