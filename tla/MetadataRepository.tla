------------------------- MODULE MetadataRepository -------------------------
(***************************************************************************)
(* The tables `chunks' and `files' of db/init.sql and the operations of    *)
(* src/master/PostgresRepository.hpp on them.  Each operation is one       *)
(* PostgreSQL transaction and one step here: the two masters are stateless *)
(* and share this state.                                                   *)
(*                                                                         *)
(* A row of `chunks' exists for every chunk hash the cluster knows of.     *)
(* Its ref_count is -1 for a tombstone (the garbage collector is purging   *)
(* the chunk), 0 for a chunk no file uses yet or any more, and otherwise   *)
(* the number of uses that CommitFile counted.                             *)
(***************************************************************************)
EXTENDS Deployment, Integers, Sequences, FiniteSets, Functions

CONSTANTS
  NodeSets,     \* the sets of nodes the shard map may route a new chunk to
  Name,         \* (user_id, filename) pairs
  FileId,       \* primary keys of `files'; bounds the file rows alive at once
  Contents,     \* the chunk sequences of the files that may be uploaded
  ExpiryHours,  \* age in hours at which an unused chunk is an orphan (24)
  BatchSize,    \* LIMIT of one garbage collection batch (100)
  MaxRef        \* the largest value of the INT column ref_count

ASSUME RepositoryAssumption ==
  /\ NodeSets \subseteq (SUBSET Worker) \ {{}}
  /\ Contents \subseteq Seq(Hash) \ {<<>>}
  /\ ExpiryHours \in Nat
  /\ BatchSize \in Nat \ {0}
  /\ MaxRef \in Nat

VARIABLES
  now,     \* the database's clock, in hours
  chunks,  \* rows of `chunks', keyed by chunk_hash
  files    \* rows of `files', keyed by file_id

repositoryVars == <<now, chunks, files>>

Row  == [nodes : NodeSets, ref_count : Int, created_at : Nat]
File == [name : Name, chunks : Contents]

RepositoryTypeOK ==
  /\ now \in Nat
  /\ DOMAIN chunks \subseteq Hash
  /\ chunks \in [DOMAIN chunks -> Row]
  /\ DOMAIN files \subseteq FileId
  /\ IsFiniteSet(DOMAIN files)
  /\ files \in [DOMAIN files -> File]

RepositoryInit ==
  /\ now = 0
  /\ chunks = [h \in {} |-> h]
  /\ files = [f \in {} |-> f]

\* A row of `chunks'.
ARow(nodes, ref_count, created_at) ==
  [nodes |-> nodes, ref_count |-> ref_count, created_at |-> created_at]

-----------------------------------------------------------------------------
(* Queries.                                                                *)

\* How often chunk h occurs in the chunk sequence s.
Occurrences(s, h) == Cardinality({i \in DOMAIN s : s[i] = h})

\* The file rows that use chunk h.
Holders(h) == {f \in DOMAIN files : h \in Range(files[f].chunks)}

\* The rows that a statement with WHERE user_id = .. AND filename = .. meets.
RowsOf(n) == {f \in DOMAIN files : files[f].name = n}

FileExists(n) == RowsOf(n) # {}

\* A tombstone makes FilterMissingChunks throw CHUNK_LOCKED, which rolls the
\* whole transaction back.
Locked(s) == \E h \in Range(s) \cap DOMAIN chunks : chunks[h].ref_count = -1

\* The chunks of s that have no row.
Absent(s) == Range(s) \ DOMAIN chunks

\* Variant for mutation: pending chunks are taken to be stored.
Missing_onlyAbsent(s) == Absent(s)

\* The chunks of s the client is asked to send, duplicates included: those
\* without a row and those no file uses.
Missing(s) ==
  Absent(s) \cup {h \in Range(s) \cap DOMAIN chunks : chunks[h].ref_count = 0}

-----------------------------------------------------------------------------
(* Operations.                                                             *)

\* Variant for mutation: chunks already known keep their age.
FilterMissingChunks_noRefresh(s, placement) ==
  /\ ~Locked(s)
  /\ chunks' = [h \in DOMAIN chunks \cup Range(s) |->
                  IF h \in DOMAIN chunks
                  THEN chunks[h]
                  ELSE ARow(placement[h], 0, now)]
  /\ UNCHANGED <<now, files>>

\* Registers the chunks of s that have no row yet, at the nodes `placement'
\* that the shard map gives for them, and refreshes the age of the others.
FilterMissingChunks(s, placement) ==
  /\ ~Locked(s)
  /\ chunks' = [h \in DOMAIN chunks \cup Range(s) |->
                  IF h \in Absent(s)
                  THEN ARow(placement[h], 0, now)
                  ELSE IF h \in Range(s)
                       THEN ARow(chunks[h].nodes, chunks[h].ref_count, now)
                       ELSE chunks[h]]
  /\ UNCHANGED <<now, files>>

\* Variant for mutation: the count is set instead of incremented.
CommitFile_setsCount(n, s) ==
  /\ \E f \in FileId \ DOMAIN files :
       files' = [g \in DOMAIN files \cup {f} |->
                   IF g = f THEN [name |-> n, chunks |-> s] ELSE files[g]]
  /\ chunks' = [h \in DOMAIN chunks |->
                  IF h \in Range(s)
                  THEN ARow(chunks[h].nodes, Occurrences(s, h), now)
                  ELSE chunks[h]]
  /\ UNCHANGED now

\* Inserts a file row, whatever rows of that name exist, and counts every
\* occurrence of every chunk.  An UPDATE of a chunk without a row does nothing;
\* one that leaves the range of the column fails the transaction.
CommitFile(n, s) ==
  /\ \A h \in Range(s) \cap DOMAIN chunks :
       chunks[h].ref_count + Occurrences(s, h) <= MaxRef
  /\ \E f \in FileId \ DOMAIN files :
       files' = [g \in DOMAIN files \cup {f} |->
                   IF g = f THEN [name |-> n, chunks |-> s] ELSE files[g]]
  /\ chunks' = [h \in DOMAIN chunks |->
                  IF h \in Range(s)
                  THEN ARow(chunks[h].nodes, chunks[h].ref_count + Occurrences(s, h), now)
                  ELSE chunks[h]]
  /\ UNCHANGED now

\* Variant for mutation: the file row goes, its chunks stay counted.
DeleteFile_keepsCounts(n) ==
  /\ RowsOf(n) # {}
  /\ files' = [f \in DOMAIN files \ RowsOf(n) |-> files[f]]
  /\ UNCHANGED <<now, chunks>>

\* The chunks of one row of that name lose one reference each (= ANY matches a
\* chunk once, however often it occurs); every row of that name is deleted.
DeleteFile(n) ==
  /\ \E f \in RowsOf(n) :
       chunks' = [h \in DOMAIN chunks |->
                    IF h \in Range(files[f].chunks)
                    THEN ARow(chunks[h].nodes, chunks[h].ref_count - 1, chunks[h].created_at)
                    ELSE chunks[h]]
  /\ files' = [f \in DOMAIN files \ RowsOf(n) |-> files[f]]
  /\ UNCHANGED now

\* Variants for mutation: a row is an orphan one hour early; whatever its count.
Eligible_early ==
  {h \in DOMAIN chunks : /\ chunks[h].ref_count = 0
                         /\ chunks[h].created_at <= now - ExpiryHours}
Eligible_anyCount ==
  {h \in DOMAIN chunks : /\ chunks[h].ref_count >= 0
                         /\ chunks[h].created_at < now - ExpiryHours}

\* The rows the sweep's SELECT may lock.
Eligible ==
  {h \in DOMAIN chunks : /\ chunks[h].ref_count = 0
                         /\ chunks[h].created_at < now - ExpiryHours}

\* Variant for mutation: the batch is selected but not tombstoned.
GetOrphanedChunks_noTombstone(batch) ==
  /\ batch \subseteq Eligible
  /\ Cardinality(batch) <= BatchSize
  /\ UNCHANGED repositoryVars

\* Tombstones a batch of orphans.  SKIP LOCKED and LIMIT make it any part of
\* the eligible rows up to the batch size.
GetOrphanedChunks(batch) ==
  /\ batch \subseteq Eligible
  /\ Cardinality(batch) <= BatchSize
  /\ chunks' = [h \in DOMAIN chunks |->
                  IF h \in batch
                  THEN ARow(chunks[h].nodes, -1, chunks[h].created_at)
                  ELSE chunks[h]]
  /\ UNCHANGED <<now, files>>

\* Removes the rows of purged chunks, those still tombstoned.
DeleteChunkRecordsBulk(hashes) ==
  /\ chunks' = [h \in {k \in DOMAIN chunks : ~(k \in hashes /\ chunks[k].ref_count = -1)}
                  |-> chunks[h]]
  /\ UNCHANGED <<now, files>>

\* Makes a tombstoned chunk pending again, with a new age.
RevertTombstone(hash) ==
  /\ chunks' = [h \in DOMAIN chunks |->
                  IF h = hash /\ chunks[h].ref_count = -1
                  THEN ARow(chunks[h].nodes, 0, now)
                  ELSE chunks[h]]
  /\ UNCHANGED <<now, files>>
=============================================================================
