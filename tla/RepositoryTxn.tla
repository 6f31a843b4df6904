--------------------------- MODULE RepositoryTxn ----------------------------
(***************************************************************************)
(* The transactions of src/master/PostgresRepository.hpp statement by      *)
(* statement.  MetadataRepository takes every operation of the repository  *)
(* as one step; here the statements of transactions that run at the same   *)
(* time interleave as PostgreSQL lets them at READ COMMITTED, the level of *)
(* pqxx::work:                                                             *)
(*   - a SELECT takes no lock and sees what is committed, and the writes   *)
(*     of its own transaction;                                             *)
(*   - an UPDATE locks its rows until the transaction ends, waits for a    *)
(*     row somebody else has locked, and is then applied to the row as it  *)
(*     is committed by then;                                               *)
(*   - FOR UPDATE SKIP LOCKED passes over locked rows;                     *)
(*   - INSERT .. ON CONFLICT waits for an uncommitted row with its key.    *)
(* A transaction that consists of one statement is one step, and a DELETE  *)
(* or INSERT that is followed by COMMIT is one step with it.               *)
(*                                                                         *)
(* A behaviour is shorter than the collector's 24 hours, so that a row     *)
(* that was touched in it (`fresh') is not an orphan before its end.       *)
(***************************************************************************)
EXTENDS Integers, Sequences, FiniteSets, Functions

CONSTANTS
  Hash, Node, Name,
  Upload,      \* uploads: an upload-init, a transfer and a commit each
  Delete,      \* requests to delete a file
  Collector,   \* collection batches
  ChunksOf,    \* the chunks of the file each upload sends
  NameOf,      \* the (user_id, filename) of each upload and each delete
  Starts,      \* the committed rows of `chunks' and `files' at the beginning
  Route,       \* active_nodes of the cluster all buckets map to, at the beginning
  Reroutes,    \* what an administrator may replace it by
  BatchSize,   \* LIMIT of a batch
  LateDeletes  \* a worker may delete after the collector's read timeout

Session == Upload \cup Delete     \* transactions of several statements
Process == Session \cup Collector

Row == [nodes : SUBSET Node, ref_count : Int, fresh : BOOLEAN]
File == [name : Name, chunks : Seq(Hash)]

\* A set of rows, keyed by chunk_hash.
IsTable(rows) == DOMAIN rows \subseteq Hash /\ rows \in [DOMAIN rows -> Row]

ASSUME TxnAssumption ==
  /\ Upload \cap Delete = {} /\ Session \cap Collector = {}
  /\ ChunksOf \in [Upload -> Seq(Hash)]
  /\ NameOf \in [Session -> Name]
  /\ \A start \in Starts :
       IsTable(start.rows) /\ \A f \in DOMAIN start.files : start.files[f] \in File
  /\ Reroutes \cup {Route} \subseteq (SUBSET Node) \ {{}}
  /\ BatchSize \in Nat \ {0}
  /\ LateDeletes \in BOOLEAN

VARIABLES
  chunks,  \* committed rows of `chunks', keyed by chunk_hash
  files,   \* committed rows of `files'
  route,   \* active_nodes of the cluster, as the shard map resolves to it
  stored,  \* the replicas on the workers: pairs of chunk and node
  late,    \* replicas whose deletion a worker has still to carry out
  pc,      \* the statement each process executes next
  draft,   \* uncommitted row versions of each session; it holds their locks
  at,      \* upload: index of the chunk its loop is at
  read,    \* upload: what its last SELECT returned
  plan,    \* upload: the nodes it is told to send each missing chunk to
  todo,    \* delete: rows left to decrement; collector: chunks left to purge
  purged   \* collector: chunks whose replicas are all deleted

txnVars == <<chunks, files, route, stored, late, pc, draft, at, read, plan, todo, purged>>

Empty == [x \in {} |-> x]

\* The function f over g.
Over(f, g) == [x \in DOMAIN f \cup DOMAIN g |-> IF x \in DOMAIN f THEN f[x] ELSE g[x]]

ARow(nodes, ref_count, fresh) ==
  [nodes |-> nodes, ref_count |-> ref_count, fresh |-> fresh]

TypeOK ==
  /\ IsTable(chunks)
  /\ \A f \in DOMAIN files : files[f] \in File
  /\ route \in Reroutes \cup {Route}
  /\ stored \subseteq Hash \X Node /\ late \subseteq Hash \X Node
  /\ pc \in [Process -> {"select", "insert", "refresh", "transfer", "increment",
                         "decrement", "sweep", "purge", "done", "failed"}]
  /\ DOMAIN draft = Session /\ \A t \in Session : IsTable(draft[t])
  /\ at \in [Upload -> Nat \ {0}]
  /\ read \in [Upload -> Row]
  /\ DOMAIN plan = Upload
  /\ \A u \in Upload : DOMAIN plan[u] \subseteq Hash /\ plan[u] \in [DOMAIN plan[u] -> SUBSET Node]
  /\ todo \in [Delete \cup Collector -> SUBSET Hash]
  /\ purged \in [Collector -> SUBSET Hash]

Init ==
  /\ \E start \in Starts : chunks = start.rows /\ files = start.files
  /\ route = Route
  /\ stored = {r \in Hash \X Node : r[1] \in DOMAIN chunks /\ r[2] \in chunks[r[1]].nodes}
  /\ late = {}
  /\ pc = [p \in Process |-> IF p \in Collector THEN "sweep" ELSE "select"]
  /\ draft = [t \in Session |-> Empty]
  /\ at = [u \in Upload |-> 1]
  /\ read = [u \in Upload |-> ARow({}, 0, FALSE)]
  /\ plan = [u \in Upload |-> Empty]
  /\ todo = [p \in Delete \cup Collector |-> {}]
  /\ purged = [c \in Collector |-> {}]

-----------------------------------------------------------------------------
(* Statements and transactions, as PostgreSQL runs them.                   *)

\* What a SELECT of session t sees.
Visible(t) == Over(draft[t], chunks)

\* No other session has row h locked.
Free(h, t) == \A u \in Session \ {t} : h \notin DOMAIN draft[u]

\* Session t writes row h.
Put(t, h, row) == draft' = [draft EXCEPT ![t] = Over([x \in {h} |-> row], @)]

\* UPDATE of row h by session t: nothing if it sees no such row, and otherwise
\* once the row is not locked by another session, to the value `row'.
UpdateRow(t, h, row) ==
  \/ /\ h \notin DOMAIN Visible(t)
     /\ UNCHANGED draft
  \/ /\ h \in DOMAIN Visible(t)
     /\ Free(h, t)
     /\ Put(t, h, row)

Publish(t) ==
  /\ chunks' = Visible(t)
  /\ draft' = [draft EXCEPT ![t] = Empty]

\* Variant for mutation: an exception leaves the transaction open.
Rollback_keepsLocks(t) == UNCHANGED draft

\* The transaction object goes out of scope: its writes and its locks are gone.
Rollback(t) == draft' = [draft EXCEPT ![t] = Empty]

Goto(p, where) == pc' = [pc EXCEPT ![p] = where]

-----------------------------------------------------------------------------
(* FilterMissingChunks, the transfer it asks for, and CommitFile.          *)

\* The chunk the loop of upload u is at.
Current(u) == ChunksOf[u][at[u]]

AtChunk(u, where) == pc[u] = where /\ at[u] <= Len(ChunksOf[u])

Advance(u) == at' = [at EXCEPT ![u] = @ + 1]

PlanFor(u, h, nodes) == plan' = [plan EXCEPT ![u] = Over([x \in {h} |-> nodes], @)]

\* Reads the row of the current chunk, without a lock.  A tombstone throws
\* CHUNK_LOCKED; for a chunk without a row the shard map is consulted.
Select(u) ==
  /\ AtChunk(u, "select")
  /\ LET h == Current(u)
         seen == Visible(u)
     IN \/ /\ h \notin DOMAIN seen
           /\ read' = [read EXCEPT ![u] = ARow(route, 0, TRUE)]
           /\ Goto(u, "insert")
           /\ UNCHANGED draft
        \/ /\ h \in DOMAIN seen /\ seen[h].ref_count = -1
           /\ Rollback(u)
           /\ Goto(u, "failed")
           /\ UNCHANGED read
        \/ /\ h \in DOMAIN seen /\ seen[h].ref_count # -1
           /\ read' = [read EXCEPT ![u] = seen[h]]
           /\ Goto(u, "refresh")
           /\ UNCHANGED draft
  /\ UNCHANGED <<chunks, files, route, stored, late, at, plan, todo, purged>>

\* INSERT .. ON CONFLICT DO NOTHING; the plan is the one computed from the
\* shard map, whether the row went in or not.
Insert(u) ==
  /\ AtChunk(u, "insert")
  /\ LET h == Current(u)
     IN /\ \/ h \in DOMAIN chunks /\ UNCHANGED draft
           \/ h \notin DOMAIN chunks /\ Free(h, u) /\ Put(u, h, read[u])
        /\ PlanFor(u, h, read[u].nodes)
  /\ Advance(u)
  /\ Goto(u, "select")
  /\ UNCHANGED <<chunks, files, route, stored, late, read, todo, purged>>

\* Variants for mutation: the row is written back as it was read; a pending
\* chunk is taken to be stored.
Refresh_writesBack(u) ==
  /\ AtChunk(u, "refresh")
  /\ LET h == Current(u)
     IN /\ UpdateRow(u, h, ARow(read[u].nodes, read[u].ref_count, TRUE))
        /\ IF read[u].ref_count = 0
           THEN PlanFor(u, h, read[u].nodes)
           ELSE UNCHANGED plan
  /\ Advance(u)
  /\ Goto(u, "select")
  /\ UNCHANGED <<chunks, files, route, stored, late, read, todo, purged>>

Refresh_noPlan(u) ==
  /\ AtChunk(u, "refresh")
  /\ LET h == Current(u)
     IN UpdateRow(u, h, ARow(Visible(u)[h].nodes, Visible(u)[h].ref_count, TRUE))
  /\ Advance(u)
  /\ Goto(u, "select")
  /\ UNCHANGED <<chunks, files, route, stored, late, read, plan, todo, purged>>

\* UPDATE .. SET created_at; the chunk is missing if its count was read as 0.
Refresh(u) ==
  /\ AtChunk(u, "refresh")
  /\ LET h == Current(u)
     IN /\ UpdateRow(u, h, ARow(Visible(u)[h].nodes, Visible(u)[h].ref_count, TRUE))
        /\ IF read[u].ref_count = 0
           THEN PlanFor(u, h, read[u].nodes)
           ELSE UNCHANGED plan
  /\ Advance(u)
  /\ Goto(u, "select")
  /\ UNCHANGED <<chunks, files, route, stored, late, read, todo, purged>>

CommitInit(u) ==
  /\ pc[u] = "select" /\ at[u] > Len(ChunksOf[u])
  /\ Publish(u)
  /\ Goto(u, "transfer")
  /\ UNCHANGED <<files, route, stored, late, at, read, plan, todo, purged>>

\* The client stores every missing chunk on every node of its plan.
Transfer(u) ==
  /\ pc[u] = "transfer"
  /\ stored' = stored \cup {r \in Hash \X Node :
                              r[1] \in DOMAIN plan[u] /\ r[2] \in plan[u][r[1]]}
  /\ at' = [at EXCEPT ![u] = 1]
  /\ Goto(u, "increment")
  /\ UNCHANGED <<chunks, files, route, late, draft, read, plan, todo, purged>>

Increment(u) ==
  /\ AtChunk(u, "increment")
  /\ LET h == Current(u)
     IN UpdateRow(u, h, ARow(Visible(u)[h].nodes, Visible(u)[h].ref_count + 1, TRUE))
  /\ Advance(u)
  /\ UNCHANGED <<chunks, files, route, stored, late, pc, read, plan, todo, purged>>

\* The row of `files' is inserted first and visible only now.
CommitUpload(u) ==
  /\ pc[u] = "increment" /\ at[u] > Len(ChunksOf[u])
  /\ files' = Over([x \in {u} |-> [name |-> NameOf[u], chunks |-> ChunksOf[u]]], files)
  /\ Publish(u)
  /\ Goto(u, "done")
  /\ UNCHANGED <<route, stored, late, at, read, plan, todo, purged>>

-----------------------------------------------------------------------------
(* DeleteFile.                                                             *)

RowsNamed(n) == {f \in DOMAIN files : files[f].name = n}

SelectFile(d) ==
  /\ pc[d] = "select"
  /\ \/ /\ RowsNamed(NameOf[d]) = {}
        /\ Goto(d, "done")
        /\ UNCHANGED todo
     \/ \E f \in RowsNamed(NameOf[d]) :
          /\ todo' = [todo EXCEPT ![d] = Range(files[f].chunks)]
          /\ Goto(d, "decrement")
  /\ UNCHANGED <<chunks, files, route, stored, late, draft, at, read, plan, purged>>

\* The UPDATE reaches row h of the array, in an order of PostgreSQL's choice.
Decrement(d, h) ==
  /\ pc[d] = "decrement" /\ h \in todo[d]
  /\ UpdateRow(d, h, ARow(Visible(d)[h].nodes, Visible(d)[h].ref_count - 1, Visible(d)[h].fresh))
  /\ todo' = [todo EXCEPT ![d] = @ \ {h}]
  /\ UNCHANGED <<chunks, files, route, stored, late, pc, at, read, plan, purged>>

CommitDelete(d) ==
  /\ pc[d] = "decrement" /\ todo[d] = {}
  /\ files' = [f \in DOMAIN files \ RowsNamed(NameOf[d]) |-> files[f]]
  /\ Publish(d)
  /\ Goto(d, "done")
  /\ UNCHANGED <<route, stored, late, at, read, plan, todo, purged>>

-----------------------------------------------------------------------------
(* The collector: GetOrphanedChunks, the deletion of replicas, and         *)
(* RevertTombstone or DeleteChunkRecordsBulk.                              *)

\* Orphans that no session has locked.
Orphans == {h \in DOMAIN chunks : /\ chunks[h].ref_count = 0
                                  /\ ~chunks[h].fresh
                                  /\ \A t \in Session : h \notin DOMAIN draft[t]}

\* Variant for mutation: the batch is read without being tombstoned.
Sweep_noTombstone(c) ==
  /\ pc[c] = "sweep"
  /\ \E batch \in SUBSET Orphans :
       /\ Cardinality(batch) <= BatchSize
       /\ batch = Orphans \/ Cardinality(batch) = BatchSize
       /\ todo' = [todo EXCEPT ![c] = batch]
       /\ Goto(c, "purge")
  /\ UNCHANGED <<chunks, files, route, stored, late, draft, at, read, plan, purged>>

Sweep(c) ==
  /\ pc[c] = "sweep"
  /\ \E batch \in SUBSET Orphans :
       /\ Cardinality(batch) <= BatchSize
       /\ batch = Orphans \/ Cardinality(batch) = BatchSize
       /\ chunks' = [h \in DOMAIN chunks |->
                       IF h \in batch THEN [chunks[h] EXCEPT !.ref_count = -1] ELSE chunks[h]]
       /\ todo' = [todo EXCEPT ![c] = batch]
       /\ Goto(c, "purge")
  /\ UNCHANGED <<files, route, stored, late, draft, at, read, plan, purged>>

Replicas(h) == {<<h, n>> : n \in chunks[h].nodes}

\* Every replica of h is deleted.
PurgeChunk(c, h) ==
  /\ pc[c] = "purge" /\ h \in todo[c]
  /\ stored' = stored \ Replicas(h)
  /\ todo' = [todo EXCEPT ![c] = @ \ {h}]
  /\ purged' = [purged EXCEPT ![c] = @ \cup {h}]
  /\ UNCHANGED <<chunks, files, route, late, pc, draft, at, read, plan>>

\* A replica of h was not deleted, or not in time: the chunk is made pending
\* again.  Some of the workers that did not answer have the request.
RevertChunk(c, h) ==
  /\ pc[c] = "purge" /\ h \in todo[c]
  /\ Free(h, c)
  /\ \E gone \in SUBSET Replicas(h) :
       /\ gone # Replicas(h)
       /\ stored' = stored \ gone
       /\ \E pending \in SUBSET (Replicas(h) \ gone) :
            /\ LateDeletes \/ pending = {}
            /\ late' = late \cup pending
  /\ chunks' = [k \in DOMAIN chunks |->
                  IF k = h /\ chunks[k].ref_count = -1 THEN ARow(chunks[k].nodes, 0, TRUE)
                                                       ELSE chunks[k]]
  /\ todo' = [todo EXCEPT ![c] = @ \ {h}]
  /\ UNCHANGED <<files, route, pc, draft, at, read, plan, purged>>

\* A worker gets round to it.
LateDelete(r) ==
  /\ stored' = stored \ {r}
  /\ late' = late \ {r}
  /\ UNCHANGED <<chunks, files, route, pc, draft, at, read, plan, todo, purged>>

BulkDelete(c) ==
  /\ pc[c] = "purge" /\ todo[c] = {}
  /\ \A h \in purged[c] : Free(h, c)
  /\ chunks' = [h \in {k \in DOMAIN chunks : ~(k \in purged[c] /\ chunks[k].ref_count = -1)}
                  |-> chunks[h]]
  /\ Goto(c, "done")
  /\ UNCHANGED <<files, route, stored, late, draft, at, read, plan, todo, purged>>

-----------------------------------------------------------------------------
(* Failures and the administrator.                                         *)

Running(t) == pc[t] \notin {"done", "failed"}

\* A session ends early: its connection is lost, the client goes away.
Fail(t) ==
  /\ Running(t)
  /\ Rollback(t)
  /\ Goto(t, "failed")
  /\ UNCHANGED <<chunks, files, route, stored, late, at, read, plan, todo, purged>>

\* The rows session t is about to write.
Wanted(t) ==
  IF t \in Delete
  THEN IF pc[t] = "decrement" THEN todo[t] ELSE {}
  ELSE IF pc[t] \in {"insert", "refresh", "increment"} /\ at[t] <= Len(ChunksOf[t])
       THEN {Current(t)} ELSE {}

\* Every session of a set waits for another one of it.
Deadlocked(S) ==
  \A t \in S :
    /\ Wanted(t) # {}
    /\ \A h \in Wanted(t) :
         /\ (h \in DOMAIN chunks) # (pc[t] = "insert")
         /\ \E u \in S \ {t} : h \in DOMAIN draft[u]

\* PostgreSQL detects the deadlock and fails one of its sessions.
BreakDeadlock(t) ==
  /\ \E h \in Wanted(t) : ~Free(h, t)
  /\ \E S \in SUBSET Session : t \in S /\ Deadlocked(S)
  /\ Rollback(t)
  /\ Goto(t, "failed")
  /\ UNCHANGED <<chunks, files, route, stored, late, at, read, plan, todo, purged>>

\* ReplaceCluster gives the cluster other nodes.
Reroute ==
  /\ route' \in Reroutes \ {route}
  /\ UNCHANGED <<chunks, files, stored, late, pc, draft, at, read, plan, todo, purged>>

UploadStep(u) == \/ Select(u) \/ Insert(u) \/ Refresh(u) \/ CommitInit(u)
                 \/ Transfer(u) \/ Increment(u) \/ CommitUpload(u)

DeleteStep(d) == SelectFile(d) \/ (\E h \in Hash : Decrement(d, h)) \/ CommitDelete(d)

CollectorStep(c) == \/ Sweep(c) \/ BulkDelete(c)
                    \/ \E h \in Hash : PurgeChunk(c, h) \/ RevertChunk(c, h)

Progress ==
  \/ \E u \in Upload : UploadStep(u)
  \/ \E d \in Delete : DeleteStep(d)
  \/ \E c \in Collector : CollectorStep(c)
  \/ \E t \in Session : BreakDeadlock(t)

Next ==
  \/ Progress
  \/ \E t \in Session : Fail(t)
  \/ \E r \in late : LateDelete(r)
  \/ Reroute

\* While statements can run, one of them does, and PostgreSQL breaks deadlocks;
\* nothing is assumed of failures or of the administrator.
Spec == Init /\ [][Next]_txnVars /\ WF_txnVars(Progress)

-----------------------------------------------------------------------------
\* The number of uses of chunk h by committed files.
Uses(h) == Cardinality({f \in DOMAIN files : h \in Range(files[f].chunks)})

\* Whatever statements of upload-inits, commits, deletes and sweeps run in
\* between, the count of a row is the number of committed files that use its
\* chunk, and a tombstoned chunk has none: no update of ref_count is lost.
CountsExact ==
  \A h \in DOMAIN chunks :
    IF chunks[h].ref_count = -1 THEN Uses(h) = 0 ELSE chunks[h].ref_count = Uses(h)

\* An upload-init lost the race to insert the row of chunk h, and the nodes of
\* the cluster were replaced before the winner read them or after it.
Misrouted(h) == \E u \in Upload : h \in DOMAIN plan[u] /\ plan[u][h] # chunks[h].nodes

\* A committed file can be downloaded: each of its chunks has a row, and, unless
\* an upload was misrouted, a worker the row names has a replica.
CommittedFilesStored ==
  \A f \in DOMAIN files : \A h \in Range(files[f].chunks) :
    h \in DOMAIN chunks /\ (Replicas(h) \cap stored # {} \/ Misrouted(h))

\* A replica goes only while the row that names it is tombstoned, unless its
\* worker is late: from a chunk that RevertTombstone gave back as one that
\* "failed deletion", and that uploads may use again, nothing else is deleted.
DeletesTombstoned ==
  [][\A r \in stored \ (stored' \cup late) :
       r[1] \in DOMAIN chunks => chunks[r[1]].ref_count = -1]_txnVars

\* Two collectors that sweep at the same time never have the same chunk.
BatchesDisjoint ==
  \A c, d \in {p \in Collector : pc[p] = "purge"} :
    c # d => (todo[c] \cup purged[c]) \cap (todo[d] \cup purged[d]) = {}

\* Every request and every batch comes to an end: sessions that lock the same
\* rows in different orders do not wait for each other for ever.
EveryoneFinishes == <>(\A p \in Process : ~Running(p))
=============================================================================
