------------------------------ MODULE ShardMap ------------------------------
(***************************************************************************)
(* The shard map and its administration: RegisterWorker, AddCluster and    *)
(* ReplaceCluster of src/master/PostgresRepository.hpp behind /heartbeat,  *)
(* /admin/cluster/add and /admin/cluster/replace of MasterServer.hpp.      *)
(*                                                                         *)
(* Requests run in transactions of their own at READ COMMITTED, statement  *)
(* by statement: the rows an UPDATE changes are chosen by its sub-SELECT   *)
(* when it starts (Pick, BeginReplace), and changed once no other          *)
(* transaction has them locked (Apply, CommitReplace), whatever they hold  *)
(* by then.  Workers' rows are never deleted, so that VerifyNodesExist and *)
(* the statement after it are one step.                                    *)
(***************************************************************************)
EXTENDS Integers, FiniteSets

CONSTANTS
  Bucket,     \* 0 .. num_buckets - 1
  Node,       \* workers that may register
  Add,        \* requests to add a cluster; each names the cluster it adds
  NameOf,     \* cluster_name of each of them
  Replace,    \* requests to replace the nodes of a cluster
  Concurrent  \* how many requests of the administrator may overlap

Request == Add \cup Replace

ASSUME ShardAssumption ==
  /\ IsFiniteSet(Bucket) /\ Bucket # {}
  /\ Add \cap Replace = {}
  /\ Concurrent \in Nat

VARIABLES
  status,    \* worker_nodes: registered workers and their status
  clusters,  \* clusters: the active_nodes of each committed cluster
  shard,     \* shard_map: the cluster of each bucket; empty before bootstrap
  pc,        \* what each request does next
  adding,    \* the locals and the uncommitted rows of each AddCluster
  replacing, \* those of each ReplaceCluster
  overlapped \* history: two requests to add a cluster have run at the same time

vars == <<status, clusters, shard, pc, adding, replacing, overlapped>>

Empty == [x \in {} |-> x]

\* The function f over g.
Over(f, g) == [x \in DOMAIN f \cup DOMAIN g |-> IF x \in DOMAIN f THEN f[x] ELSE g[x]]

NotAdding == [nodes  |-> {},     \* active_node_ids
              owned  |-> {},     \* rows <<cluster, count>> that the loop has not visited
              target |-> 0,      \* target_buckets
              picked |-> {},     \* rows the UPDATE is going to change
              moved  |-> {}]     \* rows it has changed and locked

NotReplacing == [cluster |-> {},  \* cluster_id, as a set of at most one
                 nodes   |-> {},  \* new_worker_ids
                 former  |-> {}]  \* workers' rows to be set to READ_ONLY

TypeOK ==
  /\ DOMAIN status \subseteq Node
  /\ status \in [DOMAIN status -> {"ACTIVE", "READ_ONLY"}]
  /\ DOMAIN clusters \subseteq Add
  /\ clusters \in [DOMAIN clusters -> SUBSET Node]
  /\ DOMAIN shard \subseteq Bucket
  /\ shard \in [DOMAIN shard -> Add]
  /\ pc \in [Request -> {"begin", "bootstrap", "loop", "apply", "commit", "done", "failed"}]
  /\ adding \in [Add -> [nodes  : SUBSET Node,
                        owned  : SUBSET (Add \X Nat),
                        target : Nat,
                        picked : SUBSET Bucket,
                        moved  : SUBSET Bucket]]
  /\ replacing \in [Replace -> [cluster : SUBSET Add,
                               nodes   : SUBSET Node,
                               former  : SUBSET Node]]

Init ==
  /\ status = Empty
  /\ clusters = Empty
  /\ shard = Empty
  /\ pc = [r \in Request |-> "begin"]
  /\ adding = [a \in Add |-> NotAdding]
  /\ replacing = [r \in Replace |-> NotReplacing]
  /\ overlapped = FALSE

-----------------------------------------------------------------------------
Goto(r, where) == pc' = [pc EXCEPT ![r] = where]

Open(r) == pc[r] \notin {"begin", "done", "failed"}

\* Another request may begin.
Admitted == Cardinality({r \in Request : Open(r)}) < Concurrent

\* Variant for mutation: the ids are not looked up.
VerifyNodesExist_notEmpty(ids) == ids # {}

\* The list of a request is not empty and every worker in it is registered.
VerifyNodesExist(ids) == ids # {} /\ ids \subseteq DOMAIN status

\* The request is answered with an error, before it has changed anything.
Refuse(r) ==
  /\ Goto(r, "failed")
  /\ UNCHANGED <<status, clusters, shard, adding, replacing>>

-----------------------------------------------------------------------------
(* Heartbeats.                                                             *)

\* INSERT .. ON CONFLICT DO UPDATE: a worker becomes known with its first
\* heartbeat; a later one refreshes its row and leaves a READ_ONLY status.
RegisterWorker(n) ==
  /\ status' = Over(status, [x \in {n} |-> "ACTIVE"])
  /\ UNCHANGED <<clusters, shard, pc, adding, replacing>>

-----------------------------------------------------------------------------
(* AddCluster.                                                             *)

\* Buckets of cluster c in a map, and the clusters that have some.
OwnedBy(map, c) == {b \in DOMAIN map : map[b] = c}
Owners(map) == {map[b] : b \in DOMAIN map}

\* What a statement of request a sees of shard_map.
Visible(a) == Over([b \in adding[a].moved |-> a], shard)

NameTaken(a) == \E c \in DOMAIN clusters : NameOf[c] = NameOf[a]
NamePending(a) == \E c \in Add \ {a} : Open(c) /\ NameOf[c] = NameOf[a]

\* VerifyNodesExist, INSERT INTO clusters and the counts of shard_map.  The
\* INSERT fails on a name that exists and waits for one that may come to.
BeginAdd(a, ids) ==
  /\ pc[a] = "begin" /\ Admitted
  /\ \/ /\ ~VerifyNodesExist(ids) \/ NameTaken(a)
        /\ Refuse(a)
     \/ /\ VerifyNodesExist(ids) /\ ~NameTaken(a) /\ ~NamePending(a)
        /\ adding' = [adding EXCEPT ![a] =
             [NotAdding EXCEPT
                !.nodes = ids,
                !.owned = {<<c, Cardinality(OwnedBy(shard, c))>> : c \in Owners(shard)},
                !.target = Cardinality(Bucket) \div (Cardinality(Owners(shard)) + 1)]]
        /\ Goto(a, IF Owners(shard) = {} THEN "bootstrap" ELSE "loop")
        /\ UNCHANGED <<status, clusters, shard, replacing>>

\* No other transaction has written one of these buckets.
Unlocked(a, bs) == \A c \in Add \ {a} : bs \cap adding[c].moved = {}

\* INSERT .. SELECT generate_series(0, num_buckets - 1) .. ON CONFLICT DO
\* UPDATE: also rows that have appeared since they were counted.
Bootstrap(a) ==
  /\ pc[a] = "bootstrap"
  /\ Unlocked(a, Bucket)
  /\ adding' = [adding EXCEPT ![a].moved = Bucket]
  /\ Goto(a, "commit")
  /\ UNCHANGED <<status, clusters, shard, replacing>>

\* Variant for mutation: a cluster keeps one more than its share.
Surplus_keepsOne(a, row) == row[2] - adding[a].target - 1

\* buckets_to_reassign for a row of current_clusters.
Surplus(a, row) == row[2] - adding[a].target

\* SELECT .. LIMIT limit, in any order.
Limit(rows, limit) ==
  {bs \in SUBSET rows : /\ Cardinality(bs) <= limit
                        /\ bs = rows \/ Cardinality(bs) = limit}

\* The loop comes to a row, in the order of an unordered SELECT.  If its
\* cluster has buckets to give, the sub-SELECT of the UPDATE finds them.
Pick(a, row) ==
  /\ pc[a] = "loop"
  /\ LET rest == adding[a].owned \ {row}
     IN \/ /\ Surplus(a, row) <= 0
           /\ adding' = [adding EXCEPT ![a].owned = rest]
           /\ UNCHANGED pc
        \/ /\ Surplus(a, row) > 0
           /\ \E bs \in Limit(OwnedBy(Visible(a), row[1]), Surplus(a, row)) :
                adding' = [adding EXCEPT ![a].owned = rest, ![a].picked = bs]
           /\ Goto(a, "apply")
  /\ UNCHANGED <<status, clusters, shard, replacing>>

\* The UPDATE has all its rows.
Apply(a) ==
  /\ pc[a] = "apply"
  /\ Unlocked(a, adding[a].picked)
  /\ adding' = [adding EXCEPT ![a].moved = @ \cup adding[a].picked, ![a].picked = {}]
  /\ Goto(a, "loop")
  /\ UNCHANGED <<status, clusters, shard, replacing>>

\* Variant for mutation: the row of the cluster is not committed with the map.
CommitAdd_mapOnly(a) ==
  /\ pc[a] = "commit" \/ (pc[a] = "loop" /\ adding[a].owned = {})
  /\ shard' = Visible(a)
  /\ adding' = [adding EXCEPT ![a] = NotAdding]
  /\ Goto(a, "done")
  /\ UNCHANGED <<status, clusters, replacing>>

CommitAdd(a) ==
  /\ pc[a] = "commit" \/ (pc[a] = "loop" /\ adding[a].owned = {})
  /\ clusters' = Over([x \in {a} |-> adding[a].nodes], clusters)
  /\ shard' = Visible(a)
  /\ adding' = [adding EXCEPT ![a] = NotAdding]
  /\ Goto(a, "done")
  /\ UNCHANGED <<status, replacing>>

-----------------------------------------------------------------------------
(* ReplaceCluster.                                                         *)

\* The cluster c and the new nodes are verified, and the sub-SELECT of the
\* first UPDATE reads the nodes the cluster has.
BeginReplace(r, c, ids) ==
  /\ pc[r] = "begin" /\ Admitted
  /\ \/ /\ c \notin DOMAIN clusters \/ ~VerifyNodesExist(ids)
        /\ Refuse(r)
     \/ /\ c \in DOMAIN clusters /\ VerifyNodesExist(ids)
        /\ replacing' = [replacing EXCEPT ![r] =
                           [cluster |-> {c}, nodes |-> ids, former |-> clusters[c]]]
        /\ Goto(r, "commit")
        /\ UNCHANGED <<status, clusters, shard, adding>>

\* Variant for mutation: the new nodes are sealed instead of the former ones.
CommitReplace_newNodes(r) ==
  /\ pc[r] = "commit"
  /\ status' = Over([n \in replacing[r].nodes |-> "READ_ONLY"], status)
  /\ clusters' = [c \in DOMAIN clusters |->
                    IF c \in replacing[r].cluster THEN replacing[r].nodes ELSE clusters[c]]
  /\ replacing' = [replacing EXCEPT ![r] = NotReplacing]
  /\ Goto(r, "done")
  /\ UNCHANGED <<shard, adding>>

\* Both UPDATEs get their rows, and COMMIT.
CommitReplace(r) ==
  /\ pc[r] = "commit"
  /\ status' = Over([n \in replacing[r].former |-> "READ_ONLY"], status)
  /\ clusters' = [c \in DOMAIN clusters |->
                    IF c \in replacing[r].cluster THEN replacing[r].nodes ELSE clusters[c]]
  /\ replacing' = [replacing EXCEPT ![r] = NotReplacing]
  /\ Goto(r, "done")
  /\ UNCHANGED <<shard, adding>>

-----------------------------------------------------------------------------
\* The connection fails or a deadlock is broken: the transaction is undone.
Abort(r) ==
  /\ Open(r)
  /\ Goto(r, "failed")
  /\ adding' = [a \in Add |-> IF a = r THEN NotAdding ELSE adding[a]]
  /\ replacing' = [q \in Replace |-> IF q = r THEN NotReplacing ELSE replacing[q]]
  /\ UNCHANGED <<status, clusters, shard>>

AddStep(a) == \/ \E ids \in SUBSET Node : BeginAdd(a, ids)
              \/ Bootstrap(a)
              \/ \E row \in adding[a].owned : Pick(a, row)
              \/ Apply(a)
              \/ CommitAdd(a)

ReplaceStep(r) == \/ \E c \in Add, ids \in SUBSET Node : BeginReplace(r, c, ids)
                  \/ CommitReplace(r)

Step ==
  \/ \E n \in Node : RegisterWorker(n)
  \/ \E a \in Add : AddStep(a)
  \/ \E r \in Replace : ReplaceStep(r)
  \/ \E r \in Request : Abort(r)

Next ==
  /\ Step
  /\ overlapped' = (overlapped \/ \E a, b \in Add : a # b /\ Open(a)' /\ Open(b)')

Spec == Init /\ [][Next]_vars

-----------------------------------------------------------------------------
\* What FilterMissingChunks needs of the map, whatever requests overlap or
\* fail: once a cluster has been added, the bucket of every chunk leads to a
\* cluster, and the cluster to at least one worker that is registered.
EveryBucketRouted ==
  DOMAIN shard # {} =>
    \A b \in Bucket :
      /\ b \in DOMAIN shard /\ shard[b] \in DOMAIN clusters
      /\ clusters[shard[b]] # {} /\ clusters[shard[b]] \subseteq DOMAIN status

\* The strengthening of EveryBucketRouted that every step preserves: the map
\* has all buckets or none, requests in progress carry workers that exist, the
\* loop runs only on a full map, and a bootstrap brings every bucket.
ShardInv ==
  /\ TypeOK
  /\ DOMAIN shard # {} => DOMAIN shard = Bucket
  /\ \A b \in DOMAIN shard : shard[b] \in DOMAIN clusters
  /\ \A c \in DOMAIN clusters : clusters[c] # {} /\ clusters[c] \subseteq DOMAIN status
  /\ \A a \in Add : Open(a) =>
       adding[a].nodes # {} /\ adding[a].nodes \subseteq DOMAIN status
  /\ \A r \in Replace : Open(r) =>
       /\ replacing[r].nodes # {} /\ replacing[r].nodes \subseteq DOMAIN status
       /\ replacing[r].former \subseteq DOMAIN status
  /\ \A a \in Add : pc[a] \in {"loop", "apply"} => DOMAIN shard = Bucket
  /\ \A a \in Add : pc[a] = "commit" => adding[a].moved = Bucket

\* The load is distributed, while requests to add a cluster come one after the
\* other: of k clusters, all but one have exactly the k-th part of the buckets,
\* rounded down, and that one has the rest.
LoadDistributed ==
  DOMAIN shard # {} /\ ~overlapped =>
    \E last \in DOMAIN clusters : \A c \in DOMAIN clusters \ {last} :
      Cardinality(OwnedBy(shard, c)) = Cardinality(Bucket) \div Cardinality(DOMAIN clusters)

\* A worker that a replacement takes out of a cluster is READ_ONLY from then
\* on, and no heartbeat makes a READ_ONLY worker active again.
FormerNodesReadOnly ==
  [][/\ \A n \in DOMAIN status : status[n] = "READ_ONLY" => status'[n] = "READ_ONLY"
     /\ \A c \in DOMAIN clusters : \A n \in clusters[c] \ clusters'[c] :
          status'[n] = "READ_ONLY"]_vars
=============================================================================
