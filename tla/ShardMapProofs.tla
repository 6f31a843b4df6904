--------------------------- MODULE ShardMapProofs ---------------------------
(***************************************************************************)
(* Every bucket of the shard map leads to a registered worker, nodes that  *)
(* are taken out of a cluster are sealed, and the clusters share the load, *)
(* for every number of buckets, workers and clusters.                      *)
(***************************************************************************)
EXTENDS ShardMap, FiniteSetTheorems, FunctionTheorems, TLAPS

\* The counts AddCluster reads are natural numbers.
LEMMA CountType ==
  ASSUME NEW map, DOMAIN map \subseteq Bucket, NEW c
  PROVE  Cardinality(OwnedBy(map, c)) \in Nat
<1>1. OwnedBy(map, c) \subseteq Bucket
  BY DEF OwnedBy
<1>2. IsFiniteSet(OwnedBy(map, c))
  BY <1>1, FS_Subset, ShardAssumption
<1> QED BY <1>2, FS_CardinalityType

\* So is the share it computes from the number of owners.
LEMMA TargetType ==
  ASSUME NEW map, DOMAIN map \subseteq Bucket
  PROVE  Cardinality(Bucket) \div (Cardinality(Owners(map)) + 1) \in Nat
<1>1. IsFiniteSet(DOMAIN map)
  BY FS_Subset, ShardAssumption
<1>2. IsFiniteSet(Owners(map))
  <2> DEFINE f == [b \in DOMAIN map |-> map[b]]
  <2>1. f \in Surjection(DOMAIN map, Owners(map))
    <3>1. f \in [DOMAIN map -> Owners(map)]
      BY DEF Owners
    <3>2. \A c \in Owners(map) : \E b \in DOMAIN map : f[b] = c
      BY DEF Owners
    <3> QED BY <3>1, <3>2, Fun_IsSurj
  <2> QED BY <1>1, <2>1, FS_Surjection
<1>3. Cardinality(Owners(map)) \in Nat /\ Cardinality(Bucket) \in Nat
  BY <1>2, FS_CardinalityType, ShardAssumption
<1>4. \A m, k \in Nat : m \div (k + 1) \in Nat
  BY SMT
<1> QED BY <1>3, <1>4

\* Over takes its domain and its values from its two functions.
LEMMA OverType ==
  ASSUME NEW f, NEW g
  PROVE  /\ DOMAIN Over(f, g) = DOMAIN f \cup DOMAIN g
         /\ \A x \in DOMAIN f : Over(f, g)[x] = f[x]
         /\ \A x \in DOMAIN g \ DOMAIN f : Over(f, g)[x] = g[x]
         /\ Over(f, g) \in [DOMAIN f \cup DOMAIN g -> {Over(f, g)[x] : x \in DOMAIN f \cup DOMAIN g}]
BY DEF Over

\* ShardInv holds at the beginning.
LEMMA InitShardInv == Init => ShardInv
BY DEF Init, ShardInv, TypeOK, Empty, NotAdding, NotReplacing, Request, Open

\* A heartbeat preserves ShardInv: the set of registered workers only grows.
LEMMA RegisterShardInv ==
  ASSUME ShardInv, NEW n \in Node, RegisterWorker(n)
  PROVE  ShardInv'
<1>1. status' = Over(status, [x \in {n} |-> "ACTIVE"])
  BY DEF RegisterWorker
<1>2. DOMAIN status' = DOMAIN status \cup {n}
  BY <1>1, OverType
<1>3. status' \in [DOMAIN status' -> {"ACTIVE", "READ_ONLY"}]
  BY <1>1 DEF Over, ShardInv, TypeOK
<1>4. DOMAIN status' \subseteq Node
  BY <1>2 DEF ShardInv, TypeOK
<1>5. UNCHANGED <<clusters, shard, pc, adding, replacing>>
  BY DEF RegisterWorker
<1>6. TypeOK'
  BY <1>3, <1>4, <1>5 DEF ShardInv, TypeOK
<1> QED BY <1>2, <1>5, <1>6 DEF ShardInv, Open

\* A refused request changes only its own pc.
LEMMA RefuseShardInv ==
  ASSUME ShardInv, NEW r \in Request, Refuse(r)
  PROVE  ShardInv'
<1>1. pc' = [pc EXCEPT ![r] = "failed"] /\ UNCHANGED <<status, clusters, shard, adding, replacing>>
  BY DEF Refuse, Goto
<1>2. TypeOK'
  BY <1>1 DEF ShardInv, TypeOK
<1>3. \A q \in Request : pc'[q] = IF q = r THEN "failed" ELSE pc[q]
  BY <1>1 DEF ShardInv, TypeOK
<1> QED BY <1>1, <1>2, <1>3 DEF ShardInv, Open, Request

LEMMA BeginAddShardInv ==
  ASSUME ShardInv, NEW a \in Add, NEW ids \in SUBSET Node, BeginAdd(a, ids)
  PROVE  ShardInv'
<1>1. CASE Refuse(a)
  BY <1>1, RefuseShardInv DEF Request
<1>2. CASE ~Refuse(a)
  <2> DEFINE rows == {<<c, Cardinality(OwnedBy(shard, c))>> : c \in Owners(shard)}
             share == Cardinality(Bucket) \div (Cardinality(Owners(shard)) + 1)
             new == [NotAdding EXCEPT !.nodes = ids, !.owned = rows, !.target = share]
  <2>1. /\ VerifyNodesExist(ids)
        /\ adding' = [adding EXCEPT ![a] = new]
        /\ pc' = [pc EXCEPT ![a] = IF Owners(shard) = {} THEN "bootstrap" ELSE "loop"]
        /\ UNCHANGED <<status, clusters, shard, replacing>>
    BY <1>2 DEF BeginAdd, Goto
  <2>2. rows \subseteq Add \X Nat
    BY CountType DEF ShardInv, TypeOK, Owners
  <2>3. share \in Nat
    BY TargetType DEF ShardInv, TypeOK
  <2>4. /\ new \in [nodes : SUBSET Node, owned : SUBSET (Add \X Nat), target : Nat,
                    picked : SUBSET Bucket, moved : SUBSET Bucket]
        /\ new.nodes = ids
    <3> HIDE DEF rows, share
    <3> QED BY <2>2, <2>3 DEF NotAdding
  <2> HIDE DEF new, rows, share
  <2>5. \A b \in Add : adding'[b] = IF b = a THEN new ELSE adding[b]
    BY <2>1 DEF ShardInv, TypeOK
  <2>6. \A q \in Request : pc'[q] = IF q = a THEN (IF Owners(shard) = {} THEN "bootstrap" ELSE "loop")
                                             ELSE pc[q]
    BY <2>1 DEF ShardInv, TypeOK
  <2>7. TypeOK'
    BY <2>1, <2>4 DEF ShardInv, TypeOK
  <2>8. Owners(shard) # {} => DOMAIN shard = Bucket
    BY DEF Owners, ShardInv
  <2>9. a \in Request /\ a \notin Replace
    BY ShardAssumption DEF Request
  <2>10. ids # {} /\ ids \subseteq DOMAIN status
    BY <2>1 DEF VerifyNodesExist
  <2>11. \A b \in Add : Open(b)' =>
           adding'[b].nodes # {} /\ adding'[b].nodes \subseteq DOMAIN status'
    BY <2>1, <2>4, <2>5, <2>6, <2>10 DEF ShardInv, Open, Request
  <2>12. \A r \in Replace : Open(r)' => Open(r)
    BY <2>6, <2>9 DEF Open, Request
  <2>13. \A b \in Add : pc'[b] \in {"loop", "apply"} => DOMAIN shard' = Bucket
    BY <2>1, <2>6, <2>8 DEF ShardInv, Request
  <2>14. \A b \in Add : pc'[b] = "commit" => adding'[b].moved = Bucket
    BY <2>5, <2>6 DEF ShardInv, Request
  <2> QED BY <2>1, <2>7, <2>11, <2>12, <2>13, <2>14 DEF ShardInv
<1> QED BY <1>1, <1>2

\* A step of request a that changes only its pc, picked, moved and owned.
LEMMA LocalStepShardInv ==
  ASSUME ShardInv, NEW a \in Add, Open(a), NEW where,
         where \in {"loop", "apply", "commit"},
         NEW e \in [nodes : SUBSET Node, owned : SUBSET (Add \X Nat), target : Nat,
                    picked : SUBSET Bucket, moved : SUBSET Bucket],
         e.nodes = adding[a].nodes,
         adding' = [adding EXCEPT ![a] = e],
         pc' = [pc EXCEPT ![a] = where],
         UNCHANGED <<status, clusters, shard, replacing>>,
         where \in {"loop", "apply"} => DOMAIN shard = Bucket,
         where = "commit" => e.moved = Bucket
  PROVE  ShardInv'
<1>1. \A b \in Add : adding'[b] = IF b = a THEN e ELSE adding[b]
  BY DEF ShardInv, TypeOK
<1>2. \A q \in Request : pc'[q] = IF q = a THEN where ELSE pc[q]
  BY DEF ShardInv, TypeOK
<1>3. TypeOK'
  BY DEF ShardInv, TypeOK
<1>4. \A b \in Add : Open(b)' =>
        adding'[b].nodes # {} /\ adding'[b].nodes \subseteq DOMAIN status'
  BY <1>1, <1>2 DEF ShardInv, Open, Request
<1>5. \A r \in Replace : Open(r)' => Open(r)
  BY <1>2, ShardAssumption DEF Open, Request
<1>6. \A b \in Add : pc'[b] \in {"loop", "apply"} => DOMAIN shard' = Bucket
  BY <1>2 DEF ShardInv, Request
<1>7. \A b \in Add : pc'[b] = "commit" => adding'[b].moved = Bucket
  BY <1>1, <1>2 DEF ShardInv, Request
<1> QED BY <1>3, <1>4, <1>5, <1>6, <1>7 DEF ShardInv

LEMMA BootstrapShardInv ==
  ASSUME ShardInv, NEW a \in Add, Bootstrap(a)
  PROVE  ShardInv'
<1> DEFINE e == [adding[a] EXCEPT !.moved = Bucket]
<1>0. adding \in [Add -> [nodes : SUBSET Node, owned : SUBSET (Add \X Nat), target : Nat,
                picked : SUBSET Bucket, moved : SUBSET Bucket]]
  BY DEF ShardInv, TypeOK
<1>1. /\ e \in [nodes : SUBSET Node, owned : SUBSET (Add \X Nat), target : Nat,
                picked : SUBSET Bucket, moved : SUBSET Bucket]
      /\ e.nodes = adding[a].nodes /\ e.moved = Bucket
  BY <1>0
<1>3. adding' = [adding EXCEPT ![a] = e]
  BY <1>0 DEF Bootstrap
<1>2. Open(a) /\ pc' = [pc EXCEPT ![a] = "commit"] /\ UNCHANGED <<status, clusters, shard, replacing>>
  BY DEF Bootstrap, Open, Goto
<1> HIDE DEF e
<1> QED BY <1>1, <1>2, <1>3, LocalStepShardInv

LEMMA PickShardInv ==
  ASSUME ShardInv, NEW a \in Add, NEW row \in adding[a].owned, Pick(a, row)
  PROVE  ShardInv'
<1> DEFINE rest == adding[a].owned \ {row}
           E == [nodes : SUBSET Node, owned : SUBSET (Add \X Nat), target : Nat,
                 picked : SUBSET Bucket, moved : SUBSET Bucket]
<1>0. adding[a] \in E /\ DOMAIN shard \subseteq Bucket /\ pc \in [Request -> {pc[q] : q \in Request}]
  BY DEF ShardInv, TypeOK
<1>1. /\ pc[a] = "loop" /\ Open(a) /\ DOMAIN shard = Bucket
      /\ UNCHANGED <<status, clusters, shard, replacing>>
  BY DEF Pick, ShardInv, Open
<1>2. CASE adding' = [adding EXCEPT ![a].owned = rest] /\ UNCHANGED pc
  <2> DEFINE e == [adding[a] EXCEPT !.owned = rest]
  <2>1. adding' = [adding EXCEPT ![a] = e] /\ e \in E /\ e.nodes = adding[a].nodes
    BY <1>2, <1>0 DEF ShardInv, TypeOK
  <2>2. pc' = [pc EXCEPT ![a] = "loop"]
    BY <1>2, <1>1, <1>0 DEF Request
  <2> HIDE DEF e
  <2> QED BY <1>1, <2>1, <2>2, LocalStepShardInv
<1>3. CASE /\ \E bs \in Limit(OwnedBy(Visible(a), row[1]), Surplus(a, row)) :
                adding' = [adding EXCEPT ![a].owned = rest, ![a].picked = bs]
           /\ Goto(a, "apply")
  <2>1. PICK bs \in Limit(OwnedBy(Visible(a), row[1]), Surplus(a, row)) :
                adding' = [adding EXCEPT ![a].owned = rest, ![a].picked = bs]
    BY <1>3
  <2>2. DOMAIN Visible(a) \subseteq Bucket
    <3>1. DOMAIN [b \in adding[a].moved |-> a] \subseteq Bucket
      BY <1>0
    <3> QED BY <3>1, <1>0 DEF Visible, Over
  <2>3. bs \subseteq Bucket
    BY <2>1, <2>2 DEF Limit, OwnedBy
  <2> DEFINE e == [adding[a] EXCEPT !.owned = rest, !.picked = bs]
  <2>4. adding' = [adding EXCEPT ![a] = e] /\ e \in E /\ e.nodes = adding[a].nodes
    BY <2>1, <2>3, <1>0 DEF ShardInv, TypeOK
  <2>5. pc' = [pc EXCEPT ![a] = "apply"]
    BY <1>3 DEF Goto
  <2> HIDE DEF e
  <2> QED BY <1>1, <2>4, <2>5, LocalStepShardInv
<1> QED BY <1>2, <1>3 DEF Pick

LEMMA ApplyShardInv ==
  ASSUME ShardInv, NEW a \in Add, Apply(a)
  PROVE  ShardInv'
<1> DEFINE e == [adding[a] EXCEPT !.moved = @ \cup adding[a].picked, !.picked = {}]
<1>0. adding \in [Add -> [nodes : SUBSET Node, owned : SUBSET (Add \X Nat), target : Nat,
                picked : SUBSET Bucket, moved : SUBSET Bucket]]
  BY DEF ShardInv, TypeOK
<1>1. /\ e \in [nodes : SUBSET Node, owned : SUBSET (Add \X Nat), target : Nat,
                picked : SUBSET Bucket, moved : SUBSET Bucket]
      /\ e.nodes = adding[a].nodes
  BY <1>0
<1>3. adding' = [adding EXCEPT ![a] = e]
  BY <1>0 DEF Apply
<1>2. /\ Open(a) /\ DOMAIN shard = Bucket
      /\ pc' = [pc EXCEPT ![a] = "loop"] /\ UNCHANGED <<status, clusters, shard, replacing>>
  BY DEF Apply, Open, Goto, ShardInv
<1> HIDE DEF e
<1> QED BY <1>1, <1>2, <1>3, LocalStepShardInv

LEMMA CommitAddShardInv ==
  ASSUME ShardInv, NEW a \in Add, CommitAdd(a)
  PROVE  ShardInv'
<1> DEFINE row == [x \in {a} |-> adding[a].nodes]
           mine == [b \in adding[a].moved |-> a]
<1>1. /\ clusters' = Over(row, clusters) /\ shard' = Over(mine, shard)
      /\ adding' = [adding EXCEPT ![a] = NotAdding]
      /\ pc' = [pc EXCEPT ![a] = "done"]
      /\ UNCHANGED <<status, replacing>>
  BY DEF CommitAdd, Goto, Visible
<1>2. adding[a].moved \subseteq Bucket /\ adding[a].nodes \subseteq Node /\ DOMAIN clusters \subseteq Add
      /\ DOMAIN shard \subseteq Bucket
  BY DEF ShardInv, TypeOK
<1>3. Open(a)
  BY DEF CommitAdd, Open
<1>4. adding[a].nodes # {} /\ adding[a].nodes \subseteq DOMAIN status
  BY <1>3 DEF ShardInv
<1>5. DOMAIN clusters' = DOMAIN clusters \cup {a}
  BY <1>1, OverType
<1>6. clusters'[a] = adding[a].nodes /\ \A c \in DOMAIN clusters \ {a} : clusters'[c] = clusters[c]
  BY <1>1, <1>5 DEF Over
<1>7. DOMAIN shard' = Bucket
  <2>1. DOMAIN shard' = DOMAIN shard \cup adding[a].moved
    BY <1>1 DEF Over
  <2>2. CASE pc[a] = "commit"
    BY <2>1, <2>2, <1>2 DEF ShardInv
  <2>3. CASE pc[a] = "loop"
    BY <2>1, <2>3, <1>2 DEF ShardInv
  <2> QED BY <2>2, <2>3 DEF CommitAdd
<1>8. \A b \in DOMAIN shard' : shard'[b] \in DOMAIN clusters'
  <2> SUFFICES ASSUME NEW b \in DOMAIN shard' PROVE shard'[b] \in DOMAIN clusters'
    OBVIOUS
  <2>1. CASE b \in adding[a].moved
    <3>1. shard'[b] = a
      BY <2>1, <1>1 DEF Over
    <3> QED BY <3>1, <1>5
  <2>2. CASE b \notin adding[a].moved
    <3>1. b \in DOMAIN shard /\ shard'[b] = shard[b]
      BY <2>2, <1>1 DEF Over
    <3> QED BY <3>1, <1>5 DEF ShardInv
  <2> QED BY <2>1, <2>2
<1>9. \A c \in DOMAIN clusters' : /\ clusters'[c] # {} /\ clusters'[c] \subseteq DOMAIN status'
                                  /\ clusters'[c] \subseteq Node
  BY <1>1, <1>2, <1>4, <1>5, <1>6 DEF ShardInv, TypeOK
<1>10. clusters' \in [DOMAIN clusters' -> SUBSET Node]
  BY <1>1, <1>9 DEF Over
<1>11. shard' \in [DOMAIN shard' -> Add]
  BY <1>1, <1>8, <1>5, <1>2 DEF Over
<1>12. \A b \in Add : b # a => adding'[b] = adding[b]
  BY <1>1 DEF ShardInv, TypeOK
<1>13. \A q \in Request : pc'[q] = IF q = a THEN "done" ELSE pc[q]
  BY <1>1 DEF ShardInv, TypeOK
<1>14. TypeOK'
  <2>1. NotAdding \in [nodes : SUBSET Node, owned : SUBSET (Add \X Nat), target : Nat,
                       picked : SUBSET Bucket, moved : SUBSET Bucket]
    BY DEF NotAdding
  <2>2. adding' \in [Add -> [nodes : SUBSET Node, owned : SUBSET (Add \X Nat), target : Nat,
                       picked : SUBSET Bucket, moved : SUBSET Bucket]]
    BY <1>1, <2>1 DEF ShardInv, TypeOK
  <2>3. pc' \in [Request -> {"begin", "bootstrap", "loop", "apply", "commit", "done", "failed"}]
    BY <1>1 DEF ShardInv, TypeOK
  <2>4. DOMAIN clusters' \subseteq Add /\ DOMAIN shard' \subseteq Bucket
    BY <1>2, <1>5, <1>7
  <2>5. /\ DOMAIN status' \subseteq Node
        /\ status' \in [DOMAIN status' -> {"ACTIVE", "READ_ONLY"}]
        /\ replacing' \in [Replace -> [cluster : SUBSET Add, nodes : SUBSET Node, former : SUBSET Node]]
    BY <1>1 DEF ShardInv, TypeOK
  <2> QED BY <1>10, <1>11, <2>2, <2>3, <2>4, <2>5 DEF TypeOK
<1>15. \A b \in Add : Open(b)' =>
         adding'[b].nodes # {} /\ adding'[b].nodes \subseteq DOMAIN status'
  BY <1>1, <1>12, <1>13 DEF ShardInv, Open, Request
<1>16. \A r \in Replace : Open(r)' => Open(r)
  BY <1>13 DEF Open, Request
<1>17. \A b \in Add : pc'[b] = "commit" => adding'[b].moved = Bucket
  BY <1>12, <1>13 DEF ShardInv, Request
<1> QED BY <1>1, <1>7, <1>8, <1>9, <1>14, <1>15, <1>16, <1>17 DEF ShardInv

LEMMA BeginReplaceShardInv ==
  ASSUME ShardInv, NEW r \in Replace, NEW c \in Add, NEW ids \in SUBSET Node,
         BeginReplace(r, c, ids)
  PROVE  ShardInv'
<1>1. CASE Refuse(r)
  BY <1>1, RefuseShardInv DEF Request
<1>2. CASE ~Refuse(r)
  <2> DEFINE e == [cluster |-> {c}, nodes |-> ids, former |-> clusters[c]]
  <2>1. /\ c \in DOMAIN clusters /\ ids # {} /\ ids \subseteq DOMAIN status
        /\ replacing' = [replacing EXCEPT ![r] = e]
        /\ pc' = [pc EXCEPT ![r] = "commit"]
        /\ UNCHANGED <<status, clusters, shard, adding>>
    BY <1>2 DEF BeginReplace, Goto, VerifyNodesExist
  <2>2. clusters[c] \subseteq Node /\ clusters[c] \subseteq DOMAIN status
    BY <2>1 DEF ShardInv, TypeOK
  <2>3. /\ e \in [cluster : SUBSET Add, nodes : SUBSET Node, former : SUBSET Node]
        /\ e.nodes = ids /\ e.former = clusters[c]
    BY <2>2
  <2> HIDE DEF e
  <2>4. \A q \in Replace : replacing'[q] = IF q = r THEN e ELSE replacing[q]
    BY <2>1 DEF ShardInv, TypeOK
  <2>5. \A q \in Request : pc'[q] = IF q = r THEN "commit" ELSE pc[q]
    BY <2>1 DEF ShardInv, TypeOK
  <2>6. TypeOK'
    BY <2>1, <2>3 DEF ShardInv, TypeOK
  <2>7. \A a \in Add : pc'[a] = pc[a]
    BY <2>5, ShardAssumption DEF Request
  <2>8. \A q \in Replace : Open(q)' =>
          /\ replacing'[q].nodes # {} /\ replacing'[q].nodes \subseteq DOMAIN status'
          /\ replacing'[q].former \subseteq DOMAIN status'
    BY <2>1, <2>2, <2>3, <2>4, <2>5 DEF ShardInv, Open, Request
  <2> QED BY <2>1, <2>6, <2>7, <2>8 DEF ShardInv, Open
<1> QED BY <1>1, <1>2

LEMMA CommitReplaceShardInv ==
  ASSUME ShardInv, NEW r \in Replace, CommitReplace(r)
  PROVE  ShardInv'
<1> DEFINE sealed == [n \in replacing[r].former |-> "READ_ONLY"]
<1>1. /\ pc[r] = "commit"
      /\ status' = Over(sealed, status)
      /\ clusters' = [c \in DOMAIN clusters |->
           IF c \in replacing[r].cluster THEN replacing[r].nodes ELSE clusters[c]]
      /\ replacing' = [replacing EXCEPT ![r] = NotReplacing]
      /\ pc' = [pc EXCEPT ![r] = "done"]
      /\ UNCHANGED <<shard, adding>>
  BY DEF CommitReplace, Goto
<1>2. /\ replacing[r].nodes # {} /\ replacing[r].nodes \subseteq DOMAIN status
      /\ replacing[r].former \subseteq DOMAIN status
      /\ replacing[r].nodes \subseteq Node
  BY <1>1 DEF ShardInv, Open, TypeOK
<1>3. DOMAIN status' = DOMAIN status
  BY <1>1, <1>2 DEF Over
<1>4. status' \in [DOMAIN status' -> {"ACTIVE", "READ_ONLY"}]
  BY <1>1 DEF Over, ShardInv, TypeOK
<1>5. /\ DOMAIN clusters' = DOMAIN clusters
      /\ \A c \in DOMAIN clusters : clusters'[c] = replacing[r].nodes \/ clusters'[c] = clusters[c]
  BY <1>1
<1>6. clusters' \in [DOMAIN clusters' -> SUBSET Node]
  BY <1>1, <1>2 DEF ShardInv, TypeOK
<1>7. \A q \in Replace : q # r => replacing'[q] = replacing[q]
  BY <1>1 DEF ShardInv, TypeOK
<1>8. \A q \in Request : pc'[q] = IF q = r THEN "done" ELSE pc[q]
  BY <1>1 DEF ShardInv, TypeOK
<1>9. TypeOK'
  BY <1>1, <1>3, <1>4, <1>5, <1>6 DEF ShardInv, TypeOK, NotReplacing
<1>10. \A a \in Add : pc'[a] = pc[a]
  BY <1>8, ShardAssumption DEF Request
<1>11. \A c \in DOMAIN clusters' : clusters'[c] # {} /\ clusters'[c] \subseteq DOMAIN status'
  BY <1>2, <1>3, <1>5 DEF ShardInv
<1>12. \A q \in Replace : Open(q)' =>
         /\ replacing'[q].nodes # {} /\ replacing'[q].nodes \subseteq DOMAIN status'
         /\ replacing'[q].former \subseteq DOMAIN status'
  BY <1>3, <1>7, <1>8 DEF ShardInv, Open, Request
<1> QED BY <1>1, <1>3, <1>5, <1>9, <1>10, <1>11, <1>12 DEF ShardInv, Open

LEMMA AbortShardInv ==
  ASSUME ShardInv, NEW r \in Request, Abort(r)
  PROVE  ShardInv'
<1>1. /\ pc' = [pc EXCEPT ![r] = "failed"]
      /\ adding' = [a \in Add |-> IF a = r THEN NotAdding ELSE adding[a]]
      /\ replacing' = [q \in Replace |-> IF q = r THEN NotReplacing ELSE replacing[q]]
      /\ UNCHANGED <<status, clusters, shard>>
  BY DEF Abort, Goto
<1>2. \A q \in Request : pc'[q] = IF q = r THEN "failed" ELSE pc[q]
  BY <1>1 DEF ShardInv, TypeOK
<1>3. TypeOK'
  BY <1>1 DEF ShardInv, TypeOK, NotAdding, NotReplacing
<1>4. \A a \in Add : Open(a)' =>
        adding'[a].nodes # {} /\ adding'[a].nodes \subseteq DOMAIN status'
  BY <1>1, <1>2 DEF ShardInv, Open, Request
<1>5. \A q \in Replace : Open(q)' =>
        /\ replacing'[q].nodes # {} /\ replacing'[q].nodes \subseteq DOMAIN status'
        /\ replacing'[q].former \subseteq DOMAIN status'
  BY <1>1, <1>2 DEF ShardInv, Open, Request
<1>6. \A a \in Add : pc'[a] \in {"loop", "apply"} => DOMAIN shard' = Bucket
  BY <1>1, <1>2 DEF ShardInv, Request
<1>7. \A a \in Add : pc'[a] = "commit" => adding'[a].moved = Bucket
  BY <1>1, <1>2 DEF ShardInv, Request
<1> QED BY <1>1, <1>3, <1>4, <1>5, <1>6, <1>7 DEF ShardInv

\* Every step preserves ShardInv.
LEMMA NextShardInv == ShardInv /\ [Next]_vars => ShardInv'
<1> SUFFICES ASSUME ShardInv, [Next]_vars PROVE ShardInv'
  OBVIOUS
<1>1. CASE \E n \in Node : RegisterWorker(n)
  BY <1>1, RegisterShardInv
<1>2. ASSUME NEW a \in Add, AddStep(a) PROVE ShardInv'
  BY <1>2, BeginAddShardInv, BootstrapShardInv, PickShardInv, ApplyShardInv, CommitAddShardInv
     DEF AddStep
<1>3. ASSUME NEW r \in Replace, ReplaceStep(r) PROVE ShardInv'
  BY <1>3, BeginReplaceShardInv, CommitReplaceShardInv DEF ReplaceStep
<1>4. CASE \E r \in Request : Abort(r)
  BY <1>4, AbortShardInv
<1>5. CASE UNCHANGED vars
  BY <1>5 DEF vars, ShardInv, TypeOK, Open
<1> QED BY <1>1, <1>2, <1>3, <1>4, <1>5 DEF Next, Step

\* What follows for the routing of uploads.
LEMMA ShardInvRoutes == ShardInv => EveryBucketRouted
BY DEF ShardInv, EveryBucketRouted

\* Whatever heartbeats and requests of administrators overlap, fail or are
\* undone, the strengthened invariant of the shard map holds.
THEOREM ShardInvAlways == Spec => []ShardInv
BY InitShardInv, NextShardInv, PTL DEF Spec

\* The lookup of FilterMissingChunks finds a registered worker for every
\* bucket as soon as one cluster has been added, for any number of buckets,
\* clusters, workers and overlapping administrative requests.
THEOREM BucketsRouted == Spec => []EveryBucketRouted
BY ShardInvAlways, ShardInvRoutes, PTL
-----------------------------------------------------------------------------
(* Replacements.                                                           *)

\* The rows of committed clusters belong to requests that are done, and a
\* replacement in progress has read the nodes that its cluster still has.
FormerInv ==
  /\ \A a \in DOMAIN clusters : pc[a] = "done"
  /\ \A r \in Replace : Open(r) => \A c \in replacing[r].cluster :
       c \in DOMAIN clusters /\ replacing[r].former = clusters[c]

\* Replacements that overlap are about different clusters.
ReplacesApart ==
  \A r, q \in Replace : r # q /\ Open(r) /\ Open(q) =>
    replacing[r].cluster \cap replacing[q].cluster = {}

\* What FormerNodesReadOnly says of a step.
SealStep ==
  /\ \A n \in DOMAIN status : status[n] = "READ_ONLY" => status'[n] = "READ_ONLY"
  /\ \A c \in DOMAIN clusters : \A n \in clusters[c] \ clusters'[c] :
       status'[n] = "READ_ONLY"

\* A step that leaves the tables and the replacements alone and takes a
\* request from where it is to some other place than the beginning.
LEMMA LocalFormer ==
  ASSUME ShardInv, FormerInv, NEW r \in Request, NEW where,
         pc[r] # "done", where # "begin", Goto(r, where),
         Open(r) \/ r \in Add \/ where = "failed",
         UNCHANGED <<status, clusters, shard, replacing>>
  PROVE  FormerInv' /\ SealStep
<1>1. \A q \in Request : pc'[q] = IF q = r THEN where ELSE pc[q]
  BY DEF Goto, ShardInv, TypeOK
<1>2. \A a \in DOMAIN clusters : a \in Request /\ a # r
  BY DEF FormerInv, ShardInv, TypeOK, Request
<1>3. \A q \in Replace : Open(q)' => Open(q)
  BY <1>1, ShardAssumption DEF Open, Request
<1> QED BY <1>1, <1>2, <1>3 DEF FormerInv, SealStep

\* A heartbeat registers a worker or leaves its status.
LEMMA RegisterFormer ==
  ASSUME ShardInv, FormerInv, NEW n \in Node, RegisterWorker(n)
  PROVE  FormerInv' /\ SealStep
<1>1. \A m \in DOMAIN status : status'[m] = status[m]
  BY DEF RegisterWorker, Over
<1> QED BY <1>1 DEF RegisterWorker, FormerInv, SealStep, Open

\* AddCluster writes the row of a cluster that is new.
LEMMA CommitAddFormer ==
  ASSUME ShardInv, FormerInv, NEW a \in Add, CommitAdd(a)
  PROVE  FormerInv' /\ SealStep
<1>1. a \notin DOMAIN clusters
  BY DEF CommitAdd, FormerInv
<1>2. /\ DOMAIN clusters' = DOMAIN clusters \cup {a}
      /\ \A c \in DOMAIN clusters : clusters'[c] = clusters[c]
  BY <1>1 DEF CommitAdd, Over
<1>3. \A q \in Request : pc'[q] = IF q = a THEN "done" ELSE pc[q]
  BY DEF CommitAdd, Goto, ShardInv, TypeOK
<1>4. \A q \in Replace : pc'[q] = pc[q]
  BY <1>3, ShardAssumption DEF Request
<1>5. DOMAIN clusters' \subseteq Request
  BY <1>2 DEF ShardInv, TypeOK, Request
<1>6. status' = status /\ replacing' = replacing
  BY DEF CommitAdd
<1>7. \A c \in DOMAIN clusters' : pc'[c] = "done"
  BY <1>2, <1>3, <1>5 DEF FormerInv
<1>8. \A r \in Replace : Open(r)' => \A c \in replacing'[r].cluster :
        c \in DOMAIN clusters' /\ replacing'[r].former = clusters'[c]
  BY <1>2, <1>4, <1>6 DEF FormerInv, Open
<1> QED BY <1>2, <1>6, <1>7, <1>8 DEF FormerInv, SealStep

\* ReplaceCluster reads the nodes of its cluster when it begins.
LEMMA BeginReplaceFormer ==
  ASSUME ShardInv, FormerInv, NEW r \in Replace, NEW c \in Add, NEW ids \in SUBSET Node,
         BeginReplace(r, c, ids)
  PROVE  FormerInv' /\ SealStep
<1>1. CASE Refuse(r)
  BY <1>1, LocalFormer DEF Refuse, Request, BeginReplace
<1>2. CASE ~Refuse(r)
  <2> DEFINE e == [cluster |-> {c}, nodes |-> ids, former |-> clusters[c]]
  <2>1. /\ c \in DOMAIN clusters
        /\ replacing' = [replacing EXCEPT ![r] = e]
        /\ pc' = [pc EXCEPT ![r] = "commit"]
        /\ UNCHANGED <<status, clusters>>
    BY <1>2 DEF BeginReplace, Goto
  <2>2. e.cluster = {c} /\ e.former = clusters[c]
    OBVIOUS
  <2> HIDE DEF e
  <2>3. \A q \in Replace : replacing'[q] = IF q = r THEN e ELSE replacing[q]
    BY <2>1 DEF ShardInv, TypeOK
  <2>4. \A q \in Request : pc'[q] = IF q = r THEN "commit" ELSE pc[q]
    BY <2>1 DEF ShardInv, TypeOK
  <2>5. \A a \in DOMAIN clusters : a \in Request /\ a # r
    BY ShardAssumption DEF ShardInv, TypeOK, Request
  <2>6. \A q \in Replace : q # r /\ Open(q)' => Open(q)
    BY <2>4 DEF Open, Request
  <2>7. \A q \in Replace : Open(q)' => \A d \in replacing'[q].cluster :
          d \in DOMAIN clusters' /\ replacing'[q].former = clusters'[d]
    BY <2>1, <2>2, <2>3, <2>6 DEF FormerInv
  <2> QED BY <2>1, <2>4, <2>5, <2>7 DEF FormerInv, SealStep
<1> QED BY <1>1, <1>2

\* It seals them when it commits, and no other replacement has read them.
LEMMA CommitReplaceFormer ==
  ASSUME ShardInv, FormerInv, ReplacesApart, NEW r \in Replace, CommitReplace(r)
  PROVE  FormerInv' /\ SealStep
<1>1. /\ Open(r) /\ r \in Request
      /\ status' = Over([n \in replacing[r].former |-> "READ_ONLY"], status)
      /\ clusters' = [c \in DOMAIN clusters |->
           IF c \in replacing[r].cluster THEN replacing[r].nodes ELSE clusters[c]]
      /\ replacing' = [replacing EXCEPT ![r] = NotReplacing]
      /\ pc' = [pc EXCEPT ![r] = "done"]
  BY DEF CommitReplace, Goto, Open, Request
<1>2. /\ \A n \in replacing[r].former : status'[n] = "READ_ONLY"
      /\ \A n \in DOMAIN status \ replacing[r].former : status'[n] = status[n]
  BY <1>1 DEF Over
<1>3. \A c \in replacing[r].cluster : replacing[r].former = clusters[c]
  BY <1>1 DEF FormerInv
<1>4. SealStep
  BY <1>1, <1>2, <1>3 DEF SealStep
<1>5. \A q \in Request : pc'[q] = IF q = r THEN "done" ELSE pc[q]
  BY <1>1 DEF ShardInv, TypeOK
<1>6. \A q \in Replace : q # r => replacing'[q] = replacing[q]
  BY <1>1 DEF ShardInv, TypeOK
<1>7. \A c \in DOMAIN clusters' : pc'[c] = "done"
  BY <1>1, <1>5 DEF FormerInv, ShardInv, TypeOK, Request
<1>8. \A q \in Replace : Open(q)' => q # r /\ Open(q)
  BY <1>5 DEF Open, Request
<1>9. ASSUME NEW q \in Replace, Open(q)', NEW c \in replacing'[q].cluster
      PROVE  c \in DOMAIN clusters' /\ replacing'[q].former = clusters'[c]
  <2>1. q # r /\ Open(q) /\ replacing'[q] = replacing[q]
    BY <1>6, <1>8, <1>9
  <2>2. c \notin replacing[r].cluster
    BY <2>1, <1>1, <1>9 DEF ReplacesApart
  <2>3. c \in DOMAIN clusters /\ replacing[q].former = clusters[c]
    BY <2>1, <1>9 DEF FormerInv
  <2> QED BY <2>1, <2>2, <2>3, <1>1
<1> QED BY <1>4, <1>7, <1>9 DEF FormerInv

\* A request that is undone has changed no row.
LEMMA AbortFormer ==
  ASSUME ShardInv, FormerInv, NEW r \in Request, Abort(r)
  PROVE  FormerInv' /\ SealStep
<1>1. \A q \in Request : pc'[q] = IF q = r THEN "failed" ELSE pc[q]
  BY DEF Abort, Goto, ShardInv, TypeOK
<1>2. \A q \in Replace : q # r => replacing'[q] = replacing[q]
  BY DEF Abort
<1>3. \A q \in Replace : Open(q)' => q # r /\ Open(q)
  BY <1>1 DEF Open, Request
<1>4. \A a \in DOMAIN clusters : a \in Request /\ a # r
  BY DEF Abort, Open, FormerInv, ShardInv, TypeOK, Request
<1>5. UNCHANGED <<status, clusters>>
  BY DEF Abort
<1> QED BY <1>1, <1>2, <1>3, <1>4, <1>5 DEF FormerInv, SealStep

\* Every step preserves FormerInv and seals what it takes out.
LEMMA NextFormer ==
  ASSUME ShardInv, FormerInv, ReplacesApart, [Next]_vars
  PROVE  FormerInv' /\ [SealStep]_vars
<1>1. CASE \E n \in Node : RegisterWorker(n)
  BY <1>1, RegisterFormer
<1>2. ASSUME NEW a \in Add, AddStep(a) PROVE FormerInv' /\ SealStep
  <2>1. a \in Request
    BY DEF Request
  <2>2. CASE \E ids \in SUBSET Node : BeginAdd(a, ids)
    BY <2>1, <2>2, LocalFormer DEF BeginAdd, Refuse
  <2>3. CASE Bootstrap(a)
    BY <2>1, <2>3, LocalFormer DEF Bootstrap
  <2>4. ASSUME NEW row \in adding[a].owned, Pick(a, row) PROVE FormerInv' /\ SealStep
    <3>1. CASE UNCHANGED pc
      BY <2>4, <3>1 DEF Pick, FormerInv, SealStep, Open
    <3>2. CASE Goto(a, "apply")
      BY <2>1, <2>4, <3>2, LocalFormer DEF Pick
    <3> QED BY <2>4, <3>1, <3>2 DEF Pick
  <2>5. CASE Apply(a)
    BY <2>1, <2>5, LocalFormer DEF Apply
  <2>6. CASE CommitAdd(a)
    BY <2>6, CommitAddFormer
  <2> QED BY <1>2, <2>2, <2>3, <2>4, <2>5, <2>6 DEF AddStep
<1>3. ASSUME NEW r \in Replace, ReplaceStep(r) PROVE FormerInv' /\ SealStep
  BY <1>3, BeginReplaceFormer, CommitReplaceFormer DEF ReplaceStep
<1>4. CASE \E r \in Request : Abort(r)
  BY <1>4, AbortFormer
<1>5. CASE UNCHANGED vars
  BY <1>5 DEF vars, FormerInv, Open
<1> QED BY <1>1, <1>2, <1>3, <1>4, <1>5 DEF Next, Step

\* The workers that ReplaceCluster takes out of a cluster are READ_ONLY from
\* then on, and no heartbeat makes a READ_ONLY worker active again, for any
\* number of workers, clusters, additions and failures, as long as no two
\* replacements of one cluster overlap.
THEOREM SealedStaySealed == Spec /\ []ReplacesApart => FormerNodesReadOnly
<1>1. Init => FormerInv
  BY DEF Init, FormerInv, Empty, Open, Request
<1>2. ShardInv /\ FormerInv /\ ReplacesApart /\ [Next]_vars => FormerInv' /\ [SealStep]_vars
  BY NextFormer
<1>3. FormerNodesReadOnly <=> [][SealStep]_vars
  BY DEF FormerNodesReadOnly, SealStep
<1> QED BY <1>1, <1>2, <1>3, ShardInvAlways, PTL DEF Spec
-----------------------------------------------------------------------------
(* The load.  That AddCluster leaves every cluster with its share is a     *)
(* statement about a sum over the clusters; the invariant keeps that sum   *)
(* while the loop of the request goes over them.                           *)

Count(c) == Cardinality(OwnedBy(shard, c))

\* The share that AddCluster computes.
Share == Cardinality(Bucket) \div (Cardinality(Owners(shard)) + 1)

\* Owners the loop of request a has not visited, the buckets these own, and the
\* buckets that the request has moved or is about to move.
Rest(a) == {c \in Owners(shard) : <<c, Count(c)>> \in adding[a].owned}
OfRest(a) == {b \in Bucket : shard[b] \in Rest(a)}
Taken(a) == adding[a].moved \cup adding[a].picked

\* The rows of the loop are up to date, it has left exactly the share to every
\* cluster it has visited and nothing is taken from the others; the buckets
\* taken, left and not yet looked at are all buckets.
LoopSane(a) ==
  /\ adding[a].target = Share
  /\ \A row \in adding[a].owned : row[1] \in Owners(shard) /\ row[2] = Count(row[1])
  /\ pc[a] = "loop" => adding[a].picked = {}
  /\ \A c \in Owners(shard) \ Rest(a) : Cardinality(OwnedBy(shard, c) \ Taken(a)) = Share
  /\ \A c \in Rest(a) : OwnedBy(shard, c) \cap Taken(a) = {}
  /\ Cardinality(Taken(a)) + Share * Cardinality(Owners(shard) \ Rest(a))
       + Cardinality(OfRest(a)) = Cardinality(Bucket)

\* Every cluster has at least its part, and all but one exactly that.
Part == Cardinality(Bucket) \div Cardinality(DOMAIN clusters)
EvenLoad ==
  /\ Owners(shard) = DOMAIN clusters
  /\ \A c \in DOMAIN clusters : Count(c) >= Part
  /\ \E last \in DOMAIN clusters : \A c \in DOMAIN clusters \ {last} : Count(c) = Part

Alone == \A a, b \in Add : Open(a) /\ Open(b) => a = b

LoadCore ==
  /\ Alone
  /\ \A a \in Add : pc[a] \in {"bootstrap", "commit"} => DOMAIN shard = {}
  /\ \A a \in Add : pc[a] \in {"loop", "apply"} => LoopSane(a)
  /\ DOMAIN shard # {} => EvenLoad

LoadTables ==
  /\ IsFiniteSet(DOMAIN clusters)
  /\ \A a \in DOMAIN clusters : pc[a] = "done"
  /\ DOMAIN shard = {} => DOMAIN clusters = {}

\* There are at least as many buckets as clusters.
Few == Cardinality(DOMAIN clusters) <= Cardinality(Bucket)

LoadInv == LoadTables /\ (~overlapped /\ Few => LoadCore)

\* Facts about the division by which AddCluster computes the share.
LEMMA ShareFacts ==
  ASSUME NEW m \in Nat, NEW k \in Nat
  PROVE  /\ m \div (k + 1) \in Nat
         /\ (m \div (k + 1)) * (k + 1) <= m
         /\ k + 1 <= m => m \div (k + 1) >= 1
         /\ k >= 1 => m \div (k + 1) <= m \div k
<1> DEFINE t == m \div (k + 1)
<1>1. t \in Nat /\ t * (k + 1) <= m /\ m < t * (k + 1) + (k + 1)
  <2>1. ASSUME NEW j \in Nat, j >= 1
        PROVE  m \div j \in Nat /\ (m \div j) * j <= m /\ m < (m \div j) * j + j
    BY <2>1, SMT
  <2>2. k + 1 \in Nat /\ k + 1 >= 1
    OBVIOUS
  <2> QED BY <2>1, <2>2, Zenon
<1>2. k + 1 <= m => t >= 1
  <2> SUFFICES ASSUME k + 1 <= m, t = 0 PROVE FALSE
    BY <1>1
  <2> QED BY <1>1, SMT
<1>3. ASSUME k >= 1 PROVE t <= m \div k
  <2> DEFINE u == m \div k
  <2>1. u \in Nat /\ m < u * k + k
    BY <1>3, SMT
  <2> HIDE DEF t, u
  <2> SUFFICES ASSUME t >= u + 1 PROVE FALSE
    BY <1>1, <2>1 DEF u
  <2>2. t * k >= (u + 1) * k
    BY <1>1, <2>1, SMT
  <2>3. (u + 1) * k = u * k + k /\ t * (k + 1) = t * k + t
    BY <1>1, <2>1, SMT
  <2> QED BY <1>1, <2>1, <2>2, <2>3, SMT
<1> QED BY <1>1, <1>2, <1>3

\* Sets of buckets are finite.
LEMMA BucketSubset ==
  ASSUME NEW S, S \subseteq Bucket
  PROVE  IsFiniteSet(S) /\ Cardinality(S) \in Nat
BY FS_Subset, FS_CardinalityType, ShardAssumption

\* The cardinality of a set that is split in two.
LEMMA SplitCount ==
  ASSUME NEW S, NEW T, IsFiniteSet(S), IsFiniteSet(T), S \cap T = {}
  PROVE  /\ IsFiniteSet(S \cup T)
         /\ Cardinality(S \cup T) = Cardinality(S) + Cardinality(T)
<1>1. IsFiniteSet(S \cup T) /\ Cardinality(S \cup T) =
        Cardinality(S) + Cardinality(T) - Cardinality(S \cap T)
  BY FS_Union
<1>2. Cardinality(S \cap T) = 0
  BY FS_EmptySet
<1>3. Cardinality(S) \in Nat /\ Cardinality(T) \in Nat
  BY FS_CardinalityType
<1> QED BY <1>1, <1>2, <1>3

\* LoadCore is preserved where the map and the set of clusters stay, and each
\* request to add a cluster stays or comes to a place that is sane.
LEMMA LoadFrame ==
  ASSUME LoadCore, Alone', shard' = shard, DOMAIN clusters' = DOMAIN clusters,
         \A b \in Add : \/ pc'[b] = pc[b] /\ adding'[b] = adding[b]
                        \/ /\ pc'[b] \in {"bootstrap", "commit"} => DOMAIN shard = {}
                           /\ pc'[b] \in {"loop", "apply"} => LoopSane(b)'
  PROVE  LoadCore'
<1>1. \A b \in Add : pc'[b] = pc[b] /\ adding'[b] = adding[b] /\ LoopSane(b) => LoopSane(b)'
  BY DEF LoopSane, Share, Rest, OfRest, Taken, Count, Owners, OwnedBy
<1>2. EvenLoad => EvenLoad'
  BY DEF EvenLoad, Part, Count, Owners, OwnedBy
<1> QED BY <1>1, <1>2 DEF LoadCore

\* The share is at most what any cluster has.
LEMMA ShareBelow ==
  ASSUME ShardInv, LoadTables, LoadCore, DOMAIN shard # {}
  PROVE  /\ Share \in Nat /\ Owners(shard) = DOMAIN clusters
         /\ \A c \in Owners(shard) : Count(c) \in Nat /\ Count(c) >= Share
<1>1. EvenLoad
  BY DEF LoadCore
<1> DEFINE k == Cardinality(DOMAIN clusters)
           m == Cardinality(Bucket)
<1>2. k \in Nat /\ m \in Nat
  BY FS_CardinalityType, ShardAssumption DEF LoadTables
<1>3. k >= 1
  <2>1. DOMAIN clusters # {}
    BY <1>1 DEF EvenLoad, Owners
  <2>2. k # 0
    BY <2>1, FS_EmptySet DEF LoadTables
  <2> QED BY <1>2, <2>2
<1>4. Share = m \div (k + 1) /\ Part = m \div k
  BY <1>1 DEF EvenLoad, Share, Part
<1>5. Share \in Nat /\ Share <= Part
  BY <1>2, <1>3, <1>4, ShareFacts
<1>6. Part \in Nat
  <2>1. \A i, j \in Nat : j >= 1 => i \div j \in Nat
    BY SMT
  <2> HIDE DEF k, m
  <2> QED BY <1>2, <1>3, <1>4, <2>1
<1>7. \A c : Count(c) \in Nat
  BY CountType DEF ShardInv, TypeOK, Count
<1> HIDE DEF k, m
<1> QED BY <1>1, <1>5, <1>6, <1>7 DEF EvenLoad

\* AddCluster counts the buckets of every owner and visits none yet.
LEMMA BeginAddLoad ==
  ASSUME ShardInv, LoadTables, LoadCore, Alone', NEW a \in Add, NEW ids \in SUBSET Node,
         BeginAdd(a, ids)
  PROVE  LoadCore'
<1>0. a \in Request /\ \A b \in Add : b \in Request
  BY DEF Request
<1>1. CASE Refuse(a)
  <2>1. \A b \in Add : adding'[b] = adding[b] /\ (pc'[b] = pc[b] \/ pc'[b] = "failed")
    BY <1>0, <1>1 DEF Refuse, Goto, ShardInv, TypeOK
  <2>2. shard' = shard /\ DOMAIN clusters' = DOMAIN clusters
    BY <1>1 DEF Refuse
  <2> QED BY <2>1, <2>2, LoadFrame
<1>2. CASE ~Refuse(a)
  <2> DEFINE rows == {<<c, Cardinality(OwnedBy(shard, c))>> : c \in Owners(shard)}
             e == [NotAdding EXCEPT !.nodes = ids, !.owned = rows,
                     !.target = Cardinality(Bucket) \div (Cardinality(Owners(shard)) + 1)]
             where == IF Owners(shard) = {} THEN "bootstrap" ELSE "loop"
  <2>1. /\ adding' = [adding EXCEPT ![a] = e] /\ pc' = [pc EXCEPT ![a] = where]
        /\ UNCHANGED <<status, clusters, shard, replacing>>
    BY <1>2 DEF BeginAdd, Goto
  <2>2. e.owned = rows /\ e.target = Share /\ e.picked = {} /\ e.moved = {}
    BY DEF NotAdding, Share
  <2> HIDE DEF e, where
  <2>3. \A b \in Add : adding'[b] = IF b = a THEN e ELSE adding[b]
    BY <2>1 DEF ShardInv, TypeOK
  <2>4. \A b \in Add : pc'[b] = IF b = a THEN where ELSE pc[b]
    BY <1>0, <2>1 DEF ShardInv, TypeOK
  <2>5. CASE Owners(shard) = {}
    <3>1. DOMAIN shard = {} /\ where = "bootstrap"
      BY <2>5 DEF Owners, where
    <3> QED BY <2>1, <2>3, <2>4, <3>1, LoadFrame
  <2>6. CASE Owners(shard) # {}
    <3>1. DOMAIN shard = Bucket /\ where = "loop"
      BY <2>6 DEF Owners, ShardInv, where
    <3>2. adding'[a].owned = rows /\ adding'[a].target = Share /\ Taken(a)' = {}
          /\ adding'[a].picked = {}
      BY <2>2, <2>3 DEF Taken
    <3>3. Share' = Share /\ Owners(shard)' = Owners(shard) /\ \A c : Count(c)' = Count(c)
      BY <2>1 DEF Share, Count, Owners, OwnedBy
    <3>4. Rest(a)' = Owners(shard)
      BY <2>1, <3>2, <3>3 DEF Rest, Count
    <3>5. OfRest(a)' = Bucket
      BY <2>1, <3>1, <3>4 DEF OfRest, Owners
    <3>6. \A row \in adding'[a].owned : row[1] \in Owners(shard) /\ row[2] = Count(row[1])
      BY <3>2 DEF Count
    <3>7. Share \in Nat /\ Cardinality(Bucket) \in Nat
      BY <3>1, ShareBelow, ShardAssumption, BucketSubset
    <3>8. Cardinality(Taken(a)') = 0 /\ Cardinality(Owners(shard)' \ Rest(a)') = 0
      BY <3>2, <3>3, <3>4, FS_EmptySet
    <3>9. Cardinality(Taken(a)') + Share * Cardinality(Owners(shard)' \ Rest(a)')
            + Cardinality(OfRest(a)') = Cardinality(Bucket)
      BY <3>5, <3>7, <3>8
    <3>10. LoopSane(a)'
      BY <2>1, <3>2, <3>3, <3>4, <3>6, <3>9 DEF LoopSane
    <3> QED BY <2>1, <2>3, <2>4, <3>1, <3>10, LoadFrame
  <2> QED BY <2>5, <2>6
<1> QED BY <1>1, <1>2

\* The loop goes past the row of cluster c: whichever of its surplus buckets
\* are taken, it is left with the share.
LEMMA PickSane ==
  ASSUME ShardInv, LoadTables, LoadCore, NEW a \in Add, pc[a] = "loop",
         NEW row \in adding[a].owned, NEW bs \in SUBSET OwnedBy(shard, row[1]),
         Cardinality(bs) = Count(row[1]) - Share,
         shard' = shard,
         adding'[a].owned = adding[a].owned \ {row}, adding'[a].target = adding[a].target,
         adding'[a].moved = adding[a].moved, adding'[a].picked = bs,
         pc'[a] = "loop" => bs = {}
  PROVE  LoopSane(a)'
<1> DEFINE c == row[1]
           mine == OwnedBy(shard, c)
<1>1. LoopSane(a) /\ DOMAIN shard = Bucket
  BY DEF LoadCore, ShardInv
<1>2. /\ Share \in Nat /\ Owners(shard) = DOMAIN clusters
      /\ \A d \in Owners(shard) : Count(d) \in Nat /\ Count(d) >= Share
  BY <1>1, ShareBelow, ShardAssumption
<1>3. c \in Owners(shard) /\ row = <<c, Count(c)>> /\ c \in Rest(a)
  <2>1. row \in Add \X Nat
    BY DEF ShardInv, TypeOK
  <2>2. c \in Owners(shard) /\ row[2] = Count(c)
    BY <1>1 DEF LoopSane
  <2> QED BY <2>1, <2>2 DEF Rest
<1>4. /\ Share' = Share /\ Owners(shard)' = Owners(shard)
      /\ \A d : Count(d)' = Count(d) /\ OwnedBy(shard, d)' = OwnedBy(shard, d)
  BY DEF Share, Count, Owners, OwnedBy
<1>5. Rest(a)' = Rest(a) \ {c}
  BY <1>3, <1>4 DEF Rest
<1>6. adding[a].picked = {} /\ Taken(a) = adding[a].moved /\ Taken(a)' = Taken(a) \cup bs
  BY <1>1 DEF LoopSane, Taken
<1>7. mine \cap Taken(a) = {} /\ bs \cap Taken(a) = {} /\ bs \subseteq mine
  BY <1>1, <1>3 DEF LoopSane
<1>8. mine \subseteq Bucket /\ Taken(a) \subseteq Bucket /\ bs \subseteq Bucket
  BY <1>1, <1>6 DEF OwnedBy, ShardInv, TypeOK
<1>9. Cardinality(mine) = Count(c) /\ Count(c) \in Nat
  BY <1>2, <1>3 DEF Count
<1>10. Cardinality(mine \ Taken(a)') = Share
  <2>1. mine \ Taken(a)' = mine \ bs
    BY <1>6, <1>7
  <2>2. /\ IsFiniteSet(mine \ bs) /\ IsFiniteSet(bs)
        /\ Cardinality(mine \ bs) \in Nat /\ Cardinality(bs) \in Nat
    BY <1>8, BucketSubset
  <2>3. (mine \ bs) \cup bs = mine /\ (mine \ bs) \cap bs = {}
    BY <1>7
  <2>4. Cardinality(mine) = Cardinality(mine \ bs) + Cardinality(bs)
    BY <2>2, <2>3, SplitCount
  <2>5. Cardinality(bs) = Cardinality(mine) - Share /\ Cardinality(mine) \in Nat
    BY <1>9
  <2>6. Share \in Nat
    BY <1>2
  <2> HIDE DEF mine
  <2>7. Cardinality(mine \ bs) = Share
    BY <2>2, <2>4, <2>5, <2>6
  <2> QED BY <2>1, <2>7
<1>11. \A d : d # c => OwnedBy(shard, d) \cap bs = {}
  BY <1>7 DEF OwnedBy
<1>12. \A d \in Owners(shard) \ Rest(a)' :
         Cardinality(OwnedBy(shard, d) \ Taken(a)') = Share
  <2> SUFFICES ASSUME NEW d \in Owners(shard) \ Rest(a)', d # c
               PROVE  Cardinality(OwnedBy(shard, d) \ Taken(a)') = Share
    BY <1>10
  <2>1. d \in Owners(shard) \ Rest(a)
    BY <1>5
  <2>2. OwnedBy(shard, d) \ Taken(a)' = OwnedBy(shard, d) \ Taken(a)
    BY <1>6, <1>11
  <2> QED BY <1>1, <2>1, <2>2 DEF LoopSane
<1>13. \A d \in Rest(a)' : OwnedBy(shard, d) \cap Taken(a)' = {}
  BY <1>1, <1>5, <1>6, <1>11 DEF LoopSane
<1>14. Cardinality(Taken(a)') = Cardinality(Taken(a)) + Count(c) - Share
  <2>1. /\ IsFiniteSet(Taken(a)) /\ IsFiniteSet(bs)
        /\ Cardinality(Taken(a)) \in Nat
    BY <1>8, BucketSubset
  <2>2. Cardinality(Taken(a) \cup bs) = Cardinality(Taken(a)) + Cardinality(bs)
    BY <1>7, <2>1, SplitCount
  <2> QED BY <1>2, <1>6, <1>9, <2>1, <2>2
<1>15. /\ Cardinality(Owners(shard) \ Rest(a)') = Cardinality(Owners(shard) \ Rest(a)) + 1
       /\ Cardinality(Owners(shard) \ Rest(a)) \in Nat
  <2>1. Owners(shard) \ Rest(a)' = (Owners(shard) \ Rest(a)) \cup {c}
    BY <1>3, <1>5
  <2>2. IsFiniteSet(Owners(shard) \ Rest(a))
    BY <1>2, FS_Subset DEF LoadTables
  <2>3. c \notin Owners(shard) \ Rest(a)
    BY <1>3
  <2> QED BY <2>1, <2>2, <2>3, FS_AddElement, FS_CardinalityType
<1>16. Cardinality(OfRest(a)) = Cardinality(OfRest(a)') + Count(c) /\ Cardinality(OfRest(a)') \in Nat
  <2>1. OfRest(a)' = {b \in Bucket : shard[b] \in Rest(a) \ {c}}
    BY <1>5 DEF OfRest
  <2>2. OfRest(a) = OfRest(a)' \cup mine /\ OfRest(a)' \cap mine = {}
    BY <1>1, <1>3, <2>1 DEF OfRest, OwnedBy
  <2>3. /\ IsFiniteSet(OfRest(a)') /\ Cardinality(OfRest(a)') \in Nat
        /\ IsFiniteSet(mine)
    BY <1>8, <2>1, BucketSubset
  <2> QED BY <1>9, <2>2, <2>3, SplitCount
<1>17. Cardinality(Taken(a)') + Share * Cardinality(Owners(shard) \ Rest(a)')
         + Cardinality(OfRest(a)') = Cardinality(Bucket)
  <2>1. Cardinality(Taken(a)) + Share * Cardinality(Owners(shard) \ Rest(a))
          + Cardinality(OfRest(a)) = Cardinality(Bucket)
    BY <1>1 DEF LoopSane
  <2>2. Cardinality(Taken(a)) \in Nat
    BY <1>8, BucketSubset
  <2>3. ASSUME NEW t \in Int, NEW n \in Int, NEW s \in Int, NEW v \in Int, NEW u \in Int
        PROVE  t + s * v + (u + n) = (t + n - s) + s * (v + 1) + u
    BY SMT
  <2> QED BY <1>2, <1>9, <1>14, <1>15, <1>16, <2>1, <2>2, <2>3
<1>18. /\ adding'[a].target = Share
       /\ \A r \in adding'[a].owned : r[1] \in Owners(shard) /\ r[2] = Count(r[1])
  BY <1>1 DEF LoopSane
<1> HIDE DEF c, mine
<1> QED BY <1>4, <1>12, <1>13, <1>17, <1>18 DEF LoopSane

\* A row of the loop.
LEMMA PickLoad ==
  ASSUME ShardInv, LoadTables, LoadCore, Alone', NEW a \in Add,
         NEW row \in adding[a].owned, Pick(a, row)
  PROVE  LoadCore'
<1> DEFINE c == row[1]
<1>0. a \in Request /\ (\A b \in Add : b \in Request) /\ pc[a] = "loop"
      /\ UNCHANGED <<status, clusters, shard, replacing>>
  BY DEF Request, Pick
<1>1. LoopSane(a) /\ DOMAIN shard = Bucket
  BY <1>0 DEF LoadCore, ShardInv
<1>2. /\ Share \in Nat /\ Owners(shard) = DOMAIN clusters
      /\ \A d \in Owners(shard) : Count(d) \in Nat /\ Count(d) >= Share
  BY <1>1, ShareBelow, ShardAssumption
<1>3. c \in Owners(shard) /\ Surplus(a, row) = Count(c) - Share
  BY <1>1 DEF LoopSane, Surplus
<1>4. CASE Surplus(a, row) <= 0
  <2>1. Cardinality({}) = Count(c) - Share /\ {} \in SUBSET OwnedBy(shard, row[1])
    BY <1>2, <1>3, <1>4, FS_EmptySet
  <2>2. adding' = [adding EXCEPT ![a].owned = adding[a].owned \ {row}] /\ UNCHANGED pc
    BY <1>2, <1>3, <1>4 DEF Pick
  <2>3. /\ adding'[a].owned = adding[a].owned \ {row} /\ adding'[a].target = adding[a].target
        /\ adding'[a].moved = adding[a].moved /\ adding'[a].picked = adding[a].picked
        /\ \A b \in Add : b # a => adding'[b] = adding[b]
    BY <2>2 DEF ShardInv, TypeOK
  <2>4. adding[a].picked = {}
    BY <1>0, <1>1 DEF LoopSane
  <2>5. LoopSane(a)'
    BY <1>0, <2>1, <2>3, <2>4, PickSane
  <2> QED BY <1>0, <2>2, <2>3, <2>5, LoadFrame
<1>5. CASE Surplus(a, row) > 0
  <2>1. PICK bs \in Limit(OwnedBy(Visible(a), c), Surplus(a, row)) :
          adding' = [adding EXCEPT ![a].owned = adding[a].owned \ {row}, ![a].picked = bs]
    BY <1>2, <1>3, <1>5 DEF Pick
  <2>2. pc' = [pc EXCEPT ![a] = "apply"]
    BY <1>2, <1>3, <1>5 DEF Pick, Goto
  <2>3. OwnedBy(Visible(a), c) = OwnedBy(shard, c)
    <3>1. a # c
      BY <1>0, <1>2, <1>3 DEF LoadTables
    <3>2. c \in Rest(a)
      <4>1. row \in Add \X Nat
        BY DEF ShardInv, TypeOK
      <4>2. c \in Owners(shard) /\ row[2] = Count(c)
        BY <1>1 DEF LoopSane
      <4> QED BY <4>1, <4>2 DEF Rest
    <3>3. OwnedBy(shard, c) \cap adding[a].moved = {}
      BY <1>1, <3>2 DEF LoopSane, Taken
    <3> QED BY <3>1, <3>3 DEF OwnedBy, Visible, Over
  <2>4. bs \in SUBSET OwnedBy(shard, c) /\ Cardinality(bs) <= Count(c) - Share
        /\ (bs = OwnedBy(shard, c) \/ Cardinality(bs) = Count(c) - Share)
    BY <1>3, <2>1, <2>3 DEF Limit
  <2>5. Cardinality(bs) = Count(c) - Share
    BY <1>2, <1>3, <2>4 DEF Count
  <2>6. /\ adding'[a].owned = adding[a].owned \ {row} /\ adding'[a].target = adding[a].target
        /\ adding'[a].moved = adding[a].moved /\ adding'[a].picked = bs
        /\ \A b \in Add : b # a => adding'[b] = adding[b]
    BY <2>1 DEF ShardInv, TypeOK
  <2>7. pc'[a] = "apply" /\ \A b \in Add : b # a => pc'[b] = pc[b]
    BY <1>0, <2>2 DEF ShardInv, TypeOK
  <2>8. LoopSane(a)'
    BY <1>0, <2>4, <2>5, <2>6, <2>7, PickSane
  <2> QED BY <1>0, <2>6, <2>7, <2>8, LoadFrame
<1> QED BY <1>4, <1>5 DEF Pick

\* The rows that were picked are written.
LEMMA ApplyLoad ==
  ASSUME ShardInv, LoadTables, LoadCore, Alone', NEW a \in Add, Apply(a)
  PROVE  LoadCore'
<1>0. a \in Request /\ \A b \in Add : b \in Request
  BY DEF Request
<1>1. /\ pc[a] = "apply" /\ pc' = [pc EXCEPT ![a] = "loop"]
      /\ adding' = [adding EXCEPT ![a].moved = @ \cup adding[a].picked, ![a].picked = {}]
      /\ UNCHANGED <<status, clusters, shard, replacing>>
  BY DEF Apply, Goto
<1>2. LoopSane(a)
  BY <1>1 DEF LoadCore
<1>3. /\ adding'[a].owned = adding[a].owned /\ adding'[a].target = adding[a].target
      /\ adding'[a].moved = adding[a].moved \cup adding[a].picked /\ adding'[a].picked = {}
      /\ \A b \in Add : b # a => adding'[b] = adding[b]
  BY <1>1 DEF ShardInv, TypeOK
<1>4. Taken(a)' = Taken(a) /\ Share' = Share /\ Rest(a)' = Rest(a) /\ OfRest(a)' = OfRest(a)
      /\ Owners(shard)' = Owners(shard) /\ \A d : Count(d)' = Count(d)
  BY <1>1, <1>3 DEF Taken, Rest, OfRest, Share, Count, Owners, OwnedBy
<1>5. LoopSane(a)'
  BY <1>1, <1>2, <1>3, <1>4 DEF LoopSane
<1>6. \A b \in Add : b # a => pc'[b] = pc[b]
  BY <1>0, <1>1 DEF ShardInv, TypeOK
<1>7. pc'[a] = "loop"
  BY <1>0, <1>1 DEF ShardInv, TypeOK
<1> QED BY <1>1, <1>3, <1>5, <1>6, <1>7, LoadFrame

\* The first cluster gets every bucket.
LEMMA BootstrapLoad ==
  ASSUME ShardInv, LoadTables, LoadCore, Alone', NEW a \in Add, Bootstrap(a)
  PROVE  LoadCore'
<1>0. a \in Request /\ \A b \in Add : b \in Request
  BY DEF Request
<1>1. /\ pc[a] = "bootstrap" /\ pc' = [pc EXCEPT ![a] = "commit"]
      /\ UNCHANGED <<status, clusters, shard, replacing>>
  BY DEF Bootstrap, Goto
<1>2. \A b \in Add : b # a => pc'[b] = pc[b] /\ adding'[b] = adding[b]
  BY <1>0, <1>1 DEF Bootstrap, ShardInv, TypeOK
<1>3. pc'[a] = "commit" /\ DOMAIN shard = {}
  BY <1>0, <1>1 DEF ShardInv, TypeOK, LoadCore
<1> QED BY <1>1, <1>2, <1>3, LoadFrame

\* The commit of AddCluster: the new cluster has what the loop has moved, which
\* is at least the share, and every other cluster has exactly the share.
LEMMA CommitAddLoad ==
  ASSUME ShardInv, LoadTables, LoadCore, Few', Alone', NEW a \in Add, CommitAdd(a)
  PROVE  LoadCore'
<1> DEFINE m == Cardinality(Bucket)
           k == Cardinality(DOMAIN clusters)
<1>0. a \in Request /\ (\A b \in Add : b \in Request) /\ Open(a)
  BY DEF Request, CommitAdd, Open
<1>1. /\ clusters' = Over([x \in {a} |-> adding[a].nodes], clusters)
      /\ shard' = Over([b \in adding[a].moved |-> a], shard)
      /\ pc' = [pc EXCEPT ![a] = "done"]
  BY DEF CommitAdd, Goto, Visible
<1>2. a \notin DOMAIN clusters
  BY DEF CommitAdd, LoadTables
<1>3. DOMAIN clusters' = DOMAIN clusters \cup {a}
  BY <1>1, OverType
<1>4. k \in Nat /\ m \in Nat /\ Cardinality(DOMAIN clusters') = k + 1 /\ k + 1 <= m
  <2>1. k \in Nat /\ m \in Nat
    BY FS_CardinalityType, ShardAssumption DEF LoadTables
  <2>2. Cardinality(DOMAIN clusters \cup {a}) = k + 1
    BY <1>2, FS_AddElement DEF LoadTables
  <2> QED BY <1>3, <2>1, <2>2 DEF Few
<1>5. \A b \in Add : pc'[b] \notin {"bootstrap", "commit", "loop", "apply"}
  <2>1. pc'[a] = "done" /\ \A b \in Add : b # a => pc'[b] = pc[b]
    BY <1>0, <1>1 DEF ShardInv, TypeOK
  <2>2. \A b \in Add : b # a => ~Open(b)
    BY <1>0 DEF LoadCore, Alone
  <2> QED BY <2>1, <2>2 DEF Open
<1>6. adding[a].moved \subseteq Bucket /\ DOMAIN shard \subseteq Bucket
  BY DEF ShardInv, TypeOK
<1>7. \A b \in DOMAIN shard : shard[b] # a
  BY <1>2 DEF ShardInv
<1>8. /\ OwnedBy(shard', a) = adding[a].moved
      /\ \A c : c # a => OwnedBy(shard', c) = OwnedBy(shard, c) \ adding[a].moved
  BY <1>1, <1>7 DEF OwnedBy, Over
<1>9. Part' = m \div (k + 1)
  BY <1>4 DEF Part
<1> DEFINE t == m \div (k + 1)
<1>10. t \in Nat /\ t * (k + 1) <= m /\ t >= 1
  BY <1>4, ShareFacts
<1>11. /\ \A c \in DOMAIN clusters : Cardinality(OwnedBy(shard', c)) = t
       /\ Cardinality(adding[a].moved) \in Nat
       /\ Cardinality(adding[a].moved) >= t
  <2>0. Cardinality(adding[a].moved) \in Nat
    BY <1>6, BucketSubset
  <2>1. CASE pc[a] = "commit"
    <3>1. DOMAIN clusters = {} /\ adding[a].moved = Bucket
      BY <2>1 DEF LoadCore, LoadTables, ShardInv
    <3>2. k = 0
      BY <3>1, FS_EmptySet
    <3>3. t <= m
      BY <1>4, <1>10, <3>2
    <3> QED BY <2>0, <3>1, <3>3
  <2>2. CASE pc[a] = "loop"
    <3>1. LoopSane(a) /\ adding[a].owned = {} /\ DOMAIN shard = Bucket
      BY <2>2 DEF LoadCore, CommitAdd, ShardInv
    <3>2. Owners(shard) = DOMAIN clusters /\ Share = t
      <4>1. Owners(shard) = DOMAIN clusters
        BY <3>1, ShareBelow, ShardAssumption
      <4> QED BY <4>1 DEF Share
    <3>3. Rest(a) = {} /\ OfRest(a) = {} /\ Taken(a) = adding[a].moved
      BY <2>2, <3>1 DEF Rest, OfRest, LoopSane, Taken
    <3>4. \A c \in DOMAIN clusters : Cardinality(OwnedBy(shard, c) \ adding[a].moved) = t
      BY <3>1, <3>2, <3>3 DEF LoopSane
    <3>5. Cardinality(adding[a].moved) + t * k + 0 = m
      <4>1. Owners(shard) \ Rest(a) = DOMAIN clusters
        BY <3>2, <3>3
      <4>2. Cardinality(OfRest(a)) = 0
        BY <3>3, FS_EmptySet
      <4>3. Cardinality(Taken(a)) + Share * Cardinality(Owners(shard) \ Rest(a))
              + Cardinality(OfRest(a)) = m
        BY <3>1 DEF LoopSane
      <4> QED BY <3>2, <3>3, <4>1, <4>2, <4>3
    <3>6. Cardinality(adding[a].moved) >= t
      <4>1. ASSUME NEW x \in Nat, NEW s \in Nat, NEW j \in Nat, NEW n \in Nat,
                   x + s * j + 0 = n, s * (j + 1) <= n
            PROVE  x >= s
        BY <4>1, SMT
      <4> HIDE DEF t, k, m
      <4> QED BY <1>4, <1>10, <2>0, <3>5, <4>1
    <3> QED BY <1>2, <1>8, <2>0, <3>4, <3>6
  <2> QED BY <2>1, <2>2 DEF CommitAdd
<1> HIDE DEF t, k, m
<1>12. \A c : Count(c)' = Cardinality(OwnedBy(shard', c))
  BY DEF Count
<1>13. \A c \in DOMAIN clusters : Count(c)' = t
  BY <1>11, <1>12
<1>14. Count(a)' >= t
  BY <1>8, <1>11, <1>12
<1>15. Owners(shard)' = DOMAIN clusters'
  <2>1. Owners(shard') \subseteq DOMAIN clusters'
    <3>1. \A b \in DOMAIN shard' : shard'[b] = a \/ (b \in DOMAIN shard /\ shard'[b] = shard[b])
      BY <1>1 DEF Over
    <3>2. \A b \in DOMAIN shard : shard[b] \in DOMAIN clusters
      BY DEF ShardInv
    <3> QED BY <1>3, <3>1, <3>2 DEF Owners
  <2>2. \A c \in DOMAIN clusters' : OwnedBy(shard', c) # {}
    <3> SUFFICES ASSUME NEW c \in DOMAIN clusters', OwnedBy(shard', c) = {} PROVE FALSE
      OBVIOUS
    <3>1. Cardinality(OwnedBy(shard', c)) = 0
      BY FS_EmptySet
    <3>2. t \in Nat /\ t # 0 /\ Cardinality(adding[a].moved) # 0
      BY <1>10, <1>11
    <3>3. CASE c = a
      BY <1>8, <3>1, <3>2, <3>3
    <3>4. CASE c # a
      <4>1. Cardinality(OwnedBy(shard', c)) = t
        BY <1>3, <1>11, <3>4
      <4> QED BY <3>1, <3>2, <4>1
    <3> QED BY <3>3, <3>4
  <2>3. DOMAIN clusters' \subseteq Owners(shard')
    BY <2>2 DEF OwnedBy, Owners
  <2> QED BY <2>1, <2>3
<1>16. Part' = t
  BY <1>9 DEF t
<1>17. \A c \in DOMAIN clusters' : Count(c)' >= Part'
  BY <1>3, <1>10, <1>13, <1>14, <1>16
<1>18. a \in DOMAIN clusters' /\ \A c \in DOMAIN clusters' \ {a} : Count(c)' = Part'
  BY <1>3, <1>13, <1>16
<1>19. EvenLoad'
  BY <1>15, <1>17, <1>18 DEF EvenLoad
<1> QED BY <1>5, <1>19 DEF LoadCore

\* Which clusters there are changes with the commit of AddCluster only.
LEMMA NextTables ==
  ASSUME ShardInv, LoadTables, [Next]_vars
  PROVE  LoadTables' /\ DOMAIN clusters \subseteq DOMAIN clusters' /\ IsFiniteSet(DOMAIN clusters')
<1>0. DOMAIN clusters \subseteq Add /\ Add \subseteq Request /\ Replace \subseteq Request
  BY DEF ShardInv, TypeOK, Request
<1>1. ASSUME DOMAIN clusters' = DOMAIN clusters, shard' = shard,
             \A a \in DOMAIN clusters : pc'[a] = pc[a]
      PROVE  LoadTables' /\ DOMAIN clusters \subseteq DOMAIN clusters' /\ IsFiniteSet(DOMAIN clusters')
  BY <1>1 DEF LoadTables
<1>2. ASSUME NEW r \in Request, NEW where, Goto(r, where), pc[r] # "done"
      PROVE  \A a \in DOMAIN clusters : pc'[a] = pc[a]
  BY <1>0, <1>2 DEF Goto, LoadTables, ShardInv, TypeOK
<1>3. CASE \E n \in Node : RegisterWorker(n)
  BY <1>1, <1>3 DEF RegisterWorker
<1>4. ASSUME NEW a \in Add, CommitAdd(a)
      PROVE  LoadTables' /\ DOMAIN clusters \subseteq DOMAIN clusters' /\ IsFiniteSet(DOMAIN clusters')
  <2>1. DOMAIN clusters' = DOMAIN clusters \cup {a}
    BY <1>4 DEF CommitAdd, Over
  <2>2. \A c \in DOMAIN clusters' : pc'[c] = "done"
    BY <1>0, <1>4, <2>1 DEF CommitAdd, Goto, LoadTables, ShardInv, TypeOK
  <2>3. IsFiniteSet(DOMAIN clusters')
    BY <2>1, FS_AddElement DEF LoadTables
  <2>4. DOMAIN shard' = DOMAIN shard \cup adding[a].moved
    BY <1>4 DEF CommitAdd, Visible, Over
  <2>5. DOMAIN shard = Bucket \/ adding[a].moved = Bucket
    BY <1>4 DEF CommitAdd, ShardInv
  <2>6. DOMAIN shard' # {}
    BY <2>4, <2>5, ShardAssumption
  <2> QED BY <2>1, <2>2, <2>3, <2>6 DEF LoadTables
<1>5. ASSUME NEW a \in Add, AddStep(a), ~CommitAdd(a)
      PROVE  LoadTables' /\ DOMAIN clusters \subseteq DOMAIN clusters' /\ IsFiniteSet(DOMAIN clusters')
  <2>1. UNCHANGED <<clusters, shard>>
    BY <1>5 DEF AddStep, BeginAdd, Refuse, Bootstrap, Pick, Apply
  <2>2. UNCHANGED pc \/ \E where : Goto(a, where) /\ pc[a] # "done"
    BY <1>5 DEF AddStep, BeginAdd, Refuse, Bootstrap, Pick, Apply
  <2>3. \A c \in DOMAIN clusters : pc'[c] = pc[c]
    BY <1>0, <1>2, <2>2
  <2> QED BY <1>1, <2>1, <2>3
<1>6. ASSUME NEW r \in Replace, ReplaceStep(r)
      PROVE  LoadTables' /\ DOMAIN clusters \subseteq DOMAIN clusters' /\ IsFiniteSet(DOMAIN clusters')
  <2>1. DOMAIN clusters' = DOMAIN clusters /\ shard' = shard
    BY <1>6 DEF ReplaceStep, BeginReplace, Refuse, CommitReplace
  <2>2. \E where : Goto(r, where) /\ pc[r] # "done"
    BY <1>6 DEF ReplaceStep, BeginReplace, Refuse, CommitReplace
  <2>3. \A c \in DOMAIN clusters : pc'[c] = pc[c]
    BY <1>0, <1>2, <2>2
  <2> QED BY <1>1, <2>1, <2>3
<1>7. ASSUME NEW r \in Request, Abort(r)
      PROVE  LoadTables' /\ DOMAIN clusters \subseteq DOMAIN clusters' /\ IsFiniteSet(DOMAIN clusters')
  BY <1>1, <1>2, <1>7 DEF Abort, Open
<1>8. CASE UNCHANGED vars
  BY <1>1, <1>8 DEF vars
<1> QED BY <1>3, <1>4, <1>5, <1>6, <1>7, <1>8 DEF Next, Step

\* Every step preserves LoadCore while requests to add come one after the other.
LEMMA NextLoadCore ==
  ASSUME ShardInv, LoadTables, LoadCore, Alone', Few', [Next]_vars
  PROVE  LoadCore'
<1>0. Add \subseteq Request
  BY DEF Request
<1>1. CASE \E n \in Node : RegisterWorker(n)
  BY <1>1, LoadFrame DEF RegisterWorker
<1>2. ASSUME NEW a \in Add, AddStep(a) PROVE LoadCore'
  BY <1>2, BeginAddLoad, BootstrapLoad, PickLoad, ApplyLoad, CommitAddLoad DEF AddStep
<1>3. ASSUME NEW r \in Replace, ReplaceStep(r) PROVE LoadCore'
  <2>1. DOMAIN clusters' = DOMAIN clusters /\ UNCHANGED <<shard, adding>>
    BY <1>3 DEF ReplaceStep, BeginReplace, Refuse, CommitReplace
  <2>2. \E where : pc' = [pc EXCEPT ![r] = where]
    BY <1>3 DEF ReplaceStep, BeginReplace, Refuse, CommitReplace, Goto
  <2>3. \A b \in Add : pc'[b] = pc[b]
    BY <1>0, <2>2, ShardAssumption DEF ShardInv, TypeOK
  <2> QED BY <2>1, <2>3, LoadFrame
<1>4. ASSUME NEW r \in Request, Abort(r) PROVE LoadCore'
  <2>1. UNCHANGED <<clusters, shard>>
    BY <1>4 DEF Abort
  <2>2. \A b \in Add : \/ pc'[b] = pc[b] /\ adding'[b] = adding[b]
                       \/ pc'[b] = "failed"
    BY <1>0, <1>4 DEF Abort, Goto, ShardInv, TypeOK
  <2> QED BY <2>1, <2>2, LoadFrame
<1>5. CASE UNCHANGED vars
  BY <1>5, LoadFrame DEF vars
<1> QED BY <1>1, <1>2, <1>3, <1>4, <1>5 DEF Next, Step

\* Every step preserves LoadInv.
LEMMA NextLoadInv == ShardInv /\ LoadInv /\ [Next]_vars => LoadInv'
<1> SUFFICES ASSUME ShardInv, LoadInv, [Next]_vars PROVE LoadInv'
  OBVIOUS
<1>1. LoadTables' /\ DOMAIN clusters \subseteq DOMAIN clusters' /\ IsFiniteSet(DOMAIN clusters')
  BY NextTables DEF LoadInv
<1>2. ASSUME ~overlapped', Few' PROVE LoadCore'
  <2>1. Few
    <3>1. Cardinality(DOMAIN clusters) <= Cardinality(DOMAIN clusters')
          /\ IsFiniteSet(DOMAIN clusters)
      BY <1>1, FS_Subset
    <3>2. Cardinality(DOMAIN clusters) \in Nat /\ Cardinality(DOMAIN clusters') \in Nat
          /\ Cardinality(Bucket) \in Nat
      BY <1>1, <3>1, FS_CardinalityType, ShardAssumption
    <3> QED BY <1>2, <3>1, <3>2 DEF Few
  <2>2. CASE Next
    <3>1. overlapped' = (overlapped \/ \E a, b \in Add : a # b /\ Open(a)' /\ Open(b)')
      BY <2>2 DEF Next
    <3>2. ~overlapped /\ \A a, b \in Add : Open(a)' /\ Open(b)' => a = b
      BY <1>2, <3>1
    <3>3. Alone' /\ LoadTables /\ LoadCore
      BY <2>1, <3>2 DEF Alone, LoadInv
    <3> QED BY <1>2, <3>3, NextLoadCore
  <2>3. CASE UNCHANGED vars
    <3>1. overlapped' = overlapped /\ pc' = pc
      BY <2>3 DEF vars
    <3>2. LoadTables /\ LoadCore
      BY <1>2, <2>1, <3>1 DEF LoadInv
    <3>3. Alone'
      BY <3>1, <3>2 DEF LoadCore, Alone, Open
    <3> QED BY <1>2, <3>2, <3>3, NextLoadCore
  <2> QED BY <2>2, <2>3
<1> QED BY <1>1, <1>2 DEF LoadInv

\* LoadInv holds at the beginning.
LEMMA InitLoadInv == Init => LoadInv
<1> SUFFICES ASSUME Init PROVE LoadInv
  OBVIOUS
<1>1. DOMAIN clusters = {} /\ DOMAIN shard = {} /\ \A a \in Add : pc[a] = "begin"
  BY DEF Init, Empty, Request
<1>2. LoadTables
  BY <1>1, FS_EmptySet DEF LoadTables
<1> QED BY <1>1, <1>2 DEF LoadInv, LoadCore, Alone, Open

\* While requests to add a cluster come one after the other, and there are at
\* least as many buckets as clusters, AddCluster leaves all clusters but one
\* with exactly the k-th part of the buckets, whichever rows each LIMIT
\* returns, in whichever order the loop visits the clusters, and whatever
\* requests fail or are refused, for any number of buckets and clusters.
THEOREM LoadStaysDistributed ==
  Spec => [](Cardinality(DOMAIN clusters) <= Cardinality(Bucket) => LoadDistributed)
<1>1. LoadInv => (Cardinality(DOMAIN clusters) <= Cardinality(Bucket) => LoadDistributed)
  BY DEF LoadInv, Few, LoadCore, EvenLoad, Part, Count, LoadDistributed
<1> QED BY <1>1, InitLoadInv, NextLoadInv, ShardInvAlways, PTL DEF Spec
=============================================================================
