------------------------ MODULE RepositoryTxnProofs -------------------------
(***************************************************************************)
(* Batches are disjoint, counts are exact, only tombstoned chunks lose     *)
(* replicas, and committed files are stored: for every number of uploads,  *)
(* deletes, collectors, chunks and nodes.                                  *)
(***************************************************************************)
EXTENDS RepositoryTxn, FiniteSetTheorems, TLAPS

-----------------------------------------------------------------------------
(* What the statements do to tables.                                       *)

\* The rows of one table over those of another.
LEMMA OverRows ==
  ASSUME NEW f, NEW g
  PROVE  /\ DOMAIN Over(f, g) = DOMAIN f \cup DOMAIN g
         /\ \A x \in DOMAIN f : Over(f, g)[x] = f[x]
         /\ \A x \in DOMAIN g \ DOMAIN f : Over(f, g)[x] = g[x]
BY DEF Over

\* A table over a table is one.
LEMMA OverTable ==
  ASSUME NEW f, NEW g, IsTable(f), IsTable(g)
  PROVE  IsTable(Over(f, g))
BY DEF Over, IsTable

\* The table without rows.
LEMMA EmptyTable == IsTable(Empty) /\ DOMAIN Empty = {}
BY DEF Empty, IsTable

\* What a session sees are rows.
LEMMA VisibleRows ==
  ASSUME TypeOK, NEW t \in Session
  PROVE  /\ IsTable(Visible(t))
         /\ DOMAIN Visible(t) = DOMAIN draft[t] \cup DOMAIN chunks
         /\ \A h \in DOMAIN Visible(t) :
              /\ h \in Hash /\ Visible(t)[h] \in Row
              /\ h \in DOMAIN draft[t] => Visible(t)[h] = draft[t][h]
              /\ h \notin DOMAIN draft[t] => Visible(t)[h] = chunks[h]
<1>1. IsTable(chunks) /\ IsTable(draft[t])
  BY DEF TypeOK
<1>2. IsTable(Visible(t))
  BY <1>1, OverTable DEF Visible
<1>3. /\ DOMAIN Visible(t) = DOMAIN draft[t] \cup DOMAIN chunks
      /\ \A h \in DOMAIN draft[t] : Visible(t)[h] = draft[t][h]
      /\ \A h \in DOMAIN chunks \ DOMAIN draft[t] : Visible(t)[h] = chunks[h]
  BY OverRows DEF Visible
<1>4. \A h \in DOMAIN Visible(t) : h \in Hash /\ Visible(t)[h] \in Row
  BY <1>2 DEF IsTable
<1> QED BY <1>2, <1>3, <1>4

\* A write locks its row and changes no other.
LEMMA PutRow ==
  ASSUME TypeOK, NEW t \in Session, NEW h \in Hash, NEW row \in Row, Put(t, h, row)
  PROVE  /\ DOMAIN draft' = Session
         /\ \A s \in Session \ {t} : draft'[s] = draft[s]
         /\ IsTable(draft'[t])
         /\ DOMAIN draft'[t] = DOMAIN draft[t] \cup {h}
         /\ draft'[t][h] = row
         /\ \A x \in DOMAIN draft[t] \ {h} : draft'[t][x] = draft[t][x]
<1> DEFINE one == [x \in {h} |-> row]
<1>1. draft'[t] = Over(one, draft[t]) /\ \A s \in Session \ {t} : draft'[s] = draft[s]
  BY DEF Put, TypeOK
<1>2. DOMAIN draft' = Session
  BY DEF Put, TypeOK
<1>3. IsTable(one) /\ DOMAIN one = {h} /\ one[h] = row
  BY DEF IsTable
<1>4. IsTable(draft[t])
  BY DEF TypeOK
<1> HIDE DEF one
<1>5. IsTable(draft'[t])
  BY <1>1, <1>3, <1>4, OverTable
<1>6. /\ DOMAIN Over(one, draft[t]) = DOMAIN one \cup DOMAIN draft[t]
      /\ \A x \in DOMAIN one : Over(one, draft[t])[x] = one[x]
      /\ \A x \in DOMAIN draft[t] \ DOMAIN one : Over(one, draft[t])[x] = draft[t][x]
  BY OverRows
<1> QED BY <1>1, <1>2, <1>3, <1>5, <1>6

\* COMMIT: the rows a session has written are the committed ones, and its locks
\* are gone.
LEMMA PublishRows ==
  ASSUME TypeOK, NEW t \in Session, Publish(t)
  PROVE  /\ IsTable(chunks')
         /\ DOMAIN chunks' = DOMAIN draft[t] \cup DOMAIN chunks
         /\ \A h \in DOMAIN draft[t] : chunks'[h] = draft[t][h]
         /\ \A h \in DOMAIN chunks \ DOMAIN draft[t] : chunks'[h] = chunks[h]
         /\ DOMAIN draft' = Session
         /\ IsTable(draft'[t]) /\ DOMAIN draft'[t] = {}
         /\ \A s \in Session \ {t} : draft'[s] = draft[s]
<1>1. DOMAIN draft' = Session /\ draft'[t] = Empty /\ \A s \in Session \ {t} : draft'[s] = draft[s]
  BY DEF Publish, TypeOK
<1>2. chunks' = Visible(t)
  BY DEF Publish
<1> QED BY <1>1, <1>2, VisibleRows, EmptyTable

\* A session ends without a COMMIT.
Abort(t) ==
  /\ pc[t] # "done"
  /\ Rollback(t)
  /\ Goto(t, "failed")
  /\ UNCHANGED <<chunks, files, route, stored, late, at, read, plan, todo, purged>>

\* An abort gives up the locks of its session and no others.
LEMMA AbortLocks ==
  ASSUME TypeOK, NEW t \in Session, Abort(t)
  PROVE  /\ DOMAIN draft' = Session
         /\ IsTable(draft'[t]) /\ DOMAIN draft'[t] = {}
         /\ \A s \in Session \ {t} : draft'[s] = draft[s]
BY EmptyTable DEF Abort, Rollback, TypeOK

\* The chunk of a loop that is not at its end.
LEMMA CurrentHash ==
  ASSUME TypeOK, NEW u \in Upload, at[u] <= Len(ChunksOf[u])
  PROVE  Current(u) \in Hash
<1>1. ChunksOf[u] \in Seq(Hash) /\ at[u] \in Nat \ {0}
  BY TxnAssumption DEF TypeOK
<1> QED BY <1>1 DEF Current

\* A row has the fields it is made of.
LEMMA ARowType ==
  ASSUME NEW nodes \in SUBSET Node, NEW ref_count \in Int, NEW fresh \in BOOLEAN
  PROVE  /\ ARow(nodes, ref_count, fresh) \in Row
         /\ ARow(nodes, ref_count, fresh).nodes = nodes
         /\ ARow(nodes, ref_count, fresh).ref_count = ref_count
         /\ ARow(nodes, ref_count, fresh).fresh = fresh
BY DEF ARow, Row

\* The fields of a row.
LEMMA RowType ==
  ASSUME NEW row \in Row
  PROVE  row.nodes \in SUBSET Node /\ row.ref_count \in Int /\ row.fresh \in BOOLEAN
BY DEF Row

-----------------------------------------------------------------------------
(* Types.                                                                  *)

DraftTyped == DOMAIN draft = Session /\ \A t \in Session : IsTable(draft[t])

PlanTyped ==
  /\ DOMAIN plan = Upload
  /\ \A u \in Upload : DOMAIN plan[u] \subseteq Hash /\ plan[u] \in [DOMAIN plan[u] -> SUBSET Node]

\* A plan gains one chunk.
LEMMA PlanForTyped ==
  ASSUME TypeOK, NEW u \in Upload, NEW h \in Hash, NEW nodes \in SUBSET Node, PlanFor(u, h, nodes)
  PROVE  /\ PlanTyped'
         /\ \A v \in Upload \ {u} : plan'[v] = plan[v]
         /\ DOMAIN plan'[u] = DOMAIN plan[u] \cup {h}
         /\ plan'[u][h] = nodes
         /\ \A x \in DOMAIN plan[u] \ {h} : plan'[u][x] = plan[u][x]
<1> DEFINE one == [x \in {h} |-> nodes]
<1>1. plan'[u] = Over(one, plan[u]) /\ \A v \in Upload \ {u} : plan'[v] = plan[v]
  BY DEF PlanFor, TypeOK
<1>2. DOMAIN plan' = Upload
  BY DEF PlanFor, TypeOK
<1>3. DOMAIN one = {h} /\ one[h] = nodes
  OBVIOUS
<1> HIDE DEF one
<1>4. /\ DOMAIN Over(one, plan[u]) = DOMAIN one \cup DOMAIN plan[u]
      /\ \A x \in DOMAIN one : Over(one, plan[u])[x] = one[x]
      /\ \A x \in DOMAIN plan[u] \ DOMAIN one : Over(one, plan[u])[x] = plan[u][x]
  BY OverRows
<1>5. DOMAIN plan[u] \subseteq Hash /\ plan[u] \in [DOMAIN plan[u] -> SUBSET Node]
  BY DEF TypeOK
<1>6. plan'[u] = [x \in DOMAIN plan'[u] |-> plan'[u][x]]
  BY <1>1 DEF Over
<1>7. DOMAIN plan'[u] \subseteq Hash /\ \A x \in DOMAIN plan'[u] : plan'[u][x] \in SUBSET Node
  BY <1>1, <1>3, <1>4, <1>5
<1>8. plan'[u] \in [DOMAIN plan'[u] -> SUBSET Node]
  BY <1>6, <1>7
<1>9. PlanTyped'
  BY <1>1, <1>2, <1>7, <1>8 DEF PlanTyped, TypeOK
<1> QED BY <1>1, <1>3, <1>4, <1>9

\* The statements of an upload on the rows.
LEMMA SelectRead ==
  ASSUME TypeOK, NEW u \in Upload, Select(u)
  PROVE  /\ Current(u) \in Hash /\ at[u] <= Len(ChunksOf[u]) /\ pc[u] = "select"
         /\ UNCHANGED <<chunks, files, route, stored, late, at, plan, todo, purged>>
         /\ \/ /\ Current(u) \notin DOMAIN draft[u] /\ Current(u) \notin DOMAIN chunks
               /\ read' = [read EXCEPT ![u] = ARow(route, 0, TRUE)]
               /\ route \in (SUBSET Node) \ {{}} /\ ARow(route, 0, TRUE) \in Row
               /\ Goto(u, "insert")
               /\ UNCHANGED draft
            \/ Abort(u)
            \/ /\ Current(u) \in DOMAIN Visible(u) /\ Visible(u)[Current(u)].ref_count # -1
               /\ read' = [read EXCEPT ![u] = Visible(u)[Current(u)]]
               /\ Visible(u)[Current(u)] \in Row
               /\ Goto(u, "refresh")
               /\ UNCHANGED draft
<1>1. AtChunk(u, "select") /\ Current(u) \in Hash
  BY CurrentHash DEF Select, AtChunk
<1>2. route \in (SUBSET Node) \ {{}}
  BY TxnAssumption DEF TypeOK
<1>3. ARow(route, 0, TRUE) \in Row
  BY <1>2 DEF ARow, Row
<1>4. u \in Session
  BY DEF Session
<1>5. /\ DOMAIN Visible(u) = DOMAIN draft[u] \cup DOMAIN chunks
      /\ \A h \in DOMAIN Visible(u) : Visible(u)[h] \in Row
  BY <1>4, VisibleRows
<1>6. UNCHANGED <<chunks, files, route, stored, late, at, plan, todo, purged>>
  BY DEF Select
<1>7. CASE Current(u) \notin DOMAIN Visible(u)
  BY <1>1, <1>2, <1>3, <1>5, <1>6, <1>7 DEF Select, AtChunk
<1>8. CASE Current(u) \in DOMAIN Visible(u) /\ Visible(u)[Current(u)].ref_count = -1
  <2>1. Abort(u)
    BY <1>1, <1>6, <1>8 DEF Select, Abort, AtChunk
  <2> QED BY <1>1, <1>6, <2>1 DEF AtChunk
<1>9. CASE Current(u) \in DOMAIN Visible(u) /\ Visible(u)[Current(u)].ref_count # -1
  BY <1>1, <1>5, <1>6, <1>9 DEF Select, AtChunk
<1> QED BY <1>7, <1>8, <1>9

\* An UPDATE writes the row it sees, changed, or nothing.
LEMMA UpdateWrites ==
  ASSUME TypeOK, NEW t \in Session, NEW h \in Hash, NEW row,
         UpdateRow(t, h, row), h \in DOMAIN Visible(t) => row \in Row
  PROVE  \/ h \notin DOMAIN draft[t] /\ h \notin DOMAIN chunks /\ UNCHANGED draft
         \/ h \in DOMAIN Visible(t) /\ row \in Row /\ Free(h, t) /\ Put(t, h, row)
BY VisibleRows DEF UpdateRow

\* What UPDATE .. SET created_at writes.
LEMMA RefreshWrites ==
  ASSUME TypeOK, NEW u \in Upload, Refresh(u)
  PROVE  LET h == Current(u)
             row == ARow(Visible(u)[h].nodes, Visible(u)[h].ref_count, TRUE)
         IN /\ h \in Hash
            /\ \/ h \notin DOMAIN draft[u] /\ h \notin DOMAIN chunks /\ UNCHANGED draft
               \/ h \in DOMAIN Visible(u) /\ row \in Row /\ Free(h, u) /\ Put(u, h, row)
<1> DEFINE h == Current(u)
           row == ARow(Visible(u)[h].nodes, Visible(u)[h].ref_count, TRUE)
<1>1. h \in Hash
  BY CurrentHash DEF Refresh, AtChunk
<1>2. u \in Session
  BY DEF Session
<1>3. UpdateRow(u, h, row)
  BY DEF Refresh
<1>4. h \in DOMAIN Visible(u) => row \in Row
  <2>1. HAVE h \in DOMAIN Visible(u)
  <2>2. Visible(u)[h] \in Row
    BY <1>2, <2>1, VisibleRows
  <2> QED BY <2>2, RowType, ARowType
<1> HIDE DEF h, row
<1>5. \/ h \notin DOMAIN draft[u] /\ h \notin DOMAIN chunks /\ UNCHANGED draft
      \/ h \in DOMAIN Visible(u) /\ row \in Row /\ Free(h, u) /\ Put(u, h, row)
  BY <1>1, <1>2, <1>3, <1>4, UpdateWrites
<1> QED BY <1>1, <1>5 DEF h, row

\* What CommitFile's UPDATE of ref_count writes.
LEMMA IncrementWrites ==
  ASSUME TypeOK, NEW u \in Upload, Increment(u)
  PROVE  LET h == Current(u)
             row == ARow(Visible(u)[h].nodes, Visible(u)[h].ref_count + 1, TRUE)
         IN /\ h \in Hash
            /\ \/ h \notin DOMAIN draft[u] /\ h \notin DOMAIN chunks /\ UNCHANGED draft
               \/ h \in DOMAIN Visible(u) /\ row \in Row /\ Free(h, u) /\ Put(u, h, row)
<1> DEFINE h == Current(u)
           row == ARow(Visible(u)[h].nodes, Visible(u)[h].ref_count + 1, TRUE)
<1>1. h \in Hash
  BY CurrentHash DEF Increment, AtChunk
<1>2. u \in Session
  BY DEF Session
<1>3. UpdateRow(u, h, row)
  BY DEF Increment
<1>4. h \in DOMAIN Visible(u) => row \in Row
  <2>1. HAVE h \in DOMAIN Visible(u)
  <2>2. Visible(u)[h] \in Row
    BY <1>2, <2>1, VisibleRows
  <2>3. Visible(u)[h].nodes \in SUBSET Node /\ Visible(u)[h].ref_count + 1 \in Int
    BY <2>2, RowType
  <2> QED BY <2>3, ARowType
<1> HIDE DEF h, row
<1>5. \/ h \notin DOMAIN draft[u] /\ h \notin DOMAIN chunks /\ UNCHANGED draft
      \/ h \in DOMAIN Visible(u) /\ row \in Row /\ Free(h, u) /\ Put(u, h, row)
  BY <1>1, <1>2, <1>3, <1>4, UpdateWrites
<1> QED BY <1>1, <1>5 DEF h, row

\* What DeleteFile's UPDATE of ref_count writes, row by row.
LEMMA DecrementWrites ==
  ASSUME TypeOK, NEW d \in Delete, NEW h \in Hash, Decrement(d, h)
  PROVE  LET row == ARow(Visible(d)[h].nodes, Visible(d)[h].ref_count - 1, Visible(d)[h].fresh)
         IN \/ h \notin DOMAIN draft[d] /\ h \notin DOMAIN chunks /\ UNCHANGED draft
            \/ h \in DOMAIN Visible(d) /\ row \in Row /\ Free(h, d) /\ Put(d, h, row)
<1> DEFINE row == ARow(Visible(d)[h].nodes, Visible(d)[h].ref_count - 1, Visible(d)[h].fresh)
<1>2. d \in Session
  BY DEF Session
<1>3. UpdateRow(d, h, row)
  BY DEF Decrement
<1>4. h \in DOMAIN Visible(d) => row \in Row
  <2>1. HAVE h \in DOMAIN Visible(d)
  <2>2. Visible(d)[h] \in Row
    BY <1>2, <2>1, VisibleRows
  <2>3. /\ Visible(d)[h].nodes \in SUBSET Node /\ Visible(d)[h].ref_count - 1 \in Int
        /\ Visible(d)[h].fresh \in BOOLEAN
    BY <2>2, RowType
  <2> QED BY <2>3, ARowType
<1> HIDE DEF row
<1>5. \/ h \notin DOMAIN draft[d] /\ h \notin DOMAIN chunks /\ UNCHANGED draft
      \/ h \in DOMAIN Visible(d) /\ row \in Row /\ Free(h, d) /\ Put(d, h, row)
  BY <1>2, <1>3, <1>4, UpdateWrites
<1> QED BY <1>5 DEF row

\* TypeOK but for the tables, the locks and the plans.
ScalarsTyped ==
  /\ route \in Reroutes \cup {Route}
  /\ stored \subseteq Hash \X Node /\ late \subseteq Hash \X Node
  /\ pc \in [Process -> {"select", "insert", "refresh", "transfer", "increment",
                         "decrement", "sweep", "purge", "done", "failed"}]
  /\ at \in [Upload -> Nat \ {0}]
  /\ read \in [Upload -> Row]
  /\ todo \in [Delete \cup Collector -> SUBSET Hash]
  /\ purged \in [Collector -> SUBSET Hash]

FilesTyped == \A f \in DOMAIN files : files[f] \in File

\* TypeOK, in parts that steps disturb together.
LEMMA TypeParts ==
  TypeOK <=> IsTable(chunks) /\ ScalarsTyped /\ DraftTyped /\ PlanTyped /\ FilesTyped
BY DEF TypeOK, ScalarsTyped, DraftTyped, PlanTyped, FilesTyped

\* A write keeps the locked rows typed.
LEMMA PutTyped ==
  ASSUME TypeOK, NEW t \in Session, NEW h \in Hash, NEW row \in Row, Put(t, h, row)
  PROVE  DraftTyped'
<1>1. /\ DOMAIN draft' = Session
      /\ \A s \in Session \ {t} : draft'[s] = draft[s]
      /\ IsTable(draft'[t])
  BY PutRow
<1>2. \A s \in Session : IsTable(draft[s])
  BY DEF TypeOK
<1>3. \A s \in Session : IsTable(draft'[s])
  BY <1>1, <1>2
<1> QED BY <1>1, <1>3 DEF DraftTyped, IsTable

\* An abort keeps all types.
LEMMA AbortTyped ==
  ASSUME TypeOK, NEW t \in Session, Abort(t)
  PROVE  TypeOK'
<1>1. /\ DOMAIN draft' = Session
      /\ \A s \in Session \ {t} : draft'[s] = draft[s]
      /\ IsTable(draft'[t])
  BY AbortLocks
<1>2. \A s \in Session : IsTable(draft[s])
  BY DEF TypeOK
<1>3. \A s \in Session : IsTable(draft'[s])
  BY <1>1, <1>2
<1>4. DraftTyped'
  BY <1>1, <1>3 DEF DraftTyped, IsTable
<1>5. ScalarsTyped'
  BY DEF TypeOK, ScalarsTyped, Abort, Goto, Process, Session
<1>6. IsTable(chunks)' /\ PlanTyped' /\ FilesTyped'
  BY DEF TypeOK, Abort, PlanTyped, IsTable, FilesTyped
<1> QED BY <1>4, <1>5, <1>6, TypeParts, PTL

\* A COMMIT keeps the rows typed, committed and locked.
LEMMA PublishTyped ==
  ASSUME TypeOK, NEW t \in Session, Publish(t)
  PROVE  DraftTyped' /\ IsTable(chunks)'
<1>1. /\ DOMAIN draft' = Session
      /\ \A s \in Session \ {t} : draft'[s] = draft[s]
      /\ IsTable(draft'[t]) /\ IsTable(chunks')
  BY PublishRows
<1>2. \A s \in Session : IsTable(draft[s])
  BY DEF TypeOK
<1>3. \A s \in Session : IsTable(draft'[s])
  BY <1>1, <1>2
<1> QED BY <1>1, <1>3 DEF DraftTyped, IsTable

\* What the UPDATE of GetOrphanedChunks does to the rows.
LEMMA SweepRows ==
  ASSUME TypeOK, NEW batch \in SUBSET Hash,
         chunks' = [h \in DOMAIN chunks |->
                      IF h \in batch THEN [chunks[h] EXCEPT !.ref_count = -1] ELSE chunks[h]]
  PROVE  /\ IsTable(chunks')
         /\ DOMAIN chunks' = DOMAIN chunks
         /\ \A h \in DOMAIN chunks :
              IF h \in batch
              THEN chunks'[h] = ARow(chunks[h].nodes, -1, chunks[h].fresh)
              ELSE chunks'[h] = chunks[h]
<1>1. /\ DOMAIN chunks' = DOMAIN chunks
      /\ \A h \in DOMAIN chunks :
           chunks'[h] = IF h \in batch THEN [chunks[h] EXCEPT !.ref_count = -1] ELSE chunks[h]
  OBVIOUS
<1>2. \A row \in Row : [row EXCEPT !.ref_count = -1] = ARow(row.nodes, -1, row.fresh)
  BY DEF Row, ARow
<1>3. \A row \in Row : ARow(row.nodes, -1, row.fresh) \in Row
  BY DEF Row, ARow
<1>4. \A h \in DOMAIN chunks : h \in Hash /\ chunks[h] \in Row
  BY DEF TypeOK, IsTable
<1>5. \A h \in DOMAIN chunks :
        /\ chunks'[h] \in Row
        /\ IF h \in batch
           THEN chunks'[h] = ARow(chunks[h].nodes, -1, chunks[h].fresh)
           ELSE chunks'[h] = chunks[h]
  BY <1>1, <1>2, <1>3, <1>4
<1>6. chunks' = [h \in DOMAIN chunks' |-> chunks'[h]]
  OBVIOUS
<1>7. IsTable(chunks')
  BY <1>1, <1>4, <1>5, <1>6 DEF IsTable
<1> QED BY <1>1, <1>5, <1>7

\* What RevertTombstone does to the rows.
LEMMA RevertRows ==
  ASSUME TypeOK, NEW c \in Collector, NEW h \in Hash, RevertChunk(c, h)
  PROVE  /\ IsTable(chunks')
         /\ DOMAIN chunks' = DOMAIN chunks
         /\ \A k \in DOMAIN chunks :
              IF k = h /\ chunks[k].ref_count = -1
              THEN chunks'[k] = ARow(chunks[k].nodes, 0, TRUE)
              ELSE chunks'[k] = chunks[k]
<1>1. /\ DOMAIN chunks' = DOMAIN chunks
      /\ chunks' = [k \in DOMAIN chunks' |-> chunks'[k]]
      /\ \A k \in DOMAIN chunks :
           chunks'[k] = IF k = h /\ chunks[k].ref_count = -1 THEN ARow(chunks[k].nodes, 0, TRUE)
                                                             ELSE chunks[k]
  BY DEF RevertChunk
<1>2. \A row \in Row : ARow(row.nodes, 0, TRUE) \in Row
  BY DEF Row, ARow
<1>3. \A k \in DOMAIN chunks : k \in Hash /\ chunks[k] \in Row
  BY DEF TypeOK, IsTable
<1>4. \A k \in DOMAIN chunks : chunks'[k] \in Row
  BY <1>1, <1>2, <1>3
<1>5. IsTable(chunks')
  BY <1>1, <1>3, <1>4 DEF IsTable
<1> QED BY <1>1, <1>5

\* What DeleteChunkRecordsBulk does to the rows.
LEMMA BulkRows ==
  ASSUME TypeOK, NEW c \in Collector, BulkDelete(c)
  PROVE  /\ IsTable(chunks')
         /\ DOMAIN chunks' = {k \in DOMAIN chunks : ~(k \in purged[c] /\ chunks[k].ref_count = -1)}
         /\ \A k \in DOMAIN chunks' : chunks'[k] = chunks[k]
<1>1. /\ DOMAIN chunks' = {k \in DOMAIN chunks : ~(k \in purged[c] /\ chunks[k].ref_count = -1)}
      /\ chunks' = [k \in DOMAIN chunks' |-> chunks'[k]]
      /\ \A k \in DOMAIN chunks' : chunks'[k] = chunks[k]
  BY DEF BulkDelete
<1>2. \A k \in DOMAIN chunks : k \in Hash /\ chunks[k] \in Row
  BY DEF TypeOK, IsTable
<1>3. \A k \in DOMAIN chunks' : k \in Hash /\ chunks'[k] \in Row
  BY <1>1, <1>2
<1>4. IsTable(chunks')
  BY <1>1, <1>3 DEF IsTable
<1> QED BY <1>1, <1>4

\* The row of `files' that a commit inserts.
LEMMA UploadedFile ==
  ASSUME NEW u \in Upload, CommitUpload(u)
  PROVE  /\ DOMAIN files' = DOMAIN files \cup {u}
         /\ files'[u].name = NameOf[u] /\ files'[u].chunks = ChunksOf[u] /\ files'[u] \in File
         /\ \A f \in DOMAIN files \ {u} : files'[f] = files[f]
<1> DEFINE file == [name |-> NameOf[u], chunks |-> ChunksOf[u]]
           one == [x \in {u} |-> file]
<1>1. files' = Over(one, files)
  BY DEF CommitUpload
<1>2. file \in File /\ file.name = NameOf[u] /\ file.chunks = ChunksOf[u]
  BY TxnAssumption DEF File, Session
<1>3. DOMAIN one = {u} /\ one[u] = file
  OBVIOUS
<1> HIDE DEF one, file
<1>4. /\ DOMAIN Over(one, files) = DOMAIN one \cup DOMAIN files
      /\ \A x \in DOMAIN one : Over(one, files)[x] = one[x]
      /\ \A x \in DOMAIN files \ DOMAIN one : Over(one, files)[x] = files[x]
  BY OverRows
<1> QED BY <1>1, <1>2, <1>3, <1>4

\* A step of an upload keeps all types.
LEMMA UploadTyped ==
  ASSUME TypeOK, NEW u \in Upload, UploadStep(u)
  PROVE  TypeOK'
<1>0. u \in Session /\ u \in Process
  BY DEF Session, Process
<1>1. CASE Select(u)
  <2>1. UNCHANGED <<chunks, files, route, stored, late, at, plan, todo, purged>>
    BY <1>1, SelectRead
  <2>2. CASE Abort(u)
    BY <1>0, <2>2, AbortTyped
  <2>3. CASE ~Abort(u)
    <3>1. UNCHANGED draft /\ (Goto(u, "insert") \/ Goto(u, "refresh"))
      BY <1>1, <2>3, SelectRead
    <3>2. read' \in [Upload -> Row]
      <4>1. PICK row \in Row : read' = [read EXCEPT ![u] = row]
        BY <1>1, <2>3, SelectRead
      <4> QED BY <4>1 DEF TypeOK
    <3>3. pc' \in [Process -> {"select", "insert", "refresh", "transfer", "increment",
                         "decrement", "sweep", "purge", "done", "failed"}]
      BY <1>0, <3>1 DEF Goto, TypeOK
    <3> QED BY <2>1, <3>1, <3>2, <3>3 DEF TypeOK, IsTable
  <2> QED BY <2>2, <2>3
<1>2. CASE Insert(u)
  <2>1. Current(u) \in Hash
    BY <1>2, CurrentHash DEF Insert, AtChunk
  <2>2. read[u] \in Row /\ read[u].nodes \in SUBSET Node
    BY RowType DEF TypeOK
  <2>3. PlanTyped'
    BY <1>2, <2>1, <2>2, PlanForTyped DEF Insert
  <2>4. DraftTyped'
    <3>1. CASE UNCHANGED draft
      BY <3>1 DEF TypeOK, DraftTyped, IsTable
    <3>2. CASE Put(u, Current(u), read[u])
      BY <1>0, <2>1, <2>2, <3>2, PutTyped
    <3> QED BY <1>2, <3>1, <3>2 DEF Insert
  <2>5. ScalarsTyped'
    BY <1>0, <1>2 DEF Insert, Advance, Goto, TypeOK, ScalarsTyped
  <2>6. IsTable(chunks)' /\ FilesTyped'
    BY <1>2 DEF Insert, TypeOK, IsTable, FilesTyped
  <2> QED BY <2>3, <2>4, <2>5, <2>6, TypeParts, PTL
<1>3. CASE Refresh(u)
  <2>1. Current(u) \in Hash
    BY <1>3, CurrentHash DEF Refresh, AtChunk
  <2>2. read[u] \in Row /\ read[u].nodes \in SUBSET Node
    BY RowType DEF TypeOK
  <2>3. PlanTyped'
    <3>1. CASE UNCHANGED plan
      BY <3>1 DEF TypeOK, PlanTyped
    <3>2. CASE PlanFor(u, Current(u), read[u].nodes)
      BY <2>1, <2>2, <3>2, PlanForTyped
    <3> QED BY <1>3, <3>1, <3>2 DEF Refresh
  <2>4. DraftTyped'
    <3>1. CASE UNCHANGED draft
      BY <3>1 DEF TypeOK, DraftTyped, IsTable
    <3>2. CASE ~UNCHANGED draft
      <4>1. PICK row \in Row : Put(u, Current(u), row)
        BY <1>3, <3>2, RefreshWrites
      <4> QED BY <1>0, <2>1, <4>1, PutTyped
    <3> QED BY <3>1, <3>2
  <2>5. ScalarsTyped'
    BY <1>0, <1>3 DEF Refresh, Advance, Goto, TypeOK, ScalarsTyped
  <2>6. IsTable(chunks)' /\ FilesTyped'
    BY <1>3 DEF Refresh, TypeOK, IsTable, FilesTyped
  <2> QED BY <2>3, <2>4, <2>5, <2>6, TypeParts, PTL
<1>4. CASE CommitInit(u)
  <2>1. DraftTyped' /\ IsTable(chunks)'
    BY <1>0, <1>4, PublishTyped DEF CommitInit
  <2>2. ScalarsTyped' /\ PlanTyped' /\ FilesTyped'
    BY <1>0, <1>4 DEF CommitInit, Goto, TypeOK, ScalarsTyped, PlanTyped, FilesTyped
  <2> QED BY <2>1, <2>2, TypeParts, PTL
<1>5. CASE Transfer(u)
  <2>1. ScalarsTyped' /\ PlanTyped' /\ FilesTyped'
    BY <1>0, <1>5 DEF Transfer, Goto, TypeOK, ScalarsTyped, PlanTyped, FilesTyped
  <2>2. DraftTyped' /\ IsTable(chunks)'
    BY <1>5 DEF Transfer, TypeOK, DraftTyped, IsTable
  <2> QED BY <2>1, <2>2, TypeParts, PTL
<1>6. CASE Increment(u)
  <2>1. Current(u) \in Hash
    BY <1>6, CurrentHash DEF Increment, AtChunk
  <2>2. DraftTyped'
    <3>1. CASE UNCHANGED draft
      BY <3>1 DEF TypeOK, DraftTyped, IsTable
    <3>2. CASE ~UNCHANGED draft
      <4>1. PICK row \in Row : Put(u, Current(u), row)
        BY <1>6, <3>2, IncrementWrites
      <4> QED BY <1>0, <2>1, <4>1, PutTyped
    <3> QED BY <3>1, <3>2
  <2>3. ScalarsTyped' /\ PlanTyped' /\ IsTable(chunks)' /\ FilesTyped'
    BY <1>0, <1>6 DEF Increment, Advance, TypeOK, ScalarsTyped, PlanTyped, IsTable, FilesTyped
  <2> QED BY <2>2, <2>3, TypeParts, PTL
<1>7. CASE CommitUpload(u)
  <2>1. DraftTyped' /\ IsTable(chunks)'
    BY <1>0, <1>7, PublishTyped DEF CommitUpload
  <2>2. ScalarsTyped' /\ PlanTyped'
    BY <1>0, <1>7 DEF CommitUpload, Goto, TypeOK, ScalarsTyped, PlanTyped
  <2>3. FilesTyped'
    BY <1>7, UploadedFile DEF FilesTyped, TypeOK
  <2> QED BY <2>1, <2>2, <2>3, TypeParts, PTL
<1> QED BY <1>1, <1>2, <1>3, <1>4, <1>5, <1>6, <1>7 DEF UploadStep

\* A step of a delete keeps all types.
LEMMA DeleteTyped ==
  ASSUME TypeOK, NEW d \in Delete, DeleteStep(d)
  PROVE  TypeOK'
<1>0. d \in Session /\ d \in Process
  BY DEF Session, Process
<1>1. CASE SelectFile(d)
  <2>1. todo' \in [Delete \cup Collector -> SUBSET Hash]
    <3>1. CASE UNCHANGED todo
      BY <3>1 DEF TypeOK
    <3>2. CASE ~UNCHANGED todo
      <4>1. PICK f \in DOMAIN files : todo' = [todo EXCEPT ![d] = Range(files[f].chunks)]
        BY <1>1, <3>2 DEF SelectFile, RowsNamed
      <4>2. files[f].chunks \in Seq(Hash)
        BY DEF TypeOK, File
      <4>3. Range(files[f].chunks) \in SUBSET Hash
        BY <4>2 DEF Range
      <4> QED BY <4>1, <4>3 DEF TypeOK
    <3> QED BY <3>1, <3>2
  <2>2. ScalarsTyped'
    BY <1>0, <1>1, <2>1 DEF SelectFile, Goto, TypeOK, ScalarsTyped
  <2>3. DraftTyped' /\ PlanTyped' /\ IsTable(chunks)' /\ FilesTyped'
    BY <1>1 DEF SelectFile, TypeOK, DraftTyped, PlanTyped, IsTable, FilesTyped
  <2> QED BY <2>2, <2>3, TypeParts, PTL
<1>2. CASE \E h \in Hash : Decrement(d, h)
  <2>1. PICK h \in Hash : Decrement(d, h)
    BY <1>2
  <2>2. DraftTyped'
    <3>1. CASE UNCHANGED draft
      BY <3>1 DEF TypeOK, DraftTyped, IsTable
    <3>2. CASE ~UNCHANGED draft
      <4>1. PICK row \in Row : Put(d, h, row)
        BY <2>1, <3>2, DecrementWrites
      <4> QED BY <1>0, <4>1, PutTyped
    <3> QED BY <3>1, <3>2
  <2>3. ScalarsTyped' /\ PlanTyped' /\ IsTable(chunks)' /\ FilesTyped'
    BY <1>0, <2>1 DEF Decrement, TypeOK, ScalarsTyped, PlanTyped, IsTable, FilesTyped
  <2> QED BY <2>2, <2>3, TypeParts, PTL
<1>3. CASE CommitDelete(d)
  <2>1. DraftTyped' /\ IsTable(chunks)'
    BY <1>0, <1>3, PublishTyped DEF CommitDelete
  <2>2. ScalarsTyped' /\ PlanTyped'
    BY <1>0, <1>3 DEF CommitDelete, Goto, TypeOK, ScalarsTyped, PlanTyped
  <2>3. FilesTyped'
    BY <1>3 DEF CommitDelete, TypeOK, FilesTyped
  <2> QED BY <2>1, <2>2, <2>3, TypeParts, PTL
<1> QED BY <1>1, <1>2, <1>3 DEF DeleteStep

-----------------------------------------------------------------------------
(* Disjoint batches, whatever is requested.                                *)

\* A row version no sweep takes, now or after any UPDATE but a sweep's own.
SpentRow(row) == row.fresh \/ row.ref_count < 0

\* All versions of row h are spent.
Spent(h) ==
  /\ h \in DOMAIN chunks => SpentRow(chunks[h])
  /\ \A t \in Session : h \in DOMAIN draft[t] => SpentRow(draft[t][h])

InsertsFresh == \A u \in Upload : pc[u] = "insert" => read[u].fresh

BatchesSpent ==
  \A c \in Collector :
    /\ pc[c] \in {"sweep", "purge", "done"}
    /\ pc[c] = "sweep" => todo[c] = {} /\ purged[c] = {}
    /\ pc[c] = "purge" =>
         \A h \in todo[c] \cup purged[c] : h \in DOMAIN chunks /\ Spent(h)

BatchInv == TypeOK /\ InsertsFresh /\ BatchesSpent /\ BatchesDisjoint

\* A step of a collector keeps all types.
LEMMA CollectorTyped ==
  ASSUME TypeOK, BatchesSpent, NEW c \in Collector, CollectorStep(c)
  PROVE  TypeOK'
<1>0. c \in Process
  BY DEF Process
<1>1. CASE Sweep(c)
  <2>1. PICK batch \in SUBSET Orphans :
          /\ chunks' = [h \in DOMAIN chunks |->
                          IF h \in batch THEN [chunks[h] EXCEPT !.ref_count = -1] ELSE chunks[h]]
          /\ todo' = [todo EXCEPT ![c] = batch]
          /\ Goto(c, "purge")
    BY <1>1 DEF Sweep
  <2>2. batch \in SUBSET Hash
    BY <2>1 DEF Orphans, TypeOK, IsTable
  <2>3. IsTable(chunks)'
    BY <2>1, <2>2, SweepRows
  <2>4. ScalarsTyped' /\ PlanTyped' /\ DraftTyped' /\ FilesTyped'
    BY <1>0, <1>1, <2>1, <2>2
    DEF Sweep, Goto, TypeOK, ScalarsTyped, PlanTyped, DraftTyped, IsTable, FilesTyped
  <2> QED BY <2>3, <2>4, TypeParts, PTL
<1>2. CASE BulkDelete(c)
  <2>1. IsTable(chunks)'
    BY <1>2, BulkRows
  <2>2. ScalarsTyped' /\ PlanTyped' /\ DraftTyped' /\ FilesTyped'
    BY <1>0, <1>2
    DEF BulkDelete, Goto, TypeOK, ScalarsTyped, PlanTyped, DraftTyped, IsTable, FilesTyped
  <2> QED BY <2>1, <2>2, TypeParts, PTL
<1>3. CASE \E h \in Hash : PurgeChunk(c, h)
  BY <1>0, <1>3 DEF PurgeChunk, TypeOK, IsTable
<1>4. CASE \E h \in Hash : RevertChunk(c, h)
  <2>1. PICK h \in Hash : RevertChunk(c, h)
    BY <1>4
  <2>2. IsTable(chunks)'
    BY <2>1, RevertRows
  <2>3. stored' \subseteq Hash \X Node
    BY <2>1 DEF RevertChunk, TypeOK
  <2>4. h \in DOMAIN chunks
    BY <2>1 DEF RevertChunk, BatchesSpent
  <2>5. late' \subseteq Hash \X Node
    BY <2>1, <2>4 DEF RevertChunk, TypeOK, Replicas, IsTable, Row
  <2>6. ScalarsTyped' /\ PlanTyped' /\ DraftTyped' /\ FilesTyped'
    BY <1>0, <2>1, <2>3, <2>5
    DEF RevertChunk, TypeOK, ScalarsTyped, PlanTyped, DraftTyped, IsTable, FilesTyped
  <2> QED BY <2>2, <2>6, TypeParts, PTL
<1> QED BY <1>1, <1>2, <1>3, <1>4 DEF CollectorStep

\* A row version that a session writes is spent if those it starts from are.
LEMMA VisibleSpent ==
  ASSUME TypeOK, NEW t \in Session, NEW h \in DOMAIN Visible(t), Spent(h)
  PROVE  SpentRow(Visible(t)[h])
BY VisibleRows DEF Spent

\* A spent row stays spent when a session writes a spent version of it.
LEMMA PutSpent ==
  ASSUME TypeOK, NEW t \in Session, NEW k \in Hash, NEW row \in Row, Put(t, k, row),
         UNCHANGED chunks, NEW h, Spent(h), k = h => SpentRow(row)
  PROVE  Spent(h)'
<1>1. /\ \A s \in Session \ {t} : draft'[s] = draft[s]
      /\ DOMAIN draft'[t] = DOMAIN draft[t] \cup {k}
      /\ draft'[t][k] = row
      /\ \A x \in DOMAIN draft[t] \ {k} : draft'[t][x] = draft[t][x]
  BY PutRow
<1>2. \A s \in Session : h \in DOMAIN draft'[s] => SpentRow(draft'[s][h])
  BY <1>1 DEF Spent
<1>3. h \in DOMAIN chunks' => SpentRow(chunks'[h])
  BY DEF Spent
<1> QED BY <1>2, <1>3 DEF Spent, SpentRow

\* A spent row stays spent in a COMMIT.
LEMMA PublishSpent ==
  ASSUME TypeOK, NEW t \in Session, Publish(t), NEW h, Spent(h)
  PROVE  Spent(h)'
<1>1. /\ DOMAIN chunks' = DOMAIN draft[t] \cup DOMAIN chunks
      /\ \A x \in DOMAIN draft[t] : chunks'[x] = draft[t][x]
      /\ \A x \in DOMAIN chunks \ DOMAIN draft[t] : chunks'[x] = chunks[x]
      /\ DOMAIN draft'[t] = {}
      /\ \A s \in Session \ {t} : draft'[s] = draft[s]
  BY PublishRows
<1>2. \A s \in Session : h \in DOMAIN draft'[s] => SpentRow(draft'[s][h])
  BY <1>1 DEF Spent
<1>3. h \in DOMAIN chunks' => SpentRow(chunks'[h])
  BY <1>1 DEF Spent
<1> QED BY <1>2, <1>3 DEF Spent, SpentRow

\* A spent row stays spent in an abort.
LEMMA AbortSpent ==
  ASSUME TypeOK, NEW t \in Session, Abort(t), NEW h, Spent(h)
  PROVE  Spent(h)'
<1>1. DOMAIN draft'[t] = {} /\ \A s \in Session \ {t} : draft'[s] = draft[s]
  BY AbortLocks
<1>2. \A s \in Session : h \in DOMAIN draft'[s] => SpentRow(draft'[s][h])
  BY <1>1 DEF Spent
<1>3. h \in DOMAIN chunks' => SpentRow(chunks'[h])
  BY DEF Spent, Abort
<1> QED BY <1>2, <1>3 DEF Spent, SpentRow

\* A sweep's own rows are spent by it, and rows stay spent.
LEMMA SweepSpent ==
  ASSUME TypeOK, NEW batch \in SUBSET Orphans, UNCHANGED draft,
         chunks' = [h \in DOMAIN chunks |->
                      IF h \in batch THEN [chunks[h] EXCEPT !.ref_count = -1] ELSE chunks[h]],
         NEW h, h \in batch \/ Spent(h)
  PROVE  Spent(h)'
<1>1. batch \in SUBSET Hash
  BY DEF Orphans, TypeOK, IsTable
<1>2. /\ DOMAIN chunks' = DOMAIN chunks
      /\ \A k \in DOMAIN chunks :
           IF k \in batch
           THEN chunks'[k] = ARow(chunks[k].nodes, -1, chunks[k].fresh)
           ELSE chunks'[k] = chunks[k]
  BY <1>1, SweepRows
<1>3. h \in DOMAIN chunks' => SpentRow(chunks'[h])
  BY <1>2 DEF Spent, SpentRow, ARow
<1>4. \A s \in Session : h \in DOMAIN draft'[s] => SpentRow(draft'[s][h])
  BY DEF Orphans, Spent
<1> QED BY <1>3, <1>4 DEF Spent, SpentRow

\* A spent row stays spent in a step of an upload.
LEMMA UploadSpent ==
  ASSUME TypeOK, InsertsFresh, NEW u \in Upload, UploadStep(u), NEW h \in Hash, Spent(h)
  PROVE  Spent(h)'
<1>0. u \in Session
  BY DEF Session
<1>1. CASE UNCHANGED <<chunks, draft>>
  BY <1>1 DEF Spent, SpentRow
<1>2. CASE Abort(u)
  BY <1>0, <1>2, AbortSpent
<1>3. CASE Publish(u)
  BY <1>0, <1>3, PublishSpent
<1>4. CASE Insert(u) /\ ~UNCHANGED draft
  <2>1. Current(u) \in Hash /\ read[u] \in Row /\ read[u].fresh
    BY <1>4, CurrentHash DEF Insert, AtChunk, TypeOK, InsertsFresh
  <2>2. Put(u, Current(u), read[u]) /\ UNCHANGED chunks
    BY <1>4 DEF Insert
  <2> QED BY <1>0, <2>1, <2>2, PutSpent DEF SpentRow
<1>5. CASE Refresh(u) /\ ~UNCHANGED draft
  <2> DEFINE row == ARow(Visible(u)[Current(u)].nodes, Visible(u)[Current(u)].ref_count, TRUE)
  <2>1. Current(u) \in Hash /\ row \in Row /\ Put(u, Current(u), row) /\ UNCHANGED chunks
    BY <1>5, RefreshWrites DEF Refresh
  <2>2. SpentRow(row)
    BY DEF SpentRow, ARow
  <2> HIDE DEF row
  <2> QED BY <1>0, <2>1, <2>2, PutSpent
<1>6. CASE Increment(u) /\ ~UNCHANGED draft
  <2> DEFINE row == ARow(Visible(u)[Current(u)].nodes, Visible(u)[Current(u)].ref_count + 1, TRUE)
  <2>1. Current(u) \in Hash /\ row \in Row /\ Put(u, Current(u), row) /\ UNCHANGED chunks
    BY <1>6, IncrementWrites DEF Increment
  <2>2. SpentRow(row)
    BY DEF SpentRow, ARow
  <2> HIDE DEF row
  <2> QED BY <1>0, <2>1, <2>2, PutSpent
<1>7. CASE Select(u)
  BY <1>1, <1>2, <1>7, SelectRead
<1>8. CASE Insert(u) \/ Refresh(u) \/ Transfer(u) \/ Increment(u)
  BY <1>1, <1>4, <1>5, <1>6, <1>8 DEF Insert, Refresh, Transfer, Increment
<1>9. CASE CommitInit(u) \/ CommitUpload(u)
  BY <1>3, <1>9 DEF CommitInit, CommitUpload
<1> QED BY <1>7, <1>8, <1>9 DEF UploadStep

\* A spent row stays spent in a step of a delete.
LEMMA DeleteSpent ==
  ASSUME TypeOK, NEW d \in Delete, DeleteStep(d), NEW h \in Hash, Spent(h)
  PROVE  Spent(h)'
<1>0. d \in Session
  BY DEF Session
<1>1. CASE UNCHANGED <<chunks, draft>>
  BY <1>1 DEF Spent, SpentRow
<1>2. CASE \E k \in Hash : Decrement(d, k) /\ ~UNCHANGED draft
  <2>1. PICK k \in Hash : Decrement(d, k) /\ ~UNCHANGED draft
    BY <1>2
  <2> DEFINE row == ARow(Visible(d)[k].nodes, Visible(d)[k].ref_count - 1, Visible(d)[k].fresh)
  <2>2. k \in DOMAIN Visible(d) /\ row \in Row /\ Put(d, k, row) /\ UNCHANGED chunks
    BY <2>1, DecrementWrites DEF Decrement
  <2>3. k = h => SpentRow(row)
    <3>1. HAVE k = h
    <3>2. SpentRow(Visible(d)[k])
      BY <1>0, <2>2, <3>1, VisibleSpent
    <3>3. Visible(d)[k] \in Row
      BY <1>0, <2>2, VisibleRows
    <3>4. Visible(d)[k].ref_count \in Int
      BY <3>3, RowType
    <3>5. row.fresh = Visible(d)[k].fresh /\ row.ref_count = Visible(d)[k].ref_count - 1
      BY DEF ARow
    <3> QED BY <3>2, <3>4, <3>5 DEF SpentRow
  <2> HIDE DEF row
  <2> QED BY <1>0, <2>2, <2>3, PutSpent
<1>3. CASE CommitDelete(d)
  BY <1>0, <1>3, PublishSpent DEF CommitDelete
<1> QED BY <1>1, <1>2, <1>3 DEF DeleteStep, SelectFile, Decrement

\* A spent row stays spent in a step of a collector.
LEMMA CollectorSpent ==
  ASSUME TypeOK, NEW c \in Collector, CollectorStep(c), NEW h \in Hash, Spent(h)
  PROVE  Spent(h)'
<1>1. CASE Sweep(c)
  BY <1>1, SweepSpent DEF Sweep
<1>2. CASE BulkDelete(c)
  <2>1. DOMAIN chunks' \subseteq DOMAIN chunks /\ \A k \in DOMAIN chunks' : chunks'[k] = chunks[k]
    BY <1>2, BulkRows
  <2> QED BY <1>2, <2>1 DEF Spent, SpentRow, BulkDelete
<1>3. CASE \E k \in Hash : PurgeChunk(c, k)
  BY <1>3 DEF PurgeChunk, Spent, SpentRow
<1>4. CASE \E k \in Hash : RevertChunk(c, k)
  <2>1. PICK k \in Hash : RevertChunk(c, k)
    BY <1>4
  <2>2. /\ DOMAIN chunks' = DOMAIN chunks
        /\ \A x \in DOMAIN chunks :
             IF x = k /\ chunks[x].ref_count = -1
             THEN chunks'[x] = ARow(chunks[x].nodes, 0, TRUE)
             ELSE chunks'[x] = chunks[x]
    BY <2>1, RevertRows
  <2>3. h \in DOMAIN chunks' => SpentRow(chunks'[h])
    BY <2>2 DEF Spent, SpentRow, ARow
  <2>4. UNCHANGED draft
    BY <2>1 DEF RevertChunk
  <2> QED BY <2>3, <2>4 DEF Spent, SpentRow
<1> QED BY <1>1, <1>2, <1>3, <1>4 DEF CollectorStep

\* The steps, and what is common to those that abort.
LEMMA AbortSteps ==
  ASSUME NEW t \in Session, Fail(t) \/ BreakDeadlock(t)
  PROVE  Abort(t)
BY DEF Fail, Running, BreakDeadlock, Wanted, Abort

\* The kinds of steps.
LEMMA Steps ==
  ASSUME Next
  PROVE  \/ \E u \in Upload : UploadStep(u)
         \/ \E d \in Delete : DeleteStep(d)
         \/ \E c \in Collector : CollectorStep(c)
         \/ \E t \in Session : Abort(t)
         \/ \E r \in late : LateDelete(r)
         \/ Reroute
BY AbortSteps DEF Next, Progress

\* Only its own steps change what a collector is at.
LEMMA BatchesKept ==
  ASSUME TypeOK, NEW p \in Session,
         Abort(p) \/ (p \in Upload /\ UploadStep(p)) \/ (p \in Delete /\ DeleteStep(p))
  PROVE  \A c \in Collector : pc'[c] = pc[c] /\ todo'[c] = todo[c] /\ purged'[c] = purged[c]
<1>1. \A c \in Collector : c # p /\ c \in Process /\ c \in Delete \cup Collector
  BY TxnAssumption DEF Process, Session
<1>2. CASE Abort(p)
  BY <1>1, <1>2 DEF Abort, Goto, TypeOK
<1>3. CASE p \in Upload /\ UploadStep(p)
  BY <1>1, <1>3 DEF UploadStep, Select, Insert, Refresh, CommitInit, Transfer, Increment,
     CommitUpload, Goto, TypeOK
<1>4. CASE p \in Delete /\ DeleteStep(p)
  BY <1>1, <1>4 DEF DeleteStep, SelectFile, Decrement, CommitDelete, Goto, TypeOK
<1> QED BY <1>2, <1>3, <1>4

\* Sessions delete no row.
LEMMA RowsStay ==
  ASSUME TypeOK, NEW p \in Session,
         Abort(p) \/ (p \in Upload /\ UploadStep(p)) \/ (p \in Delete /\ DeleteStep(p))
  PROVE  DOMAIN chunks \subseteq DOMAIN chunks'
<1>1. CASE UNCHANGED chunks
  BY <1>1
<1>2. CASE Publish(p)
  BY <1>2, PublishRows
<1> QED BY <1>1, <1>2 DEF Abort, UploadStep, Select, Insert, Refresh, CommitInit, Transfer,
     Increment, CommitUpload, DeleteStep, SelectFile, Decrement, CommitDelete

\* Steps of sessions keep batches spent and disjoint.
LEMMA BatchSessions ==
  ASSUME BatchInv, NEW p \in Session, TypeOK',
         Abort(p) \/ (p \in Upload /\ UploadStep(p)) \/ (p \in Delete /\ DeleteStep(p))
  PROVE  BatchesSpent' /\ BatchesDisjoint'
<1>1. \A c \in Collector : pc'[c] = pc[c] /\ todo'[c] = todo[c] /\ purged'[c] = purged[c]
  BY BatchesKept DEF BatchInv
<1>2. DOMAIN chunks \subseteq DOMAIN chunks'
  BY RowsStay DEF BatchInv
<1>3. \A h \in Hash : Spent(h) => Spent(h)'
  BY AbortSpent, UploadSpent, DeleteSpent DEF BatchInv
<1>4. \A c \in Collector : todo[c] \cup purged[c] \subseteq Hash
  BY DEF BatchInv, TypeOK
<1>5. BatchesSpent'
  BY <1>1, <1>2, <1>3, <1>4 DEF BatchInv, BatchesSpent
<1>6. BatchesDisjoint'
  BY <1>1 DEF BatchInv, BatchesDisjoint
<1> QED BY <1>5, <1>6

\* A step of a collector changes what that one is at.
LEMMA CollectorAlone ==
  ASSUME TypeOK, NEW c \in Collector, CollectorStep(c)
  PROVE  /\ \A p \in Process \ {c} : pc'[p] = pc[p]
         /\ \A p \in (Delete \cup Collector) \ {c} : todo'[p] = todo[p]
         /\ \A d \in Collector \ {c} : purged'[d] = purged[d]
<1>1. CASE Sweep(c)
  <2>1. PICK batch : todo' = [todo EXCEPT ![c] = batch] /\ Goto(c, "purge")
    BY <1>1 DEF Sweep
  <2>2. UNCHANGED purged
    BY <1>1 DEF Sweep
  <2> QED BY <2>1, <2>2 DEF Goto, TypeOK
<1>2. CASE BulkDelete(c)
  BY <1>2 DEF BulkDelete, Goto, TypeOK
<1>3. CASE \E h \in Hash : PurgeChunk(c, h)
  BY <1>3 DEF PurgeChunk, TypeOK
<1>4. CASE \E h \in Hash : RevertChunk(c, h)
  BY <1>4 DEF RevertChunk, TypeOK
<1> QED BY <1>1, <1>2, <1>3, <1>4 DEF CollectorStep

\* Steps of collectors do: a sweep takes no spent row, and what it takes is.
LEMMA BatchCollectors ==
  ASSUME BatchInv, TypeOK', NEW c \in Collector, CollectorStep(c)
  PROVE  BatchesSpent' /\ BatchesDisjoint'
<1>0. /\ TypeOK /\ BatchesSpent /\ BatchesDisjoint /\ c \in Process
      /\ \A d \in Collector : todo[d] \cup purged[d] \subseteq Hash
  BY DEF BatchInv, TypeOK, Process
<1>1. \A h \in Hash : Spent(h) => Spent(h)'
  BY <1>0, CollectorSpent
<1>2. \A d \in Collector \ {c} : pc'[d] = pc[d] /\ todo'[d] = todo[d] /\ purged'[d] = purged[d]
  BY <1>0, CollectorAlone DEF Process
<1>3. CASE Sweep(c)
  <2>1. PICK batch \in SUBSET Orphans :
          /\ chunks' = [h \in DOMAIN chunks |->
                          IF h \in batch THEN [chunks[h] EXCEPT !.ref_count = -1] ELSE chunks[h]]
          /\ todo' = [todo EXCEPT ![c] = batch]
          /\ Goto(c, "purge")
    BY <1>3 DEF Sweep
  <2>2. pc[c] = "sweep" /\ pc'[c] = "purge" /\ todo'[c] = batch /\ purged'[c] = {}
    BY <1>0, <1>3, <2>1 DEF Sweep, Goto, TypeOK, BatchesSpent
  <2>3. DOMAIN chunks' = DOMAIN chunks
    BY <2>1
  <2>4. \A h \in batch : h \in DOMAIN chunks /\ Spent(h)'
    BY <1>0, <1>3, <2>1, SweepSpent DEF Sweep, Orphans
  <2>5. \A h \in batch : ~Spent(h)
    BY <1>0 DEF Orphans, Spent, SpentRow
  <2>6. BatchesSpent'
    BY <1>0, <1>1, <1>2, <2>2, <2>3, <2>4 DEF BatchesSpent
  <2>7. \A d \in Collector \ {c} : pc[d] = "purge" => batch \cap (todo[d] \cup purged[d]) = {}
    BY <1>0, <2>5 DEF BatchesSpent
  <2>8. BatchesDisjoint'
    BY <1>0, <1>2, <2>2, <2>7 DEF BatchesDisjoint
  <2> QED BY <2>6, <2>8
<1>4. CASE BulkDelete(c)
  <2>1. pc[c] = "purge" /\ pc'[c] = "done" /\ UNCHANGED <<todo, purged>>
    BY <1>0, <1>4 DEF BulkDelete, Goto, TypeOK
  <2>2. \A h \in DOMAIN chunks : h \notin purged[c] => h \in DOMAIN chunks'
    BY <1>0, <1>4, BulkRows
  <2>3. \A d \in Collector \ {c} : pc[d] = "purge" =>
          \A h \in todo[d] \cup purged[d] : h \in DOMAIN chunks'
    BY <1>0, <2>1, <2>2 DEF BatchesSpent, BatchesDisjoint
  <2>4. BatchesSpent'
    BY <1>0, <1>1, <1>2, <2>1, <2>3 DEF BatchesSpent
  <2>5. BatchesDisjoint'
    BY <1>0, <1>2, <2>1 DEF BatchesDisjoint
  <2> QED BY <2>4, <2>5
<1>5. CASE \E h \in Hash : PurgeChunk(c, h) \/ RevertChunk(c, h)
  <2>1. PICK h \in Hash : PurgeChunk(c, h) \/ RevertChunk(c, h)
    BY <1>5
  <2>2. /\ pc[c] = "purge" /\ UNCHANGED pc /\ h \in todo[c]
        /\ todo'[c] \cup purged'[c] \subseteq todo[c] \cup purged[c]
    <3>1. CASE PurgeChunk(c, h)
      BY <3>1 DEF PurgeChunk, TypeOK
    <3>2. CASE RevertChunk(c, h)
      BY <3>2 DEF RevertChunk, TypeOK
    <3> QED BY <2>1, <3>1, <3>2
  <2>3. DOMAIN chunks' = DOMAIN chunks
    BY <2>1 DEF PurgeChunk, RevertChunk
  <2>4. BatchesSpent'
    BY <1>0, <1>1, <1>2, <2>2, <2>3 DEF BatchesSpent
  <2>5. BatchesDisjoint'
    BY <1>0, <1>2, <2>2 DEF BatchesDisjoint
  <2> QED BY <2>4, <2>5
<1> QED BY <1>3, <1>4, <1>5 DEF CollectorStep

\* What an upload-init is about to insert is fresh.
LEMMA InsertsFreshKept ==
  ASSUME BatchInv, Next
  PROVE  InsertsFresh'
<1>0. TypeOK /\ InsertsFresh /\ \A u \in Upload : u \in Process /\ u \in Session
  BY DEF BatchInv, Process, Session
<1>1. \A u \in Upload, c \in Collector \cup Delete : u # c
  BY TxnAssumption DEF Session
<1>2. SUFFICES ASSUME NEW v \in Upload, pc'[v] = "insert" PROVE read'[v].fresh
  BY DEF InsertsFresh
<1>3. CASE \E u \in Upload : UploadStep(u)
  <2>1. PICK u \in Upload : UploadStep(u)
    BY <1>3
  <2>2. CASE Select(u)
    <3>1. CASE Abort(u)
      BY <1>0, <1>2, <3>1 DEF Abort, Goto, TypeOK, InsertsFresh
    <3>2. CASE read' = [read EXCEPT ![u] = ARow(route, 0, TRUE)] /\ Goto(u, "insert")
      BY <1>0, <1>2, <3>2 DEF Goto, TypeOK, InsertsFresh, ARow
    <3>3. CASE Goto(u, "refresh") /\ \E row : read' = [read EXCEPT ![u] = row]
      BY <1>0, <1>2, <3>3 DEF Goto, TypeOK, InsertsFresh
    <3> QED BY <1>0, <2>2, <3>1, <3>2, <3>3, SelectRead
  <2>3. CASE ~Select(u)
    BY <1>0, <1>2, <2>1, <2>3 DEF UploadStep, Insert, Refresh, CommitInit, Transfer, Increment,
       CommitUpload, Goto, TypeOK, InsertsFresh
  <2> QED BY <2>2, <2>3
<1>4. CASE \E d \in Delete : DeleteStep(d)
  BY <1>0, <1>1, <1>2, <1>4 DEF DeleteStep, SelectFile, Decrement, CommitDelete, Goto, TypeOK, InsertsFresh
<1>5. CASE \E c \in Collector : CollectorStep(c)
  BY <1>0, <1>1, <1>2, <1>5
  DEF CollectorStep, Sweep, BulkDelete, PurgeChunk, RevertChunk, Goto, TypeOK, InsertsFresh
<1>6. CASE \E t \in Session : Abort(t)
  BY <1>0, <1>2, <1>6 DEF Abort, Goto, TypeOK, InsertsFresh
<1>7. CASE (\E r \in late : LateDelete(r)) \/ Reroute
  BY <1>0, <1>2, <1>7 DEF LateDelete, Reroute, InsertsFresh
<1> QED BY <1>3, <1>4, <1>5, <1>6, <1>7, Steps

\* Steps that touch neither rows nor sessions.
LEMMA IdleBatch ==
  ASSUME BatchInv, UNCHANGED <<chunks, files, pc, draft, at, read, plan, todo, purged>>,
         stored' \subseteq Hash \X Node, late' \subseteq Hash \X Node, route' \in Reroutes \cup {Route}
  PROVE  BatchInv'
<1>1. TypeOK'
  BY DEF BatchInv, TypeOK, IsTable
<1>2. InsertsFresh' /\ BatchesDisjoint'
  BY DEF BatchInv, InsertsFresh, BatchesDisjoint
<1>3. BatchesSpent'
  BY DEF BatchInv, BatchesSpent, Spent, SpentRow
<1> QED BY <1>1, <1>2, <1>3 DEF BatchInv

\* Every step preserves BatchInv.
LEMMA BatchStep ==
  ASSUME BatchInv, [Next]_txnVars
  PROVE  BatchInv'
<1>1. CASE UNCHANGED txnVars
  BY <1>1, IdleBatch DEF txnVars, BatchInv, TypeOK
<1>2. CASE Next
  <2>0. TypeOK /\ BatchesSpent /\ \A u \in Upload \cup Delete : u \in Session
    BY DEF BatchInv, Session
  <2>1. CASE \E u \in Upload : UploadStep(u)
    BY <1>2, <2>0, <2>1, UploadTyped, BatchSessions, InsertsFreshKept DEF BatchInv
  <2>2. CASE \E d \in Delete : DeleteStep(d)
    BY <1>2, <2>0, <2>2, DeleteTyped, BatchSessions, InsertsFreshKept DEF BatchInv
  <2>3. CASE \E c \in Collector : CollectorStep(c)
    BY <1>2, <2>0, <2>3, CollectorTyped, BatchCollectors, InsertsFreshKept DEF BatchInv
  <2>4. CASE \E t \in Session : Abort(t)
    BY <1>2, <2>0, <2>4, AbortTyped, BatchSessions, InsertsFreshKept DEF BatchInv
  <2>5. CASE (\E r \in late : LateDelete(r)) \/ Reroute
    BY <2>0, <2>5, IdleBatch DEF LateDelete, Reroute, TypeOK
  <2> QED BY <1>2, <2>1, <2>2, <2>3, <2>4, <2>5, Steps
<1> QED BY <1>1, <1>2

\* BatchInv holds at the beginning.
LEMMA BatchInit ==
  ASSUME Init
  PROVE  BatchInv
<1>1. PICK start \in Starts : chunks = start.rows /\ files = start.files
  BY DEF Init
<1>2. IsTable(chunks) /\ \A f \in DOMAIN files : files[f] \in File
  BY <1>1, TxnAssumption
<1>3. ARow({}, 0, FALSE) \in Row
  BY DEF ARow, Row
<1>4. TypeOK
  <2>1. DraftTyped /\ PlanTyped /\ FilesTyped
    BY <1>2, EmptyTable DEF Init, DraftTyped, PlanTyped, FilesTyped, Empty
  <2>2. ScalarsTyped
    <3>1. stored \subseteq Hash \X Node /\ late \subseteq Hash \X Node
      BY DEF Init
    <3>2. route \in Reroutes \cup {Route} /\ at \in [Upload -> Nat \ {0}]
      BY DEF Init
    <3>3. read \in [Upload -> Row]
      BY <1>3 DEF Init
    <3> QED BY <3>1, <3>2, <3>3 DEF Init, ScalarsTyped, Process
  <2> QED BY <1>2, <2>1, <2>2, TypeParts
<1>5. InsertsFresh
  BY TxnAssumption DEF Init, InsertsFresh, Session, Process
<1>6. BatchesSpent /\ BatchesDisjoint
  BY DEF Init, BatchesSpent, BatchesDisjoint, Process
<1> QED BY <1>4, <1>5, <1>6 DEF BatchInv

\* The types, and what is spent, hold in every behaviour.
THEOREM BatchInvAlways == Spec => []BatchInv
<1>1. Init => BatchInv
  BY BatchInit
<1>2. BatchInv /\ [Next]_txnVars => BatchInv'
  BY BatchStep
<1> QED BY <1>1, <1>2, PTL DEF Spec

\* Two collectors at work at the same time never have the same chunk
\* (GetOrphanedChunks' FOR UPDATE SKIP LOCKED and its tombstones).
THEOREM BatchesAlwaysDisjoint == Spec => []BatchesDisjoint
<1>1. BatchInv => BatchesDisjoint
  BY DEF BatchInv
<1> QED BY <1>1, BatchInvAlways, PTL

-----------------------------------------------------------------------------
(* What is assumed for the counts.                                         *)

\* The rows of a start are in order and its counts are exact; a request to
\* upload or to delete is for a file of its own, and no chunk is twice in one.
SaneStart(start) ==
  /\ \A h \in DOMAIN start.rows :
       LET uses == Cardinality({f \in DOMAIN start.files : h \in Range(start.files[f].chunks)})
       IN /\ start.rows[h].nodes # {}
          /\ start.rows[h].fresh => start.rows[h].ref_count >= 0
          /\ \/ start.rows[h].ref_count = uses
             \/ start.rows[h].ref_count = -1 /\ uses = 0
  /\ IsFiniteSet(DOMAIN start.files)
  /\ \A f \in DOMAIN start.files :
       /\ f \notin Upload
       /\ Range(start.files[f].chunks) \subseteq DOMAIN start.rows
       /\ \A u \in Upload : start.files[f].name # NameOf[u]
       /\ \A g \in DOMAIN start.files : start.files[f].name = start.files[g].name => f = g

SaneRequests ==
  /\ \A start \in Starts : SaneStart(start)
  /\ \A u, v \in Upload : NameOf[u] = NameOf[v] => u = v
  /\ \A d, e \in Delete : NameOf[d] = NameOf[e] => d = e
  /\ \A u \in Upload : \A j, k \in DOMAIN ChunksOf[u] : ChunksOf[u][j] = ChunksOf[u][k] => j = k

Tombstoned(h) == h \in DOMAIN chunks /\ chunks[h].ref_count = -1

\* No sweep takes a chunk between the SELECT of an upload-init that finds it and
\* the UPDATE that makes it fresh: what SELECT .. FOR UPDATE would ensure.
SelectedKept ==
  \A u \in Upload, h \in Hash : AtChunk(u, "refresh") /\ Current(u) = h => ~Tombstoned(h)'

-----------------------------------------------------------------------------
(* The inductive invariant of the counts.                                  *)

Live(h) == h \in DOMAIN chunks /\ chunks[h].ref_count >= 0

\* A row no sweep takes and that is not tombstoned.
Firm(h) == Live(h) /\ chunks[h].fresh

RowsSane ==
  \A h \in DOMAIN chunks :
    /\ chunks[h].ref_count >= -1
    /\ chunks[h].nodes # {}
    /\ chunks[h].fresh => chunks[h].ref_count >= 0

LocksExclusive ==
  \A t, s \in Session : t # s => DOMAIN draft[t] \cap DOMAIN draft[s] = {}

FilesSane ==
  /\ IsFiniteSet(DOMAIN files)
  /\ \A f \in DOMAIN files :
       /\ Range(files[f].chunks) \subseteq DOMAIN chunks
       /\ f \in Upload => pc[f] = "done" /\ files[f].name = NameOf[f]
       /\ f \notin Upload => \A u \in Upload : files[f].name # NameOf[u]
       /\ \A g \in DOMAIN files : files[f].name = files[g].name => f = g

InInit(u) == pc[u] \in {"select", "insert", "refresh"}

\* What a session adds to the count of a row it has locked.
Delta(t) == IF t \in Delete THEN -1 ELSE IF pc[t] = "increment" THEN 1 ELSE 0

\* A locked row differs from the committed one by what its session does.
DraftSane(t) ==
  \A h \in DOMAIN draft[t] :
    IF h \in DOMAIN chunks
    THEN /\ chunks[h].ref_count >= 0
         /\ draft[t][h].nodes = chunks[h].nodes
         /\ draft[t][h].ref_count = chunks[h].ref_count + Delta(t)
         /\ draft[t][h].fresh <=> t \in Upload \/ chunks[h].fresh
    ELSE /\ t \in Upload /\ InInit(t)
         /\ draft[t][h].nodes # {} /\ draft[t][h].ref_count = 0 /\ draft[t][h].fresh

\* The chunks the loop of upload u has been at.
Before(u) == {ChunksOf[u][k] : k \in {j \in DOMAIN ChunksOf[u] : j < at[u]}}

UploadSane(u) ==
  /\ pc[u] \in {"select", "insert", "refresh", "transfer", "increment", "done", "failed"}
  /\ InInit(u) =>
       /\ DOMAIN draft[u] \subseteq Before(u)
       /\ \A h \in Before(u) : h \in DOMAIN draft[u] \/ Firm(h)
  /\ pc[u] = "insert" =>
       /\ at[u] <= Len(ChunksOf[u])
       /\ read[u].nodes # {} /\ read[u].ref_count = 0 /\ read[u].fresh
       /\ Current(u) \in DOMAIN chunks => Firm(Current(u))
  /\ pc[u] = "refresh" => at[u] <= Len(ChunksOf[u]) /\ Live(Current(u))
  /\ pc[u] \in {"transfer", "increment"} => \A h \in Range(ChunksOf[u]) : Firm(h)
  /\ pc[u] = "increment" => DOMAIN draft[u] = Before(u)
  /\ pc[u] \in {"transfer", "done", "failed"} => DOMAIN draft[u] = {}

DeleteSane(d) ==
  /\ pc[d] \in {"select", "decrement", "done", "failed"}
  /\ pc[d] = "decrement" =>
       \E f \in RowsNamed(NameOf[d]) :
         /\ todo[d] \subseteq Range(files[f].chunks)
         /\ DOMAIN draft[d] = Range(files[f].chunks) \ todo[d]
  /\ pc[d] # "decrement" => DOMAIN draft[d] = {}

\* What a collector has swept stays tombstoned until it is done with it.
BatchesTombstoned ==
  \A c \in Collector :
    pc[c] = "purge" =>
      todo[c] \cap purged[c] = {} /\ \A h \in todo[c] \cup purged[c] : Tombstoned(h)

TxnInv ==
  /\ BatchInv
  /\ RowsSane /\ LocksExclusive /\ FilesSane /\ CountsExact
  /\ \A t \in Session : DraftSane(t)
  /\ \A u \in Upload : UploadSane(u)
  /\ \A d \in Delete : DeleteSane(d)
  /\ BatchesTombstoned

-----------------------------------------------------------------------------
(* What a step leaves alone.                                               *)

\* The sessions outside P are where they were.
Others(P) ==
  /\ \A q \in Session \ P : pc'[q] = pc[q] /\ draft'[q] = draft[q]
  /\ \A u \in Upload \ P : at'[u] = at[u] /\ read'[u] = read[u] /\ plan'[u] = plan[u]
  /\ \A d \in Delete \ P : todo'[d] = todo[d]

\* Rows that are not tombstoned stay, fresh ones stay fresh and new ones are, and
\* what a session outside P has locked is as it was.
RowsKept(P) ==
  /\ \A h \in Hash : Firm(h) => Firm(h)'
  /\ \A h \in Hash : Live(h) /\ ~Tombstoned(h)' => Live(h)'
  /\ \A h \in DOMAIN chunks :
       ~Tombstoned(h) => h \in DOMAIN chunks' /\ chunks'[h].nodes = chunks[h].nodes
  /\ \A h \in DOMAIN chunks' \ DOMAIN chunks : Firm(h)'
  /\ \A q \in Session \ P : \A h \in DOMAIN draft[q] :
       /\ h \in DOMAIN chunks' <=> h \in DOMAIN chunks
       /\ h \in DOMAIN chunks => chunks'[h] = chunks[h]

\* Only a delete in P removes a file, and that one is its own.
FilesKept(P) ==
  \A f \in DOMAIN files :
    \/ f \in DOMAIN files' /\ files'[f] = files[f]
    \/ \E d \in Delete \cap P : files[f].name = NameOf[d]

\* Nothing is disturbed by a step that commits no row.
LEMMA SameRows ==
  ASSUME UNCHANGED chunks, NEW P
  PROVE  RowsKept(P)
BY DEF RowsKept, Firm, Live, Tombstoned

\* The chunks a loop has been at, and the one it is at.
LEMMA BeforeNext ==
  ASSUME TypeOK, SaneRequests, NEW u \in Upload, at[u] <= Len(ChunksOf[u])
  PROVE  /\ Current(u) \in Range(ChunksOf[u]) /\ Current(u) \notin Before(u)
         /\ at'[u] = at[u] + 1 => Before(u)' = Before(u) \cup {Current(u)}
<1>1. ChunksOf[u] \in Seq(Hash) /\ at[u] \in Nat \ {0} /\ at[u] \in DOMAIN ChunksOf[u]
  BY TxnAssumption DEF TypeOK
<1>2. \A j, k \in DOMAIN ChunksOf[u] : ChunksOf[u][j] = ChunksOf[u][k] => j = k
  BY DEF SaneRequests
<1>3. \A j \in DOMAIN ChunksOf[u] : j \in Nat
  BY <1>1
<1>4. Current(u) \notin Before(u)
  BY <1>1, <1>2, <1>3 DEF Before, Current
<1>5. ASSUME at'[u] = at[u] + 1 PROVE Before(u)' = Before(u) \cup {Current(u)}
  <2>1. {j \in DOMAIN ChunksOf[u] : j < at'[u]} = {j \in DOMAIN ChunksOf[u] : j < at[u]} \cup {at[u]}
    BY <1>1, <1>3, <1>5
  <2> QED BY <2>1 DEF Before, Current
<1> QED BY <1>1, <1>4, <1>5 DEF Current, Range

\* The chunks a loop has been at when it begins and when it is done.
LEMMA BeforeEnd ==
  ASSUME TypeOK, NEW u \in Upload
  PROVE  /\ at[u] > Len(ChunksOf[u]) => Before(u) = Range(ChunksOf[u])
         /\ Before(u) \subseteq Range(ChunksOf[u])
         /\ Range(ChunksOf[u]) \subseteq Hash
         /\ at[u] = 1 => Before(u) = {}
<1>1. ChunksOf[u] \in Seq(Hash) /\ at[u] \in Nat \ {0}
  BY TxnAssumption DEF TypeOK
<1>2. \A j \in DOMAIN ChunksOf[u] : j \in Nat /\ 1 <= j /\ j <= Len(ChunksOf[u]) /\ ChunksOf[u][j] \in Hash
  BY <1>1
<1> QED BY <1>1, <1>2 DEF Before, Range

\* A chunk in use has a row, and its count says so.
LEMMA UsedRow ==
  ASSUME TxnInv, NEW f \in DOMAIN files, NEW h \in Range(files[f].chunks)
  PROVE  /\ h \in DOMAIN chunks /\ h \in Hash
         /\ chunks[h].ref_count = Uses(h) /\ Uses(h) \in Nat /\ Uses(h) >= 1
         /\ ~Tombstoned(h) /\ Live(h)
<1> DEFINE users == {g \in DOMAIN files : h \in Range(files[g].chunks)}
<1>1. h \in DOMAIN chunks /\ IsFiniteSet(DOMAIN files)
  BY DEF TxnInv, FilesSane
<1>2. IsFiniteSet(users)
  BY <1>1, FS_Subset
<1>3. Cardinality(users) \in Nat /\ (Cardinality(users) = 0 <=> users = {})
  BY <1>2, FS_CardinalityType, FS_EmptySet
<1>4. f \in users
  OBVIOUS
<1>5. Uses(h) = Cardinality(users)
  BY DEF Uses
<1> HIDE DEF users
<1>6. Uses(h) \in Nat /\ Uses(h) # 0
  BY <1>3, <1>4, <1>5
<1>7. chunks[h].ref_count = Uses(h)
  BY <1>1, <1>6 DEF TxnInv, CountsExact
<1>8. h \in Hash
  BY <1>1 DEF TxnInv, BatchInv, TypeOK, IsTable
<1> QED BY <1>1, <1>6, <1>7, <1>8 DEF Tombstoned, Live

\* An upload is not disturbed by steps of others.
LEMMA OtherUploads ==
  ASSUME TxnInv, SelectedKept, NEW P, Others(P), RowsKept(P), NEW u \in Upload \ P
  PROVE  UploadSane(u)'
<1>0. TypeOK /\ UploadSane(u) /\ u \in Session
  BY DEF TxnInv, BatchInv, Session
<1>1. pc'[u] = pc[u] /\ draft'[u] = draft[u] /\ at'[u] = at[u] /\ read'[u] = read[u]
  BY <1>0 DEF Others
<1>2. Before(u)' = Before(u) /\ Current(u)' = Current(u) /\ (InInit(u)' <=> InInit(u))
  BY <1>1 DEF Before, Current, InInit
<1>3. \A h \in Hash : Firm(h) => Firm(h)'
  BY DEF RowsKept
<1>4. Before(u) \subseteq Hash /\ Range(ChunksOf[u]) \subseteq Hash
  BY <1>0, BeforeEnd
<1>5. at[u] <= Len(ChunksOf[u]) => Current(u) \in Hash
  BY <1>0, CurrentHash
<1>6. InInit(u) => \A h \in Before(u) : h \in DOMAIN draft'[u] \/ Firm(h)'
  BY <1>0, <1>1, <1>3, <1>4 DEF UploadSane
<1>7. pc[u] \in {"transfer", "increment"} => \A h \in Range(ChunksOf[u]) : Firm(h)'
  BY <1>0, <1>3, <1>4 DEF UploadSane
<1>8. ASSUME pc[u] = "refresh" PROVE \A h \in Hash : h = Current(u) => Live(h)'
  <2>1. AtChunk(u, "refresh") /\ Live(Current(u))
    BY <1>0, <1>8 DEF UploadSane, AtChunk
  <2> QED BY <1>0, <2>1 DEF SelectedKept, RowsKept
<1>9. ASSUME pc[u] = "insert" PROVE \A h \in Hash : h = Current(u) /\ h \in DOMAIN chunks' => Firm(h)'
  BY <1>0, <1>3, <1>9 DEF UploadSane, RowsKept
<1>10. Live(Current(u))' <=> \A h \in {Current(u)'} : Live(h)'
  BY DEF Live
<1>11. Firm(Current(u))' <=> \A h \in {Current(u)'} : Firm(h)'
  BY DEF Firm, Live
<1>12. pc'[u] = "refresh" => at'[u] <= Len(ChunksOf[u]) /\ Live(Current(u))'
  BY <1>0, <1>1, <1>2, <1>5, <1>8, <1>10 DEF UploadSane
<1>13. pc'[u] = "insert" => (Current(u)' \in DOMAIN chunks' => Firm(Current(u))')
  BY <1>0, <1>1, <1>2, <1>5, <1>9, <1>11 DEF UploadSane
<1> QED BY <1>0, <1>1, <1>2, <1>6, <1>7, <1>12, <1>13 DEF UploadSane

\* Nor is what a session has locked.
LEMMA OtherDrafts ==
  ASSUME TxnInv, NEW P, Others(P), RowsKept(P), NEW t \in Session \ P
  PROVE  DraftSane(t)'
<1>1. DraftSane(t) /\ pc'[t] = pc[t] /\ draft'[t] = draft[t]
  BY DEF TxnInv, Others
<1>2. Delta(t)' = Delta(t) /\ (InInit(t)' <=> InInit(t))
  BY <1>1 DEF Delta, InInit
<1>3. \A h \in DOMAIN draft[t] :
        /\ h \in DOMAIN chunks' <=> h \in DOMAIN chunks
        /\ h \in DOMAIN chunks => chunks'[h] = chunks[h]
  BY DEF RowsKept
<1> QED BY <1>1, <1>2, <1>3 DEF DraftSane

\* Nor is a delete: the file it deletes stays.
LEMMA OtherDeletes ==
  ASSUME TxnInv, SaneRequests, NEW P, Others(P), FilesKept(P), NEW d \in Delete \ P
  PROVE  DeleteSane(d)'
<1>1. DeleteSane(d) /\ d \in Session
  BY DEF TxnInv, Session
<1>2. pc'[d] = pc[d] /\ draft'[d] = draft[d] /\ todo'[d] = todo[d]
  BY <1>1 DEF Others
<1>3. \A f \in RowsNamed(NameOf[d]) : f \in RowsNamed(NameOf[d])' /\ files'[f] = files[f]
  BY DEF FilesKept, RowsNamed, SaneRequests
<1> QED BY <1>1, <1>2, <1>3 DEF DeleteSane

\* The files stay in order while none is added or removed.
LEMMA SameFiles ==
  ASSUME TxnInv, NEW P, Others(P), RowsKept(P), UNCHANGED files, \A t \in P : pc[t] # "done"
  PROVE  FilesSane' /\ FilesKept(P)
<1>1. \A f \in DOMAIN files : Range(files[f].chunks) \subseteq DOMAIN chunks'
  BY UsedRow DEF RowsKept
<1>2. \A f \in DOMAIN files : f \in Upload => pc'[f] = "done"
  BY DEF TxnInv, FilesSane, Others, Session
<1>3. FilesSane'
  BY <1>1, <1>2 DEF TxnInv, FilesSane
<1> QED BY <1>3 DEF FilesKept

\* Counts stay exact while neither they nor the files change.
LEMMA SameCounts ==
  ASSUME CountsExact, UNCHANGED files,
         \A h \in DOMAIN chunks' : h \in DOMAIN chunks /\ chunks'[h].ref_count = chunks[h].ref_count
  PROVE  CountsExact'
<1>1. \A h : Uses(h)' = Uses(h)
  BY DEF Uses
<1> QED BY <1>1 DEF CountsExact

\* The locks of the sessions outside P and those of p are apart.
LEMMA LocksKept ==
  ASSUME TxnInv, NEW p \in Session, Others({p}),
         \A h \in DOMAIN draft'[p] : h \in DOMAIN draft[p] \/ Free(h, p)
  PROVE  LocksExclusive'
<1>1. \A q \in Session \ {p} : draft'[q] = draft[q]
  BY DEF Others
<1>2. \A q \in Session \ {p} : DOMAIN draft'[p] \cap DOMAIN draft[q] = {}
  BY DEF TxnInv, LocksExclusive, Free
<1> QED BY <1>1, <1>2 DEF TxnInv, LocksExclusive

\* A session's COMMIT: what it has locked nobody else has, and no collector works on.
LEMMA PublishKept ==
  ASSUME TxnInv, NEW p \in Session, Publish(p),
         \A h \in DOMAIN draft[p] : draft[p][h].ref_count >= 0
  PROVE  RowsKept({p}) /\ RowsSane'
<1>0. TypeOK /\ DraftSane(p) /\ RowsSane /\ LocksExclusive
  BY DEF TxnInv, BatchInv
<1>1. /\ DOMAIN chunks' = DOMAIN draft[p] \cup DOMAIN chunks
      /\ \A h \in DOMAIN draft[p] : chunks'[h] = draft[p][h]
      /\ \A h \in DOMAIN chunks \ DOMAIN draft[p] : chunks'[h] = chunks[h]
  BY <1>0, PublishRows
<1>2. \A h \in DOMAIN draft[p] :
        /\ chunks'[h].ref_count >= 0
        /\ h \in DOMAIN chunks => /\ chunks'[h].nodes = chunks[h].nodes
                                  /\ chunks[h].fresh => chunks'[h].fresh
                                  /\ chunks[h].ref_count >= 0
        /\ h \notin DOMAIN chunks => chunks'[h].fresh /\ chunks'[h].nodes # {}
  BY <1>0, <1>1 DEF DraftSane
<1>3. \A h \in Hash : Firm(h) => Firm(h)'
  BY <1>1, <1>2 DEF Firm, Live
<1>4. \A h \in Hash : Live(h) => Live(h)'
  BY <1>1, <1>2 DEF Live
<1>5. \A h \in DOMAIN chunks : h \in DOMAIN chunks' /\ chunks'[h].nodes = chunks[h].nodes
  BY <1>1, <1>2
<1>6. \A h \in DOMAIN chunks' \ DOMAIN chunks : Firm(h)'
  BY <1>1, <1>2 DEF Firm, Live
<1>7. \A q \in Session \ {p} : \A h \in DOMAIN draft[q] :
       /\ h \in DOMAIN chunks' <=> h \in DOMAIN chunks
       /\ h \in DOMAIN chunks => chunks'[h] = chunks[h]
  BY <1>0, <1>1 DEF LocksExclusive
<1>8. RowsSane'
  <2>1. \A h \in DOMAIN draft[p] : chunks'[h].ref_count \in Int
    BY <1>0, <1>1 DEF TypeOK, IsTable, Row
  <2> QED BY <1>0, <1>1, <1>2, <2>1 DEF RowsSane
<1> QED BY <1>3, <1>4, <1>5, <1>6, <1>7, <1>8 DEF RowsKept

\* A COMMIT changes no tombstoned row, as nobody has one locked.
LEMMA SessionBatches ==
  ASSUME TxnInv, NEW p \in Session, UNCHANGED chunks \/ Publish(p),
         \A c \in Collector : pc'[c] = pc[c] /\ todo'[c] = todo[c] /\ purged'[c] = purged[c]
  PROVE  BatchesTombstoned'
<1>1. \A h : Tombstoned(h) => Tombstoned(h)'
  <2>1. CASE UNCHANGED chunks
    BY <2>1 DEF Tombstoned
  <2>2. CASE Publish(p)
    <3>1. \A h : Tombstoned(h) => h \notin DOMAIN draft[p]
      BY DEF TxnInv, DraftSane, Tombstoned
    <3>2. /\ DOMAIN chunks' = DOMAIN draft[p] \cup DOMAIN chunks
          /\ \A h \in DOMAIN chunks \ DOMAIN draft[p] : chunks'[h] = chunks[h]
      BY <2>2, PublishRows DEF TxnInv, BatchInv
    <3> QED BY <3>1, <3>2 DEF Tombstoned
  <2> QED BY <2>1, <2>2
<1> QED BY <1>1 DEF TxnInv, BatchesTombstoned

-----------------------------------------------------------------------------
(* Steps preserve the invariant of the counts: the sessions.               *)

\* The parts of the next state: those of the acting sessions, and of the others.
LEMMA Assemble ==
  ASSUME TxnInv, SaneRequests, SelectedKept, BatchInv', NEW P \in SUBSET Session,
         Others(P), RowsKept(P), FilesKept(P),
         RowsSane', LocksExclusive', FilesSane', CountsExact', BatchesTombstoned',
         \A t \in P : DraftSane(t)',
         \A u \in Upload \cap P : UploadSane(u)',
         \A d \in Delete \cap P : DeleteSane(d)'
  PROVE  TxnInv'
<1>1. \A t \in Session : DraftSane(t)'
  BY OtherDrafts
<1>2. \A u \in Upload : UploadSane(u)'
  BY OtherUploads
<1>3. \A d \in Delete : DeleteSane(d)'
  BY OtherDeletes
<1> QED BY <1>1, <1>2, <1>3 DEF TxnInv

\* A step of a session leaves the other sessions where they are.
LEMMA SessionAlone ==
  ASSUME TypeOK, NEW p \in Session,
         Abort(p) \/ (p \in Upload /\ UploadStep(p)) \/ (p \in Delete /\ DeleteStep(p))
  PROVE  Others({p})
<1>0. /\ \A q \in Session : q \in Process /\ (q \in Upload \/ q \in Delete)
      /\ \A u \in Upload, d \in Delete : u # d
  BY TxnAssumption DEF Process, Session
<1>1. CASE Abort(p)
  BY <1>0, <1>1, AbortLocks DEF Abort, Goto, TypeOK, Others, Session
<1>2. CASE p \in Upload /\ UploadStep(p)
  <2>1. \A q \in Session \ {p} : pc'[q] = pc[q]
    BY <1>0, <1>2 DEF UploadStep, Select, Insert, Refresh, CommitInit, Transfer, Increment,
       CommitUpload, Goto, TypeOK
  <2>2. \A q \in Session \ {p} : draft'[q] = draft[q]
    BY <1>0, <1>2 DEF UploadStep, Select, Insert, Refresh, CommitInit, Transfer, Increment,
       CommitUpload, UpdateRow, Put, Publish, Rollback, TypeOK
  <2>3. UNCHANGED todo /\ \A u \in Upload \ {p} : at'[u] = at[u] /\ read'[u] = read[u]
    BY <1>0, <1>2 DEF UploadStep, Select, Insert, Refresh, CommitInit, Transfer, Increment,
       CommitUpload, Advance, TypeOK
  <2>4. \A u \in Upload \ {p} : plan'[u] = plan[u]
    BY <1>0, <1>2 DEF UploadStep, Select, Insert, Refresh, CommitInit, Transfer, Increment,
       CommitUpload, PlanFor, TypeOK
  <2> QED BY <2>1, <2>2, <2>3, <2>4 DEF Others
<1>3. CASE p \in Delete /\ DeleteStep(p)
  <2>1. \A q \in Session \ {p} : pc'[q] = pc[q]
    BY <1>0, <1>3 DEF DeleteStep, SelectFile, Decrement, CommitDelete, Goto, TypeOK
  <2>2. \A q \in Session \ {p} : draft'[q] = draft[q]
    BY <1>0, <1>3 DEF DeleteStep, SelectFile, Decrement, CommitDelete, UpdateRow, Put, Publish, TypeOK
  <2>3. UNCHANGED <<at, read, plan>> /\ \A d \in Delete \ {p} : todo'[d] = todo[d]
    BY <1>0, <1>3 DEF DeleteStep, SelectFile, Decrement, CommitDelete, TypeOK
  <2> QED BY <2>1, <2>2, <2>3 DEF Others
<1> QED BY <1>1, <1>2, <1>3

\* A step of a session that is not a COMMIT.
LEMMA QuietSession ==
  ASSUME TxnInv, SaneRequests, SelectedKept, BatchInv', NEW p \in Session, pc[p] # "done",
         Abort(p) \/ (p \in Upload /\ UploadStep(p)) \/ (p \in Delete /\ DeleteStep(p)),
         UNCHANGED <<chunks, files>>,
         \A h \in DOMAIN draft'[p] : h \in DOMAIN draft[p] \/ Free(h, p),
         DraftSane(p)', p \in Upload => UploadSane(p)', p \in Delete => DeleteSane(p)'
  PROVE  TxnInv'
<1>0. TypeOK /\ RowsSane /\ CountsExact
  BY DEF TxnInv, BatchInv
<1>1. Others({p}) /\ RowsKept({p})
  BY <1>0, SessionAlone, SameRows
<1>2. LocksExclusive'
  BY <1>1, LocksKept
<1>3. FilesSane' /\ FilesKept({p})
  BY <1>1, SameFiles
<1>4. CountsExact' /\ RowsSane'
  BY <1>0, SameCounts DEF RowsSane
<1>5. BatchesTombstoned'
  BY <1>0, BatchesKept, SessionBatches
<1> QED BY <1>1, <1>2, <1>3, <1>4, <1>5, Assemble

\* An abort preserves the invariant.
LEMMA AbortCounts ==
  ASSUME TxnInv, SaneRequests, SelectedKept, BatchInv', NEW p \in Session, Abort(p)
  PROVE  TxnInv'
<1>0. TypeOK /\ pc[p] # "done" /\ p \in Process
  BY DEF TxnInv, BatchInv, Abort, Process
<1>1. DOMAIN draft'[p] = {} /\ pc'[p] = "failed" /\ UNCHANGED <<chunks, files>>
  BY <1>0, AbortLocks DEF Abort, Goto, TypeOK
<1>2. DraftSane(p)'
  BY <1>1 DEF DraftSane
<1>3. p \in Upload => UploadSane(p)'
  BY <1>1 DEF UploadSane, InInit
<1>4. p \in Delete => DeleteSane(p)'
  BY <1>1 DEF DeleteSane
<1> QED BY <1>0, <1>1, <1>2, <1>3, <1>4, QuietSession

\* A session writes a row it did not have.
LEMMA PutDraft ==
  ASSUME TxnInv, NEW t \in Session, NEW h \in Hash, NEW row \in Row, Put(t, h, row),
         UNCHANGED chunks, Delta(t)' = Delta(t), InInit(t)' <=> InInit(t),
         h \in DOMAIN chunks =>
           /\ chunks[h].ref_count >= 0
           /\ row.nodes = chunks[h].nodes
           /\ row.ref_count = chunks[h].ref_count + Delta(t)
           /\ row.fresh <=> t \in Upload \/ chunks[h].fresh,
         h \notin DOMAIN chunks =>
           t \in Upload /\ InInit(t) /\ row.nodes # {} /\ row.ref_count = 0 /\ row.fresh
  PROVE  DraftSane(t)'
<1>1. /\ DOMAIN draft'[t] = DOMAIN draft[t] \cup {h}
      /\ draft'[t][h] = row
      /\ \A x \in DOMAIN draft[t] \ {h} : draft'[t][x] = draft[t][x]
  BY PutRow DEF TxnInv, BatchInv
<1>2. DraftSane(t)
  BY DEF TxnInv
<1> QED BY <1>1, <1>2 DEF DraftSane

\* The SELECT of an upload-init preserves it.
LEMMA SelectCounts ==
  ASSUME TxnInv, SaneRequests, SelectedKept, BatchInv', NEW u \in Upload, Select(u)
  PROVE  TxnInv'
<1>0. /\ TypeOK /\ UploadSane(u) /\ DraftSane(u) /\ RowsSane
      /\ u \in Session /\ u \in Process /\ u \notin Delete /\ UploadStep(u)
  BY TxnAssumption DEF TxnInv, BatchInv, Session, Process, UploadStep
<1>1. /\ pc[u] = "select" /\ at[u] <= Len(ChunksOf[u]) /\ Current(u) \in Hash
      /\ UNCHANGED <<chunks, files, at>>
  BY <1>0, SelectRead
<1>2. CASE Abort(u)
  BY <1>0, <1>2, AbortCounts
<1>3. CASE ~Abort(u)
  <2>1. UNCHANGED draft /\ InInit(u) /\ InInit(u)' /\ pc'[u] \in {"insert", "refresh"}
    BY <1>0, <1>1, <1>3, SelectRead DEF InInit, Goto, TypeOK
  <2>2. Delta(u)' = Delta(u)
    BY <1>0, <1>1, <2>1 DEF Delta
  <2>3. DraftSane(u)'
    BY <1>0, <1>1, <2>1, <2>2 DEF DraftSane
  <2>4. Before(u)' = Before(u) /\ Current(u)' = Current(u)
    BY <1>1 DEF Before, Current
  <2>5. \A h : (Firm(h)' <=> Firm(h)) /\ (Live(h)' <=> Live(h))
    BY <1>1 DEF Firm, Live
  <2>6. pc'[u] = "insert" => /\ Current(u) \notin DOMAIN chunks
                             /\ read'[u].nodes # {} /\ read'[u].ref_count = 0 /\ read'[u].fresh
    <3>1. HAVE pc'[u] = "insert"
    <3>2. ~Goto(u, "refresh")
      BY <1>0, <3>1 DEF Goto, TypeOK
    <3>3. /\ Current(u) \notin DOMAIN chunks /\ route \in (SUBSET Node) \ {{}}
          /\ read' = [read EXCEPT ![u] = ARow(route, 0, TRUE)]
      BY <1>0, <1>3, <3>2, SelectRead
    <3>4. read'[u] = ARow(route, 0, TRUE)
      BY <1>0, <3>3 DEF TypeOK
    <3> QED BY <3>3, <3>4 DEF ARow
  <2>7. pc'[u] = "refresh" => Live(Current(u))
    <3>1. HAVE pc'[u] = "refresh"
    <3>2. ~Goto(u, "insert")
      BY <1>0, <3>1 DEF Goto, TypeOK
    <3>3. Current(u) \in DOMAIN Visible(u) /\ Visible(u)[Current(u)].ref_count # -1
      BY <1>0, <1>3, <3>2, SelectRead
    <3>4. Current(u) \notin DOMAIN draft[u]
      BY <1>0, <1>1, <2>1, BeforeNext DEF UploadSane
    <3>5. Current(u) \in DOMAIN chunks /\ chunks[Current(u)].ref_count # -1
      BY <1>0, <3>3, <3>4, VisibleRows
    <3>6. chunks[Current(u)].ref_count \in Int
      BY <1>0, <3>5 DEF TypeOK, IsTable, Row
    <3> QED BY <1>0, <3>5, <3>6 DEF RowsSane, Live
  <2>8. UploadSane(u)'
    <3>1. Current(u)' \in DOMAIN chunks' <=> Current(u) \in DOMAIN chunks
      BY <1>1, <2>4
    <3>2. Live(Current(u))' <=> Live(Current(u))
      BY <1>1, <2>4 DEF Live
    <3> QED BY <1>0, <1>1, <2>1, <2>4, <2>5, <2>6, <2>7, <3>1, <3>2 DEF UploadSane
  <2> QED BY <1>0, <1>1, <2>1, <2>3, <2>8, QuietSession
<1> QED BY <1>2, <1>3

\* What an upload's loop claims: one more chunk.
LEMMA ClaimNext ==
  ASSUME TxnInv, SaneRequests, NEW u \in Upload, InInit(u), at[u] <= Len(ChunksOf[u]),
         at'[u] = at[u] + 1, pc'[u] = "select", UNCHANGED chunks,
         \/ draft'[u] = draft[u] /\ Firm(Current(u))
         \/ DOMAIN draft'[u] = DOMAIN draft[u] \cup {Current(u)}
  PROVE  UploadSane(u)'
<1>1. TypeOK /\ UploadSane(u)
  BY DEF TxnInv, BatchInv
<1>2. Before(u)' = Before(u) \cup {Current(u)}
  BY <1>1, BeforeNext
<1>3. \A h : Firm(h)' <=> Firm(h)
  BY DEF Firm, Live
<1>4. DOMAIN draft'[u] \subseteq Before(u)'
  BY <1>1, <1>2 DEF UploadSane
<1>5. \A h \in Before(u)' : h \in DOMAIN draft'[u] \/ Firm(h)'
  BY <1>1, <1>2, <1>3 DEF UploadSane
<1> QED BY <1>4, <1>5 DEF UploadSane, InInit

\* INSERT .. ON CONFLICT DO NOTHING preserves it.
LEMMA InsertCounts ==
  ASSUME TxnInv, SaneRequests, SelectedKept, BatchInv', NEW u \in Upload, Insert(u)
  PROVE  TxnInv'
<1>0. /\ TypeOK /\ UploadSane(u) /\ DraftSane(u)
      /\ u \in Session /\ u \in Process /\ u \notin Delete /\ UploadStep(u)
  BY TxnAssumption DEF TxnInv, BatchInv, Session, Process, UploadStep
<1>1. /\ pc[u] = "insert" /\ at[u] <= Len(ChunksOf[u]) /\ Current(u) \in Hash
      /\ UNCHANGED <<chunks, files>> /\ at'[u] = at[u] + 1 /\ pc'[u] = "select"
  BY <1>0, CurrentHash DEF Insert, AtChunk, Advance, Goto, TypeOK
<1>2. InInit(u) /\ InInit(u)' /\ Delta(u)' = Delta(u)
  BY <1>0, <1>1 DEF InInit, Delta
<1>3. CASE Current(u) \in DOMAIN chunks /\ UNCHANGED draft
  <2>1. Firm(Current(u))
    BY <1>0, <1>1, <1>3 DEF UploadSane
  <2>2. UploadSane(u)'
    BY <1>1, <1>2, <1>3, <2>1, ClaimNext
  <2>3. DraftSane(u)'
    BY <1>0, <1>1, <1>2, <1>3 DEF DraftSane
  <2> QED BY <1>0, <1>1, <1>3, <2>2, <2>3, QuietSession
<1>4. CASE Current(u) \notin DOMAIN chunks /\ Free(Current(u), u) /\ Put(u, Current(u), read[u])
  <2>1. read[u] \in Row /\ read[u].nodes # {} /\ read[u].ref_count = 0 /\ read[u].fresh
    BY <1>0, <1>1 DEF UploadSane, TypeOK
  <2>2. DOMAIN draft'[u] = DOMAIN draft[u] \cup {Current(u)}
    BY <1>0, <1>1, <1>4, <2>1, PutRow
  <2>3. UploadSane(u)'
    BY <1>1, <1>2, <2>2, ClaimNext
  <2>4. DraftSane(u)'
    BY <1>0, <1>1, <1>2, <1>4, <2>1, PutDraft
  <2> QED BY <1>0, <1>1, <1>4, <2>2, <2>3, <2>4, QuietSession
<1> QED BY <1>3, <1>4 DEF Insert

\* UPDATE .. SET created_at preserves it: the row it selected is still live.
LEMMA RefreshCounts ==
  ASSUME TxnInv, SaneRequests, SelectedKept, BatchInv', NEW u \in Upload, Refresh(u)
  PROVE  TxnInv'
<1>0. /\ TypeOK /\ UploadSane(u)
      /\ u \in Session /\ u \in Process /\ u \notin Delete /\ UploadStep(u)
  BY TxnAssumption DEF TxnInv, BatchInv, Session, Process, UploadStep
<1>1. /\ pc[u] = "refresh" /\ at[u] <= Len(ChunksOf[u]) /\ Current(u) \in Hash
      /\ UNCHANGED <<chunks, files>> /\ at'[u] = at[u] + 1 /\ pc'[u] = "select"
  BY <1>0, CurrentHash DEF Refresh, AtChunk, Advance, Goto, TypeOK
<1>2. InInit(u) /\ InInit(u)' /\ Delta(u)' = Delta(u) /\ Delta(u) = 0
  BY <1>0, <1>1 DEF InInit, Delta
<1>3. Live(Current(u)) /\ Current(u) \notin DOMAIN draft[u]
  BY <1>0, <1>1, <1>2, BeforeNext DEF UploadSane
<1>4. Visible(u)[Current(u)] = chunks[Current(u)] /\ Current(u) \in DOMAIN chunks
  BY <1>0, <1>3, VisibleRows DEF Live
<1>5. PICK row \in Row : /\ row = ARow(chunks[Current(u)].nodes, chunks[Current(u)].ref_count, TRUE)
                         /\ Free(Current(u), u) /\ Put(u, Current(u), row)
  BY <1>0, <1>3, <1>4, RefreshWrites
<1>6. DOMAIN draft'[u] = DOMAIN draft[u] \cup {Current(u)}
  BY <1>0, <1>1, <1>5, PutRow
<1>7. UploadSane(u)'
  BY <1>1, <1>2, <1>6, ClaimNext
<1>8. chunks[Current(u)].ref_count \in Int
  BY <1>0, <1>4 DEF TypeOK, IsTable, Row
<1>9. /\ row.nodes = chunks[Current(u)].nodes /\ row.fresh
      /\ row.ref_count = chunks[Current(u)].ref_count + Delta(u)
  BY <1>2, <1>5, <1>8 DEF ARow
<1>10. DraftSane(u)'
  BY <1>0, <1>1, <1>2, <1>3, <1>4, <1>5, <1>9, PutDraft DEF Live
<1> QED BY <1>0, <1>1, <1>5, <1>6, <1>7, <1>10, QuietSession

\* A transfer preserves it.
LEMMA TransferCounts ==
  ASSUME TxnInv, SaneRequests, SelectedKept, BatchInv', NEW u \in Upload, Transfer(u)
  PROVE  TxnInv'
<1>0. /\ TypeOK /\ TypeOK' /\ UploadSane(u)
      /\ u \in Session /\ u \in Process /\ u \notin Delete /\ UploadStep(u)
  BY TxnAssumption DEF TxnInv, BatchInv, Session, Process, UploadStep
<1>1. /\ pc[u] = "transfer" /\ UNCHANGED <<chunks, files, draft>>
      /\ at'[u] = 1 /\ pc'[u] = "increment"
  BY <1>0 DEF Transfer, Goto, TypeOK
<1>2. DOMAIN draft'[u] = {} /\ \A h \in Range(ChunksOf[u]) : Firm(h)
  BY <1>0, <1>1 DEF UploadSane
<1>3. Before(u)' = {}
  <2>1. ChunksOf[u] \in Seq(Hash)
    BY TxnAssumption
  <2>2. \A j \in DOMAIN ChunksOf[u] : j \in Nat /\ ~(j < 1)
    BY <2>1
  <2> QED BY <1>1, <2>2 DEF Before
<1>4. \A h : Firm(h)' <=> Firm(h)
  BY <1>1 DEF Firm, Live
<1>5. UploadSane(u)'
  BY <1>1, <1>2, <1>3, <1>4 DEF UploadSane, InInit
<1>6. DraftSane(u)'
  BY <1>2 DEF DraftSane
<1> QED BY <1>0, <1>1, <1>2, <1>5, <1>6, QuietSession

\* The UPDATEs of CommitFile preserve it.
LEMMA IncrementCounts ==
  ASSUME TxnInv, SaneRequests, SelectedKept, BatchInv', NEW u \in Upload, Increment(u)
  PROVE  TxnInv'
<1>0. /\ TypeOK /\ UploadSane(u)
      /\ u \in Session /\ u \in Process /\ u \notin Delete /\ UploadStep(u)
  BY TxnAssumption DEF TxnInv, BatchInv, Session, Process, UploadStep
<1>1. /\ pc[u] = "increment" /\ at[u] <= Len(ChunksOf[u]) /\ Current(u) \in Hash
      /\ UNCHANGED <<chunks, files, pc>> /\ at'[u] = at[u] + 1
  BY <1>0, CurrentHash DEF Increment, AtChunk, Advance, TypeOK
<1>2. ~InInit(u) /\ ~InInit(u)' /\ Delta(u)' = Delta(u) /\ Delta(u) = 1
  BY <1>0, <1>1 DEF InInit, Delta
<1>3. Firm(Current(u)) /\ Current(u) \notin DOMAIN draft[u] /\ Before(u)' = Before(u) \cup {Current(u)}
  BY <1>0, <1>1, <1>2, BeforeNext DEF UploadSane
<1>4. Visible(u)[Current(u)] = chunks[Current(u)] /\ Current(u) \in DOMAIN chunks
  BY <1>0, <1>3, VisibleRows DEF Firm, Live
<1>5. PICK row \in Row : /\ row = ARow(chunks[Current(u)].nodes, chunks[Current(u)].ref_count + 1, TRUE)
                         /\ Free(Current(u), u) /\ Put(u, Current(u), row)
  BY <1>0, <1>3, <1>4, IncrementWrites
<1>6. DOMAIN draft'[u] = DOMAIN draft[u] \cup {Current(u)}
  BY <1>0, <1>1, <1>5, PutRow
<1>7. UploadSane(u)'
  <2>1. \A h : Firm(h)' <=> Firm(h)
    BY <1>1 DEF Firm, Live
  <2> QED BY <1>0, <1>1, <1>2, <1>3, <1>6, <2>1 DEF UploadSane
<1>8. /\ row.nodes = chunks[Current(u)].nodes /\ row.fresh
      /\ row.ref_count = chunks[Current(u)].ref_count + Delta(u)
  BY <1>2, <1>5 DEF ARow
<1>9. DraftSane(u)'
  BY <1>0, <1>1, <1>2, <1>3, <1>4, <1>5, <1>8, PutDraft DEF Firm, Live
<1> QED BY <1>0, <1>1, <1>5, <1>6, <1>7, <1>9, QuietSession

\* The SELECT of DeleteFile preserves it.
LEMMA SelectFileCounts ==
  ASSUME TxnInv, SaneRequests, SelectedKept, BatchInv', NEW d \in Delete, SelectFile(d)
  PROVE  TxnInv'
<1>0. /\ TypeOK /\ DeleteSane(d)
      /\ d \in Session /\ d \in Process /\ d \notin Upload /\ DeleteStep(d)
  BY TxnAssumption DEF TxnInv, BatchInv, Session, Process, DeleteStep
<1>1. pc[d] = "select" /\ UNCHANGED <<chunks, files, draft>> /\ DOMAIN draft[d] = {}
  BY <1>0 DEF SelectFile, DeleteSane
<1>2. DraftSane(d)'
  BY <1>1 DEF DraftSane
<1>3. DeleteSane(d)'
  <2>1. CASE Goto(d, "done")
    BY <1>0, <1>1, <2>1 DEF Goto, TypeOK, DeleteSane
  <2>2. CASE ~Goto(d, "done")
    <3>1. PICK f \in RowsNamed(NameOf[d]) :
            todo' = [todo EXCEPT ![d] = Range(files[f].chunks)] /\ Goto(d, "decrement")
      BY <2>2 DEF SelectFile
    <3>2. todo'[d] = Range(files[f].chunks) /\ pc'[d] = "decrement"
      BY <1>0, <3>1 DEF Goto, TypeOK
    <3>3. f \in RowsNamed(NameOf[d])' /\ files'[f] = files[f]
      BY <1>1 DEF RowsNamed
    <3> QED BY <1>1, <3>2, <3>3 DEF DeleteSane
  <2> QED BY <2>1, <2>2
<1> QED BY <1>0, <1>1, <1>2, <1>3, QuietSession

\* The UPDATE of DeleteFile preserves it, row by row.
LEMMA DecrementCounts ==
  ASSUME TxnInv, SaneRequests, SelectedKept, BatchInv',
         NEW d \in Delete, NEW h \in Hash, Decrement(d, h)
  PROVE  TxnInv'
<1>0. /\ TypeOK /\ DeleteSane(d)
      /\ d \in Session /\ d \in Process /\ d \notin Upload /\ DeleteStep(d)
  BY TxnAssumption DEF TxnInv, BatchInv, Session, Process, DeleteStep
<1>1. /\ pc[d] = "decrement" /\ h \in todo[d]
      /\ UNCHANGED <<chunks, files, pc>> /\ todo'[d] = todo[d] \ {h}
  BY <1>0 DEF Decrement, TypeOK
<1>2. PICK f \in RowsNamed(NameOf[d]) :
        todo[d] \subseteq Range(files[f].chunks) /\ DOMAIN draft[d] = Range(files[f].chunks) \ todo[d]
  BY <1>0, <1>1 DEF DeleteSane
<1>3. f \in DOMAIN files /\ h \in Range(files[f].chunks) /\ h \notin DOMAIN draft[d]
  BY <1>1, <1>2 DEF RowsNamed
<1>4. h \in DOMAIN chunks /\ Live(h)
  BY <1>3, UsedRow
<1>5. Visible(d)[h] = chunks[h]
  BY <1>0, <1>3, <1>4, VisibleRows
<1>6. PICK row \in Row : /\ row = ARow(chunks[h].nodes, chunks[h].ref_count - 1, chunks[h].fresh)
                         /\ Free(h, d) /\ Put(d, h, row)
  BY <1>0, <1>4, <1>5, DecrementWrites
<1>7. DOMAIN draft'[d] = DOMAIN draft[d] \cup {h}
  BY <1>0, <1>6, PutRow
<1>8. DeleteSane(d)'
  <2>1. f \in RowsNamed(NameOf[d])' /\ files'[f] = files[f]
    BY <1>1, <1>2 DEF RowsNamed
  <2>2. DOMAIN draft'[d] = Range(files[f].chunks) \ todo'[d]
    BY <1>1, <1>2, <1>3, <1>7
  <2> QED BY <1>1, <1>2, <2>1, <2>2 DEF DeleteSane
<1>9. Delta(d)' = Delta(d) /\ Delta(d) = -1 /\ (InInit(d)' <=> InInit(d))
  BY <1>1 DEF Delta, InInit
<1>10. chunks[h].ref_count \in Int
  BY <1>0, <1>4 DEF TypeOK, IsTable, Row
<1>11. /\ row.nodes = chunks[h].nodes /\ row.fresh = chunks[h].fresh
       /\ row.ref_count = chunks[h].ref_count + Delta(d)
  BY <1>6, <1>9, <1>10 DEF ARow
<1>12. DraftSane(d)'
  BY <1>0, <1>1, <1>4, <1>6, <1>9, <1>11, PutDraft DEF Live
<1> QED BY <1>0, <1>1, <1>6, <1>7, <1>8, <1>12, QuietSession

\* A chunk without a row is used by no file.
LEMMA UnusedRow ==
  ASSUME TxnInv, NEW h, h \notin DOMAIN chunks
  PROVE  Uses(h) = 0
<1>1. {f \in DOMAIN files : h \in Range(files[f].chunks)} = {}
  BY UsedRow
<1> QED BY <1>1, FS_EmptySet DEF Uses

\* A COMMIT.
LEMMA PublishSession ==
  ASSUME TxnInv, SaneRequests, SelectedKept, BatchInv', NEW p \in Session, pc[p] # "done",
         (p \in Upload /\ UploadStep(p)) \/ (p \in Delete /\ DeleteStep(p)),
         Publish(p), RowsKept({p}), RowsSane', FilesSane', FilesKept({p}), CountsExact',
         p \in Upload => UploadSane(p)', p \in Delete => DeleteSane(p)'
  PROVE  TxnInv'
<1>0. TypeOK
  BY DEF TxnInv, BatchInv
<1>1. Others({p})
  BY <1>0, SessionAlone
<1>2. DOMAIN draft'[p] = {}
  BY <1>0, PublishRows
<1>3. LocksExclusive' /\ DraftSane(p)'
  BY <1>1, <1>2, LocksKept DEF DraftSane
<1>4. BatchesTombstoned'
  BY <1>0, BatchesKept, SessionBatches
<1> QED BY <1>1, <1>3, <1>4, Assemble

\* The COMMIT of an upload-init preserves it: new rows count nothing.
LEMMA CommitInitCounts ==
  ASSUME TxnInv, SaneRequests, SelectedKept, BatchInv', NEW u \in Upload, CommitInit(u)
  PROVE  TxnInv'
<1>0. /\ TypeOK /\ UploadSane(u) /\ DraftSane(u)
      /\ u \in Session /\ u \in Process /\ u \notin Delete /\ UploadStep(u)
  BY TxnAssumption DEF TxnInv, BatchInv, Session, Process, UploadStep
<1>1. /\ pc[u] = "select" /\ pc'[u] = "transfer" /\ at[u] > Len(ChunksOf[u])
      /\ Publish(u) /\ UNCHANGED files /\ InInit(u) /\ Delta(u) = 0
  BY <1>0 DEF CommitInit, Goto, TypeOK, InInit, Delta
<1>2. \A h \in DOMAIN chunks : chunks[h].ref_count \in Int
  BY <1>0 DEF TypeOK, IsTable, Row
<1>3. \A h \in DOMAIN draft[u] :
        /\ draft[u][h].ref_count >= 0 /\ draft[u][h].fresh
        /\ h \in DOMAIN chunks => draft[u][h].ref_count = chunks[h].ref_count
        /\ h \notin DOMAIN chunks => draft[u][h].ref_count = 0
  BY <1>0, <1>1, <1>2 DEF DraftSane
<1>4. RowsKept({u}) /\ RowsSane'
  BY <1>0, <1>1, <1>3, PublishKept
<1>5. Others({u})
  BY <1>0, SessionAlone
<1>6. FilesSane' /\ FilesKept({u})
  BY <1>1, <1>4, <1>5, SameFiles
<1>7. /\ DOMAIN chunks' = DOMAIN draft[u] \cup DOMAIN chunks
      /\ \A h \in DOMAIN draft[u] : chunks'[h] = draft[u][h]
      /\ \A h \in DOMAIN chunks \ DOMAIN draft[u] : chunks'[h] = chunks[h]
      /\ DOMAIN draft'[u] = {}
  BY <1>0, <1>1, PublishRows
<1>8. CountsExact'
  <2>1. \A h : Uses(h)' = Uses(h)
    BY <1>1 DEF Uses
  <2>2. \A h \in DOMAIN chunks' \ DOMAIN chunks : chunks'[h].ref_count = 0 /\ Uses(h) = 0
    BY <1>3, <1>7, UnusedRow
  <2>3. \A h \in DOMAIN chunks : chunks'[h].ref_count = chunks[h].ref_count
    BY <1>3, <1>7
  <2>4. CountsExact
    BY DEF TxnInv
  <2> QED BY <2>1, <2>2, <2>3, <2>4 DEF CountsExact
<1>9. UploadSane(u)'
  <2>1. Before(u) = Range(ChunksOf[u]) /\ Range(ChunksOf[u]) \subseteq Hash
    BY <1>0, <1>1, BeforeEnd
  <2>2. \A h \in DOMAIN draft[u] : Firm(h)'
    BY <1>3, <1>7 DEF Firm, Live
  <2>3. \A h \in Range(ChunksOf[u]) : Firm(h)'
    BY <1>0, <1>1, <1>4, <2>1, <2>2 DEF UploadSane, RowsKept
  <2> QED BY <1>1, <1>7, <2>3 DEF UploadSane, InInit
<1> QED BY <1>0, <1>1, <1>4, <1>6, <1>8, <1>9, PublishSession

\* The COMMIT of CommitFile preserves it: one more file uses each chunk counted.
LEMMA CommitUploadCounts ==
  ASSUME TxnInv, SaneRequests, SelectedKept, BatchInv', NEW u \in Upload, CommitUpload(u)
  PROVE  TxnInv'
<1>0. /\ TypeOK /\ UploadSane(u) /\ DraftSane(u) /\ FilesSane /\ CountsExact
      /\ u \in Session /\ u \in Process /\ u \notin Delete /\ UploadStep(u)
  BY TxnAssumption DEF TxnInv, BatchInv, Session, Process, UploadStep
<1>1. /\ pc[u] = "increment" /\ pc'[u] = "done" /\ at[u] > Len(ChunksOf[u])
      /\ Publish(u) /\ Delta(u) = 1 /\ ~InInit(u)
  BY <1>0 DEF CommitUpload, Goto, TypeOK, InInit, Delta
<1>2. \A h \in DOMAIN chunks : chunks[h].ref_count \in Int
  BY <1>0 DEF TypeOK, IsTable, Row
<1>3. /\ DOMAIN draft[u] = Range(ChunksOf[u])
      /\ \A h \in DOMAIN draft[u] :
           /\ h \in DOMAIN chunks /\ chunks[h].ref_count >= 0
           /\ draft[u][h].ref_count = chunks[h].ref_count + 1
  BY <1>0, <1>1, BeforeEnd DEF DraftSane, UploadSane
<1>4. RowsKept({u}) /\ RowsSane'
  BY <1>0, <1>1, <1>2, <1>3, PublishKept
<1>5. Others({u})
  BY <1>0, SessionAlone
<1>6. /\ DOMAIN files' = DOMAIN files \cup {u}
      /\ files'[u].name = NameOf[u] /\ files'[u].chunks = ChunksOf[u]
      /\ \A f \in DOMAIN files \ {u} : files'[f] = files[f]
  BY UploadedFile
<1>7. u \notin DOMAIN files
  BY <1>0, <1>1 DEF FilesSane
<1>8. FilesKept({u})
  BY <1>6, <1>7 DEF FilesKept
<1>9. /\ DOMAIN chunks' = DOMAIN chunks
      /\ \A h \in DOMAIN draft[u] : chunks'[h] = draft[u][h]
      /\ \A h \in DOMAIN chunks \ DOMAIN draft[u] : chunks'[h] = chunks[h]
      /\ DOMAIN draft'[u] = {}
  BY <1>0, <1>1, <1>3, PublishRows
<1>10. FilesSane'
  <2>1. IsFiniteSet(DOMAIN files')
    BY <1>0, <1>6, FS_AddElement DEF FilesSane
  <2>2. \A f \in DOMAIN files' : Range(files'[f].chunks) \subseteq DOMAIN chunks'
    BY <1>0, <1>3, <1>6, <1>7, <1>9 DEF FilesSane
  <2>3. \A f \in DOMAIN files : f \in Upload => pc'[f] = "done" /\ files'[f].name = NameOf[f]
    BY <1>0, <1>5, <1>6, <1>7 DEF FilesSane, Others, Session
  <2>4. \A f \in DOMAIN files : f \notin Upload => \A v \in Upload : files'[f].name # NameOf[v]
    BY <1>0, <1>6, <1>7 DEF FilesSane
  <2>5. \A f \in DOMAIN files : files'[f].name # NameOf[u]
    BY <1>7, <2>3, <2>4 DEF SaneRequests
  <2>6. \A f, g \in DOMAIN files : files'[f].name = files'[g].name => f = g
    BY <1>0, <1>6, <1>7 DEF FilesSane
  <2> QED BY <1>1, <1>6, <2>1, <2>2, <2>3, <2>4, <2>5, <2>6 DEF FilesSane
<1>11. CountsExact'
  <2>1. SUFFICES ASSUME NEW h \in DOMAIN chunks
                 PROVE  IF chunks'[h].ref_count = -1 THEN Uses(h)' = 0 ELSE chunks'[h].ref_count = Uses(h)'
    BY <1>9 DEF CountsExact
  <2> DEFINE old == {f \in DOMAIN files : h \in Range(files[f].chunks)}
             new == {f \in DOMAIN files' : h \in Range(files'[f].chunks)}
  <2>2. Uses(h) = Cardinality(old) /\ Uses(h)' = Cardinality(new)
    BY DEF Uses
  <2>3. IsFiniteSet(old)
    BY <1>0, FS_Subset DEF FilesSane
  <2>4. u \notin old
    BY <1>7
  <2>5. CASE h \in DOMAIN draft[u]
    <3>1. new = old \cup {u}
      BY <1>3, <1>6, <1>7, <2>5
    <3> HIDE DEF old, new
    <3>2. Cardinality(new) = Cardinality(old) + 1 /\ Cardinality(old) \in Nat
      BY <2>3, <2>4, <3>1, FS_AddElement, FS_CardinalityType
    <3>3. chunks[h].ref_count = Uses(h)
      BY <1>0, <1>3, <2>5 DEF CountsExact
    <3> QED BY <1>3, <1>9, <2>2, <2>5, <3>2, <3>3
  <2>6. CASE h \notin DOMAIN draft[u]
    <3>1. new = old
      BY <1>3, <1>6, <1>7, <2>6
    <3> QED BY <1>0, <1>9, <2>2, <2>6, <3>1 DEF CountsExact
  <2> QED BY <2>5, <2>6
<1>12. UploadSane(u)'
  BY <1>1, <1>9 DEF UploadSane, InInit
<1> QED BY <1>0, <1>1, <1>4, <1>8, <1>10, <1>11, <1>12, PublishSession

\* The COMMIT of DeleteFile preserves it: one file less uses each chunk counted.
LEMMA CommitDeleteCounts ==
  ASSUME TxnInv, SaneRequests, SelectedKept, BatchInv', NEW d \in Delete, CommitDelete(d)
  PROVE  TxnInv'
<1>0. /\ TypeOK /\ DeleteSane(d) /\ DraftSane(d) /\ FilesSane /\ CountsExact
      /\ d \in Session /\ d \in Process /\ d \notin Upload /\ DeleteStep(d)
  BY TxnAssumption DEF TxnInv, BatchInv, Session, Process, DeleteStep
<1>1. /\ pc[d] = "decrement" /\ pc'[d] = "done" /\ todo[d] = {} /\ Publish(d) /\ Delta(d) = -1
      /\ files' = [f \in DOMAIN files \ RowsNamed(NameOf[d]) |-> files[f]]
  BY <1>0 DEF CommitDelete, Goto, TypeOK, Delta
<1>2. PICK f \in RowsNamed(NameOf[d]) : DOMAIN draft[d] = Range(files[f].chunks)
  BY <1>0, <1>1 DEF DeleteSane
<1>3. f \in DOMAIN files /\ RowsNamed(NameOf[d]) = {f}
  BY <1>0, <1>2 DEF FilesSane, RowsNamed
<1>4. DOMAIN files' = DOMAIN files \ {f} /\ \A g \in DOMAIN files' : files'[g] = files[g]
  BY <1>1, <1>3
<1>5. \A h \in DOMAIN draft[d] :
        /\ h \in DOMAIN chunks /\ chunks[h].ref_count = Uses(h) /\ Uses(h) \in Nat /\ Uses(h) >= 1
        /\ draft[d][h].ref_count = chunks[h].ref_count - 1
  <2>1. \A h \in DOMAIN draft[d] :
          h \in DOMAIN chunks /\ chunks[h].ref_count = Uses(h) /\ Uses(h) \in Nat /\ Uses(h) >= 1
    BY <1>2, <1>3, UsedRow
  <2> QED BY <1>0, <1>1, <2>1 DEF DraftSane
<1>6. RowsKept({d}) /\ RowsSane'
  BY <1>0, <1>1, <1>5, PublishKept
<1>7. Others({d})
  BY <1>0, SessionAlone
<1>8. FilesKept({d})
  BY <1>3, <1>4 DEF FilesKept, RowsNamed
<1>9. /\ DOMAIN chunks' = DOMAIN chunks
      /\ \A h \in DOMAIN draft[d] : chunks'[h] = draft[d][h]
      /\ \A h \in DOMAIN chunks \ DOMAIN draft[d] : chunks'[h] = chunks[h]
      /\ DOMAIN draft'[d] = {}
  BY <1>0, <1>1, <1>5, PublishRows
<1>10. FilesSane'
  <2>1. IsFiniteSet(DOMAIN files')
    BY <1>0, <1>4, FS_Subset DEF FilesSane
  <2>2. \A g \in DOMAIN files : g \in Upload => pc'[g] = "done"
    BY <1>0, <1>7 DEF FilesSane, Others, Session
  <2> QED BY <1>0, <1>4, <1>9, <2>1, <2>2 DEF FilesSane
<1>11. CountsExact'
  <2>1. SUFFICES ASSUME NEW h \in DOMAIN chunks
                 PROVE  IF chunks'[h].ref_count = -1 THEN Uses(h)' = 0 ELSE chunks'[h].ref_count = Uses(h)'
    BY <1>9 DEF CountsExact
  <2> DEFINE old == {g \in DOMAIN files : h \in Range(files[g].chunks)}
             new == {g \in DOMAIN files' : h \in Range(files'[g].chunks)}
  <2>2. Uses(h) = Cardinality(old) /\ Uses(h)' = Cardinality(new)
    BY DEF Uses
  <2>3. IsFiniteSet(old)
    BY <1>0, FS_Subset DEF FilesSane
  <2>4. CASE h \in DOMAIN draft[d]
    <3>1. new = old \ {f} /\ f \in old
      BY <1>2, <1>3, <1>4, <2>4
    <3> HIDE DEF old, new
    <3>2. Cardinality(new) = Cardinality(old) - 1
      BY <2>3, <3>1, FS_RemoveElement
    <3> QED BY <1>5, <1>9, <2>2, <2>4, <3>2
  <2>5. CASE h \notin DOMAIN draft[d]
    <3>1. new = old
      BY <1>2, <1>3, <1>4, <2>5
    <3> QED BY <1>0, <1>9, <2>2, <2>5, <3>1 DEF CountsExact
  <2> QED BY <2>4, <2>5
<1>12. DeleteSane(d)'
  BY <1>1, <1>9 DEF DeleteSane
<1> QED BY <1>0, <1>1, <1>6, <1>8, <1>10, <1>11, <1>12, PublishSession

-----------------------------------------------------------------------------
(* The collectors, and the rest.                                           *)

\* A step of no session.
LEMMA NoSession ==
  ASSUME TxnInv, SaneRequests, SelectedKept, BatchInv', UNCHANGED <<files, draft>>,
         Others({}), RowsKept({}), RowsSane', CountsExact', BatchesTombstoned'
  PROVE  TxnInv'
<1>1. FilesSane' /\ FilesKept({})
  BY SameFiles
<1>2. LocksExclusive'
  BY DEF TxnInv, LocksExclusive
<1> QED BY <1>1, <1>2, Assemble

\* A collector leaves the sessions, their locks and the files alone.
LEMMA CollectorOthers ==
  ASSUME TypeOK, NEW c \in Collector, CollectorStep(c)
  PROVE  Others({}) /\ UNCHANGED <<files, draft>>
<1>1. UNCHANGED <<files, draft, at, read, plan>>
  BY DEF CollectorStep, Sweep, BulkDelete, PurgeChunk, RevertChunk
<1>2. \A q \in Session : q \in Process \ {c}
  BY TxnAssumption DEF Process, Session
<1>3. \A d \in Delete : d \in (Delete \cup Collector) \ {c}
  BY TxnAssumption DEF Session
<1> QED BY <1>1, <1>2, <1>3, CollectorAlone DEF Others

\* A sweep preserves the invariant: what it tombstones is unlocked and unused.
LEMMA SweepCounts ==
  ASSUME TxnInv, SaneRequests, SelectedKept, BatchInv', NEW c \in Collector, Sweep(c)
  PROVE  TxnInv'
<1>0. /\ TypeOK /\ BatchesSpent /\ BatchesTombstoned /\ RowsSane /\ CountsExact
      /\ c \in Process /\ CollectorStep(c)
  BY DEF TxnInv, BatchInv, Process, CollectorStep
<1>1. PICK batch \in SUBSET Orphans :
        /\ chunks' = [h \in DOMAIN chunks |->
                        IF h \in batch THEN [chunks[h] EXCEPT !.ref_count = -1] ELSE chunks[h]]
        /\ todo' = [todo EXCEPT ![c] = batch]
        /\ Goto(c, "purge")
  BY DEF Sweep
<1>2. batch \in SUBSET Hash
  BY <1>0 DEF Orphans, TypeOK, IsTable
<1>3. /\ DOMAIN chunks' = DOMAIN chunks
      /\ \A h \in DOMAIN chunks :
           IF h \in batch
           THEN chunks'[h] = ARow(chunks[h].nodes, -1, chunks[h].fresh)
           ELSE chunks'[h] = chunks[h]
  BY <1>0, <1>1, <1>2, SweepRows
<1>4. \A h \in batch : /\ h \in DOMAIN chunks /\ chunks[h].ref_count = 0 /\ ~chunks[h].fresh
                       /\ \A q \in Session : h \notin DOMAIN draft[q]
  BY DEF Orphans
<1>5. \A h \in DOMAIN chunks :
        /\ chunks'[h].nodes = chunks[h].nodes /\ chunks'[h].fresh = chunks[h].fresh
        /\ h \in batch => chunks'[h].ref_count = -1
        /\ h \notin batch => chunks'[h] = chunks[h]
  BY <1>3 DEF ARow
<1>6. RowsKept({})
  <2>1. \A h \in Hash : Firm(h) => Firm(h)'
    BY <1>3, <1>4, <1>5 DEF Firm, Live
  <2>2. \A h \in Hash : Live(h) /\ ~Tombstoned(h)' => Live(h)'
    BY <1>3, <1>5 DEF Live, Tombstoned
  <2> QED BY <1>3, <1>4, <1>5, <2>1, <2>2 DEF RowsKept
<1>7. RowsSane'
  BY <1>0, <1>3, <1>4, <1>5 DEF RowsSane
<1>8. CountsExact'
  <2>1. \A h : Uses(h)' = Uses(h)
    BY DEF Sweep, Uses
  <2>2. \A h \in batch : Uses(h) = 0
    BY <1>0, <1>4 DEF CountsExact
  <2>3. \A h \in DOMAIN chunks' :
          IF chunks'[h].ref_count = -1 THEN Uses(h) = 0 ELSE chunks'[h].ref_count = Uses(h)
    BY <1>0, <1>3, <1>5, <2>2 DEF CountsExact
  <2> QED BY <2>1, <2>3 DEF CountsExact
<1>9. BatchesTombstoned'
  <2>1. \A h : Tombstoned(h) => Tombstoned(h)'
    BY <1>3, <1>5 DEF Tombstoned
  <2>2. \A h \in batch : Tombstoned(h)'
    BY <1>3, <1>4, <1>5 DEF Tombstoned
  <2>3. todo'[c] = batch /\ purged'[c] = {}
    BY <1>0, <1>1 DEF Sweep, TypeOK, BatchesSpent
  <2>4. \A e \in Collector \ {c} : pc'[e] = pc[e] /\ todo'[e] = todo[e] /\ purged'[e] = purged[e]
    BY <1>0, CollectorAlone DEF Process
  <2> QED BY <1>0, <2>1, <2>2, <2>3, <2>4 DEF BatchesTombstoned
<1>10. Others({}) /\ UNCHANGED <<files, draft>>
  BY <1>0, CollectorOthers
<1> QED BY <1>6, <1>7, <1>8, <1>9, <1>10, NoSession

\* The deletion of replicas preserves it.
LEMMA PurgeCounts ==
  ASSUME TxnInv, SaneRequests, SelectedKept, BatchInv',
         NEW c \in Collector, NEW h \in Hash, PurgeChunk(c, h)
  PROVE  TxnInv'
<1>0. TypeOK /\ BatchesTombstoned /\ RowsSane /\ CountsExact /\ CollectorStep(c) /\ UNCHANGED <<chunks, pc>>
  BY DEF TxnInv, BatchInv, CollectorStep, PurgeChunk
<1>1. Others({}) /\ UNCHANGED <<files, draft>> /\ RowsKept({})
  BY <1>0, CollectorOthers, SameRows
<1>2. RowsSane' /\ CountsExact'
  BY <1>0, <1>1, SameCounts DEF RowsSane
<1>3. BatchesTombstoned'
  <2>1. todo'[c] = todo[c] \ {h} /\ purged'[c] = purged[c] \cup {h} /\ h \in todo[c]
    BY <1>0 DEF PurgeChunk, TypeOK
  <2>2. \A e \in Collector \ {c} : todo'[e] = todo[e] /\ purged'[e] = purged[e]
    BY <1>0, CollectorAlone DEF Process
  <2>3. \A k : Tombstoned(k)' <=> Tombstoned(k)
    BY <1>0 DEF Tombstoned
  <2> QED BY <1>0, <2>1, <2>2, <2>3 DEF BatchesTombstoned
<1> QED BY <1>1, <1>2, <1>3, NoSession

\* RevertTombstone preserves it: no other collector has the chunk.
LEMMA RevertCounts ==
  ASSUME TxnInv, SaneRequests, SelectedKept, BatchInv',
         NEW c \in Collector, NEW h \in Hash, RevertChunk(c, h)
  PROVE  TxnInv'
<1>0. /\ TypeOK /\ BatchesTombstoned /\ BatchesDisjoint /\ RowsSane /\ CountsExact /\ CollectorStep(c)
      /\ UNCHANGED pc /\ pc[c] = "purge" /\ h \in todo[c]
      /\ \A q \in Session : h \notin DOMAIN draft[q]
  BY TxnAssumption DEF TxnInv, BatchInv, CollectorStep, RevertChunk, Free
<1>1. Others({}) /\ UNCHANGED <<files, draft>>
  BY <1>0, CollectorOthers
<1>2. Tombstoned(h)
  BY <1>0 DEF BatchesTombstoned
<1>3. /\ DOMAIN chunks' = DOMAIN chunks
      /\ \A k \in DOMAIN chunks :
           IF k = h /\ chunks[k].ref_count = -1
           THEN chunks'[k] = ARow(chunks[k].nodes, 0, TRUE)
           ELSE chunks'[k] = chunks[k]
  BY <1>0, RevertRows
<1>4. /\ chunks'[h].nodes = chunks[h].nodes /\ chunks'[h].ref_count = 0 /\ chunks'[h].fresh
      /\ \A k \in DOMAIN chunks \ {h} : chunks'[k] = chunks[k]
  BY <1>2, <1>3 DEF Tombstoned, ARow
<1>5. RowsKept({})
  <2>1. \A k \in Hash : Firm(k) => Firm(k)'
    BY <1>3, <1>4 DEF Firm, Live
  <2>2. \A k \in Hash : Live(k) => Live(k)'
    BY <1>3, <1>4 DEF Live
  <2> QED BY <1>0, <1>3, <1>4, <2>1, <2>2 DEF RowsKept
<1>6. RowsSane'
  BY <1>0, <1>3, <1>4 DEF RowsSane
<1>7. CountsExact'
  <2>1. \A k : Uses(k)' = Uses(k)
    BY <1>1 DEF Uses
  <2>2. Uses(h) = 0
    BY <1>0, <1>2 DEF CountsExact, Tombstoned
  <2>3. \A k \in DOMAIN chunks' :
          IF chunks'[k].ref_count = -1 THEN Uses(k) = 0 ELSE chunks'[k].ref_count = Uses(k)
    BY <1>0, <1>3, <1>4, <2>2 DEF CountsExact
  <2> QED BY <2>1, <2>3 DEF CountsExact
<1>8. BatchesTombstoned'
  <2>1. todo'[c] = todo[c] \ {h} /\ UNCHANGED purged
    BY <1>0 DEF RevertChunk, TypeOK
  <2>2. \A e \in Collector \ {c} : todo'[e] = todo[e]
    BY <1>0, CollectorAlone
  <2>3. \A k : k # h /\ Tombstoned(k) => Tombstoned(k)'
    BY <1>3, <1>4 DEF Tombstoned
  <2>4. h \notin purged[c]
    BY <1>0 DEF BatchesTombstoned
  <2>5. \A e \in Collector \ {c} : pc[e] = "purge" => h \notin todo[e] \cup purged[e]
    BY <1>0 DEF BatchesDisjoint
  <2> QED BY <1>0, <2>1, <2>2, <2>3, <2>4, <2>5 DEF BatchesTombstoned
<1> QED BY <1>1, <1>5, <1>6, <1>7, <1>8, NoSession

\* DeleteChunkRecordsBulk preserves it.
LEMMA BulkCounts ==
  ASSUME TxnInv, SaneRequests, SelectedKept, BatchInv', NEW c \in Collector, BulkDelete(c)
  PROVE  TxnInv'
<1>0. /\ TypeOK /\ BatchesTombstoned /\ BatchesDisjoint /\ RowsSane /\ CountsExact /\ CollectorStep(c)
      /\ pc[c] = "purge" /\ c \in Process
      /\ \A q \in Session : \A h \in purged[c] : h \notin DOMAIN draft[q]
  BY TxnAssumption DEF TxnInv, BatchInv, CollectorStep, BulkDelete, Free, Process
<1>1. Others({}) /\ UNCHANGED <<files, draft>>
  BY <1>0, CollectorOthers
<1>2. /\ DOMAIN chunks' = {k \in DOMAIN chunks : ~(k \in purged[c] /\ chunks[k].ref_count = -1)}
      /\ \A k \in DOMAIN chunks' : chunks'[k] = chunks[k]
  BY <1>0, BulkRows
<1>3. RowsKept({})
  <2>1. \A k \in Hash : Firm(k) => Firm(k)'
    BY <1>2 DEF Firm, Live
  <2>2. \A k \in Hash : Live(k) => Live(k)'
    BY <1>2 DEF Live
  <2> QED BY <1>0, <1>2, <2>1, <2>2 DEF RowsKept, Tombstoned
<1>4. RowsSane'
  BY <1>0, <1>2 DEF RowsSane
<1>5. CountsExact'
  BY <1>0, <1>1, <1>2, SameCounts
<1>6. BatchesTombstoned'
  <2>1. pc'[c] = "done" /\ UNCHANGED <<todo, purged>>
    BY <1>0 DEF BulkDelete, Goto, TypeOK
  <2>2. \A e \in Collector \ {c} : pc'[e] = pc[e]
    BY <1>0, CollectorAlone DEF Process
  <2>3. \A k : k \notin purged[c] /\ Tombstoned(k) => Tombstoned(k)'
    BY <1>2 DEF Tombstoned
  <2>4. \A e \in Collector \ {c} : pc[e] = "purge" => purged[c] \cap (todo[e] \cup purged[e]) = {}
    BY <1>0 DEF BatchesDisjoint
  <2> QED BY <1>0, <2>1, <2>2, <2>3, <2>4 DEF BatchesTombstoned
<1> QED BY <1>1, <1>3, <1>4, <1>5, <1>6, NoSession

\* Steps that touch neither rows nor sessions preserve it.
LEMMA IdleCounts ==
  ASSUME TxnInv, SaneRequests, SelectedKept, BatchInv',
         UNCHANGED <<chunks, files, pc, draft, at, read, plan, todo, purged>>
  PROVE  TxnInv'
<1>1. Others({}) /\ RowsKept({})
  BY SameRows DEF Others
<1>2. RowsSane' /\ CountsExact' /\ BatchesTombstoned'
  BY SameCounts DEF TxnInv, RowsSane, BatchesTombstoned, Tombstoned
<1> QED BY <1>1, <1>2, NoSession

\* Every step preserves TxnInv.
LEMMA TxnStep ==
  ASSUME SaneRequests, TxnInv, [Next]_txnVars, [SelectedKept]_txnVars
  PROVE  TxnInv'
<1>1. BatchInv'
  BY BatchStep DEF TxnInv
<1>2. CASE UNCHANGED txnVars
  <2>1. SelectedKept
    <3>1. SUFFICES ASSUME NEW u \in Upload, AtChunk(u, "refresh"), NEW h \in Hash, Current(u) = h
                   PROVE  ~Tombstoned(h)'
      BY DEF SelectedKept
    <3>2. Live(h)
      BY <3>1 DEF TxnInv, UploadSane, AtChunk
    <3> QED BY <1>2, <3>2 DEF Live, Tombstoned, txnVars
  <2> QED BY <1>1, <1>2, <2>1, IdleCounts DEF txnVars
<1>3. CASE Next /\ SelectedKept
  <2>1. CASE \E u \in Upload : UploadStep(u)
    BY <1>1, <1>3, <2>1, SelectCounts, InsertCounts, RefreshCounts, CommitInitCounts, TransferCounts,
       IncrementCounts, CommitUploadCounts DEF UploadStep
  <2>2. CASE \E d \in Delete : DeleteStep(d)
    BY <1>1, <1>3, <2>2, SelectFileCounts, DecrementCounts, CommitDeleteCounts DEF DeleteStep
  <2>3. CASE \E c \in Collector : CollectorStep(c)
    BY <1>1, <1>3, <2>3, SweepCounts, BulkCounts, PurgeCounts, RevertCounts DEF CollectorStep
  <2>4. CASE \E t \in Session : Abort(t)
    BY <1>1, <1>3, <2>4, AbortCounts
  <2>5. CASE (\E r \in late : LateDelete(r)) \/ Reroute
    BY <1>1, <1>3, <2>5, IdleCounts DEF LateDelete, Reroute
  <2> QED BY <1>3, <2>1, <2>2, <2>3, <2>4, <2>5, Steps
<1> QED BY <1>2, <1>3

\* TxnInv holds at the beginning.
LEMMA TxnInit ==
  ASSUME SaneRequests, Init
  PROVE  TxnInv
<1>1. PICK start \in Starts : chunks = start.rows /\ files = start.files
  BY DEF Init
<1>2. SaneStart(start)
  BY DEF SaneRequests
<1>3. BatchInv
  BY BatchInit
<1>4. \A p \in Process : pc[p] = IF p \in Collector THEN "sweep" ELSE "select"
  BY DEF Init
<1>5. \A t \in Session : DOMAIN draft[t] = {} /\ pc[t] = "select"
  BY <1>4, TxnAssumption, EmptyTable DEF Init, Process, Session
<1>6. \A h \in DOMAIN chunks :
        /\ chunks[h].nodes # {}
        /\ chunks[h].fresh => chunks[h].ref_count >= 0
        /\ \/ chunks[h].ref_count = Uses(h)
           \/ chunks[h].ref_count = -1 /\ Uses(h) = 0
  BY <1>1, <1>2 DEF SaneStart, Uses
<1>7. \A h \in DOMAIN chunks : Uses(h) \in Nat
  <2>1. TAKE h \in DOMAIN chunks
  <2>2. IsFiniteSet({f \in DOMAIN files : h \in Range(files[f].chunks)})
    BY <1>1, <1>2, FS_Subset DEF SaneStart
  <2> QED BY <2>2, FS_CardinalityType DEF Uses
<1>8. RowsSane /\ CountsExact
  BY <1>6, <1>7 DEF RowsSane, CountsExact
<1>9. LocksExclusive /\ \A t \in Session : DraftSane(t)
  BY <1>5 DEF LocksExclusive, DraftSane
<1>10. FilesSane
  BY <1>1, <1>2 DEF SaneStart, FilesSane
<1>11. \A u \in Upload : UploadSane(u)
  <2>1. TAKE u \in Upload
  <2>2. TypeOK /\ at[u] = 1 /\ u \in Session
    BY <1>3 DEF BatchInv, Init, Session
  <2>3. Before(u) = {}
    BY <2>2, BeforeEnd
  <2> QED BY <1>5, <2>2, <2>3 DEF UploadSane
<1>12. \A d \in Delete : DeleteSane(d)
  BY <1>5 DEF DeleteSane, Session
<1>13. BatchesTombstoned
  BY <1>4 DEF BatchesTombstoned, Process
<1> QED BY <1>3, <1>8, <1>9, <1>10, <1>11, <1>12, <1>13 DEF TxnInv

\* With requests for different files, and no sweep between the SELECT and the
\* UPDATE of an upload-init, the invariant of the counts holds in every behaviour.
THEOREM TxnInvAlways == SaneRequests => (Spec /\ [][SelectedKept]_txnVars => []TxnInv)
<1>1. SUFFICES ASSUME SaneRequests
               PROVE  Spec /\ [][SelectedKept]_txnVars => []TxnInv
  OBVIOUS
<1>2. Init => TxnInv
  BY <1>1, TxnInit
<1>3. TxnInv /\ [Next]_txnVars /\ [SelectedKept]_txnVars => TxnInv'
  BY <1>1, TxnStep
<1> QED BY <1>2, <1>3, PTL DEF Spec

\* No update of ref_count is lost: under those hypotheses the count of a row is
\* the number of committed files that use its chunk, and a tombstoned chunk has
\* none, whatever statements of the transactions run in between.
THEOREM CountsAlwaysExact == SaneRequests => (Spec /\ [][SelectedKept]_txnVars => []CountsExact)
<1>1. SUFFICES ASSUME SaneRequests
               PROVE  Spec /\ [][SelectedKept]_txnVars => []CountsExact
  OBVIOUS
<1>2. Spec /\ [][SelectedKept]_txnVars => []TxnInv
  BY <1>1, TxnInvAlways
<1>3. TxnInv => CountsExact
  BY DEF TxnInv
<1> QED BY <1>2, <1>3, PTL

\* Of the steps, only a collector's and a late worker's delete replicas.
LEMMA DeletesStep ==
  ASSUME TxnInv, [Next]_txnVars
  PROVE  [\A r \in stored \ (stored' \cup late) :
            r[1] \in DOMAIN chunks => chunks[r[1]].ref_count = -1]_txnVars
<1>0. TypeOK /\ BatchesTombstoned
  BY DEF TxnInv, BatchInv
<1>1. CASE stored \subseteq stored' \cup late
  BY <1>1
<1>2. CASE \E c \in Collector, h \in Hash : PurgeChunk(c, h) \/ RevertChunk(c, h)
  <2>1. PICK c \in Collector, h \in Hash : PurgeChunk(c, h) \/ RevertChunk(c, h)
    BY <1>2
  <2>2. stored \ stored' \subseteq Replicas(h)
    BY <2>1 DEF PurgeChunk, RevertChunk
  <2>3. Tombstoned(h)
    BY <1>0, <2>1 DEF PurgeChunk, RevertChunk, BatchesTombstoned
  <2>4. \A r \in Replicas(h) : r[1] = h
    BY DEF Replicas
  <2> QED BY <2>2, <2>3, <2>4 DEF Tombstoned
<1>3. CASE \E u \in Upload : UploadStep(u)
  BY <1>1, <1>3 DEF UploadStep, Select, Insert, Refresh, CommitInit, Transfer, Increment, CommitUpload
<1>4. CASE \E d \in Delete : DeleteStep(d)
  BY <1>1, <1>4 DEF DeleteStep, SelectFile, Decrement, CommitDelete
<1>5. CASE \E c \in Collector : CollectorStep(c)
  BY <1>1, <1>2, <1>5 DEF CollectorStep, Sweep, BulkDelete
<1>6. CASE (\E t \in Session : Abort(t)) \/ Reroute
  BY <1>1, <1>6 DEF Abort, Reroute
<1>7. CASE \E r \in late : LateDelete(r)
  <2>1. stored \subseteq stored' \cup late
    BY <1>7 DEF LateDelete
  <2> QED BY <1>1, <2>1
<1>8. CASE UNCHANGED txnVars
  BY <1>8
<1> QED BY <1>3, <1>4, <1>5, <1>6, <1>7, <1>8, Steps

\* Under the same hypotheses a replica goes only while the row that names it is
\* tombstoned, unless its worker is late: nothing a collector deletes is in use.
THEOREM OnlyTombstonedDeleted ==
  SaneRequests => (Spec /\ [][SelectedKept]_txnVars => DeletesTombstoned)
<1>1. SUFFICES ASSUME SaneRequests
               PROVE  Spec /\ [][SelectedKept]_txnVars => DeletesTombstoned
  OBVIOUS
<1>2. Spec /\ [][SelectedKept]_txnVars => []TxnInv
  BY <1>1, TxnInvAlways
<1>3. TxnInv /\ [Next]_txnVars =>
        [\A r \in stored \ (stored' \cup late) :
           r[1] \in DOMAIN chunks => chunks[r[1]].ref_count = -1]_txnVars
  BY DeletesStep
<1> QED BY <1>2, <1>3, PTL DEF Spec, DeletesTombstoned

-----------------------------------------------------------------------------
(* The inductive invariant of what is stored.                              *)

Stored(h) == h \in DOMAIN chunks /\ (Replicas(h) \cap stored # {} \/ Misrouted(h))

\* What an upload relies on is stored, or will be by its own transfer.
ClaimsSane(u) ==
  /\ InInit(u) =>
       /\ DOMAIN plan[u] \subseteq Before(u)
       /\ \A h \in Before(u) : h \in DOMAIN plan[u] \/ Stored(h)
  /\ pc[u] = "refresh" => read[u].ref_count = 0 \/ Stored(Current(u))
  /\ pc[u] = "transfer" => \A h \in Range(ChunksOf[u]) : h \in DOMAIN plan[u] \/ Stored(h)
  /\ pc[u] = "increment" => \A h \in Range(ChunksOf[u]) : Stored(h)

StoredInv ==
  /\ late = {}
  /\ \A h \in DOMAIN chunks : chunks[h].ref_count >= 1 => Stored(h)
  /\ \A u \in Upload : ClaimsSane(u)
\* A row that is not tombstoned stays, on its nodes.
LEMMA NodesKept ==
  ASSUME TxnInv, Next, NEW h \in DOMAIN chunks, ~Tombstoned(h)
  PROVE  h \in DOMAIN chunks' /\ chunks'[h].nodes = chunks[h].nodes
<1>0. TypeOK /\ \A t \in Session : DraftSane(t)
  BY DEF TxnInv, BatchInv
<1>1. CASE UNCHANGED chunks
  BY <1>1
<1>2. CASE \E t \in Session : Publish(t)
  <2>1. PICK t \in Session : Publish(t)
    BY <1>2
  <2>2. /\ DOMAIN chunks' = DOMAIN draft[t] \cup DOMAIN chunks
        /\ \A k \in DOMAIN draft[t] : chunks'[k] = draft[t][k]
        /\ \A k \in DOMAIN chunks \ DOMAIN draft[t] : chunks'[k] = chunks[k]
    BY <1>0, <2>1, PublishRows
  <2> QED BY <1>0, <2>2 DEF DraftSane
<1>3. CASE \E c \in Collector : CollectorStep(c)
  <2>1. PICK c \in Collector : CollectorStep(c)
    BY <1>3
  <2>2. CASE Sweep(c)
    <3>1. PICK batch \in SUBSET Orphans :
            chunks' = [k \in DOMAIN chunks |->
                         IF k \in batch THEN [chunks[k] EXCEPT !.ref_count = -1] ELSE chunks[k]]
      BY <2>2 DEF Sweep
    <3>2. batch \in SUBSET Hash
      BY <1>0 DEF Orphans, TypeOK, IsTable
    <3> QED BY <1>0, <3>1, <3>2, SweepRows DEF ARow
  <2>3. CASE BulkDelete(c)
    BY <1>0, <2>3, BulkRows DEF Tombstoned
  <2>4. CASE \E k \in Hash : RevertChunk(c, k)
    <3>1. /\ h \in DOMAIN chunks'
          /\ chunks'[h] = chunks[h] \/ chunks'[h] = ARow(chunks[h].nodes, 0, TRUE)
      BY <1>0, <2>4, RevertRows
    <3> QED BY <3>1 DEF ARow
  <2> QED BY <1>1, <2>1, <2>2, <2>3, <2>4 DEF CollectorStep, PurgeChunk
<1>4. CASE \E u \in Upload : UploadStep(u)
  BY <1>1, <1>2, <1>4 DEF UploadStep, Select, Insert, Refresh, CommitInit, Transfer, Increment,
     CommitUpload, Session
<1>5. CASE \E d \in Delete : DeleteStep(d)
  BY <1>1, <1>2, <1>5 DEF DeleteStep, SelectFile, Decrement, CommitDelete, Session
<1>6. CASE (\E t \in Session : Abort(t)) \/ (\E r \in late : LateDelete(r)) \/ Reroute
  BY <1>1, <1>6 DEF Abort, LateDelete, Reroute
<1> QED BY <1>3, <1>4, <1>5, <1>6, Steps

\* Only a commit of a file that uses it takes a chunk into use.
LEMMA CountGrows ==
  ASSUME TxnInv, Next, NEW h \in DOMAIN chunks', chunks'[h].ref_count >= 1
  PROVE  \/ h \in DOMAIN chunks /\ chunks[h].ref_count >= 1
         \/ \E u \in Upload : pc[u] = "increment" /\ h \in Range(ChunksOf[u])
<1>0. TypeOK /\ \A t \in Session : DraftSane(t)
  BY DEF TxnInv, BatchInv
<1>1. CASE UNCHANGED chunks
  BY <1>1
<1>2. ASSUME NEW t \in Session, Publish(t), Delta(t) # 1 PROVE h \in DOMAIN chunks /\ chunks[h].ref_count >= 1
  <2>1. /\ DOMAIN chunks' = DOMAIN draft[t] \cup DOMAIN chunks
        /\ \A k \in DOMAIN draft[t] : chunks'[k] = draft[t][k]
        /\ \A k \in DOMAIN chunks \ DOMAIN draft[t] : chunks'[k] = chunks[k]
    BY <1>0, <1>2, PublishRows
  <2>2. Delta(t) \in {0, -1}
    BY <1>2 DEF Delta
  <2>3. h \in DOMAIN chunks => chunks[h].ref_count \in Int
    BY <1>0 DEF TypeOK, IsTable, Row
  <2>4. CASE h \in DOMAIN draft[t]
    BY <1>0, <2>1, <2>2, <2>3, <2>4 DEF DraftSane
  <2>5. CASE h \notin DOMAIN draft[t]
    BY <2>1, <2>5
  <2> QED BY <2>4, <2>5
<1>3. CASE \E c \in Collector : CollectorStep(c)
  <2>1. PICK c \in Collector : CollectorStep(c)
    BY <1>3
  <2>2. CASE Sweep(c)
    <3>1. PICK batch \in SUBSET Orphans :
            chunks' = [k \in DOMAIN chunks |->
                         IF k \in batch THEN [chunks[k] EXCEPT !.ref_count = -1] ELSE chunks[k]]
      BY <2>2 DEF Sweep
    <3>2. batch \in SUBSET Hash
      BY <1>0 DEF Orphans, TypeOK, IsTable
    <3>3. /\ h \in DOMAIN chunks
          /\ IF h \in batch THEN chunks'[h] = ARow(chunks[h].nodes, -1, chunks[h].fresh)
                            ELSE chunks'[h] = chunks[h]
      BY <1>0, <3>1, <3>2, SweepRows
    <3> QED BY <3>3 DEF ARow
  <2>3. CASE BulkDelete(c)
    BY <1>0, <2>3, BulkRows
  <2>4. CASE \E k \in Hash : RevertChunk(c, k)
    <3>1. /\ h \in DOMAIN chunks
          /\ chunks'[h] = chunks[h] \/ chunks'[h] = ARow(chunks[h].nodes, 0, TRUE)
      BY <1>0, <2>4, RevertRows
    <3> QED BY <3>1 DEF ARow
  <2> QED BY <1>1, <2>1, <2>2, <2>3, <2>4 DEF CollectorStep, PurgeChunk
<1>4. CASE \E u \in Upload : UploadStep(u)
  <2>1. PICK u \in Upload : UploadStep(u)
    BY <1>4
  <2>2. u \in Session /\ u \notin Delete /\ UploadSane(u)
    BY TxnAssumption DEF Session, TxnInv
  <2>3. CASE CommitInit(u)
    <3>1. Publish(u) /\ Delta(u) # 1
      BY <2>3 DEF CommitInit, Delta
    <3> QED BY <1>2, <2>2, <3>1
  <2>4. CASE CommitUpload(u)
    <3>1. pc[u] = "increment" /\ Publish(u)
      BY <2>4 DEF CommitUpload
    <3>2. DOMAIN draft[u] \subseteq Range(ChunksOf[u])
      BY <1>0, <2>2, <3>1, BeforeEnd DEF UploadSane
    <3>3. CASE h \in DOMAIN draft[u]
      BY <3>1, <3>2, <3>3
    <3>4. CASE h \notin DOMAIN draft[u]
      <4>1. h \in DOMAIN chunks /\ chunks'[h] = chunks[h]
        BY <1>0, <2>2, <3>1, <3>4, PublishRows
      <4> QED BY <4>1
    <3> QED BY <3>3, <3>4
  <2> QED BY <1>1, <2>1, <2>3, <2>4 DEF UploadStep, Select, Insert, Refresh, Transfer, Increment
<1>5. CASE \E d \in Delete : DeleteStep(d)
  <2>1. PICK d \in Delete : DeleteStep(d)
    BY <1>5
  <2>2. d \in Session /\ Delta(d) # 1
    BY DEF Session, Delta
  <2>3. CASE Publish(d)
    BY <1>2, <2>2, <2>3
  <2> QED BY <1>1, <2>1, <2>3 DEF DeleteStep, SelectFile, Decrement, CommitDelete
<1>6. CASE (\E t \in Session : Abort(t)) \/ (\E r \in late : LateDelete(r)) \/ Reroute
  BY <1>1, <1>6 DEF Abort, LateDelete, Reroute
<1> QED BY <1>3, <1>4, <1>5, <1>6, Steps

\* Plans only grow.
LEMMA PlansGrow ==
  ASSUME SaneRequests, TxnInv, StoredInv, Next, NEW v \in Upload, NEW k \in DOMAIN plan[v]
  PROVE  k \in DOMAIN plan'[v] /\ plan'[v][k] = plan[v][k]
<1>0. TypeOK
  BY DEF TxnInv, BatchInv
<1>1. CASE UNCHANGED plan
  BY <1>1
<1>2. CASE \E u \in Upload : Insert(u) \/ Refresh(u)
  <2>1. PICK u \in Upload : Insert(u) \/ Refresh(u)
    BY <1>2
  <2>2. /\ InInit(u) /\ at[u] <= Len(ChunksOf[u]) /\ Current(u) \in Hash
        /\ UNCHANGED plan \/ PlanFor(u, Current(u), read[u].nodes)
    BY <1>0, <2>1, CurrentHash DEF Insert, Refresh, AtChunk, InInit
  <2>3. Current(u) \notin DOMAIN plan[u]
    BY <1>0, <2>2, BeforeNext DEF StoredInv, ClaimsSane
  <2>4. read[u].nodes \in SUBSET Node
    BY <1>0, RowType DEF TypeOK
  <2>5. CASE PlanFor(u, Current(u), read[u].nodes)
    <3>1. /\ \A w \in Upload \ {u} : plan'[w] = plan[w]
          /\ DOMAIN plan'[u] = DOMAIN plan[u] \cup {Current(u)}
          /\ \A x \in DOMAIN plan[u] \ {Current(u)} : plan'[u][x] = plan[u][x]
      BY <1>0, <2>2, <2>4, <2>5, PlanForTyped
    <3> QED BY <2>3, <3>1
  <2> QED BY <1>1, <2>2, <2>5
<1>3. CASE \E u \in Upload : UploadStep(u)
  BY <1>1, <1>2, <1>3 DEF UploadStep, Select, CommitInit, Transfer, Increment, CommitUpload
<1>4. CASE \E d \in Delete : DeleteStep(d)
  BY <1>1, <1>4 DEF DeleteStep, SelectFile, Decrement, CommitDelete
<1>5. CASE \E c \in Collector : CollectorStep(c)
  BY <1>1, <1>5 DEF CollectorStep, Sweep, BulkDelete, PurgeChunk, RevertChunk
<1>6. CASE (\E t \in Session : Abort(t)) \/ (\E r \in late : LateDelete(r)) \/ Reroute
  BY <1>1, <1>6 DEF Abort, LateDelete, Reroute
<1> QED BY <1>3, <1>4, <1>5, <1>6, Steps

\* What is stored, or misrouted, stays so while its row is not tombstoned.
LEMMA StoredKept ==
  ASSUME SaneRequests, TxnInv, StoredInv, Next, NEW h, Stored(h), Live(h)
  PROVE  Stored(h)'
<1>1. h \in DOMAIN chunks /\ ~Tombstoned(h)
  BY DEF Live, Tombstoned
<1>2. h \in DOMAIN chunks' /\ chunks'[h].nodes = chunks[h].nodes
  BY <1>1, NodesKept
<1>3. CASE Replicas(h) \cap stored # {}
  <2>1. PICK n \in chunks[h].nodes : <<h, n>> \in stored
    BY <1>3 DEF Replicas
  <2>2. <<h, n>> \in stored'
    <3>1. CASE UNCHANGED txnVars
      BY <2>1, <3>1 DEF txnVars
    <3>2. CASE \A r \in stored \ (stored' \cup late) : r[1] \in DOMAIN chunks => chunks[r[1]].ref_count = -1
      <4>1. <<h, n>>[1] = h /\ late = {}
        BY DEF StoredInv
      <4> QED BY <1>1, <2>1, <3>2, <4>1 DEF Tombstoned
    <3> QED BY <3>1, <3>2, DeletesStep
  <2>3. <<h, n>> \in Replicas(h)'
    BY <1>2 DEF Replicas
  <2> QED BY <1>2, <2>2, <2>3 DEF Stored
<1>4. CASE Misrouted(h)
  <2>1. PICK v \in Upload : h \in DOMAIN plan[v] /\ plan[v][h] # chunks[h].nodes
    BY <1>4 DEF Misrouted
  <2>2. h \in DOMAIN plan'[v] /\ plan'[v][h] = plan[v][h]
    BY <2>1, PlansGrow
  <2>3. Misrouted(h)'
    BY <1>2, <2>1, <2>2 DEF Misrouted
  <2> QED BY <1>2, <2>3 DEF Stored
<1> QED BY <1>3, <1>4 DEF Stored

\* What an upload claims to be stored has a live row.
LEMMA ClaimsLive ==
  ASSUME TxnInv, NEW u \in Upload, NEW h, Stored(h)
  PROVE  /\ InInit(u) /\ h \in Before(u) => Live(h)
         /\ pc[u] = "refresh" /\ h = Current(u) => Live(h)
         /\ pc[u] \in {"transfer", "increment"} /\ h \in Range(ChunksOf[u]) => Live(h)
<1>1. UploadSane(u) /\ DraftSane(u)
  BY DEF TxnInv, Session
<1>2. h \in DOMAIN chunks
  BY DEF Stored
<1> QED BY <1>1, <1>2 DEF UploadSane, DraftSane, Firm, Live

\* What an upload relies on stays stored in steps of others.
LEMMA OtherClaims ==
  ASSUME SaneRequests, TxnInv, StoredInv, Next, NEW u \in Upload,
         pc'[u] = pc[u], at'[u] = at[u], read'[u] = read[u], plan'[u] = plan[u]
  PROVE  ClaimsSane(u)'
<1>1. Before(u)' = Before(u) /\ Current(u)' = Current(u) /\ (InInit(u)' <=> InInit(u))
  BY DEF Before, Current, InInit
<1>2. ClaimsSane(u)
  BY DEF StoredInv
<1>3. InInit(u) => \A h \in Before(u) : h \in DOMAIN plan[u] \/ Stored(h)'
  BY <1>2, StoredKept, ClaimsLive DEF ClaimsSane
<1>4. pc[u] = "transfer" => \A h \in Range(ChunksOf[u]) : h \in DOMAIN plan[u] \/ Stored(h)'
  BY <1>2, StoredKept, ClaimsLive DEF ClaimsSane
<1>5. pc[u] = "increment" => \A h \in Range(ChunksOf[u]) : Stored(h)'
  BY <1>2, StoredKept, ClaimsLive DEF ClaimsSane
<1>6. pc[u] = "refresh" => read[u].ref_count = 0 \/ \A h \in {Current(u)} : Stored(h)'
  BY <1>2, StoredKept, ClaimsLive DEF ClaimsSane
<1>7. (\A h \in {Current(u)'} : Stored(h)') => Stored(Current(u))'
  BY DEF Stored, Replicas, Misrouted
<1> QED BY <1>1, <1>2, <1>3, <1>4, <1>5, <1>6, <1>7 DEF ClaimsSane

\* What an upload relies on is stored after its own steps.
LEMMA OwnClaims ==
  ASSUME SaneRequests, TxnInv, StoredInv, Next, NEW u \in Upload, UploadStep(u)
  PROVE  ClaimsSane(u)'
<1>0. /\ TypeOK /\ UploadSane(u) /\ DraftSane(u) /\ ClaimsSane(u) /\ RowsSane
      /\ u \in Session /\ u \in Process
  BY DEF TxnInv, BatchInv, Session, Process, StoredInv
<1>1. \A h : Stored(h) /\ Live(h) => Stored(h)'
  BY StoredKept
<1>2. InInit(u) => \A h \in Before(u) : h \in DOMAIN plan[u] \/ Stored(h)'
  BY <1>0, <1>1, ClaimsLive DEF ClaimsSane
<1>3. CASE Select(u)
  <2>1. CASE Abort(u)
    BY <1>0, <2>1 DEF Abort, Goto, TypeOK, ClaimsSane, InInit
  <2>2. CASE ~Abort(u)
    <3>1. /\ pc[u] = "select" /\ at[u] <= Len(ChunksOf[u]) /\ Current(u) \in Hash
          /\ UNCHANGED <<chunks, at, plan, stored>> /\ InInit(u) /\ pc'[u] \in {"insert", "refresh"}
      BY <1>0, <1>3, <2>2, SelectRead DEF InInit, Goto, TypeOK
    <3>2. Before(u)' = Before(u) /\ Current(u)' = Current(u)
      BY <3>1 DEF Before, Current
    <3>3. pc'[u] = "refresh" => read'[u].ref_count = 0 \/ Stored(Current(u))'
      <4>1. HAVE pc'[u] = "refresh"
      <4>2. ~Goto(u, "insert")
        BY <1>0, <4>1 DEF Goto, TypeOK
      <4>3. /\ Current(u) \in DOMAIN Visible(u) /\ Visible(u)[Current(u)].ref_count # -1
            /\ read' = [read EXCEPT ![u] = Visible(u)[Current(u)]]
        BY <1>0, <1>3, <2>2, <4>2, SelectRead
      <4>4. Current(u) \notin DOMAIN draft[u]
        BY <1>0, <3>1, BeforeNext DEF UploadSane
      <4>5. Current(u) \in DOMAIN chunks /\ Visible(u)[Current(u)] = chunks[Current(u)]
        BY <1>0, <4>3, <4>4, VisibleRows
      <4>6. read'[u].ref_count = chunks[Current(u)].ref_count
        BY <1>0, <4>3, <4>5 DEF TypeOK
      <4>7. chunks[Current(u)].ref_count \in Int
        BY <1>0, <4>5 DEF TypeOK, IsTable, Row
      <4>8. CASE chunks[Current(u)].ref_count >= 1
        <5>1. Stored(Current(u))
          BY <4>5, <4>8 DEF StoredInv
        <5>2. Stored(Current(u))' <=> Stored(Current(u))
          BY <3>1, <3>2 DEF Stored, Replicas, Misrouted
        <5> QED BY <5>1, <5>2
      <4>9. CASE ~(chunks[Current(u)].ref_count >= 1)
        BY <1>0, <4>3, <4>5, <4>6, <4>7, <4>9 DEF RowsSane
      <4> QED BY <4>8, <4>9
    <3> QED BY <1>0, <1>2, <3>1, <3>2, <3>3 DEF ClaimsSane
  <2> QED BY <2>1, <2>2
<1>4. CASE Insert(u) \/ Refresh(u)
  <2>1. /\ InInit(u) /\ pc[u] \in {"insert", "refresh"} /\ at[u] <= Len(ChunksOf[u]) /\ Current(u) \in Hash
        /\ at'[u] = at[u] + 1 /\ pc'[u] = "select"
        /\ \/ PlanFor(u, Current(u), read[u].nodes)
           \/ pc[u] = "refresh" /\ read[u].ref_count # 0 /\ UNCHANGED plan
    BY <1>0, <1>4, CurrentHash DEF Insert, Refresh, AtChunk, InInit, Advance, Goto, TypeOK
  <2>2. Before(u)' = Before(u) \cup {Current(u)}
    BY <1>0, <2>1, BeforeNext
  <2>3. read[u].nodes \in SUBSET Node
    BY <1>0, RowType DEF TypeOK
  <2>4. CASE PlanFor(u, Current(u), read[u].nodes)
    <3>1. DOMAIN plan'[u] = DOMAIN plan[u] \cup {Current(u)}
      BY <1>0, <2>1, <2>3, <2>4, PlanForTyped
    <3> QED BY <1>0, <1>2, <2>1, <2>2, <3>1 DEF ClaimsSane
  <2>5. CASE pc[u] = "refresh" /\ read[u].ref_count # 0 /\ UNCHANGED plan
    <3>1. Stored(Current(u)) /\ Live(Current(u))
      BY <1>0, <2>5 DEF ClaimsSane, UploadSane
    <3>2. \A h \in {Current(u)} : Stored(h)'
      BY <1>1, <3>1
    <3> QED BY <1>0, <1>2, <2>1, <2>2, <2>5, <3>2 DEF ClaimsSane
  <2> QED BY <2>1, <2>4, <2>5
<1>5. CASE CommitInit(u)
  <2>1. InInit(u) /\ at[u] > Len(ChunksOf[u]) /\ pc'[u] = "transfer" /\ UNCHANGED plan
    BY <1>0, <1>5 DEF CommitInit, InInit, Goto, TypeOK
  <2>2. Before(u) = Range(ChunksOf[u])
    BY <1>0, <2>1, BeforeEnd
  <2> QED BY <1>2, <2>1, <2>2 DEF ClaimsSane, InInit
<1>6. CASE Transfer(u)
  <2>1. pc[u] = "transfer" /\ pc'[u] = "increment" /\ UNCHANGED <<chunks, plan>>
    BY <1>0, <1>6 DEF Transfer, Goto, TypeOK
  <2>2. ASSUME NEW h \in Range(ChunksOf[u]) PROVE Stored(h)'
    <3>1. Firm(h) /\ (h \in DOMAIN plan[u] \/ Stored(h))
      BY <1>0, <2>1 DEF UploadSane, ClaimsSane
    <3>2. CASE Stored(h)
      BY <1>1, <3>1, <3>2 DEF Firm
    <3>3. CASE h \in DOMAIN plan[u] /\ plan[u][h] # chunks[h].nodes
      BY <2>1, <3>1, <3>3 DEF Stored, Misrouted, Firm, Live
    <3>4. CASE h \in DOMAIN plan[u] /\ plan[u][h] = chunks[h].nodes
      <4>1. h \in DOMAIN chunks /\ h \in Hash /\ chunks[h].nodes \in SUBSET Node
        BY <1>0, <3>1 DEF Firm, Live, TypeOK, IsTable, Row
      <4>2. PICK n \in Node : n \in chunks[h].nodes
        BY <1>0, <4>1 DEF RowsSane
      <4>3. <<h, n>> \in stored'
        BY <1>6, <3>4, <4>1, <4>2 DEF Transfer
      <4>4. <<h, n>> \in Replicas(h)'
        BY <2>1, <4>2 DEF Replicas
      <4> QED BY <2>1, <4>1, <4>3, <4>4 DEF Stored
    <3> QED BY <3>1, <3>2, <3>3, <3>4
  <2> QED BY <2>1, <2>2 DEF ClaimsSane, InInit
<1>7. CASE Increment(u)
  <2>1. pc[u] = "increment" /\ pc'[u] = "increment"
    BY <1>7 DEF Increment, AtChunk
  <2>2. \A h \in Range(ChunksOf[u]) : Stored(h)'
    BY <1>0, <1>1, <2>1, ClaimsLive DEF ClaimsSane
  <2> QED BY <2>1, <2>2 DEF ClaimsSane, InInit
<1>8. CASE CommitUpload(u)
  <2>1. pc'[u] = "done"
    BY <1>0, <1>8 DEF CommitUpload, Goto, TypeOK
  <2> QED BY <2>1 DEF ClaimsSane, InInit
<1> QED BY <1>3, <1>4, <1>5, <1>6, <1>7, <1>8 DEF UploadStep

\* No worker is late if none may be.
LEMMA NeverLate ==
  ASSUME ~LateDeletes, late = {}, Next
  PROVE  late' = {}
<1>1. CASE \E u \in Upload : UploadStep(u)
  BY <1>1 DEF UploadStep, Select, Insert, Refresh, CommitInit, Transfer, Increment, CommitUpload
<1>2. CASE \E d \in Delete : DeleteStep(d)
  BY <1>2 DEF DeleteStep, SelectFile, Decrement, CommitDelete
<1>3. CASE \E c \in Collector : CollectorStep(c)
  BY <1>3 DEF CollectorStep, Sweep, BulkDelete, PurgeChunk, RevertChunk
<1>4. CASE (\E t \in Session : Abort(t)) \/ (\E r \in late : LateDelete(r)) \/ Reroute
  BY <1>4 DEF Abort, Reroute
<1> QED BY <1>1, <1>2, <1>3, <1>4, Steps

\* Every step preserves StoredInv.
LEMMA StoredStep ==
  ASSUME SaneRequests, ~LateDeletes, TxnInv, StoredInv, [Next]_txnVars
  PROVE  StoredInv'
<1>1. CASE UNCHANGED txnVars
  BY <1>1 DEF txnVars, StoredInv, Stored, Replicas, Misrouted, ClaimsSane, InInit, Before, Current
<1>2. CASE Next
  <2>0. TypeOK
    BY DEF TxnInv, BatchInv
  <2>1. late' = {}
    BY <1>2, NeverLate DEF StoredInv
  <2>2. ASSUME NEW h \in DOMAIN chunks', chunks'[h].ref_count >= 1 PROVE Stored(h)'
    <3>1. CASE h \in DOMAIN chunks /\ chunks[h].ref_count >= 1
      <4>1. chunks[h].ref_count \in Int
        BY <2>0, <3>1 DEF TypeOK, IsTable, Row
      <4>2. Stored(h) /\ Live(h)
        BY <3>1, <4>1 DEF StoredInv, Live
      <4> QED BY <1>2, <4>2, StoredKept
    <3>2. CASE \E u \in Upload : pc[u] = "increment" /\ h \in Range(ChunksOf[u])
      <4>1. Stored(h) /\ Live(h)
        BY <3>2, ClaimsLive DEF StoredInv, ClaimsSane
      <4> QED BY <1>2, <4>1, StoredKept
    <3> QED BY <1>2, <2>2, <3>1, <3>2, CountGrows
  <2>3. ASSUME NEW v \in Upload PROVE ClaimsSane(v)'
    <3>0. v \in Session /\ v \notin Delete /\ v \notin Collector
      BY TxnAssumption DEF Session
    <3>1. CASE UploadStep(v)
      BY <1>2, <3>1, OwnClaims
    <3>2. CASE Abort(v)
      <4>1. pc'[v] = "failed"
        BY <2>0, <3>0, <3>2 DEF Abort, Goto, TypeOK, Process
      <4> QED BY <4>1 DEF ClaimsSane, InInit
    <3>3. CASE \E P : v \notin P /\ Others(P)
      <4>1. pc'[v] = pc[v] /\ at'[v] = at[v] /\ read'[v] = read[v] /\ plan'[v] = plan[v]
        BY <3>0, <3>3 DEF Others
      <4> QED BY <1>2, <4>1, OtherClaims
    <3>4. CASE \E u \in Upload : UploadStep(u)
      <4>1. PICK u \in Upload : UploadStep(u)
        BY <3>4
      <4>2. Others({u})
        BY <2>0, <4>1, SessionAlone DEF Session
      <4> QED BY <3>1, <3>3, <4>1, <4>2
    <3>5. CASE \E d \in Delete : DeleteStep(d)
      <4>1. PICK d \in Delete : DeleteStep(d)
        BY <3>5
      <4>2. Others({d})
        BY <2>0, <4>1, SessionAlone DEF Session
      <4> QED BY <3>0, <3>3, <4>1, <4>2
    <3>6. CASE \E c \in Collector : CollectorStep(c)
      <4>1. Others({})
        BY <2>0, <3>6, CollectorOthers
      <4> QED BY <3>3, <4>1
    <3>7. CASE \E t \in Session : Abort(t)
      <4>1. PICK t \in Session : Abort(t)
        BY <3>7
      <4>2. Others({t})
        BY <2>0, <4>1, SessionAlone
      <4> QED BY <3>2, <3>3, <4>1, <4>2
    <3>8. CASE (\E r \in late : LateDelete(r)) \/ Reroute
      <4>1. Others({})
        BY <3>8 DEF LateDelete, Reroute, Others
      <4> QED BY <3>3, <4>1
    <3> QED BY <1>2, <3>4, <3>5, <3>6, <3>7, <3>8, Steps
  <2> QED BY <2>1, <2>2, <2>3 DEF StoredInv
<1> QED BY <1>1, <1>2

\* StoredInv holds at the beginning.
LEMMA StoredInit ==
  ASSUME SaneRequests, Init
  PROVE  StoredInv
<1>0. TxnInv /\ TypeOK
  BY TxnInit DEF TxnInv, BatchInv
<1>1. late = {} /\ stored = {r \in Hash \X Node : r[1] \in DOMAIN chunks /\ r[2] \in chunks[r[1]].nodes}
  BY DEF Init
<1>2. ASSUME NEW h \in DOMAIN chunks PROVE Stored(h)
  <2>1. h \in Hash /\ chunks[h].nodes \in SUBSET Node /\ chunks[h].nodes # {}
    BY <1>0 DEF TypeOK, IsTable, Row, TxnInv, RowsSane
  <2>2. PICK n \in Node : n \in chunks[h].nodes
    BY <2>1
  <2>3. <<h, n>> \in stored /\ <<h, n>> \in Replicas(h)
    BY <1>1, <2>1, <2>2 DEF Replicas
  <2> QED BY <2>3 DEF Stored
<1>3. ASSUME NEW u \in Upload PROVE ClaimsSane(u)
  <2>1. pc[u] = "select" /\ at[u] = 1 /\ DOMAIN plan[u] = {}
    BY TxnAssumption, EmptyTable DEF Init, Process, Session
  <2>2. Before(u) = {}
    BY <1>0, <2>1, BeforeEnd
  <2> QED BY <2>1, <2>2 DEF ClaimsSane
<1> QED BY <1>1, <1>2, <1>3 DEF StoredInv

\* While, besides, no worker deletes after the collector has given up on it, a
\* committed file can be downloaded: each of its chunks has a row, and a replica
\* on a node the row names unless an upload was misrouted.
THEOREM CommittedFilesAlwaysStored ==
  SaneRequests /\ ~LateDeletes => (Spec /\ [][SelectedKept]_txnVars => []CommittedFilesStored)
<1>1. SUFFICES ASSUME SaneRequests, ~LateDeletes
               PROVE  Spec /\ [][SelectedKept]_txnVars => []CommittedFilesStored
  OBVIOUS
<1>2. Spec /\ [][SelectedKept]_txnVars => []TxnInv
  BY <1>1, TxnInvAlways
<1>3. Init => StoredInv
  BY <1>1, StoredInit
<1>4. TxnInv /\ StoredInv /\ [Next]_txnVars => StoredInv'
  BY <1>1, StoredStep
<1>5. TxnInv /\ StoredInv => CommittedFilesStored
  BY UsedRow DEF StoredInv, Stored, CommittedFilesStored
<1> QED BY <1>2, <1>3, <1>4, <1>5, PTL DEF Spec
=============================================================================
