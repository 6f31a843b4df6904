------------------------- MODULE StorageEngineProofs ------------------------
(***************************************************************************)
(* Proofs about StorageEngine, for every number of clients, masters,       *)
(* workers, chunks and files and for all values of the time bounds that    *)
(* meet the stated hypotheses.                                             *)
(***************************************************************************)
EXTENDS StorageEngineInv, FiniteSetTheorems, FunctionTheorems, TLAPS

-----------------------------------------------------------------------------
(* Operators.                                                              *)

\* A chunk that occurs in a file is counted at least once by CommitFile.
LEMMA OccurrencesPositive ==
  ASSUME NEW s \in Seq(Hash), NEW h \in Range(s)
  PROVE  Occurrences(s, h) \in Nat /\ Occurrences(s, h) >= 1
<1> DEFINE I == {i \in DOMAIN s : s[i] = h}
<1>1. PICK i \in DOMAIN s : s[i] = h
  BY DEF Range
<1>2. Len(s) \in Nat /\ DOMAIN s = 1 .. Len(s)
  OBVIOUS
<1>3. IsFiniteSet(1 .. Len(s))
  BY <1>2, FS_Interval
<1>4. IsFiniteSet(I)
  BY <1>2, <1>3, FS_Subset
<1>5. Cardinality(I) \in Nat /\ Cardinality(I) # 0
  BY <1>1, <1>4, FS_CardinalityType, FS_EmptySet
<1> QED
  BY <1>5 DEF Occurrences

\* A chunk occurs in a file of Contents only if it is a chunk.
LEMMA ContentsRange ==
  ASSUME NEW s \in Contents
  PROVE  /\ s \in Seq(Hash)
         /\ Range(s) \subseteq Hash
         /\ DOMAIN s = 1 .. Len(s) /\ Len(s) \in Nat
         /\ \A i \in DOMAIN s : s[i] \in Range(s) /\ i \in Index
<1>1. s \in Seq(Hash)
  BY RepositoryAssumption
<1> QED
  BY <1>1 DEF Range, Index

\* The files that use a chunk are finitely many.
LEMMA HoldersFinite ==
  ASSUME RepositoryTypeOK, NEW h
  PROVE  IsFiniteSet(Holders(h)) /\ Cardinality(Holders(h)) \in Nat
BY FS_Subset, FS_CardinalityType DEF Holders, RepositoryTypeOK

-----------------------------------------------------------------------------
(* The transactions of the repository.  Each keeps the tables sane and the *)
(* counts safe, moves no row to other nodes, and leaves a row alone that   *)
(* was created or refreshed within the last ExpiryHours.                   *)

TablesInv == RepositoryTypeOK /\ ReferencesCounted /\ RowsSane

\* A row that is young enough stays protected.
ProtectionKept ==
  \A h, t : (Protected(h, t) /\ t \in Nat /\ t <= now /\ now <= t + ExpiryHours)
            => Protected(h, t)'

\* No transaction changes the nodes of a row.
NodesKept ==
  \A h \in DOMAIN chunks : h \in DOMAIN chunks' => chunks'[h].nodes = chunks[h].nodes

\* The fields of a row.
LEMMA RowFields ==
  ASSUME RepositoryTypeOK
  PROVE  \A h \in DOMAIN chunks : /\ chunks[h].nodes \in NodeSets
                                  /\ chunks[h].ref_count \in Int
                                  /\ chunks[h].created_at \in Nat
BY DEF RepositoryTypeOK, Row

\* upload-init refreshes or creates every row it is asked about.
LEMMA FilterMissingChunksStep ==
  ASSUME TablesInv, NEW s \in Contents, NEW placement \in [Absent(s) -> NodeSets],
         FilterMissingChunks(s, placement)
  PROVE  /\ TablesInv' /\ ProtectionKept /\ NodesKept
         /\ DOMAIN chunks' = DOMAIN chunks \cup Range(s)
         /\ \A h \in Range(s) : Protected(h, now)'
         /\ \A h \in Absent(s) : chunks'[h].nodes = placement[h]
         /\ \A h \in DOMAIN chunks : chunks'[h].ref_count = chunks[h].ref_count
         /\ \A h \in Absent(s) : chunks'[h].ref_count = 0
<1>0. RepositoryTypeOK /\ ReferencesCounted /\ RowsSane
  BY DEF TablesInv
<1>1. Range(s) \subseteq Hash
  BY ContentsRange
<1>2. /\ now' = now /\ files' = files
      /\ chunks' = [h \in DOMAIN chunks \cup Range(s) |->
                      IF h \in Absent(s)
                      THEN ARow(placement[h], 0, now)
                      ELSE IF h \in Range(s)
                           THEN ARow(chunks[h].nodes, chunks[h].ref_count, now)
                           ELSE chunks[h]]
  BY DEF FilterMissingChunks
<1>3. \A h \in DOMAIN chunks : /\ chunks[h].nodes \in NodeSets
                               /\ chunks[h].ref_count \in Int
                               /\ chunks[h].created_at \in Nat
                               /\ chunks[h].ref_count >= -1
                               /\ chunks[h].created_at <= now
  BY <1>0, RowFields DEF RowsSane
<1>4. now \in Nat
  BY <1>0 DEF RepositoryTypeOK
<1>5. ASSUME NEW h \in Absent(s)
      PROVE  /\ h \in Range(s) /\ h \notin DOMAIN chunks
             /\ chunks'[h].nodes = placement[h] /\ chunks'[h].nodes \in NodeSets
             /\ chunks'[h].ref_count = 0
             /\ chunks'[h].created_at = now
  BY <1>2, <1>5 DEF ARow, Absent
<1>6. ASSUME NEW h \in DOMAIN chunks, h \in Range(s)
      PROVE  /\ chunks'[h].nodes = chunks[h].nodes
             /\ chunks'[h].ref_count = chunks[h].ref_count
             /\ chunks'[h].created_at = now
             /\ chunks[h].ref_count # -1
  <2>1. h \notin Absent(s)
    BY <1>6 DEF Absent
  <2>2. chunks[h].ref_count # -1
    BY <1>6 DEF FilterMissingChunks, Locked
  <2> QED
    BY <1>2, <1>6, <2>1, <2>2 DEF ARow
<1>7. ASSUME NEW h \in DOMAIN chunks, h \notin Range(s)
      PROVE  chunks'[h] = chunks[h]
  BY <1>2, <1>7 DEF Absent
<1>8. DOMAIN chunks' = DOMAIN chunks \cup Absent(s)
  BY <1>2 DEF Absent
<1>9. RepositoryTypeOK'
  <2>1. \A h \in DOMAIN chunks \cup Range(s) :
          (IF h \in Absent(s) THEN ARow(placement[h], 0, now)
           ELSE IF h \in Range(s) THEN ARow(chunks[h].nodes, chunks[h].ref_count, now)
           ELSE chunks[h]) \in Row
    BY <1>0, <1>3, <1>4 DEF Row, ARow, Absent, RepositoryTypeOK
  <2>2. chunks' \in [DOMAIN chunks' -> Row]
    BY <1>2, <2>1
  <2> QED
    BY <1>0, <1>1, <1>2, <2>2 DEF RepositoryTypeOK
<1>10. ReferencesCounted'
  <2>1. \A h : Holders(h)' = Holders(h)
    BY <1>2 DEF Holders
  <2> QED
    BY <1>0, <1>6, <1>7, <1>8, <2>1 DEF ReferencesCounted
<1>11. RowsSane'
  <2> SUFFICES ASSUME NEW h \in DOMAIN chunks'
               PROVE  chunks'[h].ref_count >= -1 /\ chunks'[h].created_at <= now
    BY <1>2 DEF RowsSane
  <2>1. CASE h \in Absent(s)
    BY <1>4, <1>5, <2>1
  <2>2. CASE h \in DOMAIN chunks /\ h \in Range(s)
    BY <1>3, <1>4, <1>6, <2>2
  <2>3. CASE h \in DOMAIN chunks /\ h \notin Range(s)
    BY <1>3, <1>7, <2>3
  <2> QED
    BY <1>8, <2>1, <2>2, <2>3
<1>12. ProtectionKept
  BY <1>3, <1>4, <1>6, <1>7, <1>8 DEF ProtectionKept, Protected
<1>13. NodesKept
  BY <1>6, <1>7 DEF NodesKept
<1>14. \A h \in Range(s) : Protected(h, now)'
  <2> SUFFICES ASSUME NEW h \in Range(s)
               PROVE  Protected(h, now)'
    OBVIOUS
  <2>1. CASE h \in DOMAIN chunks
    BY <1>2, <1>3, <1>4, <1>6, <1>8, <2>1 DEF Protected
  <2>2. CASE h \notin DOMAIN chunks
    BY <1>2, <1>4, <1>5, <1>8, <2>2 DEF Protected, Absent
  <2> QED
    BY <2>1, <2>2
<1>15. \A h \in DOMAIN chunks : chunks'[h].ref_count = chunks[h].ref_count
  BY <1>6, <1>7
<1> QED
  BY <1>2, <1>5, <1>9, <1>10, <1>11, <1>12, <1>13, <1>14, <1>15 DEF TablesInv

\* The chunks of a committed file get at least one reference more.
LEMMA CommitFileStep ==
  ASSUME TablesInv, NEW n \in Name, NEW s \in Contents, CommitFile(n, s),
         \A h \in Range(s) : h \in DOMAIN chunks /\ chunks[h].ref_count >= 0
  PROVE  /\ TablesInv' /\ ProtectionKept /\ NodesKept
         /\ DOMAIN chunks' = DOMAIN chunks
         /\ \A h \in DOMAIN chunks \ Range(s) : chunks'[h] = chunks[h]
<1>0. RepositoryTypeOK /\ ReferencesCounted /\ RowsSane
  BY DEF TablesInv
<1>1. s \in Seq(Hash) /\ Range(s) \subseteq Hash
  BY ContentsRange
<1>2. PICK f \in FileId \ DOMAIN files :
        files' = [g \in DOMAIN files \cup {f} |->
                    IF g = f THEN [name |-> n, chunks |-> s] ELSE files[g]]
  BY DEF CommitFile
<1>3. /\ now' = now
      /\ chunks' = [h \in DOMAIN chunks |->
                      IF h \in Range(s)
                      THEN ARow(chunks[h].nodes, chunks[h].ref_count + Occurrences(s, h), now)
                      ELSE chunks[h]]
  BY DEF CommitFile
<1>4. \A h \in DOMAIN chunks : /\ chunks[h].nodes \in NodeSets
                               /\ chunks[h].ref_count \in Int
                               /\ chunks[h].created_at \in Nat
                               /\ chunks[h].ref_count >= -1
                               /\ chunks[h].created_at <= now
  BY <1>0, RowFields DEF RowsSane
<1>5. now \in Nat
  BY <1>0 DEF RepositoryTypeOK
<1>6. \A h \in Range(s) : Occurrences(s, h) \in Nat /\ Occurrences(s, h) >= 1
  BY <1>1, OccurrencesPositive
<1>7. ASSUME NEW h \in Range(s)
      PROVE  /\ h \in DOMAIN chunks
             /\ chunks'[h].nodes = chunks[h].nodes
             /\ chunks'[h].ref_count \in Int
             /\ chunks'[h].ref_count >= chunks[h].ref_count + 1
             /\ chunks'[h].created_at = now
  BY <1>3, <1>4, <1>6, <1>7 DEF ARow
<1>8. ASSUME NEW h \in DOMAIN chunks, h \notin Range(s)
      PROVE  chunks'[h] = chunks[h]
  BY <1>3, <1>8
<1>9. DOMAIN chunks' = DOMAIN chunks
  BY <1>3
<1>10. RepositoryTypeOK'
  <2>1. \A h \in DOMAIN chunks :
          (IF h \in Range(s)
           THEN ARow(chunks[h].nodes, chunks[h].ref_count + Occurrences(s, h), now)
           ELSE chunks[h]) \in Row
    BY <1>0, <1>4, <1>5, <1>6 DEF Row, ARow, RepositoryTypeOK
  <2>2. chunks' \in [DOMAIN chunks' -> Row]
    BY <1>3, <2>1
  <2>3. IsFiniteSet(DOMAIN files')
    BY <1>0, <1>2, FS_AddElement DEF RepositoryTypeOK
  <2>4. files' \in [DOMAIN files' -> File] /\ DOMAIN files' \subseteq FileId
    BY <1>0, <1>2 DEF File, RepositoryTypeOK
  <2> QED
    BY <1>0, <1>3, <1>9, <2>2, <2>3, <2>4 DEF RepositoryTypeOK
<1>11. ReferencesCounted'
  <2> SUFFICES ASSUME NEW h \in Hash, Holders(h)' # {}
               PROVE  /\ h \in DOMAIN chunks'
                      /\ chunks'[h].ref_count >= Cardinality(Holders(h)')
    BY DEF ReferencesCounted
  <2>1. IsFiniteSet(Holders(h)) /\ Cardinality(Holders(h)) \in Nat
    BY <1>0, HoldersFinite
  <2>2. CASE h \in Range(s)
    <3>1. Holders(h)' = Holders(h) \cup {f} /\ f \notin Holders(h)
      BY <1>2, <2>2 DEF Holders
    <3>2. Cardinality(Holders(h)') = Cardinality(Holders(h)) + 1
      BY <2>1, <3>1, FS_AddElement
    <3>3. chunks[h].ref_count >= Cardinality(Holders(h))
      <4>1. CASE Holders(h) = {}
        BY <4>1, <2>2, FS_EmptySet
      <4>2. CASE Holders(h) # {}
        BY <1>0, <4>2 DEF ReferencesCounted
      <4> QED
        BY <4>1, <4>2
    <3>4. chunks[h].ref_count \in Int
      BY <1>4, <2>2
    <3> QED
      BY <1>7, <1>9, <2>1, <2>2, <3>2, <3>3, <3>4
  <2>3. CASE h \notin Range(s)
    <3>1. Holders(h)' = Holders(h)
      BY <1>2, <2>3 DEF Holders
    <3> QED
      BY <1>0, <1>8, <1>9, <2>3, <3>1 DEF ReferencesCounted
  <2> QED
    BY <2>2, <2>3
<1>12. RowsSane'
  <2> SUFFICES ASSUME NEW h \in DOMAIN chunks
               PROVE  chunks'[h].ref_count >= -1 /\ chunks'[h].created_at <= now
    BY <1>3, <1>9 DEF RowsSane
  <2>1. CASE h \in Range(s)
    BY <1>4, <1>5, <1>7, <2>1
  <2>2. CASE h \notin Range(s)
    BY <1>4, <1>8, <2>2
  <2> QED
    BY <2>1, <2>2
<1>13. ProtectionKept
  <2> SUFFICES ASSUME NEW h, NEW t \in Nat, Protected(h, t), t <= now
               PROVE  Protected(h, t)'
    BY DEF ProtectionKept
  <2>1. CASE h \in Range(s)
    BY <1>4, <1>5, <1>7, <1>9, <2>1 DEF Protected
  <2>2. CASE h \notin Range(s)
    BY <1>8, <1>9, <2>2 DEF Protected
  <2> QED
    BY <2>1, <2>2
<1>14. NodesKept
  BY <1>7, <1>8 DEF NodesKept
<1> QED
  BY <1>8, <1>9, <1>10, <1>11, <1>12, <1>13, <1>14 DEF TablesInv

\* A removed file takes at most the references it had; nothing goes below zero.
LEMMA DeleteFileStep ==
  ASSUME TablesInv, NEW n \in Name, DeleteFile(n)
  PROVE  /\ TablesInv' /\ ProtectionKept /\ NodesKept
         /\ DOMAIN chunks' = DOMAIN chunks
         /\ \A h \in DOMAIN chunks :
              /\ chunks'[h].ref_count <= chunks[h].ref_count
              /\ chunks[h].ref_count = -1 => chunks'[h].ref_count = -1
<1>0. RepositoryTypeOK /\ ReferencesCounted /\ RowsSane
  BY DEF TablesInv
<1>1. PICK f \in RowsOf(n) :
        chunks' = [h \in DOMAIN chunks |->
                     IF h \in Range(files[f].chunks)
                     THEN ARow(chunks[h].nodes, chunks[h].ref_count - 1, chunks[h].created_at)
                     ELSE chunks[h]]
  BY DEF DeleteFile
<1>2. /\ now' = now /\ DOMAIN chunks' = DOMAIN chunks
      /\ files' = [g \in DOMAIN files \ RowsOf(n) |-> files[g]]
      /\ f \in DOMAIN files
  BY <1>1 DEF DeleteFile, RowsOf
<1>3. \A h \in DOMAIN chunks : /\ chunks[h].nodes \in NodeSets
                               /\ chunks[h].ref_count \in Int
                               /\ chunks[h].created_at \in Nat
                               /\ chunks[h].ref_count >= -1
                               /\ chunks[h].created_at <= now
  BY <1>0, RowFields DEF RowsSane
<1>4. ASSUME NEW h \in DOMAIN chunks, h \in Range(files[f].chunks)
      PROVE  /\ chunks'[h].nodes = chunks[h].nodes
             /\ chunks'[h].ref_count = chunks[h].ref_count - 1
             /\ chunks'[h].created_at = chunks[h].created_at
             /\ f \in Holders(h)
             /\ chunks[h].ref_count >= 1
  <2>1. f \in Holders(h)
    BY <1>2, <1>4 DEF Holders
  <2>2. IsFiniteSet(Holders(h)) /\ Cardinality(Holders(h)) \in Nat
    BY <1>0, HoldersFinite
  <2>3. Cardinality(Holders(h)) # 0
    BY <2>1, <2>2, FS_EmptySet
  <2>4. h \in Hash
    BY <1>0 DEF RepositoryTypeOK
  <2>5. chunks[h].ref_count >= Cardinality(Holders(h))
    BY <1>0, <2>1, <2>4 DEF ReferencesCounted
  <2>6. chunks[h].ref_count >= 1
    BY <1>3, <2>2, <2>3, <2>5
  <2> QED
    BY <1>1, <1>4, <2>1, <2>6 DEF ARow
<1>5. ASSUME NEW h \in DOMAIN chunks, h \notin Range(files[f].chunks)
      PROVE  chunks'[h] = chunks[h]
  BY <1>1, <1>5
<1>6. RepositoryTypeOK'
  <2>1. \A h \in DOMAIN chunks :
          (IF h \in Range(files[f].chunks)
           THEN ARow(chunks[h].nodes, chunks[h].ref_count - 1, chunks[h].created_at)
           ELSE chunks[h]) \in Row
    BY <1>0, <1>3 DEF Row, ARow, RepositoryTypeOK
  <2>2. chunks' \in [DOMAIN chunks' -> Row]
    BY <1>1, <2>1
  <2>3. IsFiniteSet(DOMAIN files')
    BY <1>0, <1>2, FS_Subset DEF RepositoryTypeOK
  <2>4. files' \in [DOMAIN files' -> File] /\ DOMAIN files' \subseteq FileId
    BY <1>0, <1>2 DEF RepositoryTypeOK
  <2> QED
    BY <1>0, <1>2, <2>2, <2>3, <2>4 DEF RepositoryTypeOK
<1>7. ReferencesCounted'
  <2> SUFFICES ASSUME NEW h \in Hash, Holders(h)' # {}
               PROVE  /\ h \in DOMAIN chunks'
                      /\ chunks'[h].ref_count >= Cardinality(Holders(h)')
    BY DEF ReferencesCounted
  <2>1. IsFiniteSet(Holders(h)) /\ Cardinality(Holders(h)) \in Nat
    BY <1>0, HoldersFinite
  <2>2. Holders(h)' \subseteq Holders(h) \ RowsOf(n)
    BY <1>2 DEF Holders
  <2>3. /\ h \in DOMAIN chunks
        /\ chunks[h].ref_count >= Cardinality(Holders(h))
    BY <1>0, <2>2 DEF ReferencesCounted
  <2>4. chunks[h].ref_count \in Int
    BY <1>3, <2>3
  <2>5. CASE h \in Range(files[f].chunks)
    <3>1. Holders(h)' \subseteq Holders(h) \ {f}
      BY <2>2
    <3>2. /\ IsFiniteSet(Holders(h) \ {f})
          /\ Cardinality(Holders(h) \ {f}) = Cardinality(Holders(h)) - 1
      BY <1>4, <2>1, <2>3, <2>5, FS_RemoveElement
    <3>3. /\ Cardinality(Holders(h)') <= Cardinality(Holders(h)) - 1
          /\ Cardinality(Holders(h)') \in Nat
      BY <3>1, <3>2, FS_Subset, FS_CardinalityType
    <3> QED
      BY <1>2, <1>4, <2>1, <2>3, <2>4, <2>5, <3>3
  <2>6. CASE h \notin Range(files[f].chunks)
    <3>1. /\ Cardinality(Holders(h)') <= Cardinality(Holders(h))
          /\ Cardinality(Holders(h)') \in Nat
      BY <2>1, <2>2, FS_Subset, FS_CardinalityType
    <3> QED
      BY <1>2, <1>5, <2>1, <2>3, <2>4, <2>6, <3>1
  <2> QED
    BY <2>5, <2>6
<1>8. ASSUME NEW h \in DOMAIN chunks
      PROVE  /\ chunks'[h].nodes = chunks[h].nodes
             /\ chunks'[h].ref_count \in Int
             /\ chunks'[h].created_at = chunks[h].created_at
             /\ chunks'[h].ref_count <= chunks[h].ref_count
             /\ chunks'[h].ref_count >= -1
             /\ chunks[h].ref_count >= 0 => chunks'[h].ref_count >= 0
             /\ chunks[h].ref_count = -1 => chunks'[h].ref_count = -1
  <2>1. CASE h \in Range(files[f].chunks)
    BY <1>3, <1>4, <2>1
  <2>2. CASE h \notin Range(files[f].chunks)
    BY <1>3, <1>5, <2>2
  <2> QED
    BY <2>1, <2>2
<1>9. RowsSane'
  BY <1>2, <1>3, <1>8 DEF RowsSane
<1>10. ProtectionKept /\ NodesKept
  BY <1>2, <1>3, <1>8 DEF ProtectionKept, NodesKept, Protected
<1> QED
  BY <1>2, <1>6, <1>7, <1>8, <1>9, <1>10 DEF TablesInv

\* The sweep tombstones only rows that no file uses and that are old.
LEMMA GetOrphanedChunksStep ==
  ASSUME TablesInv, NEW batch, GetOrphanedChunks(batch)
  PROVE  /\ TablesInv' /\ ProtectionKept /\ NodesKept
         /\ DOMAIN chunks' = DOMAIN chunks /\ batch \subseteq DOMAIN chunks
         /\ \A h \in batch : chunks[h].ref_count = 0 /\ chunks'[h].ref_count = -1
         /\ \A h \in DOMAIN chunks \ batch : chunks'[h] = chunks[h]
<1>0. RepositoryTypeOK /\ ReferencesCounted /\ RowsSane
  BY DEF TablesInv
<1>1. /\ now' = now /\ files' = files
      /\ chunks' = [h \in DOMAIN chunks |->
                      IF h \in batch THEN ARow(chunks[h].nodes, -1, chunks[h].created_at)
                                     ELSE chunks[h]]
  BY DEF GetOrphanedChunks
<1>2. \A h \in DOMAIN chunks : /\ chunks[h].nodes \in NodeSets
                               /\ chunks[h].ref_count \in Int
                               /\ chunks[h].created_at \in Nat
                               /\ chunks[h].ref_count >= -1
                               /\ chunks[h].created_at <= now
  BY <1>0, RowFields DEF RowsSane
<1>3. now \in Nat /\ ExpiryHours \in Nat /\ DOMAIN chunks' = DOMAIN chunks
  BY <1>0, <1>1, RepositoryAssumption DEF RepositoryTypeOK
<1>4. ASSUME NEW h \in batch
      PROVE  /\ h \in DOMAIN chunks
             /\ chunks[h].ref_count = 0 /\ chunks[h].created_at < now - ExpiryHours
             /\ chunks'[h].nodes = chunks[h].nodes
             /\ chunks'[h].ref_count = -1
             /\ chunks'[h].created_at = chunks[h].created_at
  BY <1>1, <1>4 DEF GetOrphanedChunks, Eligible, ARow
<1>5. ASSUME NEW h \in DOMAIN chunks, h \notin batch
      PROVE  chunks'[h] = chunks[h]
  BY <1>1, <1>5
<1>6. RepositoryTypeOK'
  <2>1. \A h \in DOMAIN chunks :
          (IF h \in batch THEN ARow(chunks[h].nodes, -1, chunks[h].created_at)
                          ELSE chunks[h]) \in Row
    BY <1>0, <1>2 DEF Row, ARow, RepositoryTypeOK
  <2>2. chunks' \in [DOMAIN chunks' -> Row]
    BY <1>1, <2>1
  <2> QED
    BY <1>0, <1>1, <1>3, <2>2 DEF RepositoryTypeOK
<1>7. ReferencesCounted'
  <2> SUFFICES ASSUME NEW h \in Hash, Holders(h)' # {}
               PROVE  /\ h \in DOMAIN chunks'
                      /\ chunks'[h].ref_count >= Cardinality(Holders(h)')
    BY DEF ReferencesCounted
  <2>1. Holders(h)' = Holders(h)
    BY <1>1 DEF Holders
  <2>2. IsFiniteSet(Holders(h)) /\ Cardinality(Holders(h)) \in Nat
    BY <1>0, HoldersFinite
  <2>3. Cardinality(Holders(h)) # 0
    BY <2>1, <2>2, FS_EmptySet
  <2>4. h \in DOMAIN chunks /\ chunks[h].ref_count >= Cardinality(Holders(h))
    BY <1>0, <2>1 DEF ReferencesCounted
  <2>5. h \notin batch
    BY <1>4, <2>2, <2>3, <2>4
  <2> QED
    BY <1>3, <1>5, <2>1, <2>4, <2>5
<1>8. RowsSane'
  <2> SUFFICES ASSUME NEW h \in DOMAIN chunks
               PROVE  chunks'[h].ref_count >= -1 /\ chunks'[h].created_at <= now
    BY <1>1, <1>3 DEF RowsSane
  <2>1. CASE h \in batch
    BY <1>2, <1>4, <2>1
  <2>2. CASE h \notin batch
    BY <1>2, <1>5, <2>2
  <2> QED
    BY <2>1, <2>2
<1>9. ProtectionKept
  <2> SUFFICES ASSUME NEW h, NEW t \in Nat, Protected(h, t), now <= t + ExpiryHours
               PROVE  Protected(h, t)'
    BY DEF ProtectionKept
  <2>1. h \in DOMAIN chunks /\ chunks[h].created_at >= t
    BY DEF Protected
  <2>2. h \notin batch
    BY <1>2, <1>3, <1>4, <2>1
  <2> QED
    BY <1>3, <1>5, <2>1, <2>2 DEF Protected
<1>10. NodesKept
  BY <1>4, <1>5 DEF NodesKept
<1> QED
  BY <1>3, <1>4, <1>5, <1>6, <1>7, <1>8, <1>9, <1>10 DEF TablesInv

\* Only tombstoned rows are removed.
LEMMA DeleteChunkRecordsBulkStep ==
  ASSUME TablesInv, NEW hashes, DeleteChunkRecordsBulk(hashes)
  PROVE  /\ TablesInv' /\ ProtectionKept /\ NodesKept
         /\ DOMAIN chunks' \subseteq DOMAIN chunks
         /\ \A h \in DOMAIN chunks' : chunks'[h] = chunks[h]
         /\ \A h \in DOMAIN chunks \ DOMAIN chunks' : h \in hashes /\ chunks[h].ref_count = -1
<1>0. RepositoryTypeOK /\ ReferencesCounted /\ RowsSane
  BY DEF TablesInv
<1>1. /\ now' = now /\ files' = files /\ DOMAIN chunks' \subseteq DOMAIN chunks
      /\ \A h \in DOMAIN chunks' : chunks'[h] = chunks[h]
      /\ \A h \in DOMAIN chunks \ DOMAIN chunks' : h \in hashes /\ chunks[h].ref_count = -1
  BY DEF DeleteChunkRecordsBulk
<1>2. RepositoryTypeOK'
  <2>1. chunks' \in [DOMAIN chunks' -> Row]
    BY <1>0, <1>1 DEF DeleteChunkRecordsBulk, RepositoryTypeOK
  <2> QED
    BY <1>0, <1>1, <2>1 DEF RepositoryTypeOK
<1>3. ReferencesCounted'
  <2> SUFFICES ASSUME NEW h \in Hash, Holders(h)' # {}
               PROVE  /\ h \in DOMAIN chunks'
                      /\ chunks'[h].ref_count >= Cardinality(Holders(h)')
    BY DEF ReferencesCounted
  <2>1. Holders(h)' = Holders(h)
    BY <1>1 DEF Holders
  <2>2. IsFiniteSet(Holders(h)) /\ Cardinality(Holders(h)) \in Nat
    BY <1>0, HoldersFinite
  <2>3. h \in DOMAIN chunks /\ chunks[h].ref_count >= Cardinality(Holders(h))
    BY <1>0, <2>1 DEF ReferencesCounted
  <2>4. h \in DOMAIN chunks'
    BY <1>1, <2>2, <2>3
  <2> QED
    BY <1>1, <2>1, <2>3, <2>4
<1>4. RowsSane'
  BY <1>0, <1>1 DEF RowsSane
<1>5. ProtectionKept /\ NodesKept
  BY <1>1 DEF ProtectionKept, NodesKept, Protected
<1> QED
  BY <1>1, <1>2, <1>3, <1>4, <1>5 DEF TablesInv

\* Only a tombstoned row is reverted, and becomes pending.
LEMMA RevertTombstoneStep ==
  ASSUME TablesInv, NEW hash, RevertTombstone(hash)
  PROVE  /\ TablesInv' /\ ProtectionKept /\ NodesKept
         /\ DOMAIN chunks' = DOMAIN chunks
         /\ \A h \in DOMAIN chunks : h # hash => chunks'[h] = chunks[h]
         /\ \A h \in DOMAIN chunks :
              chunks'[h].ref_count = chunks[h].ref_count \/ chunks'[h].ref_count = 0
<1>0. RepositoryTypeOK /\ ReferencesCounted /\ RowsSane
  BY DEF TablesInv
<1>1. /\ now' = now /\ files' = files
      /\ chunks' = [h \in DOMAIN chunks |->
                      IF h = hash /\ chunks[h].ref_count = -1
                      THEN ARow(chunks[h].nodes, 0, now)
                      ELSE chunks[h]]
  BY DEF RevertTombstone
<1>2. \A h \in DOMAIN chunks : /\ chunks[h].nodes \in NodeSets
                               /\ chunks[h].ref_count \in Int
                               /\ chunks[h].created_at \in Nat
                               /\ chunks[h].ref_count >= -1
                               /\ chunks[h].created_at <= now
  BY <1>0, RowFields DEF RowsSane
<1>3. now \in Nat /\ DOMAIN chunks' = DOMAIN chunks
  BY <1>0, <1>1 DEF RepositoryTypeOK
<1>4. ASSUME NEW h \in DOMAIN chunks, h = hash, chunks[h].ref_count = -1
      PROVE  /\ chunks'[h].nodes = chunks[h].nodes
             /\ chunks'[h].ref_count = 0
             /\ chunks'[h].created_at = now
  BY <1>1, <1>4 DEF ARow
<1>5. ASSUME NEW h \in DOMAIN chunks, ~(h = hash /\ chunks[h].ref_count = -1)
      PROVE  chunks'[h] = chunks[h]
  BY <1>1, <1>5
<1>6. RepositoryTypeOK'
  <2>1. \A h \in DOMAIN chunks :
          (IF h = hash /\ chunks[h].ref_count = -1 THEN ARow(chunks[h].nodes, 0, now)
           ELSE chunks[h]) \in Row
    BY <1>0, <1>2, <1>3 DEF Row, ARow, RepositoryTypeOK
  <2>2. chunks' \in [DOMAIN chunks' -> Row]
    BY <1>1, <2>1
  <2> QED
    BY <1>0, <1>1, <1>3, <2>2 DEF RepositoryTypeOK
<1>7. ASSUME NEW h \in DOMAIN chunks
      PROVE  /\ chunks'[h].nodes = chunks[h].nodes
             /\ chunks'[h].ref_count \in Int
             /\ chunks'[h].ref_count >= -1
             /\ chunks'[h].created_at <= now
             /\ chunks[h].ref_count >= 0 => chunks'[h] = chunks[h]
             /\ chunks'[h].ref_count = chunks[h].ref_count \/ chunks'[h].ref_count = 0
  <2>1. CASE h = hash /\ chunks[h].ref_count = -1
    BY <1>3, <1>4, <2>1
  <2>2. CASE ~(h = hash /\ chunks[h].ref_count = -1)
    BY <1>2, <1>5, <2>2
  <2> QED
    BY <2>1, <2>2
<1>8. ReferencesCounted'
  <2> SUFFICES ASSUME NEW h \in Hash, Holders(h)' # {}
               PROVE  /\ h \in DOMAIN chunks'
                      /\ chunks'[h].ref_count >= Cardinality(Holders(h)')
    BY DEF ReferencesCounted
  <2>1. Holders(h)' = Holders(h)
    BY <1>1 DEF Holders
  <2>2. IsFiniteSet(Holders(h)) /\ Cardinality(Holders(h)) \in Nat
    BY <1>0, HoldersFinite
  <2>3. h \in DOMAIN chunks /\ chunks[h].ref_count >= Cardinality(Holders(h))
    BY <1>0, <2>1 DEF ReferencesCounted
  <2>4. chunks[h].ref_count >= 0
    BY <1>2, <2>2, <2>3
  <2> QED
    BY <1>3, <1>7, <2>1, <2>3, <2>4
<1>9. RowsSane'
  BY <1>1, <1>3, <1>7 DEF RowsSane
<1>10. ProtectionKept /\ NodesKept
  BY <1>3, <1>7 DEF ProtectionKept, NodesKept, Protected
<1>11. \A h \in DOMAIN chunks : h # hash => chunks'[h] = chunks[h]
  BY <1>5
<1> QED
  BY <1>3, <1>6, <1>7, <1>8, <1>9, <1>10, <1>11 DEF TablesInv

\* A step that leaves the tables alone.
LEMMA TablesUnchanged ==
  ASSUME TablesInv, UNCHANGED repositoryVars
  PROVE  TablesInv' /\ ProtectionKept /\ NodesKept
<1> USE DEF repositoryVars
<1>1. RepositoryTypeOK'
  BY DEF TablesInv, RepositoryTypeOK
<1>2. ReferencesCounted'
  BY DEF TablesInv, ReferencesCounted, Holders
<1>3. RowsSane'
  BY DEF TablesInv, RowsSane
<1>4. ProtectionKept /\ NodesKept
  BY DEF ProtectionKept, NodesKept, Protected
<1> QED
  BY <1>1, <1>2, <1>3, <1>4 DEF TablesInv

-----------------------------------------------------------------------------
(* The metadata invariant.                                                 *)

\* A client whose run a step does not touch keeps its claims.
LEMMA OtherRunsKept ==
  ASSUME MetadataInv, TransfersTimely, ProtectionKept, now' = now,
         NEW c \in Client, run'[c] = run[c]
  PROVE  RunSane(c)'
<1>1. /\ now \in Nat /\ run[c].since \in Nat
      /\ TransferBound \in Nat /\ ExpiryHours \in Nat /\ TransferBound <= ExpiryHours
      /\ RunSane(c)
  BY RepositoryAssumption, EngineAssumption
     DEF MetadataInv, TypeOK, RepositoryTypeOK, ClientTypeOK, Run, RunsSane, TransfersTimely
<1>2. ASSUME run[c].phase = "transfer", NEW h \in Range(run[c].chunk_hashes)
      PROVE  Protected(h, run[c].since)'
  <2>1. /\ Protected(h, run[c].since)
        /\ run[c].since <= now /\ now <= run[c].since + ExpiryHours
    BY <1>1, <1>2 DEF RunSane
  <2>2. \A t : (Protected(h, t) /\ t \in Nat /\ t <= now /\ now <= t + ExpiryHours)
                => Protected(h, t)'
    BY DEF ProtectionKept
  <2>3. \A t : (Protected(h, t) /\ t = run[c].since) => Protected(h, t)'
    BY <1>1, <2>1, <2>2
  <2> QED
    BY <2>1, <2>3 DEF Protected
<1> QED
  BY <1>1, <1>2 DEF RunSane, Protected

\* The parts of the invariant.
LEMMA MetadataParts ==
  MetadataInv <=> TablesInv /\ DiskTypeOK /\ GcTypeOK /\ ClientTypeOK /\ RunsSane
BY DEF MetadataInv, TypeOK, TablesInv

\* A daemon's record is well-typed when its parts are.
LEMMA DaemonType ==
  ASSUME GcTypeOK, NEW m \in Master,
         NEW pc \in {"idle", "purge", "revert"}, NEW batch \in SUBSET Hash,
         NEW todo \in SUBSET (Hash \X Worker), NEW failed \in SUBSET Hash,
         gc' = [gc EXCEPT ![m] = ADaemon(pc, batch, todo, failed)]
  PROVE  GcTypeOK'
BY DEF GcTypeOK, Daemon, ADaemon

\* The steps of a garbage collector preserve the metadata invariant.
LEMMA GcKeepsMetadata ==
  ASSUME MetadataInv, TransfersTimely, NEW m \in Master, GcStep(m), UNCHANGED clientVars
  PROVE  MetadataInv'
<1>0. TablesInv /\ DiskTypeOK /\ GcTypeOK /\ ClientTypeOK /\ RunsSane
  BY MetadataParts
<1>1. SUFFICES TablesInv' /\ ProtectionKept /\ now' = now /\ DiskTypeOK' /\ GcTypeOK'
  <2>1. ClientTypeOK'
    BY <1>0 DEF ClientTypeOK, clientVars
  <2>2. RunsSane'
    BY <1>1, OtherRunsKept DEF RunsSane, clientVars
  <2> QED
    BY <1>1, <2>1, <2>2 DEF MetadataInv, TypeOK, TablesInv
<1>2. /\ gc[m].pc \in {"idle", "purge", "revert"} /\ gc[m].batch \subseteq Hash
      /\ gc[m].todo \subseteq Hash \X Worker /\ gc[m].failed \subseteq Hash
  BY <1>0 DEF GcTypeOK, Daemon
<1>3. DOMAIN chunks \subseteq Hash
  BY <1>0 DEF TablesInv, RepositoryTypeOK
<1>4. CASE Sweep(m)
  <2>1. PICK batch \in SUBSET Eligible \ {{}} :
          /\ GetOrphanedChunks(batch)
          /\ gc' = [gc EXCEPT ![m] = ADaemon("purge", batch, Replicas(batch), {})]
    BY <1>4 DEF Sweep
  <2>2. TablesInv' /\ ProtectionKept /\ batch \subseteq DOMAIN chunks
    BY <1>0, <2>1, GetOrphanedChunksStep
  <2>3. Replicas(batch) \subseteq Hash \X Worker
    BY <1>3, <2>2 DEF Replicas
  <2>4. GcTypeOK'
    BY <1>0, <1>3, <2>1, <2>2, <2>3, DaemonType
  <2> QED
    BY <1>0, <1>4, <2>1, <2>2, <2>4 DEF Sweep, GetOrphanedChunks, DiskTypeOK
<1>5. CASE SweepUncommitted(m)
  <2>1. PICK batch \in SUBSET Eligible \ {{}} :
          gc' = [gc EXCEPT ![m] = ADaemon("purge", batch, Replicas(batch), {})]
    BY <1>5 DEF SweepUncommitted
  <2>2. batch \subseteq Hash /\ Replicas(batch) \subseteq Hash \X Worker
    BY <1>3 DEF Replicas, Eligible
  <2>3. GcTypeOK'
    BY <1>0, <2>1, <2>2, DaemonType
  <2> QED
    BY <1>0, <1>5, <2>3, TablesUnchanged DEF SweepUncommitted, DiskTypeOK, repositoryVars
<1>6. ASSUME NEW h \in Hash, NEW w \in Worker,
             DeleteReplica(m, h, w) \/ DeleteReplicaFails(m, h, w)
      PROVE  TablesInv' /\ ProtectionKept /\ now' = now /\ DiskTypeOK' /\ GcTypeOK'
  <2>1. UNCHANGED repositoryVars
    BY <1>6 DEF DeleteReplica, DeleteReplicaFails
  <2>2. DiskTypeOK'
    BY <1>0, <1>6 DEF DeleteReplica, DeleteReplicaFails, DropChunk, DiskTypeOK
  <2>3. PICK failed \in SUBSET Hash :
          gc' = [gc EXCEPT ![m] = ADaemon(gc[m].pc, gc[m].batch, gc[m].todo \ {<<h, w>>}, failed)]
    BY <1>2, <1>6 DEF DeleteReplica, DeleteReplicaFails
  <2>4. GcTypeOK'
    <3>1. gc[m].todo \ {<<h, w>>} \in SUBSET (Hash \X Worker)
      BY <1>2
    <3> QED
      BY <1>0, <1>2, <2>3, <3>1, DaemonType
  <2> QED
    BY <1>0, <2>1, <2>2, <2>4, TablesUnchanged DEF repositoryVars
<1>7. CASE RecordPurge(m)
  <2>1. TablesInv' /\ ProtectionKept
    BY <1>0, <1>7, DeleteChunkRecordsBulkStep DEF RecordPurge
  <2>2. GcTypeOK'
    <3>1. CASE gc[m].failed = {}
      BY <1>0, <1>7, <3>1, DaemonType DEF RecordPurge, Resting
    <3>2. CASE gc[m].failed # {}
      BY <1>0, <1>2, <1>7, <3>2, DaemonType DEF RecordPurge
    <3> QED
      BY <3>1, <3>2
  <2> QED
    BY <1>0, <1>7, <2>1, <2>2 DEF RecordPurge, DeleteChunkRecordsBulk, DiskTypeOK
<1>8. CASE RecordPurgeFails(m)
  <2>1. GcTypeOK'
    BY <1>0, <1>2, <1>8, DaemonType DEF RecordPurgeFails
  <2> QED
    BY <1>0, <1>8, <2>1, TablesUnchanged DEF RecordPurgeFails, DiskTypeOK, repositoryVars
<1>9. ASSUME NEW h \in Hash, gc' = [gc EXCEPT ![m] = AfterRevert(m, h)]
      PROVE  GcTypeOK'
  <2>1. CASE gc[m].batch = {h}
    <3>1. gc' = [gc EXCEPT ![m] = ADaemon("idle", {}, {}, {})]
      BY <1>9, <2>1 DEF AfterRevert, Resting
    <3> QED
      BY <1>0, <3>1 DEF GcTypeOK, Daemon, ADaemon
  <2>2. CASE gc[m].batch # {h}
    <3>1. gc' = [gc EXCEPT ![m] = ADaemon("revert", gc[m].batch \ {h}, {}, {})]
      BY <1>9, <2>2 DEF AfterRevert
    <3>2. gc[m].batch \ {h} \in SUBSET Hash
      BY <1>2
    <3> QED
      BY <1>0, <3>1, <3>2 DEF GcTypeOK, Daemon, ADaemon
  <2> QED
    BY <2>1, <2>2
<1>10. ASSUME NEW h \in Hash, RevertOne(m, h)
       PROVE  TablesInv' /\ ProtectionKept /\ now' = now /\ DiskTypeOK' /\ GcTypeOK'
  <2>1. TablesInv' /\ ProtectionKept
    BY <1>0, <1>10, RevertTombstoneStep DEF RevertOne
  <2> QED
    BY <1>0, <1>9, <1>10, <2>1 DEF RevertOne, RevertTombstone, DiskTypeOK
<1>11. ASSUME NEW h \in Hash, RevertOneFails(m, h)
       PROVE  TablesInv' /\ ProtectionKept /\ now' = now /\ DiskTypeOK' /\ GcTypeOK'
  BY <1>0, <1>9, <1>11, TablesUnchanged DEF RevertOneFails, DiskTypeOK, repositoryVars
<1>12. CASE MasterCrash(m)
  <2>1. GcTypeOK'
    <3>1. gc' = [gc EXCEPT ![m] = ADaemon("idle", {}, {}, {})]
      BY <1>12 DEF MasterCrash, Resting
    <3> QED
      BY <1>0, <3>1 DEF GcTypeOK, Daemon, ADaemon
  <2> QED
    BY <1>0, <1>12, <2>1, TablesUnchanged DEF MasterCrash, DiskTypeOK, repositoryVars
<1> QED
  BY <1>4, <1>5, <1>6, <1>7, <1>8, <1>10, <1>11, <1>12 DEF GcStep

\* The fields of a run and of a manifest.
LEMMA ClientFields ==
  ASSUME ClientTypeOK, NEW c \in Client
  PROVE  /\ run[c].phase \in {"idle", "hashing", "negotiating", "transfer"}
         /\ run[c].chunk_hashes \in Contents \cup {<<>>}
         /\ run[c].completed \in SUBSET Index /\ run[c].since \in Nat
         /\ run[c].todo \in SUBSET (Index \X Worker)
         /\ run[c].unlogged \in SUBSET (Index \X Worker)
         /\ log[c] \in SUBSET Index
         /\ c \in DOMAIN manifest => /\ manifest[c].chunk_hashes \in Contents
                                     /\ manifest[c].session_timestamp \in Nat
         /\ Unlogged(c) \in SUBSET Index
<1>1. /\ run[c] \in Run /\ log[c] \in SUBSET Index
      /\ c \in DOMAIN manifest => manifest[c] \in Manifest
  BY DEF ClientTypeOK
<1>2. run[c].unlogged \in SUBSET (Index \X Worker)
  BY <1>1 DEF Run
<1>3. Unlogged(c) \in SUBSET Index
  BY <1>2 DEF Unlogged
<1> QED
  BY <1>1, <1>3 DEF Run, Manifest

\* What a client's run is after an assignment to it.
LEMMA RunType ==
  ASSUME ClientTypeOK, NEW c \in Client, NEW r \in Run, run' = [run EXCEPT ![c] = r]
  PROVE  /\ run' \in [Client -> Run] /\ run'[c] = r
         /\ \A d \in Client \ {c} : run'[d] = run[d]
BY DEF ClientTypeOK

\* A run that ends is well-typed and claims nothing.
LEMMA NoRunType ==
  ASSUME ClientTypeOK, NEW c \in Client, now \in Nat, now' = now,
         run' = [run EXCEPT ![c] = NoRun]
  PROVE  /\ run' \in [Client -> Run] /\ RunSane(c)'
         /\ run'[c].phase = "idle" /\ run'[c].unlogged = {}
         /\ \A d \in Client \ {c} : run'[d] = run[d]
<1>1. run' = [run EXCEPT ![c] = ARun("idle", <<>>, {}, 0, {}, {})]
  BY DEF NoRun
<1>2. /\ run' \in [Client -> Run] /\ run'[c].phase = "idle" /\ run'[c].since = 0
      /\ run'[c].unlogged = {}
      /\ \A d \in Client \ {c} : run'[d] = run[d]
  <2>1. NoRun \in Run
    BY DEF Run, ARun, NoRun
  <2> QED
    BY <2>1 DEF ClientTypeOK, NoRun, ARun
<1> QED
  BY <1>2 DEF RunSane

\* What is left to show of a step of client c.
LEMMA ClientFrame ==
  ASSUME MetadataInv, TransfersTimely, NEW c \in Client, TablesInv', ProtectionKept,
         now' = now, DiskTypeOK', ClientTypeOK', gc' = gc,
         \A d \in Client \ {c} : run'[d] = run[d], RunSane(c)'
  PROVE  MetadataInv'
<1>1. GcTypeOK'
  BY DEF MetadataInv, TypeOK, GcTypeOK
<1>2. RunsSane'
  BY OtherRunsKept DEF RunsSane
<1> QED
  BY <1>1, <1>2 DEF MetadataInv, TypeOK, TablesInv

\* The typing of the two files of local state.
LEMMA LocalStateType ==
  ASSUME ClientTypeOK, NEW c \in Client
  PROVE  /\ UNCHANGED log => log' \in [Client -> SUBSET Index]
         /\ \A S \in SUBSET Index : log' = [log EXCEPT ![c] = @ \cup S]
                                      => log' \in [Client -> SUBSET Index]
         /\ UNCHANGED manifest => /\ DOMAIN manifest' \subseteq Client
                                  /\ manifest' \in [DOMAIN manifest' -> Manifest]
         /\ manifest' = [d \in DOMAIN manifest \ {c} |-> manifest[d]]
              => /\ DOMAIN manifest' \subseteq Client
                 /\ manifest' \in [DOMAIN manifest' -> Manifest]
         /\ DeleteUploadManifest(c) => /\ log' \in [Client -> SUBSET Index]
                                       /\ DOMAIN manifest' \subseteq Client
                                       /\ manifest' \in [DOMAIN manifest' -> Manifest]
BY DEF ClientTypeOK, DeleteUploadManifest

\* A transfer touches the disk of one worker only.
LEMMA TransferDisk ==
  ASSUME DiskTypeOK, NEW w \in Worker, NEW h \in Hash, PostChunk(w, h) \/ TearChunk(w, h)
  PROVE  DiskTypeOK'
BY DEF DiskTypeOK, PostChunk, TearChunk

\* The steps of a client preserve the metadata invariant.
LEMMA ClientKeepsMetadata ==
  ASSUME MetadataInv, TransfersTimely, NEW c \in Client, ClientStep(c), UNCHANGED gc
  PROVE  MetadataInv'
<1> DEFINE s == run[c].chunk_hashes
<1>0. /\ TablesInv /\ DiskTypeOK /\ GcTypeOK /\ ClientTypeOK /\ RunsSane
      /\ RunSane(c) /\ now \in Nat /\ NameOf[c] \in Name
  BY MetadataParts, ClientAssumption DEF RunsSane, TablesInv, RepositoryTypeOK
<1>1. /\ run[c].phase \in {"idle", "hashing", "negotiating", "transfer"}
      /\ s \in Contents \cup {<<>>}
      /\ run[c].completed \in SUBSET Index /\ run[c].since \in Nat
      /\ run[c].todo \in SUBSET (Index \X Worker)
      /\ run[c].unlogged \in SUBSET (Index \X Worker)
      /\ log[c] \in SUBSET Index /\ Unlogged(c) \in SUBSET Index
      /\ c \in DOMAIN manifest => /\ manifest[c].chunk_hashes \in Contents
                                  /\ manifest[c].session_timestamp \in Nat
  BY <1>0, ClientFields
<1>2. run[c].phase # "idle" => s \in Contents
  BY <1>0 DEF RunSane
<1>3. {} \in SUBSET Index /\ {} \in SUBSET (Index \X Worker)
  OBVIOUS
<1>4. ASSUME NEW x \in Contents, StartFresh(c, x)
      PROVE  MetadataInv'
  <2>1. run' = [run EXCEPT ![c] = ARun("hashing", x, {}, now, {}, {})]
    BY <1>4 DEF StartFresh
  <2>2. /\ run' \in [Client -> Run] /\ run'[c].phase = "hashing"
        /\ run'[c].chunk_hashes = x /\ run'[c].since = now
        /\ \A d \in Client \ {c} : run'[d] = run[d]
    <3>1. ARun("hashing", x, {}, now, {}, {}) \in Run
      BY <1>0 DEF Run, ARun
    <3> QED
      BY <1>0, <2>1, <3>1, RunType DEF ARun
  <2>3. ClientTypeOK'
    <3>1. CASE c \in DOMAIN manifest
      BY <1>0, <1>4, <2>2, <3>1, LocalStateType DEF StartFresh, ClientTypeOK
    <3>2. CASE c \notin DOMAIN manifest
      BY <1>0, <1>4, <2>2, <3>2, LocalStateType DEF StartFresh, ClientTypeOK
    <3> QED
      BY <3>1, <3>2
  <2>4. UNCHANGED <<repositoryVars, disk>>
    BY <1>4 DEF StartFresh
  <2>5. TablesInv' /\ ProtectionKept /\ now' = now
    BY <1>0, <2>4, TablesUnchanged DEF repositoryVars
  <2>6. RunSane(c)' /\ DiskTypeOK'
    BY <1>0, <2>2, <2>4, <2>5 DEF RunSane, DiskTypeOK
  <2> QED
    BY <2>2, <2>3, <2>5, <2>6, ClientFrame
<1>5. CASE SaveManifest(c)
  <2>1. /\ run' = [run EXCEPT ![c] = ARun("negotiating", s, {}, now, {}, {})]
        /\ run[c].phase = "hashing"
    BY <1>5 DEF SaveManifest
  <2>2. /\ run' \in [Client -> Run] /\ run'[c].phase = "negotiating"
        /\ run'[c].chunk_hashes = s /\ run'[c].since = now
        /\ \A d \in Client \ {c} : run'[d] = run[d]
    <3>1. ARun("negotiating", s, {}, now, {}, {}) \in Run
      BY <1>0, <1>1 DEF Run, ARun
    <3> QED
      BY <1>0, <2>1, <3>1, RunType DEF ARun
  <2>3. ClientTypeOK'
    <3>1. [chunk_hashes |-> s, session_timestamp |-> run[c].since] \in Manifest
      BY <1>1, <1>2, <2>1 DEF Manifest
    <3>2. /\ DOMAIN manifest' \subseteq Client
          /\ manifest' \in [DOMAIN manifest' -> Manifest]
      BY <1>0, <1>5, <3>1 DEF SaveManifest, ClientTypeOK
    <3> QED
      BY <1>0, <1>5, <2>2, <3>2, LocalStateType DEF SaveManifest, ClientTypeOK
  <2>4. UNCHANGED <<repositoryVars, disk>>
    BY <1>5 DEF SaveManifest
  <2>5. TablesInv' /\ ProtectionKept /\ now' = now
    BY <1>0, <2>4, TablesUnchanged DEF repositoryVars
  <2>6. RunSane(c)' /\ DiskTypeOK'
    BY <1>0, <1>2, <2>1, <2>2, <2>4, <2>5 DEF RunSane, DiskTypeOK
  <2> QED
    BY <2>2, <2>3, <2>5, <2>6, ClientFrame
<1>6. CASE StartResume(c)
  <2> DEFINE x == manifest[c].chunk_hashes
             done == log[c] \cap DOMAIN x
  <2>1. /\ run' = [run EXCEPT ![c] = ARun("negotiating", x, done, now, {}, {})]
        /\ x \in Contents
    BY <1>1, <1>6 DEF StartResume
  <2>a. done \in SUBSET Index
    BY <1>1
  <2> HIDE DEF x, done
  <2>2. /\ run' \in [Client -> Run] /\ run'[c].phase = "negotiating"
        /\ run'[c].chunk_hashes = x /\ run'[c].since = now
        /\ \A d \in Client \ {c} : run'[d] = run[d]
    <3>1. ARun("negotiating", x, done, now, {}, {}) \in Run
      BY <1>0, <2>1, <2>a DEF Run, ARun
    <3> QED
      BY <1>0, <2>1, <3>1, RunType DEF ARun
  <2>3. ClientTypeOK'
    BY <1>0, <1>6, <2>2, LocalStateType DEF StartResume, ClientTypeOK
  <2>4. UNCHANGED <<repositoryVars, disk>>
    BY <1>6 DEF StartResume
  <2>5. TablesInv' /\ ProtectionKept /\ now' = now
    BY <1>0, <2>4, TablesUnchanged DEF repositoryVars
  <2>6. RunSane(c)' /\ DiskTypeOK'
    BY <1>0, <2>1, <2>2, <2>4, <2>5 DEF RunSane, DiskTypeOK
  <2> QED
    BY <2>2, <2>3, <2>5, <2>6, ClientFrame
<1>7. CASE InitializeUpload(c)
  <2>1. PICK placement \in [Absent(s) -> NodeSets] :
          /\ FilterMissingChunks(s, placement)
          /\ run' = [run EXCEPT ![c] = ARun("transfer", s, run[c].completed, now,
                                            PendingTasks(c, placement), {})]
    BY <1>7 DEF InitializeUpload
  <2>2. s \in Contents
    BY <1>2, <1>7 DEF InitializeUpload
  <2>3. /\ PendingTasks(c, placement) \in SUBSET (Index \X Worker)
        /\ PendingTasks(c, placement) \subseteq (DOMAIN s) \X Worker
    BY <2>2, ContentsRange DEF PendingTasks
  <2>4. /\ run' \in [Client -> Run] /\ run'[c].phase = "transfer"
        /\ run'[c].todo = PendingTasks(c, placement)
        /\ run'[c].chunk_hashes = s /\ run'[c].since = now
        /\ \A d \in Client \ {c} : run'[d] = run[d]
    <3>1. ARun("transfer", s, run[c].completed, now, PendingTasks(c, placement), {}) \in Run
      BY <1>0, <1>1, <2>3 DEF Run, ARun
    <3> QED
      BY <1>0, <2>1, <3>1, RunType DEF ARun
  <2>5. /\ TablesInv' /\ ProtectionKept
        /\ \A h \in Range(s) : Protected(h, now)'
    BY <1>0, <2>1, <2>2, FilterMissingChunksStep
  <2>6. now' = now
    BY <2>1 DEF FilterMissingChunks
  <2>7. RunSane(c)'
    BY <1>0, <2>2, <2>3, <2>4, <2>5, <2>6, EngineAssumption DEF RunSane, Protected
  <2>8. ClientTypeOK' /\ DiskTypeOK'
    BY <1>0, <1>7, <2>4, LocalStateType DEF InitializeUpload, ClientTypeOK, DiskTypeOK
  <2> QED
    BY <2>4, <2>5, <2>6, <2>7, <2>8, ClientFrame
<1>8. CASE InitializeUploadLost(c)
  <2>1. PICK placement \in [Absent(s) -> NodeSets] : FilterMissingChunks(s, placement)
    BY <1>8 DEF InitializeUploadLost
  <2>2. s \in Contents
    BY <1>2, <1>8 DEF InitializeUploadLost
  <2>3. TablesInv' /\ ProtectionKept
    BY <1>0, <2>1, <2>2, FilterMissingChunksStep
  <2>4. now' = now
    BY <2>1 DEF FilterMissingChunks
  <2>5. /\ run' \in [Client -> Run] /\ RunSane(c)'
        /\ \A d \in Client \ {c} : run'[d] = run[d]
    BY <1>0, <1>8, <2>4, NoRunType DEF InitializeUploadLost
  <2>6. ClientTypeOK' /\ DiskTypeOK'
    BY <1>0, <1>8, <2>5, LocalStateType DEF InitializeUploadLost, ClientTypeOK, DiskTypeOK
  <2> QED
    BY <2>3, <2>4, <2>5, <2>6, ClientFrame
<1>9. ASSUME NEW i, NEW w, UploadSucceeds(c, i, w)
      PROVE  MetadataInv'
  <2> DEFINE done == run[c].unlogged \cup {<<i, w>>}
             full == Cardinality(done) >= LogBatch
             rest == IF full THEN {} ELSE done
             logged == IF full THEN {p[1] : p \in done} ELSE {}
  <2>1. /\ run[c].phase = "transfer" /\ <<i, w>> \in run[c].todo
        /\ PostChunk(w, s[i]) /\ UNCHANGED <<repositoryVars, manifest>>
        /\ log' = [log EXCEPT ![c] = @ \cup logged]
        /\ run' = [run EXCEPT ![c] = ARun(run[c].phase, s, run[c].completed, run[c].since,
                                          run[c].todo \ {<<i, w>>}, rest)]
    BY <1>9 DEF UploadSucceeds
  <2>2. i \in Index /\ w \in Worker /\ s[i] \in Hash
    <3>1. s \in Contents /\ i \in DOMAIN s /\ w \in Worker
      BY <1>0, <1>2, <2>1 DEF RunSane
    <3> QED
      BY <3>1, ContentsRange
  <2>3. /\ done \in SUBSET (Index \X Worker)
        /\ rest \in SUBSET (Index \X Worker)
        /\ run[c].todo \ {<<i, w>>} \in SUBSET (Index \X Worker)
    BY <1>1, <2>2
  <2>4. logged \in SUBSET Index
    BY <2>3
  <2> HIDE DEF rest, logged
  <2>5. /\ run' \in [Client -> Run] /\ run'[c].phase = run[c].phase
        /\ run'[c].chunk_hashes = s /\ run'[c].since = run[c].since
        /\ run'[c].todo \subseteq run[c].todo
        /\ \A d \in Client \ {c} : run'[d] = run[d]
    <3> DEFINE r == ARun(run[c].phase, s, run[c].completed, run[c].since,
                         run[c].todo \ {<<i, w>>}, rest)
    <3>1. r \in Run
      BY <1>1, <2>3 DEF Run, ARun
    <3> QED
      BY <1>0, <2>1, <3>1, RunType DEF ARun
  <2>6. TablesInv' /\ ProtectionKept /\ now' = now /\ chunks' = chunks
    BY <1>0, <2>1, TablesUnchanged DEF repositoryVars
  <2>7. RunSane(c)'
    BY <1>0, <2>5, <2>6 DEF RunSane, Protected
  <2>8. ClientTypeOK'
    BY <1>0, <2>1, <2>4, <2>5, LocalStateType DEF ClientTypeOK
  <2>9. DiskTypeOK'
    BY <1>0, <2>1, <2>2, TransferDisk
  <2> QED
    BY <2>5, <2>6, <2>7, <2>8, <2>9, ClientFrame
<1>10. ASSUME NEW i, NEW w, UploadLost(c, i, w) \/ UploadTorn(c, i, w)
       PROVE  MetadataInv'
  <2>1. /\ run[c].phase = "transfer" /\ <<i, w>> \in run[c].todo
        /\ PostChunk(w, s[i]) \/ TearChunk(w, s[i])
        /\ UNCHANGED <<repositoryVars, clientVars>>
    BY <1>10 DEF UploadLost, UploadTorn
  <2>2. TablesInv' /\ ProtectionKept /\ now' = now /\ chunks' = chunks
    BY <1>0, <2>1, TablesUnchanged DEF repositoryVars
  <2>3. RunSane(c)' /\ ClientTypeOK' /\ \A d \in Client \ {c} : run'[d] = run[d]
    BY <1>0, <2>1, <2>2 DEF RunSane, Protected, ClientTypeOK, clientVars
  <2>4. DiskTypeOK'
    <3>1. s \in Contents /\ i \in DOMAIN s /\ w \in Worker
      BY <1>0, <1>2, <2>1 DEF RunSane
    <3>2. s[i] \in Hash
      BY <3>1, ContentsRange
    <3> QED
      BY <1>0, <2>1, <3>1, <3>2, TransferDisk
  <2> QED
    BY <2>2, <2>3, <2>4, ClientFrame
<1>11. CASE Abort(c) \/ ClientCrash(c)
  <2>1. /\ UNCHANGED <<repositoryVars, disk, manifest>>
        /\ log' = [log EXCEPT ![c] = @ \cup Unlogged(c)] \/ UNCHANGED log
        /\ run' = [run EXCEPT ![c] = NoRun]
    BY <1>11 DEF Abort, ClientCrash
  <2>2. TablesInv' /\ ProtectionKept /\ now' = now
    BY <1>0, <2>1, TablesUnchanged DEF repositoryVars
  <2>3. /\ run' \in [Client -> Run] /\ RunSane(c)'
        /\ \A d \in Client \ {c} : run'[d] = run[d]
    BY <1>0, <2>1, <2>2, NoRunType
  <2>4. ClientTypeOK' /\ DiskTypeOK'
    BY <1>0, <1>1, <2>1, <2>3, LocalStateType DEF ClientTypeOK, DiskTypeOK
  <2> QED
    BY <2>2, <2>3, <2>4, ClientFrame
<1>12. CASE Commit(c) \/ CommitLost(c) \/ CommitHalfCleaned(c)
  <2>1. /\ run[c].phase = "transfer" /\ run[c].todo = {}
        /\ CommitFile(NameOf[c], s) /\ UNCHANGED disk
        /\ run' = [run EXCEPT ![c] = NoRun]
    BY <1>12 DEF Commit, CommitLost, CommitHalfCleaned
  <2>2. /\ s \in Contents
        /\ \A h \in Range(s) : h \in DOMAIN chunks /\ chunks[h].ref_count >= 0
    BY <1>0, <1>2, <2>1 DEF RunSane, Protected
  <2>3. TablesInv' /\ ProtectionKept
    BY <1>0, <2>1, <2>2, CommitFileStep
  <2>4. now' = now
    BY <2>1 DEF CommitFile
  <2>5. /\ run' \in [Client -> Run] /\ RunSane(c)'
        /\ \A d \in Client \ {c} : run'[d] = run[d]
    BY <1>0, <2>1, <2>4, NoRunType
  <2>6. /\ log' \in [Client -> SUBSET Index]
        /\ DOMAIN manifest' \subseteq Client
        /\ manifest' \in [DOMAIN manifest' -> Manifest]
    BY <1>0, <1>1, <1>12, LocalStateType DEF Commit, CommitLost, CommitHalfCleaned
  <2>7. ClientTypeOK' /\ DiskTypeOK'
    BY <1>0, <2>1, <2>5, <2>6 DEF ClientTypeOK, DiskTypeOK
  <2> QED
    BY <2>3, <2>4, <2>5, <2>7, ClientFrame
<1>13. CASE DiscardHalfCleaned(c)
  <2>1. /\ UNCHANGED <<repositoryVars, disk, run, log>>
        /\ manifest' = [d \in DOMAIN manifest \ {c} |-> manifest[d]]
    BY <1>13 DEF DiscardHalfCleaned
  <2>2. TablesInv' /\ ProtectionKept /\ now' = now /\ chunks' = chunks
    BY <1>0, <2>1, TablesUnchanged DEF repositoryVars
  <2>3. RunSane(c)' /\ DiskTypeOK' /\ \A d \in Client \ {c} : run'[d] = run[d]
    BY <1>0, <2>1, <2>2 DEF RunSane, Protected, DiskTypeOK
  <2>4. ClientTypeOK'
    BY <1>0, <2>1, LocalStateType DEF ClientTypeOK
  <2> QED
    BY <2>2, <2>3, <2>4, ClientFrame
<1> QED
  BY <1>4, <1>5, <1>6, <1>7, <1>8, <1>9, <1>10, <1>11, <1>12, <1>13 DEF ClientStep

\* The clock: it stops short of letting a transfer overstay TransferBound.
LEMMA TickKeepsMetadata ==
  ASSUME MetadataInv, Tick
  PROVE  MetadataInv'
<1>0. /\ TablesInv /\ DiskTypeOK /\ GcTypeOK /\ ClientTypeOK /\ RunsSane /\ now \in Nat
      /\ RepositoryTypeOK /\ ReferencesCounted /\ RowsSane
  BY MetadataParts DEF TablesInv, RepositoryTypeOK
<1>1. /\ now' = now + 1 /\ UNCHANGED <<chunks, files, disk, gc, clientVars>>
      /\ \A c \in Client : run[c].phase = "transfer" => now < run[c].since + TransferBound
  BY DEF Tick
<1>2. DiskTypeOK' /\ GcTypeOK' /\ ClientTypeOK'
  BY <1>0, <1>1 DEF DiskTypeOK, GcTypeOK, ClientTypeOK, clientVars
<1>3. RepositoryTypeOK'
  BY <1>0, <1>1 DEF RepositoryTypeOK
<1>4. ReferencesCounted'
  BY <1>0, <1>1 DEF ReferencesCounted, Holders
<1>5. RowsSane'
  BY <1>0, <1>1, RowFields DEF RowsSane
<1>6. ASSUME NEW c \in Client
      PROVE  RunSane(c)'
  <2>1. run'[c] = run[c] /\ run[c].since \in Nat /\ RunSane(c)
    BY <1>0, <1>1, ClientFields DEF clientVars, RunsSane
  <2> QED
    BY <1>0, <1>1, <2>1, EngineAssumption DEF RunSane, Protected
<1> QED
  BY <1>2, <1>3, <1>4, <1>5, <1>6 DEF MetadataInv, TypeOK, RunsSane

\* Removing a file.
LEMMA RemoveKeepsMetadata ==
  ASSUME MetadataInv, TransfersTimely, NEW n \in Name, Remove(n), UNCHANGED gc
  PROVE  MetadataInv'
<1>0. TablesInv /\ DiskTypeOK /\ GcTypeOK /\ ClientTypeOK
  BY MetadataParts
<1>1. TablesInv' /\ ProtectionKept
  BY <1>0, DeleteFileStep DEF Remove
<1>2. now' = now /\ UNCHANGED <<disk, clientVars>>
  BY DEF Remove, DeleteFile
<1>3. DiskTypeOK' /\ GcTypeOK' /\ ClientTypeOK'
  BY <1>0, <1>2 DEF DiskTypeOK, GcTypeOK, ClientTypeOK, clientVars
<1>4. RunsSane'
  BY <1>1, <1>2, OtherRunsKept DEF RunsSane, clientVars
<1> QED
  BY <1>1, <1>3, <1>4 DEF MetadataInv, TypeOK, TablesInv

\* A step that changes nothing.
LEMMA StutterKeepsMetadata ==
  ASSUME MetadataInv, UNCHANGED vars
  PROVE  MetadataInv'
<1>1. UNCHANGED <<repositoryVars, disk, gc, clientVars>>
  BY DEF vars
<1>2. /\ TablesInv /\ DiskTypeOK /\ GcTypeOK /\ ClientTypeOK /\ RunsSane
  BY MetadataParts
<1>3. TablesInv'
  BY <1>1, <1>2, TablesUnchanged
<1>4. DiskTypeOK' /\ GcTypeOK' /\ ClientTypeOK'
  BY <1>1, <1>2 DEF DiskTypeOK, GcTypeOK, ClientTypeOK, clientVars
<1>5. RunsSane'
  BY <1>1, <1>2 DEF RunsSane, RunSane, Protected, clientVars, repositoryVars
<1> QED
  BY <1>3, <1>4, <1>5 DEF MetadataInv, TypeOK, TablesInv

\* The initial state.
LEMMA InitMetadata ==
  Init => MetadataInv
<1> SUFFICES ASSUME Init
             PROVE  MetadataInv
  OBVIOUS
<1>1. RepositoryTypeOK
  <2>1. IsFiniteSet(DOMAIN files)
    BY FS_EmptySet DEF Init, RepositoryInit
  <2> QED
    BY <2>1 DEF Init, RepositoryInit, RepositoryTypeOK
<1>2. DiskTypeOK
  BY DEF Init, DiskInit, DiskTypeOK
<1>3. GcTypeOK
  BY DEF Init, GcInit, GcTypeOK, Daemon, Resting, ADaemon
<1>4. ClientTypeOK
  BY DEF Init, ClientInit, ClientTypeOK, Run, NoRun, ARun, Manifest
<1>5. ReferencesCounted /\ RowsSane
  BY DEF Init, RepositoryInit, ReferencesCounted, RowsSane, Holders
<1>6. RunsSane
  BY DEF Init, ClientInit, RepositoryInit, RunsSane, RunSane, NoRun, ARun
<1> QED
  BY <1>1, <1>2, <1>3, <1>4, <1>5, <1>6 DEF MetadataInv, TypeOK

\* Every step preserves the metadata invariant.
LEMMA NextKeepsMetadata ==
  ASSUME TransfersTimely, MetadataInv, [Next]_vars
  PROVE  MetadataInv'
BY TickKeepsMetadata, ClientKeepsMetadata, RemoveKeepsMetadata, GcKeepsMetadata,
   StutterKeepsMetadata DEF Next

\* If a transfer takes no longer than ExpiryHours, then under every fault the
\* tables are sane and a transferring client has a fresh claim on its chunks
\* (FilterMissingChunks, CommitFile, DeleteFile, GetOrphanedChunks).
THEOREM MetadataInvariant ==
  ASSUME TransfersTimely
  PROVE  Spec => []MetadataInv
<1>1. MetadataInv /\ [Next]_vars => MetadataInv'
  BY NextKeepsMetadata
<1> QED
  BY InitMetadata, <1>1, PTL DEF Spec

\* Every variable keeps its type.
THEOREM TypeCorrect ==
  ASSUME TransfersTimely
  PROVE  Spec => []TypeOK
<1>1. MetadataInv => TypeOK
  BY DEF MetadataInv
<1> QED
  BY MetadataInvariant, <1>1, PTL

\* A chunk that files use has a row that counts at least those files, so the
\* garbage collector, which takes rows counting none, never takes it.
THEOREM CountsSafe ==
  ASSUME TransfersTimely
  PROVE  Spec => []ReferencesCounted
<1>1. MetadataInv => ReferencesCounted
  BY DEF MetadataInv
<1> QED
  BY MetadataInvariant, <1>1, PTL

-----------------------------------------------------------------------------
(***************************************************************************)
(* No data is lost or leaked, when clients keep to the times the collector *)
(* allows and no data fault happens (DataSafe).                            *)
(***************************************************************************)
-----------------------------------------------------------------------------
(* What steps do to the data.                                              *)

\* A chunk that is stored and not tombstoned stays stored.
StoredKept ==
  \A h : (Available(h) /\ chunks[h].ref_count >= 0) => Available(h)'

\* No tombstone is removed.
TombstonesKept ==
  \A h \in DOMAIN chunks : chunks[h].ref_count = -1 =>
    h \in DOMAIN chunks' /\ chunks'[h].ref_count = -1

\* Nodes only gain chunks, each of which has a row that names the node.
DiskGrows ==
  \A w \in Worker :
    /\ disk[w] \subseteq disk'[w]
    /\ \A h \in disk'[w] \ disk[w] :
         h \in DOMAIN chunks /\ chunks[h].ref_count >= 0 /\ w \in chunks[h].nodes

\* The local state of client c is left alone.
ClientKept(c) ==
  /\ run'[c] = run[c] /\ log'[c] = log[c]
  /\ c \in DOMAIN manifest' <=> c \in DOMAIN manifest
  /\ c \in DOMAIN manifest => manifest'[c] = manifest[c]

\* The part of the invariant that is about client c.
ClientInv(c) == SessionSane(c) /\ LogKept(c) /\ TransferComplete(c)

\* The fields of a manifest.
LEMMA ManifestFields ==
  ASSUME MetadataInv, NEW c \in DOMAIN manifest
  PROVE  /\ c \in Client
         /\ manifest[c].chunk_hashes \in Contents
         /\ manifest[c].session_timestamp \in Nat
BY ClientFields DEF MetadataInv, TypeOK, ClientTypeOK

\* Numbers used everywhere.
LEMMA Numbers ==
  ASSUME MetadataInv, DataSafe
  PROVE  /\ now \in Nat /\ ExpiryHours \in Nat /\ ResumeWindow \in Nat
         /\ NegotiationBound \in Nat /\ TransferBound \in Nat
         /\ TransferBound <= ExpiryHours
         /\ ResumeWindow + NegotiationBound <= ExpiryHours
BY RepositoryAssumption, ClientAssumption, EngineAssumption
   DEF MetadataInv, TypeOK, RepositoryTypeOK, DataSafe, TransfersTimely, ResumesTimely

\* Claims that are young enough survive a step.
LEMMA KeptKept ==
  ASSUME MetadataInv, DataSafe, ProtectionKept, StoredKept,
         NEW h, NEW t \in Nat, Kept(h, t), t <= now, now <= t + ExpiryHours
  PROVE  Kept(h, t)'
<1>1. Protected(h, t)'
  BY DEF ProtectionKept, Kept
<1>2. Available(h)'
  BY DEF StoredKept, Kept, Protected
<1> QED
  BY <1>1, <1>2 DEF Kept

\* The chunks of a client that is transferring have rows, before and after.
LEMMA TransferRows ==
  ASSUME MetadataInv, DataSafe, ProtectionKept,
         NEW c \in Client, run[c].phase = "transfer", NEW i \in DOMAIN run[c].chunk_hashes
  PROVE  /\ run[c].chunk_hashes[i] \in DOMAIN chunks
         /\ chunks[run[c].chunk_hashes[i]].ref_count >= 0
         /\ Protected(run[c].chunk_hashes[i], run[c].since)
         /\ run[c].chunk_hashes[i] \in DOMAIN chunks'
         /\ run[c].since \in Nat
         /\ run[c].since <= now /\ now <= run[c].since + ExpiryHours
<1> DEFINE h == run[c].chunk_hashes[i]
<1>1. run[c].chunk_hashes \in Contents /\ RunSane(c) /\ run[c].since \in Nat
  BY ClientFields DEF MetadataInv, RunsSane, RunSane, TypeOK
<1>2. h \in Range(run[c].chunk_hashes)
  BY <1>1, ContentsRange
<1>3. Protected(h, run[c].since) /\ run[c].since <= now /\ now <= run[c].since + ExpiryHours
  <2>1. /\ Protected(h, run[c].since) /\ run[c].since <= now
        /\ now <= run[c].since + TransferBound
    BY <1>1, <1>2 DEF RunSane
  <2> QED
    BY <1>1, <2>1, Numbers
<1>4. h \in DOMAIN chunks'
  <2> DEFINE t == run[c].since
  <2>1. t \in Nat /\ Protected(h, t) /\ t <= now /\ now <= t + ExpiryHours
    BY <1>1, <1>3
  <2> HIDE DEF t, h
  <2> QED
    BY <2>1 DEF ProtectionKept, Protected
<1> QED
  BY <1>1, <1>3, <1>4 DEF Protected

\* A client whose local state a step leaves alone keeps its part of the invariant.
LEMMA OtherClientsKept ==
  ASSUME MetadataInv, DataSafe, NodesKept, ProtectionKept, StoredKept, now' = now,
         NEW c \in Client, ClientInv(c), ClientKept(c)
  PROVE  ClientInv(c)'
<1>1. SessionSane(c)'
  BY DEF ClientInv, SessionSane, ClientKept
<1>2. LogKept(c)'
  <2>1. /\ c \in DOMAIN manifest' <=> c \in DOMAIN manifest
        /\ c \in DOMAIN manifest => manifest'[c] = manifest[c]
        /\ log'[c] = log[c]
    BY DEF ClientKept
  <2>2. ASSUME c \in DOMAIN manifest, now <= manifest[c].session_timestamp + ExpiryHours,
               NEW i \in log[c] \cap DOMAIN manifest[c].chunk_hashes,
               NEW h, h = manifest[c].chunk_hashes[i],
               NEW t, t = manifest[c].session_timestamp
        PROVE  Kept(h, t)'
    <3>1. Kept(h, t) /\ now <= t + ExpiryHours /\ t <= now /\ t \in Nat
      BY <2>2, ManifestFields DEF ClientInv, LogKept, SessionSane
    <3> QED
      BY <3>1, KeptKept
  <2> QED
    BY <2>1, <2>2 DEF LogKept, Kept, Protected, Available
<1>3. TransferComplete(c)'
  <2> SUFFICES ASSUME run[c].phase = "transfer"
               PROVE  TransferComplete(c)'
    BY DEF ClientKept, TransferComplete
  <2> DEFINE s == run[c].chunk_hashes
  <2>1. run'[c] = run[c]
    BY DEF ClientKept
  <2>2. ASSUME NEW i \in DOMAIN s, NEW h, h = s[i]
        PROVE  /\ chunks'[h].nodes = chunks[h].nodes
               /\ Available(h) => Available(h)'
    BY <2>2, TransferRows DEF NodesKept, StoredKept
  <2> QED
    BY <2>1, <2>2 DEF ClientInv, TransferComplete, Available
<1> QED
  BY <1>1, <1>2, <1>3 DEF ClientInv

-----------------------------------------------------------------------------
(* Clients.                                                                *)

\* What every step of a client does to the tables.
TablesGrow ==
  /\ ProtectionKept /\ NodesKept /\ TombstonesKept
  /\ DOMAIN chunks \subseteq DOMAIN chunks'

\* Where tables and disks only grow, nothing that is stored is lost.
LEMMA GrowthKeepsStored ==
  ASSUME MetadataInv, TablesGrow, DiskGrows
  PROVE  /\ \A h : Available(h) => Available(h)'
         /\ StoredKept
<1>1. \A h \in DOMAIN chunks : chunks[h].nodes \subseteq Worker
  BY RowFields, RepositoryAssumption DEF MetadataInv, TypeOK
<1>2. \A h : Available(h) => Available(h)'
  BY <1>1 DEF TablesGrow, NodesKept, DiskGrows, Available
<1> QED
  BY <1>2 DEF StoredKept

\* What is left to show of a step of client c.
LEMMA ClientDataFrame ==
  ASSUME MetadataInv, DataInv, DataSafe, NEW c \in Client,
         TablesGrow, DiskGrows, now' = now, gc' = gc,
         \A d \in Client \ {c} : ClientKept(d),
         CountedStored', ClientInv(c)'
  PROVE  DataInv'
<1>1. PurgesExclusive'
  BY DEF DataInv, PurgesExclusive, TablesGrow, TombstonesKept
<1>2. ASSUME NEW m \in Master
      PROVE  DaemonSane(m)' /\ PurgeComplete(m)'
  <2>1. DaemonSane(m)'
    BY DEF DataInv, DaemonSane
  <2>2. \A h \in gc[m].batch : chunks[h].ref_count = -1
    BY DEF DataInv, PurgesExclusive
  <2>3. \A h \in gc[m].batch, w \in Worker : h \in disk'[w] => h \in disk[w]
    BY <2>2 DEF DiskGrows
  <2>4. PurgeComplete(m)'
    BY <2>3 DEF DataInv, PurgeComplete
  <2> QED
    BY <2>1, <2>4
<1>3. NoLeakedBlobs'
  BY DEF DataInv, NoLeakedBlobs, DiskGrows, TablesGrow, NodesKept
<1>4. ASSUME NEW d \in Client
      PROVE  ClientInv(d)'
  <2>1. CASE d = c
    BY <2>1
  <2>2. CASE d # c
    <3>1. ClientInv(d) /\ ClientKept(d)
      BY <2>2 DEF DataInv, ClientInv
    <3> QED
      BY <3>1, GrowthKeepsStored, OtherClientsKept DEF TablesGrow
  <2> QED
    BY <2>1, <2>2
<1>5. \A d \in Client : SessionSane(d)' /\ LogKept(d)' /\ TransferComplete(d)'
  BY <1>4 DEF ClientInv
<1> QED
  BY <1>1, <1>2, <1>3, <1>5 DEF DataInv

\* A step that leaves tables and disks alone.
LEMMA DataUnchanged ==
  ASSUME MetadataInv, DataInv, UNCHANGED repositoryVars, UNCHANGED disk
  PROVE  TablesGrow /\ DiskGrows /\ CountedStored' /\ StoredKept
<1>1. ProtectionKept /\ NodesKept
  BY MetadataParts, TablesUnchanged
<1>2. TablesGrow /\ DiskGrows
  BY <1>1 DEF TablesGrow, TombstonesKept, DiskGrows, repositoryVars
<1>3. CountedStored'
  BY DEF DataInv, CountedStored, Available, repositoryVars
<1> QED
  BY <1>2, <1>3, GrowthKeepsStored

\* upload-init, as seen by the data.
LEMMA FilterMissingChunksData ==
  ASSUME MetadataInv, DataInv, NEW s \in Contents, NEW placement \in [Absent(s) -> NodeSets],
         FilterMissingChunks(s, placement), UNCHANGED disk
  PROVE  /\ TablesGrow /\ DiskGrows /\ CountedStored'
         /\ \A h \in Range(s) : h \in DOMAIN chunks' /\ chunks'[h].nodes = PlanNodes(h, placement)
         /\ \A h \in Range(s) \ Missing(s) : Available(h)
<1>0. TablesInv
  BY MetadataParts
<1>1. /\ ProtectionKept /\ NodesKept
      /\ DOMAIN chunks' = DOMAIN chunks \cup Range(s)
      /\ \A h \in Absent(s) : chunks'[h].nodes = placement[h]
      /\ \A h \in DOMAIN chunks : chunks'[h].ref_count = chunks[h].ref_count
      /\ \A h \in Absent(s) : chunks'[h].ref_count = 0
  BY <1>0, FilterMissingChunksStep
<1>2. TablesGrow /\ DiskGrows
  BY <1>1 DEF TablesGrow, TombstonesKept, DiskGrows
<1>3. \A h : Available(h) => Available(h)'
  BY <1>2, GrowthKeepsStored
<1>4. CountedStored'
  <2> SUFFICES ASSUME NEW h \in DOMAIN chunks', chunks'[h].ref_count >= 1
               PROVE  Available(h)'
    BY DEF CountedStored
  <2>1. h \in DOMAIN chunks
    BY <1>1 DEF Absent
  <2> QED
    BY <1>1, <1>3, <2>1 DEF DataInv, CountedStored
<1>5. \A h \in Range(s) : h \in DOMAIN chunks' /\ chunks'[h].nodes = PlanNodes(h, placement)
  BY <1>1 DEF PlanNodes, NodesKept, Absent
<1>6. ASSUME NEW h \in Range(s) \ Missing(s)
      PROVE  Available(h)
  <2>1. h \in DOMAIN chunks /\ chunks[h].ref_count # 0 /\ chunks[h].ref_count # -1
    BY <1>6 DEF Missing, Absent, FilterMissingChunks, Locked
  <2>2. chunks[h].ref_count \in Int /\ chunks[h].ref_count >= -1
    BY <1>0, <2>1, RowFields DEF TablesInv, RowsSane
  <2>3. chunks[h].ref_count >= 1
    BY <2>1, <2>2
  <2> QED
    BY <2>1, <2>3 DEF DataInv, CountedStored
<1> QED
  BY <1>2, <1>4, <1>5, <1>6

\* commit, as seen by the data.
LEMMA CommitFileData ==
  ASSUME MetadataInv, DataInv, NEW n \in Name, NEW s \in Contents, CommitFile(n, s),
         \A h \in Range(s) : h \in DOMAIN chunks /\ chunks[h].ref_count >= 0 /\ Available(h),
         UNCHANGED disk
  PROVE  TablesGrow /\ DiskGrows /\ CountedStored'
<1>0. TablesInv
  BY MetadataParts
<1>1. /\ ProtectionKept /\ NodesKept
      /\ DOMAIN chunks' = DOMAIN chunks
      /\ \A h \in DOMAIN chunks \ Range(s) : chunks'[h] = chunks[h]
  BY <1>0, CommitFileStep
<1>2. TombstonesKept
  BY <1>1 DEF TombstonesKept
<1>3. TablesGrow /\ DiskGrows
  BY <1>1, <1>2 DEF TablesGrow, DiskGrows
<1>4. \A h : Available(h) => Available(h)'
  BY <1>3, GrowthKeepsStored
<1>5. CountedStored'
  <2> SUFFICES ASSUME NEW h \in DOMAIN chunks', chunks'[h].ref_count >= 1
               PROVE  Available(h)'
    BY DEF CountedStored
  <2>1. CASE h \in Range(s)
    BY <1>4, <2>1
  <2>2. CASE h \notin Range(s)
    BY <1>1, <1>4, <2>2 DEF DataInv, CountedStored
  <2> QED
    BY <2>1, <2>2
<1> QED
  BY <1>3, <1>5

\* Assignments to the variables of one client.
LEMMA Assigned ==
  ASSUME ClientTypeOK, NEW c \in Client
  PROVE  /\ \A r : run' = [run EXCEPT ![c] = r] =>
              run'[c] = r /\ \A d \in Client \ {c} : run'[d] = run[d]
         /\ \A S : log' = [log EXCEPT ![c] = @ \cup S] =>
              log'[c] = log[c] \cup S /\ \A d \in Client \ {c} : log'[d] = log[d]
         /\ DeleteUploadManifest(c) =>
              /\ log'[c] = {} /\ \A d \in Client \ {c} : log'[d] = log[d]
              /\ DOMAIN manifest' = DOMAIN manifest \ {c}
              /\ \A d \in DOMAIN manifest \ {c} : manifest'[d] = manifest[d]
BY DEF ClientTypeOK, DeleteUploadManifest

\* A session is discarded or there was none, and a new run starts.
LEMMA StartFreshData ==
  ASSUME MetadataInv, DataInv, DataSafe, NEW c \in Client, NEW s \in Contents,
         StartFresh(c, s), UNCHANGED gc
  PROVE  DataInv'
<1>0. ClientTypeOK /\ ClientInv(c)
  BY DEF MetadataInv, TypeOK, DataInv, ClientInv
<1>1. UNCHANGED repositoryVars /\ UNCHANGED disk
  BY DEF StartFresh
<1>2. /\ run'[c] = ARun("hashing", s, {}, now, {}, {})
      /\ \A d \in Client \ {c} : run'[d] = run[d]
  <2>1. run' = [run EXCEPT ![c] = ARun("hashing", s, {}, now, {}, {})]
    BY DEF StartFresh
  <2> QED
    BY <1>0, <2>1, Assigned
<1>3. run'[c].phase = "hashing" /\ run'[c].unlogged = {}
  BY <1>2 DEF ARun
<1>4. /\ c \notin DOMAIN manifest' /\ log'[c] = {}
      /\ \A d \in Client \ {c} : ClientKept(d)
  <2>1. CASE c \in DOMAIN manifest
    <3>1. DeleteUploadManifest(c)
      BY <2>1 DEF StartFresh
    <3> QED
      BY <1>0, <1>2, <3>1, Assigned DEF ClientKept
  <2>2. CASE c \notin DOMAIN manifest
    <3>1. UNCHANGED <<manifest, log>>
      BY <2>2 DEF StartFresh
    <3> QED
      BY <1>0, <1>2, <2>2, <3>1 DEF ClientKept, ClientInv, SessionSane
  <2> QED
    BY <2>1, <2>2
<1>5. ClientInv(c)'
  BY <1>3, <1>4 DEF ClientInv, SessionSane, LogKept, TransferComplete
<1>6. TablesGrow /\ DiskGrows /\ CountedStored'
  BY <1>1, DataUnchanged
<1> QED
  BY <1>1, <1>4, <1>5, <1>6, ClientDataFrame DEF repositoryVars

\* The manifest is written: nothing is logged for it yet.
LEMMA SaveManifestData ==
  ASSUME MetadataInv, DataInv, DataSafe, NEW c \in Client, SaveManifest(c), UNCHANGED gc
  PROVE  DataInv'
<1> DEFINE s == run[c].chunk_hashes
<1>0. ClientTypeOK /\ ClientInv(c) /\ RunSane(c) /\ run[c].since \in Nat /\ now \in Nat
  BY ClientFields, Numbers DEF MetadataInv, TypeOK, DataInv, ClientInv, RunsSane
<1>1. UNCHANGED repositoryVars /\ UNCHANGED disk /\ UNCHANGED log /\ run[c].phase = "hashing"
  BY DEF SaveManifest
<1>2. /\ run'[c] = ARun("negotiating", s, {}, now, {}, {})
      /\ \A d \in Client \ {c} : run'[d] = run[d]
  <2>1. run' = [run EXCEPT ![c] = ARun("negotiating", s, {}, now, {}, {})]
    BY DEF SaveManifest
  <2> QED
    BY <1>0, <2>1, Assigned
<1>3. /\ run'[c].phase = "negotiating" /\ run'[c].unlogged = {} /\ run'[c].completed = {}
      /\ run'[c].since = now /\ run'[c].chunk_hashes = s
  BY <1>2 DEF ARun
<1>4. /\ c \in DOMAIN manifest' /\ log'[c] = {}
      /\ manifest'[c].chunk_hashes = s /\ manifest'[c].session_timestamp = run[c].since
  BY <1>0, <1>1 DEF SaveManifest, ClientInv, SessionSane
<1>5. \A d \in Client \ {c} : ClientKept(d)
  BY <1>1, <1>2 DEF ClientKept, SaveManifest
<1>6. run[c].since <= now /\ now <= now + NegotiationBound
  BY <1>0, Numbers DEF RunSane
<1>7. now' = now
  BY <1>1 DEF repositoryVars
<1>8. ClientInv(c)'
  BY <1>3, <1>4, <1>6, <1>7 DEF ClientInv, SessionSane, LogKept, TransferComplete
<1>9. TablesGrow /\ DiskGrows /\ CountedStored'
  BY <1>1, DataUnchanged
<1> QED
  BY <1>5, <1>7, <1>8, <1>9, ClientDataFrame

\* A session is resumed within its window.
LEMMA StartResumeData ==
  ASSUME MetadataInv, DataInv, DataSafe, NEW c \in Client, StartResume(c), UNCHANGED gc
  PROVE  DataInv'
<1> DEFINE s == manifest[c].chunk_hashes
           done == log[c] \cap DOMAIN s
<1>0. /\ ClientTypeOK /\ ClientInv(c) /\ now \in Nat /\ c \in DOMAIN manifest
      /\ manifest[c].session_timestamp \in Nat /\ ResumeWindow \in Nat /\ NegotiationBound \in Nat
  BY ManifestFields, Numbers DEF MetadataInv, TypeOK, DataInv, ClientInv, StartResume
<1>1. UNCHANGED repositoryVars /\ UNCHANGED disk /\ UNCHANGED <<manifest, log>> /\ ~Expired(c)
  BY DEF StartResume
<1>2. /\ run'[c] = ARun("negotiating", s, done, now, {}, {})
      /\ \A d \in Client \ {c} : run'[d] = run[d]
  <2>1. run' = [run EXCEPT ![c] = ARun("negotiating", s, done, now, {}, {})]
    BY DEF StartResume
  <2> QED
    BY <1>0, <2>1, Assigned
<1>3. /\ run'[c].phase = "negotiating" /\ run'[c].unlogged = {} /\ run'[c].completed = done
      /\ run'[c].since = now /\ run'[c].chunk_hashes = s
  BY <1>2 DEF ARun
<1>4. \A d \in Client \ {c} : ClientKept(d)
  BY <1>1, <1>2 DEF ClientKept
<1>5. /\ manifest[c].session_timestamp <= now
      /\ now <= manifest[c].session_timestamp + ResumeWindow
      /\ now <= now + NegotiationBound
  BY <1>0, <1>1 DEF ClientInv, SessionSane, Expired
<1>6. now' = now /\ chunks' = chunks
  BY <1>1 DEF repositoryVars
<1>7. SessionSane(c)' /\ TransferComplete(c)'
  BY <1>0, <1>1, <1>3, <1>5, <1>6 DEF SessionSane, TransferComplete
<1>8. LogKept(c)'
  BY <1>0, <1>1, <1>6 DEF ClientInv, LogKept, Kept, Protected, Available
<1>9. TablesGrow /\ DiskGrows /\ CountedStored'
  BY <1>1, DataUnchanged
<1> QED
  BY <1>4, <1>6, <1>7, <1>8, <1>9, ClientDataFrame DEF ClientInv

\* The chunks of a client that is transferring are protected since its session began.
LEMMA TransferProtected ==
  ASSUME MetadataInv, DataInv, DataSafe,
         NEW c \in Client, run[c].phase = "transfer", NEW i \in DOMAIN run[c].chunk_hashes
  PROVE  /\ c \in DOMAIN manifest
         /\ manifest[c].chunk_hashes = run[c].chunk_hashes
         /\ manifest[c].session_timestamp \in Nat
         /\ manifest[c].session_timestamp <= now
         /\ Protected(run[c].chunk_hashes[i], manifest[c].session_timestamp)
         /\ run[c].chunk_hashes[i] \in Hash
<1> DEFINE h == run[c].chunk_hashes[i]
<1>1. /\ c \in DOMAIN manifest
      /\ manifest[c].chunk_hashes = run[c].chunk_hashes
      /\ manifest[c].session_timestamp <= run[c].since
      /\ manifest[c].session_timestamp <= now
  BY DEF DataInv, SessionSane
<1>2. run[c].chunk_hashes \in Contents /\ RunSane(c) /\ run[c].since \in Nat
  BY ClientFields DEF MetadataInv, RunsSane, RunSane, TypeOK
<1>3. h \in Range(run[c].chunk_hashes) /\ h \in Hash
  BY <1>2, ContentsRange
<1>4. Protected(h, run[c].since)
  BY <1>2, <1>3 DEF RunSane
<1>5. manifest[c].session_timestamp \in Nat
  BY <1>1, ManifestFields
<1>6. h \in DOMAIN chunks /\ chunks[h].created_at \in Nat
  BY <1>4, RowFields DEF Protected, MetadataInv, TypeOK
<1>7. Protected(h, manifest[c].session_timestamp)
  BY <1>1, <1>2, <1>4, <1>5, <1>6 DEF Protected
<1> QED
  BY <1>1, <1>3, <1>5, <1>7

\* What a run has stored and not yet logged is kept.
LEMMA UnloggedKept ==
  ASSUME MetadataInv, DataInv, DataSafe, NEW c \in Client, NEW i \in Unlogged(c)
  PROVE  /\ c \in DOMAIN manifest
         /\ i \in DOMAIN manifest[c].chunk_hashes
         /\ Kept(manifest[c].chunk_hashes[i], manifest[c].session_timestamp)
<1>1. PICK p \in run[c].unlogged : i = p[1]
  BY DEF Unlogged
<1>2. run[c].phase = "transfer"
  BY <1>1 DEF DataInv, SessionSane
<1>3. i \in DOMAIN run[c].chunk_hashes /\ Available(run[c].chunk_hashes[i])
  BY <1>1, <1>2 DEF DataInv, TransferComplete
<1> QED
  BY <1>2, <1>3, TransferProtected DEF Kept

\* A log that grows by kept chunks.
LEMMA LogGrows ==
  ASSUME MetadataInv, DataInv, DataSafe, ProtectionKept, StoredKept, now' = now,
         NEW c \in Client, UNCHANGED manifest,
         \A i \in log'[c] \ log[c] :
           c \in DOMAIN manifest =>
             \A h, t : (/\ i \in DOMAIN manifest[c].chunk_hashes
                        /\ h = manifest[c].chunk_hashes[i]
                        /\ t = manifest[c].session_timestamp
                        /\ now <= t + ExpiryHours) => Kept(h, t)'
  PROVE  LogKept(c)'
<1>1. ASSUME c \in DOMAIN manifest, now <= manifest[c].session_timestamp + ExpiryHours,
             NEW i \in log'[c] \cap DOMAIN manifest[c].chunk_hashes,
             NEW h, h = manifest[c].chunk_hashes[i],
             NEW t, t = manifest[c].session_timestamp
      PROVE  Kept(h, t)'
  <2>1. CASE i \in log[c]
    <3>1. Kept(h, t) /\ now <= t + ExpiryHours /\ t <= now /\ t \in Nat
      BY <1>1, <2>1, ManifestFields DEF DataInv, LogKept, SessionSane
    <3> QED
      BY <3>1, KeptKept
  <2>2. CASE i \notin log[c]
    BY <1>1, <2>2
  <2> QED
    BY <2>1, <2>2
<1> QED
  BY <1>1 DEF LogKept, Kept, Protected, Available

\* A run ends, its session stays, and what it stored may be logged.
LEMMA RunEnds ==
  ASSUME MetadataInv, DataInv, DataSafe, ProtectionKept, StoredKept, now' = now,
         NEW c \in Client, run' = [run EXCEPT ![c] = NoRun], UNCHANGED manifest,
         run[c].phase # "idle",
         log' = [log EXCEPT ![c] = @ \cup Unlogged(c)] \/ UNCHANGED log
  PROVE  ClientInv(c)' /\ \A d \in Client \ {c} : ClientKept(d)
<1>0. ClientTypeOK /\ SessionSane(c)
  BY DEF MetadataInv, TypeOK, DataInv
<1>1. /\ run'[c] = NoRun /\ \A d \in Client \ {c} : run'[d] = run[d]
      /\ log'[c] \subseteq log[c] \cup Unlogged(c)
      /\ log[c] \subseteq log'[c]
      /\ \A d \in Client \ {c} : log'[d] = log[d]
  <2>1. run'[c] = NoRun /\ \A d \in Client \ {c} : run'[d] = run[d]
    BY <1>0, Assigned
  <2>2. CASE UNCHANGED log
    BY <2>1, <2>2
  <2>3. CASE log' = [log EXCEPT ![c] = @ \cup Unlogged(c)]
    BY <1>0, <2>1, <2>3 DEF ClientTypeOK
  <2> QED
    BY <2>2, <2>3
<1>2. run'[c].phase = "idle" /\ run'[c].unlogged = {}
  BY <1>1 DEF NoRun, ARun
<1>3. \A d \in Client \ {c} : ClientKept(d)
  BY <1>1 DEF ClientKept
<1>4. c \notin DOMAIN manifest => Unlogged(c) = {}
  BY UnloggedKept
<1>5. SessionSane(c)' /\ TransferComplete(c)'
  BY <1>0, <1>1, <1>2, <1>4 DEF SessionSane, TransferComplete
<1>6. LogKept(c)'
  <2>1. ASSUME NEW i \in log'[c] \ log[c], c \in DOMAIN manifest, NEW h, NEW t,
               h = manifest[c].chunk_hashes[i], t = manifest[c].session_timestamp,
               now <= t + ExpiryHours
        PROVE  Kept(h, t)'
    <3>1. Kept(h, t)
      BY <1>1, <2>1, UnloggedKept
    <3>2. t \in Nat /\ t <= now
      BY <1>0, <2>1, ManifestFields DEF SessionSane
    <3> QED
      BY <2>1, <3>1, <3>2, KeptKept
  <2> QED
    BY <2>1, LogGrows
<1> QED
  BY <1>3, <1>5, <1>6 DEF ClientInv

\* A run gives up, or its process dies.
LEMMA AbortData ==
  ASSUME MetadataInv, DataInv, DataSafe, NEW c \in Client, Abort(c) \/ ClientCrash(c),
         UNCHANGED gc
  PROVE  DataInv'
<1>1. /\ UNCHANGED repositoryVars /\ UNCHANGED disk /\ UNCHANGED manifest
      /\ run[c].phase # "idle" /\ run' = [run EXCEPT ![c] = NoRun]
      /\ log' = [log EXCEPT ![c] = @ \cup Unlogged(c)] \/ UNCHANGED log
  BY DEF Abort, ClientCrash
<1>2. TablesGrow /\ DiskGrows /\ CountedStored' /\ StoredKept /\ now' = now
  BY <1>1, DataUnchanged DEF repositoryVars
<1>3. ProtectionKept
  BY <1>2 DEF TablesGrow
<1>4. ClientInv(c)' /\ \A d \in Client \ {c} : ClientKept(d)
  BY <1>1, <1>2, <1>3, RunEnds
<1> QED
  BY <1>2, <1>4, ClientDataFrame

\* upload-init served, its answer lost.
LEMMA InitializeUploadLostData ==
  ASSUME MetadataInv, DataInv, DataSafe, NEW c \in Client, InitializeUploadLost(c),
         UNCHANGED gc
  PROVE  DataInv'
<1>1. PICK placement \in [Absent(run[c].chunk_hashes) -> NodeSets] :
        FilterMissingChunks(run[c].chunk_hashes, placement)
  BY DEF InitializeUploadLost
<1>2. /\ UNCHANGED disk /\ UNCHANGED manifest /\ UNCHANGED log
      /\ run[c].phase # "idle" /\ run' = [run EXCEPT ![c] = NoRun]
  BY DEF InitializeUploadLost
<1>3. run[c].chunk_hashes \in Contents
  BY <1>2 DEF MetadataInv, RunsSane, RunSane
<1>4. TablesGrow /\ DiskGrows /\ CountedStored'
  BY <1>1, <1>2, <1>3, FilterMissingChunksData
<1>5. StoredKept /\ ProtectionKept /\ now' = now
  BY <1>1, <1>4, GrowthKeepsStored DEF TablesGrow, FilterMissingChunks
<1>6. ClientInv(c)' /\ \A d \in Client \ {c} : ClientKept(d)
  BY <1>2, <1>5, RunEnds
<1> QED
  BY <1>4, <1>5, <1>6, ClientDataFrame

\* upload-init answered: what the plan does not ask for is stored, either because
\* files use it or because this session has sent it.
LEMMA InitializeUploadData ==
  ASSUME MetadataInv, DataInv, DataSafe, NEW c \in Client, InitializeUpload(c),
         UNCHANGED gc
  PROVE  DataInv'
<1> DEFINE s == run[c].chunk_hashes
           completed == run[c].completed
<1>1. PICK placement \in [Absent(s) -> NodeSets] :
        /\ FilterMissingChunks(s, placement)
        /\ run' = [run EXCEPT ![c] = ARun("transfer", s, completed, now,
                                          PendingTasks(c, placement), {})]
  BY DEF InitializeUpload
<1>2. UNCHANGED disk /\ UNCHANGED manifest /\ UNCHANGED log /\ run[c].phase = "negotiating"
  BY DEF InitializeUpload
<1>3. s \in Contents /\ ClientTypeOK /\ run[c].since \in Nat
  BY <1>2, ClientFields DEF MetadataInv, RunsSane, RunSane, TypeOK
<1>4. /\ TablesGrow /\ DiskGrows /\ CountedStored'
      /\ \A h \in Range(s) : h \in DOMAIN chunks' /\ chunks'[h].nodes = PlanNodes(h, placement)
      /\ \A h \in Range(s) \ Missing(s) : Available(h)
  BY <1>1, <1>2, <1>3, FilterMissingChunksData
<1>5. /\ \A h : Available(h) => Available(h)'
      /\ StoredKept /\ ProtectionKept /\ now' = now
  BY <1>1, <1>4, GrowthKeepsStored DEF TablesGrow, FilterMissingChunks
<1>6. /\ run'[c] = ARun("transfer", s, completed, now, PendingTasks(c, placement), {})
      /\ \A d \in Client \ {c} : run'[d] = run[d]
  BY <1>1, <1>3, Assigned
<1>7. /\ run'[c].phase = "transfer" /\ run'[c].chunk_hashes = s /\ run'[c].since = now
      /\ run'[c].todo = PendingTasks(c, placement) /\ run'[c].unlogged = {}
  BY <1>6 DEF ARun
<1>8. \A d \in Client \ {c} : ClientKept(d)
  BY <1>2, <1>6 DEF ClientKept
<1>9. /\ c \in DOMAIN manifest /\ manifest[c].chunk_hashes = s
      /\ manifest[c].session_timestamp <= now /\ completed \subseteq log[c]
      /\ now <= run[c].since + NegotiationBound
      /\ completed # {} => run[c].since <= manifest[c].session_timestamp + ResumeWindow
      /\ LogKept(c)
  BY <1>2 DEF DataInv, SessionSane
<1>10. SessionSane(c)'
  BY <1>2, <1>5, <1>7, <1>9 DEF SessionSane
<1>11. LogKept(c)'
  BY <1>2, <1>5, LogGrows
<1>12. ASSUME NEW i \in DOMAIN s, i \in completed
       PROVE  Available(s[i])
  <2>1. now <= manifest[c].session_timestamp + ExpiryHours
    BY <1>3, <1>9, <1>12, Numbers, ManifestFields
  <2>2. Kept(s[i], manifest[c].session_timestamp)
    BY <1>9, <1>12, <2>1 DEF LogKept
  <2> QED
    BY <2>2 DEF Kept
<1>13. ASSUME NEW i \in DOMAIN s, NEW h, h = s[i]
       PROVE  \/ Available(h)'
              \/ \A w \in chunks'[h].nodes : <<i, w>> \in PendingTasks(c, placement)
  <2>1. h \in Range(s) /\ h \in Hash
    BY <1>3, <1>13, ContentsRange
  <2>2. CASE h \notin Missing(s)
    BY <1>4, <1>5, <2>1, <2>2
  <2>3. CASE i \in completed
    BY <1>5, <1>12, <1>13, <2>3
  <2>4. CASE h \in Missing(s) /\ i \notin completed
    <3>1. PlanNodes(h, placement) \subseteq Worker
      <4>1. h \in DOMAIN chunks => chunks[h].nodes \in NodeSets
        BY RowFields DEF MetadataInv, TypeOK
      <4>2. h \notin DOMAIN chunks => placement[h] \in NodeSets
        BY <2>1 DEF Absent
      <4> QED
        BY <4>1, <4>2, RepositoryAssumption DEF PlanNodes
    <3>2. \A w \in PlanNodes(h, placement) : <<i, w>> \in PendingTasks(c, placement)
      BY <1>13, <2>4, <3>1 DEF PendingTasks
    <3> QED
      BY <1>4, <2>1, <3>2
  <2> QED
    BY <2>2, <2>3, <2>4
<1>14. ASSUME NEW p \in PendingTasks(c, placement), NEW h, h = s[p[1]]
       PROVE  p[1] \in DOMAIN s /\ p[2] \in chunks'[h].nodes
  <2>1. p[1] \in DOMAIN s /\ p[2] \in PlanNodes(h, placement)
    BY <1>14 DEF PendingTasks
  <2> QED
    BY <1>3, <1>4, <1>14, <2>1, ContentsRange
<1>15. TransferComplete(c)'
  <2> HIDE DEF s
  <2> QED
    BY <1>7, <1>13, <1>14 DEF TransferComplete, Available
<1> QED
  BY <1>4, <1>5, <1>8, <1>10, <1>11, <1>15, ClientDataFrame DEF ClientInv

\* A chunk of a transfer reaches a node of its plan.
LEMMA PostChunkData ==
  ASSUME MetadataInv, DataInv, DataSafe, NEW c \in Client, run[c].phase = "transfer",
         NEW i, NEW w, <<i, w>> \in run[c].todo, NEW h, h = run[c].chunk_hashes[i],
         PostChunk(w, h), UNCHANGED repositoryVars
  PROVE  /\ TablesGrow /\ DiskGrows /\ CountedStored' /\ StoredKept
         /\ \A k : Available(k) => Available(k)'
         /\ i \in DOMAIN run[c].chunk_hashes /\ Available(h)'
<1>0. DiskTypeOK /\ TablesInv /\ TransferComplete(c)
  BY MetadataParts DEF DataInv
<1>1. i \in DOMAIN run[c].chunk_hashes /\ w \in chunks[h].nodes
  BY <1>0 DEF TransferComplete
<1>2. h \in DOMAIN chunks /\ chunks[h].ref_count >= 0
  BY <1>1, TransferProtected DEF Protected
<1>3. w \in Worker /\ h \in Hash
  BY <1>0, <1>1, <1>2, RowFields, RepositoryAssumption DEF TablesInv, RepositoryTypeOK
<1>4. ProtectionKept /\ NodesKept
  BY <1>0, TablesUnchanged
<1>5. TablesGrow
  BY <1>4 DEF TablesGrow, TombstonesKept, repositoryVars
<1>6. /\ \A v \in Worker \ {w} : disk'[v] = disk[v]
      /\ disk'[w] = disk[w] \cup {h}
  BY <1>0, <1>3 DEF PostChunk, DiskTypeOK
<1>7. DiskGrows
  BY <1>1, <1>2, <1>6 DEF DiskGrows
<1>8. StoredKept /\ \A k : Available(k) => Available(k)'
  BY <1>5, <1>7, GrowthKeepsStored
<1>9. CountedStored'
  BY <1>8 DEF DataInv, CountedStored, repositoryVars
<1>10. Available(h)'
  BY <1>1, <1>2, <1>6 DEF Available, repositoryVars
<1> QED
  BY <1>1, <1>5, <1>7, <1>8, <1>9, <1>10

\* The node answers, and the index is queued for the log or the log is written.
LEMMA UploadSucceedsData ==
  ASSUME MetadataInv, DataInv, DataSafe, NEW c \in Client, NEW i, NEW w,
         UploadSucceeds(c, i, w), UNCHANGED gc
  PROVE  DataInv'
<1> DEFINE s == run[c].chunk_hashes
           done == run[c].unlogged \cup {<<i, w>>}
           full == Cardinality(done) >= LogBatch
           rest == IF full THEN {} ELSE done
           logged == IF full THEN {p[1] : p \in done} ELSE {}
<1>0. ClientTypeOK /\ SessionSane(c) /\ TransferComplete(c)
  BY DEF MetadataInv, TypeOK, DataInv
<1>1. /\ run[c].phase = "transfer" /\ <<i, w>> \in run[c].todo
      /\ PostChunk(w, s[i]) /\ UNCHANGED repositoryVars /\ UNCHANGED manifest
      /\ log' = [log EXCEPT ![c] = @ \cup logged]
      /\ run' = [run EXCEPT ![c] = ARun(run[c].phase, s, run[c].completed, run[c].since,
                                        run[c].todo \ {<<i, w>>}, rest)]
  BY DEF UploadSucceeds
<1>2. /\ \A p \in rest : p \in run[c].unlogged \/ p = <<i, w>>
      /\ \A j \in logged : j \in Unlogged(c) \/ j = i
  BY DEF Unlogged
<1> HIDE DEF rest, logged
<1>3. PICK h : h = s[i]
  OBVIOUS
<1>4. /\ TablesGrow /\ DiskGrows /\ CountedStored' /\ StoredKept
      /\ \A k : Available(k) => Available(k)'
      /\ i \in DOMAIN s /\ Available(h)'
  BY <1>1, <1>3, PostChunkData
<1>5. ProtectionKept /\ now' = now /\ chunks' = chunks
  BY <1>1, <1>4 DEF TablesGrow, repositoryVars
<1>6. /\ run'[c] = ARun(run[c].phase, s, run[c].completed, run[c].since,
                        run[c].todo \ {<<i, w>>}, rest)
      /\ \A d \in Client \ {c} : run'[d] = run[d]
      /\ log'[c] = log[c] \cup logged
      /\ \A d \in Client \ {c} : log'[d] = log[d]
  <2>1. /\ run'[c] = ARun(run[c].phase, s, run[c].completed, run[c].since,
                          run[c].todo \ {<<i, w>>}, rest)
        /\ \A d \in Client \ {c} : run'[d] = run[d]
    BY <1>0, <1>1, Assigned
  <2>2. log'[c] = log[c] \cup logged /\ \A d \in Client \ {c} : log'[d] = log[d]
    BY <1>0, <1>1 DEF ClientTypeOK
  <2> QED
    BY <2>1, <2>2
<1>7. /\ run'[c].phase = "transfer" /\ run'[c].chunk_hashes = s
      /\ run'[c].since = run[c].since
      /\ run'[c].todo = run[c].todo \ {<<i, w>>} /\ run'[c].unlogged = rest
  BY <1>1, <1>6 DEF ARun
<1>8. \A d \in Client \ {c} : ClientKept(d)
  BY <1>1, <1>6 DEF ClientKept
<1>9. SessionSane(c)'
  BY <1>0, <1>1, <1>5, <1>7 DEF SessionSane
<1>10. LogKept(c)'
  <2>1. ASSUME NEW j \in log'[c] \ log[c], c \in DOMAIN manifest, NEW k, NEW t,
               k = manifest[c].chunk_hashes[j], t = manifest[c].session_timestamp,
               now <= t + ExpiryHours
        PROVE  Kept(k, t)'
    <3>1. t \in Nat /\ t <= now
      BY <1>0, <2>1, ManifestFields DEF SessionSane
    <3>2. CASE j \in Unlogged(c)
      <4>1. Kept(k, t)
        BY <2>1, <3>2, UnloggedKept
      <4> QED
        BY <1>4, <1>5, <2>1, <3>1, <4>1, KeptKept
    <3>3. CASE j = i
      <4>1. k = h /\ Protected(k, t)
        BY <1>1, <1>3, <1>4, <2>1, <3>3, TransferProtected
      <4>2. Protected(k, t)'
        BY <1>5, <4>1 DEF Protected
      <4> QED
        BY <1>4, <4>1, <4>2 DEF Kept
    <3> QED
      BY <1>2, <1>6, <2>1, <3>2, <3>3
  <2> QED
    BY <1>1, <1>4, <1>5, <2>1, LogGrows
<1>11. TransferComplete(c)'
  <2>1. ASSUME NEW j \in DOMAIN s, NEW k, k = s[j]
        PROVE  \/ Available(k)'
               \/ \A v \in chunks[k].nodes : <<j, v>> \in run[c].todo \ {<<i, w>>}
    <3>1. CASE j = i
      BY <1>3, <1>4, <2>1, <3>1
    <3>2. CASE j # i
      BY <1>0, <1>1, <1>4, <2>1, <3>2 DEF TransferComplete
    <3> QED
      BY <3>1, <3>2
  <2>2. ASSUME NEW p \in run[c].todo \ {<<i, w>>}, NEW k, k = s[p[1]]
        PROVE  p[1] \in DOMAIN s /\ p[2] \in chunks[k].nodes
    BY <1>0, <1>1, <2>2 DEF TransferComplete
  <2>3. ASSUME NEW p \in rest, NEW k, k = s[p[1]]
        PROVE  p[1] \in DOMAIN s /\ Available(k)'
    <3>1. CASE p \in run[c].unlogged
      BY <1>0, <1>1, <1>4, <2>3, <3>1 DEF TransferComplete
    <3>2. CASE p = <<i, w>>
      BY <1>3, <1>4, <2>3, <3>2
    <3> QED
      BY <1>2, <3>1, <3>2
  <2> HIDE DEF s
  <2> QED
    BY <1>5, <1>7, <2>1, <2>2, <2>3 DEF TransferComplete, Available
<1> QED
  BY <1>4, <1>5, <1>8, <1>9, <1>10, <1>11, ClientDataFrame DEF ClientInv

\* The node stored the chunk, the answer is lost.
LEMMA UploadLostData ==
  ASSUME MetadataInv, DataInv, DataSafe, NEW c \in Client, NEW i, NEW w,
         UploadLost(c, i, w), UNCHANGED gc
  PROVE  DataInv'
<1>1. /\ run[c].phase = "transfer" /\ <<i, w>> \in run[c].todo
      /\ PostChunk(w, run[c].chunk_hashes[i])
      /\ UNCHANGED repositoryVars /\ UNCHANGED clientVars
  BY DEF UploadLost
<1>2. TablesGrow /\ DiskGrows /\ CountedStored' /\ StoredKept
  BY <1>1, PostChunkData
<1>3. ProtectionKept /\ NodesKept /\ now' = now
  BY <1>1, <1>2 DEF TablesGrow, repositoryVars
<1>4. \A d \in Client : ClientKept(d)
  BY <1>1 DEF ClientKept, clientVars
<1>5. ClientInv(c)
  BY DEF DataInv, ClientInv
<1>6. ClientInv(c)'
  BY <1>2, <1>3, <1>4, <1>5, OtherClientsKept
<1> QED
  BY <1>2, <1>3, <1>4, <1>6, ClientDataFrame

\* The file is committed: everything has been sent, so every chunk is stored.
LEMMA CommitData ==
  ASSUME MetadataInv, DataInv, DataSafe, NEW c \in Client, Commit(c) \/ CommitLost(c),
         UNCHANGED gc
  PROVE  DataInv'
<1> DEFINE s == run[c].chunk_hashes
<1>0. ClientTypeOK /\ TransferComplete(c) /\ NameOf[c] \in Name
  BY ClientAssumption DEF MetadataInv, TypeOK, DataInv
<1>1. /\ run[c].phase = "transfer" /\ run[c].todo = {} /\ CommitFile(NameOf[c], s)
      /\ run' = [run EXCEPT ![c] = NoRun] /\ UNCHANGED disk
  BY DEF Commit, CommitLost
<1>2. s \in Contents
  BY <1>1 DEF MetadataInv, RunsSane, RunSane
<1>3. ASSUME NEW h \in Range(s)
      PROVE  h \in DOMAIN chunks /\ chunks[h].ref_count >= 0 /\ Available(h)
  <2>1. PICK i \in DOMAIN s : h = s[i]
    BY <1>3 DEF Range
  <2>2. h \in DOMAIN chunks /\ chunks[h].ref_count >= 0
    BY <1>1, <2>1, TransferProtected DEF Protected
  <2>3. chunks[h].nodes # {}
    BY <2>2, RowFields, RepositoryAssumption DEF MetadataInv, TypeOK
  <2> QED
    BY <1>0, <1>1, <2>1, <2>2, <2>3 DEF TransferComplete
<1>4. TablesGrow /\ DiskGrows /\ CountedStored'
  BY <1>0, <1>1, <1>2, <1>3, CommitFileData
<1>5. StoredKept /\ ProtectionKept /\ now' = now
  BY <1>1, <1>4, GrowthKeepsStored DEF TablesGrow, CommitFile
<1>6. ClientInv(c)' /\ \A d \in Client \ {c} : ClientKept(d)
  <2>1. CASE CommitLost(c)
    <3>1. UNCHANGED manifest /\ log' = [log EXCEPT ![c] = @ \cup Unlogged(c)]
      BY <2>1 DEF CommitLost
    <3> QED
      BY <1>1, <1>5, <3>1, RunEnds
  <2>2. CASE Commit(c)
    <3>1. DeleteUploadManifest(c)
      BY <2>2 DEF Commit
    <3>2. /\ run'[c] = NoRun /\ \A d \in Client \ {c} : run'[d] = run[d]
          /\ log'[c] = {} /\ \A d \in Client \ {c} : log'[d] = log[d]
          /\ DOMAIN manifest' = DOMAIN manifest \ {c}
          /\ \A d \in DOMAIN manifest \ {c} : manifest'[d] = manifest[d]
      BY <1>0, <1>1, <3>1, Assigned
    <3>3. run'[c].phase = "idle" /\ run'[c].unlogged = {}
      BY <3>2 DEF NoRun, ARun
    <3> QED
      BY <3>2, <3>3 DEF ClientInv, SessionSane, LogKept, TransferComplete, ClientKept
  <2> QED
    BY <2>1, <2>2
<1> QED
  BY <1>4, <1>5, <1>6, ClientDataFrame

\* Every step of a client preserves the invariant.
LEMMA ClientKeepsData ==
  ASSUME MetadataInv, DataInv, DataSafe, NEW c \in Client, ClientStep(c), UNCHANGED gc
  PROVE  DataInv'
<1>1. CASE \E s \in Contents : StartFresh(c, s)
  BY <1>1, StartFreshData
<1>2. CASE SaveManifest(c)
  BY <1>2, SaveManifestData
<1>3. CASE StartResume(c)
  BY <1>3, StartResumeData
<1>4. CASE InitializeUpload(c)
  BY <1>4, InitializeUploadData
<1>5. CASE InitializeUploadLost(c)
  BY <1>5, InitializeUploadLostData
<1>6. CASE \E p \in run[c].todo : UploadSucceeds(c, p[1], p[2]) \/ UploadLost(c, p[1], p[2])
  BY <1>6, UploadSucceedsData, UploadLostData
<1>7. CASE Abort(c) \/ ClientCrash(c)
  BY <1>7, AbortData
<1>8. CASE Commit(c) \/ CommitLost(c)
  BY <1>8, CommitData
<1>9. /\ ~DiscardHalfCleaned(c) /\ ~CommitHalfCleaned(c)
      /\ \A i, w : ~UploadTorn(c, i, w)
  BY DEF DataSafe, DataFaults, DiscardHalfCleaned, CommitHalfCleaned, UploadTorn
<1> QED
  BY <1>1, <1>2, <1>3, <1>4, <1>5, <1>6, <1>7, <1>8, <1>9 DEF ClientStep

\* A step of no client keeps what the invariant says of the clients.
LEMMA ClientsKept ==
  ASSUME MetadataInv, DataInv, DataSafe, NodesKept, ProtectionKept, StoredKept,
         now' = now, UNCHANGED clientVars
  PROVE  \A c \in Client : ClientInv(c)'
<1> SUFFICES ASSUME NEW c \in Client
             PROVE  ClientInv(c)'
  OBVIOUS
<1>1. ClientInv(c) /\ ClientKept(c)
  BY DEF DataInv, ClientInv, ClientKept, clientVars
<1> QED
  BY <1>1, OtherClientsKept

\* A file is removed.
LEMMA RemoveKeepsData ==
  ASSUME MetadataInv, DataInv, DataSafe, NEW n \in Name, Remove(n), UNCHANGED gc
  PROVE  DataInv'
<1>0. TablesInv /\ DeleteFile(n) /\ UNCHANGED disk /\ UNCHANGED clientVars /\ now' = now
  BY MetadataParts DEF Remove, DeleteFile
<1>1. /\ TablesInv' /\ ProtectionKept /\ NodesKept
      /\ DOMAIN chunks' = DOMAIN chunks
      /\ \A h \in DOMAIN chunks : /\ chunks'[h].ref_count <= chunks[h].ref_count
                                  /\ chunks[h].ref_count = -1 => chunks'[h].ref_count = -1
  BY <1>0, DeleteFileStep
<1>2. TablesGrow /\ DiskGrows
  BY <1>0, <1>1 DEF TablesGrow, TombstonesKept, DiskGrows
<1>3. StoredKept /\ \A h : Available(h) => Available(h)'
  BY <1>2, GrowthKeepsStored
<1>4. CountedStored'
  <2> SUFFICES ASSUME NEW h \in DOMAIN chunks', chunks'[h].ref_count >= 1
               PROVE  Available(h)'
    BY DEF CountedStored
  <2>1. /\ h \in DOMAIN chunks /\ chunks[h].ref_count \in Int /\ chunks'[h].ref_count \in Int
        /\ chunks'[h].ref_count <= chunks[h].ref_count
    <3>1. \A k \in DOMAIN chunks : chunks[k].ref_count \in Int
      BY <1>0, RowFields DEF TablesInv
    <3>2. \A k \in DOMAIN chunks' : chunks'[k].ref_count \in Int
      BY <1>1 DEF TablesInv, RepositoryTypeOK, Row
    <3> QED
      BY <1>1, <3>1, <3>2
  <2>2. chunks[h].ref_count >= 1
    BY <2>1
  <2> QED
    BY <1>3, <2>1, <2>2 DEF DataInv, CountedStored
<1>5. \A c \in Client : ClientInv(c)'
  BY <1>0, <1>1, <1>3, ClientsKept
<1>6. PurgesExclusive'
  BY <1>2 DEF DataInv, PurgesExclusive, TablesGrow, TombstonesKept
<1>7. \A m \in Master : DaemonSane(m)' /\ PurgeComplete(m)'
  BY <1>0 DEF DataInv, DaemonSane, PurgeComplete
<1>8. NoLeakedBlobs'
  BY <1>0, <1>1 DEF DataInv, NoLeakedBlobs, NodesKept
<1> QED
  BY <1>4, <1>5, <1>6, <1>7, <1>8 DEF DataInv, ClientInv

\* The clock moves: sessions and claims age, but negotiations do not overstay.
LEMMA TickKeepsData ==
  ASSUME MetadataInv, DataInv, DataSafe, Tick
  PROVE  DataInv'
<1>0. /\ now \in Nat /\ now' = now + 1
      /\ chunks' = chunks /\ disk' = disk /\ gc' = gc
      /\ run' = run /\ manifest' = manifest /\ log' = log
  BY Numbers DEF Tick, clientVars
<1>1. PurgesExclusive' /\ CountedStored' /\ NoLeakedBlobs'
  BY <1>0 DEF DataInv, PurgesExclusive, CountedStored, NoLeakedBlobs, Available
<1>2. \A m \in Master : DaemonSane(m)' /\ PurgeComplete(m)'
  BY <1>0 DEF DataInv, DaemonSane, PurgeComplete
<1>3. ASSUME NEW c \in Client
      PROVE  SessionSane(c)' /\ LogKept(c)' /\ TransferComplete(c)'
  <2>1. /\ SessionSane(c) /\ LogKept(c) /\ TransferComplete(c) /\ run[c].since \in Nat
        /\ c \in DOMAIN manifest => manifest[c].session_timestamp \in Nat
    BY ClientFields DEF DataInv, MetadataInv, TypeOK
  <2>2. SessionSane(c)'
    <3>1. run[c].phase = "negotiating" => now + 1 <= run[c].since + NegotiationBound
      BY <1>0, <2>1, EngineAssumption DEF Tick
    <3>2. c \in DOMAIN manifest => manifest[c].session_timestamp <= now + 1
      BY <1>0, <2>1 DEF SessionSane
    <3> QED
      BY <1>0, <2>1, <3>1, <3>2 DEF SessionSane
  <2>3. LogKept(c)'
    <3>1. (c \in DOMAIN manifest /\ now' <= manifest[c].session_timestamp + ExpiryHours)
            => now <= manifest[c].session_timestamp + ExpiryHours
      BY <1>0, <2>1, Numbers
    <3> QED
      BY <1>0, <2>1, <3>1 DEF LogKept, Kept, Protected, Available
  <2>4. TransferComplete(c)'
    BY <1>0, <2>1 DEF TransferComplete, Available
  <2> QED
    BY <2>2, <2>3, <2>4
<1> QED
  BY <1>1, <1>2, <1>3 DEF DataInv

\* A step that changes nothing.
LEMMA StutterKeepsData ==
  ASSUME DataInv, UNCHANGED vars
  PROVE  DataInv'
<1>0. /\ now' = now /\ chunks' = chunks /\ disk' = disk /\ gc' = gc
      /\ run' = run /\ manifest' = manifest /\ log' = log
  BY DEF vars, repositoryVars, clientVars
<1>1. PurgesExclusive' /\ CountedStored' /\ NoLeakedBlobs'
  BY <1>0 DEF DataInv, PurgesExclusive, CountedStored, NoLeakedBlobs, Available
<1>2. \A m \in Master : DaemonSane(m)' /\ PurgeComplete(m)'
  BY <1>0 DEF DataInv, DaemonSane, PurgeComplete
<1>3. ASSUME NEW c \in Client
      PROVE  SessionSane(c)' /\ LogKept(c)' /\ TransferComplete(c)'
  <2>1. SessionSane(c) /\ LogKept(c) /\ TransferComplete(c)
    BY DEF DataInv
  <2>2. SessionSane(c)'
    BY <1>0, <2>1 DEF SessionSane
  <2>3. LogKept(c)'
    BY <1>0, <2>1 DEF LogKept, Kept, Protected, Available
  <2>4. TransferComplete(c)'
    BY <1>0, <2>1 DEF TransferComplete, Available
  <2> QED
    BY <2>2, <2>3, <2>4
<1> QED
  BY <1>1, <1>2, <1>3 DEF DataInv

\* The initial state.
LEMMA InitData ==
  Init => DataInv
<1> SUFFICES ASSUME Init
             PROVE  DataInv
  OBVIOUS
<1>1. \A m \in Master : gc[m] = Resting
  BY DEF Init, GcInit
<1>2. PurgesExclusive
  BY <1>1 DEF PurgesExclusive, Resting, ADaemon
<1>3. \A m \in Master : DaemonSane(m) /\ PurgeComplete(m)
  BY <1>1 DEF DaemonSane, PurgeComplete, Resting, ADaemon
<1>4. CountedStored
  BY DEF Init, RepositoryInit, CountedStored
<1>5. NoLeakedBlobs
  BY DEF Init, DiskInit, NoLeakedBlobs
<1>6. ASSUME NEW c \in Client
      PROVE  SessionSane(c) /\ LogKept(c) /\ TransferComplete(c)
  <2>1. /\ run[c].phase = "idle" /\ run[c].unlogged = {} /\ log[c] = {}
        /\ c \notin DOMAIN manifest
    BY DEF Init, ClientInit, NoRun, ARun
  <2> QED
    BY <2>1 DEF SessionSane, LogKept, TransferComplete
<1> QED
  BY <1>2, <1>3, <1>4, <1>5, <1>6 DEF DataInv

-----------------------------------------------------------------------------
(* Garbage collectors.                                                     *)

\* Everything a step of daemon m does not have to be asked about.
DaemonStep(m) ==
  /\ NodesKept /\ ProtectionKept /\ StoredKept /\ now' = now /\ UNCHANGED clientVars
  /\ \A w \in Worker : disk'[w] \subseteq disk[w]
  /\ \A k \in Master \ {m} : gc'[k] = gc[k]

\* What is left to show of a step of daemon m.
LEMMA GcDataFrame ==
  ASSUME MetadataInv, DataInv, DataSafe, NEW m \in Master, DaemonStep(m),
         PurgesExclusive', DaemonSane(m)', PurgeComplete(m)', CountedStored', NoLeakedBlobs'
  PROVE  DataInv'
<1>1. \A c \in Client : ClientInv(c)'
  BY ClientsKept DEF DaemonStep
<1>2. ASSUME NEW k \in Master
      PROVE  DaemonSane(k)' /\ PurgeComplete(k)'
  <2>1. CASE k = m
    BY <2>1
  <2>2. CASE k # m
    <3>1. gc'[k] = gc[k] /\ DaemonSane(k) /\ PurgeComplete(k)
      BY <2>2 DEF DaemonStep, DataInv
    <3>2. \A w \in Worker : disk'[w] \subseteq disk[w]
      BY DEF DaemonStep
    <3> QED
      BY <3>1, <3>2 DEF DaemonSane, PurgeComplete
  <2> QED
    BY <2>1, <2>2
<1> QED
  BY <1>1, <1>2 DEF DataInv, ClientInv

\* The assignment to the state of a daemon.
LEMMA DaemonAssigned ==
  ASSUME GcTypeOK, NEW m \in Master, NEW d, gc' = [gc EXCEPT ![m] = d]
  PROVE  gc'[m] = d /\ \A k \in Master \ {m} : gc'[k] = gc[k]
BY DEF GcTypeOK

\* A batch is tombstoned: its chunks had count 0 and are in no other batch.
LEMMA SweepData ==
  ASSUME MetadataInv, DataInv, DataSafe, NEW m \in Master, Sweep(m), UNCHANGED clientVars
  PROVE  DataInv'
<1>0. TablesInv /\ GcTypeOK
  BY MetadataParts
<1>1. PICK batch :
        /\ GetOrphanedChunks(batch) /\ UNCHANGED disk
        /\ gc' = [gc EXCEPT ![m] = ADaemon("purge", batch, Replicas(batch), {})]
  BY DEF Sweep
<1>2. /\ ProtectionKept /\ NodesKept /\ now' = now
      /\ DOMAIN chunks' = DOMAIN chunks /\ batch \subseteq DOMAIN chunks
      /\ \A h \in batch : chunks[h].ref_count = 0 /\ chunks'[h].ref_count = -1
      /\ \A h \in DOMAIN chunks \ batch : chunks'[h] = chunks[h]
  BY <1>0, <1>1, GetOrphanedChunksStep DEF GetOrphanedChunks
<1>3. /\ gc'[m] = ADaemon("purge", batch, Replicas(batch), {})
      /\ \A k \in Master \ {m} : gc'[k] = gc[k]
  BY <1>0, <1>1, DaemonAssigned
<1>4. /\ gc'[m].pc = "purge" /\ gc'[m].batch = batch /\ gc'[m].todo = Replicas(batch)
      /\ gc'[m].failed = {}
  BY <1>3 DEF ADaemon
<1>5. \A h : Available(h) => Available(h)'
  BY <1>1, <1>2 DEF Available, NodesKept
<1>6. DaemonStep(m)
  BY <1>1, <1>2, <1>3, <1>5 DEF DaemonStep, StoredKept
<1>7. \A k \in Master : \A h \in gc[k].batch : chunks[h].ref_count = -1 /\ h \in DOMAIN chunks
  BY DEF DataInv, PurgesExclusive
<1>8. \A k \in Master : gc[k].batch \cap batch = {}
  BY <1>2, <1>7
<1>9. PurgesExclusive'
  <2>1. ASSUME NEW k \in Master, NEW h \in gc'[k].batch
        PROVE  h \in DOMAIN chunks' /\ chunks'[h].ref_count = -1
    <3>1. CASE k = m
      BY <1>2, <1>4, <2>1, <3>1
    <3>2. CASE k # m
      BY <1>2, <1>3, <1>7, <1>8, <2>1, <3>2
    <3> QED
      BY <3>1, <3>2
  <2>2. \A k, j \in Master : k # j => gc'[k].batch \cap gc'[j].batch = {}
    BY <1>3, <1>4, <1>8 DEF DataInv, PurgesExclusive
  <2> QED
    BY <2>1, <2>2 DEF PurgesExclusive
<1>10. \A p \in Replicas(batch) : p[1] \in batch
  BY DEF Replicas
<1>11. DaemonSane(m)'
  BY <1>4, <1>10 DEF DaemonSane
<1>12. PurgeComplete(m)'
  <2> SUFFICES ASSUME NEW h \in batch, NEW w \in Worker, h \in disk[w]
               PROVE  <<h, w>> \in Replicas(batch)
    BY <1>1, <1>4 DEF PurgeComplete
  <2>1. w \in chunks[h].nodes
    BY DEF DataInv, NoLeakedBlobs
  <2> QED
    BY <2>1 DEF Replicas
<1>13. CountedStored'
  BY <1>2, <1>5 DEF DataInv, CountedStored
<1>14. NoLeakedBlobs'
  BY <1>1, <1>2 DEF DataInv, NoLeakedBlobs, NodesKept
<1> QED
  BY <1>6, <1>9, <1>11, <1>12, <1>13, <1>14, GcDataFrame

\* A replica of a chunk of the batch may go: the row is a tombstone.
LEMMA DeleteReplicaData ==
  ASSUME MetadataInv, DataInv, DataSafe, NEW m \in Master, NEW h \in Hash, NEW w \in Worker,
         DeleteReplica(m, h, w) \/ DeleteReplicaFails(m, h, w), UNCHANGED clientVars
  PROVE  DataInv'
<1>0. TablesInv /\ GcTypeOK /\ DiskTypeOK /\ DaemonSane(m) /\ PurgeComplete(m)
  BY MetadataParts DEF DataInv
<1>1. PICK failed : /\ failed = gc[m].failed \/ failed = gc[m].failed \cup {h}
                    /\ failed = gc[m].failed => DropChunk(w, h) \/ h \in failed
                    /\ gc' = [gc EXCEPT ![m] = ADaemon(gc[m].pc, gc[m].batch,
                                                       gc[m].todo \ {<<h, w>>}, failed)]
  BY DEF DeleteReplica, DeleteReplicaFails
<1>2. /\ <<h, w>> \in gc[m].todo /\ UNCHANGED repositoryVars
      /\ DropChunk(w, h) \/ UNCHANGED disk
  BY DEF DeleteReplica, DeleteReplicaFails
<1>3. h \in gc[m].batch
  BY <1>0, <1>2 DEF DaemonSane
<1>4. h \in DOMAIN chunks /\ chunks[h].ref_count = -1
  BY <1>3 DEF DataInv, PurgesExclusive
<1>5. /\ \A v \in Worker : disk'[v] \subseteq disk[v]
      /\ \A v \in Worker : \A k \in disk[v] : k # h => k \in disk'[v]
      /\ DropChunk(w, h) => h \notin disk'[w]
  BY <1>0, <1>2 DEF DropChunk, DiskTypeOK
<1>6. ProtectionKept /\ NodesKept /\ now' = now /\ chunks' = chunks
  BY <1>0, <1>2, TablesUnchanged DEF repositoryVars
<1>7. \A k : (Available(k) /\ k # h) => Available(k)'
  <2>1. \A k \in DOMAIN chunks : chunks[k].nodes \subseteq Worker
    BY <1>0, RowFields, RepositoryAssumption DEF TablesInv
  <2> QED
    BY <1>5, <1>6, <2>1 DEF Available
<1>8. StoredKept /\ CountedStored'
  BY <1>4, <1>6, <1>7 DEF StoredKept, DataInv, CountedStored
<1>9. /\ gc'[m] = ADaemon(gc[m].pc, gc[m].batch, gc[m].todo \ {<<h, w>>}, failed)
      /\ \A k \in Master \ {m} : gc'[k] = gc[k]
  BY <1>0, <1>1, DaemonAssigned
<1>10. /\ gc'[m].pc = gc[m].pc /\ gc'[m].batch = gc[m].batch
       /\ gc'[m].todo = gc[m].todo \ {<<h, w>>} /\ gc'[m].failed = failed
  BY <1>9 DEF ADaemon
<1>11. DaemonStep(m)
  BY <1>5, <1>6, <1>8, <1>9 DEF DaemonStep
<1>12. \A k \in Master : gc'[k].batch = gc[k].batch
  BY <1>9, <1>10
<1>13. PurgesExclusive'
  BY <1>6, <1>12 DEF DataInv, PurgesExclusive
<1>14. gc[m].pc # "idle"
  BY <1>0, <1>2 DEF DaemonSane, Resting, ADaemon
<1>15. DaemonSane(m)'
  BY <1>0, <1>1, <1>3, <1>10, <1>14 DEF DaemonSane
<1>16. PurgeComplete(m)'
  <2> SUFFICES ASSUME gc[m].pc = "purge", NEW k \in gc[m].batch \ failed, NEW v \in Worker,
                      k \in disk'[v]
               PROVE  <<k, v>> \in gc[m].todo \ {<<h, w>>}
    BY <1>10 DEF PurgeComplete
  <2>1. <<k, v>> \in gc[m].todo
    BY <1>0, <1>1, <1>5 DEF PurgeComplete
  <2>2. k = h => failed = gc[m].failed /\ h \notin failed
    BY <1>1
  <2> QED
    BY <1>1, <1>5, <2>1, <2>2
<1>17. NoLeakedBlobs'
  BY <1>5, <1>6 DEF DataInv, NoLeakedBlobs
<1> QED
  BY <1>8, <1>11, <1>13, <1>15, <1>16, <1>17, GcDataFrame

\* A daemon drops part of its batch, the tables untouched or tombstones lifted.
LEMMA BatchShrinks ==
  ASSUME MetadataInv, DataInv, DataSafe, NEW m \in Master, NEW batch, NEW d,
         gc' = [gc EXCEPT ![m] = d], batch \subseteq gc[m].batch,
         d = Resting \/ d = ADaemon("revert", batch, {}, {}),
         NodesKept, ProtectionKept, now' = now, UNCHANGED disk, UNCHANGED clientVars,
         DOMAIN chunks' \subseteq DOMAIN chunks,
         \A h \in DOMAIN chunks \ DOMAIN chunks' :
            chunks[h].ref_count = -1 /\ \A w \in Worker : h \notin disk[w],
         \A h \in DOMAIN chunks' : chunks'[h] = chunks[h] \/ chunks'[h].ref_count = 0,
         \A k \in Master \ {m} : \A h \in gc[k].batch :
            h \in DOMAIN chunks' /\ chunks'[h] = chunks[h],
         d = Resting \/ \A h \in batch : h \in DOMAIN chunks' /\ chunks'[h] = chunks[h]
  PROVE  DataInv'
<1>0. TablesInv /\ GcTypeOK
  BY MetadataParts
<1>1. gc'[m] = d /\ \A k \in Master \ {m} : gc'[k] = gc[k]
  BY <1>0, DaemonAssigned
<1>2. /\ gc'[m].pc # "purge" /\ gc'[m].todo = {} /\ gc'[m].failed = {}
      /\ gc'[m].pc = "idle" => gc'[m] = Resting
      /\ gc'[m].batch = {} \/ gc'[m].batch = batch
      /\ d = Resting => gc'[m].batch = {}
  <2>1. CASE d = Resting
    BY <1>1, <2>1 DEF Resting, ADaemon
  <2>2. CASE d = ADaemon("revert", batch, {}, {})
    BY <1>1, <2>2 DEF Resting, ADaemon
  <2> QED
    BY <2>1, <2>2
<1>3. DaemonSane(m)' /\ PurgeComplete(m)'
  BY <1>2 DEF DaemonSane, PurgeComplete
<1>4. \A h : (Available(h) /\ h \in DOMAIN chunks') => Available(h)'
  BY DEF Available, NodesKept
<1>5. StoredKept
  BY <1>4 DEF StoredKept, Available
<1>6. CountedStored'
  <2> SUFFICES ASSUME NEW h \in DOMAIN chunks', chunks'[h].ref_count >= 1
               PROVE  Available(h)'
    BY DEF CountedStored
  <2>1. chunks'[h] = chunks[h] /\ h \in DOMAIN chunks
    OBVIOUS
  <2> QED
    BY <1>4, <2>1 DEF DataInv, CountedStored
<1>7. DaemonStep(m)
  BY <1>1, <1>5 DEF DaemonStep
<1>8. PurgesExclusive'
  <2>1. \A k \in Master : gc'[k].batch \subseteq gc[k].batch
    BY <1>1, <1>2
  <2>2. ASSUME NEW k \in Master, NEW h \in gc'[k].batch
        PROVE  h \in DOMAIN chunks' /\ chunks'[h].ref_count = -1
    <3>1. h \in gc[k].batch /\ chunks[h].ref_count = -1
      BY <2>1, <2>2 DEF DataInv, PurgesExclusive
    <3>2. h \in DOMAIN chunks' /\ chunks'[h] = chunks[h]
      BY <1>2, <2>2, <3>1
    <3> QED
      BY <3>1, <3>2
  <2> QED
    BY <2>1, <2>2 DEF DataInv, PurgesExclusive
<1>9. NoLeakedBlobs'
  BY DEF DataInv, NoLeakedBlobs, NodesKept
<1> QED
  BY <1>3, <1>6, <1>7, <1>8, <1>9, GcDataFrame

\* The rows of the purged chunks are removed: no worker has those chunks.
LEMMA RecordPurgeData ==
  ASSUME MetadataInv, DataInv, DataSafe, NEW m \in Master, RecordPurge(m), UNCHANGED clientVars
  PROVE  DataInv'
<1> DEFINE failed == gc[m].failed
           purged == gc[m].batch \ failed
<1>0. TablesInv /\ DaemonSane(m) /\ PurgeComplete(m)
  BY MetadataParts DEF DataInv
<1>1. /\ gc[m].pc = "purge" /\ gc[m].todo = {} /\ DeleteChunkRecordsBulk(purged)
      /\ UNCHANGED disk
  BY DEF RecordPurge
<1>2. PICK d : /\ gc' = [gc EXCEPT ![m] = d]
               /\ d = Resting \/ d = ADaemon("revert", failed, {}, {})
  BY DEF RecordPurge
<1>3. /\ ProtectionKept /\ NodesKept /\ now' = now
      /\ DOMAIN chunks' \subseteq DOMAIN chunks
      /\ \A h \in DOMAIN chunks' : chunks'[h] = chunks[h]
      /\ \A h \in DOMAIN chunks \ DOMAIN chunks' : h \in purged /\ chunks[h].ref_count = -1
  BY <1>0, <1>1, DeleteChunkRecordsBulkStep DEF DeleteChunkRecordsBulk
<1>4. failed \subseteq gc[m].batch
  BY <1>0 DEF DaemonSane
<1>5. \A h \in purged : \A w \in Worker : h \notin disk[w]
  BY <1>0, <1>1 DEF PurgeComplete
<1>6. \A k \in Master : \A h \in gc[k].batch : h \in DOMAIN chunks
  BY DEF DataInv, PurgesExclusive
<1>7. ASSUME NEW k \in Master \ {m}, NEW h \in gc[k].batch
      PROVE  h \in DOMAIN chunks' /\ chunks'[h] = chunks[h]
  <2>1. h \notin gc[m].batch
    BY <1>7 DEF DataInv, PurgesExclusive
  <2> QED
    BY <1>3, <1>6, <1>7, <2>1
<1>8. \A h \in failed : h \in DOMAIN chunks' /\ chunks'[h] = chunks[h]
  BY <1>3, <1>4, <1>6
<1> HIDE DEF failed, purged
<1> QED
  BY <1>1, <1>2, <1>3, <1>4, <1>5, <1>7, <1>8, BatchShrinks

\* The tables are left alone and the daemon forgets or keeps part of its batch.
LEMMA ForgetsData ==
  ASSUME MetadataInv, DataInv, DataSafe, NEW m \in Master,
         UNCHANGED repositoryVars, UNCHANGED disk, UNCHANGED clientVars,
         NEW batch, batch \subseteq gc[m].batch, NEW d, gc' = [gc EXCEPT ![m] = d],
         d = Resting \/ d = ADaemon("revert", batch, {}, {})
  PROVE  DataInv'
<1>1. ProtectionKept /\ NodesKept /\ now' = now /\ chunks' = chunks
  BY MetadataParts, TablesUnchanged DEF repositoryVars
<1>2. \A k \in Master : \A h \in gc[k].batch : h \in DOMAIN chunks
  BY DEF DataInv, PurgesExclusive
<1>3. \A h \in DOMAIN chunks \ DOMAIN chunks' :
        chunks[h].ref_count = -1 /\ \A w \in Worker : h \notin disk[w]
  BY <1>1
<1>4. /\ DOMAIN chunks' \subseteq DOMAIN chunks
      /\ \A h \in DOMAIN chunks' : chunks'[h] = chunks[h] \/ chunks'[h].ref_count = 0
      /\ \A k \in Master \ {m} : \A h \in gc[k].batch :
            h \in DOMAIN chunks' /\ chunks'[h] = chunks[h]
      /\ \A h \in batch : h \in DOMAIN chunks' /\ chunks'[h] = chunks[h]
  BY <1>1, <1>2
<1>5. CASE d = Resting
  BY <1>1, <1>3, <1>4, <1>5, BatchShrinks
<1>6. CASE d = ADaemon("revert", batch, {}, {})
  BY <1>1, <1>3, <1>4, <1>6, BatchShrinks
<1> QED
  BY <1>5, <1>6

\* A tombstone of the batch is lifted, or stays when the update fails.
LEMMA RevertData ==
  ASSUME MetadataInv, DataInv, DataSafe, NEW m \in Master, NEW hash \in Hash,
         RevertOne(m, hash) \/ RevertOneFails(m, hash), UNCHANGED clientVars
  PROVE  DataInv'
<1> DEFINE batch == gc[m].batch \ {hash}
<1>0. TablesInv
  BY MetadataParts
<1>1. PICK d : /\ gc' = [gc EXCEPT ![m] = d]
               /\ d = Resting \/ d = ADaemon("revert", batch, {}, {})
  BY DEF RevertOne, RevertOneFails, AfterRevert
<1>2. hash \in gc[m].batch /\ UNCHANGED disk
  BY DEF RevertOne, RevertOneFails
<1>3. CASE RevertOneFails(m, hash)
  <2>1. UNCHANGED repositoryVars /\ batch \subseteq gc[m].batch
    BY <1>3 DEF RevertOneFails
  <2> HIDE DEF batch
  <2> QED
    BY <1>1, <1>2, <2>1, ForgetsData
<1>4. CASE RevertOne(m, hash)
  <2>1. RevertTombstone(hash)
    BY <1>4 DEF RevertOne
  <2>2. /\ ProtectionKept /\ NodesKept /\ now' = now
        /\ DOMAIN chunks' = DOMAIN chunks
        /\ \A h \in DOMAIN chunks : h # hash => chunks'[h] = chunks[h]
    BY <1>0, <2>1, RevertTombstoneStep DEF RevertTombstone
  <2>3. \A h \in DOMAIN chunks' : chunks'[h] = chunks[h] \/ chunks'[h].ref_count = 0
    BY <2>1 DEF RevertTombstone, ARow
  <2>4. \A k \in Master : \A h \in gc[k].batch : h \in DOMAIN chunks
    BY DEF DataInv, PurgesExclusive
  <2>5. \A k \in Master \ {m} : hash \notin gc[k].batch
    BY <1>2 DEF DataInv, PurgesExclusive
  <2>6. /\ batch \subseteq gc[m].batch
        /\ \A h \in batch : h \in DOMAIN chunks' /\ chunks'[h] = chunks[h]
        /\ \A k \in Master \ {m} : \A h \in gc[k].batch :
              h \in DOMAIN chunks' /\ chunks'[h] = chunks[h]
    BY <2>2, <2>4, <2>5
  <2>7. \A h \in DOMAIN chunks \ DOMAIN chunks' :
          chunks[h].ref_count = -1 /\ \A w \in Worker : h \notin disk[w]
    BY <2>2
  <2>8. DOMAIN chunks' \subseteq DOMAIN chunks
    BY <2>2
  <2> HIDE DEF batch
  <2> QED
    BY <1>1, <1>2, <2>2, <2>3, <2>6, <2>7, <2>8, BatchShrinks
<1> QED
  BY <1>3, <1>4

\* Every step of a daemon preserves the invariant.
LEMMA GcKeepsData ==
  ASSUME MetadataInv, DataInv, DataSafe, NEW m \in Master, GcStep(m), UNCHANGED clientVars
  PROVE  DataInv'
<1>1. CASE Sweep(m)
  BY <1>1, SweepData
<1>2. CASE \E h \in Hash, w \in Worker : DeleteReplica(m, h, w) \/ DeleteReplicaFails(m, h, w)
  BY <1>2, DeleteReplicaData
<1>3. CASE RecordPurge(m)
  BY <1>3, RecordPurgeData
<1>4. CASE RecordPurgeFails(m)
  <2>1. PICK d : gc' = [gc EXCEPT ![m] = d] /\ d = ADaemon("revert", gc[m].batch, {}, {})
    BY <1>4 DEF RecordPurgeFails
  <2>2. UNCHANGED repositoryVars /\ UNCHANGED disk
    BY <1>4 DEF RecordPurgeFails
  <2> QED
    BY <2>1, <2>2, ForgetsData
<1>5. CASE \E h \in Hash : RevertOne(m, h) \/ RevertOneFails(m, h)
  BY <1>5, RevertData
<1>6. CASE MasterCrash(m)
  <2>1. gc' = [gc EXCEPT ![m] = Resting] /\ UNCHANGED repositoryVars /\ UNCHANGED disk
    BY <1>6 DEF MasterCrash
  <2> QED
    BY <2>1, ForgetsData
<1>7. ~SweepUncommitted(m)
  BY DEF DataSafe, DataFaults, SweepUncommitted
<1> QED
  BY <1>1, <1>2, <1>3, <1>4, <1>5, <1>6, <1>7 DEF GcStep

-----------------------------------------------------------------------------
(* Theorems.                                                               *)

\* Every step preserves the data invariant.
LEMMA NextKeepsData ==
  ASSUME MetadataInv, DataInv, DataSafe, [Next]_vars
  PROVE  DataInv'
BY TickKeepsData, ClientKeepsData, RemoveKeepsData, GcKeepsData, StutterKeepsData DEF Next

\* If no transfer outlasts ExpiryHours, sessions end soon enough and no data
\* fault happens, then sessions, transfers and collections never disagree with
\* what tables and workers hold, whatever else is lost, fails or crashes.
THEOREM DataInvariant ==
  ASSUME DataSafe
  PROVE  Spec => [](MetadataInv /\ DataInv)
<1>0. TransfersTimely
  BY DEF DataSafe
<1>1. Init => MetadataInv /\ DataInv
  BY InitMetadata, InitData
<1>2. (MetadataInv /\ DataInv) /\ [Next]_vars => (MetadataInv /\ DataInv)'
  BY <1>0, NextKeepsMetadata, NextKeepsData
<1> QED
  BY <1>1, <1>2, PTL DEF Spec

\* A chunk that a file uses is counted, and so stored.
LEMMA HeldStored ==
  ASSUME MetadataInv, DataInv, NEW f \in DOMAIN files, NEW h \in Range(files[f].chunks)
  PROVE  Available(h)
<1>0. RepositoryTypeOK /\ ReferencesCounted /\ CountedStored
  BY DEF MetadataInv, TypeOK, DataInv
<1>1. f \in Holders(h)
  BY DEF Holders
<1>2. h \in Hash
  BY <1>0, ContentsRange DEF RepositoryTypeOK, File
<1>3. IsFiniteSet(Holders(h)) /\ Cardinality(Holders(h)) \in Nat
  BY <1>0, HoldersFinite
<1>4. Cardinality(Holders(h)) # 0
  BY <1>1, <1>3, FS_EmptySet
<1>5. h \in DOMAIN chunks /\ chunks[h].ref_count >= Cardinality(Holders(h))
  BY <1>0, <1>1, <1>2 DEF ReferencesCounted
<1>6. chunks[h].ref_count \in Int
  BY <1>0, <1>5, RowFields
<1>7. chunks[h].ref_count >= 1
  BY <1>3, <1>4, <1>5, <1>6
<1> QED
  BY <1>0, <1>5, <1>7 DEF CountedStored

\* Every chunk of every committed file can always be fetched from a node that
\* the download plan names.
THEOREM FilesStayReadable ==
  ASSUME DataSafe
  PROVE  Spec => []FilesReadable
<1>1. MetadataInv /\ DataInv => FilesReadable
  BY HeldStored DEF FilesReadable
<1> QED
  BY DataInvariant, <1>1, PTL

\* No worker ever keeps a chunk the database does not know to be there.
THEOREM NothingLeaks ==
  ASSUME DataSafe
  PROVE  Spec => []NoLeakedBlobs
<1>1. DataInv => NoLeakedBlobs
  BY DEF DataInv
<1> QED
  BY DataInvariant, <1>1, PTL

\* However many masters collect at once, no two purge one chunk, and upload-init
\* refuses every chunk that is being purged.
THEOREM CollectorsExclude ==
  ASSUME DataSafe
  PROVE  Spec => []PurgesExclusive
<1>1. DataInv => PurgesExclusive
  BY DEF DataInv
<1> QED
  BY DataInvariant, <1>1, PTL

\* While a session may be resumed, every chunk in its log is stored and not
\* being purged, so that skipping it is safe.
THEOREM ResumesSafe ==
  ASSUME DataSafe
  PROVE  Spec => []ResumableChunksKept
<1>1. ASSUME MetadataInv, DataInv
      PROVE  ResumableChunksKept
  <2> SUFFICES ASSUME NEW c \in DOMAIN manifest, ~Expired(c),
                      NEW i \in log[c] \cap DOMAIN manifest[c].chunk_hashes,
                      NEW h, h = manifest[c].chunk_hashes[i]
               PROVE  Available(h) /\ chunks[h].ref_count # -1
    BY DEF ResumableChunksKept
  <2>1. c \in Client /\ manifest[c].session_timestamp \in Nat
    BY <1>1, ManifestFields
  <2>2. now <= manifest[c].session_timestamp + ExpiryHours
    BY <1>1, <2>1, Numbers DEF Expired
  <2>3. Kept(h, manifest[c].session_timestamp)
    BY <1>1, <2>1, <2>2 DEF DataInv, LogKept
  <2> QED
    BY <2>3 DEF Kept, Protected
<1> QED
  BY DataInvariant, <1>1, PTL

\* A worker loses a replica only by a daemon that purges the chunk.
LEMMA ErasedByDaemon ==
  ASSUME MetadataInv, DataInv, DataSafe, [Next]_vars, NEW w \in Worker,
         NEW h \in disk[w] \ disk'[w]
  PROVE  h \in DOMAIN chunks /\ chunks[h].ref_count = -1
<1>0. DiskTypeOK /\ disk' # disk
  BY DEF MetadataInv, TypeOK
<1>1. ~Tick /\ ~UNCHANGED vars /\ \A n \in Name : ~Remove(n)
  BY <1>0 DEF Tick, vars, Remove
<1>2. ASSUME NEW c \in Client
      PROVE  ~ClientStep(c)
  <2>1. \A v, k : ~PostChunk(v, k)
    BY <1>0 DEF PostChunk, DiskTypeOK
  <2>2. \A i, v : ~UploadSucceeds(c, i, v) /\ ~UploadLost(c, i, v)
    BY <2>1 DEF UploadSucceeds, UploadLost
  <2>3. \A i, v : ~UploadTorn(c, i, v)
    BY DEF DataSafe, DataFaults, UploadTorn
  <2>4. /\ ~DiscardHalfCleaned(c) /\ ~SaveManifest(c) /\ ~StartResume(c)
        /\ ~InitializeUpload(c) /\ ~InitializeUploadLost(c) /\ ~Abort(c) /\ ~ClientCrash(c)
        /\ ~Commit(c) /\ ~CommitLost(c) /\ ~CommitHalfCleaned(c)
        /\ \A s : ~StartFresh(c, s)
    BY <1>0 DEF DiscardHalfCleaned, SaveManifest, StartResume, InitializeUpload,
       InitializeUploadLost, Abort, ClientCrash, Commit, CommitLost, CommitHalfCleaned,
       StartFresh
  <2> QED
    BY <2>2, <2>3, <2>4 DEF ClientStep
<1>3. PICK m \in Master : GcStep(m)
  BY <1>1, <1>2 DEF Next
<1>4. PICK k \in Hash, v \in Worker : DeleteReplica(m, k, v) \/ DeleteReplicaFails(m, k, v)
  BY <1>0, <1>3 DEF GcStep, Sweep, SweepUncommitted, RecordPurge, RecordPurgeFails,
     RevertOne, RevertOneFails, MasterCrash
<1>5. <<k, v>> \in gc[m].todo /\ DropChunk(v, k)
  BY <1>0, <1>4 DEF DeleteReplica, DeleteReplicaFails
<1>6. h = k
  BY <1>0, <1>5 DEF DropChunk, DiskTypeOK
<1> QED
  BY <1>5, <1>6 DEF DataInv, DaemonSane, PurgesExclusive

\* A worker never loses a chunk that a file uses or a transferring client counts on.
THEOREM OrphansOnly ==
  ASSUME DataSafe
  PROVE  Spec => OnlyOrphansErased
<1>1. ASSUME MetadataInv, DataInv, [Next]_vars, NEW w \in Worker, NEW h \in disk[w] \ disk'[w]
      PROVE  /\ Holders(h) = {}
             /\ \A c \in Client :
                  run[c].phase = "transfer" => h \notin Range(run[c].chunk_hashes)
  <2>1. h \in DOMAIN chunks /\ chunks[h].ref_count = -1
    BY <1>1, ErasedByDaemon
  <2>2. RepositoryTypeOK /\ ReferencesCounted /\ RunsSane
    BY <1>1 DEF MetadataInv, TypeOK
  <2>3. h \in Hash /\ Cardinality(Holders(h)) \in Nat
    BY <2>1, <2>2, HoldersFinite DEF RepositoryTypeOK
  <2>4. Holders(h) = {}
    BY <2>1, <2>2, <2>3 DEF ReferencesCounted
  <2> QED
    BY <2>1, <2>2, <2>4 DEF RunsSane, RunSane, Protected
<1>2. (MetadataInv /\ DataInv) /\ [Next]_vars =>
        [\A w \in Worker : \A h \in disk[w] \ disk'[w] :
           /\ Holders(h) = {}
           /\ \A c \in Client :
                run[c].phase = "transfer" => h \notin Range(run[c].chunk_hashes)]_vars
  BY <1>1
<1> QED
  BY DataInvariant, <1>2, PTL DEF Spec, OnlyOrphansErased

-----------------------------------------------------------------------------
(* Refinement.                                                             *)

\* Every file reads as it was uploaded.
ReadsExact == \A f \in DOMAIN files : ReadsAs(f) = files[f].chunks

\* A file whose chunks can all be fetched reads as it was uploaded.
LEMMA ReadableExact ==
  ASSUME RepositoryTypeOK, FilesReadable
  PROVE  ReadsExact
<1> SUFFICES ASSUME NEW f \in DOMAIN files
             PROVE  ReadsAs(f) = files[f].chunks
  BY DEF ReadsExact
<1>1. files[f].chunks \in Seq(Hash)
  BY ContentsRange DEF RepositoryTypeOK, File
<1>2. \A i \in DOMAIN files[f].chunks : Available(files[f].chunks[i])
  BY DEF FilesReadable, Range
<1>3. ReadsAs(f) = [i \in DOMAIN files[f].chunks |-> files[f].chunks[i]]
  BY <1>2 DEF ReadsAs
<1> QED
  BY <1>1, <1>3

\* The step of a table of files is a step of the abstract store.
LEMMA FilesStep ==
  ASSUME ReadsExact, ReadsExact',
         \/ files' = files
         \/ \E n \in Name, s \in Contents : CommitFile(n, s)
         \/ \E n \in Name : DeleteFile(n)
  PROVE  [Store!Next]_[f \in DOMAIN files |-> [name |-> files[f].name, data |-> ReadsAs(f)]]
<1> DEFINE view == [f \in DOMAIN files |-> [name |-> files[f].name, data |-> ReadsAs(f)]]
<1>1. view = [f \in DOMAIN files |-> [name |-> files[f].name, data |-> files[f].chunks]]
  BY DEF ReadsExact
<1>2. view' = [f \in DOMAIN files' |-> [name |-> files'[f].name, data |-> files'[f].chunks]]
  BY DEF ReadsExact
<1>3. CASE files' = files
  <2>1. view' = view
    BY <1>1, <1>2, <1>3
  <2> QED
    BY <2>1
<1>4. CASE \E n \in Name, s \in Contents : CommitFile(n, s)
  <2>1. PICK n \in Name, s \in Contents, f \in FileId \ DOMAIN files :
          files' = [g \in DOMAIN files \cup {f} |->
                      IF g = f THEN [name |-> n, chunks |-> s] ELSE files[g]]
    BY <1>4 DEF CommitFile
  <2>2. view' = [g \in DOMAIN view \cup {f} |->
                   IF g = f THEN [name |-> n, data |-> s] ELSE view[g]]
    <3>1. DOMAIN view = DOMAIN files /\ DOMAIN files' = DOMAIN files \cup {f}
      BY <2>1
    <3>2. files'[f] = [name |-> n, chunks |-> s]
      BY <2>1
    <3>3. \A g \in DOMAIN files : g # f /\ files'[g] = files[g]
      BY <2>1
    <3>4. \A g \in DOMAIN files :
            view[g] = [name |-> files[g].name, data |-> files[g].chunks]
      BY <1>1
    <3> HIDE DEF view
    <3> QED
      BY <1>2, <3>1, <3>2, <3>3, <3>4
  <2>3. f \notin DOMAIN view
    BY <2>1
  <2>4. Store!Put(f, n, s)
    BY <2>2, <2>3 DEF Store!Put
  <2> QED
    BY <2>1, <2>4 DEF Store!Next
<1>5. CASE \E n \in Name : DeleteFile(n)
  <2>1. PICK n \in Name : files' = [f \in DOMAIN files \ RowsOf(n) |-> files[f]]
    BY <1>5 DEF DeleteFile
  <2>2. view' = [f \in {g \in DOMAIN view : view[g].name # n} |-> view[f]]
    <3>1. {g \in DOMAIN view : view[g].name # n} = DOMAIN files \ RowsOf(n)
      BY <1>1 DEF RowsOf
    <3>2. DOMAIN files' = DOMAIN files \ RowsOf(n)
      BY <2>1
    <3>3. \A g \in DOMAIN files' : g \in DOMAIN files /\ files'[g] = files[g]
      BY <2>1
    <3>4. \A g \in DOMAIN files :
            view[g] = [name |-> files[g].name, data |-> files[g].chunks]
      BY <1>1
    <3> HIDE DEF view
    <3> QED
      BY <1>2, <3>1, <3>2, <3>3, <3>4
  <2>3. Store!Remove(n)
    BY <2>2 DEF Store!Remove
  <2> QED
    BY <2>3 DEF Store!Next
<1> QED
  BY <1>3, <1>4, <1>5

\* Only commits and removals change the table of files.
LEMMA FilesChange ==
  ASSUME MetadataInv, [Next]_vars
  PROVE  \/ files' = files
         \/ \E n \in Name, s \in Contents : CommitFile(n, s)
         \/ \E n \in Name : DeleteFile(n)
<1>1. CASE Tick \/ UNCHANGED vars
  BY <1>1 DEF Tick, vars, repositoryVars
<1>2. ASSUME NEW c \in Client, ClientStep(c)
      PROVE  files' = files \/ \E n \in Name, s \in Contents : CommitFile(n, s)
  <2>1. ASSUME Commit(c) \/ CommitLost(c) \/ CommitHalfCleaned(c)
        PROVE  \E n \in Name, s \in Contents : CommitFile(n, s)
    <3>1. run[c].phase = "transfer" /\ CommitFile(NameOf[c], run[c].chunk_hashes)
      BY <2>1 DEF Commit, CommitLost, CommitHalfCleaned
    <3>2. NameOf[c] \in Name /\ run[c].chunk_hashes \in Contents
      BY <3>1, ClientAssumption DEF MetadataInv, RunsSane, RunSane
    <3> QED
      BY <3>1, <3>2
  <2>2. ASSUME ~(Commit(c) \/ CommitLost(c) \/ CommitHalfCleaned(c))
        PROVE  files' = files
    BY <1>2, <2>2 DEF ClientStep, StartFresh, DiscardHalfCleaned, SaveManifest, StartResume,
       InitializeUpload, InitializeUploadLost, FilterMissingChunks, UploadSucceeds,
       UploadLost, UploadTorn, Abort, ClientCrash, repositoryVars
  <2> QED
    BY <2>1, <2>2
<1>3. ASSUME NEW n \in Name, Remove(n)
      PROVE  DeleteFile(n)
  BY <1>3 DEF Remove
<1>4. ASSUME NEW m \in Master, GcStep(m)
      PROVE  files' = files
  BY <1>4 DEF GcStep, Sweep, GetOrphanedChunks, SweepUncommitted, DeleteReplica,
     DeleteReplicaFails, RecordPurge, DeleteChunkRecordsBulk, RecordPurgeFails, RevertOne,
     RevertTombstone, RevertOneFails, MasterCrash, repositoryVars
<1> QED
  BY <1>1, <1>2, <1>3, <1>4 DEF Next

\* Clients, masters and workers together implement the abstract store: a file
\* that was committed reads back unchanged until its name is removed.
THEOREM Implements ==
  ASSUME DataSafe
  PROVE  Spec => ImplementsFileStore
<1>1. MetadataInv /\ FilesReadable => ReadsExact
  BY ReadableExact DEF MetadataInv, TypeOK
<1>2. Spec => [](MetadataInv /\ ReadsExact)
  BY DataInvariant, FilesStayReadable, <1>1, PTL
<1>3. Init => Store!Init
  BY DEF Init, RepositoryInit, Store!Init
<1>4. (MetadataInv /\ ReadsExact) /\ (MetadataInv /\ ReadsExact)' /\ [Next]_vars =>
        [Store!Next]_[f \in DOMAIN files |-> [name |-> files[f].name, data |-> ReadsAs(f)]]
  BY FilesStep, FilesChange
<1> QED
  BY <1>2, <1>3, <1>4, PTL DEF Spec, ImplementsFileStore, Store!Spec

-----------------------------------------------------------------------------
(***************************************************************************)
(* The counts are exact, where no file has a chunk twice and no two        *)
(* clients upload under one name.                                          *)
(***************************************************************************)

NoRepeats ==
  \A s \in Contents : \A i, j \in DOMAIN s : s[i] = s[j] => i = j

SeparateNames ==
  /\ "exists_unknown" \notin Faults
  /\ \A c, d \in Client : NameOf[c] = NameOf[d] => c = d

\* A row that is no tombstone counts the files that use its chunk.
ExactCounts ==
  \A h \in DOMAIN chunks : chunks[h].ref_count # -1 =>
    chunks[h].ref_count = Cardinality(Holders(h))

\* No name has two files, and none that somebody uploads has one.
NamesFree ==
  /\ NamesUnique
  /\ \A c \in Client : run[c].phase # "idle" => RowsOf(NameOf[c]) = {}

CountsInv == ExactCounts /\ NamesFree

\* A chunk without a row, and one that is tombstoned, is used by no file.
LEMMA UnheldCount ==
  ASSUME MetadataInv, NEW h \in Hash,
         h \in DOMAIN chunks => chunks[h].ref_count = -1
  PROVE  Holders(h) = {} /\ Cardinality(Holders(h)) = 0
<1>1. IsFiniteSet(Holders(h)) /\ Cardinality(Holders(h)) \in Nat
  BY FS_Subset, FS_CardinalityType DEF MetadataInv, TypeOK, RepositoryTypeOK, Holders
<1>2. Holders(h) = {}
  BY <1>1 DEF MetadataInv, ReferencesCounted
<1> QED BY <1>2, FS_EmptySet

\* Rows that are changed in nothing but their age, new rows without a use, and
\* rows that go leave exact counts exact.
LEMMA CountsFrame ==
  ASSUME MetadataInv, ExactCounts, files' = files, DOMAIN chunks' \subseteq Hash,
         \A h \in DOMAIN chunks' :
           \/ chunks'[h].ref_count = -1
           \/ h \in DOMAIN chunks /\ chunks'[h].ref_count = chunks[h].ref_count
           \/ /\ chunks'[h].ref_count = 0
              /\ h \in DOMAIN chunks => chunks[h].ref_count = -1
  PROVE  ExactCounts'
<1>1. \A h : Holders(h)' = Holders(h)
  BY DEF Holders
<1>2. ASSUME NEW h \in DOMAIN chunks', chunks'[h].ref_count # -1
      PROVE  chunks'[h].ref_count = Cardinality(Holders(h))
  <2>1. CASE h \in DOMAIN chunks /\ chunks'[h].ref_count = chunks[h].ref_count
    BY <1>2, <2>1 DEF ExactCounts
  <2>2. CASE chunks'[h].ref_count = 0 /\ (h \in DOMAIN chunks => chunks[h].ref_count = -1)
    BY <2>2, UnheldCount
  <2> QED BY <1>2, <2>1, <2>2
<1> QED BY <1>1, <1>2 DEF ExactCounts

\* upload-init adds rows without a use and refreshes others.
LEMMA FilterMissingChunksCounts ==
  ASSUME MetadataInv, ExactCounts, NEW s \in Contents,
         NEW placement \in [Absent(s) -> NodeSets], FilterMissingChunks(s, placement)
  PROVE  ExactCounts'
<1>1. /\ DOMAIN chunks' = DOMAIN chunks \cup Range(s) /\ Range(s) \subseteq Hash
      /\ DOMAIN chunks \subseteq Hash /\ files' = files
  BY ContentsRange DEF FilterMissingChunks, MetadataInv, TypeOK, RepositoryTypeOK
<1>2. \A h \in DOMAIN chunks' :
        \/ h \in DOMAIN chunks /\ chunks'[h].ref_count = chunks[h].ref_count
        \/ chunks'[h].ref_count = 0 /\ h \notin DOMAIN chunks
  BY <1>1 DEF FilterMissingChunks, Absent, ARow
<1> QED BY <1>1, <1>2, CountsFrame

\* Where no chunk occurs twice, CommitFile counts each once.
LEMMA OccursOnce ==
  ASSUME NoRepeats, NEW s \in Contents, NEW h \in Range(s)
  PROVE  Occurrences(s, h) = 1
<1>1. PICK i \in DOMAIN s : s[i] = h
  BY DEF Range
<1>2. {j \in DOMAIN s : s[j] = h} = {i}
  BY <1>1 DEF NoRepeats
<1> QED BY <1>2, FS_Singleton DEF Occurrences

\* The commit: the new file is one more user of each of its chunks.
LEMMA CommitFileCounts ==
  ASSUME MetadataInv, ExactCounts, NoRepeats, NEW n, NEW s \in Contents, CommitFile(n, s),
         \A h \in Range(s) : h \in DOMAIN chunks => chunks[h].ref_count # -1
  PROVE  ExactCounts'
<1>1. PICK f \in FileId \ DOMAIN files :
        files' = [g \in DOMAIN files \cup {f} |->
                    IF g = f THEN [name |-> n, chunks |-> s] ELSE files[g]]
  BY DEF CommitFile
<1>2. \A h : Holders(h)' = Holders(h) \cup (IF h \in Range(s) THEN {f} ELSE {})
  BY <1>1 DEF Holders
<1>3. DOMAIN chunks' = DOMAIN chunks
  BY DEF CommitFile
<1>4. ASSUME NEW h \in DOMAIN chunks, chunks'[h].ref_count # -1
      PROVE  chunks'[h].ref_count = Cardinality(Holders(h)')
  <2>1. IsFiniteSet(Holders(h)) /\ f \notin Holders(h)
    BY FS_Subset, <1>1 DEF MetadataInv, TypeOK, RepositoryTypeOK, Holders
  <2>2. CASE h \in Range(s)
    <3>1. chunks'[h].ref_count = chunks[h].ref_count + 1
      BY <2>2, OccursOnce DEF CommitFile, ARow
    <3>2. chunks[h].ref_count = Cardinality(Holders(h))
      BY <2>2 DEF ExactCounts
    <3>3. Cardinality(Holders(h) \cup {f}) = Cardinality(Holders(h)) + 1
      BY <2>1, FS_AddElement
    <3> QED BY <1>2, <2>2, <3>1, <3>2, <3>3
  <2>3. CASE h \notin Range(s)
    <3>1. chunks'[h] = chunks[h] /\ Holders(h)' = Holders(h)
      BY <1>2, <2>3 DEF CommitFile
    <3> QED BY <1>4, <3>1 DEF ExactCounts
  <2> QED BY <2>2, <2>3
<1> QED BY <1>3, <1>4 DEF ExactCounts

\* The deletion: the one file of the name is one user less of each of its chunks.
LEMMA DeleteFileCounts ==
  ASSUME MetadataInv, ExactCounts, NamesUnique, NEW n, DeleteFile(n)
  PROVE  ExactCounts'
<1>1. PICK f \in RowsOf(n) :
        chunks' = [h \in DOMAIN chunks |->
                    IF h \in Range(files[f].chunks)
                    THEN ARow(chunks[h].nodes, chunks[h].ref_count - 1, chunks[h].created_at)
                    ELSE chunks[h]]
  BY DEF DeleteFile
<1>2. RowsOf(n) = {f} /\ f \in DOMAIN files
  BY <1>1 DEF RowsOf, NamesUnique
<1>3. files' = [g \in DOMAIN files \ {f} |-> files[g]]
  BY <1>2 DEF DeleteFile
<1>4. \A h : Holders(h)' = Holders(h) \ {f} /\ (f \in Holders(h) <=> h \in Range(files[f].chunks))
  BY <1>2, <1>3 DEF Holders
<1>5. ASSUME NEW h \in DOMAIN chunks, chunks'[h].ref_count # -1
      PROVE  chunks'[h].ref_count = Cardinality(Holders(h)')
  <2>1. IsFiniteSet(Holders(h)) /\ h \in Hash
    BY FS_Subset DEF MetadataInv, TypeOK, RepositoryTypeOK, Holders
  <2>2. CASE f \in Holders(h)
    <3>1. chunks[h].ref_count = Cardinality(Holders(h))
      BY <2>1, <2>2, UnheldCount DEF ExactCounts
    <3>2. chunks'[h].ref_count = chunks[h].ref_count - 1
      BY <1>1, <1>4, <2>2 DEF ARow
    <3>3. Cardinality(Holders(h) \ {f}) = Cardinality(Holders(h)) - 1
      BY <2>1, <2>2, FS_RemoveElement
    <3> QED BY <1>4, <3>1, <3>2, <3>3
  <2>3. CASE f \notin Holders(h)
    <3>1. chunks'[h] = chunks[h] /\ Holders(h)' = Holders(h)
      BY <1>1, <1>4, <2>3
    <3> QED BY <1>5, <3>1 DEF ExactCounts
  <2> QED BY <2>2, <2>3
<1>6. DOMAIN chunks' = DOMAIN chunks
  BY <1>1
<1> QED BY <1>5, <1>6 DEF ExactCounts

\* The steps of the daemons: a tombstone has no use, and is given back as such.
LEMMA GcKeepsCounts ==
  ASSUME MetadataInv, CountsInv, NEW m \in Master, GcStep(m), UNCHANGED clientVars
  PROVE  CountsInv'
<1>0. DOMAIN chunks \subseteq Hash
  BY DEF MetadataInv, TypeOK, RepositoryTypeOK
<1>1. files' = files /\ run' = run
  BY DEF GcStep, Sweep, GetOrphanedChunks, SweepUncommitted, DeleteReplica, DeleteReplicaFails,
         RecordPurge, DeleteChunkRecordsBulk, RecordPurgeFails, RevertOne, RevertTombstone,
         RevertOneFails, MasterCrash, repositoryVars, clientVars
<1>2. NamesFree'
  BY <1>1 DEF CountsInv, NamesFree, NamesUnique, RowsOf
<1>3. /\ DOMAIN chunks' \subseteq DOMAIN chunks
      /\ \A h \in DOMAIN chunks' :
           \/ chunks'[h].ref_count = -1
           \/ chunks'[h].ref_count = chunks[h].ref_count
           \/ chunks'[h].ref_count = 0 /\ chunks[h].ref_count = -1
  <2>1. CASE Sweep(m)
    BY <2>1 DEF Sweep, GetOrphanedChunks, ARow
  <2>2. CASE RecordPurge(m)
    BY <2>2 DEF RecordPurge, DeleteChunkRecordsBulk
  <2>3. CASE \E h \in Hash : RevertOne(m, h)
    BY <2>3 DEF RevertOne, RevertTombstone, ARow
  <2>4. CASE chunks' = chunks
    BY <2>4
  <2> QED BY <2>1, <2>2, <2>3, <2>4 DEF GcStep, SweepUncommitted, DeleteReplica,
         DeleteReplicaFails, RecordPurgeFails, RevertOneFails, MasterCrash, repositoryVars
<1> QED BY <1>0, <1>1, <1>2, <1>3, CountsFrame DEF CountsInv

\* A step of client c that leaves the tables alone, and starts a run only if
\* nothing is stored under its name.
LEMMA LocalKeepsCounts ==
  ASSUME MetadataInv, CountsInv, NEW c \in Client, chunks' = chunks, files' = files,
         \A d \in Client : d # c => run'[d] = run[d],
         run'[c].phase # "idle" => run[c].phase # "idle" \/ RowsOf(NameOf[c]) = {}
  PROVE  CountsInv'
<1>1. \A n : RowsOf(n)' = RowsOf(n)
  BY DEF RowsOf
<1>2. NamesFree'
  BY <1>1 DEF CountsInv, NamesFree, NamesUnique
<1>3. ExactCounts'
  BY DEF CountsInv, ExactCounts, Holders
<1> QED BY <1>2, <1>3 DEF CountsInv

\* A commit of client c, after which its run has ended.
LEMMA CommitKeepsCounts ==
  ASSUME MetadataInv, CountsInv, NoRepeats, SeparateNames, NEW c \in Client,
         run[c].phase = "transfer", CommitFile(NameOf[c], run[c].chunk_hashes),
         run' = [run EXCEPT ![c] = NoRun]
  PROVE  CountsInv'
<1> DEFINE s == run[c].chunk_hashes
<1>1. RunSane(c) /\ run \in [Client -> Run]
  BY DEF MetadataInv, RunsSane, TypeOK, ClientTypeOK
<1>2. s \in Contents /\ \A h \in Range(s) : h \in DOMAIN chunks /\ chunks[h].ref_count # -1
  <2>1. \A h \in Range(s) : Protected(h, run[c].since)
    BY <1>1 DEF RunSane
  <2>2. \A h \in DOMAIN chunks : chunks[h].ref_count \in Int
    BY DEF MetadataInv, TypeOK, RepositoryTypeOK, Row
  <2> QED BY <1>1, <2>1, <2>2 DEF RunSane, Protected
<1>3. ExactCounts'
  BY <1>2, CommitFileCounts DEF CountsInv
<1>4. PICK f \in FileId \ DOMAIN files :
        files' = [g \in DOMAIN files \cup {f} |->
                    IF g = f THEN [name |-> NameOf[c], chunks |-> s] ELSE files[g]]
  BY DEF CommitFile
<1>5. /\ DOMAIN files' = DOMAIN files \cup {f} /\ files'[f].name = NameOf[c]
      /\ \A g \in DOMAIN files : g # f /\ files'[g] = files[g]
  BY <1>4
<1>6. \A g \in DOMAIN files : files[g].name # NameOf[c]
  BY DEF CountsInv, NamesFree, RowsOf
<1>7. NamesUnique'
  BY <1>5, <1>6 DEF NamesUnique, CountsInv, NamesFree
<1>8. ASSUME NEW d \in Client, run'[d].phase # "idle"
      PROVE  RowsOf(NameOf[d])' = {}
  <2>1. d # c /\ run'[d] = run[d]
    BY <1>1, <1>8 DEF NoRun, ARun
  <2>2. RowsOf(NameOf[d]) = {} /\ NameOf[d] # NameOf[c]
    BY <1>8, <2>1 DEF CountsInv, NamesFree, SeparateNames
  <2> QED BY <1>5, <2>2 DEF RowsOf
<1> QED BY <1>3, <1>7, <1>8 DEF CountsInv, NamesFree

\* The steps of a client.
LEMMA ClientKeepsCounts ==
  ASSUME MetadataInv, CountsInv, NoRepeats, SeparateNames, NEW c \in Client, ClientStep(c)
  PROVE  CountsInv'
<1>0. run \in [Client -> Run] /\ RunSane(c)
  BY DEF MetadataInv, RunsSane, TypeOK, ClientTypeOK
<1>1. Preflight(c) => RowsOf(NameOf[c]) = {}
  BY DEF Preflight, SeparateNames, FileExists
<1>2. ASSUME NEW r, run' = [run EXCEPT ![c] = r], UNCHANGED repositoryVars,
             r.phase # "idle" => Preflight(c) \/ run[c].phase # "idle"
      PROVE  CountsInv'
  <2>1. run'[c] = r /\ \A d \in Client : d # c => run'[d] = run[d]
    BY <1>0, <1>2
  <2> QED BY <1>1, <1>2, <2>1, LocalKeepsCounts DEF repositoryVars
<1>3. ASSUME NEW s \in Contents, StartFresh(c, s) PROVE CountsInv'
  BY <1>2, <1>3 DEF StartFresh
<1>4. CASE SaveManifest(c)
  BY <1>2, <1>4 DEF SaveManifest
<1>5. CASE StartResume(c)
  BY <1>2, <1>5 DEF StartResume
<1>6. CASE InitializeUpload(c) \/ InitializeUploadLost(c)
  <2>1. run[c].phase = "negotiating" /\ run[c].chunk_hashes \in Contents
    BY <1>0, <1>6 DEF InitializeUpload, InitializeUploadLost, RunSane
  <2>2. \E placement \in [Absent(run[c].chunk_hashes) -> NodeSets] :
          FilterMissingChunks(run[c].chunk_hashes, placement)
    BY <1>6 DEF InitializeUpload, InitializeUploadLost
  <2>3. ExactCounts' /\ files' = files
    BY <2>1, <2>2, FilterMissingChunksCounts DEF CountsInv, FilterMissingChunks
  <2>4. \A d \in Client : d # c => run'[d] = run[d]
    BY <1>0, <1>6 DEF InitializeUpload, InitializeUploadLost
  <2>5. \A n : RowsOf(n)' = RowsOf(n)
    BY <2>3 DEF RowsOf
  <2>6. NamesFree'
    BY <2>1, <2>3, <2>4, <2>5 DEF CountsInv, NamesFree, NamesUnique
  <2> QED BY <2>3, <2>6 DEF CountsInv
<1>7. ASSUME NEW p \in run[c].todo, UploadSucceeds(c, p[1], p[2]) PROVE CountsInv'
  BY <1>2, <1>7 DEF UploadSucceeds
<1>8. ASSUME run' = run, UNCHANGED repositoryVars PROVE CountsInv'
  BY <1>8, LocalKeepsCounts DEF repositoryVars
<1>9. ASSUME NEW p \in run[c].todo, UploadLost(c, p[1], p[2]) \/ UploadTorn(c, p[1], p[2])
      PROVE  CountsInv'
  BY <1>8, <1>9 DEF UploadLost, UploadTorn, clientVars
<1>10. CASE DiscardHalfCleaned(c)
  BY <1>8, <1>10 DEF DiscardHalfCleaned
<1>11. CASE Abort(c) \/ ClientCrash(c)
  BY <1>2, <1>11 DEF Abort, ClientCrash
<1>12. CASE Commit(c) \/ CommitLost(c) \/ CommitHalfCleaned(c)
  BY <1>12, CommitKeepsCounts DEF Commit, CommitLost, CommitHalfCleaned
<1> QED BY <1>3, <1>4, <1>5, <1>6, <1>7, <1>9, <1>10, <1>11, <1>12 DEF ClientStep

\* A removal takes the one file of its name.
LEMMA RemoveKeepsCounts ==
  ASSUME MetadataInv, CountsInv, NEW n \in Name, Remove(n)
  PROVE  CountsInv'
<1>1. ExactCounts'
  BY DeleteFileCounts DEF Remove, CountsInv, NamesFree
<1>2. files' = [f \in DOMAIN files \ RowsOf(n) |-> files[f]] /\ run' = run
  BY DEF Remove, DeleteFile, clientVars
<1>3. NamesFree'
  BY <1>2 DEF CountsInv, NamesFree, NamesUnique, RowsOf
<1> QED BY <1>1, <1>3 DEF CountsInv

\* Every step preserves CountsInv.
LEMMA NextKeepsCounts ==
  ASSUME MetadataInv, CountsInv, NoRepeats, SeparateNames, [Next]_vars
  PROVE  CountsInv'
<1>1. CASE UNCHANGED <<chunks, files, run>>
  BY <1>1 DEF CountsInv, ExactCounts, NamesFree, NamesUnique, Holders, RowsOf
<1>2. CASE Tick
  BY <1>1, <1>2 DEF Tick, clientVars
<1>3. CASE UNCHANGED vars
  BY <1>1, <1>3 DEF vars, repositoryVars, clientVars
<1> QED BY <1>2, <1>3, ClientKeepsCounts, RemoveKeepsCounts, GcKeepsCounts DEF Next

\* One use of chunk h for each of its holders, where none has it twice.
LEMMA UsesAreHolders ==
  ASSUME MetadataInv, NoRepeats, NEW h
  PROVE  Cardinality(Uses(h)) = Cardinality(Holders(h))
<1> DEFINE At(f) == {i \in DOMAIN files[f].chunks : files[f].chunks[i] = h}
           use == [f \in Holders(h) |-> <<f, CHOOSE i \in At(f) : TRUE>>]
<1>1. \A f \in DOMAIN files : files[f].chunks \in Contents
  BY DEF MetadataInv, TypeOK, RepositoryTypeOK, File
<1>2. Uses(h) = UNION {{f} \X At(f) : f \in DOMAIN files}
  BY DEF Uses
<1>3. \A f \in Holders(h) : f \in DOMAIN files /\ At(f) # {}
  BY DEF Holders, Range
<1>4. \A f \in DOMAIN files : \A i \in At(f) :
        f \in Holders(h) /\ i = CHOOSE j \in At(f) : TRUE
  <2> SUFFICES ASSUME NEW f \in DOMAIN files, NEW i \in At(f)
               PROVE  f \in Holders(h) /\ i = CHOOSE j \in At(f) : TRUE
    OBVIOUS
  <2>1. \A j \in At(f) : j = i
    BY <1>1 DEF NoRepeats
  <2>2. f \in Holders(h)
    BY DEF Holders, Range
  <2>3. (CHOOSE j \in At(f) : TRUE) \in At(f)
    OBVIOUS
  <2> QED BY <2>1, <2>2, <2>3
<1>5. \A f \in Holders(h) : use[f] \in Uses(h) /\ use[f][1] = f
  BY <1>2, <1>3
<1>6. \A u \in Uses(h) : \E f \in Holders(h) : use[f] = u
  BY <1>2, <1>4
<1>7. use \in Bijection(Holders(h), Uses(h))
  <2>1. use \in [Holders(h) -> Uses(h)]
    BY <1>5
  <2>2. \A f, g \in Holders(h) : use[f] = use[g] => f = g
    BY <1>5
  <2> QED BY <1>6, <2>1, <2>2, Fun_IsBij
<1>8. IsFiniteSet(Holders(h))
  BY FS_Subset DEF MetadataInv, TypeOK, RepositoryTypeOK, Holders
<1> QED BY <1>7, <1>8, FS_Bijection DEF ExistsBijection

\* CountsInv holds at the beginning.
LEMMA InitCounts == Init => CountsInv
BY DEF Init, RepositoryInit, ClientInit, CountsInv, ExactCounts, NamesFree, NamesUnique, NoRun, ARun

\* Where no two clients upload under one name and the existence check does not
\* fail, UploadFile keeps what it tells the user: no name has two files,
\* whatever answers are lost and whatever runs are resumed.
THEOREM NamesStayUnique ==
  ASSUME TransfersTimely, NoRepeats, SeparateNames
  PROVE  Spec => []NamesUnique
<1>1. MetadataInv /\ CountsInv /\ [Next]_vars => CountsInv'
  BY NextKeepsCounts
<1>2. CountsInv => NamesUnique
  BY DEF CountsInv, NamesFree
<1> QED BY <1>1, <1>2, InitCounts, MetadataInvariant, PTL DEF Spec

\* The counts of DeleteFile undo those of CommitFile exactly, under every fault
\* but a failing existence check, for any number of clients and files: an
\* unused chunk has count 0, so that the collector finds it.
THEOREM CountsStayExact ==
  ASSUME TransfersTimely, NoRepeats, SeparateNames
  PROVE  Spec => []ReferencesExact
<1>1. MetadataInv /\ CountsInv /\ [Next]_vars => CountsInv'
  BY NextKeepsCounts
<1>2. MetadataInv /\ CountsInv => ReferencesExact
  BY UsesAreHolders DEF CountsInv, ExactCounts, ReferencesExact
<1> QED BY <1>1, <1>2, InitCounts, MetadataInvariant, PTL DEF Spec

-----------------------------------------------------------------------------
(* Tombstones.                                                             *)

\* The faults that make a daemon forget a tombstone.
ForgettingFaults == {"master_crash", "revert_error"}

Tombstoned(h) == h \in DOMAIN chunks /\ chunks[h].ref_count = -1

\* A chunk that upload-init refuses with "Resource locked. Retry." is in the batch
\* of a daemon at work on it, which is going to delete its row or to give it back.
TombstonesAttended ==
  \A h \in Hash : Tombstoned(h) => \E m \in Master : gc[m].pc # "idle" /\ h \in gc[m].batch

\* A daemon that rests has no batch.
RestingEmpty == \A m \in Master : gc[m].pc = "idle" => gc[m].batch = {}

TombstoneInv == TombstonesAttended /\ RestingEmpty

\* A step that makes no tombstone and leaves the daemons alone.
LEMMA NoNewTombstone ==
  ASSUME TombstoneInv, UNCHANGED gc, \A h \in Hash : Tombstoned(h)' => Tombstoned(h)
  PROVE  TombstoneInv'
BY DEF TombstoneInv, TombstonesAttended, RestingEmpty

\* A step of daemon m that leaves no tombstone behind which nobody attends to.
LEMMA DaemonAttends ==
  ASSUME GcTypeOK, TombstoneInv, NEW m \in Master, NEW d, gc' = [gc EXCEPT ![m] = d],
         d.pc = "idle" => d.batch = {},
         \A h \in Hash : Tombstoned(h)' =>
           (Tombstoned(h) /\ h \notin gc[m].batch) \/ h \in d.batch
  PROVE  TombstoneInv'
<1>1. gc'[m] = d /\ \A k \in Master : k # m => gc'[k] = gc[k]
  BY DEF GcTypeOK
<1>2. RestingEmpty'
  BY <1>1 DEF TombstoneInv, RestingEmpty
<1>3. ASSUME NEW h \in Hash, Tombstoned(h)'
      PROVE  \E k \in Master : gc'[k].pc # "idle" /\ h \in gc'[k].batch
  <2>1. CASE h \in d.batch
    BY <1>1, <2>1
  <2>2. CASE Tombstoned(h) /\ h \notin gc[m].batch
    BY <1>1, <2>2 DEF TombstoneInv, TombstonesAttended
  <2> QED BY <1>3, <2>1, <2>2
<1> QED BY <1>2, <1>3 DEF TombstoneInv, TombstonesAttended

\* A daemon attends to its batch until each tombstone in it is dealt with.
LEMMA GcKeepsTombstones ==
  ASSUME MetadataInv, TombstoneInv, Faults \cap ForgettingFaults = {},
         NEW m \in Master, GcStep(m)
  PROVE  TombstoneInv'
<1>0. GcTypeOK
  BY DEF MetadataInv, TypeOK
<1>1. CASE Sweep(m)
  <2>1. PICK batch \in SUBSET Eligible \ {{}} :
          /\ GetOrphanedChunks(batch)
          /\ gc' = [gc EXCEPT ![m] = ADaemon("purge", batch, Replicas(batch), {})]
    BY <1>1 DEF Sweep
  <2>2. gc[m].batch = {}
    BY <1>1 DEF Sweep, TombstoneInv, RestingEmpty
  <2>3. \A h : Tombstoned(h)' => Tombstoned(h) \/ h \in batch
    BY <2>1 DEF GetOrphanedChunks, Tombstoned
  <2> DEFINE d == ADaemon("purge", batch, Replicas(batch), {})
  <2>4. d.pc # "idle" /\ d.batch = batch
    BY DEF ADaemon
  <2> HIDE DEF d
  <2> QED BY <1>0, <2>1, <2>2, <2>3, <2>4, DaemonAttends DEF d
<1>2. CASE SweepUncommitted(m)
  <2>1. PICK batch \in SUBSET Eligible \ {{}} :
          gc' = [gc EXCEPT ![m] = ADaemon("purge", batch, Replicas(batch), {})]
    BY <1>2 DEF SweepUncommitted
  <2>2. gc[m].batch = {} /\ UNCHANGED chunks
    BY <1>2 DEF SweepUncommitted, TombstoneInv, RestingEmpty, repositoryVars
  <2> DEFINE d == ADaemon("purge", batch, Replicas(batch), {})
  <2>3. d.pc # "idle"
    BY DEF ADaemon
  <2>4. \A h : Tombstoned(h)' => Tombstoned(h)
    BY <2>2 DEF Tombstoned
  <2> HIDE DEF d
  <2> QED BY <1>0, <2>1, <2>2, <2>3, <2>4, DaemonAttends DEF d
<1>3. ASSUME NEW h \in Hash, NEW w \in Worker,
             DeleteReplica(m, h, w) \/ DeleteReplicaFails(m, h, w)
      PROVE  TombstoneInv'
  <2>1. PICK failed :
          gc' = [gc EXCEPT ![m] = ADaemon(gc[m].pc, gc[m].batch, gc[m].todo \ {<<h, w>>}, failed)]
    BY <1>0, <1>3 DEF DeleteReplica, DeleteReplicaFails, GcTypeOK
  <2> DEFINE d == ADaemon(gc[m].pc, gc[m].batch, gc[m].todo \ {<<h, w>>}, failed)
  <2>2. d.pc = gc[m].pc /\ d.batch = gc[m].batch
    BY DEF ADaemon
  <2>3. \A k : Tombstoned(k)' => Tombstoned(k)
    BY <1>3 DEF DeleteReplica, DeleteReplicaFails, repositoryVars, Tombstoned
  <2>4. d.pc = "idle" => d.batch = {}
    BY <2>2 DEF TombstoneInv, RestingEmpty
  <2> HIDE DEF d
  <2> QED BY <1>0, <2>1, <2>2, <2>3, <2>4, DaemonAttends DEF d
<1>4. CASE RecordPurge(m)
  <2> DEFINE d == IF gc[m].failed = {} THEN Resting ELSE ADaemon("revert", gc[m].failed, {}, {})
  <2>1. gc' = [gc EXCEPT ![m] = d]
    BY <1>4 DEF RecordPurge
  <2>2. d.batch = gc[m].failed /\ (d.pc = "idle" => d.batch = {})
    BY DEF Resting, ADaemon
  <2>3. \A h : Tombstoned(h)' => Tombstoned(h) /\ h \notin gc[m].batch \ gc[m].failed
    BY <1>4 DEF RecordPurge, DeleteChunkRecordsBulk, Tombstoned
  <2> HIDE DEF d
  <2> QED BY <1>0, <2>1, <2>2, <2>3, DaemonAttends
<1>5. CASE RecordPurgeFails(m)
  <2> DEFINE d == ADaemon("revert", gc[m].batch, {}, {})
  <2>1. gc' = [gc EXCEPT ![m] = d] /\ UNCHANGED chunks
    BY <1>5 DEF RecordPurgeFails, repositoryVars
  <2>2. d.batch = gc[m].batch /\ d.pc # "idle"
    BY DEF ADaemon
  <2>3. \A h : Tombstoned(h)' => Tombstoned(h)
    BY <2>1 DEF Tombstoned
  <2> HIDE DEF d
  <2> QED BY <1>0, <2>1, <2>2, <2>3, DaemonAttends
<1>6. ASSUME NEW h \in Hash, RevertOne(m, h) PROVE TombstoneInv'
  <2>1. gc' = [gc EXCEPT ![m] = AfterRevert(m, h)]
    BY <1>6 DEF RevertOne
  <2>2. /\ AfterRevert(m, h).batch = gc[m].batch \ {h}
        /\ AfterRevert(m, h).pc = "idle" => AfterRevert(m, h).batch = {}
    BY DEF AfterRevert, Resting, ADaemon
  <2>3. \A k : Tombstoned(k)' => Tombstoned(k) /\ k # h
    BY <1>6 DEF RevertOne, RevertTombstone, ARow, Tombstoned
  <2> QED BY <1>0, <2>1, <2>2, <2>3, DaemonAttends
<1>7. (\A h \in Hash : ~RevertOneFails(m, h)) /\ ~MasterCrash(m)
  BY DEF RevertOneFails, MasterCrash, ForgettingFaults
<1> QED BY <1>1, <1>2, <1>3, <1>4, <1>5, <1>6, <1>7 DEF GcStep

\* The transactions of clients make no tombstone: upload-init leaves counts alone,
\* the commit counts a chunk that is claimed once more, and a removal takes one from
\* a count that includes the file it removes.
LEMMA ClientsMakeNoTombstone ==
  ASSUME MetadataInv, NEW h \in Hash, Tombstoned(h)',
         \/ \E c \in Client : ClientStep(c)
         \/ \E n \in Name : Remove(n)
  PROVE  Tombstoned(h)
<1>1. CASE UNCHANGED repositoryVars
  BY <1>1 DEF repositoryVars, Tombstoned
<1>2. ASSUME NEW s, NEW placement, FilterMissingChunks(s, placement)
      PROVE  Tombstoned(h)
  BY <1>2 DEF FilterMissingChunks, Absent, ARow, Tombstoned
<1>3. ASSUME NEW c \in Client, run[c].phase = "transfer",
             CommitFile(NameOf[c], run[c].chunk_hashes)
      PROVE  Tombstoned(h)
  <2>1. RunSane(c) /\ h \in DOMAIN chunks
    BY <1>3 DEF MetadataInv, RunsSane, CommitFile, Tombstoned
  <2>2. CASE h \in Range(run[c].chunk_hashes)
    <3>1. /\ run[c].chunk_hashes \in Seq(Hash)
          /\ chunks[h].ref_count \in Int /\ chunks[h].ref_count >= 0
      BY <1>3, <2>1, <2>2, ContentsRange, RowFields
      DEF RunSane, Protected, MetadataInv, TypeOK
    <3>2. chunks'[h].ref_count = chunks[h].ref_count + Occurrences(run[c].chunk_hashes, h)
      BY <1>3, <2>1, <2>2 DEF CommitFile, ARow
    <3> QED BY <2>2, <3>1, <3>2, OccurrencesPositive DEF Tombstoned
  <2>3. CASE h \notin Range(run[c].chunk_hashes)
    BY <1>3, <2>1, <2>3 DEF CommitFile, Tombstoned
  <2> QED BY <2>2, <2>3
<1>4. ASSUME NEW n \in Name, DeleteFile(n) PROVE Tombstoned(h)
  <2>1. PICK f \in RowsOf(n) :
          chunks' = [k \in DOMAIN chunks |->
                      IF k \in Range(files[f].chunks)
                      THEN ARow(chunks[k].nodes, chunks[k].ref_count - 1, chunks[k].created_at)
                      ELSE chunks[k]]
    BY <1>4 DEF DeleteFile
  <2>2. h \in DOMAIN chunks /\ f \in DOMAIN files
    BY <2>1 DEF Tombstoned, RowsOf
  <2>3. CASE h \in Range(files[f].chunks)
    <3>1. f \in Holders(h)
      BY <2>2, <2>3 DEF Holders
    <3>2. IsFiniteSet(Holders(h)) /\ Cardinality(Holders(h)) \in Nat
      BY HoldersFinite DEF MetadataInv, TypeOK
    <3>3. Cardinality(Holders(h)) # 0
      BY <3>1, <3>2, FS_EmptySet
    <3>4. chunks[h].ref_count >= Cardinality(Holders(h)) /\ chunks[h].ref_count \in Int
      BY <2>2, <3>1, RowFields DEF MetadataInv, ReferencesCounted, TypeOK
    <3>5. chunks'[h].ref_count = chunks[h].ref_count - 1
      BY <2>1, <2>2, <2>3 DEF ARow
    <3> QED BY <3>2, <3>3, <3>4, <3>5 DEF Tombstoned
  <2>4. CASE h \notin Range(files[f].chunks)
    BY <2>1, <2>2, <2>4 DEF Tombstoned
  <2> QED BY <2>3, <2>4
<1>5. ASSUME NEW c \in Client, ClientStep(c) PROVE Tombstoned(h)
  <2>1. CASE InitializeUpload(c) \/ InitializeUploadLost(c)
    BY <1>2, <2>1 DEF InitializeUpload, InitializeUploadLost
  <2>2. CASE Commit(c) \/ CommitLost(c) \/ CommitHalfCleaned(c)
    BY <1>3, <2>2 DEF Commit, CommitLost, CommitHalfCleaned
  <2> QED BY <1>1, <1>5, <2>1, <2>2
    DEF ClientStep, StartFresh, DiscardHalfCleaned, SaveManifest, StartResume,
        UploadSucceeds, UploadLost, UploadTorn, Abort, ClientCrash
<1> QED BY <1>4, <1>5 DEF Remove

\* A chunk is never locked for good: unless a master dies with its batch or cannot
\* write to the database when it gives chunks back, every tombstone is in the batch
\* of a daemon at work.  This holds for any number of masters, although a bulk
\* delete or the commit of a sweep may fail, and it means that no other transaction
\* ever makes a row look like a tombstone (GetOrphanedChunks, DeleteFile).
THEOREM TombstonesStayAttended ==
  ASSUME TransfersTimely, Faults \cap ForgettingFaults = {}
  PROVE  Spec => []TombstonesAttended
<1>1. Init => TombstoneInv
  BY DEF Init, RepositoryInit, GcInit, TombstoneInv, TombstonesAttended, RestingEmpty,
         Tombstoned, Resting, ADaemon
<1>2. MetadataInv /\ TombstoneInv /\ [Next]_vars => TombstoneInv'
  <2> SUFFICES ASSUME MetadataInv, TombstoneInv, [Next]_vars PROVE TombstoneInv'
    OBVIOUS
  <2>1. CASE \/ \E c \in Client : ClientStep(c) /\ UNCHANGED gc
             \/ \E n \in Name : Remove(n) /\ UNCHANGED gc
    BY <2>1, ClientsMakeNoTombstone, NoNewTombstone
  <2>2. CASE Tick \/ UNCHANGED vars
    BY <2>2, NoNewTombstone DEF Tick, vars, repositoryVars, Tombstoned
  <2> QED BY <2>1, <2>2, GcKeepsTombstones DEF Next
<1>3. TombstoneInv => TombstonesAttended
  BY DEF TombstoneInv
<1> QED BY <1>1, <1>2, <1>3, MetadataInvariant, PTL DEF Spec
=============================================================================
