----------------------------- MODULE NodeProofs -----------------------------
(***************************************************************************)
(* Proofs about the processes of a node.  The worker's store: for any      *)
(* number of chunks, of saves and deletes that run at the same time, and   *)
(* for any sizes.  Then the shutdown of a worker and of a master: when     *)
(* main returns no other thread is at work, for any number of requests and *)
(* of tasks, and signals at any time.                                      *)
(***************************************************************************)
EXTENDS WorkerStorage, DaemonShutdown, FiniteSetTheorems, TLAPS

-----------------------------------------------------------------------------
(* The worker's store.                                                     *)

\* Saves that have a reservation, and those that have still to write.
Holding == {s \in Save : pc[s] \in {"reserved", "open", "closed"}}
Unwritten == {s \in Save : pc[s] \in {"reserved", "open"}}

\* A file has the bytes of one chunk only, under its name and for those who
\* have it open; a save has a file open as long as it writes to it.
FilesSane ==
  /\ \A h \in Hash : dir[h] # NoFile => HashOf[dir[h]] = h
  /\ \A s \in Save : pc[s] \in {"open", "closed"} =>
       /\ fd[s] \in Save /\ HashOf[fd[s]] = HashOf[s]
       /\ s \notin overtaken => fd[s] = dir[HashOf[s]]

\* The file of chunk h is whole, or a save that is still to write makes it so.
Sound(h) ==
  /\ dir[h] # NoFile
  /\ \/ bytes[dir[h]] = Size
     \/ \E s \in Save : pc[s] = "open" /\ fd[s] = dir[h]

\* What was reported as saved, or is going to be, is sound.
ChunksSane ==
  /\ \A h \in stored : Sound(h)
  /\ \A s \in written \ overtaken : pc[s] = "closed" => Sound(HashOf[s])

StorageInv == TypeOK /\ FilesSane /\ ChunksSane /\ ReservationsExact

\* Facts about the constants.
LEMMA Constants ==
  /\ Size \in Nat /\ Capacity \in Nat /\ Margin \in Nat
  /\ \A s \in Save : HashOf[s] \in Hash /\ s # NoFile /\ s \notin Delete
  /\ \A d \in Delete : Target[d] \in Hash
BY StorageAssumption

\* Sets of saves are finite.
LEMMA SavesFinite ==
  ASSUME NEW S, S \subseteq Save
  PROVE  IsFiniteSet(S) /\ Cardinality(S) \in Nat
BY FS_Subset, FS_CardinalityType, StorageAssumption

\* Where a request goes.
LEMMA GotoFacts ==
  ASSUME TypeOK, NEW r \in Save \cup Delete, NEW where, Goto(r, where)
  PROVE  \A q \in Save \cup Delete : pc'[q] = IF q = r THEN where ELSE pc[q]
BY DEF Goto, TypeOK

\* The reservation of one more save.
LEMMA Reserved ==
  ASSUME TypeOK, ReservationsExact, NEW s \in Save, s \notin Holding,
         Holding' = Holding \cup {s}, in_flight' = in_flight + Size
  PROVE  ReservationsExact'
<1>1. Holding \subseteq Save
  BY DEF Holding
<1>2. IsFiniteSet(Holding) /\ Cardinality(Holding) \in Nat
  BY <1>1, SavesFinite
<1>3. Cardinality(Holding') = Cardinality(Holding) + 1
  BY <1>2, FS_AddElement
<1>4. in_flight = Size * Cardinality(Holding)
  BY DEF ReservationsExact, Holding
<1>5. \A n, k \in Nat : n * (k + 1) = n * k + n
  BY SMT
<1>6. in_flight' = Size * Cardinality(Holding')
  BY <1>2, <1>3, <1>4, <1>5, Constants
<1> QED BY <1>6 DEF ReservationsExact, Holding

\* The reservation of one save less.
LEMMA Released ==
  ASSUME TypeOK, ReservationsExact, NEW s \in Holding,
         Holding' = Holding \ {s}, in_flight' = in_flight - Size
  PROVE  ReservationsExact'
<1>1. Holding \subseteq Save /\ Holding' \subseteq Save
  BY DEF Holding
<1>2. IsFiniteSet(Holding) /\ Cardinality(Holding) \in Nat /\ Cardinality(Holding') \in Nat
  BY <1>1, SavesFinite
<1>3. Cardinality(Holding) = Cardinality(Holding') + 1
  <2>1. Cardinality(Holding \ {s}) = Cardinality(Holding) - 1
    BY <1>2, FS_RemoveElement
  <2> QED BY <1>2, <2>1
<1>4. in_flight = Size * Cardinality(Holding)
  BY DEF ReservationsExact, Holding
<1>5. \A n, k \in Nat : n * (k + 1) - n = n * k
  BY SMT
<1>6. in_flight' = Size * Cardinality(Holding')
  BY <1>2, <1>3, <1>4, <1>5, Constants
<1> QED BY <1>6 DEF ReservationsExact, Holding

\* The same reservations.
LEMMA StillReserved ==
  ASSUME ReservationsExact, Holding' = Holding, in_flight' = in_flight
  PROVE  ReservationsExact'
BY DEF ReservationsExact, Holding

\* Steps of a save outside its writing leave the files sound: nothing changes
\* but the place of s, which has no file open.
LEMMA OutsideWriting ==
  ASSUME StorageInv, NEW s \in Save, NEW where, Goto(s, where),
         pc[s] \in {"begin", "reserved"}, where \in {"begin", "reserved", "done"},
         UNCHANGED <<dir, bytes, fd, written, overtaken, stored>>, in_flight' \in Int
  PROVE  TypeOK' /\ FilesSane' /\ ChunksSane'
<1>1. \A q \in Save \cup Delete : pc'[q] = IF q = s THEN where ELSE pc[q]
  BY GotoFacts DEF StorageInv
<1>2. TypeOK'
  BY DEF StorageInv, TypeOK, Goto
<1>3. FilesSane'
  BY <1>1 DEF StorageInv, FilesSane
<1>4. \A h : Sound(h) => Sound(h)'
  BY <1>1 DEF Sound
<1>5. ChunksSane'
  BY <1>1, <1>4 DEF StorageInv, ChunksSane, TypeOK
<1> QED BY <1>2, <1>3, <1>5

\* A payload that is refused.
LEMMA RejectKeeps ==
  ASSUME StorageInv, NEW s \in Save, Reject(s)
  PROVE  StorageInv'
<1>1. \A q \in Save \cup Delete : pc'[q] = IF q = s THEN "done" ELSE pc[q]
  BY GotoFacts DEF StorageInv, Reject
<1>2. Holding' = Holding
  BY <1>1 DEF Holding, Reject
<1>3. TypeOK' /\ FilesSane' /\ ChunksSane'
  BY OutsideWriting DEF Reject, StorageInv, TypeOK
<1> QED BY <1>2, <1>3, StillReserved DEF StorageInv, Reject

\* ReserveSpace, with either answer.
LEMMA ReserveKeeps ==
  ASSUME StorageInv, NEW s \in Save, ReserveSpace(s)
  PROVE  StorageInv'
<1>0. in_flight \in Int /\ in_flight + Size \in Int /\ pc[s] = "begin"
  BY Constants DEF StorageInv, TypeOK, ReserveSpace
<1>1. CASE Goto(s, "done") /\ UNCHANGED in_flight
  <2>1. \A q \in Save \cup Delete : pc'[q] = IF q = s THEN "done" ELSE pc[q]
    BY <1>1, GotoFacts DEF StorageInv
  <2>2. Holding' = Holding
    BY <1>0, <2>1 DEF Holding
  <2>3. TypeOK' /\ FilesSane' /\ ChunksSane'
    BY <1>0, <1>1, OutsideWriting DEF ReserveSpace
  <2> QED BY <1>1, <2>2, <2>3, StillReserved DEF StorageInv
<1>2. CASE Goto(s, "reserved") /\ in_flight' = in_flight + Size
  <2>1. \A q \in Save \cup Delete : pc'[q] = IF q = s THEN "reserved" ELSE pc[q]
    BY <1>2, GotoFacts DEF StorageInv
  <2>2. Holding' = Holding \cup {s} /\ s \notin Holding
    BY <1>0, <2>1 DEF Holding
  <2>3. TypeOK' /\ FilesSane' /\ ChunksSane'
    BY <1>0, <1>2, OutsideWriting DEF ReserveSpace
  <2> QED BY <1>2, <2>2, <2>3, Reserved DEF StorageInv
<1> QED BY <1>1, <1>2 DEF ReserveSpace

\* A file that cannot be opened.
LEMMA OpenFailsKeeps ==
  ASSUME StorageInv, NEW s \in Save, OpenFails(s)
  PROVE  StorageInv'
<1>0. in_flight \in Int /\ in_flight - Size \in Int /\ pc[s] = "reserved"
  BY Constants DEF StorageInv, TypeOK, OpenFails
<1>1. \A q \in Save \cup Delete : pc'[q] = IF q = s THEN "done" ELSE pc[q]
  BY GotoFacts DEF StorageInv, OpenFails
<1>2. Holding' = Holding \ {s} /\ s \in Holding
  BY <1>0, <1>1 DEF Holding
<1>3. TypeOK' /\ FilesSane' /\ ChunksSane'
  BY <1>0, OutsideWriting DEF OpenFails
<1> QED BY <1>2, <1>3, Released DEF StorageInv, OpenFails

\* The file that is opened, new or emptied, is going to be written by s.
LEMMA OpenKeeps ==
  ASSUME StorageInv, NEW s \in Save, Open(s)
  PROVE  StorageInv'
<1> DEFINE h == HashOf[s]
           f == IF dir[h] = NoFile THEN s ELSE dir[h]
<1>0. /\ h \in Hash /\ s # NoFile /\ pc[s] = "reserved"
      /\ dir \in [Hash -> Save \cup {NoFile}]
  BY Constants DEF Open, StorageInv, TypeOK
<1>1. f \in Save /\ HashOf[f] = h
  BY <1>0 DEF StorageInv, FilesSane
<1> HIDE DEF f
<1>2. dir' = [dir EXCEPT ![h] = f]
  BY DEF Open, f
<1>3. \A g \in Hash : dir'[g] = IF g = h THEN f ELSE dir[g]
  BY <1>0, <1>2
<1>4. fd' = [fd EXCEPT ![s] = f]
  BY <1>0, <1>3 DEF Open
<1>5. \A t \in Save : fd'[t] = IF t = s THEN f ELSE fd[t]
  BY <1>4 DEF StorageInv, TypeOK
<1>6. bytes' = [bytes EXCEPT ![f] = 0]
  BY <1>5 DEF Open
<1>7. \A g \in Save : bytes'[g] = IF g = f THEN 0 ELSE bytes[g]
  BY <1>6 DEF StorageInv, TypeOK
<1>8. \A q \in Save \cup Delete : pc'[q] = IF q = s THEN "open" ELSE pc[q]
  BY GotoFacts DEF StorageInv, Open
<1>9. UNCHANGED <<written, in_flight, overtaken, stored>>
  BY DEF Open
<1>10. TypeOK'
  BY <1>0, <1>1, <1>2, <1>4, <1>6, <1>9, Constants DEF StorageInv, TypeOK, Open, Goto
<1>11. \A t \in Save \ {s} : pc[t] \in {"open", "closed"} /\ t \notin overtaken /\ HashOf[t] = h
                               => fd[t] = dir[h] /\ f = dir[h]
  BY <1>0, Constants DEF StorageInv, FilesSane, f
<1>12. FilesSane'
  <2>1. \A g \in Hash : dir'[g] # NoFile => HashOf[dir'[g]] = g
    BY <1>1, <1>3 DEF StorageInv, FilesSane
  <2>2. ASSUME NEW t \in Save, pc'[t] \in {"open", "closed"}
        PROVE  /\ fd'[t] \in Save /\ HashOf[fd'[t]] = HashOf[t]
               /\ t \notin overtaken' => fd'[t] = dir'[HashOf[t]]
    <3>1. CASE t = s
      BY <1>0, <1>1, <1>3, <1>5, <3>1
    <3>2. CASE t # s
      <4>1. pc[t] \in {"open", "closed"} /\ fd'[t] = fd[t] /\ HashOf[t] \in Hash
        BY <1>5, <1>8, <2>2, <3>2, Constants
      <4> QED BY <1>3, <1>9, <1>11, <3>2, <4>1 DEF StorageInv, FilesSane
    <3> QED BY <3>1, <3>2
  <2> QED BY <2>1, <2>2 DEF FilesSane
<1>13. \A g \in Hash : Sound(g) => Sound(g)'
  <2> SUFFICES ASSUME NEW g \in Hash, Sound(g) PROVE Sound(g)'
    OBVIOUS
  <2>1. CASE g = h
    <3>1. dir'[g] = f /\ f # NoFile /\ fd'[s] = f /\ pc'[s] = "open"
      BY <1>0, <1>1, <1>3, <1>5, <1>8, <2>1, Constants
    <3> QED BY <3>1 DEF Sound
  <2>2. CASE g # h
    <3>1. dir'[g] = dir[g] /\ dir[g] # NoFile /\ dir[g] # f /\ dir[g] \in Save
      BY <1>0, <1>1, <1>3, <2>2 DEF Sound, StorageInv, FilesSane
    <3>2. bytes'[dir[g]] = bytes[dir[g]]
      BY <1>7, <3>1
    <3>3. \A t \in Save : pc[t] = "open" => pc'[t] = "open" /\ fd'[t] = fd[t]
      BY <1>0, <1>5, <1>8
    <3> QED BY <3>1, <3>2, <3>3 DEF Sound
  <2> QED BY <2>1, <2>2
<1>14. ChunksSane'
  <2>1. \A g \in stored : g \in Hash
    BY DEF StorageInv, TypeOK
  <2>2. \A t \in written : t \in Save /\ (pc'[t] = "closed" => pc[t] = "closed")
    BY <1>8 DEF StorageInv, TypeOK
  <2> QED BY <1>9, <1>13, <2>1, <2>2, Constants DEF StorageInv, ChunksSane
<1>15. Holding' = Holding
  BY <1>0, <1>8 DEF Holding
<1> QED BY <1>9, <1>10, <1>12, <1>14, <1>15, StillReserved DEF StorageInv

\* A write makes the file whole, or spoils the chunk for everyone who saves it.
LEMMA WriteKeeps ==
  ASSUME StorageInv, NEW s \in Save, Write(s)
  PROVE  StorageInv'
<1> DEFINE h == HashOf[s]
           f == fd[s]
<1>0. /\ h \in Hash /\ pc[s] = "open" /\ f \in Save /\ HashOf[f] = h
      /\ s \notin overtaken => f = dir[h]
  BY Constants DEF Write, StorageInv, FilesSane
<1>1. \A q \in Save \cup Delete : pc'[q] = IF q = s THEN "closed" ELSE pc[q]
  BY GotoFacts DEF StorageInv, Write
<1>2. UNCHANGED <<dir, fd, in_flight>>
  BY DEF Write
<1>3. Holding' = Holding
  BY <1>0, <1>1 DEF Holding
<1>4. \A g \in Hash : g # h /\ dir[g] # NoFile => dir[g] # f /\ dir[g] \in Save
  BY <1>0 DEF StorageInv, FilesSane, TypeOK
<1>5. CASE /\ bytes' = [bytes EXCEPT ![f] = Size] /\ written' = written \cup {s}
           /\ UNCHANGED <<overtaken, stored>>
  <2>1. \A g \in Save : bytes'[g] = IF g = f THEN Size ELSE bytes[g]
    BY <1>5 DEF StorageInv, TypeOK
  <2>2. TypeOK'
    BY <1>0, <1>2, <1>5, Constants DEF StorageInv, TypeOK, Write, Goto
  <2>3. FilesSane'
    BY <1>0, <1>1, <1>2, <1>5 DEF StorageInv, FilesSane
  <2>4. \A g \in Hash : Sound(g) => Sound(g)'
    <3> SUFFICES ASSUME NEW g \in Hash, Sound(g) PROVE Sound(g)'
      OBVIOUS
    <3>1. dir'[g] = dir[g] /\ dir[g] # NoFile /\ dir[g] \in Save
      BY <1>2 DEF Sound, StorageInv, TypeOK
    <3>2. CASE dir[g] = f
      BY <2>1, <3>1, <3>2 DEF Sound
    <3>3. CASE dir[g] # f
      <4>1. bytes'[dir[g]] = bytes[dir[g]]
        BY <2>1, <3>1, <3>3
      <4>2. \A t \in Save : pc[t] = "open" /\ fd[t] = dir[g] => pc'[t] = "open" /\ fd'[t] = dir[g]
        BY <1>1, <1>2, <3>3
      <4> QED BY <3>1, <4>1, <4>2 DEF Sound
    <3> QED BY <3>2, <3>3
  <2>5. s \notin overtaken => Sound(h)'
    BY <1>0, <1>2, <2>1, Constants DEF Sound
  <2>6. ChunksSane'
    <3>1. \A g \in stored' : Sound(g)'
      BY <1>5, <2>4 DEF StorageInv, ChunksSane, TypeOK
    <3>2. ASSUME NEW t \in written' \ overtaken', pc'[t] = "closed" PROVE Sound(HashOf[t])'
      <4>1. CASE t = s
        BY <1>5, <2>5, <3>2, <4>1
      <4>2. CASE t # s
        <5>1. t \in written \ overtaken /\ t \in Save /\ pc[t] = "closed"
          BY <1>1, <1>5, <3>2, <4>2 DEF StorageInv, TypeOK
        <5> QED BY <2>4, <5>1, Constants DEF StorageInv, ChunksSane
      <4> QED BY <4>1, <4>2
    <3> QED BY <3>1, <3>2 DEF ChunksSane
  <2> QED BY <1>2, <1>3, <2>2, <2>3, <2>6, StillReserved DEF StorageInv
<1>6. ASSUME NEW n \in 0..(Size - 1), bytes' = [bytes EXCEPT ![f] = IF n < @ THEN @ ELSE n],
             overtaken' = overtaken \cup Saving(h), stored' = stored \ {h}, UNCHANGED written
      PROVE  StorageInv'
  <2>1. \A g \in Save : g # f => bytes'[g] = bytes[g]
    BY <1>6 DEF StorageInv, TypeOK
  <2>2. Saving(h) \subseteq Save
    BY DEF Saving
  <2>3. TypeOK'
    <3>1. (IF n < bytes[f] THEN bytes[f] ELSE n) \in 0..Size
      BY <1>0, Constants DEF StorageInv, TypeOK
    <3>2. bytes' \in [Save -> 0..Size]
      BY <1>0, <1>6, <3>1 DEF StorageInv, TypeOK
    <3> QED BY <1>2, <1>6, <2>2, <3>2 DEF StorageInv, TypeOK, Write, Goto
  <2>4. FilesSane'
    BY <1>0, <1>1, <1>2, <1>6 DEF StorageInv, FilesSane
  <2>5. \A g \in Hash : g # h /\ Sound(g) => Sound(g)'
    <3> SUFFICES ASSUME NEW g \in Hash, g # h, Sound(g) PROVE Sound(g)'
      OBVIOUS
    <3>1. dir'[g] = dir[g] /\ dir[g] # NoFile /\ dir[g] # f /\ dir[g] \in Save
      BY <1>2, <1>4 DEF Sound
    <3>2. \A t \in Save : pc[t] = "open" /\ fd[t] = dir[g] => pc'[t] = "open" /\ fd'[t] = dir[g]
      BY <1>1, <1>2, <3>1
    <3> QED BY <2>1, <3>1, <3>2 DEF Sound
  <2>6. ChunksSane'
    <3>1. \A g \in stored' : Sound(g)'
      BY <1>6, <2>5 DEF StorageInv, ChunksSane, TypeOK
    <3>2. ASSUME NEW t \in written' \ overtaken', pc'[t] = "closed" PROVE Sound(HashOf[t])'
      <4>1. t \in Save /\ t \in written \ overtaken /\ t \notin Saving(h)
        BY <1>6, <3>2 DEF StorageInv, TypeOK
      <4>2. t # s /\ pc[t] = "closed"
        BY <1>0, <1>1, <3>2, <4>1 DEF Saving
      <4>3. HashOf[t] # h
        BY <4>1, <4>2 DEF Saving
      <4> QED BY <2>5, <4>1, <4>2, <4>3, Constants DEF StorageInv, ChunksSane
    <3> QED BY <3>1, <3>2 DEF ChunksSane
  <2> QED BY <1>2, <1>3, <2>3, <2>4, <2>6, StillReserved DEF StorageInv
<1> QED BY <1>5, <1>6 DEF Write

\* The save reports that its chunk is stored.
LEMMA ReleaseKeeps ==
  ASSUME StorageInv, NEW s \in Save, Release(s)
  PROVE  StorageInv'
<1>0. pc[s] = "closed" /\ HashOf[s] \in Hash /\ in_flight - Size \in Int
  BY Constants DEF Release, StorageInv, TypeOK
<1>1. \A q \in Save \cup Delete : pc'[q] = IF q = s THEN "done" ELSE pc[q]
  BY GotoFacts DEF StorageInv, Release
<1>2. \A t \in Save : t # s => fd'[t] = fd[t]
  BY DEF Release, StorageInv, TypeOK
<1>3. UNCHANGED <<dir, bytes, written, overtaken>> /\ in_flight' = in_flight - Size
  BY DEF Release
<1>4. Holding' = Holding \ {s} /\ s \in Holding
  BY <1>0, <1>1 DEF Holding
<1>5. stored' \subseteq stored \cup {HashOf[s]}
      /\ (HashOf[s] \in stored' \ stored => s \in written \ overtaken)
  BY DEF Release
<1>6. TypeOK'
  BY <1>0, <1>3, <1>5 DEF StorageInv, TypeOK, Release, Goto
<1>7. FilesSane'
  BY <1>1, <1>2, <1>3 DEF StorageInv, FilesSane
<1>8. \A h : Sound(h) => Sound(h)'
  BY <1>0, <1>1, <1>2, <1>3 DEF Sound
<1>9. ChunksSane'
  <2>1. \A h \in stored' : Sound(h)
    BY <1>0, <1>5 DEF StorageInv, ChunksSane
  <2>2. \A t \in written \ overtaken : t \in Save /\ (pc'[t] = "closed" => pc[t] = "closed")
    BY <1>1 DEF StorageInv, TypeOK
  <2> QED BY <1>3, <1>8, <2>1, <2>2 DEF StorageInv, ChunksSane
<1> QED BY <1>3, <1>4, <1>6, <1>7, <1>9, Released DEF StorageInv

\* The name is removed, and nobody who saves the chunk meanwhile counts on it.
LEMMA DeleteKeeps ==
  ASSUME StorageInv, NEW d \in Delete, DeleteChunk(d)
  PROVE  StorageInv'
<1> DEFINE h == Target[d]
<1>0. h \in Hash
  BY Constants
<1>1. \A s \in Save : pc'[s] = pc[s]
  BY GotoFacts, Constants DEF StorageInv, DeleteChunk
<1>2. UNCHANGED <<bytes, fd, written, in_flight>>
  BY DEF DeleteChunk
<1>3. Holding' = Holding
  BY <1>1 DEF Holding
<1>4. pc' \in [Save \cup Delete -> {"begin", "reserved", "open", "closed", "done"}]
  BY DEF DeleteChunk, Goto, StorageInv, TypeOK
<1>5. CASE UNCHANGED <<dir, overtaken, stored>>
  <2>1. TypeOK'
    BY <1>2, <1>4, <1>5 DEF StorageInv, TypeOK
  <2>2. FilesSane' /\ \A g : Sound(g) => Sound(g)'
    BY <1>1, <1>2, <1>5 DEF StorageInv, FilesSane, Sound
  <2>3. ChunksSane'
    BY <1>1, <1>2, <1>5, <2>2 DEF StorageInv, ChunksSane, TypeOK
  <2> QED BY <1>2, <1>3, <2>1, <2>2, <2>3, StillReserved DEF StorageInv
<1>6. CASE /\ dir' = [dir EXCEPT ![h] = NoFile] /\ stored' = stored \ {h}
           /\ overtaken' = overtaken \cup Saving(h)
  <2>1. \A g \in Hash : dir'[g] = IF g = h THEN NoFile ELSE dir[g]
    BY <1>0, <1>6 DEF StorageInv, TypeOK
  <2>2. TypeOK'
    BY <1>2, <1>4, <1>6 DEF StorageInv, TypeOK, Saving
  <2>3. \A t \in Save : pc[t] \in {"open", "closed"} /\ t \notin overtaken' => HashOf[t] # h
    BY <1>6 DEF Saving
  <2>4. FilesSane'
    BY <1>1, <1>2, <1>6, <2>1, <2>3, Constants DEF StorageInv, FilesSane
  <2>5. \A g \in Hash : g # h /\ Sound(g) => Sound(g)'
    BY <1>1, <1>2, <2>1 DEF Sound
  <2>6. ChunksSane'
    <3>1. \A g \in stored' : Sound(g)'
      BY <1>6, <2>5 DEF StorageInv, ChunksSane, TypeOK
    <3>2. \A t \in written' \ overtaken' : pc'[t] = "closed" =>
            t \in Save /\ t \in written \ overtaken /\ pc[t] = "closed" /\ HashOf[t] # h
      BY <1>1, <1>2, <1>6, <2>3 DEF StorageInv, TypeOK
    <3> QED BY <2>5, <3>1, <3>2, Constants DEF StorageInv, ChunksSane
  <2> QED BY <1>2, <1>3, <2>2, <2>4, <2>6, StillReserved DEF StorageInv
<1> QED BY <1>5, <1>6 DEF DeleteChunk

\* StorageInv holds at the beginning.
LEMMA InitStorage == Init => StorageInv
<1> SUFFICES ASSUME Init PROVE StorageInv
  OBVIOUS
<1>1. TypeOK /\ FilesSane /\ ChunksSane
  BY Constants DEF Init, TypeOK, FilesSane, ChunksSane
<1>2. {s \in Save : pc[s] \in {"reserved", "open", "closed"}} = {}
  BY DEF Init
<1>3. ReservationsExact
  <2>1. Cardinality({s \in Save : pc[s] \in {"reserved", "open", "closed"}}) = 0
    BY <1>2, FS_EmptySet
  <2>2. in_flight = 0 /\ Size * 0 = 0
    BY Constants DEF Init
  <2> QED BY <2>1, <2>2 DEF ReservationsExact
<1> QED BY <1>1, <1>3 DEF StorageInv

\* Every step preserves StorageInv.
LEMMA NextStorage == StorageInv /\ [Next]_vars => StorageInv'
<1> SUFFICES ASSUME StorageInv, [Next]_vars PROVE StorageInv'
  OBVIOUS
<1>1. CASE UNCHANGED vars
  BY <1>1 DEF vars, StorageInv, TypeOK, FilesSane, ChunksSane, Sound, ReservationsExact
<1> QED BY <1>1, RejectKeeps, ReserveKeeps, OpenKeeps, OpenFailsKeeps, WriteKeeps, ReleaseKeeps,
           DeleteKeeps DEF Next

-----------------------------------------------------------------------------
(* Space.                                                                  *)

\* The bytes in use are finitely many.
LEMMA UsedFinite ==
  ASSUME NEW U, U \subseteq Save \X (1..Size)
  PROVE  IsFiniteSet(U) /\ Cardinality(U) \in Nat
<1>1. IsFiniteSet(1..Size)
  BY FS_Interval, Constants
<1>2. IsFiniteSet(Save \X (1..Size))
  BY <1>1, FS_Product, StorageAssumption
<1> QED BY <1>2, FS_Subset, FS_CardinalityType

\* NotOverallocated with its two sums named.
LEMMA SpaceForm ==
  /\ Used \subseteq Save \X (1..Size) /\ IsFiniteSet(Used) /\ Cardinality(Used) \in Nat
  /\ IsFiniteSet(Unwritten) /\ Cardinality(Unwritten) \in Nat
  /\ NotOverallocated <=> Capacity - Cardinality(Used) - Size * Cardinality(Unwritten) >= Margin
<1>1. Used \subseteq Save \X (1..Size)
  BY DEF Used, Files
<1>2. Unwritten \subseteq Save
  BY DEF Unwritten
<1>3. IsFiniteSet(Used) /\ Cardinality(Used) \in Nat
  BY <1>1, UsedFinite
<1>4. IsFiniteSet(Unwritten) /\ Cardinality(Unwritten) \in Nat
  BY <1>2, SavesFinite
<1>5. NotOverallocated <=> Capacity - Cardinality(Used) - Size * Cardinality(Unwritten) >= Margin
  BY DEF NotOverallocated, Available, Unwritten
<1> QED BY <1>1, <1>3, <1>4, <1>5

\* The same of the next state.
LEMMA SpaceFormNext ==
  /\ IsFiniteSet(Used') /\ Cardinality(Used') \in Nat
  /\ IsFiniteSet(Unwritten') /\ Cardinality(Unwritten') \in Nat
  /\ NotOverallocated' <=> Capacity - Cardinality(Used') - Size * Cardinality(Unwritten') >= Margin
<1>1. Used' \subseteq Save \X (1..Size) /\ Unwritten' \subseteq Save
  BY DEF Used, Files, Unwritten
<1>2. IsFiniteSet(Used') /\ Cardinality(Used') \in Nat
  BY <1>1, UsedFinite
<1>3. IsFiniteSet(Unwritten') /\ Cardinality(Unwritten') \in Nat
  BY <1>1, SavesFinite
<1>4. NotOverallocated' <=> Capacity - Cardinality(Used') - Size * Cardinality(Unwritten') >= Margin
  BY DEF NotOverallocated, Available, Unwritten
<1> QED BY <1>2, <1>3, <1>4

\* Products grow with their factors.
LEMMA Products ==
  ASSUME NEW n \in Nat, NEW j \in Nat, NEW k \in Nat, j <= k
  PROVE  n * j <= n * k /\ n * j \in Nat /\ n * k \in Nat /\ n * (j + 1) = n * j + n
<1>1. k - j \in Nat /\ n * k = n * j + n * (k - j)
  BY SMT
<1>2. n * (k - j) \in Nat /\ n * j \in Nat /\ n * k \in Nat
  BY <1>1, SMT
<1>3. n * (j + 1) = n * j + n
  BY SMT
<1> QED BY <1>1, <1>2, <1>3, SMT

\* With no byte more in use and no save more to write, the space still fits.
LEMMA StillFits ==
  ASSUME NotOverallocated, Used' \subseteq Used, Unwritten' \subseteq Unwritten
  PROVE  NotOverallocated'
<1> DEFINE u == Cardinality(Used)
           v == Cardinality(Used')
           j == Cardinality(Unwritten')
           k == Cardinality(Unwritten)
<1>1. u \in Nat /\ v \in Nat /\ j \in Nat /\ k \in Nat /\ v <= u /\ j <= k
  BY SpaceForm, SpaceFormNext, FS_Subset
<1>2. Capacity - u - Size * k >= Margin
  BY SpaceForm
<1> HIDE DEF u, v, j, k
<1>3. Size * j <= Size * k /\ Size * j \in Nat /\ Size * k \in Nat
  BY <1>1, Products, Constants
<1>4. Capacity - v - Size * j >= Margin
  BY <1>1, <1>2, <1>3, Constants
<1> QED BY <1>4, SpaceFormNext DEF v, j

\* A reservation is granted where it fits beside those that were granted.
LEMMA ReserveFits ==
  ASSUME StorageInv, NotOverallocated, NEW s \in Save, ReserveSpace(s)
  PROVE  NotOverallocated'
<1>0. Used' = Used /\ pc[s] = "begin"
  BY DEF ReserveSpace, Used, Files
<1>1. CASE Goto(s, "done")
  <2>1. \A q \in Save \cup Delete : pc'[q] = IF q = s THEN "done" ELSE pc[q]
    BY <1>1, GotoFacts DEF StorageInv
  <2>2. Unwritten' \subseteq Unwritten
    BY <1>0, <2>1 DEF Unwritten
  <2> QED BY <1>0, <2>2, StillFits
<1>2. CASE Goto(s, "reserved") /\ SafeSpace >= Size + Margin
  <2>1. \A q \in Save \cup Delete : pc'[q] = IF q = s THEN "reserved" ELSE pc[q]
    BY <1>2, GotoFacts DEF StorageInv
  <2>2. Unwritten' = Unwritten \cup {s} /\ s \notin Unwritten
    BY <1>0, <2>1 DEF Unwritten
  <2> DEFINE u == Cardinality(Used)
             j == Cardinality(Unwritten)
             k == Cardinality(Holding)
  <2>3. Cardinality(Unwritten') = j + 1
    BY <2>2, SpaceForm, FS_AddElement
  <2>4. u \in Nat /\ j \in Nat
    BY SpaceForm
  <2>5. k \in Nat /\ j <= k
    <3>1. Unwritten \subseteq Holding /\ Holding \subseteq Save
      BY DEF Unwritten, Holding
    <3>2. IsFiniteSet(Holding) /\ k \in Nat
      BY <3>1, SavesFinite
    <3> QED BY <3>1, <3>2, FS_Subset
  <2>6. Capacity - u - Size * k >= Size + Margin
    BY <1>2 DEF SafeSpace, Available, StorageInv, ReservationsExact, Holding
  <2> HIDE DEF u, j, k
  <2>7. Size * j <= Size * k /\ Size * j \in Nat /\ Size * k \in Nat /\ Size * (j + 1) = Size * j + Size
    BY <2>4, <2>5, Products, Constants
  <2>8. Capacity - u - (Size * j + Size) >= Margin
    BY <2>4, <2>6, <2>7, Constants
  <2>9. Capacity - u - Size * (j + 1) >= Margin
    BY <2>7, <2>8
  <2> QED BY <1>0, <2>3, <2>9, SpaceFormNext DEF u
<1> QED BY <1>1, <1>2 DEF ReserveSpace

\* Opening a file empties it.
LEMMA OpenFits ==
  ASSUME StorageInv, NotOverallocated, NEW s \in Save, Open(s)
  PROVE  NotOverallocated'
<1> DEFINE f == dir'[HashOf[s]]
<1>1. /\ fd' = [fd EXCEPT ![s] = f] /\ bytes' = [bytes EXCEPT ![fd'[s]] = 0]
      /\ pc[s] = "reserved"
  BY DEF Open
<1>2. fd'[s] = f /\ \A t \in Save : t # s => fd'[t] = fd[t]
  BY <1>1 DEF StorageInv, TypeOK
<1>3. \A g \in Hash : dir'[g] = f \/ dir'[g] = dir[g]
  BY Constants DEF Open, StorageInv, TypeOK
<1>4. \A g \in Save : bytes'[g] = IF g = f THEN 0 ELSE bytes[g]
  BY <1>1, <1>2 DEF StorageInv, TypeOK
<1> HIDE DEF f
<1>5. \A g \in Files' : g # f => g \in Files
  BY <1>2, <1>3 DEF Files
<1>6. Used' \subseteq Used
  <2> SUFFICES ASSUME NEW p \in Used' PROVE p \in Used
    OBVIOUS
  <2>1. p \in Files' \X (1..Size) /\ p[2] <= bytes'[p[1]] /\ p[1] \in Save
    BY DEF Used, Files
  <2>2. p[1] # f
    BY <1>4, <2>1, Constants
  <2> QED BY <1>4, <1>5, <2>1, <2>2 DEF Used
<1>7. \A q \in Save \cup Delete : pc'[q] = IF q = s THEN "open" ELSE pc[q]
  BY GotoFacts DEF StorageInv, Open
<1>8. Unwritten' \subseteq Unwritten
  BY <1>1, <1>7 DEF Unwritten
<1> QED BY <1>6, <1>8, StillFits

\* A write uses no more than what its reservation was for.
LEMMA WriteFits ==
  ASSUME StorageInv, NotOverallocated, NEW s \in Save, Write(s)
  PROVE  NotOverallocated'
<1> DEFINE f == fd[s]
           block == {f} \X (1..Size)
           u == Cardinality(Used)
           v == Cardinality(Used')
           k == Cardinality(Unwritten)
           j == Cardinality(Unwritten')
<1>1. f \in Save /\ pc[s] = "open" /\ UNCHANGED <<dir, fd>>
  BY DEF Write, StorageInv, FilesSane
<1>2. \A g \in Save : g # f => bytes'[g] = bytes[g]
  BY DEF Write, StorageInv, TypeOK
<1>3. Used' \subseteq Used \cup block
  BY <1>1, <1>2 DEF Used, Files
<1>4. IsFiniteSet(block) /\ Cardinality(block) = Size
  <2>1. IsFiniteSet(1..Size) /\ Cardinality(1..Size) = Size
    <3>1. 1 \in Int /\ Size \in Int
      BY Constants
    <3>2. IsFiniteSet(1..Size) /\ Cardinality(1..Size) = IF 1 > Size THEN 0 ELSE Size - 1 + 1
      BY <3>1, FS_Interval, Zenon
    <3> QED BY <3>2, Constants
  <2>2. IsFiniteSet({f}) /\ Cardinality({f}) = 1
    BY FS_Singleton
  <2>3. IsFiniteSet(block) /\ Cardinality(block) = 1 * Size
    BY <2>1, <2>2, FS_Product
  <2> QED BY <2>3, Constants
<1>5. u \in Nat /\ v \in Nat /\ k \in Nat /\ j \in Nat
  BY SpaceForm, SpaceFormNext
<1>6. v <= u + Size
  <2>1. IsFiniteSet(Used \cup block) /\
        Cardinality(Used \cup block) = u + Size - Cardinality(Used \cap block)
    BY <1>4, SpaceForm, FS_Union
  <2>2. Cardinality(Used \cap block) \in Nat
    BY SpaceForm, FS_Intersection, FS_CardinalityType
  <2>3. v <= Cardinality(Used \cup block)
    BY <1>3, <2>1, FS_Subset
  <2> HIDE DEF block, u, v
  <2>4. u \in Nat /\ v \in Nat
    BY <1>5
  <2> QED BY <2>1, <2>2, <2>3, <2>4, Constants
<1>7. \A q \in Save \cup Delete : pc'[q] = IF q = s THEN "closed" ELSE pc[q]
  BY GotoFacts DEF StorageInv, Write
<1>8. k = j + 1
  <2>1. Unwritten' = Unwritten \ {s} /\ s \in Unwritten
    BY <1>1, <1>7 DEF Unwritten
  <2>2. Cardinality(Unwritten \ {s}) = k - 1
    BY <2>1, SpaceForm, FS_RemoveElement
  <2> HIDE DEF k
  <2> QED BY <1>5, <2>1, <2>2
<1>9. Capacity - u - Size * k >= Margin
  BY SpaceForm
<1> HIDE DEF u, v, j, k
<1>10. Size * k = Size * j + Size /\ Size * j \in Nat
  BY <1>5, <1>8, Products, Constants
<1>11. Capacity - v - Size * j >= Margin
  BY <1>5, <1>6, <1>9, <1>10, Constants
<1> QED BY <1>11, SpaceFormNext DEF v, j

\* Every step preserves NotOverallocated.
LEMMA NextFits ==
  ASSUME StorageInv, NotOverallocated, [Next]_vars
  PROVE  NotOverallocated'
<1>1. ASSUME NEW s \in Save, Reject(s) \/ OpenFails(s) \/ Release(s)
      PROVE  NotOverallocated'
  <2>1. \A q \in Save \cup Delete : pc'[q] = IF q = s THEN "done" ELSE pc[q]
    BY <1>1, GotoFacts DEF StorageInv, Reject, OpenFails, Release
  <2>2. Unwritten' \subseteq Unwritten
    BY <2>1 DEF Unwritten
  <2>3. /\ UNCHANGED <<dir, bytes>>
        /\ \A t \in Save : fd'[t] = fd[t] \/ fd'[t] = NoFile
    BY <1>1 DEF Reject, OpenFails, Release, StorageInv, TypeOK
  <2>4. Files' \subseteq Files
    BY <2>3, Constants DEF Files
  <2>5. Used' \subseteq Used
    BY <2>3, <2>4 DEF Used
  <2> QED BY <2>2, <2>5, StillFits
<1>2. ASSUME NEW d \in Delete, DeleteChunk(d) PROVE NotOverallocated'
  <2>1. \A s \in Save : pc'[s] = pc[s]
    BY <1>2, GotoFacts, Constants DEF StorageInv, DeleteChunk
  <2>2. Unwritten' \subseteq Unwritten
    BY <2>1 DEF Unwritten
  <2>3. /\ UNCHANGED <<bytes, fd>>
        /\ \A h \in Hash : dir'[h] = dir[h] \/ dir'[h] = NoFile
    BY <1>2 DEF DeleteChunk, StorageInv, TypeOK
  <2>4. Files' \subseteq Files
    BY <2>3, Constants DEF Files
  <2>5. Used' \subseteq Used
    BY <2>3, <2>4 DEF Used
  <2> QED BY <2>2, <2>5, StillFits
<1>3. CASE UNCHANGED vars
  BY <1>3, StillFits DEF vars, Used, Files, Unwritten
<1> QED BY <1>1, <1>2, <1>3, ReserveFits, OpenFits, WriteFits DEF Next

\* At the beginning nothing is in use, and the margin is there.
LEMMA InitFits ==
  ASSUME Init, Margin <= Capacity
  PROVE  NotOverallocated
<1>1. Used = {} /\ Unwritten = {}
  BY Constants DEF Init, Used, Files, Unwritten
<1>2. Cardinality(Used) = 0 /\ Cardinality(Unwritten) = 0
  BY <1>1, FS_EmptySet
<1>3. Capacity - 0 - Size * 0 >= Margin
  BY Constants
<1> QED BY <1>2, <1>3, SpaceForm

-----------------------------------------------------------------------------
\* The strengthened invariant of the worker's store holds, however the system
\* calls of saves and deletes interleave and whichever of them fail.
THEOREM StorageInvAlways == Spec => []StorageInv
BY InitStorage, NextStorage, PTL DEF Spec

\* in_flight_bytes is always what the saves in progress have reserved, on every
\* path through SaveChunk, for any number of saves at the same time.
THEOREM ReservationsAlwaysExact == Spec => []ReservationsExact
<1>1. StorageInv => ReservationsExact
  BY DEF StorageInv
<1> QED BY <1>1, StorageInvAlways, PTL

\* A chunk that SaveChunk has reported as saved can be loaded once no save of it
\* is in progress, unless it was deleted or a save of it failed in its write,
\* for any number of saves of one chunk that overwrite each other.
THEOREM SavedAlwaysLoadable == Spec => []SavedIsLoadable
<1>1. StorageInv => SavedIsLoadable
  <2> SUFFICES ASSUME StorageInv, NEW h \in stored, Saving(h) = {} PROVE Loadable(h)
    BY DEF SavedIsLoadable
  <2>1. h \in Hash /\ Sound(h)
    BY DEF StorageInv, ChunksSane, TypeOK
  <2>2. \A s \in Save : ~(pc[s] = "open" /\ fd[s] = dir[h])
    <3> SUFFICES ASSUME NEW s \in Save, pc[s] = "open", fd[s] = dir[h] PROVE FALSE
      OBVIOUS
    <3>1. HashOf[s] = h
      BY <2>1 DEF StorageInv, FilesSane, Sound
    <3> QED BY <3>1 DEF Saving
  <2> QED BY <2>1, <2>2 DEF Sound, Loadable
<1> QED BY <1>1, StorageInvAlways, PTL

\* ReserveSpace never promises the same space twice: whatever saves are in
\* progress, what they have still to write fits on the disk and leaves the
\* margin free, if the disk had room for the margin to begin with.
THEOREM NeverOverallocated ==
  ASSUME Margin <= Capacity
  PROVE  Spec => []NotOverallocated
<1>1. Init => NotOverallocated
  BY InitFits
<1>2. StorageInv /\ NotOverallocated /\ [Next]_vars => NotOverallocated'
  BY NextFits
<1> QED BY <1>1, <1>2, StorageInvAlways, PTL DEF Spec

-----------------------------------------------------------------------------
(* The shutdown of the daemons.                                           *)

\* ShutdownInv holds at the beginning.
LEMMA InitShutdownInv == NodeInit => ShutdownInv
<1> SUFFICES ASSUME NodeInit PROVE ShutdownInv
  OBVIOUS
<1>1. collects \in BOOLEAN /\ signalled \in BOOLEAN /\ keep_running \in BOOLEAN
  BY DEF NodeInit
<1>2. requests \in 0..MaxRequests /\ tasks \in 0..MaxTasks
  BY ShutdownAssumption DEF NodeInit
<1> QED BY <1>1, <1>2 DEF NodeInit, ShutdownInv, NodeTypeOK

\* Signals, requests and tasks of the pool preserve ShutdownInv.
LEMMA EnvironmentShutdownInv ==
  ShutdownInv /\ (Signal \/ Accept \/ Answer \/ TaskDone) => ShutdownInv'
<1> SUFFICES ASSUME ShutdownInv, Signal \/ Accept \/ Answer \/ TaskDone PROVE ShutdownInv'
  OBVIOUS
<1> USE ShutdownAssumption DEF ShutdownInv, NodeTypeOK
<1>1. CASE Signal
  BY <1>1 DEF Signal
<1>2. CASE Accept
  BY <1>2 DEF Accept
<1>3. CASE Answer
  BY <1>3 DEF Answer
<1>4. CASE TaskDone
  BY <1>4 DEF TaskDone
<1> QED BY <1>1, <1>2, <1>3, <1>4

\* So do the steps of the server's thread and of the daemon's.
LEMMA ThreadsShutdownInv ==
  ShutdownInv /\ (ServerStep \/ DaemonStep) => ShutdownInv'
<1> SUFFICES ASSUME ShutdownInv, ServerStep \/ DaemonStep PROVE ShutdownInv'
  OBVIOUS
<1> USE ShutdownAssumption DEF ShutdownInv, NodeTypeOK
<1>1. CASE Listen
  BY <1>1 DEF Listen
<1>2. CASE Drain
  BY <1>2 DEF Drain
<1>3. CASE Test
  BY <1>3 DEF Test
<1>4. CASE Heartbeat
  BY <1>4 DEF Heartbeat
<1>5. CASE Sweep
  BY <1>5 DEF Sweep
<1>6. CASE Gathered
  BY <1>6 DEF Gathered
<1>7. CASE Resolve
  BY <1>7 DEF Resolve
<1>8. CASE TestPredicate
  BY <1>8 DEF TestPredicate
<1>9. CASE FallAsleep \/ TimeOut
  BY <1>9 DEF FallAsleep, TimeOut
<1> QED BY <1>1, <1>2, <1>3, <1>4, <1>5, <1>6, <1>7, <1>8, <1>9 DEF ServerStep, DaemonStep

\* So does main, because it joins each thread before it goes on.
LEMMA MainShutdownInv == ShutdownInv /\ MainStep => ShutdownInv'
<1> SUFFICES ASSUME ShutdownInv, MainStep PROVE ShutdownInv'
  OBVIOUS
<1> USE ShutdownAssumption DEF ShutdownInv, NodeTypeOK
<1>1. CASE Stop
  BY <1>1 DEF Stop
<1>2. CASE JoinServer
  BY <1>2 DEF JoinServer
<1>3. CASE ClearKeepRunning
  BY <1>3 DEF ClearKeepRunning
<1>4. CASE Notify
  BY <1>4 DEF Notify
<1>5. CASE JoinDaemon
  BY <1>5 DEF JoinDaemon
<1>6. CASE Exit
  BY <1>6 DEF Exit
<1> QED BY <1>1, <1>2, <1>3, <1>4, <1>5, <1>6 DEF MainStep

\* Every step preserves ShutdownInv.
LEMMA NextShutdownInv == ShutdownInv /\ [NodeNext]_nodeVars => ShutdownInv'
<1>1. ShutdownInv /\ UNCHANGED nodeVars => ShutdownInv'
  BY DEF nodeVars, ShutdownInv, NodeTypeOK
<1> QED BY <1>1, EnvironmentShutdownInv, ThreadsShutdownInv, MainShutdownInv DEF NodeNext

\* The joins of main order the threads' ends: the strengthened invariant holds.
THEOREM ShutdownInvAlways == NodeSpec => []ShutdownInv
BY InitShutdownInv, NextShutdownInv, PTL DEF NodeSpec

\* When main returns no handler, no deletion task and no batch is unfinished,
\* for a master and for a worker, whenever the signal comes.
THEOREM ReturnIsQuiet == NodeSpec => []QuietReturn
<1>1. ShutdownInv => QuietReturn
  BY DEF ShutdownInv, QuietReturn
<1> QED BY <1>1, ShutdownInvAlways, PTL

\* Each thread that main waits for has been told to stop: the server's socket is
\* closed or its thread has ended, and the daemon's next look at keep_running ends it.
JoinsHeard ==
  /\ main = "join_server" => server \in {"draining", "ended"}
  /\ main = "join_daemon" => ~keep_running

\* The flags are set before main goes on, and a signal finds the server started.
HeardInv ==
  /\ JoinsHeard
  /\ main = "notify" => ~keep_running
  /\ signalled => server # "starting"

\* main never joins a thread that was not told to stop, for a master and for a worker,
\* whenever the signal comes once the server has started.  httplib's stop does nothing
\* to a server that has not started, and a signal before that would break this.
THEOREM JoinsAlwaysHeard ==
  ASSUME ~EarlySignal
  PROVE  NodeSpec => []JoinsHeard
<1>1. NodeInit => HeardInv
  BY DEF NodeInit, HeardInv, JoinsHeard
<1>2. ShutdownInv /\ HeardInv /\ [NodeNext]_nodeVars => HeardInv'
  <2> SUFFICES ASSUME ShutdownInv, HeardInv, [NodeNext]_nodeVars PROVE HeardInv'
    OBVIOUS
  <2> USE DEF HeardInv, JoinsHeard
  <2>1. CASE Signal
    BY <2>1 DEF Signal
  <2>2. CASE ServerStep
    BY <2>2 DEF ServerStep, Listen, Drain
  <2>3. CASE Stop
    <3>1. server \in {"running", "draining", "ended"}
      BY <2>3 DEF Stop, ShutdownInv, NodeTypeOK
    <3> QED BY <2>3, <3>1 DEF Stop
  <2>4. CASE JoinServer \/ ClearKeepRunning \/ Notify \/ JoinDaemon \/ Exit
    BY <2>4 DEF JoinServer, ClearKeepRunning, Notify, JoinDaemon, Exit
  <2>5. CASE \/ DaemonStep \/ Accept \/ Answer \/ TaskDone \/ UNCHANGED nodeVars
    <3>1. UNCHANGED <<signalled, keep_running, main, server>>
      BY <2>5 DEF DaemonStep, Test, Heartbeat, Sweep, Gathered, Resolve, TestPredicate,
                  FallAsleep, TimeOut, Accept, Answer, TaskDone, nodeVars
    <3> QED BY <3>1
  <2> QED BY <2>1, <2>2, <2>3, <2>4, <2>5 DEF NodeNext, MainStep
<1>3. HeardInv => JoinsHeard
  BY DEF HeardInv
<1> QED BY <1>1, <1>2, <1>3, ShutdownInvAlways, PTL DEF NodeSpec
=============================================================================
