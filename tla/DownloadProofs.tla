--------------------------- MODULE DownloadProofs ---------------------------
(***************************************************************************)
(* Proofs about Download, for files of any size, any number of versions,   *)
(* replicas, runs and interruptions, whatever older downloads are there,   *)
(* and with plans that mix two versions and streams that fail.             *)
(***************************************************************************)
EXTENDS Download, TLAPS

\* A run that has not come to its loops has left no traces in them.
Untouched ==
  /\ pc \in {"start", "planning", "allocate"} => at = 1 /\ completed = {}
  /\ pc \in {"start", "planning", "allocate", "verify"} =>
       jobs = Empty /\ failed = {} /\ ~badbit

\* From Allocate to Rename the local file has the size of the plan.
Sized == pc \in {"verify", "dispatch", "await", "rename"} => temp.size = TotalSize

\* The loop of Verify finds what is intact among the slots behind it, and
\* nothing else; Dispatch, unless it is paused, still has all of it ahead.
VerifiedExactly ==
  /\ pc \in {"verify", "dispatch", "await"} => \A i \in completed : Intact(i)
  /\ pc = "verify" => \A i \in Slots : i < at /\ Intact(i) => i \in completed
  /\ pc = "dispatch" /\ state = "RUNNING" =>
       \A i \in Slots : at <= i /\ Intact(i) => i \in completed

\* A task is for a slot behind the loop of Dispatch that is not intact yet.
TasksNeeded ==
  /\ pc = "dispatch" => \A i \in DOMAIN jobs : i < at
  /\ pc \in {"dispatch", "await"} => \A i \in DOMAIN jobs : ~Intact(i)

\* A block that Dispatch has passed is intact, unless its task is under way or
\* has failed, or the stream has; when all futures are ready every block is.
PassedIntact ==
  ~badbit =>
    /\ pc = "dispatch" =>
         \A i \in DOMAIN temp.blocks \cap Slots :
           i < at => Intact(i) \/ i \in DOMAIN jobs \/ i \in failed
    /\ pc = "await" /\ state = "RUNNING" =>
         \A i \in DOMAIN temp.blocks \cap Slots :
           Intact(i) \/ i \in DOMAIN jobs \/ i \in failed
    /\ pc = "rename" => \A i \in DOMAIN temp.blocks \cap Slots : Intact(i)

\* The output is written once, by the last run, from the plan it has.
OutputPlanned ==
  output # NoFile =>
    /\ pc = "done"
    /\ output.size = TotalSize
    /\ ~badbit => \A i \in DOMAIN output.blocks \cap Slots :
                     output.blocks[i] = manifest.chunks[i]

DownloadInv ==
  /\ TypeOK /\ Untouched /\ Sized /\ VerifiedExactly /\ TasksNeeded
  /\ PassedIntact /\ OutputPlanned

-----------------------------------------------------------------------------
(* Plans and local files.                                                  *)

\* Versions are the pairs of a size and of chunks the assumption says.
LEMMA VersionFacts ==
  ASSUME NEW v \in Versions
  PROVE  /\ v = Version(v.size, v.chunks) /\ v.size \in Nat /\ v.chunks \in Seq(Chunk)
         /\ DOMAIN v.chunks = Blocks(v.size) /\ v # NoRow
BY DownloadAssumption DEF Version, NoRow

\* Every row, and every plan made of rows, has a size and a sequence of chunks.
LEMMA RowFacts ==
  ASSUME NEW r \in Versions \cup {NoRow}
  PROVE  r.size \in Nat /\ r.chunks \in Seq(Chunk)
<1>1. CASE r \in Versions
  BY <1>1, VersionFacts
<1>2. CASE r = NoRow
  <2>1. r.size = 0 /\ r.chunks = <<>>
    BY <1>2 DEF NoRow
  <2> QED BY <2>1
<1> QED BY <1>1, <1>2

LEMMA PlanFacts ==
  ASSUME TypeOK
  PROVE  /\ manifest = Version(manifest.size, manifest.chunks)
         /\ manifest.size \in Nat /\ manifest.chunks \in Seq(Chunk)
         /\ Len(manifest.chunks) \in Nat /\ Slots = 1..Len(manifest.chunks)
         /\ TotalSize \in Nat
         /\ \A i \in Slots : manifest.chunks[i] \in Chunk
<1>1. PICK v \in Versions \cup {NoRow}, w \in Versions \cup {NoRow} :
        manifest = Version(v.size, w.chunks)
  BY DEF TypeOK, Plans
<1>2. v.size \in Nat /\ w.chunks \in Seq(Chunk)
  BY RowFacts
<1>3. /\ manifest = Version(manifest.size, manifest.chunks)
      /\ manifest.size \in Nat /\ manifest.chunks \in Seq(Chunk)
  BY <1>1, <1>2 DEF Version
<1>4. ChunkSize * Len(manifest.chunks) \in Nat
  BY <1>3, DownloadAssumption
<1> QED BY <1>3, <1>4 DEF Slots, TotalSize, Least

\* A plan that is a version has the size of that version, and a slot for each of
\* the blocks of a file of that size.
LEMMA SoundPlan ==
  ASSUME NEW v \in Versions, manifest = v
  PROVE  TotalSize = v.size /\ Slots = Blocks(v.size) /\ Slots = DOMAIN v.chunks
<1>1. /\ v.size \in Nat /\ v.chunks \in Seq(Chunk) /\ DOMAIN v.chunks = Blocks(v.size)
      /\ ChunkSize \in Nat \ {0}
  BY VersionFacts, DownloadAssumption
<1> DEFINE n == Len(v.chunks)
<1>2. n \in Nat /\ DOMAIN v.chunks = 1..n /\ Slots = 1..n
  BY <1>1 DEF Slots
<1>3. v.size <= ChunkSize * n
  <2> SUFFICES ASSUME ChunkSize * n < v.size PROVE FALSE
    BY <1>1, <1>2
  <2>1. n <= ChunkSize * n
    BY <1>1, <1>2
  <2>2. n + 1 \in 1..v.size /\ ChunkSize * ((n + 1) - 1) < v.size
    BY <1>1, <1>2, <2>1
  <2>3. n + 1 \in Blocks(v.size)
    BY <2>2 DEF Blocks
  <2> QED BY <1>1, <1>2, <2>3
<1>4. TotalSize = v.size
  BY <1>1, <1>2, <1>3 DEF TotalSize, Least
<1> QED BY <1>1, <1>2, <1>4

\* A file with a size is not NoFile.
LEMMA FileFacts ==
  ASSUME NEW f, IsFile(f), f.size \in Nat
  PROVE  /\ f # NoFile /\ f = AFile(f.size, f.blocks)
         /\ f.blocks \in [Blocks(f.size) -> Chunk \cup {"hole", "torn"}]
BY DEF IsFile, NoFile

\* Files of one size that agree on every block are the same.
LEMMA SameFile ==
  ASSUME NEW f, IsFile(f), NEW v \in Versions, f.size = v.size,
         \A i \in DOMAIN f.blocks : f.blocks[i] = v.chunks[i]
  PROVE  f = AFile(v.size, v.chunks)
<1>1. /\ v.size \in Nat /\ v.chunks \in Seq(Chunk) /\ DOMAIN v.chunks = Blocks(v.size)
  BY VersionFacts
<1>2. f = AFile(f.size, f.blocks) /\ f.blocks \in [Blocks(v.size) -> Chunk \cup {"hole", "torn"}]
  BY <1>1, FileFacts
<1>3. v.chunks = [i \in Blocks(v.size) |-> v.chunks[i]]
  BY <1>1
<1>4. f.blocks = [i \in Blocks(v.size) |-> f.blocks[i]]
  BY <1>2
<1>5. f.blocks = v.chunks
  BY <1>2, <1>3, <1>4
<1> QED BY <1>2, <1>5

\* A write to block i changes that block, if the file has it, and nothing else.
LEMMA WriteBlock ==
  ASSUME IsFile(temp), temp.size \in Nat, NEW i, NEW x \in Chunk \cup {"hole", "torn"},
         temp' = [temp EXCEPT !.blocks[i] = x]
  PROVE  /\ IsFile(temp') /\ temp'.size = temp.size /\ temp' # NoFile
         /\ DOMAIN temp'.blocks = DOMAIN temp.blocks
         /\ i \in DOMAIN temp.blocks => temp'.blocks[i] = x
         /\ \A j \in DOMAIN temp.blocks : j # i => temp'.blocks[j] = temp.blocks[j]
<1>1. /\ temp = AFile(temp.size, temp.blocks)
      /\ temp.blocks \in [Blocks(temp.size) -> Chunk \cup {"hole", "torn"}]
  BY FileFacts
<1>2. temp' = AFile(temp.size, [temp.blocks EXCEPT ![i] = x])
  BY <1>1 DEF AFile
<1>3. temp'.size = temp.size /\ temp'.blocks = [temp.blocks EXCEPT ![i] = x]
  BY <1>2 DEF AFile
<1>4. temp'.blocks \in [Blocks(temp.size) -> Chunk \cup {"hole", "torn"}]
  BY <1>1, <1>3
<1> QED BY <1>1, <1>2, <1>3, <1>4 DEF IsFile, NoFile

-----------------------------------------------------------------------------
(* The steps.                                                              *)

\* The plan a run begins with.
LEMMA NoPlan == Version(0, <<>>) \in Plans
<1>1. NoRow.size = 0 /\ NoRow.chunks = <<>>
  BY DEF NoRow
<1> QED BY <1>1 DEF Plans

LEMMA InitDownload == Init => DownloadInv
<1> SUFFICES ASSUME Init PROVE DownloadInv
  OBVIOUS
<1>1. IsFile(temp) /\ IsFile(output)
  BY DownloadAssumption DEF Init, IsFile
<1>2. Slots = {} /\ Len(manifest.chunks) = 0
  BY DEF Init, Slots, Version
<1>3. manifest \in Plans
  BY NoPlan DEF Init
<1>4. DOMAIN jobs = {}
  BY DEF Init, Empty
<1>5. good \in Serving /\ row \in Versions /\ badbit \in BOOLEAN
  BY DEF Init
<1>6. /\ at \in 1..(Len(manifest.chunks) + 1) /\ signals \in 0..2 /\ runs \in 1..MaxRuns
  BY <1>2, DownloadAssumption DEF Init
<1>7. TypeOK
  BY <1>1, <1>2, <1>3, <1>4, <1>5, <1>6 DEF Init, TypeOK
<1> QED
  BY <1>7 DEF Init, DownloadInv, Untouched, Sized, VerifiedExactly, TasksNeeded,
              PassedIntact, OutputPlanned

LEMMA SelectSizeStep == DownloadInv /\ SelectSize => DownloadInv'
<1> SUFFICES ASSUME DownloadInv, SelectSize PROVE DownloadInv'
  OBVIOUS
<1>1. /\ TypeOK /\ pc = "start" /\ output = NoFile
      /\ at = 1 /\ completed = {} /\ jobs = Empty /\ failed = {} /\ ~badbit
  BY DEF DownloadInv, SelectSize, Untouched, OutputPlanned
<1>2. DOMAIN jobs = {}
  BY <1>1 DEF Empty
<1>3. CASE row = NoRow /\ pc' = "error" /\ UNCHANGED manifest
  <2>1. TypeOK'
    BY <1>1, <1>3 DEF SelectSize, TypeOK, Slots
  <2> QED
    BY <1>1, <1>3, <2>1 DEF SelectSize, DownloadInv, Untouched, Sized, VerifiedExactly,
                            TasksNeeded, PassedIntact, OutputPlanned
<1>4. CASE row # NoRow /\ manifest' = Version(row.size, <<>>) /\ pc' = "planning"
  <2>1. NoRow.chunks = <<>> /\ row \in Versions \cup {NoRow}
    BY <1>1 DEF NoRow, TypeOK
  <2>2. manifest' \in Plans
    BY <1>4, <2>1 DEF Plans
  <2>3. Len(manifest'.chunks) = 0
    BY <1>4 DEF Version
  <2>4. TypeOK'
    BY <1>1, <1>2, <1>4, <2>2, <2>3 DEF SelectSize, TypeOK, Slots
  <2> QED
    BY <1>1, <1>4, <2>4 DEF SelectSize, DownloadInv, Untouched, Sized, VerifiedExactly,
                            TasksNeeded, PassedIntact, OutputPlanned
<1> QED BY <1>3, <1>4 DEF SelectSize

LEMMA SelectChunksStep == DownloadInv /\ SelectChunks => DownloadInv'
<1> SUFFICES ASSUME DownloadInv, SelectChunks PROVE DownloadInv'
  OBVIOUS
<1>1. /\ TypeOK /\ pc = "planning" /\ output = NoFile
      /\ at = 1 /\ completed = {} /\ jobs = Empty /\ failed = {} /\ ~badbit
  BY DEF DownloadInv, SelectChunks, Untouched, OutputPlanned
<1>2. DOMAIN jobs = {}
  BY <1>1 DEF Empty
<1>3. PICK v \in Versions \cup {NoRow}, w \in Versions \cup {NoRow} :
        manifest = Version(v.size, w.chunks)
  BY <1>1 DEF TypeOK, Plans
<1>4. manifest' = Version(v.size, row.chunks) /\ row \in Versions \cup {NoRow}
  BY <1>1, <1>3 DEF SelectChunks, Version, TypeOK
<1>5. manifest' \in Plans
  BY <1>4 DEF Plans
<1>6. Len(manifest'.chunks) \in Nat
  BY <1>4, RowFacts DEF Version
<1>7. TypeOK'
  BY <1>1, <1>2, <1>5, <1>6 DEF SelectChunks, TypeOK, Slots
<1> QED
  BY <1>1, <1>7 DEF SelectChunks, DownloadInv, Untouched, Sized, VerifiedExactly,
                    TasksNeeded, PassedIntact, OutputPlanned

\* A new row concerns only the plans that are still to be made.
LEMMA ChangeRowStep == DownloadInv /\ ChangeRow => DownloadInv'
<1> SUFFICES ASSUME DownloadInv, ChangeRow PROVE DownloadInv'
  OBVIOUS
<1>1. TypeOK'
  BY DEF DownloadInv, ChangeRow, TypeOK, Slots
<1> QED
  BY <1>1 DEF DownloadInv, ChangeRow, Untouched, Sized, VerifiedExactly, TasksNeeded,
              PassedIntact, OutputPlanned, Slots, TotalSize, Intact

\* A file that is kept has the size of the plan, and a new one only holes, of
\* which none is a chunk.
LEMMA AllocateStep == DownloadInv /\ Allocate => DownloadInv'
<1> SUFFICES ASSUME DownloadInv, Allocate PROVE DownloadInv'
  OBVIOUS
<1>1. /\ TypeOK /\ pc = "allocate" /\ output = NoFile
      /\ at = 1 /\ completed = {} /\ jobs = Empty /\ failed = {} /\ ~badbit
  BY DEF DownloadInv, Allocate, Untouched, OutputPlanned
<1>2. UNCHANGED <<manifest, output, at, completed, jobs, failed, badbit, state>>
  BY DEF Allocate
<1>3. Slots' = Slots /\ TotalSize' = TotalSize
  BY <1>2 DEF Slots, TotalSize
<1>4. DOMAIN jobs = {}
  BY <1>1 DEF Empty
<1>5. CASE Resumable /\ UNCHANGED temp /\ pc' = "verify"
  <2>1. TypeOK'
    BY <1>1, <1>3, <1>5 DEF Allocate, TypeOK
  <2>2. \A i \in Slots : ~(i < at)
    BY <1>1, PlanFacts
  <2> QED
    BY <1>1, <1>2, <1>3, <1>4, <1>5, <2>1, <2>2
    DEF DownloadInv, Untouched, Sized, VerifiedExactly, TasksNeeded, PassedIntact,
        OutputPlanned, Resumable
<1>6. CASE temp' = AFile(TotalSize, Holes) /\ pc' = "dispatch"
  <2>1. /\ temp'.size = TotalSize /\ temp'.blocks = [i \in Blocks(TotalSize) |-> "hole"]
        /\ TotalSize \in Nat
    BY <1>1, <1>6, PlanFacts DEF AFile, Holes
  <2>2. IsFile(temp')
    BY <1>6, <2>1 DEF IsFile, AFile
  <2>3. TypeOK'
    BY <1>1, <1>3, <1>6, <2>2 DEF Allocate, TypeOK
  <2>4. \A i \in Slots : ~Intact(i)' /\ ~(i < at)
    BY <1>1, <1>2, <2>1, PlanFacts, DownloadAssumption DEF Intact
  <2> QED
    BY <1>1, <1>2, <1>3, <1>4, <1>6, <2>1, <2>3, <2>4
    DEF DownloadInv, Untouched, Sized, VerifiedExactly, TasksNeeded, PassedIntact,
        OutputPlanned
<1> QED BY <1>5, <1>6 DEF Allocate

\* A slot is hashed, or the loop ends; nothing is written.
LEMMA VerifyStep == DownloadInv /\ Verify => DownloadInv'
<1> SUFFICES ASSUME DownloadInv, Verify PROVE DownloadInv'
  OBVIOUS
<1>1. /\ TypeOK /\ pc = "verify" /\ output = NoFile
      /\ jobs = Empty /\ failed = {} /\ ~badbit /\ temp.size = TotalSize
      /\ \A i \in completed : Intact(i)
      /\ \A i \in Slots : i < at /\ Intact(i) => i \in completed
  BY DEF DownloadInv, Verify, Untouched, Sized, VerifiedExactly, OutputPlanned
<1>2. UNCHANGED <<manifest, temp, output, jobs, failed, badbit, state>>
  BY DEF Verify
<1>3. /\ Slots' = Slots /\ TotalSize' = TotalSize /\ DOMAIN jobs = {}
      /\ \A i \in Slots : Intact(i)' <=> Intact(i)
  BY <1>1, <1>2 DEF Slots, TotalSize, Intact, Empty
<1>4. /\ Slots = 1..Len(manifest.chunks) /\ Len(manifest.chunks) \in Nat
      /\ completed \subseteq Slots /\ at \in 1..(Len(manifest.chunks) + 1)
  BY <1>1, PlanFacts DEF TypeOK
<1>5. CASE /\ state = "RUNNING" /\ at \in Slots /\ at' = at + 1 /\ UNCHANGED pc
           /\ completed' = IF Intact(at) THEN completed \cup {at} ELSE completed
  <2>1. completed' \subseteq Slots /\ at' \in 1..(Len(manifest.chunks) + 1)
    BY <1>4, <1>5
  <2>2. TypeOK'
    BY <1>1, <1>2, <1>3, <1>5, <2>1 DEF Verify, TypeOK
  <2>3. /\ \A i \in completed' : Intact(i)'
        /\ \A i \in Slots : i < at' /\ Intact(i)' => i \in completed'
    BY <1>1, <1>3, <1>4, <1>5, <2>1
  <2> QED
    BY <1>1, <1>2, <1>3, <1>5, <2>2, <2>3
    DEF DownloadInv, Untouched, Sized, VerifiedExactly, TasksNeeded, PassedIntact,
        OutputPlanned
<1>6. CASE /\ state # "RUNNING" \/ at \notin Slots
           /\ at' = 1 /\ pc' = "dispatch" /\ UNCHANGED completed
  <2>1. TypeOK'
    BY <1>1, <1>2, <1>3, <1>4, <1>6 DEF Verify, TypeOK
  <2>2. at \notin Slots => \A i \in Slots : i < at
    BY <1>4
  <2>3. /\ \A i \in completed' : Intact(i)'
        /\ state = "RUNNING" => \A i \in Slots : Intact(i)' => i \in completed'
    BY <1>1, <1>3, <1>4, <1>6, <2>2
  <2>4. \A i \in Slots : ~(i < at')
    BY <1>4, <1>6
  <2> QED
    BY <1>1, <1>2, <1>3, <1>6, <2>1, <2>3, <2>4
    DEF DownloadInv, Untouched, Sized, VerifiedExactly, TasksNeeded, PassedIntact,
        OutputPlanned
<1> QED BY <1>5, <1>6 DEF Verify

\* A slot that is passed is complete, and so intact, or has a task.
LEMMA DispatchStep == DownloadInv /\ Dispatch => DownloadInv'
<1> SUFFICES ASSUME DownloadInv, Dispatch PROVE DownloadInv'
  OBVIOUS
<1>1. /\ TypeOK /\ pc = "dispatch" /\ output = NoFile /\ temp.size = TotalSize
      /\ \A i \in completed : Intact(i)
      /\ state = "RUNNING" => \A i \in Slots : at <= i /\ Intact(i) => i \in completed
      /\ \A i \in DOMAIN jobs : i < at /\ ~Intact(i)
      /\ ~badbit => \A i \in DOMAIN temp.blocks \cap Slots :
                      i < at => Intact(i) \/ i \in DOMAIN jobs \/ i \in failed
  BY DEF DownloadInv, Dispatch, Sized, VerifiedExactly, TasksNeeded, PassedIntact,
         OutputPlanned
<1>2. UNCHANGED <<manifest, temp, output, completed, failed, badbit, state>>
  BY DEF Dispatch
<1>3. /\ Slots' = Slots /\ TotalSize' = TotalSize
      /\ \A i \in Slots : Intact(i)' <=> Intact(i)
  BY <1>1, <1>2 DEF Slots, TotalSize, Intact
<1>4. /\ Slots = 1..Len(manifest.chunks) /\ Len(manifest.chunks) \in Nat
      /\ completed \subseteq Slots /\ at \in 1..(Len(manifest.chunks) + 1)
      /\ DOMAIN jobs \subseteq Slots /\ failed \subseteq Slots
  BY <1>1, PlanFacts DEF TypeOK
<1>5. CASE /\ state = "RUNNING" /\ at \in Slots /\ at' = at + 1 /\ UNCHANGED pc
           /\ jobs' = IF at \in completed THEN jobs
                      ELSE [i \in DOMAIN jobs \cup {at} |-> IF i = at THEN 1 ELSE jobs[i]]
  <2>1. DOMAIN jobs' = IF at \in completed THEN DOMAIN jobs ELSE DOMAIN jobs \cup {at}
    BY <1>5
  <2>2. DOMAIN jobs' \subseteq Slots /\ at' \in 1..(Len(manifest.chunks) + 1)
    BY <1>4, <1>5, <2>1
  <2>3. TypeOK'
    BY <1>1, <1>2, <1>3, <1>5, <2>2 DEF Dispatch, TypeOK
  <2>4. \A i \in DOMAIN jobs' : i < at' /\ ~Intact(i)'
    BY <1>1, <1>3, <1>4, <1>5, <2>1
  <2>5. \A i \in Slots : at' <= i /\ Intact(i)' => i \in completed'
    BY <1>1, <1>2, <1>3, <1>4, <1>5
  <2>6. ~badbit => \A i \in DOMAIN temp.blocks \cap Slots :
                     i < at' => Intact(i)' \/ i \in DOMAIN jobs' \/ i \in failed
    BY <1>1, <1>3, <1>4, <1>5, <2>1
  <2> QED
    BY <1>1, <1>2, <1>3, <1>4, <1>5, <2>3, <2>4, <2>5, <2>6
    DEF DownloadInv, Untouched, Sized, VerifiedExactly, TasksNeeded, PassedIntact,
        OutputPlanned
<1>6. CASE /\ state # "RUNNING" \/ at \notin Slots
           /\ pc' = "await" /\ UNCHANGED <<jobs, at>>
  <2>1. TypeOK'
    BY <1>1, <1>2, <1>3, <1>4, <1>6 DEF Dispatch, TypeOK
  <2>2. state = "RUNNING" => \A i \in Slots : i < at
    BY <1>4, <1>6
  <2> QED
    BY <1>1, <1>2, <1>3, <1>4, <1>6, <2>1, <2>2
    DEF DownloadInv, Untouched, Sized, VerifiedExactly, TasksNeeded, PassedIntact,
        OutputPlanned
<1> QED BY <1>5, <1>6 DEF Dispatch

\* What a task of slot i owes: it leaves the other slots alone, and when it is
\* gone its own block is intact, its future has an exception, or the stream failed.
LEMMA TaskFrame ==
  ASSUME DownloadInv, pc \in {"dispatch", "await"}, NEW i \in DOMAIN jobs,
         UNCHANGED <<good, row, pc, state, manifest, output, at, completed, signals, runs>>,
         IsFile(temp'), temp'.size = temp.size, DOMAIN temp'.blocks = DOMAIN temp.blocks,
         \A j \in Slots : j # i => (Intact(j)' <=> Intact(j)),
         DOMAIN jobs' \subseteq DOMAIN jobs, DOMAIN jobs \subseteq DOMAIN jobs' \cup {i},
         failed' \in SUBSET Slots, failed \subseteq failed',
         badbit' \in BOOLEAN, badbit => badbit',
         i \in DOMAIN jobs' => ~Intact(i)',
         ~badbit' /\ i \in DOMAIN temp.blocks =>
           Intact(i)' \/ i \in DOMAIN jobs' \/ i \in failed'
  PROVE  DownloadInv'
<1>1. /\ TypeOK /\ output = NoFile /\ temp.size = TotalSize
      /\ \A j \in completed : Intact(j)
      /\ pc = "dispatch" /\ state = "RUNNING" =>
           \A j \in Slots : at <= j /\ Intact(j) => j \in completed
      /\ \A j \in DOMAIN jobs : ~Intact(j)
      /\ pc = "dispatch" => \A j \in DOMAIN jobs : j < at
  BY DEF DownloadInv, Sized, VerifiedExactly, TasksNeeded, OutputPlanned
<1>2. /\ Slots' = Slots /\ TotalSize' = TotalSize
  BY DEF Slots, TotalSize
<1>3. /\ Slots = 1..Len(manifest.chunks) /\ Len(manifest.chunks) \in Nat
      /\ completed \subseteq Slots /\ at \in 1..(Len(manifest.chunks) + 1)
      /\ DOMAIN jobs \subseteq Slots /\ failed \subseteq Slots /\ i \in Slots
  BY <1>1, PlanFacts DEF TypeOK
<1>4. TypeOK'
  BY <1>1, <1>2, <1>3 DEF TypeOK
<1>5. Sized' /\ Untouched' /\ OutputPlanned'
  BY <1>1, <1>2 DEF Sized, Untouched, OutputPlanned
<1>6. i \notin completed /\ (pc = "dispatch" => ~(at <= i))
  BY <1>1, <1>3
<1>7. VerifiedExactly'
  BY <1>1, <1>2, <1>3, <1>6 DEF VerifiedExactly
<1>8. TasksNeeded'
  BY <1>1, <1>2, <1>3 DEF TasksNeeded
<1>9. PassedIntact'
  BY <1>1, <1>2, <1>3 DEF DownloadInv, PassedIntact
<1> QED BY <1>4, <1>5, <1>7, <1>8, <1>9 DEF DownloadInv

LEMMA FetchStep ==
  ASSUME DownloadInv, NEW i \in Slots, Fetch(i)
  PROVE  DownloadInv'
<1>1. /\ TypeOK /\ temp.size = TotalSize /\ TotalSize \in Nat /\ IsFile(temp)
      /\ pc \in {"dispatch", "await"} /\ i \in DOMAIN jobs /\ ~Intact(i)
      /\ manifest.chunks[i] \in Chunk /\ failed \subseteq Slots /\ badbit \in BOOLEAN
  BY PlanFacts DEF DownloadInv, Sized, TasksNeeded, Fetch, TypeOK
<1>2. UNCHANGED <<good, row, pc, state, manifest, output, at, completed, signals, runs>>
  BY DEF Fetch
<1>3. DOMAIN Without(i) = DOMAIN jobs \ {i}
  BY DEF Without
<1>4. CASE /\ failed' = failed \cup {i} /\ jobs' = Without(i)
           /\ UNCHANGED <<temp, badbit>>
  <2>1. \A j \in Slots : Intact(j)' <=> Intact(j)
    BY <1>2, <1>4 DEF Intact
  <2> QED BY <1>1, <1>2, <1>3, <1>4, <2>1, TaskFrame
<1>5. CASE /\ jobs' = [jobs EXCEPT ![i] = @ + 1]
           /\ UNCHANGED <<temp, failed, badbit>>
  <2>1. \A j \in Slots : Intact(j)' <=> Intact(j)
    BY <1>2, <1>5 DEF Intact
  <2>2. DOMAIN jobs' = DOMAIN jobs
    BY <1>5
  <2> QED BY <1>1, <1>2, <1>5, <2>1, <2>2, TaskFrame
<1>6. CASE Store(i) /\ jobs' = Without(i) /\ UNCHANGED failed
  <2>1. CASE ~badbit /\ temp' = [temp EXCEPT !.blocks[i] = manifest.chunks[i]] /\ UNCHANGED badbit
    <3>1. /\ IsFile(temp') /\ temp'.size = temp.size
          /\ DOMAIN temp'.blocks = DOMAIN temp.blocks
          /\ i \in DOMAIN temp.blocks => temp'.blocks[i] = manifest.chunks[i]
          /\ \A j \in DOMAIN temp.blocks : j # i => temp'.blocks[j] = temp.blocks[j]
      BY <1>1, <2>1, WriteBlock
    <3>2. /\ \A j \in Slots : j # i => (Intact(j)' <=> Intact(j))
          /\ i \in DOMAIN temp.blocks => Intact(i)'
      BY <1>2, <3>1 DEF Intact
    <3> QED BY <1>1, <1>2, <1>3, <1>6, <2>1, <3>1, <3>2, TaskFrame
  <2>2. CASE ~badbit /\ temp' = [temp EXCEPT !.blocks[i] = "torn"] /\ badbit' = TRUE
    <3>1. /\ IsFile(temp') /\ temp'.size = temp.size
          /\ DOMAIN temp'.blocks = DOMAIN temp.blocks
          /\ \A j \in DOMAIN temp.blocks : j # i => temp'.blocks[j] = temp.blocks[j]
      BY <1>1, <2>2, WriteBlock
    <3>2. \A j \in Slots : j # i => (Intact(j)' <=> Intact(j))
      BY <1>2, <3>1 DEF Intact
    <3> QED BY <1>1, <1>2, <1>3, <1>6, <2>2, <3>1, <3>2, TaskFrame
  <2>3. CASE badbit /\ UNCHANGED <<temp, badbit>>
    <3>1. \A j \in Slots : Intact(j)' <=> Intact(j)
      BY <1>2, <2>3 DEF Intact
    <3> QED BY <1>1, <1>2, <1>3, <1>6, <2>3, <3>1, TaskFrame
  <2> QED BY <1>6, <2>1, <2>2, <2>3 DEF Store
<1> QED BY <1>4, <1>5, <1>6 DEF Fetch

\* main goes on, or gives up, when the futures it waits for are ready.
LEMMA AwaitStep == DownloadInv /\ (Rethrow \/ Awaited) => DownloadInv'
<1> SUFFICES ASSUME DownloadInv, Rethrow \/ Awaited PROVE DownloadInv'
  OBVIOUS
<1>1. /\ TypeOK /\ pc = "await" /\ output = NoFile /\ temp.size = TotalSize
      /\ UNCHANGED <<good, row, state, manifest, temp, output, at, completed, jobs, failed,
                     badbit, signals, runs>>
  BY DEF DownloadInv, Rethrow, Awaited, Sized, OutputPlanned
<1>2. /\ Slots' = Slots /\ TotalSize' = TotalSize
      /\ \A i \in Slots : Intact(i)' <=> Intact(i)
  BY <1>1 DEF Slots, TotalSize, Intact
<1>3. CASE Rethrow
  <2>1. pc' = "hung"
    BY <1>3 DEF Rethrow
  <2>2. TypeOK'
    BY <1>1, <1>2, <2>1 DEF TypeOK
  <2> QED
    BY <1>1, <2>1, <2>2 DEF DownloadInv, Untouched, Sized, VerifiedExactly, TasksNeeded,
                            PassedIntact, OutputPlanned
<1>4. CASE Awaited
  <2>1. /\ pc' = (IF state = "RUNNING" THEN "rename" ELSE "paused")
        /\ DOMAIN jobs = {} /\ failed = {}
    BY <1>4 DEF Awaited, Empty
  <2>2. TypeOK'
    BY <1>1, <1>2, <2>1 DEF TypeOK
  <2>3. state = "RUNNING" /\ ~badbit => \A i \in DOMAIN temp.blocks \cap Slots : Intact(i)
    BY <1>1, <2>1 DEF DownloadInv, PassedIntact
  <2> QED
    BY <1>1, <1>2, <2>1, <2>2, <2>3
    DEF DownloadInv, Untouched, Sized, VerifiedExactly, TasksNeeded, PassedIntact,
        OutputPlanned
<1> QED BY <1>3, <1>4

LEMMA RenameStep == DownloadInv /\ Rename => DownloadInv'
<1> SUFFICES ASSUME DownloadInv, Rename PROVE DownloadInv'
  OBVIOUS
<1>1. /\ TypeOK /\ pc = "rename" /\ temp.size = TotalSize
      /\ ~badbit => \A i \in DOMAIN temp.blocks \cap Slots : Intact(i)
      /\ output' = temp /\ temp' = NoFile /\ pc' = "done"
      /\ UNCHANGED <<good, row, state, manifest, at, completed, jobs, failed, badbit,
                     signals, runs>>
  BY DEF DownloadInv, Rename, Sized, PassedIntact
<1>2. Slots' = Slots /\ TotalSize' = TotalSize
  BY <1>1 DEF Slots, TotalSize
<1>3. TypeOK'
  BY <1>1, <1>2 DEF TypeOK, IsFile
<1> QED
  BY <1>1, <1>2, <1>3 DEF DownloadInv, Untouched, Sized, VerifiedExactly, TasksNeeded,
                          PassedIntact, OutputPlanned, Intact

\* A pause only takes away what the invariant asks of a transfer that is running.
LEMMA InterruptStep == DownloadInv /\ Interrupt => DownloadInv'
<1> SUFFICES ASSUME DownloadInv, Interrupt PROVE DownloadInv'
  OBVIOUS
<1>1. /\ state' = "PAUSED" /\ signals' \in 0..2
      /\ UNCHANGED <<good, row, pc, manifest, temp, output, at, completed, jobs, failed,
                     badbit, runs>>
  BY DEF DownloadInv, TypeOK, Interrupt
<1>2. TypeOK'
  BY <1>1 DEF DownloadInv, TypeOK, Slots
<1> QED
  BY <1>1, <1>2 DEF DownloadInv, Untouched, Sized, VerifiedExactly, TasksNeeded,
                    PassedIntact, OutputPlanned, Slots, TotalSize, Intact

\* What a process that dies, or another run, finds is a file of some size.
LEMMA IdleStep == DownloadInv /\ (Die \/ RunAgain) => DownloadInv'
<1> SUFFICES ASSUME DownloadInv, Die \/ RunAgain PROVE DownloadInv'
  OBVIOUS
<1>1. /\ at' = 1 /\ completed' = {} /\ jobs' = Empty /\ failed' = {} /\ badbit' = FALSE
      /\ UNCHANGED <<good, row, output>> /\ pc # "done" /\ pc' \in {"dead", "start"}
      /\ state' \in {"RUNNING", "PAUSED"} /\ signals' \in 0..2
  BY DEF DownloadInv, TypeOK, Die, RunAgain, Idle, Active
<1>2. output' = NoFile /\ DOMAIN jobs' = {} /\ TypeOK
  BY <1>1 DEF DownloadInv, OutputPlanned, Empty
<1>3. runs' \in 1..MaxRuns
  BY DownloadAssumption DEF DownloadInv, TypeOK, Die, RunAgain
<1>4. manifest' \in Plans /\ Len(manifest'.chunks) \in Nat
  <2>1. CASE UNCHANGED manifest
    BY <1>2, <2>1, PlanFacts DEF TypeOK
  <2>2. CASE manifest' = Version(0, <<>>)
    <3>1. manifest'.chunks = <<>>
      BY <2>2 DEF Version
    <3> QED BY <2>2, <3>1, NoPlan
  <2> QED BY <2>1, <2>2 DEF Die, RunAgain
<1>5. IsFile(temp')
  <2>1. CASE UNCHANGED temp
    BY <1>2, <2>1 DEF TypeOK
  <2>2. CASE temp' = AFile(0, <<>>)
    <3>1. Blocks(0) = {} /\ temp'.size = 0 /\ temp'.blocks = <<>>
      BY <2>2 DEF Blocks, AFile
    <3>2. temp'.blocks \in [Blocks(temp'.size) -> Chunk \cup {"hole", "torn"}]
      BY <3>1
    <3>3. temp' = AFile(temp'.size, temp'.blocks) /\ temp'.size \in Nat
      BY <2>2, <3>1
    <3> QED BY <3>2, <3>3 DEF IsFile
  <2>3. CASE /\ pc \in {"dispatch", "await"}
             /\ \E i \in DOMAIN jobs \cap DOMAIN temp.blocks :
                  temp' = [temp EXCEPT !.blocks[i] = "torn"]
    <3>1. PICK i \in DOMAIN jobs : temp' = [temp EXCEPT !.blocks[i] = "torn"]
      BY <2>3
    <3>2. IsFile(temp) /\ temp.size \in Nat
      BY <1>2, <2>3, PlanFacts DEF DownloadInv, Sized, TypeOK
    <3> QED BY <3>1, <3>2, WriteBlock
  <2> QED BY <2>1, <2>2, <2>3 DEF Die, RunAgain
<1>6. IsFile(output')
  BY <1>2 DEF IsFile
<1>7. TypeOK'
  <2>1. /\ good' \in Serving /\ row' \in Versions \cup {NoRow} /\ badbit' \in BOOLEAN
        /\ pc' \in {"start", "dead"}
    BY <1>1, <1>2 DEF TypeOK
  <2>2. at' \in 1..(Len(manifest'.chunks) + 1)
    BY <1>1, <1>4
  <2> QED BY <1>1, <1>2, <1>3, <1>4, <1>5, <1>6, <2>1, <2>2 DEF TypeOK
<1> QED
  BY <1>1, <1>2, <1>7 DEF DownloadInv, Untouched, Sized, VerifiedExactly, TasksNeeded,
                          PassedIntact, OutputPlanned

LEMMA NextDownload == DownloadInv /\ [Next]_vars => DownloadInv'
<1> SUFFICES ASSUME DownloadInv, [Next]_vars PROVE DownloadInv'
  OBVIOUS
<1>1. CASE ClientStep
  BY <1>1, SelectSizeStep, SelectChunksStep, AllocateStep, VerifyStep, DispatchStep,
     FetchStep, AwaitStep, RenameStep DEF ClientStep
<1>2. CASE ChangeRow \/ Interrupt \/ Die \/ RunAgain
  BY <1>2, ChangeRowStep, InterruptStep, IdleStep
<1>3. CASE UNCHANGED vars
  BY <1>3 DEF vars, DownloadInv, TypeOK, Untouched, Sized, VerifiedExactly, TasksNeeded,
              PassedIntact, OutputPlanned, Slots, TotalSize, Intact
<1> QED BY <1>1, <1>2, <1>3 DEF Next

-----------------------------------------------------------------------------
\* The strengthened invariant of a download holds over any number of runs.
THEOREM DownloadInvAlways == Spec => []DownloadInv
BY InitDownload, NextDownload, PTL DEF Spec

\* DownloadFile renames a file to the name the user asked for only when it is a
\* version of the file, complete, unless a write to the stream has failed or the
\* plan mixes two versions: for files of any size, whatever partial file was there,
\* and however often the command was paused, died and was run again before.
THEOREM OutputAlwaysWhole == Spec => []OutputWhole
<1>1. DownloadInv => OutputWhole
  <2> SUFFICES ASSUME DownloadInv, output # NoFile, ~badbit, NEW v \in Versions, manifest = v
               PROVE  output = AFile(v.size, v.chunks)
    BY DEF OutputWhole, PlanSound
  <2>1. TotalSize = v.size /\ Slots = Blocks(v.size)
    BY SoundPlan
  <2>2. /\ IsFile(output) /\ output.size = v.size
        /\ \A i \in DOMAIN output.blocks \cap Slots : output.blocks[i] = v.chunks[i]
    BY <2>1 DEF DownloadInv, TypeOK, OutputPlanned
  <2>3. DOMAIN output.blocks = Slots
    BY <2>1, <2>2, VersionFacts, FileFacts
  <2> QED BY <2>2, <2>3, SameFile
<1> QED BY <1>1, DownloadInvAlways, PTL

\* No step spoils block i of a partial file of version v once it holds chunk i.
LEMMA BlockKept ==
  ASSUME DownloadInv, [Next]_vars, NEW v \in Versions, NEW i \in DOMAIN v.chunks,
         temp.size = v.size, temp.blocks[i] = v.chunks[i],
         pc \in {"allocate", "dispatch", "await"} => manifest = v
  PROVE  temp' = NoFile \/ temp'.blocks[i] = v.chunks[i]
<1>1. /\ IsFile(temp) /\ temp.size \in Nat /\ DOMAIN temp.blocks = Blocks(v.size)
      /\ i \in DOMAIN temp.blocks
  BY VersionFacts, FileFacts DEF DownloadInv, TypeOK
<1>2. ASSUME manifest = v PROVE Resumable /\ Intact(i)
  BY <1>1, <1>2, SoundPlan DEF Resumable, Intact
<1>3. ASSUME pc \in {"dispatch", "await"}, NEW j \in DOMAIN jobs, NEW x \in Chunk \cup {"torn"},
             temp' = [temp EXCEPT !.blocks[j] = x]
      PROVE  temp'.blocks[i] = temp.blocks[i]
  <2>1. j # i
    BY <1>2, <1>3 DEF DownloadInv, TasksNeeded
  <2> QED BY <1>1, <1>3, <2>1, WriteBlock
<1>4. CASE Allocate
  <2>1. Resumable
    BY <1>2, <1>4 DEF Allocate
  <2> QED BY <1>4, <2>1 DEF Allocate
<1>5. CASE \E j \in Slots : Fetch(j)
  <2>1. PICK j \in Slots : Fetch(j)
    BY <1>5
  <2>2. /\ pc \in {"dispatch", "await"} /\ j \in DOMAIN jobs
        /\ manifest.chunks[j] \in Chunk \cup {"torn"} /\ "torn" \in Chunk \cup {"torn"}
    BY <2>1, PlanFacts DEF Fetch, DownloadInv
  <2>3. \/ UNCHANGED temp
        \/ temp' = [temp EXCEPT !.blocks[j] = manifest.chunks[j]]
        \/ temp' = [temp EXCEPT !.blocks[j] = "torn"]
    BY <2>1 DEF Fetch, Store
  <2> QED BY <1>3, <2>2, <2>3
<1>6. CASE Die
  <2>1. CASE UNCHANGED temp
    BY <2>1
  <2>2. CASE pc = "allocate" /\ ~Resumable
    BY <1>2, <2>2
  <2>3. CASE /\ pc \in {"dispatch", "await"}
             /\ \E j \in DOMAIN jobs \cap DOMAIN temp.blocks :
                  temp' = [temp EXCEPT !.blocks[j] = "torn"]
    BY <1>3, <2>3
  <2> QED BY <1>6, <2>1, <2>2, <2>3 DEF Die
<1>7. CASE Rename
  BY <1>7 DEF Rename
<1>8. CASE \/ SelectSize \/ SelectChunks \/ Verify \/ Dispatch \/ Rethrow \/ Awaited
           \/ ChangeRow \/ Interrupt \/ RunAgain \/ UNCHANGED vars
  BY <1>8 DEF SelectSize, SelectChunks, Verify, Dispatch, Rethrow, Awaited, ChangeRow,
              Interrupt, RunAgain, vars
<1> QED BY <1>4, <1>5, <1>6, <1>7, <1>8 DEF Next, ClientStep

\* Resuming never loses what an earlier run has downloaded: Allocate keeps the
\* partial file, Verify recognises each block of it and Dispatch asks for none of
\* them again, for any number of runs, pauses and deaths, and failed streams.
THEOREM ProgressAlwaysKept == Spec => ProgressKept
<1>1. DownloadInv /\ [Next]_vars =>
        [\A v \in Versions : \A i \in DOMAIN v.chunks :
           /\ temp.size = v.size /\ temp.blocks[i] = v.chunks[i]
           /\ pc \in {"allocate", "dispatch", "await"} => manifest = v
           => temp' = NoFile \/ temp'.blocks[i] = v.chunks[i]]_vars
  BY BlockKept
<1> QED BY <1>1, DownloadInvAlways, PTL DEF Spec, ProgressKept

-----------------------------------------------------------------------------
(* Failover.                                                               *)

\* The replica with number k of slot i would not do.
Useless(i, k) ==
  \/ <<manifest.chunks[i], Replicas(i)[k]>> \notin good
  \/ SizeOf[manifest.chunks[i]] # Slice(i)

\* A task has asked every replica before the one it asks next, and in vain.
AskedInVain ==
  \A i \in DOMAIN jobs :
    /\ jobs[i] \in Nat \ {0}
    /\ \A k \in DOMAIN Replicas(i) : k < jobs[i] => Useless(i, k)

FailoverInv == AskedInVain /\ FailsOnlyLost

LEMMA ReplicaFacts ==
  ASSUME TypeOK, NEW i \in Slots
  PROVE  Len(Replicas(i)) \in Nat /\ DOMAIN Replicas(i) = 1..Len(Replicas(i))
<1>1. NodesOf[manifest.chunks[i]] \in Seq(STRING)
  BY PlanFacts, DownloadAssumption
<1> QED BY <1>1 DEF Replicas

\* What a replica is good for depends on the plan and on the replicas alone.
LEMMA SamePlanSameLoss ==
  ASSUME UNCHANGED <<good, manifest>>
  PROVE  \A i : /\ Lost(i)' <=> Lost(i)
                /\ Replicas(i)' = Replicas(i)
                /\ \A k : Useless(i, k)' <=> Useless(i, k)
BY DEF Lost, Useless, Replicas, Slice

\* When there are no tasks and no results yet, nothing has been asked in vain.
LEMMA NothingAsked ==
  ASSUME jobs = Empty, failed = {}
  PROVE  FailoverInv
BY DEF FailoverInv, AskedInVain, FailsOnlyLost, Empty

\* A step that keeps the tasks, and adds at most some that start with the first
\* replica, keeps what is known of the others.
LEMMA TasksStart ==
  ASSUME FailoverInv, UNCHANGED <<good, manifest, failed>>,
         \A i \in DOMAIN jobs' : (i \in DOMAIN jobs /\ jobs'[i] = jobs[i]) \/ jobs'[i] = 1,
         TypeOK, DOMAIN jobs' \subseteq Slots
  PROVE  FailoverInv'
<1>1. FailsOnlyLost'
  BY SamePlanSameLoss DEF FailoverInv, FailsOnlyLost
<1>2. ASSUME NEW i \in DOMAIN jobs'
      PROVE  /\ jobs'[i] \in Nat \ {0}
             /\ \A k \in DOMAIN Replicas(i)' : k < jobs'[i] => Useless(i, k)'
  <2>1. CASE i \in DOMAIN jobs /\ jobs'[i] = jobs[i]
    BY <2>1, SamePlanSameLoss DEF FailoverInv, AskedInVain
  <2>2. CASE jobs'[i] = 1
    <3>1. Replicas(i)' = Replicas(i) /\ \A k \in DOMAIN Replicas(i) : ~(k < 1)
      BY <1>2, SamePlanSameLoss, ReplicaFacts
    <3> QED BY <2>2, <3>1
  <2> QED BY <1>2, <2>1, <2>2
<1> QED BY <1>1, <1>2 DEF FailoverInv, AskedInVain

\* A task that fails has asked all of the replicas; one that goes on has asked
\* one more in vain.
LEMMA FetchFailsOver ==
  ASSUME DownloadInv, FailoverInv, NEW i \in Slots, Fetch(i)
  PROVE  FailoverInv'
<1>1. /\ TypeOK /\ i \in DOMAIN jobs /\ UNCHANGED <<good, manifest>>
      /\ DOMAIN jobs \subseteq Slots
      /\ DOMAIN Without(i) = DOMAIN jobs \ {i}
      /\ \A j \in DOMAIN jobs \ {i} : Without(i)[j] = jobs[j]
  BY DEF DownloadInv, TypeOK, Fetch, Without
<1>2. /\ jobs[i] \in Nat \ {0}
      /\ \A k \in DOMAIN Replicas(i) : k < jobs[i] => Useless(i, k)
      /\ Len(Replicas(i)) \in Nat /\ DOMAIN Replicas(i) = 1..Len(Replicas(i))
  BY <1>1, ReplicaFacts DEF FailoverInv, AskedInVain
<1>3. CASE Exhausted(i) /\ failed' = failed \cup {i} /\ jobs' = Without(i)
  <2>1. \A k \in DOMAIN Replicas(i) : Useless(i, k)
    BY <1>2, <1>3 DEF Exhausted
  <2>2. Lost(i)
    BY <2>1 DEF Lost, Useless
  <2>3. FailsOnlyLost'
    BY <1>1, <1>3, <2>2, SamePlanSameLoss DEF FailoverInv, FailsOnlyLost
  <2>4. AskedInVain'
    BY <1>1, <1>3, SamePlanSameLoss DEF FailoverInv, AskedInVain
  <2> QED BY <2>3, <2>4 DEF FailoverInv
<1>4. CASE jobs' = Without(i) /\ UNCHANGED failed
  <2>1. \A j \in DOMAIN jobs' : j \in DOMAIN jobs /\ jobs'[j] = jobs[j]
    BY <1>1, <1>4
  <2> QED BY <1>1, <1>4, <2>1, TasksStart
<1>5. CASE ~Exhausted(i) /\ ~Serves(i) /\ jobs' = [jobs EXCEPT ![i] = @ + 1] /\ UNCHANGED failed
  <2>1. FailsOnlyLost'
    BY <1>1, <1>5, SamePlanSameLoss DEF FailoverInv, FailsOnlyLost
  <2>2. Useless(i, jobs[i])
    BY <1>5 DEF Serves, Useless
  <2>3. \A k \in DOMAIN Replicas(i) : k < jobs[i] + 1 => Useless(i, k)
    BY <1>2, <2>2
  <2>4. /\ DOMAIN jobs' = DOMAIN jobs /\ jobs'[i] = jobs[i] + 1
        /\ \A j \in DOMAIN jobs : j # i => jobs'[j] = jobs[j]
    BY <1>1, <1>5
  <2>5. ASSUME NEW j \in DOMAIN jobs'
        PROVE  /\ jobs'[j] \in Nat \ {0}
               /\ \A k \in DOMAIN Replicas(j)' : k < jobs'[j] => Useless(j, k)'
    <3>1. CASE j = i
      BY <1>1, <1>2, <2>3, <2>4, <3>1, SamePlanSameLoss
    <3>2. CASE j # i
      BY <1>1, <2>4, <2>5, <3>2, SamePlanSameLoss DEF FailoverInv, AskedInVain
    <3> QED BY <3>1, <3>2
  <2> QED BY <2>1, <2>5 DEF FailoverInv, AskedInVain
<1> QED BY <1>3, <1>4, <1>5 DEF Fetch

LEMMA NextFailover == DownloadInv /\ FailoverInv /\ [Next]_vars => FailoverInv'
<1> SUFFICES ASSUME DownloadInv, FailoverInv, [Next]_vars PROVE FailoverInv'
  OBVIOUS
<1>1. TypeOK /\ DOMAIN jobs \subseteq Slots
  BY DEF DownloadInv, TypeOK
<1>2. CASE SelectSize \/ SelectChunks
  <2>1. jobs' = Empty /\ failed' = {}
    BY <1>2 DEF SelectSize, SelectChunks, DownloadInv, Untouched
  <2> QED BY <2>1 DEF FailoverInv, AskedInVain, FailsOnlyLost, Empty
<1>3. CASE \E i \in Slots : Fetch(i)
  BY <1>3, FetchFailsOver
<1>4. CASE Dispatch
  <2>1. UNCHANGED <<good, manifest, failed>>
    BY <1>4 DEF Dispatch
  <2>2. \A i \in DOMAIN jobs' : (i \in DOMAIN jobs /\ jobs'[i] = jobs[i]) \/ jobs'[i] = 1
    BY <1>4 DEF Dispatch
  <2>3. DOMAIN jobs' \subseteq Slots
    BY <1>1, <1>4 DEF Dispatch
  <2> QED BY <1>1, <2>1, <2>2, <2>3, TasksStart
<1>5. CASE Die \/ RunAgain
  <2>1. jobs' = Empty /\ failed' = {}
    BY <1>5 DEF Die, RunAgain, Idle
  <2> QED BY <2>1 DEF FailoverInv, AskedInVain, FailsOnlyLost, Empty
<1>6. CASE \/ Allocate \/ Verify \/ Rethrow \/ Awaited \/ Rename \/ ChangeRow \/ Interrupt
           \/ UNCHANGED vars
  <2>1. UNCHANGED <<good, manifest, failed, jobs>>
    BY <1>6 DEF Allocate, Verify, Rethrow, Awaited, Rename, ChangeRow, Interrupt, vars
  <2> QED BY <1>1, <2>1, TasksStart
<1> QED BY <1>2, <1>3, <1>4, <1>5, <1>6 DEF Next, ClientStep

\* DownloadChunkFromReplica gives up on a chunk only when none of its replicas has
\* it undamaged and with the size of its slot: for any number of replicas, of
\* which any may be damaged, and whatever the other threads of the pool do.
THEOREM FailsOnlyWhenLost == Spec => []FailsOnlyLost
<1>1. Init => FailoverInv
  BY NothingAsked DEF Init
<1>2. FailoverInv => FailsOnlyLost
  BY DEF FailoverInv
<1> QED BY <1>1, <1>2, NextFailover, DownloadInvAlways, PTL DEF Spec
=============================================================================
