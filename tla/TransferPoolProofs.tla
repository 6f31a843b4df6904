------------------------- MODULE TransferPoolProofs -------------------------
(***************************************************************************)
(* The pool implements ChunkTransfer, and its permits are conserved: for   *)
(* every number of chunks, replicas, threads and permits, whatever tasks   *)
(* throw and whenever the user interrupts.                                 *)
(***************************************************************************)
EXTENDS TransferPool, FiniteSetTheorems, TLAPS

-----------------------------------------------------------------------------
(* The inductive invariant.                                                *)

Distinct(s) == \A k, m \in DOMAIN s : s[k] = s[m] => k = m

\* The calling thread has made a task of replica r.
Enqueued(r) ==
  \/ r[1] < next
  \/ r[1] = next /\ pc = "enqueue" /\ \E k \in DOMAIN Nodes[next] : k < node /\ Nodes[next][k] = r[2]

Busy(t) == stage[t] # "idle"

\* A task is in the queue or with one thread, and not both, until it is answered.
TasksSane ==
  /\ Distinct(jobs)
  /\ \A r \in Members(jobs) : r \in Replica /\ Enqueued(r) /\ promise[r] = "none"
  /\ \A t \in Thread : Busy(t) =>
       /\ task[t] \in Replica /\ Enqueued(task[t]) /\ promise[task[t]] = "none"
       /\ task[t] \notin Members(jobs)
  /\ \A t, u \in Thread : t # u /\ Busy(t) /\ Busy(u) => task[t] # task[u]

\* An answer that the calling thread has taken was TRUE, or it knows better.
FuturesSane ==
  /\ \A r \in Members(futures) : r \in Replica /\ Enqueued(r)
  /\ \A r \in Replica : ~Enqueued(r) => promise[r] = "none"
  /\ \A r \in Replica : Enqueued(r) /\ r \notin Members(futures) =>
       \/ promise[r] = "true"
       \/ promise[r] = "false" /\ ~ok
       \/ promise[r] = "exception" /\ pc = "unwound"

\* TRUE is answered only for a replica that was acknowledged.
AnswersSane ==
  /\ \A t \in Thread : \/ stage[t] = "log"
                       \/ stage[t] \in {"release", "resolve"} /\ result[t] = "true"
                       => task[t] \in acked
  /\ \A r \in Replica : promise[r] = "true" => r \in acked

\* Thread t is about to note replica r, or has thrown instead.
Noting(t, r) ==
  /\ task[t] = r
  /\ stage[t] = "log" \/ (stage[t] \in {"release", "resolve"} /\ result[t] = "exception")

\* An acknowledged replica is noted, about to be, or there was an exception.
LogSane ==
  /\ log \cup Members(pending) \subseteq Caller!Sent(acked)
  /\ \A r \in acked : \/ r[1] \in log \cup Members(pending)
                      \/ promise[r] = "exception"
                      \/ \E t \in Thread : Noting(t, r)

\* Where the calling thread is.
MainSane ==
  /\ node >= 1
  /\ pc \in {"drain", "acquire", "enqueue"} => next <= Chunks
  /\ pc \in {"collect", "shutdown"} /\ ok /\ state = "RUNNING" => next = Chunks + 1
  /\ pc = "shutdown" => futures = <<>>
  /\ answer = "none" <=> pc # "returned"

\* The replicas of chunk i whose tasks own its permit, and the calling thread's
\* own share of it.
Owning == {t \in Thread : stage[t] \in {"send", "log", "release"}}
Owners(i) == {r \in Members(jobs) \cup {task[t] : t \in Owning} : r[1] = i}

Share(i) == IF pc = "enqueue" /\ next = i THEN 1 ELSE 0

PermitsSane ==
  /\ \A i \in Index : refs[i] = Cardinality(Owners(i)) + Share(i)
  /\ PermitsConserved

PoolInv ==
  TypeOK /\ TasksSane /\ FuturesSane /\ AnswersSane /\ LogSane /\ MainSane /\ PermitsSane

-----------------------------------------------------------------------------
(* Sequences, replicas and permits.                                        *)

\* Taking the first element of a queue.
LEMMA TailMembers ==
  ASSUME NEW S, NEW q \in Seq(S), q # <<>>
  PROVE  /\ Head(q) \in Members(q) /\ Head(q) \in S
         /\ Members(q) = Members(Tail(q)) \cup {Head(q)}
         /\ Distinct(q) => Distinct(Tail(q)) /\ Head(q) \notin Members(Tail(q))
<1>1. /\ q[1] = Head(q) /\ 1 \in DOMAIN q
      /\ \A k \in DOMAIN Tail(q) : /\ k + 1 \in DOMAIN q /\ k + 1 # 1
                                   /\ Tail(q)[k] = q[k + 1]
  OBVIOUS
<1>2. \A k \in DOMAIN q : k = 1 \/ (k - 1 \in DOMAIN Tail(q) /\ Tail(q)[k - 1] = q[k])
  OBVIOUS
<1>3. Members(q) = Members(Tail(q)) \cup {Head(q)} /\ Head(q) \in Members(q) /\ Head(q) \in S
  <2>1. Head(q) \in Members(q) /\ Head(q) \in S
    BY <1>1 DEF Members
  <2>2. \A x \in Members(Tail(q)) : x \in Members(q)
    BY <1>1 DEF Members
  <2>3. ASSUME NEW x \in Members(q) PROVE x \in Members(Tail(q)) \/ x = Head(q)
    <3>1. PICK k \in DOMAIN q : x = q[k]
      BY DEF Members
    <3>2. CASE k = 1
      BY <1>1, <3>1, <3>2
    <3>3. CASE k - 1 \in DOMAIN Tail(q) /\ Tail(q)[k - 1] = q[k]
      BY <3>1, <3>3 DEF Members
    <3> QED BY <1>2, <3>2, <3>3
  <2> QED BY <2>1, <2>2, <2>3
<1>4. Distinct(q) => Head(q) \notin Members(Tail(q))
  BY <1>1 DEF Members, Distinct
<1>5. ASSUME Distinct(q), NEW k \in DOMAIN Tail(q), NEW m \in DOMAIN Tail(q), Tail(q)[k] = Tail(q)[m]
      PROVE  k = m
  <2>1. k + 1 = m + 1
    BY <1>1, <1>5 DEF Distinct
  <2>2. k \in Nat /\ m \in Nat
    OBVIOUS
  <2> QED BY <2>1, <2>2
<1> QED BY <1>3, <1>4, <1>5 DEF Distinct

\* Adding an element to a queue.
LEMMA AppendMembers ==
  ASSUME NEW S, NEW q \in Seq(S), NEW x \in S
  PROVE  /\ Append(q, x) \in Seq(S)
         /\ Members(Append(q, x)) = Members(q) \cup {x}
         /\ Distinct(q) /\ x \notin Members(q) => Distinct(Append(q, x))
<1>1. /\ DOMAIN Append(q, x) = DOMAIN q \cup {Len(q) + 1}
      /\ \A k \in DOMAIN q : Append(q, x)[k] = q[k]
      /\ Append(q, x)[Len(q) + 1] = x
  OBVIOUS
<1> QED BY <1>1 DEF Members, Distinct

\* The parts of a replica.
LEMMA ReplicaParts ==
  ASSUME NEW r \in Replica
  PROVE  /\ r[1] \in Index /\ r = <<r[1], r[2]>>
         /\ \E k \in DOMAIN Nodes[r[1]] : Nodes[r[1]][k] = r[2]
BY DEF Replica

\* The owners of a permit are finitely many.
LEMMA OwnersFinite ==
  ASSUME TypeOK, NEW i
  PROVE  IsFiniteSet(Owners(i)) /\ Cardinality(Owners(i)) \in Nat
<1>1. IsFiniteSet(Members(jobs))
  <2>1. IsFiniteSet(DOMAIN jobs)
    BY FS_Interval DEF TypeOK
  <2>2. [k \in DOMAIN jobs |-> jobs[k]] \in Surjection(DOMAIN jobs, Members(jobs))
    BY DEF Surjection, Members
  <2> QED BY <2>1, <2>2, FS_Surjection
<1>2. IsFiniteSet({task[t] : t \in Owning})
  <2>1. IsFiniteSet(Owning)
    BY PoolAssumption, FS_Subset DEF Owning
  <2>2. [t \in Owning |-> task[t]] \in Surjection(Owning, {task[t] : t \in Owning})
    BY DEF Surjection
  <2> QED BY <2>1, <2>2, FS_Surjection
<1>3. IsFiniteSet(Members(jobs) \cup {task[t] : t \in Owning})
  BY <1>1, <1>2, FS_Union
<1>4. IsFiniteSet(Owners(i))
  BY <1>3, FS_Subset DEF Owners
<1> QED BY <1>4, FS_CardinalityType

\* The chunks that have a permit are finitely many, and it takes one permit each.
LEMMA InUseFinite ==
  ASSUME NEW r
  PROVE  /\ IsFiniteSet({i \in Index : r[i] > 0})
         /\ Cardinality({i \in Index : r[i] > 0}) \in Nat
<1>1. IsFiniteSet(Index)
  BY PoolAssumption, FS_Interval DEF Index
<1>2. IsFiniteSet({i \in Index : r[i] > 0})
  BY <1>1, FS_Subset
<1> QED BY <1>2, FS_CardinalityType

\* The last owner, and only the last, gives the permit back.
LEMMA DropPermitSane ==
  ASSUME TypeOK, PermitsConserved, NEW i \in Index, refs[i] >= 1, DropPermit(i)
  PROVE  /\ refs' \in [Index -> Nat] /\ permits' \in 0..Permits
         /\ \A j \in Index : refs'[j] = IF j = i THEN refs[i] - 1 ELSE refs[j]
         /\ PermitsConserved'
<1> DEFINE inUse == {j \in Index : refs[j] > 0}
           after == {j \in Index : refs'[j] > 0}
<1>1. refs' \in [Index -> Nat] /\ \A j \in Index : refs'[j] = IF j = i THEN refs[i] - 1 ELSE refs[j]
  BY DEF DropPermit, TypeOK
<1>2. IsFiniteSet(inUse) /\ Cardinality(inUse) \in Nat /\ i \in inUse
      /\ IsFiniteSet(after) /\ Cardinality(after) \in Nat
  <2>1. i \in inUse
    BY DEF TypeOK
  <2> QED BY <2>1, InUseFinite
<1>3. permits + Cardinality(inUse) = Permits /\ permits \in Nat /\ Permits \in Nat
  BY PoolAssumption DEF PermitsConserved, TypeOK
<1>4. CASE refs[i] = 1
  <2>1. after = inUse \ {i}
    BY <1>1, <1>4
  <2>2. Cardinality(after) = Cardinality(inUse) - 1
    BY <2>1, <1>2, FS_RemoveElement
  <2>3. permits' = permits + 1
    BY <1>4 DEF DropPermit
  <2>4. permits' + Cardinality(after) = Permits
    BY <2>2, <2>3, <1>2, <1>3
  <2>5. permits' \in 0..Permits
    BY <2>3, <2>4, <1>2, <1>3
  <2> QED BY <1>1, <2>4, <2>5 DEF PermitsConserved
<1>5. CASE refs[i] # 1
  <2>1. after = inUse
    <3>1. \A j \in Index : refs[j] \in Nat
      BY DEF TypeOK
    <3> QED BY <3>1, <1>1, <1>5
  <2>2. permits' = permits
    BY <1>5 DEF DropPermit
  <2> QED BY <1>1, <1>3, <2>1, <2>2 DEF PermitsConserved, TypeOK
<1> QED BY <1>4, <1>5

\* Steps that neither take nor drop a share of a permit.
LEMMA PermitsFrame ==
  ASSUME PermitsSane, UNCHANGED <<permits, refs>>,
         \A i \in Index : Owners(i)' = Owners(i) /\ Share(i)' = Share(i)
  PROVE  PermitsSane'
BY DEF PermitsSane, PermitsConserved

\* Steps of the calling thread outside of the loop over the nodes of a chunk.
LEMMA MainFrame ==
  ASSUME PoolInv, UNCHANGED <<semVars, jobs, task, stage, next>>, pc # "enqueue", pc' # "enqueue"
  PROVE  PermitsSane'
<1>1. \A i \in Index : Owners(i)' = Owners(i) /\ Share(i)' = Share(i)
  BY DEF Owners, Owning, Share, Members
<1> QED BY <1>1, PermitsFrame DEF PoolInv, semVars

\* Steps of a thread that leave its task and the permit's shares alone.
LEMMA ThreadFrame ==
  ASSUME PoolInv, UNCHANGED <<semVars, pc, next>>, \A i : Owners(i)' = Owners(i)
  PROVE  PermitsSane'
<1>1. \A i \in Index : Share(i)' = Share(i)
  BY DEF Share
<1> QED BY <1>1, PermitsFrame DEF PoolInv, semVars

-----------------------------------------------------------------------------
(* Every step preserves the invariant: one lemma per action, one step per  *)
(* conjunct.                                                               *)

\* The invariant at the beginning.
LEMMA InitPoolInv == Init => PoolInv
<1> SUFFICES ASSUME Init PROVE PoolInv
  OBVIOUS
<1>1. TypeOK
  BY PoolAssumption DEF Init, TypeOK
<1>2. jobs = <<>> /\ futures = <<>> /\ Members(jobs) = {} /\ Members(futures) = {} /\ Members(pending) = {}
  BY DEF Init, Members
<1>3. \A r \in Replica : ~Enqueued(r)
  BY ReplicaParts DEF Init, Enqueued, Index
<1>4. TasksSane /\ FuturesSane /\ AnswersSane /\ MainSane
  BY <1>1, <1>2, <1>3, PoolAssumption
   DEF Init, TasksSane, FuturesSane, AnswersSane, MainSane, Distinct, Busy
<1>5. LogSane
  BY <1>2 DEF Init, LogSane
<1>6. PermitsSane
  <2>1. \A i \in Index : Owners(i) = {} /\ Share(i) = 0
    BY <1>2 DEF Owners, Owning, Share, Init
  <2>2. \A i \in Index : refs[i] = 0
    BY DEF Init
  <2>3. {i \in Index : refs[i] > 0} = {}
    BY <2>2
  <2>4. Cardinality({i \in Index : refs[i] > 0}) = 0
    BY <2>3, FS_EmptySet
  <2>5. PermitsConserved
    BY <2>4, PoolAssumption DEF PermitsConserved, Init
  <2> QED BY <2>1, <2>2, <2>5, FS_EmptySet DEF PermitsSane
<1> QED BY <1>1, <1>4, <1>5, <1>6 DEF PoolInv

USE DEF mainVars, semVars, poolVars, dataVars

\* The file is opened, or an exception leaves Upload.
LEMMA OpenStreamKeeps ==
  ASSUME PoolInv, OpenStream
  PROVE  PoolInv'
<1>1. TypeOK'
  BY DEF OpenStream, PoolInv, TypeOK
<1>2. TasksSane'
  BY DEF OpenStream, PoolInv, TypeOK, TasksSane, Busy, Enqueued
<1>3. FuturesSane'
  BY DEF OpenStream, PoolInv, TypeOK, FuturesSane, Enqueued
<1>4. AnswersSane'
  BY DEF OpenStream, PoolInv, TypeOK, AnswersSane
<1>5. LogSane'
  BY DEF OpenStream, PoolInv, TypeOK, LogSane, Noting
<1>6. MainSane'
  BY PoolAssumption DEF OpenStream, PoolInv, TypeOK, MainSane, Index
<1>7. PermitsSane'
  BY MainFrame DEF OpenStream, PoolInv, TypeOK, PermitsSane
<1> QED BY <1>1, <1>2, <1>3, <1>4, <1>5, <1>6, <1>7 DEF PoolInv

\* The loop goes on or ends.
LEMMA CheckStateKeeps ==
  ASSUME PoolInv, CheckState
  PROVE  PoolInv'
<1>1. TypeOK'
  BY DEF CheckState, PoolInv, TypeOK
<1>2. TasksSane'
  BY DEF CheckState, PoolInv, TypeOK, TasksSane, Busy, Enqueued
<1>3. FuturesSane'
  BY DEF CheckState, PoolInv, TypeOK, FuturesSane, Enqueued
<1>4. AnswersSane'
  BY DEF CheckState, PoolInv, TypeOK, AnswersSane
<1>5. LogSane'
  BY DEF CheckState, PoolInv, TypeOK, LogSane, Noting
<1>6. MainSane'
  BY PoolAssumption DEF CheckState, PoolInv, TypeOK, MainSane, Index
<1>7. PermitsSane'
  BY MainFrame DEF CheckState, PoolInv, TypeOK, PermitsSane
<1> QED BY <1>1, <1>2, <1>3, <1>4, <1>5, <1>6, <1>7 DEF PoolInv

\* An answer is taken, which ends Upload if it is an exception.
LEMMA TakeReadyKeeps ==
  ASSUME PoolInv, TakeReady
  PROVE  PoolInv'
<1>1. Members(futures) = Members(futures') \cup {Head(futures)} /\ futures' \in Seq(Replica)
      /\ promise[Head(futures)] # "none" /\ Head(futures) \in Replica
  BY TailMembers DEF TakeReady, Take, Ready, PoolInv, TypeOK
<1>2. TypeOK'
  BY <1>1 DEF TakeReady, Take, Ready, PoolInv, TypeOK
<1>3. TasksSane'
  BY DEF TakeReady, Take, Ready, PoolInv, TypeOK, TasksSane, Busy, Enqueued
<1>4. FuturesSane'
  BY <1>1 DEF TakeReady, Take, Ready, PoolInv, TypeOK, FuturesSane, Enqueued
<1>5. AnswersSane'
  BY DEF TakeReady, Take, Ready, PoolInv, TypeOK, AnswersSane
<1>6. LogSane'
  BY DEF TakeReady, Take, Ready, PoolInv, TypeOK, LogSane, Noting
<1>7. MainSane'
  BY PoolAssumption DEF TakeReady, Take, Ready, PoolInv, TypeOK, MainSane, Index
<1>8. PermitsSane'
  BY MainFrame DEF TakeReady, Take, Ready, PoolInv, TypeOK, PermitsSane
<1> QED BY <1>2, <1>3, <1>4, <1>5, <1>6, <1>7, <1>8 DEF PoolInv

\* So is it in the second loop.
LEMMA TakeRestKeeps ==
  ASSUME PoolInv, TakeRest
  PROVE  PoolInv'
<1>1. Members(futures) = Members(futures') \cup {Head(futures)} /\ futures' \in Seq(Replica)
      /\ promise[Head(futures)] # "none" /\ Head(futures) \in Replica
  BY TailMembers DEF TakeRest, Take, Ready, PoolInv, TypeOK
<1>2. TypeOK'
  BY <1>1 DEF TakeRest, Take, Ready, PoolInv, TypeOK
<1>3. TasksSane'
  BY DEF TakeRest, Take, Ready, PoolInv, TypeOK, TasksSane, Busy, Enqueued
<1>4. FuturesSane'
  BY <1>1 DEF TakeRest, Take, Ready, PoolInv, TypeOK, FuturesSane, Enqueued
<1>5. AnswersSane'
  BY DEF TakeRest, Take, Ready, PoolInv, TypeOK, AnswersSane
<1>6. LogSane'
  BY DEF TakeRest, Take, Ready, PoolInv, TypeOK, LogSane, Noting
<1>7. MainSane'
  BY PoolAssumption DEF TakeRest, Take, Ready, PoolInv, TypeOK, MainSane, Index
<1>8. PermitsSane'
  BY MainFrame DEF TakeRest, Take, Ready, PoolInv, TypeOK, PermitsSane
<1> QED BY <1>2, <1>3, <1>4, <1>5, <1>6, <1>7, <1>8 DEF PoolInv

\* The answers that are there have been taken.
LEMMA ProceedKeeps ==
  ASSUME PoolInv, Proceed
  PROVE  PoolInv'
<1>1. TypeOK'
  BY DEF Proceed, PoolInv, TypeOK
<1>2. TasksSane'
  BY DEF Proceed, PoolInv, TypeOK, TasksSane, Busy, Enqueued
<1>3. FuturesSane'
  BY DEF Proceed, PoolInv, TypeOK, FuturesSane, Enqueued
<1>4. AnswersSane'
  BY DEF Proceed, PoolInv, TypeOK, AnswersSane
<1>5. LogSane'
  BY DEF Proceed, PoolInv, TypeOK, LogSane, Noting
<1>6. MainSane'
  BY PoolAssumption DEF Proceed, PoolInv, TypeOK, MainSane, Index
<1>7. PermitsSane'
  BY MainFrame DEF Proceed, PoolInv, TypeOK, PermitsSane
<1> QED BY <1>1, <1>2, <1>3, <1>4, <1>5, <1>6, <1>7 DEF PoolInv

\* A permit is taken for a chunk that has no task yet.
LEMMA AcquireKeeps ==
  ASSUME PoolInv, Acquire
  PROVE  PoolInv'
<1>1. next \in Index
  BY PoolAssumption DEF Acquire, PoolInv, MainSane, TypeOK, Index
<1>2. \A r \in Replica : Enqueued(r)' <=> Enqueued(r)
  <2>1. \A k \in DOMAIN Nodes[next] : ~(k < 1)
    BY <1>1, PoolAssumption DEF Index
  <2> QED BY <2>1 DEF Acquire, Enqueued
<1>3. TypeOK'
  BY <1>1, PoolAssumption DEF Acquire, PoolInv, TypeOK
<1>4. TasksSane'
  BY <1>2 DEF Acquire, PoolInv, TasksSane, Busy, poolVars
<1>5. FuturesSane'
  BY <1>2 DEF Acquire, PoolInv, FuturesSane, poolVars
<1>6. AnswersSane'
  BY DEF Acquire, PoolInv, TypeOK, AnswersSane
<1>7. LogSane'
  BY DEF Acquire, PoolInv, TypeOK, LogSane, Noting
<1>8. MainSane'
  BY PoolAssumption DEF Acquire, PoolInv, TypeOK, MainSane, Index
<1>9. PermitsSane'
  <2>1. \A i \in Index : Owners(i)' = Owners(i)
    BY DEF Acquire, Owners, Owning, Members, poolVars
  <2>2. Owners(next) = {}
    <3>1. \A r \in Members(jobs) \cup {task[t] : t \in Owning} : r \in Replica /\ Enqueued(r)
      BY DEF PoolInv, TasksSane, Busy, Owning
    <3>2. \A r \in Replica : Enqueued(r) => r[1] # next
      BY <1>1, ReplicaParts DEF Acquire, Enqueued, Index
    <3> QED BY <3>1, <3>2 DEF Owners
  <2>3. refs[next] = 0
    BY <1>1, <2>2, FS_EmptySet DEF Acquire, PoolInv, PermitsSane, Share
  <2>4. \A i \in Index : refs'[i] = IF i = next THEN 1 ELSE refs[i]
    BY DEF Acquire, PoolInv, TypeOK
  <2>5. \A i \in Index : refs'[i] = Cardinality(Owners(i)') + Share(i)'
    BY <1>1, <2>1, <2>2, <2>3, <2>4, FS_EmptySet DEF Acquire, PoolInv, PermitsSane, Share
  <2>6. {i \in Index : refs'[i] > 0} = {i \in Index : refs[i] > 0} \cup {next}
    BY <1>1, <2>4
  <2>7. Cardinality({i \in Index : refs'[i] > 0}) = Cardinality({i \in Index : refs[i] > 0}) + 1
    <3> DEFINE inUse == {i \in Index : refs[i] > 0}
    <3>1. IsFiniteSet(inUse) /\ next \notin inUse
      BY <2>3, InUseFinite
    <3> HIDE DEF inUse
    <3>2. Cardinality(inUse \cup {next}) = Cardinality(inUse) + 1
      BY <3>1, FS_AddElement
    <3> QED BY <2>6, <3>2 DEF inUse
  <2>8. PermitsConserved'
    <3>1. permits' = permits - 1 /\ permits \in Nat /\ Permits \in Nat
      BY PoolAssumption DEF Acquire, PoolInv, TypeOK
    <3>2. Cardinality({i \in Index : refs[i] > 0}) \in Nat
      BY InUseFinite
    <3> QED BY <2>7, <3>1, <3>2 DEF PoolInv, PermitsSane, PermitsConserved
  <2> QED BY <2>5, <2>8 DEF PermitsSane
<1> QED BY <1>3, <1>4, <1>5, <1>6, <1>7, <1>8, <1>9 DEF PoolInv

\* The next replica of the chunk becomes a task, for the first time.
LEMMA EnqueueKeeps ==
  ASSUME PoolInv, Enqueue
  PROVE  PoolInv'
<1> DEFINE r == <<next, Nodes[next][node]>>
<1>1. next \in Index /\ node \in DOMAIN Nodes[next] /\ r \in Replica /\ r[1] = next /\ r[2] = Nodes[next][node]
  BY PoolAssumption DEF Enqueue, PoolInv, MainSane, TypeOK, Index, Replica
<1>2. ~Enqueued(r) /\ node \in Nat
  BY <1>1, PoolAssumption DEF Enqueued, PoolInv, TypeOK, Index
<1>3. \A q \in Replica : Enqueued(q)' <=> Enqueued(q) \/ q = r
  <2> SUFFICES ASSUME NEW q \in Replica PROVE Enqueued(q)' <=> Enqueued(q) \/ q = r
    OBVIOUS
  <2>1. q = r <=> q[1] = next /\ q[2] = Nodes[next][node]
    BY <1>1, ReplicaParts
  <2>2. \A k \in DOMAIN Nodes[next] : k < node + 1 <=> (k < node \/ k = node)
    BY <1>1, <1>2, PoolAssumption DEF Index
  <2> QED BY <1>1, <2>1, <2>2 DEF Enqueued, Enqueue
<1>4. /\ futures' \in Seq(Replica) /\ Members(futures') = Members(futures) \cup {r}
      /\ jobs' \in Seq(Replica) /\ Members(jobs') = Members(jobs) \cup {r}
      /\ r \notin Members(jobs) /\ Distinct(jobs')
  <2>1. futures' = Append(futures, r) /\ jobs' = Append(jobs, r)
        /\ futures \in Seq(Replica) /\ jobs \in Seq(Replica)
    BY DEF Enqueue, PoolInv, TypeOK
  <2>2. r \notin Members(jobs) /\ Distinct(jobs)
    BY <1>2 DEF PoolInv, TasksSane
  <2> HIDE DEF r
  <2> QED BY <1>1, <2>1, <2>2, AppendMembers
<1>5. promise[r] = "none" /\ \A t \in Thread : Busy(t) => task[t] # r
  BY <1>1, <1>2 DEF PoolInv, FuturesSane, TasksSane
<1> HIDE DEF r
<1>8. TypeOK'
  BY <1>1, <1>4 DEF Enqueue, PoolInv, TypeOK
<1>9. TasksSane'
  BY <1>1, <1>3, <1>4, <1>5 DEF Enqueue, PoolInv, TasksSane, Busy
<1>10. FuturesSane'
  BY <1>1, <1>3, <1>4, <1>5 DEF Enqueue, PoolInv, FuturesSane
<1>11. AnswersSane'
  BY DEF Enqueue, PoolInv, TypeOK, AnswersSane
<1>12. LogSane'
  BY DEF Enqueue, PoolInv, TypeOK, LogSane, Noting
<1>13. MainSane'
  BY PoolAssumption DEF Enqueue, PoolInv, TypeOK, MainSane, Index
<1>14. PermitsSane'
  <2>1. \A i \in Index : Owners(i)' = IF i = next THEN Owners(i) \cup {r} ELSE Owners(i)
    BY <1>1, <1>4 DEF Enqueue, Owners, Owning
  <2>2. \A i \in Index : r \notin Owners(i)
    BY <1>4, <1>5 DEF Owners, Owning, Busy
  <2>3. \A i \in Index : Cardinality(Owners(i)') =
                         IF i = next THEN Cardinality(Owners(i)) + 1 ELSE Cardinality(Owners(i))
    BY <2>1, <2>2, OwnersFinite, FS_AddElement DEF PoolInv
  <2>4. \A i \in Index : refs'[i] = (IF i = next THEN refs[i] + 1 ELSE refs[i]) /\ Share(i)' = Share(i)
    BY DEF Enqueue, PoolInv, TypeOK, Share
  <2>5. \A i \in Index : refs'[i] = Cardinality(Owners(i)') + Share(i)'
    <3>1. \A i \in Index : /\ Cardinality(Owners(i)) \in Nat /\ Share(i) \in Nat
                          /\ refs[i] = Cardinality(Owners(i)) + Share(i)
      BY OwnersFinite DEF PoolInv, PermitsSane, Share
    <3> QED BY <2>3, <2>4, <3>1
  <2>6. refs[next] >= 1
    BY <1>1, OwnersFinite DEF Enqueue, PoolInv, PermitsSane, Share
  <2>7. {i \in Index : refs'[i] > 0} = {i \in Index : refs[i] > 0}
    <3>1. \A i \in Index : refs[i] \in Nat
      BY DEF PoolInv, TypeOK
    <3>2. \A i \in Index : refs'[i] > 0 <=> refs[i] > 0
      BY <1>1, <2>4, <2>6, <3>1
    <3> QED BY <3>2
  <2>8. PermitsConserved'
    BY <2>7 DEF Enqueue, PoolInv, PermitsSane, PermitsConserved
  <2> QED BY <2>5, <2>8 DEF PermitsSane
<1> QED BY <1>8, <1>9, <1>10, <1>11, <1>12, <1>13, <1>14 DEF PoolInv

\* The calling thread lets go of the chunk after its last replica.
LEMMA EndIterationKeeps ==
  ASSUME PoolInv, EndIteration
  PROVE  PoolInv'
<1>1. next \in Index /\ node \in Nat /\ node >= 1
  BY PoolAssumption DEF EndIteration, PoolInv, MainSane, TypeOK, Index
<1>2. \A r \in Replica : Enqueued(r) => Enqueued(r)'
  BY <1>1, ReplicaParts DEF EndIteration, Enqueued, Index
<1>3. \A r \in Replica : Enqueued(r)' => Enqueued(r)
  <2> SUFFICES ASSUME NEW r \in Replica, r[1] = next PROVE Enqueued(r)
    BY <1>1, ReplicaParts DEF EndIteration, Enqueued, Index
  <2>1. PICK k \in DOMAIN Nodes[next] : Nodes[next][k] = r[2]
    BY ReplicaParts
  <2>2. k < node
    BY <1>1, PoolAssumption DEF EndIteration, Index
  <2> QED BY <2>1, <2>2 DEF EndIteration, Enqueued
<1>4. refs[next] >= 1
  BY <1>1, OwnersFinite DEF EndIteration, PoolInv, PermitsSane, Share
<1>5. /\ refs' \in [Index -> Nat] /\ permits' \in 0..Permits
      /\ \A j \in Index : refs'[j] = IF j = next THEN refs[next] - 1 ELSE refs[j]
      /\ PermitsConserved'
  BY <1>1, <1>4, DropPermitSane DEF EndIteration, PoolInv, PermitsSane
<1>6. TypeOK'
  <2>1. next' \in 1..(Chunks + 1)
    BY <1>1, PoolAssumption DEF EndIteration, Index
  <2> QED BY <1>5, <2>1 DEF EndIteration, PoolInv, TypeOK, poolVars, dataVars
<1>7. TasksSane'
  BY <1>2 DEF EndIteration, PoolInv, TasksSane, Busy, poolVars
<1>8. FuturesSane'
  BY <1>2, <1>3 DEF EndIteration, PoolInv, FuturesSane, poolVars
<1>9. AnswersSane'
  BY DEF EndIteration, PoolInv, TypeOK, AnswersSane
<1>10. LogSane'
  BY DEF EndIteration, PoolInv, TypeOK, LogSane, Noting
<1>11. MainSane'
  BY PoolAssumption DEF EndIteration, PoolInv, TypeOK, MainSane, Index
<1>12. PermitsSane'
  <2>1. \A i \in Index : Owners(i)' = Owners(i)
    BY DEF EndIteration, Owners, Owning, Members, poolVars
  <2>2. \A i \in Index : Share(i)' = 0 /\ Share(i) = IF i = next THEN 1 ELSE 0
    BY DEF EndIteration, Share
  <2>3. \A i \in Index : refs'[i] = Cardinality(Owners(i)') + Share(i)'
    BY <1>1, <1>5, <2>1, <2>2, OwnersFinite DEF PoolInv, PermitsSane
  <2> QED BY <1>5, <2>3 DEF PermitsSane
<1> QED BY <1>6, <1>7, <1>8, <1>9, <1>10, <1>11, <1>12 DEF PoolInv

\* The second loop has taken every answer.
LEMMA CollectedKeeps ==
  ASSUME PoolInv, Collected
  PROVE  PoolInv'
<1>1. TypeOK'
  BY DEF Collected, PoolInv, TypeOK
<1>2. TasksSane'
  BY DEF Collected, PoolInv, TypeOK, TasksSane, Busy, Enqueued
<1>3. FuturesSane'
  BY DEF Collected, PoolInv, TypeOK, FuturesSane, Enqueued
<1>4. AnswersSane'
  BY DEF Collected, PoolInv, TypeOK, AnswersSane
<1>5. LogSane'
  BY DEF Collected, PoolInv, TypeOK, LogSane, Noting
<1>6. MainSane'
  BY PoolAssumption DEF Collected, PoolInv, TypeOK, MainSane, Index
<1>7. PermitsSane'
  BY MainFrame DEF Collected, PoolInv, TypeOK, PermitsSane
<1> QED BY <1>1, <1>2, <1>3, <1>4, <1>5, <1>6, <1>7 DEF PoolInv

\* Upload returns when no task is left.
LEMMA FinishKeeps ==
  ASSUME PoolInv, Finish
  PROVE  PoolInv'
<1>1. log' = log \cup Members(pending) /\ Members(pending') = {} /\ Members(pending) \subseteq Index
  BY DEF Finish, Members, PoolInv, TypeOK
<1>2. TypeOK'
  BY <1>1 DEF Finish, PoolInv, TypeOK
<1>3. TasksSane'
  BY DEF Finish, PoolInv, TypeOK, TasksSane, Busy, Enqueued
<1>4. FuturesSane'
  BY DEF Finish, PoolInv, TypeOK, FuturesSane, Enqueued
<1>5. AnswersSane'
  BY DEF Finish, PoolInv, TypeOK, AnswersSane
<1>6. LogSane'
  BY <1>1 DEF Finish, PoolInv, TypeOK, LogSane, Noting
<1>7. MainSane'
  BY PoolAssumption DEF Finish, PoolInv, TypeOK, MainSane, Index
<1>8. PermitsSane'
  BY MainFrame DEF Finish, PoolInv, TypeOK, PermitsSane
<1> QED BY <1>2, <1>3, <1>4, <1>5, <1>6, <1>7, <1>8 DEF PoolInv

\* The user interrupts.
LEMMA PauseKeeps ==
  ASSUME PoolInv, Pause
  PROVE  PoolInv'
<1>1. TypeOK'
  BY DEF Pause, PoolInv, TypeOK
<1>2. TasksSane'
  BY DEF Pause, PoolInv, TypeOK, TasksSane, Busy, Enqueued
<1>3. FuturesSane'
  BY DEF Pause, PoolInv, TypeOK, FuturesSane, Enqueued
<1>4. AnswersSane'
  BY DEF Pause, PoolInv, TypeOK, AnswersSane
<1>5. LogSane'
  BY DEF Pause, PoolInv, TypeOK, LogSane, Noting
<1>6. MainSane'
  BY PoolAssumption DEF Pause, PoolInv, TypeOK, MainSane, Index
<1>7. PermitsSane'
  <2>1. \A i : Owners(i)' = Owners(i)
    BY DEF Pause, Owners, Owning, Members, poolVars
  <2> QED BY <2>1, ThreadFrame DEF Pause, mainVars
<1> QED BY <1>1, <1>2, <1>3, <1>4, <1>5, <1>6, <1>7 DEF PoolInv

\* A task goes from the queue to a thread.
LEMMA FetchKeeps ==
  ASSUME PoolInv, NEW t \in Thread, Fetch(t)
  PROVE  PoolInv'
<1>1. /\ Head(jobs) \in Members(jobs) /\ Members(jobs) = Members(jobs') \cup {Head(jobs)}
      /\ Distinct(jobs') /\ Head(jobs) \notin Members(jobs') /\ jobs' \in Seq(Replica)
      /\ Head(jobs) \in Replica
  BY TailMembers DEF Fetch, PoolInv, TypeOK, TasksSane
<1>2. /\ stage[t] = "idle" /\ stage'[t] = "send" /\ task'[t] = Head(jobs)
      /\ \A u \in Thread \ {t} : stage'[u] = stage[u] /\ task'[u] = task[u]
  BY DEF Fetch, Step, PoolInv, TypeOK
<1>3. TypeOK'
  BY <1>1 DEF Fetch, Step, PoolInv, TypeOK
<1>4. TasksSane'
  <2>1. \A r : Enqueued(r)' <=> Enqueued(r)
    BY DEF Fetch, mainVars, Enqueued
  <2>2. \A u \in Thread : Busy(u)' => /\ task'[u] \in Replica /\ Enqueued(task'[u])
                                     /\ promise[task'[u]] = "none" /\ task'[u] \notin Members(jobs')
    BY <1>1, <1>2 DEF PoolInv, TasksSane, Busy
  <2>3. \A u, v \in Thread : u # v /\ Busy(u)' /\ Busy(v)' => task'[u] # task'[v]
    BY <1>1, <1>2 DEF PoolInv, TasksSane, Busy
  <2> QED BY <1>1, <2>1, <2>2, <2>3 DEF Fetch, PoolInv, TasksSane
<1>5. FuturesSane'
  BY DEF Fetch, Step, PoolInv, TypeOK, FuturesSane, Enqueued
<1>6. AnswersSane'
  BY DEF Fetch, Step, PoolInv, TypeOK, AnswersSane
<1>7. LogSane'
  <2>1. \A r : \A u \in Thread : Noting(u, r) => Noting(u, r)'
    BY <1>2 DEF Fetch, Noting
  <2> QED BY <2>1 DEF Fetch, dataVars, PoolInv, LogSane
<1>8. MainSane'
  BY PoolAssumption DEF Fetch, Step, PoolInv, TypeOK, MainSane, Index
<1>9. PermitsSane'
  <2>1. Owning' = Owning \cup {t} /\ t \notin Owning
    BY <1>2 DEF Owning
  <2>2. {task'[u] : u \in Owning'} = {task[u] : u \in Owning} \cup {Head(jobs)}
    BY <1>2, <2>1 DEF Owning
  <2>3. \A i : Owners(i)' = Owners(i)
    BY <1>1, <2>2 DEF Owners
  <2> QED BY <2>3, ThreadFrame DEF Fetch, mainVars
<1> QED BY <1>3, <1>4, <1>5, <1>6, <1>7, <1>8, <1>9 DEF PoolInv

\* A worker acknowledges the replica.
LEMMA SendOkKeeps ==
  ASSUME PoolInv, NEW t \in Thread, SendOk(t)
  PROVE  PoolInv'
<1>1. task[t] \in Replica /\ task[t][1] \in Index
  BY ReplicaParts DEF SendOk, Step, PoolInv, TasksSane, Busy
<1>2. TypeOK'
  BY <1>1 DEF SendOk, Step, PoolInv, TypeOK
<1>3. TasksSane'
  BY DEF SendOk, Step, PoolInv, TypeOK, TasksSane, Busy, Enqueued
<1>4. FuturesSane'
  BY DEF SendOk, Step, PoolInv, TypeOK, FuturesSane, Enqueued
<1>5. AnswersSane'
  BY DEF SendOk, Step, PoolInv, TypeOK, AnswersSane
<1>6. LogSane'
  BY DEF SendOk, Step, PoolInv, TypeOK, Caller!Sent, LogSane, Noting
<1>7. MainSane'
  BY PoolAssumption DEF SendOk, Step, PoolInv, TypeOK, MainSane, Index
<1>8. PermitsSane'
  <2>1. Owning' = Owning
    BY DEF SendOk, Step, Owning, PoolInv, TypeOK
  <2>2. \A i : Owners(i)' = Owners(i)
    BY <2>1 DEF SendOk, Owners, Members
  <2> QED BY <2>2, ThreadFrame DEF SendOk, mainVars
<1> QED BY <1>2, <1>3, <1>4, <1>5, <1>6, <1>7, <1>8 DEF PoolInv

\* No worker does.
LEMMA SendFailKeeps ==
  ASSUME PoolInv, NEW t \in Thread, SendFail(t)
  PROVE  PoolInv'
<1>1. task[t] \in Replica /\ task[t][1] \in Index
  BY ReplicaParts DEF SendFail, Step, PoolInv, TasksSane, Busy
<1>2. TypeOK'
  BY <1>1 DEF SendFail, Step, PoolInv, TypeOK
<1>3. TasksSane'
  BY DEF SendFail, Step, PoolInv, TypeOK, TasksSane, Busy, Enqueued
<1>4. FuturesSane'
  BY DEF SendFail, Step, PoolInv, TypeOK, FuturesSane, Enqueued
<1>5. AnswersSane'
  BY DEF SendFail, Step, PoolInv, TypeOK, AnswersSane
<1>6. LogSane'
  <2>1. \A r : \A u \in Thread : Noting(u, r) => Noting(u, r)'
    BY DEF SendFail, Step, Noting, PoolInv, TypeOK
  <2> QED BY <2>1 DEF SendFail, PoolInv, LogSane
<1>7. MainSane'
  BY PoolAssumption DEF SendFail, Step, PoolInv, TypeOK, MainSane, Index
<1>8. PermitsSane'
  <2>1. Owning' = Owning
    BY DEF SendFail, Step, Owning, PoolInv, TypeOK
  <2>2. \A i : Owners(i)' = Owners(i)
    BY <2>1 DEF SendFail, Owners, Members
  <2> QED BY <2>2, ThreadFrame DEF SendFail, mainVars
<1> QED BY <1>2, <1>3, <1>4, <1>5, <1>6, <1>7, <1>8 DEF PoolInv

\* Its index is noted.
LEMMA NoteKeeps ==
  ASSUME PoolInv, NEW t \in Thread, Note(t)
  PROVE  PoolInv'
<1>1. task[t] \in Replica /\ task[t][1] \in Index
  BY ReplicaParts DEF Note, Step, PoolInv, TasksSane, Busy
<1>2. /\ log' \cup Members(pending') = log \cup Members(pending) \cup {task[t][1]}
      /\ log' \subseteq Index /\ pending' \in Seq(Index)
  <2> DEFINE list == Append(pending, task[t][1])
  <2>1. list \in Seq(Index) /\ Members(list) = Members(pending) \cup {task[t][1]}
    BY <1>1, AppendMembers DEF PoolInv, TypeOK
  <2>2. Members(<<>>) = {} /\ Members(list) \subseteq Index
    BY <2>1 DEF Members
  <2>3. \/ log' = log \cup Members(list) /\ pending' = <<>>
        \/ log' = log /\ pending' = list
    BY DEF Note
  <2>4. log \subseteq Index
    BY DEF PoolInv, TypeOK
  <2>5. <<>> \in Seq(Index)
    OBVIOUS
  <2> HIDE DEF list
  <2> QED BY <1>1, <2>1, <2>2, <2>3, <2>4, <2>5
<1>3. TypeOK'
  BY <1>1, <1>2 DEF Note, Step, PoolInv, TypeOK
<1>4. TasksSane'
  BY DEF Note, Step, PoolInv, TypeOK, TasksSane, Busy, Enqueued
<1>5. FuturesSane'
  BY DEF Note, Step, PoolInv, TypeOK, FuturesSane, Enqueued
<1>6. AnswersSane'
  BY DEF Note, Step, PoolInv, TypeOK, AnswersSane
<1>7. LogSane'
  <2>1. task[t] \in acked /\ acked' = acked /\ promise' = promise
    BY DEF Note, Step, PoolInv, AnswersSane
  <2>2. task[t][1] \in Caller!Sent(acked)
    BY <2>1 DEF Caller!Sent
  <2>3. \A r : \A u \in Thread : Noting(u, r) => Noting(u, r)' \/ r = task[t]
    BY DEF Note, Step, Noting, PoolInv, TypeOK
  <2> QED BY <1>2, <2>1, <2>2, <2>3 DEF PoolInv, LogSane
<1>8. MainSane'
  BY PoolAssumption DEF Note, Step, PoolInv, TypeOK, MainSane, Index
<1>9. PermitsSane'
  <2>1. Owning' = Owning
    BY DEF Note, Step, Owning, PoolInv, TypeOK
  <2>2. \A i : Owners(i)' = Owners(i)
    BY <2>1 DEF Note, Owners, Members
  <2> QED BY <2>2, ThreadFrame DEF Note, mainVars
<1> QED BY <1>3, <1>4, <1>5, <1>6, <1>7, <1>8, <1>9 DEF PoolInv

\* A task throws.
LEMMA ThrowKeeps ==
  ASSUME PoolInv, NEW t \in Thread, Throw(t)
  PROVE  PoolInv'
<1>1. TypeOK'
  BY DEF Throw, Step, PoolInv, TypeOK
<1>2. TasksSane'
  BY DEF Throw, Step, PoolInv, TypeOK, TasksSane, Busy, Enqueued
<1>3. FuturesSane'
  BY DEF Throw, Step, PoolInv, TypeOK, FuturesSane, Enqueued
<1>4. AnswersSane'
  BY DEF Throw, Step, PoolInv, TypeOK, AnswersSane
<1>5. LogSane'
  BY DEF Throw, Step, PoolInv, TypeOK, LogSane, Noting
<1>6. MainSane'
  BY PoolAssumption DEF Throw, Step, PoolInv, TypeOK, MainSane, Index
<1>7. PermitsSane'
  <2>1. Owning' = Owning
    BY DEF Throw, Step, Owning, PoolInv, TypeOK
  <2>2. \A i : Owners(i)' = Owners(i)
    BY <2>1 DEF Throw, Owners, Members
  <2> QED BY <2>2, ThreadFrame DEF Throw, mainVars
<1> QED BY <1>1, <1>2, <1>3, <1>4, <1>5, <1>6, <1>7 DEF PoolInv

\* A task lets go of its chunk, whatever became of it.
LEMMA ReleasePermitKeeps ==
  ASSUME PoolInv, NEW t \in Thread, ReleasePermit(t)
  PROVE  PoolInv'
<1>1. task[t] \in Replica /\ task[t][1] \in Index
  BY ReplicaParts DEF ReleasePermit, Step, PoolInv, TasksSane, Busy
<1>2. /\ stage[t] = "release" /\ stage'[t] = "resolve" /\ task' = task
      /\ \A u \in Thread \ {t} : stage'[u] = stage[u]
  BY DEF ReleasePermit, Step, PoolInv, TypeOK
<1>3. task[t] \in Owners(task[t][1])
  BY <1>2 DEF Owners, Owning
<1>4. refs[task[t][1]] >= 1
  <2>1. Cardinality(Owners(task[t][1])) \in Nat /\ Cardinality(Owners(task[t][1])) # 0
    BY <1>3, OwnersFinite, FS_EmptySet DEF PoolInv
  <2>2. Share(task[t][1]) \in Nat
    BY DEF Share
  <2> QED BY <1>1, <2>1, <2>2 DEF PoolInv, PermitsSane
<1>5. /\ refs' \in [Index -> Nat] /\ permits' \in 0..Permits
      /\ \A j \in Index : refs'[j] = IF j = task[t][1] THEN refs[task[t][1]] - 1 ELSE refs[j]
      /\ PermitsConserved'
  BY <1>1, <1>4, DropPermitSane DEF ReleasePermit, PoolInv, PermitsSane
<1>6. TypeOK'
  BY <1>5 DEF ReleasePermit, Step, PoolInv, TypeOK
<1>7. TasksSane'
  BY DEF ReleasePermit, Step, PoolInv, TypeOK, TasksSane, Busy, Enqueued
<1>8. FuturesSane'
  BY DEF ReleasePermit, Step, PoolInv, TypeOK, FuturesSane, Enqueued
<1>9. AnswersSane'
  BY DEF ReleasePermit, Step, PoolInv, TypeOK, AnswersSane
<1>10. LogSane'
  BY DEF ReleasePermit, Step, PoolInv, TypeOK, LogSane, Noting
<1>11. MainSane'
  BY PoolAssumption DEF ReleasePermit, Step, PoolInv, TypeOK, MainSane, Index
<1>12. PermitsSane'
  <2>1. Owning' = Owning \ {t} /\ t \in Owning
    BY <1>2 DEF Owning
  <2>2. \A u \in Owning \ {t} : task[u] # task[t]
    BY <1>2 DEF Owning, PoolInv, TasksSane, Busy
  <2>3. task[t] \notin Members(jobs)
    BY <1>2 DEF PoolInv, TasksSane, Busy
  <2>4. \A i \in Index : Owners(i)' = Owners(i) \ {task[t]}
    BY <1>2, <2>1, <2>2, <2>3 DEF ReleasePermit, Owners
  <2>5. \A i \in Index : Cardinality(Owners(i)') = IF i = task[t][1] THEN Cardinality(Owners(i)) - 1
                                                                 ELSE Cardinality(Owners(i))
    <3> SUFFICES ASSUME NEW i \in Index
                 PROVE  Cardinality(Owners(i)') = IF i = task[t][1] THEN Cardinality(Owners(i)) - 1
                                                                  ELSE Cardinality(Owners(i))
      OBVIOUS
    <3>1. task[t] \in Owners(i) <=> i = task[t][1]
      BY <1>3 DEF Owners
    <3> QED BY <2>4, <3>1, OwnersFinite, FS_RemoveElement DEF PoolInv
  <2>6. \A i \in Index : Share(i)' = Share(i) /\ Share(i) \in Nat
    BY DEF ReleasePermit, mainVars, Share
  <2>7. \A i \in Index : refs'[i] = Cardinality(Owners(i)') + Share(i)'
    BY <1>5, <2>5, <2>6, OwnersFinite DEF PoolInv, PermitsSane
  <2> QED BY <1>5, <2>7 DEF PermitsSane
<1> QED BY <1>6, <1>7, <1>8, <1>9, <1>10, <1>11, <1>12 DEF PoolInv

\* A promise is fulfilled once.
LEMMA ResolveKeeps ==
  ASSUME PoolInv, NEW t \in Thread, Resolve(t)
  PROVE  PoolInv'
<1>1. /\ stage[t] = "resolve" /\ stage'[t] = "idle"
      /\ \A u \in Thread \ {t} : stage'[u] = stage[u] /\ task'[u] = task[u]
      /\ task[t] \in Replica /\ Enqueued(task[t]) /\ promise[task[t]] = "none"
      /\ promise'[task[t]] = result[t]
      /\ \A r \in Replica : r # task[t] => promise'[r] = promise[r]
  BY DEF Resolve, Step, PoolInv, TypeOK, TasksSane, Busy
<1>2. task[t] \in Members(futures)
  BY <1>1 DEF PoolInv, FuturesSane
<1>3. TypeOK'
  BY DEF Resolve, Step, PoolInv, TypeOK
<1>4. TasksSane'
  BY DEF Resolve, Step, PoolInv, TypeOK, TasksSane, Busy, Enqueued
<1>5. FuturesSane'
  <2>1. \A r : Enqueued(r)' <=> Enqueued(r)
    BY DEF Resolve, mainVars, Enqueued
  <2> QED BY <1>1, <1>2, <2>1 DEF Resolve, mainVars, PoolInv, FuturesSane
<1>6. AnswersSane'
  BY DEF Resolve, Step, PoolInv, TypeOK, AnswersSane
<1>7. LogSane'
  <2>1. \A r \in acked : promise[r] = "exception" => promise'[r] = "exception"
    BY <1>1 DEF PoolInv, TypeOK
  <2>2. \A r : \A u \in Thread : Noting(u, r) => Noting(u, r)' \/ (r = task[t] /\ promise'[r] = "exception")
    BY <1>1 DEF Resolve, Noting
  <2> QED BY <2>1, <2>2 DEF Resolve, dataVars, PoolInv, LogSane
<1>8. MainSane'
  BY PoolAssumption DEF Resolve, Step, PoolInv, TypeOK, MainSane, Index
<1>9. PermitsSane'
  <2>1. Owning' = Owning /\ \A u \in Owning : task'[u] = task[u]
    BY <1>1 DEF Owning
  <2>2. {task'[u] : u \in Owning'} = {task[u] : u \in Owning}
    BY <2>1
  <2>3. \A i : Owners(i)' = Owners(i)
    BY <2>2 DEF Resolve, Owners
  <2> QED BY <2>3, ThreadFrame DEF Resolve, mainVars
<1> QED BY <1>3, <1>4, <1>5, <1>6, <1>7, <1>8, <1>9 DEF PoolInv

-----------------------------------------------------------------------------
(* Theorems.                                                               *)

\* Every step preserves the invariant.
LEMMA NextPoolInv == PoolInv /\ [Next]_vars => PoolInv'
<1> SUFFICES ASSUME PoolInv, [Next]_vars PROVE PoolInv'
  OBVIOUS
<1>1. CASE Main
  BY <1>1, OpenStreamKeeps, CheckStateKeeps, TakeReadyKeeps, ProceedKeeps, AcquireKeeps,
     EnqueueKeeps, EndIterationKeeps, TakeRestKeeps, CollectedKeeps, FinishKeeps
   DEF Main
<1>2. ASSUME NEW t \in Thread, Work(t) PROVE PoolInv'
  BY <1>2, FetchKeeps, SendOkKeeps, SendFailKeeps, NoteKeeps, ThrowKeeps, ReleasePermitKeeps,
     ResolveKeeps
   DEF Work
<1>3. CASE Pause
  BY <1>3, PauseKeeps
<1>4. CASE UNCHANGED vars
  <2>1. PermitsSane'
    <3>1. \A i : Owners(i)' = Owners(i)
      BY <1>4 DEF vars, poolVars, Owners, Owning, Members
    <3> QED BY <1>4, <3>1, ThreadFrame DEF vars, mainVars, semVars
  <2>2. TypeOK' /\ MainSane' /\ AnswersSane'
    BY <1>4 DEF vars, PoolInv, TypeOK, MainSane, AnswersSane
  <2>3. TasksSane' /\ FuturesSane'
    BY <1>4 DEF vars, PoolInv, TasksSane, FuturesSane,
                Enqueued, Busy, Distinct, Members
  <2>4. LogSane'
    BY <1>4 DEF vars, PoolInv, LogSane, Noting, Members
  <2> QED BY <2>1, <2>2, <2>3, <2>4 DEF PoolInv
<1> QED BY <1>1, <1>2, <1>3, <1>4 DEF Next

\* PoolInv is an invariant: every task is in one place, and what the calling
\* thread knows of it agrees with what happened to it.
THEOREM PoolInvAlways == Spec => []PoolInv
<1> QED BY InitPoolInv, NextPoolInv, PTL DEF Spec

\* The semaphore of ParallelTransferManager::Upload is neither leaked nor
\* over-released, whatever tasks throw: each permit goes back with its last owner.
THEOREM PermitsAlwaysConserved == Spec => []PermitsConserved
<1>1. PoolInv => PermitsConserved
  BY DEF PoolInv, PermitsSane
<1> QED BY <1>1, PoolInvAlways, PTL

\* At the end every replica that was acknowledged is in the log.
LEMMA ReturnsWithLog ==
  ASSUME PoolInv, Finish
  PROVE  log' = Caller!Sent(acked)
<1>1. log' = log \cup Members(pending)
  BY DEF Finish
<1>2. \A r : \A t \in Thread : ~Noting(t, r)
  BY DEF Finish, Noting
<1>3. futures = <<>> /\ Members(futures) = {} /\ pc = "shutdown"
  BY DEF Finish, PoolInv, MainSane, Members
<1>4. \A r \in acked : promise[r] # "exception"
  BY <1>3 DEF PoolInv, FuturesSane, TypeOK
<1>5. \A r \in acked : r[1] \in log'
  BY <1>1, <1>2, <1>4 DEF PoolInv, LogSane
<1>6. log' \subseteq Caller!Sent(acked)
  BY <1>1 DEF PoolInv, LogSane
<1> QED BY <1>5, <1>6 DEF Caller!Sent

\* TRUE is returned only when every replica was acknowledged.
LEMMA TrueMeansStored ==
  ASSUME PoolInv, Finish, ok, state = "RUNNING"
  PROVE  acked = Replica
<1>1. pc = "shutdown" /\ Members(futures) = {} /\ next = Chunks + 1
  BY DEF Finish, PoolInv, MainSane, Members
<1>2. \A r \in Replica : Enqueued(r)
  BY <1>1, ReplicaParts, PoolAssumption DEF Enqueued, Index
<1>3. \A r \in Replica : promise[r] = "true"
  BY <1>1, <1>2 DEF PoolInv, FuturesSane
<1> QED BY <1>3 DEF PoolInv, AnswersSane, TypeOK

\* Every step is a step of ChunkTransfer or changes nothing its caller sees.
LEMMA NextRefines ==
  PoolInv /\ [Next]_vars => [Caller!TransferNext]_(Caller!transferVars)
<1> SUFFICES ASSUME PoolInv, [Next]_vars
             PROVE  Caller!TransferNext \/ UNCHANGED Caller!transferVars
  OBVIOUS
<1> USE DEF Caller!transferVars
<1>1. CASE UNCHANGED vars
  BY <1>1 DEF vars, mainVars, dataVars, Outcome
<1>2. CASE \/ CheckState \/ Proceed \/ Acquire \/ Enqueue \/ EndIteration \/ Collected \/ Pause
  BY <1>2 DEF CheckState, Proceed, Acquire, Enqueue, EndIteration, Collected, Pause, mainVars,
              dataVars, Outcome
<1>3. CASE OpenStream \/ TakeReady \/ TakeRest
  <2>1. pc \notin {"returned", "unwound"} /\ pc' # "returned" /\ UNCHANGED <<acked, log>>
    BY <1>3 DEF OpenStream, TakeReady, TakeRest, Take, dataVars
  <2>2. Outcome = "running" /\ Outcome' \in {"running", "dead"}
    BY <2>1 DEF Outcome
  <2> QED BY <2>1, <2>2 DEF Caller!TransferNext, Caller!Die
<1>4. CASE Finish
  <2> DEFINE a == IF ok /\ state = "RUNNING" THEN "true" ELSE "false"
  <2>1. Outcome = "running" /\ Outcome' = a /\ UNCHANGED acked
    BY <1>4 DEF Finish, Outcome
  <2>2. log' = Caller!Sent(acked) /\ (a = "true" => acked = Replica)
    BY <1>4, ReturnsWithLog, TrueMeansStored
  <2>3. Caller!Return(a)
    BY <2>1, <2>2 DEF Caller!Return
  <2> QED BY <2>3 DEF Caller!TransferNext
<1>5. ASSUME NEW t \in Thread, Work(t)
      PROVE  Caller!TransferNext \/ UNCHANGED Caller!transferVars
  <2>1. Outcome = "running" /\ Outcome' = "running"
    BY <1>5 DEF Work, Fetch, SendOk, SendFail, Note, Throw, ReleasePermit, Resolve, Step, Alive,
                mainVars, Outcome
  <2>2. CASE Fetch(t) \/ SendFail(t) \/ Throw(t) \/ ReleasePermit(t) \/ Resolve(t)
    BY <2>1, <2>2 DEF Fetch, SendFail, Throw, ReleasePermit, Resolve, dataVars
  <2>3. CASE SendOk(t)
    <3>1. task[t] \in Replica /\ acked' = acked \cup {task[t]} /\ log' = log
      BY <2>3 DEF SendOk, Step, PoolInv, TasksSane, Busy
    <3>2. Caller!Acknowledge(task[t])
      BY <2>1, <3>1 DEF Caller!Acknowledge
    <3> QED BY <3>1, <3>2 DEF Caller!TransferNext
  <2>4. CASE Note(t)
    <3>1. log \subseteq log' /\ acked' = acked
      BY <2>4 DEF Note
    <3>2. log' \subseteq Caller!Sent(acked)
      BY <2>4, <3>1, NoteKeeps DEF PoolInv, LogSane
    <3> QED BY <2>1, <3>1, <3>2 DEF Caller!TransferNext, Caller!WriteLog
  <2> QED BY <1>5, <2>2, <2>3, <2>4 DEF Work
<1> QED BY <1>1, <1>2, <1>3, <1>4, <1>5 DEF Next, Main

\* ParallelTransferManager::Upload does what ITransferManager promises: TRUE only
\* if every replica was acknowledged, and a log that names exactly the chunks with
\* an acknowledged replica when it returns.
THEOREM PoolMeetsContract == Spec => MeetsContract
<1>1. Init => Caller!TransferInit
  BY DEF Init, Caller!TransferInit, Outcome
<1>2. PoolInv /\ [Next]_vars => [Caller!TransferNext]_(Caller!transferVars)
  BY NextRefines
<1> QED BY <1>1, <1>2, PoolInvAlways, PTL DEF Spec, MeetsContract, Caller!TransferSpec

-----------------------------------------------------------------------------
(* No deadlock.                                                            *)

\* Replica r is in the queue of the pool, or with a thread.
InHand(r) == r \in Members(jobs) \/ \E t \in Thread : Busy(t) /\ task[t] = r

\* A task without an answer has not been lost.
NoTaskLost == \A r \in Replica : Enqueued(r) /\ promise[r] = "none" => InHand(r)

\* The calling thread waits: for a permit, or in fut.get() for an answer.
MainWaits ==
  \/ pc = "acquire" /\ permits = 0
  \/ pc = "collect" /\ futures # <<>> /\ ~Ready

\* Some thread of the pool runs a task, or there is one that it can fetch.
PoolBusy == \E t \in Thread : Busy(t) \/ jobs # <<>>

\* The calling thread and the pool never wait for each other: when Upload waits
\* for the semaphore or for a future, a task is left whose end it can wait for.
NeverStuck == MainWaits => PoolBusy

\* A task stays in hand while its thread works on it.
LEMMA InHandFrame ==
  ASSUME PoolInv, NoTaskLost, UNCHANGED <<jobs, task, promise>>,
         \A r \in Replica : Enqueued(r)' => Enqueued(r),
         \A t \in Thread : Busy(t) => Busy(t)'
  PROVE  NoTaskLost'
BY DEF NoTaskLost, InHand

LEMMA FetchInHand ==
  ASSUME PoolInv, NoTaskLost, NEW t \in Thread, Fetch(t)
  PROVE  NoTaskLost'
<1>1. Members(jobs) = Members(jobs') \cup {Head(jobs)}
  BY TailMembers DEF Fetch, PoolInv, TypeOK
<1>2. /\ ~Busy(t) /\ Busy(t)' /\ task'[t] = Head(jobs)
      /\ \A u \in Thread \ {t} : (Busy(u)' <=> Busy(u)) /\ task'[u] = task[u]
  BY DEF Fetch, Step, PoolInv, TypeOK, Busy
<1>3. promise' = promise /\ \A r : Enqueued(r)' <=> Enqueued(r)
  BY DEF Fetch, mainVars, Enqueued
<1>4. ASSUME NEW r \in Replica, InHand(r) PROVE InHand(r)'
  <2>1. CASE r = Head(jobs)
    BY <1>2, <2>1 DEF InHand
  <2>2. CASE r # Head(jobs) /\ r \in Members(jobs)
    BY <1>1, <2>2 DEF InHand
  <2>3. CASE \E u \in Thread : Busy(u) /\ task[u] = r
    BY <1>2, <2>3 DEF InHand
  <2> QED BY <1>4, <2>1, <2>2, <2>3 DEF InHand
<1> QED BY <1>3, <1>4 DEF NoTaskLost

LEMMA ResolveInHand ==
  ASSUME PoolInv, NoTaskLost, NEW t \in Thread, Resolve(t)
  PROVE  NoTaskLost'
<1>1. /\ \A u \in Thread \ {t} : (Busy(u)' <=> Busy(u)) /\ task'[u] = task[u]
      /\ task[t] \in Replica /\ promise'[task[t]] # "none" /\ jobs' = jobs
      /\ \A r \in Replica : r # task[t] => promise'[r] = promise[r]
  BY DEF Resolve, Step, PoolInv, TypeOK, TasksSane, Busy
<1>2. \A r : Enqueued(r)' <=> Enqueued(r)
  BY DEF Resolve, mainVars, Enqueued
<1>3. \A r \in Replica : r # task[t] /\ InHand(r) => InHand(r)'
  BY <1>1 DEF InHand
<1> QED BY <1>1, <1>2, <1>3 DEF NoTaskLost

LEMMA EnqueueInHand ==
  ASSUME PoolInv, NoTaskLost, Enqueue
  PROVE  NoTaskLost'
<1> DEFINE r == <<next, Nodes[next][node]>>
<1>1. /\ next \in Index /\ node \in DOMAIN Nodes[next] /\ node \in Nat
      /\ r \in Replica /\ r[1] = next /\ r[2] = Nodes[next][node]
  BY PoolAssumption DEF Enqueue, PoolInv, MainSane, TypeOK, Index, Replica
<1>2. \A q \in Replica : Enqueued(q)' => Enqueued(q) \/ q = r
  <2> SUFFICES ASSUME NEW q \in Replica PROVE Enqueued(q)' => Enqueued(q) \/ q = r
    OBVIOUS
  <2>1. q = r <=> q[1] = next /\ q[2] = Nodes[next][node]
    BY <1>1, ReplicaParts
  <2>2. \A k \in DOMAIN Nodes[next] : k < node + 1 <=> (k < node \/ k = node)
    BY <1>1, PoolAssumption DEF Index
  <2> QED BY <1>1, <2>1, <2>2 DEF Enqueued, Enqueue
<1>3. jobs' = Append(jobs, r) /\ jobs \in Seq(Replica) /\ UNCHANGED <<stage, task, promise>>
  BY DEF Enqueue, PoolInv, TypeOK
<1> HIDE DEF r
<1>4. Members(jobs') = Members(jobs) \cup {r}
  BY <1>1, <1>3, AppendMembers
<1> QED BY <1>2, <1>3, <1>4 DEF NoTaskLost, InHand, Busy

LEMMA NextNoTaskLost == PoolInv /\ NoTaskLost /\ [Next]_vars => NoTaskLost'
<1> SUFFICES ASSUME PoolInv, NoTaskLost, [Next]_vars PROVE NoTaskLost'
  OBVIOUS
<1>1. CASE \/ OpenStream \/ CheckState \/ TakeReady \/ Proceed \/ TakeRest \/ Collected
           \/ Finish \/ Pause \/ UNCHANGED vars
  <2>1. UNCHANGED <<jobs, task, stage, promise, next, node>> /\ (pc' = "enqueue" => pc = "enqueue")
    BY <1>1 DEF OpenStream, CheckState, TakeReady, TakeRest, Take, Proceed, Collected, Finish,
                Pause, vars, mainVars, poolVars
  <2>2. \A r \in Replica : Enqueued(r)' => Enqueued(r)
    BY <2>1 DEF Enqueued
  <2> QED BY <2>1, <2>2, InHandFrame DEF Busy
<1>2. CASE Acquire
  <2>1. \A k \in DOMAIN Nodes[next] : ~(k < 1)
    BY <1>2, PoolAssumption DEF Acquire, PoolInv, MainSane, TypeOK, Index
  <2>2. \A r \in Replica : Enqueued(r)' => Enqueued(r)
    BY <1>2, <2>1 DEF Acquire, Enqueued
  <2> QED BY <1>2, <2>2, InHandFrame DEF Acquire, poolVars, Busy
<1>3. CASE EndIteration
  <2>1. next \in Index /\ node \in Nat /\ node >= 1
    BY <1>3, PoolAssumption DEF EndIteration, PoolInv, MainSane, TypeOK, Index
  <2>2. \A k \in DOMAIN Nodes[next] : k < node
    BY <1>3, <2>1, PoolAssumption DEF EndIteration, Index
  <2>3. \A r \in Replica : r[1] = next => Enqueued(r)
    BY <1>3, <2>2, ReplicaParts DEF EndIteration, Enqueued
  <2>4. \A r \in Replica : Enqueued(r)' => Enqueued(r)
    BY <1>3, <2>1, <2>3, ReplicaParts DEF EndIteration, Enqueued, Index
  <2> QED BY <1>3, <2>4, InHandFrame DEF EndIteration, poolVars, Busy
<1>4. CASE Enqueue
  BY <1>4, EnqueueInHand
<1>5. ASSUME NEW t \in Thread, Work(t) PROVE NoTaskLost'
  <2>1. CASE SendOk(t) \/ SendFail(t) \/ Note(t) \/ Throw(t) \/ ReleasePermit(t)
    <3>1. UNCHANGED <<jobs, task, promise>> /\ \A r : Enqueued(r)' <=> Enqueued(r)
      BY <2>1 DEF SendOk, SendFail, Note, Throw, ReleasePermit, mainVars, Enqueued
    <3>2. \A u \in Thread : Busy(u) => Busy(u)'
      BY <2>1 DEF SendOk, SendFail, Note, Throw, ReleasePermit, Step, Busy, PoolInv, TypeOK
    <3> QED BY <3>1, <3>2, InHandFrame
  <2>2. CASE Fetch(t)
    BY <2>2, FetchInHand
  <2>3. CASE Resolve(t)
    BY <2>3, ResolveInHand
  <2> QED BY <1>5, <2>1, <2>2, <2>3 DEF Work
<1> QED BY <1>1, <1>2, <1>3, <1>4, <1>5 DEF Next, Main

\* The semaphore is at zero only while a task owns one of its permits.
LEMMA PermitOwned ==
  ASSUME PoolInv, pc = "acquire", permits = 0
  PROVE  PoolBusy
<1> DEFINE inUse == {i \in Index : refs[i] > 0}
<1>1. IsFiniteSet(inUse) /\ Cardinality(inUse) \in Nat
  BY InUseFinite
<1>2. inUse # {}
  <2>1. 0 + Cardinality(inUse) = Permits /\ Permits \in Nat \ {0}
    BY PoolAssumption DEF PoolInv, PermitsSane, PermitsConserved
  <2> HIDE DEF inUse
  <2>2. Cardinality(inUse) # 0
    BY <1>1, <2>1
  <2> QED BY <2>2, FS_EmptySet
<1>3. PICK i \in Index : refs[i] > 0
  BY <1>2
<1>4. Cardinality(Owners(i)) # 0
  BY <1>3 DEF PoolInv, PermitsSane, Share
<1>5. Owners(i) # {}
  BY <1>4, FS_EmptySet
<1>6. PICK r \in Members(jobs) \cup {task[t] : t \in Owning} : TRUE
  BY <1>5 DEF Owners
<1>7. CASE r \in Members(jobs)
  BY <1>7, PoolAssumption DEF Members, PoolBusy
<1>8. CASE r \in {task[t] : t \in Owning}
  BY <1>8 DEF Owning, PoolBusy, Busy
<1> QED BY <1>6, <1>7, <1>8

\* "Safety net: Guarantee the main thread never deadlocks!": whatever tasks throw
\* and however few permits and threads there are, Upload waits for a permit or for
\* an answer only while a task is left in the pool, so that no permit was leaked and
\* no promise forgotten.
THEOREM UploadNeverStuck == Spec => []NeverStuck
<1>1. Init => NoTaskLost
  <2>1. Init => \A r \in Replica : ~Enqueued(r)
    BY ReplicaParts, PoolAssumption DEF Init, Enqueued, Index
  <2> QED BY <2>1 DEF NoTaskLost
<1>2. PoolInv /\ NoTaskLost => NeverStuck
  <2> SUFFICES ASSUME PoolInv, NoTaskLost, MainWaits PROVE PoolBusy
    BY DEF NeverStuck
  <2>1. CASE pc = "acquire" /\ permits = 0
    BY <2>1, PermitOwned
  <2>2. CASE pc = "collect" /\ futures # <<>> /\ ~Ready
    <3>1. Head(futures) \in Members(futures)
      BY <2>2, TailMembers DEF PoolInv, TypeOK
    <3>2. /\ Head(futures) \in Replica /\ Enqueued(Head(futures))
          /\ promise[Head(futures)] = "none"
      BY <2>2, <3>1 DEF Ready, PoolInv, FuturesSane
    <3>3. InHand(Head(futures))
      BY <3>2 DEF NoTaskLost
    <3> QED BY <3>3, PoolAssumption DEF InHand, PoolBusy, Members
  <2> QED BY <2>1, <2>2 DEF MainWaits
<1> QED BY <1>1, <1>2, NextNoTaskLost, PoolInvAlways, PTL DEF Spec
=============================================================================
