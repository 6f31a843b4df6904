---------------------------- MODULE Correlation -----------------------------
(***************************************************************************)
(* How a client learns which chunks to send.  FilterMissingChunks walks    *)
(* the hashes of the file and answers a list of plans; UploadFile walks    *)
(* the hashes again, with a second pointer into the plans, and takes the   *)
(* plan at the pointer for its own when the hashes agree.  Nothing says    *)
(* which position a plan is for, so a list that is out of step with the    *)
(* hashes would silently lose every plan after the first disagreement.     *)
(*                                                                         *)
(* A file may repeat a chunk, and between the statements of                *)
(* FilterMissingChunks other transactions change the rows it has not       *)
(* locked, so that two occurrences of one chunk may be answered            *)
(* differently.                                                            *)
(***************************************************************************)
EXTENDS Integers, Sequences

CONSTANTS
  Hash,
  Lists,    \* the lists of hashes a file may have
  Others    \* whether other transactions run

ASSUME CorrelationAssumption == Lists \subseteq Seq(Hash) /\ Others \in BOOLEAN

VARIABLES
  chunk_hashes,  \* manifest.chunk_hashes
  completed,     \* positions set in manifest.completed_chunks
  status,        \* the committed row of each chunk, as far as it matters here
  locked,        \* rows FilterMissingChunks has inserted or updated
  pc,            \* "select", "touch", "walk", "done" or "failed"
  i,             \* position of the loop that runs
  seen,          \* the status the last SELECT returned
  plans,         \* missing_plans, then upload_plans: their hashes
  origin,        \* history: the position each plan was made for
  plan_idx,      \* the client's pointer into the plans, from 1
  tasks          \* positions in pending_tasks

vars == <<chunk_hashes, completed, status, locked, pc, i, seen, plans, origin,
          plan_idx, tasks>>

Status == {"absent", "pending", "used", "tombstone"}

TypeOK ==
  /\ chunk_hashes \in Lists
  /\ completed \subseteq DOMAIN chunk_hashes
  /\ status \in [Hash -> Status] /\ locked \subseteq Hash
  /\ pc \in {"select", "touch", "walk", "done", "failed"}
  /\ i \in 1..(Len(chunk_hashes) + 1) /\ (pc = "touch" => i <= Len(chunk_hashes))
  /\ seen \in Status
  /\ plans \in Seq(Hash)
  /\ origin \in Seq(DOMAIN chunk_hashes) /\ Len(origin) = Len(plans)
  /\ plan_idx \in 1..(Len(plans) + 1)
  /\ tasks \subseteq DOMAIN chunk_hashes

Init ==
  /\ chunk_hashes \in Lists
  /\ completed \in SUBSET DOMAIN chunk_hashes
  /\ status \in [Hash -> Status]
  /\ locked = {}
  /\ pc = "select" /\ i = 1 /\ seen = "absent"
  /\ plans = <<>> /\ origin = <<>>
  /\ plan_idx = 1 /\ tasks = {}

-----------------------------------------------------------------------------
(* FilterMissingChunks, on the master.                                     *)

\* SELECT ref_count .. of the chunk the loop is at; a tombstone and a bucket
\* without a cluster make it throw.
Select ==
  /\ pc = "select" /\ i <= Len(chunk_hashes)
  /\ LET now == status[chunk_hashes[i]]
     IN /\ seen' = now
        /\ \/ now # "tombstone" /\ pc' = "touch"
           \/ now \in {"tombstone", "absent"} /\ pc' = "failed"
  /\ UNCHANGED <<chunk_hashes, completed, status, locked, i, plans, origin, plan_idx, tasks>>

\* Variant for mutation: the plans are collected in the opposite order.
Touch_prepends ==
  /\ pc = "touch"
  /\ IF seen \in {"absent", "pending"}
     THEN plans' = <<chunk_hashes[i]>> \o plans /\ origin' = <<i>> \o origin
     ELSE UNCHANGED <<plans, origin>>
  /\ pc' = "select" /\ i' = i + 1
  /\ UNCHANGED <<chunk_hashes, completed, status, locked, seen, plan_idx, tasks>>

\* INSERT .. ON CONFLICT DO NOTHING if there was no row, UPDATE .. created_at
\* if there was one: either locks the row it writes, and the row may have come
\* or gone since the SELECT.  A plan is made if the chunk was missing then.
Touch ==
  /\ pc = "touch"
  /\ LET h == chunk_hashes[i]
     IN /\ IF (seen = "absent") = (status[h] = "absent")
           THEN locked' = locked \cup {h}
           ELSE UNCHANGED locked
        /\ status' = IF seen = "absent" /\ status[h] = "absent"
                     THEN [status EXCEPT ![h] = "pending"] ELSE status
        /\ IF seen \in {"absent", "pending"}
           THEN plans' = Append(plans, h) /\ origin' = Append(origin, i)
           ELSE UNCHANGED <<plans, origin>>
  /\ pc' = "select" /\ i' = i + 1
  /\ UNCHANGED <<chunk_hashes, completed, seen, plan_idx, tasks>>

\* The transaction commits and the client gets the plans.
Answer ==
  /\ pc = "select" /\ i > Len(chunk_hashes)
  /\ pc' = "walk" /\ i' = 1
  /\ locked' = {}
  /\ UNCHANGED <<chunk_hashes, completed, status, seen, plans, origin, plan_idx, tasks>>

\* What other transactions do to a row that is not locked: upload-inits and
\* reverted tombstones make it pending, commits make it used, removals pending
\* again, collectors a tombstone and then nothing.
Interfere(h) ==
  /\ Others /\ pc \in {"select", "touch"} /\ h \notin locked
  /\ \E to \in Status :
       /\ <<status[h], to>> \in {<<"absent", "pending">>, <<"pending", "used">>,
                                 <<"used", "pending">>, <<"pending", "tombstone">>,
                                 <<"tombstone", "pending">>, <<"tombstone", "absent">>}
       /\ status' = [status EXCEPT ![h] = to]
  /\ UNCHANGED <<chunk_hashes, completed, locked, pc, i, seen, plans, origin, plan_idx, tasks>>

-----------------------------------------------------------------------------
(* The two-pointer walk of UploadFile.                                     *)

InWalk == pc = "walk" /\ i <= Len(chunk_hashes) /\ plan_idx <= Len(plans)

\* Variant for mutation: the plan of a completed chunk is not stepped over.
Match_completedStays ==
  /\ InWalk /\ chunk_hashes[i] = plans[plan_idx]
  /\ i' = i + 1
  /\ IF i \notin completed
     THEN tasks' = tasks \cup {i} /\ plan_idx' = plan_idx + 1
     ELSE UNCHANGED <<tasks, plan_idx>>
  /\ UNCHANGED <<chunk_hashes, completed, status, locked, pc, seen, plans, origin>>

\* The hashes agree: the plan is this position's.
Match ==
  /\ InWalk /\ chunk_hashes[i] = plans[plan_idx]
  /\ tasks' = IF i \in completed THEN tasks ELSE tasks \cup {i}
  /\ plan_idx' = plan_idx + 1
  /\ i' = i + 1
  /\ UNCHANGED <<chunk_hashes, completed, status, locked, pc, seen, plans, origin>>

Skip ==
  /\ InWalk /\ chunk_hashes[i] # plans[plan_idx]
  /\ i' = i + 1
  /\ UNCHANGED <<chunk_hashes, completed, status, locked, pc, seen, plans, origin, plan_idx, tasks>>

EndWalk ==
  /\ pc = "walk" /\ ~InWalk
  /\ pc' = "done"
  /\ UNCHANGED <<chunk_hashes, completed, status, locked, i, seen, plans, origin, plan_idx, tasks>>

Next == \/ Select \/ Touch \/ Answer \/ Match \/ Skip \/ EndWalk
        \/ \E h \in Hash : Interfere(h)

Spec == Init /\ [][Next]_vars

-----------------------------------------------------------------------------
\* The pointer reaches the end of the plans: none is left over because the
\* walk fell out of step, whatever other transactions did in between.
PlansConsumed == pc = "done" => plan_idx = Len(plans) + 1

\* Every chunk the master asked for is sent from some position, unless the
\* position its plan was matched with is one the log has as completed.
MissingSent ==
  pc = "done" =>
    \A k \in DOMAIN plans : \E j \in tasks \cup completed :
      j \in DOMAIN chunk_hashes /\ chunk_hashes[j] = plans[k]

\* Every occurrence of a chunk that is in the plans was answered with a plan.
AllAnswered ==
  \A j \in DOMAIN chunk_hashes :
    (\E k \in DOMAIN plans : plans[k] = chunk_hashes[j]) => \E k \in DOMAIN plans : origin[k] = j

\* When all occurrences of a chunk were answered alike, the walk recovers the
\* position of every plan, so that what is sent are the incomplete positions
\* of the missing chunks: the set UploadClient uses.
WalkExact ==
  pc = "done" /\ AllAnswered =>
    tasks = {j \in DOMAIN chunk_hashes :
               j \notin completed /\ \E k \in DOMAIN plans : plans[k] = chunk_hashes[j]}

-----------------------------------------------------------------------------
\* The plans are in the order of the positions they were made for ..
PlansInOrder ==
  /\ \A k \in DOMAIN plans : chunk_hashes[origin[k]] = plans[k]
  /\ \A k, l \in DOMAIN plans : k < l => origin[k] < origin[l]
  /\ pc \in {"select", "touch"} => \A k \in DOMAIN plans : origin[k] < i
  /\ pc \in {"select", "touch"} => plan_idx = 1 /\ tasks = {}

\* .. the walk is never past the position of a plan it has not matched ..
WalkBehind ==
  pc \in {"walk", "done"} => \A k \in DOMAIN plans : k >= plan_idx => origin[k] >= i

\* .. and every plan it has matched is sent or completed.
MatchedServed ==
  /\ \A k \in DOMAIN plans : k < plan_idx =>
       \E j \in tasks \cup completed : j \in DOMAIN chunk_hashes /\ chunk_hashes[j] = plans[k]
  /\ pc = "done" => i > Len(chunk_hashes) \/ plan_idx > Len(plans)

\* When every occurrence was answered alike, it has matched each plan with the
\* position it was made for.
TasksSoFar ==
  /\ \A j \in tasks : j \notin completed /\ \E k \in DOMAIN plans : plans[k] = chunk_hashes[j]
  /\ pc \in {"walk", "done"} /\ AllAnswered =>
       \A k \in DOMAIN plans : k < plan_idx => origin[k] \in tasks \cup completed /\ origin[k] < i

\* The inductive invariant.
CorrelationInv == TypeOK /\ PlansInOrder /\ WalkBehind /\ MatchedServed /\ TasksSoFar
=============================================================================
