------------------------- MODULE CorrelationProofs --------------------------
(***************************************************************************)
(* The walk of UploadFile never falls out of step with the plans, for      *)
(* every list of hashes and whatever other transactions do.                *)
(***************************************************************************)
EXTENDS Correlation, TLAPS

\* What TypeOK says of the positions, in the form the proofs use it.
LEMMA Positions ==
  ASSUME TypeOK
  PROVE  /\ chunk_hashes \in Seq(Hash) /\ Len(chunk_hashes) \in Nat
         /\ DOMAIN chunk_hashes = 1..Len(chunk_hashes)
         /\ Len(plans) \in Nat /\ DOMAIN plans = 1..Len(plans)
         /\ DOMAIN origin = DOMAIN plans
         /\ i \in Nat /\ plan_idx \in Nat
         /\ \A k \in DOMAIN plans : origin[k] \in DOMAIN chunk_hashes
BY CorrelationAssumption DEF TypeOK

LEMMA InitHolds == Init => CorrelationInv
<1> SUFFICES ASSUME Init PROVE CorrelationInv
  OBVIOUS
<1>1. chunk_hashes \in Seq(Hash)
  BY CorrelationAssumption DEF Init
<1>2. TypeOK
  BY <1>1 DEF Init, TypeOK, Status
<1> QED
  BY <1>2 DEF Init, CorrelationInv, PlansInOrder, WalkBehind, MatchedServed, TasksSoFar

\* A step that leaves the plans, the pointers and the tasks alone and the phase
\* in the filter keeps the invariant if it keeps the types.
LEMMA FilterFrame ==
  ASSUME CorrelationInv, TypeOK', pc \in {"select", "touch"},
         pc' \in {"select", "touch", "failed"},
         UNCHANGED <<chunk_hashes, completed, i, plans, origin, plan_idx, tasks>>
  PROVE  CorrelationInv'
BY DEF CorrelationInv, PlansInOrder, WalkBehind, MatchedServed, TasksSoFar

LEMMA TouchHolds == CorrelationInv /\ Touch => CorrelationInv'
<1> SUFFICES ASSUME CorrelationInv, Touch PROVE CorrelationInv'
  OBVIOUS
<1>1. TypeOK /\ PlansInOrder
  BY DEF CorrelationInv
<1>2. /\ pc = "touch" /\ pc' = "select" /\ i' = i + 1 /\ i \in DOMAIN chunk_hashes
      /\ chunk_hashes[i] \in Hash
      /\ UNCHANGED <<chunk_hashes, completed, plan_idx, tasks>>
  BY <1>1, Positions DEF Touch, TypeOK
<1>3. CASE UNCHANGED <<plans, origin>>
  <2>1. TypeOK'
    BY <1>1, <1>2, <1>3, Positions DEF Touch, TypeOK, Status
  <2> QED
    BY <1>1, <1>2, <1>3, <2>1, Positions
    DEF CorrelationInv, PlansInOrder, WalkBehind, MatchedServed, TasksSoFar
<1>4. CASE plans' = Append(plans, chunk_hashes[i]) /\ origin' = Append(origin, i)
  <2>1. /\ plans' \in Seq(Hash) /\ origin' \in Seq(DOMAIN chunk_hashes)
        /\ Len(plans') = Len(plans) + 1 /\ Len(origin') = Len(plans) + 1
        /\ DOMAIN plans' = 1..(Len(plans) + 1)
        /\ \A k \in DOMAIN plans : plans'[k] = plans[k] /\ origin'[k] = origin[k]
        /\ plans'[Len(plans) + 1] = chunk_hashes[i] /\ origin'[Len(plans) + 1] = i
    BY <1>1, <1>2, <1>4, Positions DEF TypeOK
  <2>2. TypeOK'
    <3>1. status' \in [Hash -> Status] /\ locked' \subseteq Hash /\ seen' \in Status
      BY <1>1, <1>2 DEF Touch, TypeOK, Status
    <3>2. i' \in 1..(Len(chunk_hashes) + 1) /\ plan_idx' \in 1..(Len(plans') + 1)
      BY <1>1, <1>2, <2>1, Positions DEF TypeOK
    <3> QED
      BY <1>1, <1>2, <2>1, <3>1, <3>2 DEF TypeOK
  <2>3. PlansInOrder'
    <3>1. ASSUME NEW k \in DOMAIN plans' PROVE k \in DOMAIN plans \/ k = Len(plans) + 1
      BY <2>1, Positions, <1>1
    <3>2. \A k \in DOMAIN plans' : chunk_hashes'[origin'[k]] = plans'[k] /\ origin'[k] < i'
      BY <1>1, <1>2, <2>1, <3>1, Positions DEF PlansInOrder
    <3>3. ASSUME NEW k \in DOMAIN plans', NEW l \in DOMAIN plans', k < l
          PROVE  origin'[k] < origin'[l]
      <4>1. k \in DOMAIN plans
        BY <1>1, <2>1, <3>3, Positions
      <4>2. CASE l \in DOMAIN plans
        BY <1>1, <2>1, <3>3, <4>1, <4>2 DEF PlansInOrder
      <4>3. CASE l = Len(plans) + 1
        BY <1>1, <1>2, <2>1, <4>1, <4>3 DEF PlansInOrder
      <4> QED
        BY <3>1, <4>2, <4>3
    <3> QED
      BY <1>1, <1>2, <3>2, <3>3 DEF PlansInOrder
  <2> QED
    BY <1>1, <1>2, <2>1, <2>2, <2>3
    DEF CorrelationInv, PlansInOrder, WalkBehind, MatchedServed, TasksSoFar
<1> QED
  BY <1>3, <1>4 DEF Touch

\* The walk starts behind every plan.
LEMMA AnswerHolds == CorrelationInv /\ Answer => CorrelationInv'
<1> SUFFICES ASSUME CorrelationInv, Answer PROVE CorrelationInv'
  OBVIOUS
<1>1. TypeOK /\ PlansInOrder /\ plan_idx = 1 /\ tasks = {}
  BY DEF CorrelationInv, PlansInOrder, Answer
<1>2. TypeOK'
  BY <1>1, Positions DEF Answer, TypeOK
<1> QED
  BY <1>1, <1>2, Positions
  DEF Answer, CorrelationInv, PlansInOrder, WalkBehind, MatchedServed, TasksSoFar

\* The position of the plan at the pointer is here or ahead, the later plans are
\* further ahead: with an earlier match they stay ahead.
LEMMA MatchHolds == CorrelationInv /\ Match => CorrelationInv'
<1> SUFFICES ASSUME CorrelationInv, Match PROVE CorrelationInv'
  OBVIOUS
<1>1. TypeOK /\ PlansInOrder /\ WalkBehind /\ MatchedServed /\ TasksSoFar
  BY DEF CorrelationInv
<1>2. /\ pc = "walk" /\ pc' = pc /\ i' = i + 1 /\ plan_idx' = plan_idx + 1
      /\ i \in DOMAIN chunk_hashes /\ plan_idx \in DOMAIN plans
      /\ chunk_hashes[i] = plans[plan_idx]
      /\ i \in tasks' \cup completed /\ tasks \subseteq tasks'
      /\ \A j \in tasks' : j \in tasks \/ (j = i /\ i \notin completed)
      /\ UNCHANGED <<chunk_hashes, completed, status, locked, seen, plans, origin>>
  BY <1>1, Positions DEF Match, InWalk, TypeOK
<1>3. TypeOK'
  <2>1. i' \in 1..(Len(chunk_hashes) + 1) /\ plan_idx' \in 1..(Len(plans) + 1)
    BY <1>1, <1>2, Positions
  <2>2. tasks' \subseteq DOMAIN chunk_hashes
    BY <1>1, <1>2 DEF TypeOK
  <2> QED
    BY <1>1, <1>2, <2>1, <2>2 DEF TypeOK
<1>4. PlansInOrder'
  BY <1>1, <1>2 DEF PlansInOrder
<1>5. WalkBehind'
  <2> SUFFICES ASSUME NEW k \in DOMAIN plans, k >= plan_idx + 1 PROVE origin[k] >= i + 1
    BY <1>2 DEF WalkBehind
  <2>1. origin[plan_idx] >= i
    BY <1>1, <1>2, Positions DEF WalkBehind
  <2>2. origin[plan_idx] < origin[k]
    BY <1>1, <1>2, Positions DEF PlansInOrder
  <2> QED
    BY <1>1, <1>2, <2>1, <2>2, Positions
<1>6. MatchedServed'
  <2> SUFFICES ASSUME NEW k \in DOMAIN plans, k < plan_idx + 1
               PROVE  \E j \in tasks' \cup completed :
                        j \in DOMAIN chunk_hashes /\ chunk_hashes[j] = plans[k]
    BY <1>2 DEF MatchedServed
  <2>1. CASE k < plan_idx
    BY <1>1, <1>2, <2>1 DEF MatchedServed
  <2>2. CASE k = plan_idx
    BY <1>2, <2>2
  <2> QED
    BY <1>1, <1>2, <2>1, <2>2, Positions
<1>7. TasksSoFar'
  <2>1. \A j \in tasks' : j \notin completed /\ \E k \in DOMAIN plans : plans[k] = chunk_hashes[j]
    BY <1>1, <1>2 DEF TasksSoFar
  <2>2. ASSUME AllAnswered, NEW k \in DOMAIN plans, k < plan_idx + 1
        PROVE  origin[k] \in tasks' \cup completed /\ origin[k] < i + 1
    <3>1. CASE k < plan_idx
      BY <1>1, <1>2, <2>2, <3>1, Positions DEF TasksSoFar
    <3>2. CASE k = plan_idx
      <4>1. PICK l \in DOMAIN plans : origin[l] = i
        BY <1>2, <2>2 DEF AllAnswered
      <4>2. l = plan_idx
        <5>1. ~(l < plan_idx)
          BY <1>1, <1>2, <2>2, <4>1, Positions DEF TasksSoFar
        <5>2. ~(plan_idx < l)
          BY <1>1, <1>2, <4>1, Positions DEF PlansInOrder, WalkBehind
        <5> QED
          BY <1>1, <1>2, <5>1, <5>2, Positions
      <4> QED
        BY <1>1, <1>2, <3>2, <4>1, <4>2, Positions
    <3> QED
      BY <1>1, <1>2, <2>2, <3>1, <3>2, Positions
  <2> QED
    BY <1>2, <2>1, <2>2 DEF TasksSoFar, AllAnswered
<1> QED
  BY <1>3, <1>4, <1>5, <1>6, <1>7 DEF CorrelationInv

\* The plan at the pointer is not for this position, since the hashes differ:
\* it is further ahead.
LEMMA SkipHolds == CorrelationInv /\ Skip => CorrelationInv'
<1> SUFFICES ASSUME CorrelationInv, Skip PROVE CorrelationInv'
  OBVIOUS
<1>1. TypeOK /\ PlansInOrder /\ WalkBehind /\ MatchedServed /\ TasksSoFar
  BY DEF CorrelationInv
<1>2. /\ pc = "walk" /\ pc' = pc /\ i' = i + 1
      /\ i \in DOMAIN chunk_hashes /\ plan_idx \in DOMAIN plans
      /\ chunk_hashes[i] # plans[plan_idx]
      /\ UNCHANGED <<chunk_hashes, completed, status, locked, seen, plans, origin, plan_idx, tasks>>
  BY <1>1, Positions DEF Skip, InWalk, TypeOK
<1>3. TypeOK'
  <2>1. i' \in 1..(Len(chunk_hashes) + 1)
    BY <1>1, <1>2, Positions
  <2> QED
    BY <1>1, <1>2, <2>1 DEF TypeOK
<1>4. PlansInOrder'
  BY <1>1, <1>2 DEF PlansInOrder
<1>5. WalkBehind'
  <2> SUFFICES ASSUME NEW k \in DOMAIN plans, k >= plan_idx PROVE origin[k] >= i + 1
    BY <1>2 DEF WalkBehind
  <2>1. origin[plan_idx] >= i /\ origin[plan_idx] # i
    BY <1>1, <1>2, Positions DEF WalkBehind, PlansInOrder
  <2>2. k = plan_idx \/ origin[plan_idx] < origin[k]
    BY <1>1, <1>2, Positions DEF PlansInOrder
  <2> QED
    BY <1>1, <1>2, <2>1, <2>2, Positions
<1>6. MatchedServed'
  BY <1>1, <1>2 DEF MatchedServed
<1>7. TasksSoFar'
  BY <1>1, <1>2, Positions DEF TasksSoFar, AllAnswered
<1> QED
  BY <1>3, <1>4, <1>5, <1>6, <1>7 DEF CorrelationInv

LEMMA EndWalkHolds == CorrelationInv /\ EndWalk => CorrelationInv'
<1> SUFFICES ASSUME CorrelationInv, EndWalk PROVE CorrelationInv'
  OBVIOUS
<1>1. TypeOK /\ PlansInOrder /\ WalkBehind /\ MatchedServed /\ TasksSoFar
  BY DEF CorrelationInv
<1>2. /\ pc = "walk" /\ pc' = "done"
      /\ i > Len(chunk_hashes) \/ plan_idx > Len(plans)
      /\ UNCHANGED <<chunk_hashes, completed, status, locked, i, seen, plans, origin, plan_idx, tasks>>
  BY <1>1, Positions DEF EndWalk, InWalk
<1>3. TypeOK' /\ PlansInOrder' /\ WalkBehind'
  BY <1>1, <1>2 DEF TypeOK, PlansInOrder, WalkBehind
<1>4. MatchedServed'
  BY <1>1, <1>2 DEF MatchedServed
<1>5. TasksSoFar'
  BY <1>1, <1>2 DEF TasksSoFar, AllAnswered
<1> QED
  BY <1>3, <1>4, <1>5 DEF CorrelationInv

LEMMA NextHolds == CorrelationInv /\ [Next]_vars => CorrelationInv'
<1> SUFFICES ASSUME CorrelationInv, [Next]_vars PROVE CorrelationInv'
  OBVIOUS
<1>1. CASE Select
  <2>1. TypeOK'
    BY <1>1, Positions DEF CorrelationInv, Select, TypeOK, Status
  <2> QED
    BY <1>1, <2>1, FilterFrame DEF Select
<1>2. ASSUME NEW h \in Hash, Interfere(h) PROVE CorrelationInv'
  <2>1. TypeOK'
    BY <1>2 DEF CorrelationInv, Interfere, TypeOK
  <2> QED
    BY <1>2, <2>1, FilterFrame DEF Interfere
<1>3. CASE UNCHANGED vars
  BY <1>3 DEF vars, CorrelationInv, TypeOK, PlansInOrder, WalkBehind, MatchedServed,
              TasksSoFar, AllAnswered
<1> QED
  BY <1>1, <1>2, <1>3, TouchHolds, AnswerHolds, MatchHolds, SkipHolds, EndWalkHolds DEF Next

\* The inductive invariant of the filter and the walk holds in every state.
THEOREM InStep == Spec => []CorrelationInv
BY InitHolds, NextHolds, PTL DEF Spec

LEMMA InvConsumes == CorrelationInv => PlansConsumed
<1> SUFFICES ASSUME CorrelationInv, pc = "done", plan_idx # Len(plans) + 1 PROVE FALSE
  BY DEF PlansConsumed
<1>1. plan_idx \in DOMAIN plans /\ i > Len(chunk_hashes)
  BY Positions DEF CorrelationInv, MatchedServed, TypeOK
<1>2. origin[plan_idx] >= i
  BY <1>1, Positions DEF CorrelationInv, WalkBehind
<1> QED
  BY <1>1, <1>2, Positions DEF CorrelationInv

LEMMA InvSends == CorrelationInv => MissingSent
<1> SUFFICES ASSUME CorrelationInv, pc = "done", NEW k \in DOMAIN plans
             PROVE  k < plan_idx
  BY DEF CorrelationInv, MatchedServed, MissingSent
<1> QED
  BY InvConsumes, Positions DEF CorrelationInv, PlansConsumed

LEMMA InvExact == CorrelationInv => WalkExact
<1> SUFFICES ASSUME CorrelationInv, pc = "done", AllAnswered
             PROVE  tasks = {j \in DOMAIN chunk_hashes :
                               j \notin completed /\ \E k \in DOMAIN plans : plans[k] = chunk_hashes[j]}
  BY DEF WalkExact
<1>1. ASSUME NEW j \in DOMAIN chunk_hashes, j \notin completed,
             \E k \in DOMAIN plans : plans[k] = chunk_hashes[j]
      PROVE  j \in tasks
  <2>1. PICK k \in DOMAIN plans : origin[k] = j
    BY <1>1 DEF AllAnswered
  <2>2. k < plan_idx
    BY InvConsumes, Positions DEF CorrelationInv, PlansConsumed
  <2> QED
    BY <1>1, <2>1, <2>2 DEF CorrelationInv, TasksSoFar
<1> QED
  BY <1>1 DEF CorrelationInv, TasksSoFar, TypeOK

\* The client's second pointer reaches the end of the plans: for no list of
\* hashes, set of completed chunks or interleaving is a plan dropped.
THEOREM NoPlanDropped == Spec => []PlansConsumed
BY InStep, InvConsumes, PTL

\* Every chunk the master asked for is sent or was logged as completed.
THEOREM AskedIsSent == Spec => []MissingSent
BY InStep, InvSends, PTL

\* The walk computes the set of positions UploadClient takes it to compute.
THEOREM WalkIsExact == Spec => []WalkExact
BY InStep, InvExact, PTL
=============================================================================
