-------------------------- MODULE TaskQueueProofs --------------------------
(***************************************************************************)
(* Theorems about TaskQueue for any set of tasks and workers and any       *)
(* bounds.                                                                 *)
(***************************************************************************)
EXTENDS TaskQueue, FiniteSetTheorems, TLAPS

USE TasksAssumption, BoundsAssumption

(***************************************************************************)
(* Lemmas                                                                  *)
(***************************************************************************)

\* The retry delay stays within the cap.
LEMMA BackoffBounded == \A n \in Nat : Backoff(n) \in 0 .. BackoffCap
  BY DEF Backoff

\* The saturating attempt counter stays in range and never decreases.
LEMMA BumpBounded ==
  \A n \in 0 .. MaxAttempts + 1 :
    Bump(n) \in 0 .. MaxAttempts + 1 /\ n <= Bump(n)
  BY DEF Bump

\* A row's rank in the creation order is a natural number.
LEMMA ExistingCardinality == Cardinality(Existing) \in Nat
  <1>1. Existing \subseteq Tasks
    BY DEF Existing
  <1>2. QED
    BY <1>1, FS_Subset, FS_CardinalityType

(***************************************************************************)
(* The invariant behind every safety theorem below.  A scanning worker     *)
(* holds an accepted task, and its copy of the attempts is not ahead of    *)
(* the row's.                                                              *)
(***************************************************************************)

HoldsTask ==
  \A w \in Workers :
    pc[w] = "scanning" => /\ held[w] \in Tasks
                          /\ status[held[w]] # "absent"
                          /\ seen[w] <= attempts[held[w]]

IInv == TypeOK /\ HoldsTask /\ CompletedWasDelivered /\ FailedOnlyWhenExhausted

LEMMA IInvInit == Init => IInv
  BY DEF Init, IInv, TypeOK, HoldsTask, CompletedWasDelivered,
         FailedOnlyWhenExhausted, TaskStatus, WorkerState

\* The invariant is preserved by every step: one step per action.
LEMMA IInvStep == IInv /\ [Next]_vars => IInv'
  <1> SUFFICES ASSUME IInv, [Next]_vars
               PROVE  IInv'
    OBVIOUS
  <1> USE DEF IInv, TaskStatus, WorkerState, rows, loops, faults
  <1>1. ASSUME NEW t \in Tasks, Enqueue(t)
        PROVE  IInv'
    <2>1. CASE status[t] = "absent"
      <3>1. TypeOK'
        BY <1>1, <2>1, ExistingCardinality DEF Enqueue, TypeOK
      <3>2. HoldsTask' /\ CompletedWasDelivered' /\ FailedOnlyWhenExhausted'
        BY <1>1, <2>1 DEF Enqueue, TypeOK, HoldsTask, CompletedWasDelivered,
                          FailedOnlyWhenExhausted
      <3>3. QED
        BY <3>1, <3>2
    <2>2. CASE status[t] # "absent"
      BY <1>1, <2>2 DEF Enqueue, TypeOK, HoldsTask, CompletedWasDelivered,
                        FailedOnlyWhenExhausted
    <2>3. QED
      BY <2>1, <2>2
  <1>2. ASSUME NEW w \in Workers, Claim(w)
        PROVE  IInv'
    <2>1. PICK t \in OldestDue :
            /\ status' = [u \in Tasks |-> IF u = t THEN "running"
                                          ELSE IF u \in Stale THEN "pending"
                                          ELSE status[u]]
            /\ wait' = [u \in Tasks |-> IF u \in Stale THEN 0 ELSE wait[u]]
            /\ age' = [age EXCEPT ![t] = 0]
            /\ attempts' = [attempts EXCEPT ![t] = Bump(@)]
            /\ pc' = [pc EXCEPT ![w] = "scanning"]
            /\ held' = [held EXCEPT ![w] = t]
            /\ seen' = [seen EXCEPT ![w] = Bump(attempts[t])]
      BY <1>2 DEF Claim
    <2>2. t \in Tasks /\ status[t] \in {"pending", "running"}
      BY DEF OldestDue, Due, Stale
    <2>3. Bump(attempts[t]) \in 0 .. MaxAttempts + 1
          /\ attempts[t] <= Bump(attempts[t])
      BY <2>2, BumpBounded DEF TypeOK
    <2>4. UNCHANGED <<born, delivered, crashes, dbErrors>>
      BY <1>2 DEF Claim
    <2>5. TypeOK'
      BY <2>1, <2>2, <2>3, <2>4 DEF TypeOK
    <2>6. HoldsTask'
      BY <2>1, <2>2, <2>3 DEF TypeOK, HoldsTask
    <2>7. CompletedWasDelivered'
      BY <2>1, <2>2, <2>4 DEF TypeOK, CompletedWasDelivered
    <2>8. FailedOnlyWhenExhausted'
      BY <2>1, <2>2, <2>3 DEF TypeOK, FailedOnlyWhenExhausted
    <2>9. QED
      BY <2>5, <2>6, <2>7, <2>8
  <1>3. ASSUME NEW w \in Workers, ScanOk(w)
        PROVE  IInv'
    <2>1. held[w] \in Tasks
      BY <1>3 DEF ScanOk, HoldsTask
    <2>2. TypeOK'
      BY <1>3, <2>1 DEF ScanOk, Complete, LetGo, TypeOK
    <2>3. HoldsTask'
      BY <1>3, <2>1 DEF ScanOk, Complete, LetGo, TypeOK, HoldsTask
    <2>4. CompletedWasDelivered' /\ FailedOnlyWhenExhausted'
      BY <1>3, <2>1 DEF ScanOk, Complete, LetGo, TypeOK, CompletedWasDelivered,
                        FailedOnlyWhenExhausted
    <2>5. QED
      BY <2>2, <2>3, <2>4
  <1>4. ASSUME NEW w \in Workers, ScanError(w)
        PROVE  IInv'
    <2>1. held[w] \in Tasks /\ seen[w] <= attempts[held[w]] /\ seen[w] \in Nat
      BY <1>4 DEF ScanError, HoldsTask, TypeOK
    <2>2. Backoff(seen[w]) \in 0 .. BackoffCap
      BY <2>1, BackoffBounded
    <2>3. TypeOK'
      BY <1>4, <2>1, <2>2 DEF ScanError, Fail, LetGo, TypeOK
    <2>4. HoldsTask'
      BY <1>4, <2>1 DEF ScanError, Fail, LetGo, TypeOK, HoldsTask
    <2>5. CompletedWasDelivered' /\ FailedOnlyWhenExhausted'
      BY <1>4, <2>1 DEF ScanError, Fail, LetGo, TypeOK, CompletedWasDelivered,
                        FailedOnlyWhenExhausted
    <2>6. QED
      BY <2>3, <2>4, <2>5
  <1>5. ASSUME NEW w \in Workers, DbError(w)
        PROVE  IInv'
    BY <1>5 DEF DbError, LetGo, TypeOK, HoldsTask, CompletedWasDelivered,
                FailedOnlyWhenExhausted
  <1>6. ASSUME NEW w \in Workers, Stop(w) \/ Crash(w) \/ Start(w)
        PROVE  IInv'
    BY <1>6 DEF Stop, Crash, Start, LetGo, TypeOK, HoldsTask,
                CompletedWasDelivered, FailedOnlyWhenExhausted
  <1>7. CASE Tick
    BY <1>7 DEF Tick, TypeOK, HoldsTask, CompletedWasDelivered,
                FailedOnlyWhenExhausted
  <1>8. CASE UNCHANGED vars
    BY <1>8 DEF vars, TypeOK, HoldsTask, CompletedWasDelivered,
                FailedOnlyWhenExhausted
  <1>9. QED
    BY <1>1, <1>2, <1>3, <1>4, <1>5, <1>6, <1>7, <1>8 DEF Next

\* The inductive invariant holds in every reachable state.
THEOREM Invariance == Spec => []IInv
  <1>1. QED
    BY IInvInit, IInvStep, PTL DEF Spec

\* The table, the loops and the counters keep their types.
THEOREM TypeCorrect == Spec => []TypeOK
  <1>1. IInv => TypeOK
    BY DEF IInv
  <1>2. QED
    BY <1>1, Invariance, PTL

\* A completed task was delivered, for any number of workers and crashes.
THEOREM CompletionTheorem == Spec => []CompletedWasDelivered
  <1>1. IInv => CompletedWasDelivered
    BY DEF IInv
  <1>2. QED
    BY <1>1, Invariance, PTL

\* A task is given up only after max_attempts claims.
THEOREM ExhaustionTheorem == Spec => []FailedOnlyWhenExhausted
  <1>1. IInv => FailedOnlyWhenExhausted
    BY DEF IInv
  <1>2. QED
    BY <1>1, Invariance, PTL

(***************************************************************************)
(* Verdicts are final.                                                     *)
(***************************************************************************)

\* A completed or failed row keeps its status in every step.
THEOREM FinalityTheorem == Spec => TerminalIsFinal
  <1> DEFINE Final == \A t \in Tasks : status[t] \in {"completed", "failed"} =>
                                         status'[t] = status[t]
  <1>1. ASSUME IInv, [Next]_vars
        PROVE  Final
    <2> USE <1>1 DEF IInv, rows, loops, faults
    <2>1. ASSUME NEW t \in Tasks, Enqueue(t)
          PROVE  Final
      BY <2>1 DEF Enqueue, TypeOK
    <2>2. ASSUME NEW w \in Workers, Claim(w)
          PROVE  Final
      BY <2>2 DEF Claim, OldestDue, Due, Stale, TypeOK
    <2>3. ASSUME NEW w \in Workers, ScanOk(w)
          PROVE  Final
      BY <2>3 DEF ScanOk, Complete, LetGo, TypeOK
    <2>4. ASSUME NEW w \in Workers, ScanError(w)
          PROVE  Final
      BY <2>4 DEF ScanError, Fail, LetGo, TypeOK
    <2>5. ASSUME NEW w \in Workers,
                 DbError(w) \/ Stop(w) \/ Crash(w) \/ Start(w)
          PROVE  Final
      BY <2>5 DEF DbError, Stop, Crash, Start
    <2>6. CASE Tick \/ UNCHANGED vars
      BY <2>6 DEF Tick, vars
    <2>7. QED
      BY <2>1, <2>2, <2>3, <2>4, <2>5, <2>6 DEF Next
  <1>2. QED
    BY <1>1, Invariance, PTL DEF Spec, TerminalIsFinal

(***************************************************************************)
(* The queue implements TaskLifecycle.                                     *)
(***************************************************************************)

\* The verdict a row tells, task by task.
LEMMA FateUnchanged ==
  ASSUME status' = status
  PROVE  fateOf' = fateOf
  BY DEF fateOf

LEMMA FateUpdate ==
  ASSUME TypeOK, NEW t \in Tasks, NEW s, status' = [status EXCEPT ![t] = s]
  PROVE  fateOf' = [fateOf EXCEPT ![t] = Verdict(s)]
  <1>1. status'[t] = s /\ \A u \in Tasks \ {t} : status'[u] = status[u]
    BY DEF TypeOK
  <1>2. fateOf' = [u \in Tasks |-> Verdict(status'[u])]
    BY DEF fateOf
  <1>3. fateOf = [u \in Tasks |-> Verdict(status[u])]
    BY DEF fateOf
  <1>4. [fateOf EXCEPT ![t] = Verdict(s)] =
          [u \in Tasks |-> IF u = t THEN Verdict(s) ELSE Verdict(status[u])]
    BY <1>3
  <1>5. \A u \in Tasks : Verdict(status'[u]) =
          IF u = t THEN Verdict(s) ELSE Verdict(status[u])
    BY <1>1
  <1>6. QED
    BY <1>2, <1>4, <1>5

\* Every behaviour of the queue and its workers is an abstract life of the
\* tasks: at-least-once delivery and one final verdict per dedupe key.
THEOREM RefinementTheorem == Spec => ImplementsLifecycle
  <1>1. Init => Lifecycle!Init
    BY DEF Init, Lifecycle!Init, fateOf, Verdict
  <1>2. ASSUME IInv, [Next]_vars
        PROVE  [Lifecycle!Next]_<<fateOf, delivered>>
    <2> USE <1>2 DEF IInv, rows, loops, faults, TaskStatus
    <2>1. ASSUME NEW t \in Tasks, Enqueue(t)
          PROVE  [Lifecycle!Next]_<<fateOf, delivered>>
      <3>1. CASE status[t] = "absent"
        <4>1. fateOf[t] = "unknown" /\ fateOf' = [fateOf EXCEPT ![t] = "accepted"]
          <5>1. status' = [status EXCEPT ![t] = "pending"]
            BY <2>1, <3>1 DEF Enqueue
          <5>2. fateOf' = [fateOf EXCEPT ![t] = Verdict("pending")]
            BY <2>1, <5>1, FateUpdate
          <5>3. QED
            BY <2>1, <3>1, <5>2 DEF fateOf, Verdict
        <4>2. Lifecycle!Accept(t)
          BY <2>1, <4>1 DEF Enqueue, Lifecycle!Accept
        <4>3. QED
          BY <4>2 DEF Lifecycle!Next
      <3>2. CASE status[t] # "absent"
        BY <2>1, <3>2, FateUnchanged DEF Enqueue
      <3>3. QED
        BY <3>1, <3>2
    <2>2. ASSUME NEW w \in Workers, Claim(w)
          PROVE  [Lifecycle!Next]_<<fateOf, delivered>>
      <3>1. fateOf' = fateOf
        BY <2>2 DEF Claim, OldestDue, Due, Stale, fateOf, Verdict, TypeOK
      <3>2. QED
        BY <2>2, <3>1 DEF Claim
    <2>3. ASSUME NEW w \in Workers, ScanOk(w)
          PROVE  [Lifecycle!Next]_<<fateOf, delivered>>
      <3>1. held[w] \in Tasks /\ status[held[w]] # "absent"
        BY <2>3 DEF ScanOk, HoldsTask
      <3>2. fateOf[held[w]] # "unknown" /\ delivered' = delivered \cup {held[w]}
        BY <2>3, <3>1 DEF ScanOk, fateOf, Verdict
      <3>3. CASE status[held[w]] = "running"
        <4>1. fateOf[held[w]] = "accepted"
              /\ fateOf' = [fateOf EXCEPT ![held[w]] = "done"]
          <5>1. status' = [status EXCEPT ![held[w]] = "completed"]
            BY <2>3, <3>3 DEF ScanOk, Complete
          <5>2. fateOf' = [fateOf EXCEPT ![held[w]] = Verdict("completed")]
            BY <3>1, <5>1, FateUpdate
          <5>3. QED
            BY <3>1, <3>3, <5>2 DEF fateOf, Verdict
        <4>2. Lifecycle!Deliver(held[w])
          BY <3>2, <4>1 DEF Lifecycle!Deliver
        <4>3. QED
          BY <3>1, <4>2 DEF Lifecycle!Next
      <3>4. CASE status[held[w]] # "running"
        <4>1. fateOf' = fateOf
          BY <2>3, <3>4, FateUnchanged DEF ScanOk, Complete
        <4>2. Lifecycle!Deliver(held[w])
          BY <3>2, <4>1 DEF Lifecycle!Deliver
        <4>3. QED
          BY <3>1, <4>2 DEF Lifecycle!Next
      <3>5. QED
        BY <3>3, <3>4
    <2>4. ASSUME NEW w \in Workers, ScanError(w)
          PROVE  [Lifecycle!Next]_<<fateOf, delivered>>
      <3>1. held[w] \in Tasks /\ delivered' = delivered
        BY <2>4 DEF ScanError, HoldsTask
      <3>2. CASE status[held[w]] = "running" /\ seen[w] < MaxAttempts
        <4>1. fateOf' = fateOf
          BY <2>4, <3>1, <3>2 DEF ScanError, Fail, fateOf, Verdict, TypeOK
        <4>2. QED
          BY <3>1, <4>1
      <3>3. CASE status[held[w]] = "running" /\ ~(seen[w] < MaxAttempts)
        <4>1. status' = [status EXCEPT ![held[w]] = "failed"]
          BY <2>4, <3>3 DEF ScanError, Fail
        <4>2. fateOf[held[w]] = "accepted"
              /\ fateOf' = [fateOf EXCEPT ![held[w]] = "given_up"]
          BY <3>1, <3>3, <4>1 DEF fateOf, Verdict, TypeOK
        <4>3. Lifecycle!GiveUp(held[w])
          BY <3>1, <4>2 DEF Lifecycle!GiveUp
        <4>4. QED
          BY <3>1, <4>3 DEF Lifecycle!Next
      <3>4. CASE status[held[w]] # "running"
        <4>1. fateOf' = fateOf
          BY <2>4, <3>4, FateUnchanged DEF ScanError, Fail
        <4>2. QED
          BY <3>1, <4>1
      <3>5. QED
        BY <3>2, <3>3, <3>4
    <2>5. ASSUME NEW w \in Workers, DbError(w)
          PROVE  [Lifecycle!Next]_<<fateOf, delivered>>
      <3>1. fateOf' = fateOf
        BY <2>5, FateUnchanged DEF DbError
      <3>2. CASE UNCHANGED delivered
        BY <3>1, <3>2
      <3>3. CASE pc[w] = "scanning" /\ delivered' = delivered \cup {held[w]}
        <4>1. held[w] \in Tasks /\ fateOf[held[w]] # "unknown"
          BY <3>3 DEF HoldsTask, fateOf, Verdict
        <4>2. Lifecycle!Deliver(held[w])
          BY <3>1, <3>3, <4>1 DEF Lifecycle!Deliver
        <4>3. QED
          BY <4>1, <4>2 DEF Lifecycle!Next
      <3>4. QED
        BY <2>5, <3>2, <3>3 DEF DbError
    <2>6. ASSUME NEW w \in Workers, Stop(w) \/ Crash(w) \/ Start(w)
          PROVE  [Lifecycle!Next]_<<fateOf, delivered>>
      BY <2>6, FateUnchanged DEF Stop, Crash, Start
    <2>7. CASE Tick \/ UNCHANGED vars
      BY <2>7, FateUnchanged DEF Tick, vars
    <2>8. QED
      BY <2>1, <2>2, <2>3, <2>4, <2>5, <2>6, <2>7 DEF Next
  <1>3. QED
    BY <1>1, <1>2, Invariance, PTL DEF Spec, ImplementsLifecycle, Lifecycle!Spec

(***************************************************************************)
(* Exclusive ownership.  It needs the assumption that no scan outlives the *)
(* visibility timeout; the queue has no other means to fence a worker off. *)
(***************************************************************************)

\* A claim in use is fresh, its row is running, and nobody else has it.
FreshClaims ==
  /\ ExclusiveOwner
  /\ \A w \in Workers : pc[w] = "scanning" =>
       status[held[w]] = "running" /\ age[held[w]] < Visibility

\* While no scan outlives the visibility timeout, every claim in use is fresh.
THEOREM FreshnessTheorem ==
  ASSUME ~SlowScans
  PROVE  Spec => []FreshClaims
  <1>1. Init => FreshClaims
    BY DEF Init, FreshClaims, ExclusiveOwner
  <1>2. ASSUME IInv, FreshClaims, [Next]_vars
        PROVE  FreshClaims'
    <2> USE <1>2 DEF IInv, rows, loops, faults, FreshClaims, ExclusiveOwner
    <2>1. ASSUME NEW t \in Tasks, Enqueue(t)
          PROVE  FreshClaims'
      BY <2>1 DEF Enqueue, TypeOK, HoldsTask
    <2>2. ASSUME NEW w \in Workers, Claim(w)
          PROVE  FreshClaims'
      <3>1. PICK t \in OldestDue :
              /\ status' = [u \in Tasks |-> IF u = t THEN "running"
                                            ELSE IF u \in Stale THEN "pending"
                                            ELSE status[u]]
              /\ age' = [age EXCEPT ![t] = 0]
              /\ pc' = [pc EXCEPT ![w] = "scanning"]
              /\ held' = [held EXCEPT ![w] = t]
        BY <2>2 DEF Claim
      <3>2. \A v \in Workers :
              pc[v] = "scanning" => held[v] # t /\ held[v] \notin Stale
        BY DEF OldestDue, Due, Stale, HoldsTask, TypeOK
      <3>3. t \in Tasks
        BY DEF OldestDue, Due, Stale
      <3>4. QED
        BY <3>1, <3>2, <3>3 DEF TypeOK, HoldsTask
    <2>3. ASSUME NEW w \in Workers, ScanOk(w) \/ ScanError(w)
          PROVE  FreshClaims'
      <3>1. pc[w] = "scanning" /\ held[w] \in Tasks
        BY <2>3 DEF ScanOk, ScanError, HoldsTask
      <3>2. QED
        BY <2>3, <3>1 DEF ScanOk, Complete, ScanError, Fail, LetGo, TypeOK,
                          HoldsTask
    <2>4. ASSUME NEW w \in Workers, DbError(w) \/ Stop(w) \/ Crash(w) \/ Start(w)
          PROVE  FreshClaims'
      BY <2>4 DEF DbError, Stop, Crash, Start, LetGo, TypeOK
    <2>5. CASE Tick
      <3>1. \A w \in Workers :
              pc[w] = "scanning" => age[held[w]] + 1 < Visibility
        BY <2>5 DEF Tick
      <3>2. \A t \in Tasks : age'[t] \in {age[t], age[t] + 1}
        BY <2>5 DEF Tick, TypeOK
      <3>3. UNCHANGED <<status, pc, held>>
        BY <2>5 DEF Tick
      <3>4. QED
        BY <3>1, <3>2, <3>3 DEF TypeOK, HoldsTask
    <2>6. CASE UNCHANGED vars
      BY <2>6 DEF vars
    <2>7. QED
      BY <2>1, <2>2, <2>3, <2>4, <2>5, <2>6 DEF Next
  <1>3. QED
    BY <1>1, <1>2, Invariance, PTL DEF Spec

\* When no scan outlives the visibility timeout, no two workers ever scan the
\* same task.
THEOREM ExclusionTheorem ==
  ASSUME ~SlowScans
  PROVE  Spec => []ExclusiveOwner
  <1>1. FreshClaims => ExclusiveOwner
    BY DEF FreshClaims
  <1>2. QED
    BY <1>1, FreshnessTheorem, PTL

\* When moreover the database raises no error, complete() always finds its
\* row running, so no polling loop ever dies.
THEOREM LoopTheorem ==
  ASSUME ~SlowScans, MaxDbErrors = 0
  PROVE  Spec => []LoopSurvives
  <1>1. Init => LoopSurvives
    BY DEF Init, LoopSurvives
  <1>2. ASSUME IInv, FreshClaims, LoopSurvives, [Next]_vars
        PROVE  LoopSurvives'
    <2> USE <1>2 DEF IInv, TypeOK, LoopSurvives, LetGo, loops
    <2>1. ASSUME NEW w \in Workers, ScanOk(w)
          PROVE  LoopSurvives'
      BY <2>1 DEF ScanOk, Complete, FreshClaims
    <2>2. ASSUME NEW w \in Workers, ScanError(w) \/ Claim(w)
          PROVE  LoopSurvives'
      BY <2>2 DEF ScanError, Claim
    <2>3. ASSUME NEW w \in Workers, Stop(w) \/ Crash(w) \/ Start(w)
          PROVE  LoopSurvives'
      BY <2>3 DEF Stop, Crash, Start
    <2>4. ASSUME NEW w \in Workers, DbError(w)
          PROVE  FALSE
      BY <2>4 DEF DbError
    <2>5. CASE Tick \/ UNCHANGED vars \/ \E t \in Tasks : Enqueue(t)
      BY <2>5 DEF Tick, vars, Enqueue
    <2>6. QED
      BY <2>1, <2>2, <2>3, <2>4, <2>5 DEF Next
  <1>3. QED
    BY <1>1, <1>2, Invariance, FreshnessTheorem, PTL DEF Spec

(***************************************************************************)
(* Retries.  fail() compares the attempts with the limit, claim() does     *)
(* not; so a row is only claimed too often after its worker was lost.      *)
(***************************************************************************)

\* Nobody was lost so far: no process crashed and no queue call raised.
NobodyLost == crashes = 0 /\ dbErrors = 0

\* Until a worker is lost, every running row has a worker whose copy is the
\* row's, and a row that can still be claimed has an attempt left.
AttemptsLeft ==
  NobodyLost =>
    /\ \A t \in Tasks : status[t] = "running" =>
         \E w \in Workers : pc[w] = "scanning" /\ held[w] = t
    /\ \A w \in Workers : pc[w] = "scanning" => seen[w] = attempts[held[w]]
    /\ \A t \in Tasks : status[t] \in {"absent", "pending"} =>
         attempts[t] < MaxAttempts
    /\ BoundedRetry

\* While claims are fresh and have a worker, there is none to reclaim.
LEMMA NothingStale ==
  ASSUME IInv, FreshClaims, AttemptsLeft, NobodyLost
  PROVE  Stale = {}
  <1>1. SUFFICES ASSUME NEW t \in Tasks, status[t] = "running", age[t] >= Visibility
                 PROVE  FALSE
    BY DEF Stale
  <1>2. PICK w \in Workers : pc[w] = "scanning" /\ held[w] = t
    BY <1>1 DEF AttemptsLeft
  <1>3. age[t] < Visibility
    BY <1>2 DEF FreshClaims
  <1>4. age[t] \in Int
    BY DEF IInv, TypeOK
  <1>5. QED
    BY <1>1, <1>3, <1>4

LEMMA AttemptsInit == Init => AttemptsLeft
  BY DEF Init, AttemptsLeft, BoundedRetry

LEMMA AttemptsStep ==
  IInv /\ FreshClaims /\ AttemptsLeft /\ [Next]_vars => AttemptsLeft'
  <1> SUFFICES ASSUME IInv, FreshClaims, AttemptsLeft, [Next]_vars, NobodyLost'
               PROVE  AttemptsLeft'
    BY DEF AttemptsLeft
  <1> USE DEF rows, loops, faults, BoundedRetry
  <1>1. ASSUME NEW t \in Tasks, Enqueue(t)
        PROVE  AttemptsLeft'
    BY <1>1 DEF Enqueue, AttemptsLeft, NobodyLost, IInv, TypeOK
  <1>2. ASSUME NEW w \in Workers, Claim(w)
        PROVE  AttemptsLeft'
    <2>1. PICK t \in OldestDue :
            /\ status' = [u \in Tasks |-> IF u = t THEN "running"
                                          ELSE IF u \in Stale THEN "pending"
                                          ELSE status[u]]
            /\ attempts' = [attempts EXCEPT ![t] = Bump(@)]
            /\ pc' = [pc EXCEPT ![w] = "scanning"]
            /\ held' = [held EXCEPT ![w] = t]
            /\ seen' = [seen EXCEPT ![w] = Bump(attempts[t])]
      BY <1>2 DEF Claim
    <2>2. NobodyLost /\ pc[w] = "idle"
      BY <1>2 DEF Claim, NobodyLost
    <2>3. Stale = {}
      BY <2>2, NothingStale
    <2>4. t \in Tasks /\ status[t] = "pending"
      BY <2>3 DEF OldestDue, Due
    <2>5. attempts[t] < MaxAttempts /\ attempts[t] \in Nat
      BY <2>2, <2>4 DEF AttemptsLeft, IInv, TypeOK
    <2>6. Bump(attempts[t]) <= MaxAttempts
      BY <2>5 DEF Bump
    <2>7. \A v \in Workers : pc[v] = "scanning" => v # w /\ held[v] # t
      BY <2>2, <2>4 DEF FreshClaims
    <2>8. \A u \in Tasks : status'[u] = IF u = t THEN "running" ELSE status[u]
      BY <2>1, <2>3
    <2>9. \A u \in Tasks :
            attempts'[u] = IF u = t THEN Bump(attempts[t]) ELSE attempts[u]
      BY <2>1, <2>4 DEF IInv, TypeOK
    <2>10. \A v \in Workers :
             /\ pc'[v] = IF v = w THEN "scanning" ELSE pc[v]
             /\ held'[v] = IF v = w THEN t ELSE held[v]
             /\ seen'[v] = IF v = w THEN Bump(attempts[t]) ELSE seen[v]
      BY <2>1 DEF IInv, TypeOK
    <2>11. \A u \in Tasks : status'[u] = "running" =>
             \E v \in Workers : pc'[v] = "scanning" /\ held'[v] = u
      <3>1. SUFFICES ASSUME NEW u \in Tasks, status'[u] = "running"
                     PROVE  \E v \in Workers : pc'[v] = "scanning" /\ held'[v] = u
        OBVIOUS
      <3>2. CASE u = t
        BY <2>10, <3>2
      <3>3. CASE u # t
        <4>1. PICK v \in Workers : pc[v] = "scanning" /\ held[v] = u
          BY <2>2, <2>8, <3>1, <3>3 DEF AttemptsLeft
        <4>2. QED
          BY <2>7, <2>10, <4>1
      <3>4. QED
        BY <3>2, <3>3
    <2>12. \A v \in Workers : pc'[v] = "scanning" => seen'[v] = attempts'[held'[v]]
      <3>1. SUFFICES ASSUME NEW v \in Workers, pc'[v] = "scanning"
                     PROVE  seen'[v] = attempts'[held'[v]]
        OBVIOUS
      <3>2. CASE v = w
        BY <2>4, <2>9, <2>10, <3>2
      <3>3. CASE v # w
        <4>1. pc[v] = "scanning" /\ seen[v] = attempts[held[v]]
          BY <2>2, <2>10, <3>1, <3>3 DEF AttemptsLeft
        <4>2. held[v] \in Tasks /\ held[v] # t
          BY <2>7, <4>1 DEF IInv, HoldsTask
        <4>3. QED
          BY <2>9, <2>10, <3>3, <4>1, <4>2
      <3>4. QED
        BY <3>2, <3>3
    <2>13. \A u \in Tasks : status'[u] \in {"absent", "pending"} =>
             attempts'[u] < MaxAttempts
      BY <2>2, <2>8, <2>9 DEF AttemptsLeft
    <2>14. BoundedRetry'
      BY <2>2, <2>6, <2>9 DEF AttemptsLeft
    <2>15. QED
      BY <2>11, <2>12, <2>13, <2>14 DEF AttemptsLeft
  <1>3. ASSUME NEW w \in Workers, ScanOk(w) \/ ScanError(w)
        PROVE  AttemptsLeft'
    <2>1. /\ NobodyLost
          /\ pc[w] = "scanning" /\ held[w] \in Tasks
          /\ status[held[w]] = "running"
          /\ seen[w] = attempts[held[w]]
      BY <1>3 DEF ScanOk, ScanError, NobodyLost, FreshClaims, AttemptsLeft,
                  IInv, HoldsTask
    <2>2. PICK s :
            /\ status' = [status EXCEPT ![held[w]] = s]
            /\ s # "running"
            /\ s \in {"absent", "pending"} => seen[w] < MaxAttempts
      BY <1>3, <2>1 DEF ScanOk, Complete, ScanError, Fail
    <2>3. /\ attempts' = attempts
          /\ pc' = [pc EXCEPT ![w] = "idle"]
          /\ held' = [held EXCEPT ![w] = NoTask]
          /\ seen' = [seen EXCEPT ![w] = 0]
      BY <1>3, <2>1 DEF ScanOk, Complete, ScanError, LetGo
    <2>4. \A u \in Tasks : status'[u] = IF u = held[w] THEN s ELSE status[u]
      BY <2>2, <2>1 DEF IInv, TypeOK
    <2>5. \A v \in Workers : /\ pc'[v] = IF v = w THEN "idle" ELSE pc[v]
                             /\ held'[v] = IF v = w THEN NoTask ELSE held[v]
                             /\ seen'[v] = IF v = w THEN 0 ELSE seen[v]
      BY <2>3 DEF IInv, TypeOK
    <2>6. \A u \in Tasks : status'[u] = "running" =>
            \E v \in Workers : pc'[v] = "scanning" /\ held'[v] = u
      <3>1. SUFFICES ASSUME NEW u \in Tasks, status'[u] = "running"
                     PROVE  \E v \in Workers : pc'[v] = "scanning" /\ held'[v] = u
        OBVIOUS
      <3>2. status[u] = "running" /\ u # held[w]
        BY <2>2, <2>4, <3>1
      <3>3. PICK v \in Workers : pc[v] = "scanning" /\ held[v] = u
        BY <2>1, <3>2 DEF AttemptsLeft
      <3>4. QED
        BY <2>5, <3>2, <3>3
    <2>7. \A v \in Workers : pc'[v] = "scanning" => seen'[v] = attempts'[held'[v]]
      BY <2>1, <2>3, <2>5 DEF AttemptsLeft
    <2>8. \A u \in Tasks : status'[u] \in {"absent", "pending"} =>
            attempts'[u] < MaxAttempts
      BY <2>1, <2>2, <2>3, <2>4 DEF AttemptsLeft
    <2>9. QED
      BY <2>1, <2>3, <2>6, <2>7, <2>8 DEF AttemptsLeft
  <1>4. ASSUME NEW w \in Workers, DbError(w) \/ Crash(w)
        PROVE  AttemptsLeft'
    BY <1>4 DEF DbError, Crash, NobodyLost, IInv, TypeOK
  <1>5. ASSUME NEW w \in Workers, Stop(w) \/ Start(w)
        PROVE  AttemptsLeft'
    <2>1. NobodyLost /\ pc[w] # "scanning" /\ status' = status /\ attempts' = attempts
      BY <1>5 DEF Stop, Start, NobodyLost
    <2>2. \A v \in Workers : /\ v # w => pc'[v] = pc[v] /\ held'[v] = held[v]
                                         /\ seen'[v] = seen[v]
                             /\ pc'[w] # "scanning"
      BY <1>5 DEF Stop, Start, LetGo, IInv, TypeOK
    <2>3. \A u \in Tasks : status'[u] = "running" =>
            \E v \in Workers : pc'[v] = "scanning" /\ held'[v] = u
      BY <2>1, <2>2 DEF AttemptsLeft
    <2>4. \A v \in Workers : pc'[v] = "scanning" => seen'[v] = attempts'[held'[v]]
      BY <2>1, <2>2 DEF AttemptsLeft
    <2>5. QED
      BY <2>1, <2>3, <2>4 DEF AttemptsLeft
  <1>6. CASE Tick \/ UNCHANGED vars
    BY <1>6 DEF Tick, vars, AttemptsLeft, NobodyLost
  <1>7. QED
    BY <1>1, <1>2, <1>3, <1>4, <1>5, <1>6 DEF Next

\* While scans end in time, a task is claimed more than max_attempts times
\* only after a crash of a worker or a failed queue call: claim() does not
\* look at the attempts, but fail() does, and only a lost claim skips fail().
THEOREM RetryTheorem ==
  ASSUME ~SlowScans
  PROVE  Spec => [](NobodyLost => BoundedRetry)
  <1>1. AttemptsLeft => (NobodyLost => BoundedRetry)
    BY DEF AttemptsLeft
  <1>2. QED
    BY <1>1, AttemptsInit, AttemptsStep, Invariance, FreshnessTheorem, PTL DEF Spec

\* While scans end in time, claim() takes a running row back only after a
\* crash or a failed queue call: no task is scanned twice for nothing.
THEOREM ReclaimTheorem ==
  ASSUME ~SlowScans
  PROVE  Spec => [](NobodyLost => Stale = {})
  <1>1. IInv /\ FreshClaims /\ AttemptsLeft => (NobodyLost => Stale = {})
    BY NothingStale
  <1>2. QED
    BY <1>1, AttemptsInit, AttemptsStep, Invariance, FreshnessTheorem, PTL DEF Spec
=============================================================================
