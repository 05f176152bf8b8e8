---------------------------- MODULE ServiceProofs ----------------------------
(***************************************************************************)
(* Theorems about Service for any processes, releases, stores, limits,     *)
(* windows, months and time zones: the schema is upgraded version by       *)
(* version, no process serves on less than its own schema and all its      *)
(* stores, no window lets more than the limit through, a report stays      *)
(* true, and a listing of denials read to its end is whole.                *)
(***************************************************************************)
EXTENDS Service, FiniteSetTheorems, SequenceTheorems, LeastNumbers

USE SchemaAssumption, LifespanAssumption, RateLimitAssumption,
    ReportsAssumption, ServiceAssumption

(***************************************************************************)
(* The schema                                                              *)
(***************************************************************************)

\* A process inside a version's transaction holds the lock, and the version
\* is not there yet.
Exclusive ==
  \A p \in Processes : upgrade[p].change # "none" =>
    /\ lock = p
    /\ upgrade[p].todo \in 1..Latest[p]
    /\ upgrade[p].todo \notin marks

\* What the loop has passed is there.
Progress ==
  \A p \in Processes : \A v \in 1..Latest[p] :
    v < upgrade[p].todo => v \in marks

SchemaInv == SchemaTypeOK /\ Exclusive /\ Progress /\ SchemaIsWhole

LEMMA VersionsAreNat ==
  /\ Versions \subseteq Nat
  /\ \A p \in Processes : 1..Latest[p] \subseteq Versions
  BY DEF Versions

LEMMA SchemaInvInit == SchemaInit => SchemaInv
  BY VersionsAreNat DEF SchemaInit, SchemaInv, SchemaTypeOK, Exclusive,
     Progress, SchemaIsWhole, NoUpgrade, Upgrade

LEMMA SchemaInvConnect ==
  ASSUME SchemaInv, NEW p \in Processes, Connect(p), upgrade[p].change = "none"
  PROVE  SchemaInv'
  BY VersionsAreNat DEF SchemaInv, SchemaTypeOK, Exclusive, Progress,
     SchemaIsWhole, Upgrade, Connect

LEMMA SchemaInvRollback ==
  ASSUME SchemaInv, NEW p \in Processes, Rollback(p)
  PROVE  SchemaInv'
  <1> USE VersionsAreNat DEF SchemaInv, Rollback, NoUpgrade
  <1>1. SchemaTypeOK'
    BY DEF SchemaTypeOK, Upgrade
  <1>2. Exclusive'
    BY DEF SchemaTypeOK, Exclusive
  <1>3. Progress'
    BY DEF SchemaTypeOK, Progress
  <1>4. SchemaIsWhole'
    BY DEF SchemaIsWhole
  <1>5. QED
    BY <1>1, <1>2, <1>3, <1>4

LEMMA SchemaInvCheck ==
  ASSUME SchemaInv, NEW p \in Processes, CheckVersion(p)
  PROVE  SchemaInv'
  <1> USE VersionsAreNat DEF SchemaInv, CheckVersion, Upgrading
  <1>1. SchemaTypeOK'
    BY DEF SchemaTypeOK, Upgrade
  <1>2. Exclusive'
    BY DEF SchemaTypeOK, Upgrade, Exclusive
  <1>3. Progress'
    <2>1. ASSUME NEW q \in Processes, NEW v \in 1..Latest[q], v < upgrade'[q].todo
          PROVE  v \in marks
      <3>1. CASE q = p /\ v = upgrade[p].todo
        BY <2>1, <3>1 DEF SchemaTypeOK, Upgrade
      <3>2. CASE q # p
        <4>1. upgrade'[q] = upgrade[q]
          BY <3>2 DEF SchemaTypeOK
        <4>2. QED
          BY <2>1, <4>1 DEF Progress
      <3>3. CASE q = p /\ v # upgrade[p].todo
        <4>1. /\ upgrade[p].todo \in Nat
              /\ upgrade'[p].todo \in {upgrade[p].todo, upgrade[p].todo + 1}
          BY DEF SchemaTypeOK, Upgrade
        <4>2. v < upgrade[p].todo
          BY <2>1, <3>3, <4>1
        <4>3. QED
          BY <3>3, <4>2 DEF Progress
      <3>4. QED
        BY <3>1, <3>2, <3>3
    <2>2. QED
      BY <2>1 DEF Progress
  <1>4. SchemaIsWhole'
    BY DEF SchemaIsWhole
  <1>5. QED
    BY <1>1, <1>2, <1>3, <1>4

LEMMA SchemaInvAlter ==
  ASSUME SchemaInv, NEW p \in Processes, Alter(p)
  PROVE  SchemaInv'
  <1> USE VersionsAreNat DEF SchemaInv
  <1>1. /\ UNCHANGED <<applied, marks, lock>>
        /\ upgrade[p].change # "none" /\ upgrade[p] \in Upgrade
        /\ upgrade' \in [Processes -> Upgrade]
        /\ \A q \in Processes : q # p => upgrade'[q] = upgrade[q]
        /\ upgrade'[p].todo = upgrade[p].todo
    BY DEF Alter, SchemaTypeOK, Upgrade
  <1>2. SchemaTypeOK'
    BY <1>1 DEF SchemaTypeOK
  <1>3. \A q \in Processes :
          /\ upgrade'[q].todo = upgrade[q].todo
          /\ upgrade'[q].change # "none" => upgrade[q].change # "none"
    BY <1>1
  <1>4. Exclusive'
    BY <1>1, <1>3 DEF Exclusive
  <1>5. Progress'
    BY <1>1, <1>3 DEF Progress
  <1>6. SchemaIsWhole'
    BY <1>1 DEF SchemaIsWhole
  <1>7. QED
    BY <1>2, <1>4, <1>5, <1>6

LEMMA SchemaInvCommit ==
  ASSUME SchemaInv, NEW p \in Processes, CommitVersion(p)
  PROVE  SchemaInv'
  <1> DEFINE v == upgrade[p].todo
  <1> USE VersionsAreNat DEF SchemaInv
  <1>1. v \in 1..Latest[p] /\ v \in Versions /\ v \notin marks /\ v \in Nat
    BY DEF CommitVersion, Exclusive
  <1>2. /\ applied' = [applied EXCEPT ![v] = @ + 1]
        /\ marks' = marks \cup {v}
        /\ lock' = Nobody
        /\ upgrade' = [upgrade EXCEPT ![p] = [todo |-> v + 1, change |-> "none"]]
    BY DEF CommitVersion
  <1>3. SchemaTypeOK'
    <2>1. applied' \in [Versions -> Nat]
      BY <1>1, <1>2 DEF SchemaTypeOK
    <2>2. [todo |-> v + 1, change |-> "none"] \in Upgrade
      BY <1>1 DEF Upgrade
    <2>3. upgrade' \in [Processes -> Upgrade]
      BY <1>2, <2>2 DEF SchemaTypeOK
    <2>4. QED
      BY <1>1, <1>2, <2>1, <2>3 DEF SchemaTypeOK
  <1>4. Exclusive'
    <2>1. \A q \in Processes \ {p} : upgrade[q].change = "none"
      BY DEF CommitVersion, Exclusive
    <2>2. \A q \in Processes : upgrade'[q].change = "none"
      <3>1. TAKE q \in Processes
      <3>2. CASE q = p
        BY <1>2, <3>2 DEF SchemaTypeOK
      <3>3. CASE q # p
        BY <1>2, <2>1, <3>3 DEF SchemaTypeOK
      <3>4. QED
        BY <3>2, <3>3
    <2>3. QED
      BY <2>2 DEF Exclusive
  <1>5. Progress'
    <2>1. ASSUME NEW q \in Processes, NEW u \in 1..Latest[q], u < upgrade'[q].todo
          PROVE  u \in marks'
      <3>1. CASE q = p
        <4>1. u < v + 1 /\ u \in Nat
          BY <1>1, <1>2, <2>1, <3>1 DEF SchemaTypeOK
        <4>2. u < v \/ u = v
          BY <1>1, <4>1
        <4>3. QED
          BY <1>2, <3>1, <4>2 DEF Progress
      <3>2. CASE q # p
        <4>1. upgrade'[q] = upgrade[q]
          BY <1>2, <3>2 DEF SchemaTypeOK
        <4>2. QED
          BY <1>2, <2>1, <4>1 DEF Progress
      <3>3. QED
        BY <3>1, <3>2
    <2>2. QED
      BY <2>1 DEF Progress
  <1>6. SchemaIsWhole'
    <2>1. \A u \in Versions : applied'[u] = IF u \in marks' THEN 1 ELSE 0
      BY <1>1, <1>2 DEF SchemaTypeOK, SchemaIsWhole
    <2>2. \A u \in 1..v : u \in marks'
      BY <1>1, <1>2 DEF Progress
    <2>3. \A u \in marks' : \A w \in 1..u : w \in marks'
      BY <1>2, <2>2 DEF SchemaIsWhole
    <2>4. QED
      BY <2>1, <2>3 DEF SchemaIsWhole
  <1>7. QED
    BY <1>3, <1>4, <1>5, <1>6

LEMMA SchemaInvStutter ==
  ASSUME SchemaInv, UNCHANGED schemaVars
  PROVE  SchemaInv'
  BY DEF SchemaInv, SchemaTypeOK, Exclusive, Progress, SchemaIsWhole, schemaVars

(***************************************************************************)
(* Lifespans                                                               *)
(***************************************************************************)

\* A process that serves or stops has all its stores and its schema, and so
\* does one whose last store was opened; only a process that opens its stores
\* is inside a transaction; and a lifespan that is over leaves stores open
\* only to a dead worker.
Alive(p) ==
  /\ life[p] \in LifePhase
  /\ open[p] \in 0..Stores
  /\ worker[p] \in WorkerState
  /\ life[p] \in {"serving", "stopping"} =>
       open[p] = Stores /\ 1..Latest[p] \subseteq marks
  /\ life[p] = "opening" /\ open[p] = Stores =>
       /\ upgrade[p].todo = Latest[p] + 1 /\ upgrade[p].change = "none"
       /\ 1..Latest[p] \subseteq marks
  /\ worker[p] \in Running => life[p] \in {"serving", "stopping"}
  /\ upgrade[p].change # "none" => life[p] = "opening"
  /\ life[p] = "ended" => open[p] = 0
  /\ life[p] = "raised" => worker[p] = "dead"

LifeInv ==
  /\ life \in [Processes -> LifePhase]
  /\ open \in [Processes -> 0..Stores]
  /\ worker \in [Processes -> WorkerState]
  /\ starts \in 0..MaxStarts
  /\ \A p \in Processes : Alive(p)

LEMMA LifeInvInit == LifespanInit => SchemaInv /\ LifeInv
  <1> SUFFICES ASSUME LifespanInit PROVE SchemaInv /\ LifeInv
    OBVIOUS
  <1>1. SchemaInv
    BY SchemaInvInit DEF LifespanInit
  <1>2. \A p \in Processes : Alive(p)
    <2>1. ASSUME NEW p \in Processes
          PROVE  Alive(p)
      <3>1. /\ life[p] = "down" /\ open[p] = 0 /\ worker[p] = "off"
            /\ upgrade[p].change = "none"
        BY DEF LifespanInit, SchemaInit, NoUpgrade
      <3>2. QED
        BY <3>1 DEF Alive, LifePhase, WorkerState, Running
    <2>2. QED
      BY <2>1
  <1>3. /\ life \in [Processes -> LifePhase] /\ open \in [Processes -> 0..Stores]
        /\ worker \in [Processes -> WorkerState] /\ starts \in 0..MaxStarts
    BY DEF LifespanInit, LifePhase, WorkerState
  <1>4. QED
    BY <1>1, <1>2, <1>3 DEF LifeInv

\* Another process's step takes nothing away.
LEMMA OthersLive ==
  ASSUME NEW p \in Processes, Alive(p), marks \subseteq marks',
         life'[p] = life[p], open'[p] = open[p], worker'[p] = worker[p],
         upgrade'[p] = upgrade[p]
  PROVE  Alive(p)'
  BY DEF Alive

\* It is enough to look at the process that steps.
LEMMA LifeInvStep ==
  ASSUME LifeInv, SchemaTypeOK, NEW p \in Processes, NEW l, NEW o, NEW w, NEW u,
         life' = [life EXCEPT ![p] = l], open' = [open EXCEPT ![p] = o],
         worker' = [worker EXCEPT ![p] = w],
         upgrade' = [upgrade EXCEPT ![p] = u],
         marks \subseteq marks', starts' \in 0..MaxStarts,
         Alive(p)'
  PROVE  LifeInv'
  <1>1. l \in LifePhase /\ o \in 0..Stores /\ w \in WorkerState
    BY DEF Alive, LifeInv
  <1>2. \A q \in Processes : Alive(q)'
    <2>1. ASSUME NEW q \in Processes, q # p
          PROVE  Alive(q)'
      BY <2>1, OthersLive DEF LifeInv, SchemaTypeOK
    <2>2. QED
      BY <2>1
  <1>3. QED
    BY <1>1, <1>2 DEF LifeInv

LEMMA LifespanPreserved ==
  ASSUME SchemaInv, LifeInv, NEW p \in Processes, LifespanStep(p)
  PROVE  SchemaInv' /\ LifeInv'
  <1> USE DEF SchemaInv, LifeInv
  <1>0. Alive(p) /\ upgrade[p] \in Upgrade
    BY DEF SchemaTypeOK
  <1>1. ASSUME StartProcess(p) PROVE SchemaInv' /\ LifeInv'
    <2>1. upgrade[p].change = "none"
      BY <1>0, <1>1 DEF StartProcess, Alive
    <2>2. SchemaInv'
      BY <1>1, <2>1, SchemaInvConnect DEF StartProcess
    <2>3. Alive(p)'
      BY <1>1 DEF StartProcess, Connect, SchemaTypeOK, Alive, LifePhase, WorkerState, Running
    <2>4. /\ starts' \in 0..MaxStarts
          /\ UNCHANGED marks
      BY <1>1 DEF StartProcess, Connect
    <2>5. LifeInv'
      BY <1>1, <2>3, <2>4, LifeInvStep DEF StartProcess, Connect
    <2>6. QED
      BY <2>2, <2>5
  <1>2. ASSUME MigrateStep(p) PROVE SchemaInv' /\ LifeInv'
    <2>1. SchemaInv' /\ marks \subseteq marks'
      BY <1>2, SchemaInvCheck, SchemaInvAlter, SchemaInvCommit
         DEF MigrateStep, Migrate, CheckVersion, Alter, CommitVersion
    <2>2. upgrade' = [upgrade EXCEPT ![p] = upgrade'[p]]
      BY <1>2 DEF MigrateStep, Migrate, CheckVersion, Alter, CommitVersion, SchemaTypeOK
    <2>0. open[p] # Stores
      <3>1. upgrade[p].todo \in 1..Latest[p] \/ upgrade[p].change # "none"
        BY <1>2 DEF MigrateStep, Migrate, CheckVersion, Upgrading, Alter, CommitVersion
      <3>2. life[p] = "opening"
        BY <1>2 DEF MigrateStep
      <3>3. QED
        BY <1>0, <3>1, <3>2 DEF Alive
    <2>3. Alive(p)'
      BY <1>0, <1>2, <2>0, <2>1 DEF MigrateStep, Alive, Running
    <2>4. /\ life' = [life EXCEPT ![p] = life[p]]
          /\ open' = [open EXCEPT ![p] = open[p]]
          /\ worker' = [worker EXCEPT ![p] = worker[p]]
      BY <1>2 DEF MigrateStep
    <2>5. starts' \in 0..MaxStarts
      BY <1>2 DEF MigrateStep
    <2>6. LifeInv'
      BY <2>1, <2>2, <2>3, <2>4, <2>5, LifeInvStep
    <2>7. QED
      BY <2>1, <2>6
  <1>3. ASSUME OpenStore(p) PROVE SchemaInv' /\ LifeInv'
    <2>1. /\ upgrade[p].todo = Latest[p] + 1
          /\ upgrade[p].change = "none"
      BY <1>0, <1>3 DEF OpenStore, Upgraded, Exclusive
    <2>2. 1..Latest[p] \subseteq marks
      BY <2>1 DEF Progress
    <2>3. SchemaInv'
      BY <1>3, <2>1, SchemaInvConnect, SchemaInvStutter DEF OpenStore
    <2>4. /\ UNCHANGED marks
          /\ upgrade' = [upgrade EXCEPT ![p] = upgrade'[p]]
          /\ upgrade'[p].change = "none"
      BY <1>3, <2>1 DEF OpenStore, Connect, schemaVars, SchemaTypeOK
    <2>5. /\ life' = [life EXCEPT ![p] = life[p]]
          /\ open' = [open EXCEPT ![p] = open[p] + 1]
          /\ worker' = [worker EXCEPT ![p] = worker[p]]
          /\ starts' \in 0..MaxStarts
      BY <1>3 DEF OpenStore
    <2>0. /\ open'[p] = open[p] + 1 /\ open[p] + 1 \in 0..Stores
          /\ life[p] = "opening" /\ life'[p] = "opening" /\ worker'[p] = worker[p]
          /\ open'[p] = Stores => upgrade'[p] = upgrade[p]
      BY <1>0, <1>3 DEF OpenStore, Alive, schemaVars
    <2>6. Alive(p)'
      BY <1>0, <2>0, <2>1, <2>2, <2>4 DEF Alive, Running
    <2>7. LifeInv'
      BY <2>4, <2>5, <2>6, LifeInvStep
    <2>8. QED
      BY <2>3, <2>7
  <1>4. ASSUME Die(p) PROVE SchemaInv' /\ LifeInv'
    <2>1. SchemaInv'
      BY <1>4, SchemaInvRollback DEF Die
    <2>2. Alive(p)'
      BY <1>4 DEF Die, Rollback, NoUpgrade, SchemaTypeOK, Alive, LifePhase, WorkerState, Running
    <2>3. LifeInv'
      BY <1>4, <2>2, LifeInvStep DEF Die, Rollback
    <2>4. QED
      BY <2>1, <2>3
  <1>5. ASSUME \/ Serve(p) \/ WorkerTurns(p) \/ CronTurns(p) \/ WorkerDies(p)
               \/ Shutdown(p) \/ WorkerStops(p) \/ CloseStores(p) \/ StopRaises(p)
        PROVE  SchemaInv' /\ LifeInv'
    <2> USE DEF Serve, WorkerTurns, CronTurns, WorkerDies, Shutdown, WorkerStops, CloseStores, StopRaises
    <2>1. UNCHANGED schemaVars
      BY <1>5
    <2>2. SchemaInv'
      BY <2>1, SchemaInvStutter
    <2>3. /\ life' = [life EXCEPT ![p] = life'[p]]
          /\ open' = [open EXCEPT ![p] = open'[p]]
          /\ worker' = [worker EXCEPT ![p] = worker'[p]]
          /\ starts' \in 0..MaxStarts
      BY <1>5
    <2>4. /\ upgrade' = [upgrade EXCEPT ![p] = upgrade[p]]
          /\ marks \subseteq marks'
      BY <2>1 DEF schemaVars, SchemaTypeOK
    <2>5. Alive(p)'
      <3>1. UNCHANGED <<upgrade, marks>>
        BY <2>1 DEF schemaVars
      <3>2. CASE Serve(p)
        <4>1. /\ life'[p] = "serving" /\ open'[p] = open[p]
              /\ worker'[p] \in {"off", "idle"}
          BY <3>2
        <4>2. /\ open[p] = Stores /\ 1..Latest[p] \subseteq marks
              /\ Stores \in 0..Stores /\ upgrade[p].change = "none"
          BY <1>0, <3>2 DEF Alive
        <4>3. /\ life'[p] \in LifePhase /\ worker'[p] \in WorkerState
              /\ life'[p] \notin {"opening", "ended", "raised"}
          BY <4>1 DEF LifePhase, WorkerState
        <4>4. QED
          BY <3>1, <4>1, <4>2, <4>3 DEF Alive
      <3>3. CASE Shutdown(p)
        <4>1. life'[p] = "stopping" /\ open'[p] = open[p] /\ worker'[p] = worker[p]
          BY <3>3
        <4>2. QED
          BY <1>0, <3>1, <3>3, <4>1 DEF Alive, LifePhase
      <3>4. CASE CloseStores(p)
        <4>1. life'[p] = "ended" /\ open'[p] = 0 /\ worker'[p] \in {"off", "cron"}
          BY <3>4
        <4>2. QED
          <5>1. upgrade[p].change = "none"
            BY <1>0, <3>4 DEF Alive
          <5>2. upgrade'[p].change = "none"
            BY <3>1, <5>1
          <5>3. QED
            BY <4>1, <5>2 DEF Alive, LifePhase, WorkerState, Running
      <3>5. CASE StopRaises(p)
        <4>1. life'[p] = "raised" /\ open'[p] = open[p] /\ worker'[p] = "dead"
          BY <3>5
        <4>2. QED
          BY <1>0, <3>1, <3>5, <4>1 DEF Alive, LifePhase, WorkerState, Running
      <3>6. CASE WorkerTurns(p) \/ WorkerDies(p) \/ WorkerStops(p)
        <4>1. /\ life'[p] = life[p] /\ open'[p] = open[p]
              /\ worker[p] \in Running /\ worker'[p] \in WorkerState
          BY <3>6 DEF Running, WorkerState
        <4>2. life[p] \in {"serving", "stopping"}
          BY <1>0, <4>1 DEF Alive
        <4>3. QED
          BY <1>0, <3>1, <4>1, <4>2 DEF Alive
      <3>7. CASE CronTurns(p)
        <4>1. /\ life'[p] = life[p] /\ open'[p] = open[p]
              /\ worker[p] \in {"off", "cron"} /\ worker'[p] \in {"off", "cron"}
          BY <3>7
        <4>2. life[p] # "raised"
          BY <1>0, <4>1 DEF Alive
        <4>3. QED
          BY <1>0, <3>1, <4>1, <4>2 DEF Alive, WorkerState, Running
      <3>8. QED
        BY <1>5, <3>2, <3>3, <3>4, <3>5, <3>6, <3>7
    <2>6. LifeInv'
      BY <2>3, <2>4, <2>5, LifeInvStep
    <2>7. QED
      BY <2>2, <2>6
  <1>6. QED
    BY <1>1, <1>2, <1>3, <1>4, <1>5 DEF LifespanStep

(***************************************************************************)
(* The limiter                                                             *)
(***************************************************************************)

\* The loop pops exactly the run at the front up to the cutoff.
LEMMA PoppedRun ==
  ASSUME NEW q \in Seq(Int), NEW cutoff \in Int
  PROVE  /\ Popped(q, cutoff) \in 0..Len(q)
         /\ \A i \in 1..Popped(q, cutoff) : q[i] <= cutoff
         /\ Popped(q, cutoff) < Len(q) => q[Popped(q, cutoff) + 1] > cutoff
  <1> DEFINE T == {k \in 0..Len(q) : k < Len(q) => q[k + 1] > cutoff}
             Run(k) == /\ \A i \in 1..k : q[i] <= cutoff
                       /\ k < Len(q) => q[k + 1] > cutoff
  <1>1. PICK k \in T : \A j \in T : k <= j
    <2>1. T \in SUBSET Nat /\ Len(q) \in T
      OBVIOUS
    <2>2. QED
      BY <2>1, LeastNumber
  <1>2. ASSUME NEW i \in 1..k PROVE q[i] <= cutoff
    <2>1. i - 1 \in 0..Len(q) /\ i - 1 < Len(q) /\ i - 1 < k
      BY <1>1
    <2>2. i - 1 \notin T
      BY <1>1, <2>1
    <2>3. ~ (q[(i - 1) + 1] > cutoff)
      BY <2>1, <2>2
    <2>4. q[i] \in Int /\ (i - 1) + 1 = i
      BY <2>1
    <2>5. QED
      BY <2>3, <2>4
  <1>3. \E j \in 0..Len(q) : Run(j)
    BY <1>1, <1>2
  <1>4. Popped(q, cutoff) = CHOOSE j \in 0..Len(q) : Run(j)
    BY DEF Popped
  <1>5. Popped(q, cutoff) \in 0..Len(q) /\ Run(Popped(q, cutoff))
    BY <1>3, <1>4
  <1>6. QED
    BY <1>5

LEMMA RecentIsSuffix ==
  ASSUME NEW q \in Seq(Int), NEW cutoff \in Int
  PROVE  /\ Recent(q, cutoff) \in Seq(Int)
         /\ Len(Recent(q, cutoff)) \in 0..Len(q)
         /\ \A i \in 1..Len(Recent(q, cutoff)) :
              Recent(q, cutoff)[i] = q[Len(q) - Len(Recent(q, cutoff)) + i]
         /\ \A i \in 1..(Len(q) - Len(Recent(q, cutoff))) : q[i] <= cutoff
  <1> DEFINE k == Popped(q, cutoff)
             r == SubSeq(q, k + 1, Len(q))
  <1>1. k \in 0..Len(q) /\ \A i \in 1..k : q[i] <= cutoff
    BY PoppedRun
  <1> HIDE DEF k
  <1>2. /\ r \in Seq(Int) /\ Len(r) = Len(q) - k
        /\ \A i \in 1..Len(r) : r[i] = q[k + i]
    BY <1>1
  <1>3. Recent(q, cutoff) = r
    BY DEF Recent, k
  <1> HIDE DEF r
  <1>4. Len(q) \in Nat /\ k = Len(q) - Len(r) /\ Len(r) \in 0..Len(q)
    BY <1>1, <1>2
  <1>5. /\ \A i \in 1..Len(r) : r[i] = q[Len(q) - Len(r) + i]
        /\ \A i \in 1..(Len(q) - Len(r)) : q[i] <= cutoff
    BY <1>1, <1>2, <1>4
  <1>6. QED
    BY <1>2, <1>3, <1>4, <1>5

\* A deque is the end of what was let through; what is not in it any more
\* came a whole window ago.
Kept(q, a, t) ==
  /\ q \in Seq(Int) /\ a \in Seq(Int)
  /\ Len(q) <= Limit /\ Len(q) <= Len(a)
  /\ \A i \in 1..Len(q) : q[i] = a[Len(a) - Len(q) + i]
  /\ \A i \in 1..(Len(a) - Len(q)) : a[i] <= t - Window

Spaced(a) ==
  \A i \in 1..(Len(a) - Limit) : a[i + Limit] - a[i] >= Window

LEMMA KeptRecent ==
  ASSUME NEW q, NEW a, NEW t \in Int, Kept(q, a, t)
  PROVE  Kept(Recent(q, t - Window), a, t)
  <1> DEFINE r == Recent(q, t - Window)
  <1>1. /\ q \in Seq(Int) /\ a \in Seq(Int)
        /\ Len(q) \in Nat /\ Len(a) \in Nat
        /\ Len(q) <= Limit /\ Len(q) <= Len(a)
    BY DEF Kept
  <1>2. /\ r \in Seq(Int) /\ Len(r) \in 0..Len(q)
        /\ \A i \in 1..Len(r) : r[i] = q[Len(q) - Len(r) + i]
        /\ \A i \in 1..(Len(q) - Len(r)) : q[i] <= t - Window
    <2>1. t - Window \in Int
      OBVIOUS
    <2>2. QED
      BY ONLY <1>1, <2>1, RecentIsSuffix
  <1> HIDE DEF r
  <1>3. ASSUME NEW i \in 1..Len(r) PROVE r[i] = a[Len(a) - Len(r) + i]
    <2>1. Len(q) - Len(r) + i \in 1..Len(q)
      BY <1>1, <1>2
    <2>2. q[Len(q) - Len(r) + i] = a[Len(a) - Len(q) + (Len(q) - Len(r) + i)]
      BY <2>1 DEF Kept
    <2>3. Len(a) - Len(q) + (Len(q) - Len(r) + i) = Len(a) - Len(r) + i
      BY <1>1, <1>2
    <2>4. QED
      BY <1>2, <2>2, <2>3
  <1>4. ASSUME NEW i \in 1..(Len(a) - Len(r)) PROVE a[i] <= t - Window
    <2>1. CASE i <= Len(a) - Len(q)
      BY <1>1, <1>2, <2>1 DEF Kept
    <2>2. CASE i > Len(a) - Len(q)
      <3> DEFINE j == i - (Len(a) - Len(q))
      <3>1. j \in 1..(Len(q) - Len(r)) /\ j \in 1..Len(q)
        BY <1>1, <1>2, <2>2
      <3>2. q[j] = a[Len(a) - Len(q) + j]
        BY <3>1 DEF Kept
      <3>3. Len(a) - Len(q) + j = i
        BY <1>1, <1>2
      <3>4. QED
        BY <1>2, <3>1, <3>2, <3>3
    <2>3. QED
      BY <1>1, <1>2, <2>1, <2>2
  <1>5. Kept(r, a, t)
    BY <1>1, <1>2, <1>3, <1>4 DEF Kept
  <1>6. QED
    BY <1>5 DEF r

LEMMA KeptAppend ==
  ASSUME NEW r, NEW a, NEW t \in Int, Kept(r, a, t), Len(r) < Limit
  PROVE  Kept(Append(r, t), Append(a, t), t)
  <1>1. /\ r \in Seq(Int) /\ a \in Seq(Int)
        /\ Len(r) \in Nat /\ Len(a) \in Nat /\ Len(r) <= Len(a)
    BY DEF Kept
  <1>2. /\ Append(r, t) \in Seq(Int) /\ Len(Append(r, t)) = Len(r) + 1
        /\ \A i \in 1..Len(r) : Append(r, t)[i] = r[i]
        /\ Append(r, t)[Len(r) + 1] = t
    BY <1>1
  <1>3. /\ Append(a, t) \in Seq(Int) /\ Len(Append(a, t)) = Len(a) + 1
        /\ \A i \in 1..Len(a) : Append(a, t)[i] = a[i]
        /\ Append(a, t)[Len(a) + 1] = t
    BY <1>1
  <1>4. \A i \in 1..(Len(r) + 1) :
          Append(r, t)[i] = Append(a, t)[(Len(a) + 1) - (Len(r) + 1) + i]
    <2>1. TAKE i \in 1..(Len(r) + 1)
    <2>2. (Len(a) + 1) - (Len(r) + 1) + i = Len(a) - Len(r) + i
      BY <1>1
    <2>3. CASE i = Len(r) + 1
      <3>1. Len(a) - Len(r) + i = Len(a) + 1
        BY <1>1, <2>3
      <3>2. QED
        BY <1>2, <1>3, <2>2, <2>3, <3>1
    <2>4. CASE i \in 1..Len(r)
      <3>1. Len(a) - Len(r) + i \in 1..Len(a)
        BY <1>1, <2>4
      <3>2. r[i] = a[Len(a) - Len(r) + i]
        BY <2>4 DEF Kept
      <3>3. Append(r, t)[i] = r[i]
        BY <1>2, <2>4
      <3>4. Append(a, t)[Len(a) - Len(r) + i] = a[Len(a) - Len(r) + i]
        BY <1>3, <3>1
      <3>5. Append(r, t)[i] = Append(a, t)[Len(a) - Len(r) + i]
        BY <3>2, <3>3, <3>4
      <3>6. QED
        BY <2>2, <3>5
    <2>5. i = Len(r) + 1 \/ i \in 1..Len(r)
      BY <1>1
    <2>6. QED
      BY <2>3, <2>4, <2>5
  <1>5. \A i \in 1..((Len(a) + 1) - (Len(r) + 1)) : Append(a, t)[i] <= t - Window
    <2>1. TAKE i \in 1..((Len(a) + 1) - (Len(r) + 1))
    <2>2. i \in 1..(Len(a) - Len(r)) /\ i \in 1..Len(a)
      BY <1>1
    <2>3. a[i] <= t - Window
      BY <2>2 DEF Kept
    <2>4. QED
      BY <1>3, <2>2, <2>3
  <1>6. Len(r) + 1 <= Limit /\ Len(r) + 1 <= Len(a) + 1
    BY <1>1
  <1>7. QED
    BY <1>2, <1>3, <1>4, <1>5, <1>6 DEF Kept

LEMMA SpacedAppend ==
  ASSUME NEW r, NEW a, NEW t \in Int, Kept(r, a, t), Len(r) < Limit, Spaced(a)
  PROVE  Spaced(Append(a, t))
  <1>1. /\ a \in Seq(Int) /\ Len(r) \in Nat /\ Len(a) \in Nat /\ Len(r) <= Len(a)
    BY DEF Kept
  <1>2. /\ Len(Append(a, t)) = Len(a) + 1
        /\ \A i \in 1..Len(a) : Append(a, t)[i] = a[i]
        /\ Append(a, t)[Len(a) + 1] = t
    BY <1>1
  <1>3. ASSUME NEW i \in 1..(Len(a) + 1 - Limit)
        PROVE  Append(a, t)[i + Limit] - Append(a, t)[i] >= Window
    <2>1. i \in 1..Len(a) /\ i + Limit \in 1..(Len(a) + 1)
      BY <1>1
    <2>2. CASE i + Limit = Len(a) + 1
      <3>1. i \in 1..(Len(a) - Len(r))
        BY <1>1, <2>2
      <3>2. a[i] <= t - Window /\ a[i] \in Int
        BY <1>1, <2>1, <3>1 DEF Kept
      <3>3. Append(a, t)[i + Limit] = t /\ Append(a, t)[i] = a[i]
        BY <1>2, <2>1, <2>2
      <3>4. QED
        BY <3>2, <3>3
    <2>3. CASE i + Limit # Len(a) + 1
      <3>1. i \in 1..(Len(a) - Limit) /\ i + Limit \in 1..Len(a)
        BY <1>1, <2>1, <2>3
      <3>2. a[i + Limit] - a[i] >= Window
        BY <3>1 DEF Spaced
      <3>3. Append(a, t)[i + Limit] = a[i + Limit] /\ Append(a, t)[i] = a[i]
        BY <1>2, <2>1, <3>1
      <3>4. QED
        BY <3>2, <3>3
    <2>4. QED
      BY <2>2, <2>3
  <1>4. QED
    BY <1>2, <1>3 DEF Spaced

LEMMA KeptLater ==
  ASSUME NEW q, NEW a, NEW t \in Int, NEW u \in Int, t <= u, Kept(q, a, t)
  PROVE  Kept(q, a, u)
  <1>1. \A i \in 1..(Len(a) - Len(q)) : a[i] \in Int /\ a[i] <= t - Window
    BY DEF Kept
  <1>2. \A i \in 1..(Len(a) - Len(q)) : a[i] <= u - Window
    BY <1>1
  <1>3. QED
    BY <1>2 DEF Kept

(***************************************************************************)
(* The calendar                                                            *)
(***************************************************************************)

LEMMA Quotient ==
  ASSUME NEW a \in Int, NEW b \in Int, b > 0
  PROVE  /\ a \div b \in Int
         /\ b * (a \div b) <= a
         /\ a < b * (a \div b) + b
  OBVIOUS

LEMMA QuotientIs ==
  ASSUME NEW a \in Int, NEW b \in Int, NEW q \in Int, b > 0,
         b * q <= a, a < b * q + b
  PROVE  q = a \div b
  OBVIOUS

LEMMA RestIs ==
  ASSUME NEW a \in Int, NEW b \in Int, NEW q \in Int, NEW r \in Int,
         b > 0, a = b * q + r, r >= 0, r < b
  PROVE  r = a % b
  OBVIOUS

LEMMA Rest ==
  ASSUME NEW a \in Int, NEW b \in Int, b > 0
  PROVE  a % b = a - b * (a \div b)
  <1> DEFINE q == a \div b
             r == a - b * q
  <1>1. q \in Int /\ b * q <= a /\ a < b * q + b
    BY Quotient
  <1> HIDE DEF q
  <1>2. b * q \in Int
    BY <1>1
  <1>3. r \in Int /\ r >= 0 /\ r < b /\ a = b * q + r
    BY <1>1, <1>2
  <1>4. r = a % b
    BY <1>1, <1>3, RestIs
  <1>5. QED
    BY <1>4 DEF q, r

LEMMA QuotientTwice ==
  ASSUME NEW a \in Int, NEW b \in Int, NEW c \in Int, b > 0, c > 0
  PROVE  a \div (b * c) = (a \div b) \div c
  <1> DEFINE q == a \div b
             r == q \div c
  <1>1. q \in Int /\ b * q <= a /\ a < b * q + b
    BY Quotient
  <1>2. r \in Int /\ c * r <= q /\ q < c * r + c
    BY <1>1, Quotient
  <1> HIDE DEF q, r
  <1>3. b * c \in Int /\ b * c > 0
    OBVIOUS
  <1>4. b * (q - c * r) >= 0 /\ b * (c * r + c - 1 - q) >= 0
    <2>1. c * r \in Int
      BY <1>2
    <2>2. q - c * r \in Nat /\ c * r + c - 1 - q \in Nat
      BY <1>1, <1>2, <2>1
    <2>3. QED
      BY <2>2
  <1>5. (b * c) * r <= a /\ a < (b * c) * r + b * c
    BY <1>1, <1>2, <1>4
  <1>6. r = a \div (b * c)
    BY <1>2, <1>3, <1>5, QuotientIs
  <1>7. QED
    BY <1>6 DEF q, r

\* Months in a row have numbers in a row.
Number(m) == m[1] * MonthsPerYear + m[2] - 1

LEMMA NumberIsInt == ASSUME NEW m \in Months PROVE Number(m) \in Int
  BY DEF Months, Number

LEMMA NumberOfMonth ==
  ASSUME NEW l \in Int
  PROVE  MonthOf(l) \in Months /\ Number(MonthOf(l)) = l \div MonthLength
  <1> DEFINE n == l \div MonthLength
             y == n \div MonthsPerYear
             i == n % MonthsPerYear
  <1>1. n \in Int
    BY Quotient
  <1>2. l \div (MonthLength * MonthsPerYear) = y
    <2>1. /\ MonthLength \in Int /\ MonthLength > 0
          /\ MonthsPerYear \in Int /\ MonthsPerYear > 0
      OBVIOUS
    <2>2. QED
      BY ONLY <2>1, QuotientTwice, l \in Int
  <1> HIDE DEF n
  <1>3. y \in Int /\ i = n - MonthsPerYear * y /\ i \in 0..(MonthsPerYear - 1)
    BY <1>1, Quotient, Rest
  <1>4. MonthOf(l) = <<y, i + 1>>
    BY <1>2 DEF MonthOf, n
  <1> HIDE DEF y, i
  <1>5. MonthsPerYear * y \in Int /\ MonthsPerYear * y = y * MonthsPerYear
    BY <1>3
  <1>6. Number(MonthOf(l)) = n
    BY <1>1, <1>3, <1>4, <1>5 DEF Number
  <1>7. MonthOf(l) \in Months
    BY <1>3, <1>4 DEF Months
  <1>8. QED
    BY <1>6, <1>7 DEF n

LEMMA YearOfNumber ==
  ASSUME NEW m \in Months
  PROVE  m[1] = Number(m) \div MonthsPerYear
  <1> DEFINE y == m[1]
             b == MonthsPerYear
             a == Number(m)
  <1>1. y \in Int /\ m[2] \in 1..b /\ b \in Int /\ b > 0 /\ a = y * b + m[2] - 1
    BY DEF Months, Number
  <1> HIDE DEF y, b, a
  <1>2. y * b \in Int /\ y * b = b * y
    BY <1>1
  <1>3. a \in Int /\ b * y <= a /\ a < b * y + b
    BY <1>1, <1>2
  <1>4. y = a \div b
    BY <1>1, <1>3, QuotientIs
  <1>5. QED
    BY <1>4 DEF y, b, a

LEMMA NumberIsInjective ==
  ASSUME NEW m \in Months, NEW n \in Months, Number(m) = Number(n)
  PROVE  m = n
  <1>1. /\ m = <<m[1], m[2]>> /\ m[1] \in Int /\ m[2] \in 1..MonthsPerYear
        /\ n = <<n[1], n[2]>> /\ n[1] \in Int /\ n[2] \in 1..MonthsPerYear
    BY DEF Months
  <1>2. m[1] = n[1]
    BY YearOfNumber
  <1>3. m[1] * MonthsPerYear \in Int
    BY <1>1
  <1>4. m[2] = n[2]
    BY <1>1, <1>2, <1>3 DEF Number
  <1>5. QED
    BY <1>1, <1>2, <1>4

LEMMA NumberNext ==
  ASSUME NEW m \in Months
  PROVE  /\ NextMonth(m) \in Months /\ Number(NextMonth(m)) = Number(m) + 1
         /\ PreviousMonth(m) \in Months /\ Number(PreviousMonth(m)) = Number(m) - 1
  <1>1. m[1] \in Int /\ m[2] \in 1..MonthsPerYear /\ MonthsPerYear \in Nat \ {0}
    BY DEF Months
  <1>2. \A y, k \in Int : /\ y * k \in Int
                          /\ (y + 1) * k = y * k + k
                          /\ (y - 1) * k = y * k - k
    OBVIOUS
  <1>3. NextMonth(m) \in Months /\ PreviousMonth(m) \in Months
    BY <1>1 DEF NextMonth, PreviousMonth, Months
  <1>4. Number(NextMonth(m)) = Number(m) + 1
    <2>1. CASE m[2] = MonthsPerYear
      <3>1. NextMonth(m) = <<m[1] + 1, 1>>
        BY <2>1 DEF NextMonth
      <3>2. Number(NextMonth(m)) = (m[1] + 1) * MonthsPerYear
        BY <1>1, <1>2, <3>1 DEF Number
      <3>3. QED
        BY <1>1, <1>2, <2>1, <3>2 DEF Number
    <2>2. CASE m[2] # MonthsPerYear
      BY <1>1, <1>2, <2>2 DEF NextMonth, Number
    <2>3. QED
      BY <2>1, <2>2
  <1>5. Number(PreviousMonth(m)) = Number(m) - 1
    <2>1. CASE m[2] = 1
      <3>1. PreviousMonth(m) = <<m[1] - 1, MonthsPerYear>>
        BY <2>1 DEF PreviousMonth
      <3>2. Number(PreviousMonth(m)) = (m[1] - 1) * MonthsPerYear + MonthsPerYear - 1
        BY <3>1 DEF Number
      <3>3. QED
        BY <1>1, <1>2, <2>1, <3>2 DEF Number
    <2>2. CASE m[2] # 1
      BY <1>1, <1>2, <2>2 DEF PreviousMonth, Number
    <2>3. QED
      BY <2>1, <2>2
  <1>6. QED
    BY <1>3, <1>4, <1>5

\* The interval of UTC instants is the month by the customer's calendar.
LEMMA MonthIsInterval ==
  ASSUME NEW c \in Customers, NEW t \in Int, NEW m \in Months
  PROVE  (Begins(c, m) <= t /\ t < Begins(c, NextMonth(m)))
         <=> MonthOf(Local(c, t)) = m
  <1> DEFINE l == Local(c, t)
             n == Number(m)
  <1>1. l \in Int /\ Offset[c] \in Int /\ l = t + Offset[c]
    BY DEF Local
  <1>2. n \in Int /\ NextMonth(m) \in Months /\ Number(NextMonth(m)) = n + 1
    BY NumberIsInt, NumberNext
  <1>3. /\ Begins(c, m) = n * MonthLength - Offset[c]
        /\ Begins(c, NextMonth(m)) = (n + 1) * MonthLength - Offset[c]
    <2>1. \A k \in Months : Begins(c, k) = Number(k) * MonthLength - Offset[c]
      BY DEF Begins, Number
    <2>2. QED
      BY <1>2, <2>1
  <1>4. MonthOf(l) \in Months /\ Number(MonthOf(l)) = l \div MonthLength
    BY <1>1, NumberOfMonth
  <1> HIDE DEF n, l
  <1>5. /\ n * MonthLength \in Int /\ n * MonthLength = MonthLength * n
        /\ (n + 1) * MonthLength = MonthLength * n + MonthLength
    BY <1>2
  <1>6. (Begins(c, m) <= t /\ t < Begins(c, NextMonth(m)))
        <=> (MonthLength * n <= l /\ l < MonthLength * n + MonthLength)
    BY <1>1, <1>3, <1>5
  <1>7. (MonthLength * n <= l /\ l < MonthLength * n + MonthLength)
        <=> n = l \div MonthLength
    BY <1>1, <1>2, Quotient, QuotientIs
  <1>8. n = l \div MonthLength <=> MonthOf(l) = m
    BY <1>4, NumberIsInjective DEF n
  <1>9. QED
    BY <1>6, <1>7, <1>8 DEF l

\* A month is over before the one after it has begun.
LEMMA PreviousMonthIsOver ==
  ASSUME NEW c \in Customers, NEW t \in Int, NEW u \in Int,
         MonthOf(Local(c, t)) = PreviousMonth(MonthOf(Local(c, u)))
  PROVE  t < u
  <1> DEFINE k == Local(c, t) \div MonthLength
             n == Local(c, u) \div MonthLength
  <1>1. /\ Local(c, t) \in Int /\ Local(c, u) \in Int /\ Offset[c] \in Int
        /\ Local(c, t) = t + Offset[c] /\ Local(c, u) = u + Offset[c]
    BY DEF Local
  <1>2. k = n - 1
    BY <1>1, NumberOfMonth, NumberNext
  <1>3. /\ k \in Int /\ n \in Int
        /\ Local(c, t) < MonthLength * k + MonthLength
        /\ MonthLength * n <= Local(c, u)
    BY <1>1, Quotient
  <1> HIDE DEF k, n
  <1>4. MonthLength * k + MonthLength = MonthLength * n /\ MonthLength * n \in Int
    BY <1>2, <1>3
  <1>5. QED
    BY <1>1, <1>3, <1>4

(***************************************************************************)
(* The invariant                                                           *)
(***************************************************************************)

RateInv ==
  /\ events \in [Limiters -> [Keys -> Seq(Int)]]
  /\ admitted \in [Limiters -> [Keys -> Seq(Int)]]
  /\ \A p \in Limiters, k \in Keys :
       Kept(events[p][k], admitted[p][k], now) /\ Spaced(admitted[p][k])

\* What a report says of its month, and that the month is over.
Settled(c, r) ==
  LET month == {t \in Instants : MonthOf(Local(c, t)) = r.month} IN
  /\ r.counted = {t \in month : ledger[c][t] # "none"}
  /\ r.approved = {t \in month : ledger[c][t] \in {"approved", "verified"}}
  /\ r.verified \subseteq r.approved
  /\ \A t \in month : t < now

ReportsInv ==
  /\ ReportsTypeOK
  /\ \A c \in Customers : \A r \in reports[c] : Settled(c, r)

\* How many of the rows come before e in a listing.
RankIn(rows, e) == Cardinality({f \in rows : ListedBefore(f, e)})

\* What was there at the start and comes before the cursor has been read;
\* nothing else has, unless rows came ahead of those read.
ListingOK(t, l, instant) ==
  LET rows == Rows(t, l.period) IN
  /\ \A e \in l.known :
       e.tenant = t /\ l.period[1] <= e.at /\ e.at < l.period[2]
  /\ \A e \in l.known \cup l.listed : e \in trail \/ e.at < instant
  /\ l.phase = "open" =>
       /\ \A e \in l.known \cap rows :
            RankIn(rows, e) < l.cursor => e \in l.listed
       /\ ~l.ahead =>
            /\ ~l.again
            /\ \A e \in l.listed \cap rows : RankIn(rows, e) < l.cursor
  /\ l.phase = "done" =>
       /\ l.known \cap trail \subseteq l.listed
       /\ ~l.ahead => ~l.again

\* A process stores one event at a time, which nobody has seen before.
DenialsFresh ==
  /\ \A r \in Recorders : denial[r] = {} \/ \E e \in Event : denial[r] = {e}
  /\ \A r, s \in Recorders : \A e \in denial[r], f \in denial[s] :
       e.id = f.id => r = s
  /\ \A r \in Recorders : \A e \in denial[r] :
       /\ \A f \in trail : f.id # e.id
       /\ \A t \in Tenants : e \notin listing[t].known \cup listing[t].listed

\* Listings are right and ids are fresh.
AuditInv(instant) ==
  /\ AuditTypeOK
  /\ IsFiniteSet(trail)
  /\ DenialsFresh
  /\ \A e, f \in trail : e.id = f.id => e = f
  /\ \A t \in Tenants : ListingOK(t, listing[t], instant)

ServiceInv ==
  /\ SchemaInv /\ LifeInv /\ RateInv /\ ReportsInv /\ AuditInv(now)
  /\ deeds \in 0..MaxDeeds

LEMMA InstantsAreInt == Instants \subseteq Int
  BY DEF Instants

LEMMA RateInvReset ==
  ASSUME RateInv, NEW p \in Limiters, ResetLimiter(p), UNCHANGED now
  PROVE  RateInv'
  <1>1. Kept(<<>>, <<>>, now) /\ Spaced(<<>>)
    BY DEF Kept, Spaced
  <1>2. \A q \in Limiters, k \in Keys :
          /\ Kept(events'[q][k], admitted'[q][k], now)
          /\ Spaced(admitted'[q][k])
    <2>1. TAKE q \in Limiters, k \in Keys
    <2>2. CASE q = p
      <3>1. events'[q][k] = <<>> /\ admitted'[q][k] = <<>>
        BY <2>2 DEF ResetLimiter, RateInv, NoEvents
      <3>2. QED
        BY <1>1, <3>1
    <2>3. CASE q # p
      <3>1. events'[q] = events[q] /\ admitted'[q] = admitted[q]
        BY <2>3 DEF ResetLimiter, RateInv
      <3>2. QED
        BY <3>1 DEF RateInv
    <2>4. QED
      BY <2>2, <2>3
  <1>3. /\ events' \in [Limiters -> [Keys -> Seq(Int)]]
        /\ admitted' \in [Limiters -> [Keys -> Seq(Int)]]
    BY DEF ResetLimiter, RateInv, NoEvents
  <1>4. \A q \in Limiters, k \in Keys :
          Kept(events'[q][k], admitted'[q][k], now') /\ Spaced(admitted'[q][k])
    BY <1>2
  <1>5. QED
    BY <1>3, <1>4 DEF RateInv

LEMMA RateInvAllow ==
  ASSUME RateInv, now \in Int, NEW p \in Limiters, NEW k \in Keys,
         Allow(p, k, now), UNCHANGED now
  PROVE  RateInv'
  <1> DEFINE r == Recent(events[p][k], now - Window)
             a == admitted[p][k]
  <1>1. Kept(events[p][k], a, now) /\ Spaced(a)
    BY DEF RateInv
  <1>2. Kept(r, a, now)
    BY <1>1, KeptRecent
  <1>3. r \in Seq(Int) /\ a \in Seq(Int) /\ Len(r) \in Nat
    BY <1>2 DEF Kept
  <1>4. PICK q \in Seq(Int), b \in Seq(Int) :
          /\ events' = [events EXCEPT ![p][k] = q]
          /\ admitted' = [admitted EXCEPT ![p][k] = b]
          /\ Kept(q, b, now) /\ Spaced(b)
    <2>1. CASE Len(r) >= Limit
      <3>1. events' = [events EXCEPT ![p][k] = r] /\ admitted' = admitted
        BY <2>1 DEF Allow
      <3>2. admitted = [admitted EXCEPT ![p][k] = a]
        BY DEF RateInv
      <3> HIDE DEF r, a
      <3>3. QED
        BY <1>1, <1>2, <1>3, <3>1, <3>2
    <2>2. CASE ~ (Len(r) >= Limit)
      <3>1. /\ events' = [events EXCEPT ![p][k] = Append(r, now)]
            /\ admitted' = [admitted EXCEPT ![p][k] = Append(@, now)]
        BY <2>2 DEF Allow
      <3>2. admitted' = [admitted EXCEPT ![p][k] = Append(a, now)]
        BY <3>1 DEF RateInv
      <3> HIDE DEF r, a
      <3>3. Len(r) < Limit
        BY <1>3, <2>2
      <3>4. Kept(Append(r, now), Append(a, now), now)
        BY <1>2, <3>3, KeptAppend
      <3>5. Spaced(Append(a, now))
        BY <1>1, <1>2, <3>3, SpacedAppend
      <3>6. Append(r, now) \in Seq(Int) /\ Append(a, now) \in Seq(Int)
        BY <3>4 DEF Kept
      <3>7. QED
        BY <3>1, <3>2, <3>4, <3>5, <3>6
    <2>3. QED
      BY <2>1, <2>2
  <1> HIDE DEF r, a
  <1>5. /\ events' \in [Limiters -> [Keys -> Seq(Int)]]
        /\ admitted' \in [Limiters -> [Keys -> Seq(Int)]]
    BY <1>4 DEF RateInv
  <1>6. \A o \in Limiters, j \in Keys :
          /\ Kept(events'[o][j], admitted'[o][j], now)
          /\ Spaced(admitted'[o][j])
    <2>1. TAKE o \in Limiters, j \in Keys
    <2>2. CASE o = p /\ j = k
      <3>1. events'[o][j] = q /\ admitted'[o][j] = b
        BY <1>4, <2>2 DEF RateInv
      <3>2. QED
        BY <1>4, <3>1
    <2>3. CASE ~ (o = p /\ j = k)
      <3>1. events'[o][j] = events[o][j] /\ admitted'[o][j] = admitted[o][j]
        BY <1>4, <2>3 DEF RateInv
      <3>2. QED
        BY <3>1 DEF RateInv
    <2>4. QED
      BY <2>2, <2>3
  <1>7. \A o \in Limiters, j \in Keys :
          Kept(events'[o][j], admitted'[o][j], now') /\ Spaced(admitted'[o][j])
    BY <1>6
  <1>8. QED
    BY <1>5, <1>7 DEF RateInv

LEMMA RateInvPass ==
  ASSUME RateInv, now \in Int, now' \in Int, now <= now', UNCHANGED rateVars
  PROVE  RateInv'
  <1>1. \A p \in Limiters, k \in Keys : Kept(events[p][k], admitted[p][k], now')
    BY KeptLater DEF RateInv
  <1>2. events' = events /\ admitted' = admitted
    BY DEF rateVars
  <1>3. \A p \in Limiters, k \in Keys :
          Kept(events'[p][k], admitted'[p][k], now') /\ Spaced(admitted'[p][k])
    BY <1>1, <1>2 DEF RateInv
  <1>4. QED
    BY <1>2, <1>3 DEF RateInv

\* A receipt or a decision at a later instant leaves a report true.
LEMMA SettledStep ==
  ASSUME NEW c \in Customers, NEW r, Settled(c, r), now \in Int, now' \in Int,
         now <= now',
         \A t \in Instants : t < now =>
           /\ ledger'[c][t] # "none" <=> ledger[c][t] # "none"
           /\ ledger'[c][t] \in {"approved", "verified"}
                <=> ledger[c][t] \in {"approved", "verified"}
  PROVE  Settled(c, r)'
  <1> DEFINE month == {t \in Instants : MonthOf(Local(c, t)) = r.month}
  <1>1. \A t \in month : t \in Instants /\ t \in Int /\ t < now
    BY InstantsAreInt DEF Settled
  <1>2. \A t \in month : t < now'
    BY <1>1
  <1> HIDE DEF month
  <1>3. {t \in month : ledger'[c][t] # "none"} = {t \in month : ledger[c][t] # "none"}
    BY <1>1
  <1>4. {t \in month : ledger'[c][t] \in {"approved", "verified"}}
        = {t \in month : ledger[c][t] \in {"approved", "verified"}}
    BY <1>1
  <1>5. QED
    BY <1>2, <1>3, <1>4 DEF Settled, month

LEMMA ReportsInvDecision ==
  ASSUME ReportsInv, NEW c \in Customers, Decide(c) \/ Verify(c)
  PROVE  ReportsInv'
  <1>1. now \in Int /\ now' = now /\ reports' = reports
    BY InstantsAreInt DEF ReportsInv, ReportsTypeOK, Decide, Verify
  <1>2. PICK t \in Instants, s \in Status :
          /\ ledger' = [ledger EXCEPT ![c][t] = s]
          /\ s # "none"
          /\ \/ t = now
             \/ s = "verified" /\ ledger[c][t] = "approved"
    BY DEF Decide, Verify, Status, ReportsInv, ReportsTypeOK
  <1>3. ReportsTypeOK'
    BY <1>1, <1>2 DEF ReportsInv, ReportsTypeOK
  <1>4. ASSUME NEW d \in Customers, NEW u \in Instants, u < now
        PROVE  /\ ledger'[d][u] # "none" <=> ledger[d][u] # "none"
               /\ ledger'[d][u] \in {"approved", "verified"}
                    <=> ledger[d][u] \in {"approved", "verified"}
    <2>1. CASE d = c /\ u = t
      <3>1. u # now
        BY <1>1, <1>4, InstantsAreInt
      <3>2. ledger'[d][u] = "verified" /\ ledger[d][u] = "approved"
        BY <1>2, <2>1, <3>1 DEF ReportsInv, ReportsTypeOK
      <3>3. QED
        BY <3>2
    <2>2. CASE ~ (d = c /\ u = t)
      <3>1. ledger'[d][u] = ledger[d][u]
        BY <1>2, <2>2 DEF ReportsInv, ReportsTypeOK
      <3>2. QED
        BY <3>1
    <2>3. QED
      BY <2>1, <2>2
  <1>5. \A d \in Customers : \A r \in reports[d] : Settled(d, r)'
    <2>1. TAKE d \in Customers
    <2>2. TAKE r \in reports[d]
    <2>3. Settled(d, r)
      BY DEF ReportsInv
    <2>4. QED
      BY <1>1, <1>4, <2>3, SettledStep
  <1>6. QED
    BY <1>1, <1>3, <1>5 DEF ReportsInv

LEMMA ReportsInvFire ==
  ASSUME ReportsInv, NEW p \in Reporters, NEW c \in Customers, Fire(p, c)
  PROVE  ReportsInv'
  <1> DEFINE m == PreviousMonth(MonthOf(Local(c, now)))
             new == Aggregate(p, c, m)
             month == {t \in Instants : MonthOf(Local(c, t)) = m}
  <1>1. now \in Int /\ now' = now /\ ledger' = ledger
    BY InstantsAreInt DEF ReportsInv, ReportsTypeOK, Fire
  <1>2. reports' = [reports EXCEPT ![c] = @ \cup {new}]
    BY DEF Fire
  <1>3. Local(c, now) \in Int
    BY <1>1 DEF Local
  <1>4. m \in Months
    BY <1>3, NumberOfMonth, NumberNext
  <1>5. \A t \in month : t < now
    <2>1. TAKE t \in month
    <2>2. t \in Int /\ MonthOf(Local(c, t)) = m
      BY InstantsAreInt
    <2>3. QED
      BY <1>1, <2>2, PreviousMonthIsOver
  <1> HIDE DEF m
  <1>6. InMonth(c, m) = {t \in month : ledger[c][t] # "none"}
    <2>1. \A t \in Instants :
            (Begins(c, m) <= t /\ t < Begins(c, NextMonth(m)))
            <=> MonthOf(Local(c, t)) = m
      BY <1>4, InstantsAreInt, MonthIsInterval
    <2>2. QED
      BY <2>1 DEF InMonth
  <1>7. /\ new.month = m /\ new.counted = InMonth(c, m)
        /\ new.approved = {t \in InMonth(c, m) : ledger[c][t] \in {"approved", "verified"}}
        /\ new.verified = {t \in InMonth(c, m) : ledger[c][t] = "verified"}
    BY DEF Aggregate
  <1>8. new \in Report
    <2>1. InMonth(c, m) \subseteq Instants
      BY DEF InMonth
    <2>2. QED
      BY <1>4, <2>1 DEF Aggregate, Report
  <1>9. Settled(c, new)
    <2> HIDE DEF new
    <2>1. new.approved = {t \in month : ledger[c][t] \in {"approved", "verified"}}
      BY <1>6, <1>7
    <2>2. new.verified \subseteq new.approved
      BY <1>7
    <2>3. QED
      BY <1>5, <1>6, <1>7, <2>1, <2>2 DEF Settled
  <1> HIDE DEF new
  <1>10. ReportsTypeOK'
    BY <1>1, <1>2, <1>8 DEF ReportsInv, ReportsTypeOK
  <1>11. \A d \in Customers : \A r \in reports'[d] : Settled(d, r)
    BY <1>2, <1>9 DEF ReportsInv, ReportsTypeOK
  <1>12. \A d \in Customers : \A r \in reports'[d] : Settled(d, r)'
    BY <1>1, <1>11 DEF Settled
  <1>13. QED
    BY <1>10, <1>12 DEF ReportsInv

LEMMA ReportsInvPass ==
  ASSUME ReportsInv, Pass
  PROVE  ReportsInv'
  <1>1. /\ now \in Int /\ now' \in Instants /\ now' = now + 1
        /\ ledger' = ledger /\ reports' = reports
    BY DEF ReportsInv, ReportsTypeOK, Pass, Instants
  <1>2. \A c \in Customers : \A r \in reports[c] : Settled(c, r)'
    <2>1. TAKE c \in Customers
    <2>2. TAKE r \in reports[c]
    <2>3. Settled(c, r)
      BY DEF ReportsInv
    <2>4. now' \in Int /\ now <= now'
      BY <1>1
    <2>5. QED
      BY <1>1, <2>3, <2>4, SettledStep
  <1>3. ReportsTypeOK'
    BY <1>1 DEF ReportsInv, ReportsTypeOK
  <1>4. QED
    BY <1>1, <1>2, <1>3 DEF ReportsInv

LEMMA ReportsInvStutter ==
  ASSUME ReportsInv, UNCHANGED reportsVars
  PROVE  ReportsInv'
  BY DEF ReportsInv, ReportsTypeOK, Settled, reportsVars

(***************************************************************************)
(* The archive of denied requests                                          *)
(***************************************************************************)

\* The order of a listing is strict and total on events of different ids.
LEMMA ListedOrder ==
  ASSUME NEW e \in Event, NEW f \in Event, NEW g \in Event
  PROVE  /\ ~ListedBefore(e, e)
         /\ ListedBefore(e, f) /\ ListedBefore(f, g) => ListedBefore(e, g)
         /\ e.id # f.id => ListedBefore(e, f) \/ ListedBefore(f, e)
         /\ ListedBefore(e, f) => e.at >= f.at
  <1>1. /\ e.id \in Nat /\ f.id \in Nat /\ g.id \in Nat
        /\ e.at \in Int /\ f.at \in Int /\ g.at \in Int
    BY AuditAssumption DEF Event
  <1>2. QED
    BY <1>1 DEF ListedBefore

\* Rows of a page query: finitely many events of different ids.
Listable(rows) ==
  /\ rows \subseteq Event /\ IsFiniteSet(rows)
  /\ \A e, f \in rows : e.id = f.id => e = f

LEMMA RankType ==
  ASSUME NEW rows, Listable(rows), NEW e
  PROVE  /\ RankIn(rows, e) \in Nat
         /\ IsFiniteSet({f \in rows : ListedBefore(f, e)})
  <1>1. {f \in rows : ListedBefore(f, e)} \subseteq rows /\ IsFiniteSet(rows)
    BY DEF Listable
  <1>2. IsFiniteSet({f \in rows : ListedBefore(f, e)})
    BY <1>1, FS_Subset
  <1>3. QED
    BY <1>2, FS_CardinalityType DEF RankIn

LEMMA RankGrows ==
  ASSUME NEW rows, Listable(rows), NEW e \in rows, NEW f \in rows,
         ListedBefore(f, e)
  PROVE  RankIn(rows, f) < RankIn(rows, e)
  <1> DEFINE B(x) == {g \in rows : ListedBefore(g, x)}
  <1>1. B(f) \subseteq B(e) /\ f \in B(e) /\ f \notin B(f)
    BY ListedOrder DEF Listable
  <1>2. IsFiniteSet(B(e)) /\ IsFiniteSet(B(f))
    BY RankType
  <1>3. Cardinality(B(f)) \in Nat /\ Cardinality(B(e)) \in Nat
    BY <1>2, FS_CardinalityType
  <1>4. Cardinality(B(f)) <= Cardinality(B(e))
        /\ (Cardinality(B(e)) = Cardinality(B(f)) => B(e) = B(f))
    BY <1>1, <1>2, FS_Subset
  <1>5. QED
    BY <1>1, <1>3, <1>4 DEF RankIn

LEMMA RankDiffers ==
  ASSUME NEW rows, Listable(rows), NEW e \in rows, NEW f \in rows,
         RankIn(rows, e) = RankIn(rows, f)
  PROVE  e = f
  <1>1. CASE e.id = f.id
    BY <1>1 DEF Listable
  <1>2. CASE e.id # f.id
    <2>1. ListedBefore(e, f) \/ ListedBefore(f, e)
      BY <1>2, ListedOrder DEF Listable
    <2>2. RankIn(rows, e) \in Nat /\ RankIn(rows, f) \in Nat
      BY RankType
    <2>3. QED
      BY <2>1, <2>2, RankGrows
  <1>3. QED
    BY <1>1, <1>2

\* No rank below that of a row is left out.
LEMMA RanksAreDense ==
  ASSUME NEW rows, Listable(rows), NEW e \in rows,
         NEW j \in 0..(RankIn(rows, e) - 1)
  PROVE  \E f \in rows : RankIn(rows, f) = j
  <1> DEFINE B == {f \in rows : ListedBefore(f, e)}
             n == RankIn(rows, e)
             rank == [f \in B |-> RankIn(rows, f)]
  <1>1. n \in Nat /\ IsFiniteSet(B) /\ Cardinality(B) = n
    BY RankType DEF RankIn
  <1>2. IsFiniteSet(0..(n - 1)) /\ Cardinality(0..(n - 1)) = n
    <2>1. n - 1 \in Int
      BY <1>1
    <2>2. QED
      BY <1>1, <2>1, FS_Interval
  <1>3. \A f \in B : RankIn(rows, f) \in 0..(n - 1)
    <2>1. \A f \in B : RankIn(rows, f) \in Nat /\ RankIn(rows, f) < n
      BY RankType, RankGrows
    <2>2. QED
      BY <1>1, <2>1
  <1>4. rank \in Injection(B, 0..(n - 1))
    <2>1. rank \in [B -> 0..(n - 1)]
      BY <1>3
    <2>2. \A f, g \in B : rank[f] = rank[g] => f = g
      BY RankDiffers
    <2> HIDE DEF rank, B, n
    <2>3. QED
      BY <2>1, <2>2 DEF Injection, IsInjective
  <1>5. rank \in Surjection(B, 0..(n - 1))
    <2> HIDE DEF rank, B, n
    <2>1. QED
      BY <1>1, <1>2, <1>4, FS_Injection
  <1>6. PICK f \in B : rank[f] = j
    <2> HIDE DEF rank, B
    <2>1. QED
      BY <1>5 DEF Surjection
  <1>7. QED
    BY <1>6

\* A page with a row after it is full.
LEMMA PageIsFull ==
  ASSUME NEW rows, Listable(rows), NEW cursor \in Nat, NEW e \in rows,
         RankIn(rows, e) >= cursor + PageLimit
  PROVE  Cardinality(Page(rows, cursor)) = PageLimit
  <1> DEFINE page == Page(rows, cursor)
             places == cursor..(cursor + PageLimit - 1)
             rank == [f \in page |-> RankIn(rows, f)]
  <1>1. page = {f \in rows : RankIn(rows, f) \in places}
    BY DEF Page, RankIn
  <1>2. PageLimit \in Nat \ {0} /\ RankIn(rows, e) \in Nat
    BY AuditAssumption, RankType
  <1>3. IsFiniteSet(places) /\ Cardinality(places) = PageLimit
    <2>1. PICK last \in Int : last = cursor + PageLimit - 1
      BY <1>2
    <2>2. cursor \in Int /\ ~(cursor > last) /\ last - cursor + 1 = PageLimit
      BY <1>2, <2>1
    <2>3. IsFiniteSet(cursor..last) /\
          Cardinality(cursor..last) = IF cursor > last THEN 0 ELSE last - cursor + 1
      BY <2>2, FS_Interval
    <2>4. QED
      BY <2>1, <2>2, <2>3
  <1>4. \A j \in places : \E f \in page : RankIn(rows, f) = j
    <2>1. \A j \in places : j \in 0..(RankIn(rows, e) - 1)
      BY <1>2
    <2>2. QED
      BY <1>1, <2>1, RanksAreDense
  <1>5. rank \in Injection(page, places) /\ rank \in Surjection(page, places)
    <2>1. rank \in [page -> places]
      BY <1>1
    <2>2. \A f, g \in page : rank[f] = rank[g] => f = g
      BY <1>1, RankDiffers
    <2>3. \A j \in places : \E f \in page : rank[f] = j
      BY <1>4
    <2> HIDE DEF rank, page, places
    <2>4. rank \in Injection(page, places)
      BY <2>1, <2>2 DEF Injection, IsInjective
    <2>5. rank \in Surjection(page, places)
      BY <2>1, <2>3 DEF Surjection
    <2>6. QED
      BY <2>4, <2>5
  <1> HIDE DEF rank, page, places
  <1>6. Cardinality(page) = Cardinality(places)
    BY <1>3, <1>5, FS_Injection
  <1>7. QED
    BY <1>3, <1>6 DEF page

(***************************************************************************)
(* Steps                                                                   *)
(***************************************************************************)

\* The rows of a period are listable.
LEMMA RowsListable ==
  ASSUME NEW instant, AuditInv(instant), NEW t \in Tenants, NEW period
  PROVE  Listable(Rows(t, period)) /\ Rows(t, period) \subseteq trail
  <1>1. Rows(t, period) \subseteq trail /\ trail \subseteq Event
    BY DEF Rows, AuditInv, AuditTypeOK
  <1>2. IsFiniteSet(Rows(t, period))
    BY <1>1, FS_Subset DEF AuditInv
  <1>3. QED
    BY <1>1, <1>2 DEF Listable, AuditInv

\* A later event puts rows further back, if it is a row at all.
LEMMA RankOfMore ==
  ASSUME NEW rows, NEW more, Listable(more), rows \subseteq more, NEW e
  PROVE  RankIn(rows, e) \in Nat /\ RankIn(rows, e) <= RankIn(more, e)
  <1>1. /\ {f \in rows : ListedBefore(f, e)} \subseteq
             {f \in more : ListedBefore(f, e)}
        /\ IsFiniteSet({f \in more : ListedBefore(f, e)})
    BY RankType
  <1>2. IsFiniteSet({f \in rows : ListedBefore(f, e)})
    BY <1>1, FS_Subset
  <1>3. QED
    BY <1>1, <1>2, FS_Subset, FS_CardinalityType DEF RankIn

\* A new event is none that was ever in the archive.
LEMMA AuditDeny ==
  ASSUME NEW instant \in Int, AuditInv(instant), NEW r \in Recorders,
         NEW t \in Tenants, Deny(r, t, instant)
  PROVE  AuditInv(instant)'
  <1>1. PICK id \in EventIds :
          /\ \A e \in trail \cup UNION {denial[s] : s \in Recorders} : e.id # id
          /\ denial' = [denial EXCEPT ![r] =
                          {[id |-> id, at |-> instant, tenant |-> t]}]
    BY DEF Deny
  <1>2. PICK new \in Event : new = [id |-> id, at |-> instant, tenant |-> t]
    BY DEF Event
  <1>3. /\ new.id = id /\ new.at = instant /\ trail' = trail /\ listing' = listing
        /\ denial' = [denial EXCEPT ![r] = {new}]
    BY <1>1, <1>2 DEF Deny
  <1>4. /\ trail \subseteq Event /\ denial \in [Recorders -> SUBSET Event]
        /\ listing \in [Tenants -> Listing]
    BY DEF AuditInv, AuditTypeOK
  <1>5. denial' \in [Recorders -> SUBSET Event]
    BY <1>3, <1>4
  <1>6. /\ denial'[r] = {new}
        /\ \A s \in Recorders \ {r} : denial'[s] = denial[s]
    BY <1>3, <1>4
  <1>7. /\ \A e \in trail : e.id # new.id
        /\ \A s \in Recorders : \A e \in denial[s] : e.id # new.id
    BY <1>1, <1>3
  <1>8. ASSUME NEW s \in Tenants
        PROVE  new \notin listing[s].known \cup listing[s].listed
    <2>1. \A e \in listing[s].known \cup listing[s].listed :
            e \in trail \/ e.at < instant
      BY DEF AuditInv, ListingOK
    <2>2. ~(new.at < instant)
      BY <1>3
    <2>3. QED
      BY <1>7, <2>1, <2>2
  <1>9. DenialsFresh'
    <2>1. \A s \in Recorders : denial'[s] = {} \/ \E e \in Event : denial'[s] = {e}
      BY <1>6 DEF AuditInv, DenialsFresh
    <2>2. \A s, u \in Recorders : \A e \in denial'[s], f \in denial'[u] :
            e.id = f.id => s = u
      BY <1>6, <1>7 DEF AuditInv, DenialsFresh
    <2>3. \A s \in Recorders : \A e \in denial'[s] :
            /\ \A f \in trail : f.id # e.id
            /\ \A u \in Tenants : e \notin listing[u].known \cup listing[u].listed
      BY <1>6, <1>7, <1>8 DEF AuditInv, DenialsFresh
    <2>4. QED
      BY <1>3, <2>1, <2>2, <2>3 DEF DenialsFresh
  <1>10. \A s \in Tenants : ListingOK(s, listing[s], instant)'
    BY <1>3 DEF AuditInv, ListingOK, Rows
  <1>11. QED
    BY <1>3, <1>5, <1>9, <1>10 DEF AuditInv, AuditTypeOK

LEMMA AuditAbandon ==
  ASSUME NEW instant \in Int, AuditInv(instant), NEW r \in Recorders, Abandon(r)
  PROVE  AuditInv(instant)'
  <1>1. /\ trail' = trail /\ listing' = listing
        /\ denial \in [Recorders -> SUBSET Event]
        /\ denial' = [denial EXCEPT ![r] = {}]
    BY DEF Abandon, AuditInv, AuditTypeOK
  <1>2. /\ denial' \in [Recorders -> SUBSET Event] /\ denial'[r] = {}
        /\ \A s \in Recorders \ {r} : denial'[s] = denial[s]
    BY <1>1
  <1>3. DenialsFresh'
    BY <1>1, <1>2 DEF AuditInv, DenialsFresh
  <1>4. \A s \in Tenants : ListingOK(s, listing[s], instant)'
    BY <1>1 DEF AuditInv, ListingOK, Rows
  <1>5. QED
    BY <1>1, <1>2, <1>3, <1>4 DEF AuditInv, AuditTypeOK

\* A row that is listed after those read shifts none of them.
LEMMA AuditRecord ==
  ASSUME NEW instant \in Int, AuditInv(instant), NEW r \in Recorders, Record(r)
  PROVE  AuditInv(instant)'
  <1>1. PICK new \in Event : denial[r] = {new}
    BY DEF Record, AuditInv, DenialsFresh
  <1> DEFINE A(s) == listing[s].ahead \/ (new.tenant = s /\ ComesAhead(new, listing[s]))
  <1>2. /\ trail' = trail \cup {new}
        /\ denial' = [denial EXCEPT ![r] = {}]
        /\ listing' = [s \in Tenants |-> [listing[s] EXCEPT !.ahead = A(s)]]
    <2>1. \A s \in Tenants :
            (\E e \in denial[r] : e.tenant = s /\ ComesAhead(e, listing[s])) =
            (new.tenant = s /\ ComesAhead(new, listing[s]))
      BY <1>1
    <2>2. listing' = [s \in Tenants |->
            [listing[s] EXCEPT !.ahead = listing[s].ahead \/
               \E e \in denial[r] : e.tenant = s /\ ComesAhead(e, listing[s])]]
      BY DEF Record
    <2>3. QED
      BY <1>1, <2>1, <2>2 DEF Record
  <1>3. /\ trail \subseteq Event /\ denial \in [Recorders -> SUBSET Event]
        /\ listing \in [Tenants -> Listing] /\ IsFiniteSet(trail)
    BY DEF AuditInv, AuditTypeOK
  <1>4. ASSUME NEW s \in Tenants
        PROVE  /\ listing'[s] \in Listing
               /\ listing'[s].ahead = A(s)
               /\ listing'[s].phase = listing[s].phase
               /\ listing'[s].period = listing[s].period
               /\ listing'[s].cursor = listing[s].cursor
               /\ listing'[s].listed = listing[s].listed
               /\ listing'[s].again = listing[s].again
               /\ listing'[s].known = listing[s].known
    <2>1. A(s) \in BOOLEAN
      BY <1>3 DEF Listing, ComesAhead
    <2>2. listing'[s] = [listing[s] EXCEPT !.ahead = A(s)] /\ listing[s] \in Listing
      BY <1>2, <1>3
    <2> HIDE DEF A
    <2>3. QED
      BY <2>1, <2>2 DEF Listing
  <1>5. /\ new.id \notin {e.id : e \in trail}
        /\ \A s \in Tenants : new \notin listing[s].known \cup listing[s].listed
    BY <1>1 DEF AuditInv, DenialsFresh
  <1>6. /\ trail' \subseteq Event /\ IsFiniteSet(trail')
        /\ \A e, f \in trail' : e.id = f.id => e = f
    BY <1>2, <1>3, <1>5, FS_AddElement DEF AuditInv
  <1>7. AuditTypeOK'
    <2>1. denial' \in [Recorders -> SUBSET Event]
      BY <1>2, <1>3
    <2>2. listing' \in [Tenants -> Listing]
      BY <1>2, <1>4
    <2>3. QED
      BY <1>6, <2>1, <2>2 DEF AuditTypeOK
  <1>8. DenialsFresh'
    <2>1. /\ denial'[r] = {}
          /\ \A s \in Recorders \ {r} : denial'[s] = denial[s]
      BY <1>2, <1>3
    <2>2. \A s \in Recorders \ {r} : \A e \in denial[s] : e.id # new.id
      BY <1>1 DEF AuditInv, DenialsFresh
    <2>3. \A s \in Recorders : \A e \in denial'[s] :
            /\ \A f \in trail' : f.id # e.id
            /\ \A t \in Tenants : e \notin listing'[t].known \cup listing'[t].listed
      BY <1>2, <1>4, <2>1, <2>2 DEF AuditInv, DenialsFresh
    <2>4. QED
      BY <2>1, <2>3 DEF AuditInv, DenialsFresh
  <1>9. ASSUME NEW s \in Tenants
        PROVE  ListingOK(s, listing[s], instant)'
    <2> DEFINE l == listing[s]
               m == listing'[s]
               rows == Rows(s, l.period)
               more == {e \in trail' : /\ e.tenant = s /\ l.period[1] <= e.at
                                       /\ e.at < l.period[2]}
    <2>1. ListingOK(s, l, instant) /\ l \in Listing
      BY DEF AuditInv, AuditTypeOK
    <2>2. Rows(s, listing[s].period)' = more
      BY <1>4 DEF Rows
    <2>3. /\ more \subseteq Event /\ IsFiniteSet(more)
          /\ rows \subseteq more /\ more \subseteq rows \cup {new}
      BY <1>2, <1>6, FS_Subset DEF Rows
    <2>4. Listable(more)
      BY <1>2, <1>6, <2>3 DEF Listable
    <2>5. \A e \in more : RankIn(rows, e) \in Nat /\ RankIn(more, e) \in Nat
                          /\ RankIn(rows, e) <= RankIn(more, e)
      BY <2>3, <2>4, RankOfMore, RankType
    <2>6. l.cursor \in Nat /\ l.ahead \in BOOLEAN
      BY <2>1 DEF Listing
    <2>7. new \notin l.known \cup l.listed
      BY <1>5
    <2>8. ASSUME l.phase = "open", ~m.ahead, NEW e \in l.listed \cap more
          PROVE  e \in rows /\ RankIn(more, e) = RankIn(rows, e)
      <3>1. e \in rows
        BY <2>3, <2>7
      <3>2. ~(new \in more /\ ListedBefore(new, e))
        BY <1>4, <2>8 DEF ComesAhead
      <3>3. {f \in more : ListedBefore(f, e)} = {f \in rows : ListedBefore(f, e)}
        BY <2>3, <3>2
      <3>4. QED
        BY <3>1, <3>3 DEF RankIn
    <2>9. ~m.ahead => ~l.ahead
      BY <1>4, <2>6
    <2>10. /\ m.phase = l.phase /\ m.period = l.period /\ m.cursor = l.cursor
           /\ m.listed = l.listed /\ m.again = l.again /\ m.known = l.known
      BY <1>4
    <2>11. /\ trail \subseteq trail'
           /\ \A e \in l.known \cap trail' : e \in trail
           /\ \A e \in l.known \cap more : e \in rows
      BY <1>2, <2>3, <2>7
    <2> HIDE DEF l, m, rows, more
    <2>12. /\ \A e \in l.known :
                e.tenant = s /\ l.period[1] <= e.at /\ e.at < l.period[2]
           /\ \A e \in l.known \cup l.listed : e \in trail \/ e.at < instant
           /\ l.phase = "done" => /\ l.known \cap trail \subseteq l.listed
                                  /\ ~l.ahead => ~l.again
           /\ l.phase = "open" =>
                /\ \A e \in l.known \cap rows :
                     RankIn(rows, e) < l.cursor => e \in l.listed
                /\ ~l.ahead =>
                     /\ ~l.again
                     /\ \A e \in l.listed \cap rows : RankIn(rows, e) < l.cursor
      BY <2>1 DEF ListingOK, rows
    <2>13. l.phase = "open" => \A e \in l.known \cap more :
             RankIn(more, e) < l.cursor => e \in l.listed
      <3>1. ASSUME l.phase = "open", NEW e \in l.known \cap more,
                   RankIn(more, e) < l.cursor
            PROVE  e \in l.listed
        <4>1. e \in rows /\ RankIn(rows, e) < l.cursor
          BY <2>5, <2>6, <2>11, <3>1
        <4>2. QED
          BY <2>12, <3>1, <4>1
      <3>2. QED
        BY <3>1
    <2>14. l.phase = "open" /\ ~m.ahead =>
             /\ ~l.again
             /\ \A e \in l.listed \cap more : RankIn(more, e) < l.cursor
      BY <2>8, <2>9, <2>12
    <2>15. /\ \A e \in m.known :
                e.tenant = s /\ m.period[1] <= e.at /\ e.at < m.period[2]
           /\ \A e \in m.known \cup m.listed : e \in trail' \/ e.at < instant
           /\ m.phase = "done" => /\ m.known \cap trail' \subseteq m.listed
                                  /\ ~m.ahead => ~m.again
      BY <2>9, <2>10, <2>11, <2>12
    <2>16. m.phase = "open" =>
             /\ \A e \in m.known \cap more :
                  RankIn(more, e) < m.cursor => e \in m.listed
             /\ ~m.ahead =>
                  /\ ~m.again
                  /\ \A e \in m.listed \cap more : RankIn(more, e) < m.cursor
      BY <2>10, <2>13, <2>14
    <2>17. m = listing'[s]
      BY DEF m
    <2>18. QED
      BY <2>2, <2>15, <2>16, <2>17 DEF ListingOK
  <1>10. QED
    BY <1>6, <1>7, <1>8, <1>9 DEF AuditInv

\* Only what comes after the rows that stay is deleted.
LEMMA AuditPurge ==
  ASSUME NEW instant \in Int, AuditInv(instant), Purge(instant)
  PROVE  AuditInv(instant)'
  <1>1. /\ trail' = {e \in trail : e.at >= instant - Retention}
        /\ trail' \subseteq trail /\ listing' = listing /\ denial' = denial
    BY DEF Purge
  <1>2. AuditTypeOK' /\ trail \subseteq Event
    BY <1>1 DEF AuditInv, AuditTypeOK
  <1>3. IsFiniteSet(trail')
    BY <1>1, FS_Subset DEF AuditInv
  <1>4. /\ \A e, f \in trail' : e.id = f.id => e = f
        /\ DenialsFresh'
    BY <1>1 DEF AuditInv, DenialsFresh
  <1>5. ASSUME NEW s \in Tenants
        PROVE  ListingOK(s, listing[s], instant)'
    <2> DEFINE l == listing[s]
               rows == Rows(s, l.period)
               less == {e \in rows : e.at >= instant - Retention}
    <2>1. ListingOK(s, l, instant) /\ l \in Listing
      BY DEF AuditInv, AuditTypeOK
    <2>2. listing'[s] = l /\ Rows(s, listing[s].period)' = less
      BY <1>1 DEF Rows
    <2>3. Listable(rows)
      BY RowsListable
    <2>4. ASSUME NEW e \in less
          PROVE  RankIn(less, e) = RankIn(rows, e)
      <3>1. ASSUME NEW f \in rows, ListedBefore(f, e)
            PROVE  f \in less
        <4>1. f \in Event /\ e \in Event
          BY <2>3 DEF Listable
        <4>2. f.at >= e.at /\ f.at \in Int /\ e.at \in Int
          BY <3>1, <4>1, ListedOrder DEF Event
        <4>3. e.at >= instant - Retention /\ instant - Retention \in Int
          BY AuditAssumption
        <4>4. QED
          BY <4>2, <4>3
      <3>2. {f \in less : ListedBefore(f, e)} = {f \in rows : ListedBefore(f, e)}
        BY <3>1
      <3>3. QED
        BY <3>2 DEF RankIn
    <2>5. less \subseteq rows
      OBVIOUS
    <2>6. /\ \A e \in l.known :
               e.tenant = s /\ l.period[1] <= e.at /\ e.at < l.period[2]
          /\ \A e \in l.known \cup l.listed : e \in trail' \/ e.at < instant
      <3>1. ASSUME NEW e \in l.known \cup l.listed, e \in trail, e \notin trail'
            PROVE  e.at < instant
        <4>1. e.at \in Int /\ Retention \in Nat \ {0}
          BY <1>2, <3>1, AuditAssumption DEF Event
        <4>2. ~(e.at >= instant - Retention)
          BY <1>1, <3>1
        <4>3. QED
          BY <4>1, <4>2
      <3>2. QED
        BY <2>1, <3>1 DEF ListingOK
    <2> HIDE DEF l, rows, less
    <2>7. l.phase = "done" => /\ l.known \cap trail' \subseteq l.listed
                              /\ ~l.ahead => ~l.again
      BY <1>1, <2>1 DEF ListingOK
    <2>8. l.phase = "open" =>
            /\ \A e \in l.known \cap rows :
                 RankIn(rows, e) < l.cursor => e \in l.listed
            /\ ~l.ahead =>
                 /\ ~l.again
                 /\ \A e \in l.listed \cap rows : RankIn(rows, e) < l.cursor
      BY <2>1 DEF ListingOK, rows
    <2>9. l.phase = "open" =>
            /\ \A e \in l.known \cap less :
                 RankIn(less, e) < l.cursor => e \in l.listed
            /\ ~l.ahead =>
                 /\ ~l.again
                 /\ \A e \in l.listed \cap less : RankIn(less, e) < l.cursor
      BY <2>4, <2>5, <2>8
    <2>10. QED
      BY <2>2, <2>6, <2>7, <2>9 DEF ListingOK
  <1>6. QED
    BY <1>2, <1>3, <1>4, <1>5 DEF AuditInv

\* Another tenant's listing is not touched.
LEMMA OtherListings ==
  ASSUME NEW instant \in Int, AuditInv(instant), UNCHANGED <<trail, denial>>,
         NEW t \in Tenants, NEW new, new \in Listing,
         listing' = [listing EXCEPT ![t] = new],
         new.known \cup new.listed \subseteq
           trail \cup listing[t].known \cup listing[t].listed,
         ListingOK(t, new, instant)
  PROVE  AuditInv(instant)'
  <1>1. AuditTypeOK'
    BY DEF AuditInv, AuditTypeOK
  <1>2. \A s \in Tenants : listing'[s] = IF s = t THEN new ELSE listing[s]
    BY DEF AuditInv, AuditTypeOK
  <1>3. ASSUME NEW s \in Tenants
        PROVE  ListingOK(s, listing[s], instant)'
    <2>1. ListingOK(s, listing'[s], instant)
      BY <1>2 DEF AuditInv
    <2>2. QED
      BY <2>1 DEF ListingOK, Rows
  <1>4. DenialsFresh'
    <2>1. ASSUME NEW r \in Recorders, NEW e \in denial[r], NEW s \in Tenants
          PROVE  e \notin listing'[s].known \cup listing'[s].listed
      <3>1. /\ e \notin trail
            /\ e \notin listing[s].known \cup listing[s].listed
            /\ e \notin listing[t].known \cup listing[t].listed
        BY DEF AuditInv, DenialsFresh
      <3>2. QED
        BY <1>2, <3>1
    <2>2. QED
      BY <2>1 DEF AuditInv, DenialsFresh
  <1>5. QED
    BY <1>1, <1>3, <1>4 DEF AuditInv

LEMMA AuditOpen ==
  ASSUME NEW instant \in Int, AuditInv(instant), NEW t \in Tenants,
         OpenListing(t)
  PROVE  AuditInv(instant)'
  <1>1. PICK period \in Periods :
          listing' = [listing EXCEPT ![t] =
            [NoListing EXCEPT !.phase = "open", !.period = period,
                              !.known = Rows(t, period)]]
    BY DEF OpenListing
  <1> DEFINE new == [NoListing EXCEPT !.phase = "open", !.period = period,
                                      !.known = Rows(t, period)]
  <1>2. /\ Rows(t, period) \subseteq Event /\ Listable(Rows(t, period))
        /\ Rows(t, period) \subseteq trail
    BY RowsListable DEF Listable
  <1>3. period \in Int \X Int
    BY AuditAssumption
  <1>4. listing' = [listing EXCEPT ![t] = new]
    BY <1>1
  <1>5. /\ new \in Listing /\ new.phase = "open" /\ new.period = period
        /\ new.cursor = 0 /\ new.listed = {} /\ new.again = FALSE
        /\ new.known = Rows(t, period)
    <2>1. PICK k \in SUBSET Event : k = Rows(t, period)
      BY <1>2
    <2>2. new = [NoListing EXCEPT !.phase = "open", !.period = period,
                                  !.known = k]
      BY <2>1
    <2>3. NoListing \in Listing
      BY DEF NoListing, Listing
    <2>4. /\ NoListing.cursor = 0 /\ NoListing.listed = {}
          /\ NoListing.again = FALSE
      BY DEF NoListing
    <2> HIDE DEF new
    <2>5. /\ new \in Listing /\ new.phase = "open" /\ new.period = period
          /\ new.cursor = NoListing.cursor /\ new.listed = NoListing.listed
          /\ new.again = NoListing.again /\ new.known = k
      BY <1>3, <2>2, <2>3 DEF Listing
    <2>6. QED
      BY <2>1, <2>4, <2>5
  <1> HIDE DEF new
  <1>6. \A e \in Rows(t, period) :
          /\ e.tenant = t /\ period[1] <= e.at /\ e.at < period[2]
          /\ ~(RankIn(Rows(t, period), e) < 0)
    <2>1. \A e \in Rows(t, period) : RankIn(Rows(t, period), e) \in Nat
      BY <1>2, RankType
    <2>2. QED
      BY <2>1 DEF Rows
  <1>7. ListingOK(t, new, instant)
    BY <1>2, <1>5, <1>6 DEF ListingOK
  <1>8. UNCHANGED <<trail, denial>>
    BY DEF OpenListing
  <1>9. QED
    BY <1>2, <1>4, <1>5, <1>7, <1>8, OtherListings

LEMMA AuditRead ==
  ASSUME NEW instant \in Int, AuditInv(instant), NEW t \in Tenants, ReadPage(t)
  PROVE  AuditInv(instant)'
  <1>1. PICK l \in Listing : l = listing[t]
    BY DEF AuditInv, AuditTypeOK
  <1>2. PICK rows : rows = Rows(t, l.period)
    OBVIOUS
  <1>3. PICK page : page = Page(rows, l.cursor)
    OBVIOUS
  <1>4. /\ Listable(rows) /\ rows \subseteq trail
        /\ page = {e \in rows : RankIn(rows, e)
                                  \in l.cursor..(l.cursor + PageLimit - 1)}
    BY <1>2, <1>3, RowsListable DEF Page, RankIn
  <1>5. /\ PageLimit \in Nat \ {0} /\ l.cursor \in Nat
        /\ \A e \in rows : RankIn(rows, e) \in Nat
    BY <1>1, <1>4, AuditAssumption, RankType DEF Listing
  <1>6. ListingOK(t, l, instant) /\ l.phase = "open"
    BY <1>1 DEF AuditInv, ReadPage
  <1>7. /\ \A e \in l.known :
             e.tenant = t /\ l.period[1] <= e.at /\ e.at < l.period[2]
        /\ \A e \in l.known \cup l.listed : e \in trail \/ e.at < instant
        /\ \A e \in l.known \cap rows :
             RankIn(rows, e) < l.cursor => e \in l.listed
        /\ ~l.ahead =>
             /\ ~l.again
             /\ \A e \in l.listed \cap rows : RankIn(rows, e) < l.cursor
    BY <1>2, <1>6 DEF ListingOK
  <1>8. ~l.ahead => page \cap l.listed = {}
    BY <1>4, <1>5, <1>7
  <1>9. PICK read \in Listing :
          /\ read.phase = "open" /\ read.period = l.period
          /\ read.cursor = l.cursor /\ read.known = l.known
          /\ read.ahead = l.ahead
          /\ read.listed = l.listed \cup page
          /\ read.again = (l.again \/ page \cap l.listed # {})
          /\ read = [l EXCEPT !.listed = @ \cup page,
                              !.again = @ \/ page \cap l.listed # {}]
    <2> DEFINE repeats == l.again \/ page \cap l.listed # {}
               read == [l EXCEPT !.listed = l.listed \cup page, !.again = repeats]
    <2>1. repeats \in BOOLEAN
      BY DEF Listing
    <2>2. page \subseteq Event
      BY <1>4 DEF Listable
    <2>3. read = [l EXCEPT !.listed = @ \cup page,
                           !.again = @ \/ page \cap l.listed # {}]
      BY DEF Listing
    <2> HIDE DEF repeats
    <2>4. /\ read \in Listing /\ read.phase = "open" /\ read.period = l.period
          /\ read.cursor = l.cursor /\ read.known = l.known
          /\ read.ahead = l.ahead
          /\ read.listed = l.listed \cup page /\ read.again = repeats
      BY <1>6, <2>1, <2>2 DEF Listing
    <2> HIDE DEF read
    <2>5. QED
      BY <2>3, <2>4 DEF repeats
  <1>10. ~read.ahead => ~read.again
    BY <1>7, <1>8, <1>9
  <1>11. UNCHANGED <<trail, denial>> /\ page \subseteq trail
    BY <1>4 DEF ReadPage
  <1>12. CASE Cardinality(page) = PageLimit
    <2>1. PICK new \in Listing :
            /\ new.phase = "open" /\ new.period = l.period
            /\ new.cursor = l.cursor + PageLimit /\ new.known = l.known
            /\ new.ahead = l.ahead /\ new.listed = l.listed \cup page
            /\ new.again = read.again
            /\ new = [read EXCEPT !.cursor = @ + PageLimit]
      <3> DEFINE next == l.cursor + PageLimit
                 new == [read EXCEPT !.cursor = next]
      <3>2. next \in Nat
        BY <1>5
      <3>3. new = [read EXCEPT !.cursor = @ + PageLimit]
        BY <1>9 DEF Listing
      <3> HIDE DEF next
      <3>1. /\ new \in Listing /\ new.phase = "open" /\ new.period = l.period
            /\ new.cursor = next /\ new.known = l.known
            /\ new.ahead = l.ahead /\ new.listed = l.listed \cup page
            /\ new.again = read.again
        BY <1>9, <3>2 DEF Listing
      <3> HIDE DEF new
      <3>4. QED
        BY <3>1, <3>3 DEF next
    <2>2. listing' = [listing EXCEPT ![t] = new]
      BY <1>1, <1>2, <1>3, <1>9, <1>12, <2>1 DEF ReadPage
    <2>3. \A e \in rows : RankIn(rows, e) < l.cursor + PageLimit =>
                            RankIn(rows, e) < l.cursor \/ e \in page
      BY <1>4, <1>5
    <2>4. \A e \in rows : RankIn(rows, e) < l.cursor \/ e \in page =>
                            RankIn(rows, e) < l.cursor + PageLimit
      BY <1>4, <1>5
    <2>5. \A e \in new.known \cap rows :
            RankIn(rows, e) < new.cursor => e \in new.listed
      BY <1>7, <2>1, <2>3
    <2>6. ~new.ahead =>
            /\ ~new.again
            /\ \A e \in new.listed \cap rows : RankIn(rows, e) < new.cursor
      BY <1>7, <1>9, <1>10, <2>1, <2>4
    <2>7. ListingOK(t, new, instant)
      BY <1>2, <1>7, <1>11, <2>1, <2>5, <2>6 DEF ListingOK
    <2>8. new.known \cup new.listed \subseteq
            trail \cup listing[t].known \cup listing[t].listed
      BY <1>1, <1>11, <2>1
    <2>9. QED
      BY <1>11, <2>1, <2>2, <2>7, <2>8, OtherListings
  <1>13. CASE Cardinality(page) # PageLimit
    <2>1. PICK new \in Listing :
            /\ new.phase = "done" /\ new.period = l.period
            /\ new.known = l.known
            /\ new.ahead = l.ahead /\ new.listed = l.listed \cup page
            /\ new.again = read.again
            /\ new = [read EXCEPT !.phase = "done"]
      <3> DEFINE new == [read EXCEPT !.phase = "done"]
      <3>1. /\ new \in Listing /\ new.phase = "done" /\ new.period = l.period
            /\ new.known = l.known
            /\ new.ahead = l.ahead /\ new.listed = l.listed \cup page
            /\ new.again = read.again
        BY <1>9 DEF Listing
      <3>2. QED
        BY <3>1
    <2>2. listing' = [listing EXCEPT ![t] = new]
      BY <1>1, <1>2, <1>3, <1>9, <1>13, <2>1 DEF ReadPage
    <2>3. \A e \in rows : RankIn(rows, e) < l.cursor \/ e \in page
      <3>1. \A e \in rows : ~(RankIn(rows, e) >= l.cursor + PageLimit)
        BY <1>3, <1>4, <1>5, <1>13, PageIsFull
      <3>2. QED
        BY <1>4, <1>5, <3>1
    <2>4. l.known \cap trail \subseteq rows
      BY <1>2, <1>7 DEF Rows
    <2>5. new.known \cap trail \subseteq new.listed
      BY <1>7, <2>1, <2>3, <2>4
    <2>6. ListingOK(t, new, instant)
      BY <1>7, <1>9, <1>10, <1>11, <2>1, <2>5 DEF ListingOK
    <2>7. new.known \cup new.listed \subseteq
            trail \cup listing[t].known \cup listing[t].listed
      BY <1>1, <1>11, <2>1
    <2>8. QED
      BY <1>11, <2>1, <2>2, <2>6, <2>7, OtherListings
  <1>14. QED
    BY <1>12, <1>13

\* Time takes nothing from the invariant.
LEMMA AuditPass ==
  ASSUME NEW instant \in Int, NEW later \in Int, instant <= later,
         AuditInv(instant), UNCHANGED auditVars
  PROVE  AuditInv(later)'
  <1>1. trail' = trail /\ listing' = listing /\ denial' = denial
    BY DEF auditVars
  <1>2. trail \subseteq Event /\ listing \in [Tenants -> Listing]
    BY DEF AuditInv, AuditTypeOK
  <1>3. AuditTypeOK'
    BY <1>1 DEF AuditInv, AuditTypeOK
  <1>4. \A e \in Event : e.at \in Int
    BY DEF Event
  <1>5. DenialsFresh'
    BY <1>1 DEF AuditInv, DenialsFresh
  <1>6. ASSUME NEW t \in Tenants
        PROVE  ListingOK(t, listing[t], later)'
    <2>1. ListingOK(t, listing[t], instant)
      BY DEF AuditInv
    <2>2. listing[t].known \cup listing[t].listed \subseteq Event
      BY <1>2 DEF Listing
    <2>3. \A e \in listing[t].known \cup listing[t].listed :
            e.at < instant => e.at < later
      BY <1>4, <2>2
    <2>4. ListingOK(t, listing[t], later)
      BY <2>1, <2>3 DEF ListingOK
    <2>5. QED
      BY <1>1, <2>4 DEF ListingOK, Rows
  <1>7. QED
    BY <1>1, <1>3, <1>5, <1>6 DEF AuditInv

LEMMA AuditInvInit ==
  ASSUME NEW instant \in Int, AuditInit
  PROVE  AuditInv(instant)
  <1>1. /\ trail = {} /\ \A r \in Recorders : denial[r] = {}
        /\ \A t \in Tenants : listing[t] = NoListing
    BY DEF AuditInit
  <1>2. AuditTypeOK /\ DenialsFresh
    BY <1>1 DEF AuditInit, AuditTypeOK, DenialsFresh, NoListing, Listing
  <1>3. \A t \in Tenants : ListingOK(t, listing[t], instant)
    BY <1>1 DEF ListingOK, NoListing
  <1>4. QED
    BY <1>1, <1>2, <1>3, FS_EmptySet DEF AuditInv

LEMMA AuditInvMeans ==
  ASSUME NEW instant, AuditInv(instant)
  PROVE  TrailIsListed
  BY DEF AuditInv, ListingOK, TrailIsListed

LEMMA ServiceInvInit == Init => ServiceInv
  <1> SUFFICES ASSUME Init PROVE ServiceInv
    OBVIOUS
  <1>1. SchemaInv /\ LifeInv
    BY LifeInvInit DEF Init
  <1>2. RateInv
    BY DEF Init, RateInit, NoEvents, RateInv, Kept, Spaced
  <1>3. ReportsInv
    <2>1. now \in Instants
      BY DEF Init, ReportsInit, Instants
    <2>2. QED
      BY <2>1 DEF Init, ReportsInit, ReportsInv, ReportsTypeOK, Status
  <1>4. AuditInv(now)
    <2>1. now \in Int
      BY <1>3, InstantsAreInt DEF ReportsInv, ReportsTypeOK
    <2>2. QED
      BY <2>1, AuditInvInit DEF Init
  <1>5. QED
    BY <1>1, <1>2, <1>3, <1>4 DEF Init, ServiceInv

LEMMA ServiceInvNext == ServiceInv /\ [Next]_serviceVars => ServiceInv'
  <1> SUFFICES ASSUME ServiceInv, [Next]_serviceVars PROVE ServiceInv'
    OBVIOUS
  <1> USE DEF ServiceInv
  <1>0. now \in Int
    BY InstantsAreInt DEF ReportsInv, ReportsTypeOK
  <1>1. ASSUME UNCHANGED rateVars, UNCHANGED now PROVE RateInv'
    BY <1>0, <1>1, RateInvPass
  <1>2. ASSUME UNCHANGED lifespanVars PROVE SchemaInv' /\ LifeInv'
    BY <1>2, SchemaInvStutter DEF lifespanVars, schemaVars, LifeInv, Alive
  <1>d. PICK instant \in Int : instant = now
    BY <1>0
  <1>e. AuditInv(instant)
    BY <1>d
  <1>f. ASSUME UNCHANGED now, AuditInv(instant)'
        PROVE  AuditInv(now)'
    BY <1>d, <1>f
  <1>a. ASSUME UNCHANGED auditVars, now' \in Int, now <= now'
        PROVE  AuditInv(now)'
    <2>2. PICK later \in Int : later = now'
      BY <1>a
    <2>3. AuditInv(later)'
      BY <1>a, <1>d, <1>e, <2>2, AuditPass
    <2>4. QED
      BY <2>2, <2>3
  <1>g. ASSUME UNCHANGED auditVars, UNCHANGED now PROVE AuditInv(now)'
    BY <1>0, <1>a, <1>g
  <1>3. ASSUME NEW p \in Processes, LifeGoesOn(p) PROVE ServiceInv'
    <2>1. SchemaInv' /\ LifeInv'
      BY <1>3, LifespanPreserved DEF LifeGoesOn
    <2>2. UNCHANGED reportsVars /\ UNCHANGED now /\ UNCHANGED deeds
      BY <1>3 DEF LifeGoesOn, reportsVars
    <2>3. RateInv'
      <3>1. ResetLimiter(p) \/ UNCHANGED rateVars
        BY <1>3 DEF LifeGoesOn
      <3>2. QED
        BY <1>1, <2>2, <3>1, RateInvReset
    <2>4. AuditInv(now)'
      <3>1. Purge(instant) \/ Abandon(p) \/ UNCHANGED auditVars
        BY <1>3, <1>d DEF LifeGoesOn
      <3>2. QED
        BY <1>e, <1>f, <1>g, <2>2, <3>1, AuditPurge, AuditAbandon
    <2>5. QED
      BY <2>1, <2>2, <2>3, <2>4, ReportsInvStutter
  <1>4. ASSUME Deed PROVE deeds' \in 0..MaxDeeds
    BY <1>4 DEF Deed
  <1>5. ASSUME NEW p \in Processes, NEW k \in Keys, ARequest(p, k) PROVE ServiceInv'
    <2>1. UNCHANGED now /\ UNCHANGED reportsVars /\ UNCHANGED lifespanVars
          /\ UNCHANGED auditVars
      BY <1>5 DEF ARequest, reportsVars
    <2>2. RateInv'
      BY <1>0, <1>5, <2>1, RateInvAllow DEF ARequest
    <2>3. QED
      BY <1>2, <1>4, <1>5, <1>g, <2>1, <2>2, ReportsInvStutter DEF ARequest
  <1>6. ASSUME NEW p \in Processes, NEW c \in Customers, ADecision(p, c)
        PROVE  ServiceInv'
    <2>1. UNCHANGED now /\ UNCHANGED rateVars /\ UNCHANGED lifespanVars
          /\ UNCHANGED auditVars
      BY <1>6 DEF ADecision, Decide, Verify
    <2>2. ReportsInv'
      BY <1>6, ReportsInvDecision DEF ADecision
    <2>3. QED
      BY <1>1, <1>2, <1>4, <1>6, <1>g, <2>1, <2>2 DEF ADecision
  <1>7. ASSUME NEW p \in Processes, NEW c \in Customers, AReport(p, c)
        PROVE  ServiceInv'
    <2>1. UNCHANGED now /\ UNCHANGED rateVars /\ UNCHANGED lifespanVars
          /\ UNCHANGED deeds /\ UNCHANGED auditVars
      BY <1>7 DEF AReport, Fire
    <2>2. ReportsInv'
      BY <1>7, ReportsInvFire DEF AReport
    <2>3. QED
      BY <1>1, <1>2, <1>g, <2>1, <2>2
  <1>b. ASSUME NEW p \in Processes, NEW t \in Tenants, ADenial(p, t)
        PROVE  ServiceInv'
    <2>1. UNCHANGED reportsVars /\ UNCHANGED rateVars /\ UNCHANGED lifespanVars
          /\ UNCHANGED now
      BY <1>b DEF ADenial, reportsVars
    <2>2. AuditInv(now)'
      <3>1. Deny(p, t, instant)
        BY <1>b, <1>d DEF ADenial
      <3>2. QED
        BY <1>e, <1>f, <2>1, <3>1, AuditDeny
    <2>3. QED
      BY <1>1, <1>2, <1>4, <1>b, <2>1, <2>2, ReportsInvStutter DEF ADenial
  <1>h. ASSUME NEW p \in Processes, DenialEnds(p)
        PROVE  ServiceInv'
    <2>1. UNCHANGED reportsVars /\ UNCHANGED rateVars /\ UNCHANGED lifespanVars
          /\ UNCHANGED now /\ UNCHANGED deeds
      BY <1>h DEF DenialEnds, reportsVars
    <2>2. AuditInv(now)'
      <3>1. Record(p) \/ Abandon(p)
        BY <1>h DEF DenialEnds
      <3>2. QED
        BY <1>e, <1>f, <2>1, <3>1, AuditRecord, AuditAbandon
    <2>3. QED
      BY <1>1, <1>2, <2>1, <2>2, ReportsInvStutter
  <1>c. ASSUME NEW p \in Processes, NEW t \in Tenants, AnAuditPage(p, t)
        PROVE  ServiceInv'
    <2>1. UNCHANGED reportsVars /\ UNCHANGED rateVars /\ UNCHANGED lifespanVars
          /\ UNCHANGED now /\ UNCHANGED deeds
      BY <1>c DEF AnAuditPage, reportsVars
    <2>2. AuditInv(now)'
      <3>1. OpenListing(t) \/ ReadPage(t)
        BY <1>c, <1>d DEF AnAuditPage
      <3>2. QED
        BY <1>e, <1>f, <2>1, <3>1, AuditOpen, AuditRead
    <2>3. QED
      BY <1>1, <1>2, <2>1, <2>2, ReportsInvStutter
  <1>8. ASSUME TimePasses PROVE ServiceInv'
    <2>1. /\ UNCHANGED rateVars /\ UNCHANGED lifespanVars /\ UNCHANGED deeds
          /\ UNCHANGED auditVars /\ now' \in Int /\ now <= now'
      BY <1>0, <1>8 DEF TimePasses, Pass
    <2>2. ReportsInv'
      BY <1>8, ReportsInvPass DEF TimePasses
    <2>3. RateInv'
      BY <1>0, <2>1, RateInvPass
    <2>4. QED
      BY <1>2, <1>a, <2>1, <2>2, <2>3
  <1>9. ASSUME UNCHANGED serviceVars PROVE ServiceInv'
    <2>1. /\ UNCHANGED lifespanVars /\ UNCHANGED rateVars
          /\ UNCHANGED reportsVars /\ UNCHANGED auditVars /\ UNCHANGED deeds
      BY <1>9 DEF serviceVars
    <2>2. UNCHANGED now
      BY <2>1 DEF reportsVars
    <2>3. QED
      BY <1>1, <1>2, <1>g, <2>1, <2>2, ReportsInvStutter
  <1>10. QED
    BY <1>3, <1>5, <1>6, <1>7, <1>b, <1>c, <1>h, <1>8,
       <1>9 DEF Next

LEMMA ServiceInvMeans ==
  ServiceInv => TypeOK /\ SchemaIsWhole /\ StoresServe /\ QuotaPerWindow
                /\ ReportsAreComplete /\ TrailIsListed
  <1> SUFFICES ASSUME ServiceInv
               PROVE  TypeOK /\ SchemaIsWhole /\ StoresServe /\ QuotaPerWindow
                      /\ ReportsAreComplete /\ TrailIsListed
    OBVIOUS
  <1> USE DEF ServiceInv
  <1>1. LifespanTypeOK
    BY DEF LifespanTypeOK, SchemaInv, LifeInv
  <1>2. RateTypeOK
    <2>1. \A p \in Limiters, k \in Keys : Len(events[p][k]) <= Limit
      BY DEF RateInv, Kept
    <2>2. QED
      BY <2>1 DEF RateInv, RateTypeOK
  <1>3. StoresServe
    <2>1. ASSUME NEW p \in Processes
          PROVE  worker[p] \in Running \/ life[p] = "serving" =>
                   open[p] = Stores /\ 1..Latest[p] \subseteq marks
      <3>1. Alive(p)
        BY DEF LifeInv
      <3>2. QED
        BY <3>1 DEF Alive
    <2>2. QED
      BY <2>1 DEF StoresServe
  <1>4. QuotaPerWindow
    BY DEF QuotaPerWindow, RateInv, Spaced
  <1>5. ReportsAreComplete
    BY DEF ReportsAreComplete, ReportsInv, Settled
  <1>6. AuditTypeOK /\ TrailIsListed
    BY AuditInvMeans DEF AuditInv
  <1>7. QED
    BY <1>1, <1>2, <1>3, <1>4, <1>5, <1>6 DEF TypeOK, SchemaInv, ReportsInv

LEMMA ServiceInvAlways == Spec => []ServiceInv
  BY ServiceInvInit, ServiceInvNext, PTL DEF Spec

\* The variables of Schema, Lifespan, RateLimit and Reports have their types,
\* and no deque of the limiter ever holds more than the limit.
THEOREM ServiceTypeTheorem == Spec => []TypeOK
  BY ServiceInvAlways, ServiceInvMeans, PTL

\* run_migrations: whichever processes of whichever releases upgrade the file
\* at once, and wherever one dies, every version takes effect exactly once
\* and in order.
THEOREM SchemaTheorem == Spec => []SchemaIsWhole
  BY ServiceInvAlways, ServiceInvMeans, PTL

\* build_lifespan: a worker's loop and the handlers run only on all stores
\* and on the release's whole schema.
THEOREM StoresTheorem == Spec => []StoresServe
  BY ServiceInvAlways, ServiceInvMeans, PTL

\* A lifespan that is over has closed its stores or lost its worker's loop.
OnlyTheDeadLeave ==
  \A p \in Processes : life[p] \in {"ended", "raised"} =>
    open[p] = 0 \/ (life[p] = "raised" /\ worker[p] = "dead")

\* build_lifespan: StoresClosed, which a dead loop's error refutes, fails in
\* no other way; a cron job's scan delays no closing.
THEOREM LeftOpenTheorem == Spec => []OnlyTheDeadLeave
  <1>1. ServiceInv => OnlyTheDeadLeave
    BY DEF ServiceInv, LifeInv, Alive, OnlyTheDeadLeave
  <1>2. QED
    BY <1>1, ServiceInvAlways, PTL

\* SlidingWindowRateLimiter.allow: in no window does a process let more than
\* the limit through.
THEOREM QuotaTheorem == Spec => []QuotaPerWindow
  BY ServiceInvAlways, ServiceInvMeans, PTL

\* The monthly report counts the decisions of its month by the customer's
\* calendar, in every time zone and for months of any length, and what
\* happens after it does not make it wrong.
THEOREM ReportsTheorem == Spec => []ReportsAreComplete
  BY ServiceInvAlways, ServiceInvMeans, PTL

\* list_for_period: whoever has read a period's denials to the last page has
\* read every one that was there at the start and was not deleted since, and
\* one twice only if a denial came in meanwhile that is listed before what had
\* been read: whatever is recorded, however late, and deleted between two
\* pages, and however large a page is.
THEOREM TrailTheorem == Spec => []TrailIsListed
  BY ServiceInvAlways, ServiceInvMeans, PTL

\* A limiter that would refuse a request now has let through the limit of
\* requests since a window ago: the oldest of the last Limit is that recent.
RefusesOnlyWhenFull ==
  \A p \in Limiters, k \in Keys :
    Len(Recent(events[p][k], now - Window)) >= Limit =>
      /\ Len(admitted[p][k]) >= Limit
      /\ admitted[p][k][Len(admitted[p][k]) - Limit + 1] > now - Window

LEMMA FullIsFull ==
  ASSUME NEW q, NEW a, NEW t \in Int, Kept(q, a, t),
         Len(Recent(q, t - Window)) >= Limit
  PROVE  /\ Len(a) >= Limit
         /\ a[Len(a) - Limit + 1] > t - Window
  <1> DEFINE r == Recent(q, t - Window)
             n == Popped(q, t - Window)
  <1>1. /\ q \in Seq(Int) /\ t - Window \in Int /\ Len(q) \in Nat
        /\ Limit \in Nat \ {0}
    BY RateLimitAssumption DEF Kept
  <1>2. n \in 0..Len(q) /\ (n < Len(q) => q[n + 1] > t - Window)
    BY <1>1, PoppedRun
  <1>3. Kept(r, a, t)
    BY KeptRecent
  <1>4. r = SubSeq(q, n + 1, Len(q))
    BY DEF Recent
  <1> HIDE DEF n
  <1>5. Len(r) = Len(q) - n /\ (n < Len(q) => r[1] = q[n + 1])
    BY <1>1, <1>2, <1>4
  <1> HIDE DEF r
  <1>6. Len(r) = Limit
    BY <1>1, <1>3, <1>5 DEF Kept, r
  <1>7. n < Len(q) /\ 1 \in 1..Len(r)
    BY <1>1, <1>2, <1>5, <1>6
  <1>8. r[1] = a[Len(a) - Len(r) + 1] /\ Len(r) <= Len(a)
    BY <1>3, <1>7 DEF Kept
  <1>9. QED
    BY <1>2, <1>5, <1>6, <1>7, <1>8

\* No request is refused for nothing: the limiter never counts a request that
\* is a window old or older, nor one twice.
THEOREM RefusalTheorem == Spec => []RefusesOnlyWhenFull
  <1>1. ServiceInv => RefusesOnlyWhenFull
    BY FullIsFull, InstantsAreInt DEF ServiceInv, RateInv, ReportsInv,
       ReportsTypeOK, RefusesOnlyWhenFull
  <1>2. QED
    BY <1>1, ServiceInvAlways, PTL

\* The file's schema only moves on, and by one version, which took effect
\* once, for the first time, and after all those before it.
Upgrades(v) ==
  /\ v \notin marks /\ 1..(v - 1) \subseteq marks
  /\ marks' = marks \cup {v}
  /\ applied[v] = 0 /\ applied' = [applied EXCEPT ![v] = 1]

SchemaMovesOn ==
  [][UNCHANGED <<marks, applied>> \/ \E v \in Versions : Upgrades(v)]_serviceVars

LEMMA CommitUpgrades ==
  ASSUME SchemaInv, NEW p \in Processes, CommitVersion(p)
  PROVE  \E v \in Versions : Upgrades(v)
  <1> DEFINE v == upgrade[p].todo
  <1>1. /\ v \in 1..Latest[p] /\ v \in Versions /\ v \notin marks /\ v \in Nat
        /\ Latest[p] \in Nat
    BY VersionsAreNat DEF SchemaInv, CommitVersion, Exclusive
  <1>2. 1..(v - 1) \subseteq marks
    <2>1. ASSUME NEW u \in 1..(v - 1) PROVE u \in 1..Latest[p] /\ u < v
      BY <1>1
    <2>2. QED
      BY <2>1 DEF SchemaInv, Progress
  <1>3. applied[v] = 0 /\ applied' = [applied EXCEPT ![v] = 1]
    <2>1. applied[v] = 0
      BY <1>1 DEF SchemaInv, SchemaIsWhole
    <2>2. applied' = [applied EXCEPT ![v] = applied[v] + 1]
      BY DEF CommitVersion
    <2>3. QED
      BY <2>1, <2>2
  <1>4. marks' = marks \cup {v}
    BY DEF CommitVersion
  <1> HIDE DEF v
  <1>5. QED
    BY <1>1, <1>2, <1>3, <1>4 DEF Upgrades

\* However many processes of whichever releases upgrade the file, and
\* whichever of them die in the middle, the file sees one upgrade, version
\* after version, that is never taken back and never repeated.
THEOREM SchemaGrowthTheorem == Spec => SchemaMovesOn
  <1>1. ASSUME ServiceInv, [Next]_serviceVars
        PROVE  UNCHANGED <<marks, applied>> \/ \E v \in Versions : Upgrades(v)
    <2> USE <1>1
    <2>1. ASSUME NEW p \in Processes, LifespanStep(p)
          PROVE  UNCHANGED <<marks, applied>> \/ \E v \in Versions : Upgrades(v)
      <3>1. CASE MigrateStep(p)
        <4>1. SchemaInv
          BY DEF ServiceInv
        <4>2. QED
          BY <3>1, <4>1, CommitUpgrades
             DEF MigrateStep, Migrate, CheckVersion, Alter
      <3>2. CASE StartProcess(p) \/ OpenStore(p) \/ Die(p)
        BY <3>2 DEF StartProcess, OpenStore, Connect, Die, Rollback, schemaVars
      <3>3. CASE \/ Serve(p) \/ WorkerTurns(p) \/ CronTurns(p) \/ WorkerDies(p)
                 \/ Shutdown(p) \/ WorkerStops(p) \/ CloseStores(p)
                 \/ StopRaises(p)
        BY <3>3 DEF Serve, WorkerTurns, CronTurns, WorkerDies, Shutdown, WorkerStops,
                    CloseStores, StopRaises, schemaVars
      <3>4. QED
        BY <2>1, <3>1, <3>2, <3>3 DEF LifespanStep
    <2>2. CASE UNCHANGED lifespanVars
      BY <2>2 DEF lifespanVars, schemaVars
    <2>3. ASSUME NEW p \in Processes, LifeGoesOn(p)
          PROVE  UNCHANGED <<marks, applied>> \/ \E v \in Versions : Upgrades(v)
      BY <2>1, <2>3 DEF LifeGoesOn
    <2>4. CASE TimePasses \/ UNCHANGED serviceVars
      BY <2>2, <2>4 DEF TimePasses, serviceVars
    <2>5. ASSUME NEW p \in Processes,
                 \/ DenialEnds(p) \/ \E k \in Keys : ARequest(p, k)
                 \/ \E c \in Customers : ADecision(p, c) \/ AReport(p, c)
                 \/ \E t \in Tenants : ADenial(p, t) \/ AnAuditPage(p, t)
          PROVE  UNCHANGED <<marks, applied>> \/ \E v \in Versions : Upgrades(v)
      <3>1. UNCHANGED lifespanVars
        BY <2>5 DEF DenialEnds, ARequest, ADecision, AReport, ADenial, AnAuditPage
      <3>2. QED
        BY <2>2, <3>1
    <2>6. CASE Next
      <3>1. \/ TimePasses
            \/ \E p \in Processes :
                 \/ LifeGoesOn(p)
                 \/ \/ DenialEnds(p) \/ \E k \in Keys : ARequest(p, k)
                    \/ \E c \in Customers : ADecision(p, c) \/ AReport(p, c)
                    \/ \E t \in Tenants : ADenial(p, t) \/ AnAuditPage(p, t)
        BY <2>6 DEF Next
      <3>2. QED
        BY <2>3, <2>4, <2>5, <3>1
    <2>7. QED
      BY <2>4, <2>6
  <1>2. ServiceInv /\ [Next]_serviceVars =>
          UNCHANGED <<marks, applied>> \/ \E v \in Versions : Upgrades(v)
    BY <1>1
  <1>3. QED
    BY <1>2, ServiceInvAlways, PTL DEF Spec, SchemaMovesOn
=============================================================================
