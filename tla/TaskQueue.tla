----------------------------- MODULE TaskQueue -----------------------------
(***************************************************************************)
(* The durable task queue of src/task_queue.py and the workers that drain  *)
(* it: enqueue with a dedupe key, claim with a visibility timeout, retry   *)
(* with back-off, complete, fail; workers crash, are restarted, stop, or   *)
(* lose their polling loop to an exception.                                *)
(*                                                                         *)
(* A row of the table is named by its dedupe key, which is unique.  Every  *)
(* queue method is one transaction, hence one step.  A worker awaits only  *)
(* between its claim and the end of the scan: those are two steps.         *)
(*                                                                         *)
(* Time is relative: wait[t] is available_at minus now (0 once due) and    *)
(* age[t] is now minus claimed_at, saturating at the visibility timeout.   *)
(* attempts saturates at MaxAttempts + 1, the code only compares it with   *)
(* max_attempts.  Both keep the state finite without cutting behaviours.   *)
(***************************************************************************)
EXTENDS Integers, FiniteSets

CONSTANTS
  Tasks,          \* dedupe keys: one per customer and business date
  Workers,        \* TaskWorker instances sharing the queue
  NoTask,         \* a worker that holds no claim
  MaxAttempts,    \* task_worker_max_attempts
  Visibility,     \* visibility_timeout_seconds, in ticks
  BackoffCap,     \* the 60 of min(60, 2 ** attempts), in ticks
  SlowScans,      \* may a scan take longer than the visibility timeout?
  MaxCrashes,     \* bound: process crashes in a behaviour
  MaxDbErrors     \* bound: database errors raised by a queue call

ASSUME TasksAssumption == IsFiniteSet(Tasks) /\ NoTask \notin Tasks
ASSUME BoundsAssumption ==
  /\ MaxAttempts \in Nat \ {0}
  /\ Visibility \in Nat \ {0}
  /\ BackoffCap \in Nat \ {0}
  /\ SlowScans \in BOOLEAN
  /\ MaxCrashes \in Nat
  /\ MaxDbErrors \in Nat

VARIABLES
  status,     \* column status; "absent" before the row is inserted
  attempts,   \* column attempts
  wait,       \* ticks until available_at
  age,        \* ticks since claimed_at
  born,       \* position in the order of created_at, task_id
  pc,         \* what a worker is doing
  held,       \* task of the claim a worker is working on
  seen,       \* attempts in the copy the worker got from claim
  delivered,  \* history: tasks some scan of which ran to its end
  crashes, dbErrors

rows == <<status, attempts, wait, age, born>>
loops == <<pc, held, seen>>
faults == <<crashes, dbErrors>>
vars == <<status, attempts, wait, age, born, pc, held, seen, delivered,
          crashes, dbErrors>>

TaskStatus == {"pending", "running", "completed", "failed"}

\* idle: the loop is about to poll.  scanning: run_for_customer is awaited.
\* stopped: the loop saw the stop event.  dead: an exception left the loop
\* but the process lives on.  down: the process crashed.
WorkerState == {"idle", "scanning", "stopped", "dead", "down"}

Existing == {t \in Tasks : status[t] # "absent"}

(***************************************************************************)
(* Helpers                                                                 *)
(***************************************************************************)

\* Variant: the cap of the delay is forgotten.
UncappedBackoff(n) == 2 ^ n

\* min(60, 2 ** attempts)
Backoff(n) == IF 2 ^ n \in 1 .. BackoffCap THEN 2 ^ n ELSE BackoffCap

Bump(n) == IF n > MaxAttempts THEN n ELSE n + 1

\* Variants: a claim expires one tick early, at once, or never.
EarlyStale == {t \in Tasks : status[t] = "running" /\ age[t] + 1 >= Visibility}
AnyRunning == {t \in Tasks : status[t] = "running"}
NeverStale == {t \in Tasks : status[t] = "running" /\ age[t] > Visibility}

\* Rows the claim transaction returns to the queue.
Stale == {t \in Tasks : status[t] = "running" /\ age[t] >= Visibility}

\* Rows its SELECT can pick after that.
Due == {t \in Tasks : status[t] = "pending" /\ wait[t] = 0} \cup Stale

\* ORDER BY created_at, task_id LIMIT 1
OldestDue == {t \in Due : \A u \in Due : born[t] <= born[u]}

(***************************************************************************)
(* The queue's methods and the scheduler's enqueue                         *)
(***************************************************************************)

Init ==
  /\ status = [t \in Tasks |-> "absent"]
  /\ attempts = [t \in Tasks |-> 0]
  /\ wait = [t \in Tasks |-> 0]
  /\ age = [t \in Tasks |-> 0]
  /\ born = [t \in Tasks |-> 0]
  /\ pc = [w \in Workers |-> "idle"]
  /\ held = [w \in Workers |-> NoTask]
  /\ seen = [w \in Workers |-> 0]
  /\ delivered = {}
  /\ crashes = 0
  /\ dbErrors = 0

\* Variant: INSERT OR REPLACE, the second firing resets the row.
EnqueueReplacing(t) ==
  /\ status' = [status EXCEPT ![t] = "pending"]
  /\ born' = [born EXCEPT ![t] = Cardinality(Existing)]
  /\ UNCHANGED <<attempts, wait, age, loops, delivered, faults>>

\* INSERT OR IGNORE: a key already present leaves the row as it is.
Enqueue(t) ==
  /\ \/ /\ status[t] = "absent"
        /\ status' = [status EXCEPT ![t] = "pending"]
        /\ born' = [born EXCEPT ![t] = Cardinality(Existing)]
     \/ /\ status[t] # "absent"
        /\ UNCHANGED <<status, born>>
  /\ UNCHANGED <<attempts, wait, age, loops, delivered, faults>>

\* A poll that finds nothing due changes nothing and is left out.
Claim(w) ==
  /\ pc[w] = "idle"
  /\ \E t \in OldestDue :
       /\ status' = [u \in Tasks |-> IF u = t THEN "running"
                                     ELSE IF u \in Stale THEN "pending"
                                     ELSE status[u]]
       /\ wait' = [u \in Tasks |-> IF u \in Stale THEN 0 ELSE wait[u]]
       /\ age' = [age EXCEPT ![t] = 0]
       /\ attempts' = [attempts EXCEPT ![t] = Bump(@)]
       /\ pc' = [pc EXCEPT ![w] = "scanning"]
       /\ held' = [held EXCEPT ![w] = t]
       /\ seen' = [seen EXCEPT ![w] = Bump(attempts[t])]
  /\ UNCHANGED <<born, delivered, faults>>

LetGo(w, next) ==
  /\ pc' = [pc EXCEPT ![w] = next]
  /\ held' = [held EXCEPT ![w] = NoTask]
  /\ seen' = [seen EXCEPT ![w] = 0]

\* complete: the update needs a running row, otherwise ValueError.  The call
\* sits in the else clause of run_once, so the error ends the polling loop.
Complete(w) ==
  \/ /\ status[held[w]] = "running"
     /\ status' = [status EXCEPT ![held[w]] = "completed"]
     /\ LetGo(w, "idle")
  \/ /\ status[held[w]] # "running"
     /\ UNCHANGED status
     /\ LetGo(w, "dead")

\* Variant: one retry too few.
FailEarly(w) ==
  LET t == held[w]
      retry == seen[w] + 1 < MaxAttempts IN
  \/ /\ status[t] = "running"
     /\ status' = [status EXCEPT ![t] = IF retry THEN "pending" ELSE "failed"]
     /\ wait' = [wait EXCEPT ![t] = Backoff(seen[w])]
  \/ /\ status[t] # "running"
     /\ UNCHANGED <<status, wait>>

\* fail: decides from the attempts of the claimed copy; no row, no error.
Fail(w) ==
  LET t == held[w]
      retry == seen[w] < MaxAttempts IN
  \/ /\ status[t] = "running"
     /\ status' = [status EXCEPT ![t] = IF retry THEN "pending" ELSE "failed"]
     /\ wait' = [wait EXCEPT ![t] = Backoff(seen[w])]
  \/ /\ status[t] # "running"
     /\ UNCHANGED <<status, wait>>

(***************************************************************************)
(* TaskWorker                                                              *)
(***************************************************************************)

\* The scan and its callback returned: try ... else.  (The callback logs the
\* cards WeCom refuses and returns, the scan keeps the batches it failed for.)
ScanOk(w) ==
  /\ pc[w] = "scanning"
  /\ delivered' = delivered \cup {held[w]}
  /\ Complete(w)
  /\ UNCHANGED <<attempts, wait, age, born, faults>>

\* The scan or the callback raised: except Exception.
ScanError(w) ==
  /\ pc[w] = "scanning"
  /\ Fail(w)
  /\ LetGo(w, "idle")
  /\ UNCHANGED <<attempts, age, born, delivered, faults>>

\* A queue call raises a database error.  claim is outside the try block,
\* complete and fail are outside its reach: the loop ends in every case.
DbError(w) ==
  /\ dbErrors < MaxDbErrors
  /\ dbErrors' = dbErrors + 1
  /\ \/ pc[w] = "idle" /\ UNCHANGED delivered
     \/ pc[w] = "scanning" /\ UNCHANGED delivered
     \/ pc[w] = "scanning" /\ delivered' = delivered \cup {held[w]}
  /\ LetGo(w, "dead")
  /\ UNCHANGED <<rows, crashes>>

\* stop() sets the event; the loop leaves after the scan in hand, if any.
Stop(w) ==
  /\ pc[w] = "idle"
  /\ LetGo(w, "stopped")
  /\ UNCHANGED <<rows, delivered, faults>>

Crash(w) ==
  /\ crashes < MaxCrashes
  /\ pc[w] \in {"idle", "scanning"}
  /\ crashes' = crashes + 1
  /\ LetGo(w, "down")
  /\ UNCHANGED <<rows, delivered, dbErrors>>

\* A new process over the same database file.
Start(w) ==
  /\ pc[w] \in {"stopped", "dead", "down"}
  /\ LetGo(w, "idle")
  /\ UNCHANGED <<rows, delivered, faults>>

(***************************************************************************)
(* Time                                                                    *)
(***************************************************************************)

\* Without SlowScans a worker ends its scan before its claim gets stale.
Tick ==
  /\ \/ \E t \in Tasks : status[t] = "running" /\ age[t] < Visibility
     \/ \E t \in Tasks : status[t] = "pending" /\ wait[t] > 0
  /\ \/ SlowScans
     \/ \A w \in Workers : pc[w] = "scanning" => age[held[w]] + 1 < Visibility
  /\ age' = [t \in Tasks |-> IF status[t] = "running" /\ age[t] < Visibility
                             THEN age[t] + 1 ELSE age[t]]
  /\ wait' = [t \in Tasks |-> IF status[t] = "pending" /\ wait[t] > 0
                              THEN wait[t] - 1 ELSE wait[t]]
  /\ UNCHANGED <<status, attempts, born, loops, delivered, faults>>

Next ==
  \/ \E t \in Tasks : Enqueue(t)
  \/ \E w \in Workers :
       \/ Claim(w) \/ ScanOk(w) \/ ScanError(w) \/ DbError(w)
       \/ Stop(w) \/ Crash(w) \/ Start(w)
  \/ Tick

Spec == Init /\ [][Next]_vars

\* The event loop keeps polling and every scan ends; the supervisor brings
\* back a process that left, but nothing restarts a loop that died inside a
\* living process.  An infinitely often stopped worker must still poll, hence
\* strong fairness of Claim.
Fairness ==
  /\ WF_vars(Tick)
  /\ \A w \in Workers :
       /\ SF_vars(Claim(w))
       /\ WF_vars(ScanOk(w) \/ ScanError(w))
       /\ WF_vars(pc[w] \in {"stopped", "down"} /\ Start(w))

FairSpec == Spec /\ Fairness
(***************************************************************************)
(* Properties                                                              *)
(***************************************************************************)

\* The state space of the table, the polling loops and the counters.
TypeOK ==
  /\ status \in [Tasks -> TaskStatus \cup {"absent"}]
  /\ attempts \in [Tasks -> 0 .. MaxAttempts + 1]
  /\ wait \in [Tasks -> 0 .. BackoffCap]
  /\ age \in [Tasks -> 0 .. Visibility]
  /\ born \in [Tasks -> Nat]
  /\ pc \in [Workers -> WorkerState]
  /\ held \in [Workers -> Tasks \cup {NoTask}]
  /\ seen \in [Workers -> 0 .. MaxAttempts + 1]
  /\ delivered \in SUBSET Tasks
  /\ crashes \in 0 .. MaxCrashes
  /\ dbErrors \in 0 .. MaxDbErrors

\* A completed or failed row never changes its status again: neither a second
\* firing of the cron job, nor the reclaim of stale rows, nor a worker that
\* lost its claim and reports late can bring the scan back.
TerminalIsFinal ==
  [][\A t \in Tasks : status[t] \in {"completed", "failed"} =>
                        status'[t] = status[t]]_vars

\* A row is completed only if some scan of it ran to its end,
\* although the worker that completes it need not be the one that owns it.
CompletedWasDelivered ==
  \A t \in Tasks : status[t] = "completed" => t \in delivered

\* A scan is given up only after max_attempts claims, even when the verdict
\* comes from a worker whose copy of the row is older than the row.
FailedOnlyWhenExhausted ==
  \A t \in Tasks : status[t] = "failed" => attempts[t] >= MaxAttempts

\* Two workers never scan the same task at once: the "claim without duplicate
\* ownership" of the queue.
ExclusiveOwner ==
  \A v, w \in Workers :
    pc[v] = "scanning" /\ pc[w] = "scanning" /\ held[v] = held[w] => v = w

\* No worker loses its polling loop: complete() finds the row still running.
LoopSurvives == \A w \in Workers : pc[w] # "dead"

\* A task is never claimed more than max_attempts times.
BoundedRetry == \A t \in Tasks : attempts[t] <= MaxAttempts

\* The detailed queue implements the abstract life of a task.
Verdict(s) == IF s = "absent" THEN "unknown"
              ELSE IF s = "completed" THEN "done"
              ELSE IF s = "failed" THEN "given_up"
              ELSE "accepted"

fateOf == [t \in Tasks |-> Verdict(status[t])]

Lifecycle == INSTANCE TaskLifecycle WITH fate <- fateOf

\* Every step of the queue and its workers is a step of TaskLifecycle or
\* leaves the fate of every task alone: at-least-once delivery, one verdict.
ImplementsLifecycle == Lifecycle!Spec

\* Every accepted scan is eventually completed or given up, through crashes
\* of workers, failed scans and back-off.
EveryTaskSettles ==
  \A t \in Tasks : status[t] = "pending" ~> status[t] \in {"completed", "failed"}
=============================================================================
