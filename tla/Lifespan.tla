------------------------------ MODULE Lifespan ------------------------------
(***************************************************************************)
(* The life of the application's processes on one SQLite file              *)
(* (build_lifespan of src/runtime/lifespan.py): open the stores one by     *)
(* one, each with its own run_migrations, start the schedulers and the     *)
(* task worker, serve, and on the way down stop them before the stores     *)
(* are closed.                                                             *)
(*                                                                         *)
(* A process may fail to start, die at any moment and be started again.    *)
(* What the worker does with its task is in TaskQueue; here it matters     *)
(* that its loop runs on the stores and may die of a database error.  A    *)
(* process without a queue scans in its cron job, which nobody waits for.  *)
(***************************************************************************)
EXTENDS Schema

CONSTANTS
  Stores,     \* stores a process opens, one after the other: eight
  MaxStarts   \* bound: starts of processes in a behaviour

ASSUME LifespanAssumption == Stores \in Nat \ {0} /\ MaxStarts \in Nat

VARIABLES
  life,   \* what each process is doing
  open,   \* how many of its stores are open
  worker, \* its task worker's loop, or its cron job's scan
  starts  \* starts of processes so far

lifespanVars == <<schemaVars, life, open, worker, starts>>

\* "raised": stop() has re-raised the error the worker's loop died of.
LifePhase == {"down", "opening", "serving", "stopping", "ended", "raised"}

\* "cron": there is no loop, and a cron job scans.
WorkerState == {"off", "idle", "scanning", "dead", "cron"}

Running == {"idle", "scanning"}

LifespanInit ==
  /\ SchemaInit
  /\ life = [p \in Processes |-> "down"]
  /\ open = [p \in Processes |-> 0]
  /\ worker = [p \in Processes |-> "off"]
  /\ starts = 0

StartProcess(p) ==
  /\ life[p] \in {"down", "ended", "raised"}
  /\ starts < MaxStarts
  /\ starts' = starts + 1
  /\ life' = [life EXCEPT ![p] = "opening"]
  /\ open' = [open EXCEPT ![p] = 0]
  /\ worker' = [worker EXCEPT ![p] = "off"]
  /\ Connect(p)

MigrateStep(p) ==
  /\ life[p] = "opening"
  /\ Migrate(p)
  /\ UNCHANGED <<life, open, worker, starts>>

\* The store's connection is up to date; the next store connects.
OpenStore(p) ==
  /\ life[p] = "opening"
  /\ Upgraded(p)
  /\ open[p] < Stores
  /\ open' = [open EXCEPT ![p] = @ + 1]
  /\ IF open[p] + 1 = Stores THEN UNCHANGED schemaVars ELSE Connect(p)
  /\ UNCHANGED <<life, worker, starts>>

\* Schedulers start, and the worker if there is an LLM provider and the
\* queue is enabled.
Serve(p) ==
  /\ life[p] = "opening"
  /\ open[p] = Stores
  /\ life' = [life EXCEPT ![p] = "serving"]
  /\ \E w \in {"off", "idle"} : worker' = [worker EXCEPT ![p] = w]
  /\ UNCHANGED <<schemaVars, open, starts>>

\* The loop claims a task, scans, and settles it.
WorkerTurns(p) ==
  /\ \/ /\ worker[p] = "idle"
        /\ life[p] = "serving"
        /\ worker' = [worker EXCEPT ![p] = "scanning"]
     \/ /\ worker[p] = "scanning"
        /\ worker' = [worker EXCEPT ![p] = "idle"]
  /\ UNCHANGED <<schemaVars, life, open, starts>>

\* Without a queue the cron job scans itself, for as long as it takes or
\* until the scheduler's shutdown cancels it.
CronTurns(p) ==
  /\ \/ /\ worker[p] = "off"
        /\ life[p] = "serving"
        /\ worker' = [worker EXCEPT ![p] = "cron"]
     \/ /\ worker[p] = "cron"
        /\ worker' = [worker EXCEPT ![p] = "off"]
  /\ UNCHANGED <<schemaVars, life, open, starts>>

\* claim, complete or fail meets a database error, which ends the loop.
WorkerDies(p) ==
  /\ worker[p] \in Running
  /\ worker' = [worker EXCEPT ![p] = "dead"]
  /\ UNCHANGED <<schemaVars, life, open, starts>>

\* The lifespan's exit: the schedulers shut down, the worker is told to stop.
Shutdown(p) ==
  /\ life[p] = "serving"
  /\ life' = [life EXCEPT ![p] = "stopping"]
  /\ UNCHANGED <<schemaVars, open, worker, starts>>

\* Between two tasks the loop sees that it is to stop.
WorkerStops(p) ==
  /\ life[p] = "stopping"
  /\ worker[p] = "idle"
  /\ worker' = [worker EXCEPT ![p] = "off"]
  /\ UNCHANGED <<schemaVars, life, open, starts>>

\* Variant: the stores are closed without waiting for the worker.
CloseStoresAtOnce(p) ==
  /\ life[p] = "stopping"
  /\ open' = [open EXCEPT ![p] = 0]
  /\ life' = [life EXCEPT ![p] = "ended"]
  /\ UNCHANGED <<schemaVars, worker, starts>>

\* There is no worker or stop() has returned: the stores are closed, one
\* after the other, also under a scan of the cron job.
CloseStores(p) ==
  /\ life[p] = "stopping"
  /\ worker[p] \in {"off", "cron"}
  /\ open' = [open EXCEPT ![p] = 0]
  /\ life' = [life EXCEPT ![p] = "ended"]
  /\ UNCHANGED <<schemaVars, worker, starts>>

\* stop() re-raises what the loop died of, and nothing after it happens.
StopRaises(p) ==
  /\ life[p] = "stopping"
  /\ worker[p] = "dead"
  /\ life' = [life EXCEPT ![p] = "raised"]
  /\ UNCHANGED <<schemaVars, open, worker, starts>>

\* A failed start, or the process dies; its transaction is rolled back.
Die(p) ==
  /\ life[p] \in {"opening", "serving", "stopping"}
  /\ Rollback(p)
  /\ life' = [life EXCEPT ![p] = "down"]
  /\ open' = [open EXCEPT ![p] = 0]
  /\ worker' = [worker EXCEPT ![p] = "off"]
  /\ UNCHANGED starts

LifespanStep(p) ==
  \/ StartProcess(p) \/ MigrateStep(p) \/ OpenStore(p) \/ Serve(p)
  \/ WorkerTurns(p) \/ CronTurns(p) \/ WorkerDies(p) \/ Shutdown(p) \/ WorkerStops(p)
  \/ CloseStores(p) \/ StopRaises(p) \/ Die(p)

(***************************************************************************)
(* Properties                                                              *)
(***************************************************************************)

\* The phases, the stores open and the worker's loop.
LifespanTypeOK ==
  /\ SchemaTypeOK
  /\ life \in [Processes -> LifePhase]
  /\ open \in [Processes -> 0..Stores]
  /\ worker \in [Processes -> WorkerState]
  /\ starts \in 0..MaxStarts

\* The worker's loop and the handlers only ever run on a whole set of open
\* stores whose schema has every version of the release, whatever other
\* releases did to the file and whenever the process is told to stop.  A scan
\* of the cron job is not so lucky: it may find its stores closed.
StoresServe ==
  \A p \in Processes :
    worker[p] \in Running \/ life[p] = "serving" =>
      open[p] = Stores /\ 1..Latest[p] \subseteq marks

\* What docs/DEVELOPMENT_TASKS.md:52 (DATA-103) and docs/ARCHITECTURE.md:330
\* say: when the lifespan is over, its connections are closed.
StoresClosed ==
  \A p \in Processes : life[p] \in {"ended", "raised"} => open[p] = 0
=============================================================================
