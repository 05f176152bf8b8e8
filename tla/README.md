# Shelf-Life Copilot in TLA+

Shelf-Life Copilot scans a food manufacturer's batches every morning, asks a
language model what to do with those close to their shelf life, pushes cards to
WeCom, and turns the operators' clicks into decisions and work orders. It runs
as one process over SQLite, or as several instances over one PostgreSQL
database. This directory holds its specification: TLA+ modules translated from
`src/src`, configurations that TLC checks, and theorems that TLAPS proves.
Paths below are relative to the repository (`src/` is its Python package).

## 1. Inventory

| Component | Source | State | Operations |
|---|---|---|---|
| Task queue | `src/task_queue.py` | table `task_queue`: status, attempts, available_at, claimed_at | enqueue, claim (with reclaim), complete, fail |
| Task workers | `src/task_queue.py` | the polling loop, the claimed copy | run_once, run, stop |
| Daily scheduler | `src/scheduler/scheduler.py` | cron jobs | enqueue one scan per customer and business date |
| Decisions | `src/persistence/decision_store.py`, `postgres.py` | table `decisions` | save, record_approval, by period |
| Work orders | `src/persistence/work_order_store.py`, `postgres.py`, `src/models/work_order.py` | table `work_orders` | transition, complete |
| Optimization plans | `src/persistence/optimization_store.py`, `postgres.py` | tables of plans and allocations | save, execute |
| Callback endpoint | `src/webhook/router.py`, `handlers.py` | requests in flight | POST /webhook/wecom |
| Idempotency records | `src/persistence/idempotency_store.py`, `postgres.py` | table `idempotency_records` | claim, complete, release |
| Revision sessions | `src/persistence/revision_store.py`, `postgres.py` | table `revision_sessions` | open, attach_feedback, complete, fail |
| Suggestions | `src/persistence/suggestion_store.py`, `postgres.py` | table `suggestions` | save, latest_for_batch |
| Scan runner, engine | `src/scheduler/runner.py`, `src/suggestion/engine.py` | a semaphore, results in memory | run_for_customer, revise_for_batch |
| Alerts | `src/alerts/monitor.py` | none | the severity of a batch |
| ERP repository | `src/repository/erp.py` | cursor, links followed, tries of a load | load_batches, page by page |
| Optimizer and its gate | `src/optimization.py` | none | greedy allocation, its evaluation at start-up |
| Command API | `src/api/router.py` | idempotency records again | scan, complete a work order, make a plan |
| Rate limiting | `src/runtime/security.py`, `postgres.py` | deques in memory, or a table of windows | allow |
| Migrations | `src/persistence/migrations.py`, `sqlite.py` | `schema_migrations`, the schema | run_migrations at every connection |
| Lifespan | `src/runtime/lifespan.py` | open stores, schedulers, the worker | start-up, push callback, shutdown |
| Monthly report | `src/scheduler/monthly.py`, `src/reports` | cron jobs | month before, period, sums |
| Security audit | `src/persistence/audit_store.py`, `postgres.py` | table `security_audit_events` | record, list a period by pages, purge |
| WeCom, LLM providers, settings, CLI, quality report | `src/wecom`, `src/suggestion`, ... | none of the protocol | clients of services, wiring |

How they interact. The scheduler inserts a task; a worker claims it, awaits the
scan runner, which awaits the LLM for each batch under a semaphore, saves the
suggestions and pushes the cards. A card's button comes back to the callback
endpoint, which claims the event's idempotency record, writes a decision (and,
for an approval, a work order) or opens a revision session, and stores the
answer. The operator's next text takes the session and makes the runner
regenerate the suggestion. The shop floor's receipt completes the work order
and copies the actual figures to its decision, which the monthly report reads.
An administrator starts scans, makes plans and completes orders by
commands of the API, behind a rate limit and an `Idempotency-Key`; a plan loads
the same ERP rows a scan does. The lifespan opens the stores before any of this
runs and closes them after it. Components share the database, the ERP and the
event loop: every `await` lets the other coroutines run, and on PostgreSQL every
statement lets the other instances run.

What is hard, and what makes each part correct:

- *Task queue.* Workers crash, overrun the visibility timeout and report late.
  A task must settle once, with a true verdict, and must settle at all. While
  scans end in time nobody else may have the task and no polling loop may die.
- *Approvals and work orders.* Clicks, repeated clicks, plans of several
  batches and concurrent receipts meet in two tables. A decision and its order
  must exist together; a plan must be executed whole or not at all; a finished
  order must stay finished; two tables must show the same receipt.
- *Callback endpoint.* Events are delivered again at any time; statements fail
  halfway; the LLM is awaited in the middle of a handler; the process dies.
  An event must act once, be answered truly, and not be blocked by a claim
  nobody works on; a suggestion is regenerated once, with the right text.
- *Scans.* Rows of the ERP shift while its pages are read, pages fail and are
  tried again; answers of the LLM come in any order; a save or a push in the
  middle of a scan fails and the queue runs all of it again. No batch may be
  forgotten, no card be without its suggestion or be repeated for nothing, and
  the scan must end unless it goes on killing its processes.
- *Plans.* Capacities run out at a boundary, batch after batch. An action must
  not be overdrawn and a batch that expires sooner must not be overtaken.
- *Command API.* Clients retry a command whose answer was lost, on another
  instance, while the first is still at work or was rolled back. A key must be
  carried out once, have one holder and be answered with its own result.
- *Rate limits.* Half-open windows in memory; counters of windows that a request
  of the next window deletes while others of the old one are still to come.
- *Start-up and shutdown.* Processes of two releases upgrade one file at once and
  die between two statements; a worker is still scanning, or has died, when the
  stores are to be closed. No loop may run on closed stores, and none may be
  left open.
- *Monthly report, audit.* A month's bounds in the customer's time zone; a
  listing by offset while rows come and go, some of them stamped long before
  they are inserted.

`PROJECT.json` lists these hazards line by line with the properties that cover
them, or the reason why none does yet.

## 2. Modules

| Module | What it is |
|---|---|
| `TaskLifecycle` | abstract: accepted once, delivered before it is done, one final verdict |
| `TaskQueue` | the queue, its workers, the scheduler's enqueue, time, crashes, database errors |
| `OrderBook` | abstract: one order per batch on the legal path, a receipt exactly at completion |
| `Idempotency` | abstract: a key is held by one, its work is done once, and it is settled with what was done |
| `Approvals` | decisions, work orders and plans, with either backend |
| `Commands` | extends `Approvals`: the keyed commands of the API on several instances, PostgreSQL's rate limit |
| `Webhook` | the callback endpoint, idempotency records, sessions, suggestions, scans that save meanwhile |
| `Erp` | the paged load of a customer's batches from an ERP whose rows move |
| `Scan` | extends `Erp`: one scan from the load to the last card, and its repetition by the queue |
| `Planner` | extends `Erp`: one planning request, the greedy allocation, the start-up gate |
| `Pipeline` | composes `Scan` and `Planner` over one `Erp` |
| `Schema` | the migrations of one SQLite file by processes of several releases |
| `Lifespan` | extends `Schema`: start-up, serving, shutdown and death of the processes |
| `RateLimit`, `Reports`, `Audit` | the limiter in memory; the monthly report; the archive of denials |
| `Service` | composes `Lifespan`, `RateLimit`, `Reports` and `Audit` over one clock |
| `MCTaskQueue`, `MCApprovals`, `MCCommands`, `MCWebhook`, `MCPipeline`, `MCService` | the small instances for TLC |
| `TaskQueueProofs`, `ApprovalsProofs`, `CommandsProofs`, `WebhookProofs`, `RevisionProofs`, `PipelineProofs`, `ServiceProofs` | the theorems and their proofs |
| `LeastNumbers` | a non-empty set of naturals has a least element: what the proofs use in place of induction |

Definitions commented as *Variant* are plausible mistakes in the definition
that follows them. They appear in no next-state relation; each of them, put in
the place of the real definition, makes one of the properties fail, which shows
that the property depends on the code.

### TaskQueue

A row is named by its dedupe key, and `status`, `attempts` are its columns.
`wait` and `age` are `available_at` and `claimed_at` as distances from now, and
`born` is the row's place in `ORDER BY created_at, task_id`. A worker has `pc`,
`held` (the claimed task) and `seen` (the attempts in its copy, from which
`fail` decides). Every queue method is one transaction and one step. Between a
worker's claim and the end of its scan anything may happen: `ScanOk` is the
`else` branch of `run_once`, with the `ValueError` that `complete` raises for a
row that is no longer running and that ends the loop; `ScanError` is the
`except` branch. `DbError` is an exception of a queue call, which nothing
catches. `Stop`, `Crash` and `Start` are the end and the restart of a process.
With `SlowScans` a scan may outlive the visibility timeout; without, `Tick`
waits for it.

`attempts` saturates at `MaxAttempts + 1` since the code only compares it with
`max_attempts`; the delay of a task that is beyond is the capped one anyway
with the constants checked. `delivered` is a history variable: the tasks some
scan of which ran to its end. The worker's callback logs the cards WeCom
refuses and returns, so this is what "the task is done" means in the code; it
does not mean that a card arrived.

### Approvals

`decision` holds the approved decisions by idempotency key (an event id, or
`optimization:<plan>:<batch>`), `order` the one work order of each batch (a
unique index), `plan` and `alloc` the plans, `call` the update a client has
read but not written. `Approve` and `ExecutePlan` are one transaction each; a
unique index refuses the loser of a race, and `Existing` is the lookup
afterwards, which differs: SQLite asks for the batch's order, PostgreSQL for
the event's. A work-order update is `ReadOrder`, then `WriteOrder` or
`Rollback`. Under SQLite `BEGIN IMMEDIATE` holds the write lock from the read
on (`CanWrite`); PostgreSQL reads without `FOR UPDATE`, so updates interleave
there. `ReadOrder` chooses any status that the transitions allow: the API only
completes, but the store's `transition` is public and its tests call it.

### Webhook

A handler is one request in flight and `run[h]` its program counter and locals:
`claimed` (the record was inserted), `opening`, `attaching`, `attached`,
`revising` (the LLM is awaited), `saved`, `failing`, `answering` (the response
is to be stored), `refused` (the claim is to be released). Each step is one
committed statement. `LoopFree` and `At` say who may run: within an instance
other coroutines run only while a handler is at `revising`, the endpoint's only
`await`; handlers of different instances interleave at every statement. So the
same actions describe SQLite (one instance) and PostgreSQL (several). A scan
generates a suggestion and saves it later, as `run_for_customer` does after its
slowest batch, so rows may be saved in another order than `generated_at`.
`DbError` and `Crash` may strike at every statement; an error inside the
handler's `try` releases the claim, an error in the release or in the final
`complete` does not. Deliveries that find a record are answered from it or with
409 and change nothing; they are not actions.

Approve clicks take the same path with one transaction in the middle. What that
transaction does is `Approvals`, where the event's key makes it idempotent.
The refinement of `Idempotency` maps an event to its record, the decision made
for it and the decision its answer reports.

### Commands

A client is a request slot of an instance; `req[c]` is the request it works on:
`stamped` (its limiter transaction has begun, in the window its clock shows),
`admitted`, `conflict` (the insert of the key was refused and the record is to
be selected), `claimed`, `updating` (a completion between read and write, which
are `Approvals`' own `ReadOrder` and `WriteOrder`), `worked` (done, the response
still to be stored). Every step is one committed transaction. The insert and
the select after it are two statements under READ COMMITTED, so the record may
be released in between: the assertion then fails, and the request neither acts
nor answers. `Vanish` is the death of the instance. What a scan does is in
`Scan`; here it returns a value of its own, so that two scans under one key
would be told apart. `done`, `told`, `stranded` and `onTime` are history. The
refinement of `Idempotency` maps a key to its record's status, `done` and `told`;
a refused, replayed or lost request is a stutter.

`Admit` is PostgreSQL's limiter in one statement: it deletes all windows before
the request's own, and counts or refuses the request. A request whose
transaction began in the old window may be counted after that and starts that
window again at zero. `QuotaOnTime` therefore promises the limit only until a
request of a later window has been counted; that is all the statement gives.

### Erp, Scan, Planner, Pipeline

`load[j]` is one `load_batches` call: cursor, links seen, tries of the present
page and rows so far. A link is an offset into `rows`. Rows leave and arrive between
two pages, and a faulty server may send a wrong link; both are external and
bounded together by `MaxMoves`. `Fetch` is one request with its outcome: a page,
a passing error (tried again up to `MaxRetries` times) or another one. `steady` and
`listed` are history: whether the ERP has stood still since the load began, and
its rows then.

`Scan` takes one step for each batch classified, call let in by the semaphore,
answer, save and push. The queue around it is reduced to attempts: a scan that
failed while attempts were left, or whose process died, however many attempts
it had, begins again from the load (`Begin`), with what
it stored and pushed before still there: only `fail` compares `attempts` with
`max_attempts`, the `claim` that takes back a stale row does not. Deaths are bounded by `MaxDeaths`.
That a claim may go stale under a running scan is `TaskQueue`'s matter; here the
second worker's scan is another scanner's. `cuts` counts the attempts that ended while
they were pushing, by `PushBreaks` (a reply of WeCom that `send_card` does not
expect) or by `Die`. A push that WeCom refuses is logged and swallowed
(`PushNext` without a card).

`Planner` takes one step for each batch it allocates. Quantities are whole numbers. `used`
is what the gate adds up. `GatePasses` evaluates the code's two cases with the
code's own comparison. `Pipeline` lets scans and planning requests run over the
same rows; `MayWork` bounds the jobs that get to work in a behaviour.

### Schema, Lifespan, RateLimit, Reports, Audit, Service

`Schema` has one `run_migrations` call per process, since the process's
initialization lock admits one connection at a time: it takes the write lock
with `BEGIN IMMEDIATE`, looks for the version's marker under it, executes, marks
and commits. `applied` counts how often a version's statements took effect.
`Lifespan` opens `Stores` stores one by one, each with its own `run_migrations`;
`worker` is the task worker's loop, which may be scanning or dead when the way
down begins, or, in a process without a queue, the cron job's own scan
(`CronTurns`), which the way down does not wait for: it may find its stores
closed. When the loop has died, `stop()` re-raises its error and the process
leaves with its stores open (`StopRaises`). `RateLimit` is a deque per client and path with the code's popping
loop as `Popped`. `Reports` computes with instants: a month has `MonthLength` of
them, a year `MonthsPerYear` months, a customer's zone is an offset. `Decide` stamps a decision and inserts it in one
step, which is what one process does; with several, and a monthly cron at
midnight of the first day, a decision stamped before and inserted after another
process's report would be in none. `Audit` makes a denial's event in one step
(`Deny`, which stamps it) and inserts it in another (`Record`), since the
insert may wait for other processes; `denial` holds the event in between, its
process does nothing else (`LoopIsFree`), and an insert that fails loses it
(`Abandon`). A listing is read page by page, each page a query of
its own on the rows as they are then. In `Service` the limiter starts with its
process, the purge runs when the stores are open, requests, decisions, reports
and listings happen while the process serves.

## 3. Runs

Two tasks and two workers, or two requests in flight, are the fewest that can
disagree about a row, and every race listed above is between two actors. The
bounds on faults and on time are named constants: `MaxCrashes`, `MaxDbErrors`,
`MaxScans`, `MaxTime`, `MaxMoves`, `MaxBusy`, `MaxStarts`, `MaxDeeds`,
`MaxRequests`, `MaxWindow`, `MaxDeaths`, `End`.

| Run | Instance | Shows |
|---|---|---|
| `TaskQueueFaulty` | 2 tasks, 2 workers, 2 attempts, visibility 2, back-off cap 3, slow scans, 1 crash, 1 database error | types; failed only when exhausted; the queue implements `TaskLifecycle`, and with it that a completed task was delivered and that verdicts are final |
| `TaskQueueLive` | the same, scans in time, 1 crash, no database error, fairness | one owner; no loop dies; every task settles |
| `TaskQueueRetries` | scans in time, 3 crashes | **violated**: a task is claimed more than `max_attempts` times |
| `ApprovalsSqlite` | 2 batches, 3 clicks (two on one batch), 1 plan, 2 clients, 2 receipts | types; decisions and orders whole; plans whole; receipts agree; clicks name the order; implements `OrderBook` |
| `ApprovalsPostgresLife` | the same, PostgreSQL | **violated**: an order leaves its legal path |
| `ApprovalsPostgresClicks` | the same, PostgreSQL | **violated**: a repeated click is not answered with the order |
| `CommandsPostgres` | PostgreSQL, 2 batches, 1 click, 1 plan, 2 instances, a key for completions and one for scans, 3 requests, 2 windows of 1 request | types; a key carried out once, with one holder; the shared limit; implements `Idempotency` |
| `WebhookSqlite` | one instance, 2 handlers; a snooze, 2 revise clicks and 2 texts of one operator about one batch; 2 scans, time 4, 1 error, 1 crash; fairness | types; one processor and one decision per event; true answers; one round; the right text; sessions match the suggestions; implements `Idempotency`; claims settle |
| `WebhookRounds` | two instances, no errors | **violated**: two rounds for one suggestion |
| `Pipeline` | 4 batches at and around the thresholds, one without stock, one expired; 3 of them in the ERP on pages of 2 rows; 1 retry, 1 movement or wrong link; a scan of 2 attempts and 1 death with 2 calls at once, a plan with 2 actions of capacity 0 to 2; one of the two at work; fairness | types and the semaphore; loads whole; no batch forgotten; cards match the store; capacities, order and cover of plans; scans end |
| `Service` | releases 1 and 2, 2 stores, 3 starts; 5 instants, months of 2 across a year's end, a customer ahead of UTC; windows of 2, limit 1; 2 deeds; 2 events, pages of 1, retention 1 | types; the schema whole; loops run on open stores; the limit in every window; complete reports; complete listings |
| `ServiceExit` | the same | **violated**: a lifespan ends with its stores open |

Visibility 2 leaves room for a claim that is used, fresh, and about to expire;
two attempts give a retry and a final failure, with back-offs of 2 and 3 (the
cap) ticks. In the callback runs two revise clicks and two texts are enough for
a second session after the first one's round, and two scans for one save before
and one after it; `MaxTime` 4 is two scans and two rounds. One operator and one
batch are the hard case: sessions of different operators or suggestions share
no row.

In `Pipeline` three rows on pages of two give a full page, a short one and the
link between them; one movement shifts the rows under that link. Two attempts
give a retry after each kind of failure, one death an attempt beyond them, and only a job that is at work has any state, so
with `MaxBusy` 1 each is checked against all that the ERP may do; that jobs do
not disturb each other is proved for any number of them. In `Service`
three starts are two processes that upgrade at once and one that dies and comes
again; two versions are the fewest with an order. Five instants
hold two and a half months and two windows that share an end. Two deeds are two
requests in one window, a decision and its receipt, or two denials around a
page of a listing, the later one perhaps stamped before it, in another process: every property of this run speaks about two of them, and the limit of one is
reached and exceeded by two. In `CommandsPostgres` three requests are a
holder, a retry that finds its record and a late one; a limit of one is
reached by the first and exceeded by the second, in each of two windows.

Symmetry is used in `CommandsPostgres` over the clients, which run the same code
and are told apart by no value; the run has no liveness property.

Deadlock is checked for the queue and for `ApprovalsSqlite`. The other runs say
`CHECK_DEADLOCK FALSE`: once every event is answered, the requests, starts or
instants are used up, or every job is done, nothing is left to happen.

### Fairness

`TaskQueue!Fairness`: time passes; a worker that can claim again and again does
(the loop polls for ever; strong, because it may be stopped and restarted in
between); a scan ends (the LLM and WeCom clients have timeouts); a process that
stopped or crashed is restarted by its supervisor. Nothing restarts a loop that
died in a living process, so there is no fairness for that, and `LoopSurvives`
is what rules it out. `TaskQueueLive` therefore assumes that scans end within
the visibility timeout and that the database answers; in `TaskQueueFaulty`'s
world, where neither holds, every loop may die and no task need settle.

`Webhook!FairSpec`: a handler that can go on again and again does, because the
event loop resumes its ready coroutines in turn and the LLM client has a
timeout. Nothing is assumed about crashes, scans or redeliveries.

`Pipeline!Fairness`: a request to the ERP ends, because its client has a
timeout; a scan's next step is taken, because the event loop resumes it, the LLM
and WeCom clients have timeouts, and the queue gives a failed task out again
until its attempts are used up, and one whose process died whenever its claim
is stale. Nothing is assumed about the ERP's movements; weak fairness is enough
since no step of another disables these. `ScansEnd` holds because `MaxDeaths`
lets the processes of a scan die finitely often only. Without that it is false
of the code, as `BoundedRetry` shows: nothing ever gives up a scan that kills
each process that works on it.

### What the violated runs mean

- `BoundedRetry`. `claim` raises `attempts` whenever it takes a row, a reclaimed
  one included, and only `fail` compares it with `max_attempts`. A scan that
  kills its worker is repeated for ever. `docs/DEVELOPMENT_TASKS.md:138` asks for
  bounded retry and a failed final state.
- `LegalTransitions`. PostgreSQL's `transition` and `complete` read the order
  without a lock, check the copy and update by id. Two callers both pass, and
  the later one overwrites a completed or cancelled order.
  `docs/TECH_SPEC.md:122` says that final states cannot be left.
- `ClicksNameTheOrder`. After a violated constraint PostgreSQL looks for a
  decision with the event's key. When the batch was approved under another event
  there is none, and when the order is completed its row cannot be read back
  into the model: the click ends in an error. `README.md:137` and
  `docs/TECH_SPEC.md:122` promise the original work order.
- `OneRoundPerSuggestion`. PostgreSQL's `attach_feedback` selects the pending
  session and then updates it by id. Two instances that handle two texts of one
  operator select the same one, and both regenerate.
  `src/webhook/handlers.py:40` and `docs/DEVELOPMENT_TASKS.md:85` promise one round.
- `StoresClosed`. A polling loop ends with the error of a queue call, and
  `await task_worker.stop()` raises it again at the lifespan's exit, before the
  first `close()`: all stores stay open. `docs/DEVELOPMENT_TASKS.md:52` and
  `docs/ARCHITECTURE.md:330` say that the lifespan's exit closes them.

More that a reader of the models should know, where nothing in the repository
promises the contrary:

- A scan slower than the visibility timeout is run by two workers; the late one
  completes the other's row, or loses its loop to `ValueError`. Neither that nor
  a database error is in `TaskQueueLive`, so `LoopSurvives` and
  `EveryTaskSettles` speak of crashes and retries only.
- A crash between claim and answer leaves the record `processing`: every
  redelivery of that event is told 409, and so is every retry of such a
  command. `ClaimsSettle` and `ClaimsHaveOneHolder` show that only a crash or a
  failed statement can cause this.
- A text whose regeneration failed is released; delivered again it finds no
  pending session and is answered as ignored.
- The key of a completion does not contain its order: sent for another order it
  is answered with the first one's result.
- A retried scan stores its suggestions again, and pushes the cards again that
  had arrived before an attempt was cut off.
- While rows move between two pages, a load may miss one that was there throughout.
- A denial whose insert waited appears in a listing of a period that is over and
  may make it repeat a row (`TrailIsListed` says when).
- A scan in the cron job itself is still running when the stores are closed.
- A receipt that arrives after its month's report is in no report.

## 4. Proofs

TLAPS proves the following for all values of the constants that satisfy the
named assumptions of the modules (nulls are not members of the types they
complete, keys of events and plans differ, bounds are naturals).

**TaskQueueProofs.** `IInv` adds to `TypeOK` and the two verdict invariants that
a scanning worker holds an accepted task and that its copy's attempts are not
ahead of the row's (`HoldsTask`). The second is what makes the stale copy in `fail` harmless: if the
copy says exhausted, so does the row. From it: `TypeCorrect`,
`CompletionTheorem`, `ExhaustionTheorem`, `FinalityTheorem` and
`RefinementTheorem` (the refinement of `TaskLifecycle`), with slow scans,
crashes and database errors. Under `~SlowScans` the invariant `FreshClaims`
(every claim in use is running, younger than the visibility timeout and nobody
else's) gives `ExclusionTheorem` and, if the database raises nothing,
`LoopTheorem`. `AttemptsLeft` adds that until a process crashes or a queue call
raises, every running row has a worker whose copy of the attempts is the row's;
then there is nothing to reclaim (`ReclaimTheorem`), every claim ends in `fail`
or `complete`, and no task is claimed too often (`RetryTheorem`). So the
violation `TaskQueueRetries` shows has lost claims as its only cause.

**ApprovalsProofs.** `IInv` is `TypeOK`, `ApprovalIsWhole`, `PlanIsWhole` and
`CallsHaveRows` (a row read for an update exists); it is inductive for both
backends and gives `TypeCorrect`, `WholenessTheorem` and `PlanTheorem`. So is
`FiguresInv`: whatever is overwritten, the two tables are written in one
transaction with one receipt, so an order and its decision never show different
figures (`FiguresTheorem`), and a click is never answered with another batch's
order (`AnswersTheorem`). The rest holds of every behaviour in which no two updates of one order
overlap (`[]UpdatesApart`): a row that was checked then still allows the write
(`ApartInv`), which gives `ApartReceiptTheorem`, `TransitionTheorem` and
`ApartRefinementTheorem` (the tables implement `OrderBook`; `ReadOrder` and
`Rollback` stutter) for either backend. SQLite's write lock keeps updates apart
(`SqliteApart`), and `ReceiptTheorem`, `SqliteTransitionTheorem`,
`RefinementTheorem` follow without the hypothesis, with `ClickTheorem`.
PostgreSQL does not, and `ApprovalsPostgresLife` is a behaviour with an overlap: nothing else goes wrong there.

**WebhookProofs.** `IInv` is `TypeOK` with `InHand` (a handler past the lookup
has its session), and `Owner`, `OneProcessor`, `DecidedOnce`, `Evidenced`,
`AnswersAreTrue`. `Owner` says that a busy handler's event is `processing`, so a
second claim cannot succeed; `DecidedOnce` that an event with a decision has a
record and that only a handler about to answer can still have it in hand, so
no release can follow the decision. They give `TypeCorrect`, `OneDecisionTheorem`,
`OneProcessorTheorem` and `TrueAnswersTheorem` for any number of instances,
errors and crashes, PostgreSQL included. `EventsRefinementTheorem` shows that
the callbacks implement `Idempotency`: a record is held by one request, its
effect (the event's decision) happens once while it is held, and what is told is that effect.
`ClaimsSettle` itself is out of the prover's reach; what it rests on is not:
a claim without a handler was left by a fault (`OrphanTheorem`), and every step
of a handler lowers a rank (`AdvanceTheorem`), so a handler that is scheduled ends.

**RevisionProofs.** For one instance (`Solo`), any handlers, operators, scans,
errors and crashes. `RoundInv`: between two awaits one handler runs (`Alone`);
a handler that has attached its text has a session in process that no other
handler has in hand (`OneEach`), whose text is its own and whose suggestion is
not revised until it saves (`HandsOK`); a revised suggestion has a session, and
its state says whether it was revised (`TrailsOK`). Without the last part a click
could open a session for a suggestion already revised. It gives `RoundTheorem`,
`FeedbackTheorem` and `SessionTheorem`; `WebhookRounds` is the run in which a second
instance breaks the first of them. On several instances a weaker promise
remains, by counting: of each event loop one handler at most is between two
awaits, so the rounds of a suggestion and the handlers that may still add one
are together no more than the loops. `RoundsTheorem` bounds the rounds by the
number of instances, `CompletedTheorem` keeps what a session's two outer states
say, and `OperatorTheorem` shows that a text may be another event's but never
another operator's.

**CommandsProofs.** `CommandsInv` adds to the types and to the tables' whole
decisions, plans and figures `Held` and `Counted`. `Held` says of a request that holds its
key that the record is in process, that it is alone, and that what was done
under the key is what its phase says (`OwnOK`); and of a record that an absent
one has nothing done under it, one in process has no answer and either a holder
or a loss, and a completed one stores what was done (`BooksOK`). Every action is
a step of one key by one client (`KeyStep`) or leaves the keys alone. `Counted`
says that a request let through in time is still counted in its window unless a
request of a later window was let through, and that a row that counts somebody
is why: without the second part a refused request could delete a window nobody
had passed yet. They give `CommandsTypeTheorem`, `OnceTheorem`, `HolderTheorem`,
`QuotaTheorem`, `CommandsWholenessTheorem`, `CommandsPlanTheorem` and
`CommandsFiguresTheorem` for any number of instances, keys, orders, windows,
requests and any limit, and `KeysRefinementTheorem`: keyed commands implement
`Idempotency` too, the same promise as the callbacks'.

**PipelineProofs.** `ErpInv` says of each load that, while the ERP stood still,
it holds the rows before its cursor. `ScanInv` ties an attempt to its load
(`AlertsOK`: the alerts are the batches classified so far that are within a
threshold, each once; `AnswersOK`: an alert let in waits or has its outcome) and its tallies
to its progress (`BatchOK`: a batch not yet saved in this attempt was stored
fewer times than there were attempts, one not yet pushed has fewer cards than
it was stored, and no more than attempts were cut off). `PlanInv` holds the
books of the allocation (`AllocationOK`: used and remaining add up to the
capacity; turns are taken in order; once a batch got nothing, nothing
remains; one that got less than its stock used its action up). They give `TypeCorrect`, `LoadTheorem`, `CoverageTheorem`,
`CardTheorem`, `CapacityTheorem`, `OrderTheorem`, `StockTheorem` and `ShareTheorem` for any ERP,
page size, number of jobs and attempts, thresholds, stocks, actions and
capacities. What `ScansEnd` rests on beside fairness is proved: each step of a
scan puts it ahead in the order of attempts, phases, batches, calls and answers
(`ScanAdvanceTheorem`), of which it has only so many: no more attempts than
`MaxAttempts` and one for each death (`ScanBoundTheorem`). So a scan that never
ends goes on killing its processes. And
a load under way follows a link it has not followed, uses up a try of its page
or ends (`LoadAdvanceTheorem`), however the rows move.

**ServiceProofs.** `SchemaInv` says that a transaction in progress holds the lock
and that the versions below a loop's place are marked; `LifeInv` that a serving
process or a living worker has all stores open after a finished upgrade;
`RateInv` that the deque holds the last requests let through and that those
are spaced; `ReportsInv` that the instants of a month already reported are past.
The calendar's division is proved about, not assumed (`MonthIsInterval`).
`AuditInv` ranks an event by how many come before it in the listing's order
(`RankIn`; the ranks of the rows are 0, 1, 2, ... without a gap,
`RanksAreDense`, so a short page is the last one, `PageIsFull`): what was there
at the start and ranks below the cursor has been read, because a denial
recorded since, wherever it falls, only pushes rows back, and a purge takes rows
from the end; and unless one came ahead of what was read, what was read still
ranks below the cursor. `TrailTheorem` therefore promises that no event is
missed, and that one is repeated only then. They give `ServiceTypeTheorem`, `SchemaTheorem`, `StoresTheorem`,
`QuotaTheorem`, `ReportsTheorem` and `TrailTheorem` for any number of
processes, releases, stores, instants, events, page sizes and lengths. Two more
say what the runs' properties leave open: a request is refused only when the
limit was reached within the window that ends with it (`RefusalTheorem`: the
deque never holds an older event, nor one twice), and the file sees one
upgrade, version after version, never taken back (`SchemaGrowthTheorem`). And
stores are left open only by a lifespan whose worker's loop had died
(`LeftOpenTheorem`): what `ServiceExit` shows has no other cause.

Checked by TLC only: the liveness properties `EveryTaskSettles`, `ClaimsSettle`
and `ScansEnd`, because the prover has no rules for fairness; the theorems on ranks above
are their safety part. `OneRoundPerSuggestion`, `OwnFeedback` and
`SessionsMatchRevisions` are checked and proved for one instance only: on
PostgreSQL two may take one session (section 3), and `RoundsTheorem` and its
companions say what is left. `ReceiptsAgree`, `ClicksNameTheOrder` and
`ImplementsOrderBook` are checked for SQLite; so are `ApprovalIsWhole` and
`PlanIsWhole`, which are proved for PostgreSQL as well. That a sum over all batches of a
plan equals what an action used is not proved: a fold over a set needs an induction
the provers cannot instantiate; `AllocationOK` keeps the books step by step instead.

## 5. Not modelled

- The replay window, signatures and parsing of callbacks; deliveries that are
  neither click nor text; deliveries answered from their record, which change
  nothing.
- PostgreSQL's schema, one transaction of idempotent statements; its archive of
  denials is SQLite's with another dialect.
- The JSON file repository, and the mapping of an ERP row's fields to a batch.
- The LLM providers' parsing of a reply, and retries inside the clients: together
  they are one answer.
- The monthly report's sums of money, its summary card and its push: what the
  sums are taken over is modelled.
- Whether a COMMIT whose answer was lost took effect.
- Denials for a role, which no listing has.
- The moment between stamping a decision and inserting it (section 2).
- The quality report and the scoring of evaluation cases, pure folds without
  state.

What is next: the effect of a lost COMMIT on the idempotency protocol, which
needs a variable for what the client believes.

Left out for good: prompt texts, card layout, PDF and Markdown rendering,
settings, plugins, logging and metrics keep no state that an operation depends
on; the LLM, WeCom and SAP are external and appear as the outcomes their
clients hand to the code. Timestamps and free texts of a row are left out where
no property tells them apart, and so are calls refused before they write.
