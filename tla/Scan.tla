-------------------------------- MODULE Scan --------------------------------
(***************************************************************************)
(* One scan of a customer's batches, from the load to the last card        *)
(* (src/scheduler/runner.py, alerts/monitor.py, suggestion/engine.py and   *)
(* the push callback of runtime/lifespan.py), as a queue task or a cron    *)
(* job drives it: classify every batch by its days left, ask the LLM for   *)
(* each alert under a semaphore, save the suggestions in the batches'      *)
(* order, then push the cards one by one.                                  *)
(*                                                                         *)
(* The load blocks the event loop, the LLM calls and the pushes are        *)
(* awaited.  One alert's failed call is an error of that alert, a failed   *)
(* save or an unexpected reply to a push fails the scan, which the task    *)
(* queue then tries again from the load while attempts are left; a scan    *)
(* whose process died it tries again however many there were.  That a      *)
(* claim may go stale under a running scan is left to TaskQueue: here the  *)
(* second worker's scan is another scanner's.  What is in a suggestion or  *)
(* a card beyond its batch is left out.                                    *)
(***************************************************************************)
EXTENDS Erp, FiniteSets

CONSTANTS
  Scanners,        \* the jobs that scan
  Red, Orange, Yellow,   \* the customer's alert thresholds
  MaxConcurrency,  \* scan_concurrency
  MaxAttempts,     \* attempts after which a scan that fails is given up
  MaxDeaths        \* bound: processes that die while they work on one scan

ASSUME ScanAssumption ==
  /\ Scanners \subseteq Jobs
  /\ Red \in Int /\ Orange \in Int /\ Yellow \in Int
  /\ Red < Orange /\ Orange < Yellow
  /\ MaxConcurrency \in Nat \ {0}
  /\ MaxAttempts \in Nat \ {0}
  /\ MaxDeaths \in Nat

VARIABLES
  scan,    \* the current attempt of each scan
  stored,  \* suggestions in the store, by scan and batch
  cards,   \* cards that reached WeCom, by scan and batch
  deaths   \* processes that died while they worked on each scan

scanVars == <<scan, stored, cards, deaths>>

Outcomes == {"none", "suggestion", "error"}

\* "failed": by an error; "lost": with its process.
Attempt == [phase   : {"queued", "loading", "asking", "saving", "pushing",
                       "done", "failed", "lost"},
            tries   : Nat,                  \* column attempts
            alerts  : Seq(Batches),
            asked   : Nat,                  \* alerts past the semaphore
            waiting : SUBSET Batches,       \* LLM calls in flight
            outcome : [Batches -> Outcomes],
            next    : Nat,  \* next batch to classify, outcome to save, card to push
            cuts    : Nat]       \* history: attempts cut while pushing

NewAttempt(tries, cuts) ==
  [phase |-> "loading", tries |-> tries, alerts |-> <<>>, asked |-> 0,
   waiting |-> {}, outcome |-> [b \in Batches |-> "none"], next |-> 1,
   cuts |-> cuts]

ScanInit ==
  /\ scan = [j \in Scanners |-> [NewAttempt(0, 0) EXCEPT !.phase = "queued"]]
  /\ stored = [j \in Scanners |-> [b \in Batches |-> 0]]
  /\ cards = [j \in Scanners |-> [b \in Batches |-> 0]]
  /\ deaths = [j \in Scanners |-> 0]

\* Variant: a batch that expires on the threshold's day is not yet due.
SeverityStrict(days) ==
  IF days < Red THEN "red"
  ELSE IF days < Orange THEN "orange"
  ELSE IF days < Yellow THEN "yellow" ELSE "none"

Severity(days) ==
  IF days <= Red THEN "red"
  ELSE IF days <= Orange THEN "orange"
  ELSE IF days <= Yellow THEN "yellow" ELSE "none"

\* scan_batch: the batch crosses a threshold.
Alerted(b) == Severity(DaysLeft[b]) # "none"

(***************************************************************************)
(* run_for_customer                                                        *)
(***************************************************************************)

\* A worker claims the task: a new one, one that fail put back because its
\* attempts are not used up, or one whose claim went stale, of which nobody
\* counts the attempts.
Begin(j) ==
  /\ \/ scan[j].phase \in {"queued", "lost"}
     \/ scan[j].phase = "failed" /\ scan[j].tries < MaxAttempts
  /\ scan' = [scan EXCEPT ![j] = NewAttempt(@.tries + 1, @.cuts)]
  /\ load' = [load EXCEPT ![j] = NewLoad]
  /\ UNCHANGED <<rows, moves, stored, cards, deaths>>

LoadFailed(j) ==
  /\ scan[j].phase = "loading"
  /\ load[j].phase = "failed"
  /\ scan' = [scan EXCEPT ![j].phase = "failed"]
  /\ UNCHANGED <<erpVars, stored, cards, deaths>>

\* The loop comes to the next batch.
Classify(j) ==
  LET s == scan[j]
      b == load[j].batches[s.next] IN
  /\ s.phase = "loading"
  /\ load[j].phase = "loaded"
  /\ s.next <= Len(load[j].batches)
  /\ scan' = [scan EXCEPT ![j].alerts = IF Alerted(b) THEN Append(@, b) ELSE @,
                          ![j].next = @ + 1]
  /\ UNCHANGED <<erpVars, stored, cards, deaths>>

Classified(j) ==
  /\ scan[j].phase = "loading"
  /\ load[j].phase = "loaded"
  /\ scan[j].next > Len(load[j].batches)
  /\ scan' = [scan EXCEPT ![j].phase = "asking", ![j].next = 1]
  /\ UNCHANGED <<erpVars, stored, cards, deaths>>

\* Variant: every call is made at once.
AskAtOnce(j) ==
  LET s == scan[j] IN
  /\ s.phase = "asking"
  /\ s.asked < Len(s.alerts)
  /\ scan' = [scan EXCEPT ![j].asked = @ + 1,
                          ![j].waiting = @ \cup {s.alerts[s.asked + 1]}]
  /\ UNCHANGED <<erpVars, stored, cards, deaths>>

\* The semaphore lets the alerts in by their order.
Ask(j) ==
  LET s == scan[j] IN
  /\ s.phase = "asking"
  /\ s.asked < Len(s.alerts)
  /\ Cardinality(s.waiting) < MaxConcurrency
  /\ scan' = [scan EXCEPT ![j].asked = @ + 1,
                          ![j].waiting = @ \cup {s.alerts[s.asked + 1]}]
  /\ UNCHANGED <<erpVars, stored, cards, deaths>>

\* A valid tool call is a suggestion, whatever else happened is an error.
Answer(j, b) ==
  /\ scan[j].phase = "asking"
  /\ b \in scan[j].waiting
  /\ \E o \in {"suggestion", "error"} :
       scan' = [scan EXCEPT ![j].waiting = @ \ {b}, ![j].outcome[b] = o]
  /\ UNCHANGED <<erpVars, stored, cards, deaths>>

AllAnswered(s) == s.asked = Len(s.alerts) /\ s.waiting = {}

Gathered(j) ==
  /\ scan[j].phase = "asking"
  /\ AllAnswered(scan[j])
  /\ scan' = [scan EXCEPT ![j].phase = "saving"]
  /\ UNCHANGED <<erpVars, stored, cards, deaths>>

Current(s) == s.alerts[s.next]

\* The next outcome is saved, or skipped when it is an error.
SaveNext(j) ==
  LET s == scan[j] IN
  /\ s.phase = "saving"
  /\ s.next <= Len(s.alerts)
  /\ scan' = [scan EXCEPT ![j].next = @ + 1]
  /\ stored' = IF s.outcome[Current(s)] = "suggestion"
               THEN [stored EXCEPT ![j][Current(s)] = @ + 1] ELSE stored
  /\ UNCHANGED <<erpVars, cards, deaths>>

\* Variant: a refused save is logged and swallowed.
SaveFailsSwallowed(j) ==
  LET s == scan[j] IN
  /\ s.phase = "saving"
  /\ s.next <= Len(s.alerts)
  /\ s.outcome[Current(s)] = "suggestion"
  /\ scan' = [scan EXCEPT ![j].next = @ + 1]
  /\ UNCHANGED <<erpVars, stored, cards, deaths>>

\* The store refuses: the scan fails, what it saved before stays.
SaveFails(j) ==
  LET s == scan[j] IN
  /\ s.phase = "saving"
  /\ s.next <= Len(s.alerts)
  /\ s.outcome[Current(s)] = "suggestion"
  /\ scan' = [scan EXCEPT ![j].phase = "failed"]
  /\ UNCHANGED <<erpVars, stored, cards, deaths>>

Saved(j) ==
  /\ scan[j].phase = "saving"
  /\ scan[j].next > Len(scan[j].alerts)
  /\ scan' = [scan EXCEPT ![j].phase = "pushing", ![j].next = 1]
  /\ UNCHANGED <<erpVars, stored, cards, deaths>>

(***************************************************************************)
(* on_result: the push callback                                            *)
(***************************************************************************)

\* The next card arrives, or its WecomPushError is logged and swallowed; an
\* alert whose call failed has no card.
PushNext(j) ==
  LET s == scan[j] IN
  /\ s.phase = "pushing"
  /\ s.next <= Len(s.alerts)
  /\ \/ cards' = cards
     \/ /\ s.outcome[Current(s)] = "suggestion"
        /\ cards' = [cards EXCEPT ![j][Current(s)] = @ + 1]
  /\ scan' = [scan EXCEPT ![j].next = @ + 1]
  /\ UNCHANGED <<erpVars, stored, deaths>>

\* A reply send_card does not expect leaves the callback, after WeCom took
\* the card or not.
PushBreaks(j) ==
  LET s == scan[j] IN
  /\ s.phase = "pushing"
  /\ s.next <= Len(s.alerts)
  /\ s.outcome[Current(s)] = "suggestion"
  /\ cards' \in {cards, [cards EXCEPT ![j][Current(s)] = @ + 1]}
  /\ scan' = [scan EXCEPT ![j].phase = "failed", ![j].cuts = @ + 1]
  /\ UNCHANGED <<erpVars, stored, deaths>>

Pushed(j) ==
  /\ scan[j].phase = "pushing"
  /\ scan[j].next > Len(scan[j].alerts)
  /\ scan' = [scan EXCEPT ![j].phase = "done"]
  /\ UNCHANGED <<erpVars, stored, cards, deaths>>

\* The process dies; the queue gives the task out again when its visibility
\* timeout is over.
Die(j) ==
  /\ scan[j].phase \notin {"queued", "failed", "lost", "done"}
  /\ deaths[j] < MaxDeaths
  /\ deaths' = [deaths EXCEPT ![j] = @ + 1]
  /\ scan' = [scan EXCEPT ![j].phase = "lost",
                          ![j].cuts = IF scan[j].phase = "pushing" THEN @ + 1
                                      ELSE @]
  /\ load' = [load EXCEPT ![j] = NoLoad]
  /\ UNCHANGED <<rows, moves, stored, cards>>

\* What the event loop does next for the scan.
Proceed(j) ==
  \/ LoadFailed(j) \/ Classify(j) \/ Classified(j) \/ Ask(j) \/ Gathered(j)
  \/ SaveNext(j) \/ SaveFails(j) \/ Saved(j)
  \/ PushNext(j) \/ PushBreaks(j) \/ Pushed(j)
  \/ \E b \in Batches : Answer(j, b)

(***************************************************************************)
(* Properties                                                              *)
(***************************************************************************)

\* The attempts and their tallies, no more LLM calls in flight than the
\* semaphore admits, and no batch stored more often than it was tried.
ScanTypeOK ==
  /\ scan \in [Scanners -> Attempt]
  /\ stored \in [Scanners -> [Batches -> Nat]]
  /\ cards \in [Scanners -> [Batches -> Nat]]
  /\ deaths \in [Scanners -> 0..MaxDeaths]
  /\ \A j \in Scanners :
       /\ Cardinality(scan[j].waiting) <= MaxConcurrency
       /\ \A b \in Batches : stored[j][b] <= scan[j].tries

\* A scan that is done has dealt with every batch it had to: a batch that was
\* in the ERP throughout the load and within the yellow threshold has its
\* suggestion in the store or an error of its own, whatever became of the
\* other batches' calls and of the pushes.
NoBatchForgotten ==
  \A j \in Scanners : scan[j].phase = "done" /\ load[j].steady =>
    \A b \in ToSet(load[j].listed) :
      DaysLeft[b] <= Yellow =>
        stored[j][b] > 0 \/ scan[j].outcome[b] = "error"

\* Every card the operator sees has a suggestion of the same attempt in the
\* store, which a click on it will look up; and a batch gets a second card
\* only when an attempt was cut off while it was pushing, so that a retry
\* after a failed load, call or save repeats no card.
CardsMatchStore ==
  \A j \in Scanners, b \in Batches :
    /\ cards[j][b] <= stored[j][b]
    /\ cards[j][b] <= scan[j].cuts + 1

\* The scan was carried to its end, or failed with no attempt left.
Over(j) ==
  \/ scan[j].phase = "done"
  \/ /\ scan[j].phase = "failed"
     /\ scan[j].tries >= MaxAttempts
=============================================================================
