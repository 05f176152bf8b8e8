------------------------------ MODULE Webhook ------------------------------
(***************************************************************************)
(* The callback endpoint POST /webhook/wecom: the idempotency record of    *)
(* each event, the snooze and revise clicks, the text reply that triggers  *)
(* one regeneration of a suggestion, and the saves of scans that run       *)
(* meanwhile (src/webhook/router.py, src/webhook/handlers.py,              *)
(* src/scheduler/runner.py and the idempotency, revision and suggestion    *)
(* stores of src/persistence, SQLite and PostgreSQL).                      *)
(*                                                                         *)
(* A handler is one request in flight.  Each step of it is one committed   *)
(* statement of a store.  The endpoint is a coroutine that awaits nothing  *)
(* but the LLM, so within one instance the other handlers run only while   *)
(* it is at "revising"; the handlers of different instances share the      *)
(* database and interleave at every statement.  SQLite is one instance.    *)
(*                                                                         *)
(* A delivery that finds a record is answered from it, or with 409, and    *)
(* changes nothing: it is not an action.  Approve clicks are in Approvals. *)
(* The order of generated_at is kept, its values are not.                  *)
(***************************************************************************)
EXTENDS Integers

CONSTANTS
  Events,       \* stable event ids
  Kind,         \* "snooze", "revise" or "text", by event
  OperatorOf,   \* from_user_name, by event
  BatchOf,      \* the (customer, batch) of a click's key; any batch for a text
  Batches,      \* (customer, batch) pairs
  Operators,
  Handlers,     \* requests in flight
  Instances,    \* service instances
  InstanceOf,   \* the instance of each handler
  NoEvent, NoSession, NoDraft,
  MaxScans,     \* bound: suggestions a scan generates
  MaxTime,      \* bound: suggestions generated, by scans and revisions
  MaxDbErrors,  \* bound: statements that raise
  MaxCrashes    \* bound: instance crashes

ASSUME EventsAssumption ==
  /\ Kind \in [Events -> {"snooze", "revise", "text"}]
  /\ OperatorOf \in [Events -> Operators]
  /\ BatchOf \in [Events -> Batches]
  /\ InstanceOf \in [Handlers -> Instances]
  /\ Batches # {}
ASSUME BoundsAssumption ==
  {MaxScans, MaxTime, MaxDbErrors, MaxCrashes} \subseteq Nat

VARIABLES
  record,       \* idempotency records
  decisions,    \* decision rows written for each event
  session,      \* revision sessions by batch and generated_at of the original
  suggestions,  \* rows of the suggestions table
  run,          \* what each handler is doing
  draft,        \* suggestion an instance's scan has generated, not saved yet
  clock,        \* number of suggestions generated so far
  scans, errors, crashes   \* counters against the bounds

tables == <<record, decisions, session, suggestions>>
bounds == <<scans, errors, crashes>>
vars == <<tables, run, draft, clock, bounds>>

Times == 1..MaxTime
Answers == {"decided", "prompted", "revised", "ignored"}

Suggestion == [batch : Batches, at : Times,
               original : 0..MaxTime,            \* 0: generated by a scan
               by : Events \cup {NoEvent},       \* the text event handled
               feedback : Events \cup {NoEvent}] \* the text that was used

Session == [operator : Operators,
            status : {"pending", "processing", "completed", "failed"},
            text : Events \cup {NoEvent}]

Draft == [batch : Batches, at : Times]

ASSUME NullsAssumption ==
  /\ NoEvent \notin Events
  /\ NoSession \notin Session
  /\ NoDraft \notin Draft

Steps == {"idle", "claimed", "opening", "attaching", "attached", "revising",
          "saved", "failing", "refused", "answering"}

Handler == [pc : Steps, event : Events \cup {NoEvent},
            batch : Batches, at : 0..MaxTime,    \* key of the session in hand
            text : Events \cup {NoEvent}, answer : Answers]

\* A handler before its first statement; the answer is set before it is used.
Start(pc, e, b) == [pc |-> pc, event |-> e, batch |-> b, at |-> 0,
                    text |-> NoEvent, answer |-> "ignored"]

Idle == Start("idle", NoEvent, CHOOSE b \in Batches : TRUE)

Init ==
  /\ record = [e \in Events |-> "none"]
  /\ decisions = [e \in Events |-> 0]
  /\ session = [k \in Batches \X Times |-> NoSession]
  /\ suggestions = {}
  /\ run = [h \in Handlers |-> Idle]
  /\ draft = [i \in Instances |-> NoDraft]
  /\ clock = 0 /\ scans = 0 /\ errors = 0 /\ crashes = 0

\* No handler of the instance is between two awaits.
LoopFree(i) ==
  \A h \in Handlers : InstanceOf[h] = i => run[h].pc \in {"idle", "revising"}

\* The handler is at this step and its event loop is running it.
At(h, pc) ==
  /\ run[h].pc = pc
  /\ \A g \in Handlers \ {h} :
       InstanceOf[g] = InstanceOf[h] => run[g].pc \in {"idle", "revising"}

Goto(h, pc) == run' = [run EXCEPT ![h].pc = pc]
Finish(h) == run' = [run EXCEPT ![h] = Idle]
AnswerWith(h, a) == run' = [run EXCEPT ![h].pc = "answering", ![h].answer = a]

EventAt(h, kind) == At(h, "claimed") /\ Kind[run[h].event] = kind
Key(h) == <<run[h].batch, run[h].at>>

(***************************************************************************)
(* Claim, answer and release                                               *)
(***************************************************************************)

Claimed(h, e) == run' = [run EXCEPT ![h] = Start("claimed", e, BatchOf[e])]

\* Variant: a redelivered event takes over a claim still being processed.
DeliverTakingOver(h, e) ==
  /\ run[h].pc = "idle"
  /\ LoopFree(InstanceOf[h])
  /\ record[e] \in {"none", "processing"}
  /\ record' = [record EXCEPT ![e] = "processing"]
  /\ Claimed(h, e)
  /\ UNCHANGED <<decisions, session, suggestions, draft, clock, bounds>>

\* claim: the insert of the record elects this handler.
Deliver(h, e) ==
  /\ run[h].pc = "idle"
  /\ LoopFree(InstanceOf[h])
  /\ record[e] = "none"
  /\ record' = [record EXCEPT ![e] = "processing"]
  /\ Claimed(h, e)
  /\ UNCHANGED <<decisions, session, suggestions, draft, clock, bounds>>

\* complete: the response is kept for later deliveries.
Answer(h) ==
  /\ At(h, "answering")
  /\ record' = [record EXCEPT ![run[h].event] = run[h].answer]
  /\ Finish(h)
  /\ UNCHANGED <<decisions, session, suggestions, draft, clock, bounds>>

\* Variant: the error is answered and the claim forgotten.
ReleaseNothing(h) ==
  /\ At(h, "refused")
  /\ Finish(h)
  /\ UNCHANGED <<tables, draft, clock, bounds>>

\* release: after any error in the handler the event may be delivered again.
Release(h) ==
  /\ At(h, "refused")
  /\ record' = [record EXCEPT ![run[h].event] = "none"]
  /\ Finish(h)
  /\ UNCHANGED <<decisions, session, suggestions, draft, clock, bounds>>

(***************************************************************************)
(* Clicks                                                                  *)
(***************************************************************************)

Snooze(h) ==
  /\ EventAt(h, "snooze")
  /\ decisions' = [decisions EXCEPT ![run[h].event] = @ + 1]
  /\ AnswerWith(h, "decided")
  /\ UNCHANGED <<record, session, suggestions, draft, clock, bounds>>

\* An unknown customer or batch: the click is refused.
SnoozeUnknown(h) ==
  /\ EventAt(h, "snooze")
  /\ Goto(h, "refused")
  /\ UNCHANGED <<tables, draft, clock, bounds>>

\* The row ORDER BY generated_at DESC LIMIT 1 returns.
Latest(b) == {s \in suggestions : /\ s.batch = b
                                  /\ \A r \in suggestions :
                                       r.batch = b => r.at <= s.at}

\* A batch without a suggestion gets the prompt and no session.
ReviseRead(h) ==
  /\ EventAt(h, "revise")
  /\ \/ Latest(run[h].batch) = {} /\ AnswerWith(h, "prompted")
     \/ \E s \in Latest(run[h].batch) :
          IF s.feedback = NoEvent
          THEN run' = [run EXCEPT ![h].pc = "opening", ![h].at = s.at]
          ELSE Goto(h, "refused")
  /\ UNCHANGED <<tables, draft, clock, bounds>>

HasPending(op) == \E k \in DOMAIN session :
  /\ session[k] # NoSession
  /\ session[k].operator = op
  /\ session[k].status = "pending"

\* Both unique indexes: one session for a suggestion, one pending for an
\* operator.
ReviseOpen(h) ==
  LET op == OperatorOf[run[h].event] IN
  /\ At(h, "opening")
  /\ \/ /\ session[Key(h)] = NoSession /\ ~HasPending(op)
        /\ session' = [session EXCEPT ![Key(h)] =
             [operator |-> op, status |-> "pending", text |-> NoEvent]]
        /\ AnswerWith(h, "prompted")
     \/ /\ session[Key(h)] # NoSession \/ HasPending(op)
        /\ Goto(h, "refused")
        /\ UNCHANGED session
  /\ UNCHANGED <<record, decisions, suggestions, draft, clock, bounds>>

(***************************************************************************)
(* The text reply                                                          *)
(***************************************************************************)

\* attach_feedback looks for the operator's pending session.
TextSelect(h) ==
  LET op == OperatorOf[run[h].event] IN
  /\ EventAt(h, "text")
  /\ \/ ~HasPending(op) /\ AnswerWith(h, "ignored")
     \/ \E k \in DOMAIN session :
          /\ session[k] # NoSession
          /\ session[k].operator = op /\ session[k].status = "pending"
          /\ run' = [run EXCEPT ![h].pc = "attaching",
                                ![h].batch = k[1], ![h].at = k[2]]
  /\ UNCHANGED <<tables, draft, clock, bounds>>

\* Variant: the session stays pending.
TextAttachPending(h) ==
  /\ At(h, "attaching")
  /\ session' = [session EXCEPT ![Key(h)].text = run[h].event]
  /\ Goto(h, "attached")
  /\ UNCHANGED <<record, decisions, suggestions, draft, clock, bounds>>

\* The update is by id: whatever the session has become by now.
TextAttach(h) ==
  /\ At(h, "attaching")
  /\ session' = [session EXCEPT ![Key(h)].text = run[h].event,
                                ![Key(h)].status = "processing"]
  /\ Goto(h, "attached")
  /\ UNCHANGED <<record, decisions, suggestions, draft, clock, bounds>>

\* Variant: the feedback is read back by operator, from any of his sessions.
TextRereadByOperator(h) ==
  /\ At(h, "attached")
  /\ \E k \in DOMAIN session :
       /\ session[k] # NoSession
       /\ session[k].operator = OperatorOf[run[h].event]
       /\ run' = [run EXCEPT ![h].pc = "revising", ![h].text = session[k].text]
  /\ UNCHANGED <<tables, draft, clock, bounds>>

\* The session is read back and its feedback goes to the LLM.
TextReread(h) ==
  /\ At(h, "attached")
  /\ run' = [run EXCEPT ![h].pc = "revising",
                        ![h].text = session[Key(h)].text]
  /\ UNCHANGED <<tables, draft, clock, bounds>>

\* Back from the LLM: the revised suggestion is stamped and saved.
Regenerate(h) ==
  /\ At(h, "revising")
  /\ clock < MaxTime
  /\ clock' = clock + 1
  /\ suggestions' = suggestions \cup
       {[batch |-> run[h].batch, at |-> clock + 1, original |-> run[h].at,
         by |-> run[h].event, feedback |-> run[h].text]}
  /\ Goto(h, "saved")
  /\ UNCHANGED <<record, decisions, session, draft, bounds>>

\* Variant: a result without a suggestion counts as a revision.
RegenerateNothing(h) ==
  /\ At(h, "revising")
  /\ Goto(h, "saved")
  /\ UNCHANGED <<tables, draft, clock, bounds>>

\* The LLM failed, no alert is left, the batch is gone or the save raised.
RegenerateFails(h) ==
  /\ At(h, "revising")
  /\ Goto(h, "failing")
  /\ UNCHANGED <<tables, draft, clock, bounds>>

\* Variant: a status the store does not know (the column takes any text).
CompleteSessionMisspelt(h) ==
  /\ At(h, "saved")
  /\ session' = [session EXCEPT ![Key(h)].status = "complete"]
  /\ AnswerWith(h, "revised")
  /\ UNCHANGED <<record, decisions, suggestions, draft, clock, bounds>>

CompleteSession(h) ==
  /\ At(h, "saved")
  /\ session' = [session EXCEPT ![Key(h)].status = "completed"]
  /\ AnswerWith(h, "revised")
  /\ UNCHANGED <<record, decisions, suggestions, draft, clock, bounds>>

FailSession(h) ==
  /\ At(h, "failing")
  /\ session' = [session EXCEPT ![Key(h)].status = "failed"]
  /\ Goto(h, "refused")
  /\ UNCHANGED <<record, decisions, suggestions, draft, clock, bounds>>

(***************************************************************************)
(* Scans, errors, crashes                                                  *)
(***************************************************************************)

\* The LLM answered a scan of this instance for batch b.
ScanGenerate(i, b) ==
  /\ LoopFree(i)
  /\ draft[i] = NoDraft
  /\ scans < MaxScans /\ clock < MaxTime
  /\ scans' = scans + 1
  /\ clock' = clock + 1
  /\ draft' = [draft EXCEPT ![i] = [batch |-> b, at |-> clock + 1]]
  /\ UNCHANGED <<tables, run, errors, crashes>>

\* The scan saves after all its batches are done, later than generated_at.
ScanSave(i) ==
  /\ LoopFree(i)
  /\ draft[i] # NoDraft
  /\ suggestions' = suggestions \cup
       {[batch |-> draft[i].batch, at |-> draft[i].at, original |-> 0,
         by |-> NoEvent, feedback |-> NoEvent]}
  /\ draft' = [draft EXCEPT ![i] = NoDraft]
  /\ UNCHANGED <<record, decisions, session, run, clock, bounds>>

\* Variant: an answer that cannot be stored releases the claim.
DbErrorReleasing(h) ==
  LET pc == run[h].pc IN
  /\ At(h, pc) /\ pc \notin {"idle", "revising"}
  /\ errors < MaxDbErrors
  /\ errors' = errors + 1
  /\ IF pc = "refused" THEN Finish(h) ELSE Goto(h, "refused")
  /\ UNCHANGED <<tables, draft, clock, scans, crashes>>

\* A statement raises.  Inside the handler's try the claim is released; the
\* release itself and the final complete are outside it.
DbError(h) ==
  LET pc == run[h].pc IN
  /\ At(h, pc) /\ pc \notin {"idle", "revising"}
  /\ errors < MaxDbErrors
  /\ errors' = errors + 1
  /\ IF pc \in {"refused", "answering"} THEN Finish(h) ELSE Goto(h, "refused")
  /\ UNCHANGED <<tables, draft, clock, scans, crashes>>

\* The instance dies and comes back: what was in memory is gone.
Crash(i) ==
  /\ crashes < MaxCrashes
  /\ crashes' = crashes + 1
  /\ run' = [h \in Handlers |-> IF InstanceOf[h] = i THEN Idle ELSE run[h]]
  /\ draft' = [draft EXCEPT ![i] = NoDraft]
  /\ UNCHANGED <<tables, clock, scans, errors>>

Handle(h) ==
  \/ Snooze(h) \/ SnoozeUnknown(h) \/ ReviseRead(h) \/ ReviseOpen(h)
  \/ TextSelect(h) \/ TextAttach(h) \/ TextReread(h)
  \/ Regenerate(h) \/ RegenerateFails(h)
  \/ CompleteSession(h) \/ FailSession(h)
  \/ Answer(h) \/ Release(h)

Next ==
  \/ \E h \in Handlers : Handle(h) \/ DbError(h) \/ \E e \in Events : Deliver(h, e)
  \/ \E i \in Instances : ScanSave(i) \/ Crash(i) \/ \E b \in Batches : ScanGenerate(i, b)

Spec == Init /\ [][Next]_vars

\* The event loop resumes its ready coroutines in turn and the LLM client
\* has a timeout, so a handler that can go on again and again does.
FairSpec == Spec /\ \A h \in Handlers : SF_vars(Handle(h))

(***************************************************************************)
(* Properties                                                              *)
(***************************************************************************)

\* The tables and the handlers.
TypeOK ==
  /\ record \in [Events -> {"none", "processing"} \cup Answers]
  /\ decisions \in [Events -> Nat]
  /\ session \in [Batches \X Times -> Session \cup {NoSession}]
  /\ suggestions \subseteq Suggestion
  /\ run \in [Handlers -> Handler]
  /\ draft \in [Instances -> Draft \cup {NoDraft}]
  /\ clock \in 0..MaxTime
  /\ scans \in 0..MaxScans /\ errors \in 0..MaxDbErrors
  /\ crashes \in 0..MaxCrashes

\* An event delivered again, to any instance, before or after a crash or an
\* error, never writes a second decision: snooze has no key of its own and
\* rests on the idempotency record alone.
OneDecisionPerEvent == \A e \in Events : decisions[e] <= 1

\* No two requests work on the same event at once.
OneProcessor ==
  \A g, h \in Handlers :
    g # h /\ run[g].pc # "idle" /\ run[h].pc # "idle" =>
      run[g].event # run[h].event

\* A stored answer is true: the decision it reports is there once, the
\* revision it reports was saved for this event.
AnswersAreTrue ==
  \A e \in Events :
    /\ record[e] = "decided" => decisions[e] = 1
    /\ record[e] = "revised" => \E s \in suggestions : s.by = e

\* A suggestion is regenerated at most once.
OneRoundPerSuggestion ==
  \A r, s \in suggestions :
    r.original # 0 /\ r.batch = s.batch /\ r.original = s.original => r = s

\* A regeneration uses the text of the event that asked for it.
OwnFeedback == \A s \in suggestions : s.feedback = s.by

\* The audit trail: a completed session has its revision, a failed one and
\* one that still waits for its text have none.
SessionsMatchRevisions ==
  \A k \in DOMAIN session : session[k] # NoSession =>
    LET revised == \E s \in suggestions : s.batch = k[1] /\ s.original = k[2]
    IN /\ session[k].status = "completed" => revised
       /\ session[k].status \in {"failed", "pending"} => ~revised

ClaimState(r) == CASE r = "none" -> "free"
                   [] r = "processing" -> "held"
                   [] r \in Answers -> "answered"
Claims == [e \in Events |-> ClaimState(record[e])]
Decided == [e \in Events |-> IF decisions[e] = 0 THEN {} ELSE {decisions[e]}]
Reported == [e \in Events |-> IF record[e] = "decided" THEN {1} ELSE {}]

Keyed == INSTANCE Idempotency
           WITH Keys <- Events, Effects <- {1},
                state <- Claims, effect <- Decided, told <- Reported

\* To WeCom a click is decided in one step with its answer: it is let go of
\* only undecided, and once decided its only answer, then and to every later
\* delivery, is the one decision, the first of the event.
ImplementsIdempotency == Keyed!Spec

\* Every claim ends in an answer or a release, so that a redelivery is not
\* told 409 for ever.  Only a crash or a failed statement can take the handler
\* away and leave the record behind; a handler that goes on still settles it.
ClaimsSettle ==
  \A e \in Events :
    record[e] = "processing" ~>
      \/ record[e] # "processing"
      \/ /\ errors + crashes > 0
         /\ \A h \in Handlers : run[h].pc = "idle" \/ run[h].event # e
=============================================================================
