--------------------------- MODULE RevisionProofs ---------------------------
(***************************************************************************)
(* Theorems about the revision rounds of Webhook for any events,           *)
(* operators, requests, scans, errors and crashes.  On any number of       *)
(* instances a suggestion is regenerated once per instance at most, from a *)
(* text of the operator who asked, and a completed session has its         *)
(* revision.  On one instance it is regenerated once, from the very text,  *)
(* and the sessions' states say which were; on two instances these three   *)
(* fail.                                                                   *)
(***************************************************************************)
EXTENDS WebhookProofs, FiniteSetTheorems

USE EventsAssumption, NullsAssumption, BoundsAssumption

(***************************************************************************)
(* Properties on any number of instances                                   *)
(***************************************************************************)

\* A suggestion is regenerated once per instance at most: that many texts may
\* find its session before one of them takes it, and none afterwards.
RoundsPerInstance ==
  \A s \in suggestions : s.original # 0 =>
    Cardinality({r \in suggestions : r.batch = s.batch /\ r.original = s.original})
      <= Cardinality(Instances)

\* A regeneration uses a text, and one of the operator who asked for it.
OperatorsOwnText ==
  \A s \in suggestions : s.by # NoEvent =>
    s.feedback # NoEvent /\ OperatorOf[s.feedback] = OperatorOf[s.by]

\* A completed session has its revision, one that waits for its text has none.
CompletedRevised ==
  \A k \in DOMAIN session : session[k] # NoSession =>
    LET revised == \E s \in suggestions : s.batch = k[1] /\ s.original = k[2]
    IN /\ session[k].status = "completed" => revised
       /\ session[k].status = "pending" => ~revised

(***************************************************************************)
(* Handlers and their sessions                                             *)
(***************************************************************************)

SessionKeys == Batches \X Times

Waiting == {"idle", "revising"}

\* Handlers that have taken the session out of "pending".
Working == {"attached", "revising", "saved", "failing"}

\* A handler with a session in hand has one of the table.
LEMMA KeysInHand ==
  ASSUME IInv, NEW h \in Handlers, run[h].pc \in HasSession \cup {"opening"}
  PROVE  Key(h) \in SessionKeys
  BY DEF IInv, TypeInv, TypeOK, InHand, Key, Handler, SessionKeys

(***************************************************************************)
(* What the steps do to the sessions, the suggestions and the handler that *)
(* takes them.                                                             *)
(***************************************************************************)

\* Only handler h moves, while the others of its instance wait.
Turn(h) ==
  \A g \in Handlers \ {h} :
    /\ run'[g] = run[g]
    /\ InstanceOf[g] = InstanceOf[h] => run[g].pc \in Waiting

\* It stays with its event and with the session k.
Stays(h, k) ==
  /\ Turn(h) /\ run'[h].event = run[h].event
  /\ k = Key(h) /\ k = Key(h)'

LEMMA TurnOf ==
  ASSUME NEW h \in Handlers, \A g \in Handlers \ {h} : run'[g] = run[g],
         LoopFree(InstanceOf[h]) \/ \E pc \in Steps : At(h, pc)
  PROVE  Turn(h)
  BY DEF Turn, LoopFree, At, Waiting

\* Deliveries, clicks, answers, releases and errors leave both alone.
LEMMA QuietEffect ==
  ASSUME IInv, NEW h \in Handlers,
         \/ \E e \in Events : Deliver(h, e)
         \/ Answer(h) \/ Release(h) \/ DbError(h)
         \/ Snooze(h) \/ SnoozeUnknown(h) \/ ReviseRead(h)
  PROVE  /\ UNCHANGED <<session, suggestions>>
         /\ Turn(h) /\ run'[h].pc \notin HasSession
  <1>1. RunType
    BY DEF IInv, TypeInv, TypeOK, RunType
  <1>2. UNCHANGED <<session, suggestions>>
    BY DEF Deliver, Answer, Release, DbError, Snooze, SnoozeUnknown, ReviseRead,
       tables
  <1>3. \/ /\ \A g \in Handlers \ {h} : run'[g] = run[g]
           /\ run'[h].pc \in {"claimed", "idle"}
        \/ \E p \in {"refused", "answering", "opening"} : Moves(h, p)
    <2>1. CASE (\E e \in Events : Deliver(h, e)) \/ Answer(h) \/ Release(h)
      BY <1>1, <2>1, ClaimedEffect, FinishEffect DEF Deliver, Answer, Release
    <2>2. CASE DbError(h)
      BY <1>1, <2>2, FinishEffect, GotoEffect DEF DbError, Steps
    <2>3. CASE Snooze(h) \/ SnoozeUnknown(h)
      BY <1>1, <2>3, GotoEffect, AnswerEffect
         DEF Snooze, SnoozeUnknown, Steps, Answers
    <2>4. CASE AnswerWith(h, "prompted") \/ Goto(h, "refused")
      BY <1>1, <2>4, GotoEffect, AnswerEffect DEF Steps, Answers
    <2>5. ASSUME NEW s \in Latest(run[h].batch),
                 run' = [run EXCEPT ![h].pc = "opening", ![h].at = s.at]
          PROVE  Moves(h, "opening")
      <3>1. s.at \in Times
        BY DEF IInv, Latest, TypeInv, TypeOK, Suggestion
      <3>2. QED
        BY <1>1, <2>5, <3>1, OpeningEffect
    <2>6. QED
      BY <2>1, <2>2, <2>3, <2>4, <2>5 DEF ReviseRead
  <1>4. \A g \in Handlers \ {h} : run'[g] = run[g]
    BY <1>3 DEF Moves
  <1>5. LoopFree(InstanceOf[h]) \/ \E pc \in Steps : At(h, pc)
    <2>1. run[h].pc \in Steps
      BY <1>1 DEF RunType, Handler
    <2>2. QED
      BY <2>1 DEF Deliver, Answer, Release, DbError, Snooze, SnoozeUnknown,
         ReviseRead, EventAt, Steps
  <1>6. run'[h].pc \notin HasSession
    BY <1>3 DEF Moves, HasSession
  <1>7. QED
    BY <1>2, <1>4, <1>5, <1>6, TurnOf

\* A session is opened at a key that has none.
LEMMA OpenEffect ==
  ASSUME IInv, NEW h \in Handlers, ReviseOpen(h)
  PROVE  /\ UNCHANGED suggestions
         /\ Turn(h) /\ run'[h].pc \notin HasSession
         /\ \/ UNCHANGED session
            \/ \E k \in SessionKeys :
                 /\ session[k] = NoSession
                 /\ session'[k] \in Session
                 /\ session'[k].status = "pending" /\ session'[k].text = NoEvent
                 /\ \A j \in SessionKeys \ {k} : session'[j] = session[j]
  <1>1. RunType
    BY DEF IInv, TypeInv, TypeOK, RunType
  <1>2. /\ UNCHANGED suggestions /\ At(h, "opening")
        /\ run[h].pc = "opening"
    BY DEF ReviseOpen, At
  <1>3. /\ \A g \in Handlers \ {h} : run'[g] = run[g]
        /\ run'[h].pc \in {"answering", "refused"}
    BY <1>1, GotoEffect, AnswerEffect DEF ReviseOpen, Moves, Steps, Answers
  <1>4. Turn(h)
    BY <1>2, <1>3, TurnOf DEF Steps
  <1>5. ASSUME session' # session
        PROVE  \E k \in SessionKeys :
                 /\ session[k] = NoSession
                 /\ session'[k] \in Session
                 /\ session'[k].status = "pending" /\ session'[k].text = NoEvent
                 /\ \A j \in SessionKeys \ {k} : session'[j] = session[j]
    <2> DEFINE new == [operator |-> OperatorOf[run[h].event],
                       status |-> "pending", text |-> NoEvent]
    <2>1. session[Key(h)] = NoSession
          /\ session' = [session EXCEPT ![Key(h)] = new]
      BY <1>5 DEF ReviseOpen
    <2>2. PICK k \in SessionKeys : k = Key(h)
      BY <1>2, KeysInHand
    <2>3. new \in Session /\ new.status = "pending" /\ new.text = NoEvent
      <3>1. run[h].event \in Events
        BY <1>2 DEF IInv, ClaimInv, Owner
      <3>2. QED
        BY <3>1 DEF Session
    <2> HIDE DEF new
    <2>4. /\ session'[k] = new
          /\ \A j \in SessionKeys \ {k} : session'[j] = session[j]
      BY <2>1, <2>2 DEF IInv, TypeInv, TypeOK, SessionKeys
    <2>5. QED
      BY <2>1, <2>2, <2>3, <2>4
  <1>6. QED
    BY <1>2, <1>3, <1>4, <1>5 DEF HasSession

\* A text finds a pending session of its operator, or none.
LEMMA SelectEffect ==
  ASSUME IInv, NEW h \in Handlers, TextSelect(h)
  PROVE  /\ UNCHANGED <<session, suggestions>> /\ Turn(h)
         /\ \/ run'[h].pc \notin HasSession
            \/ \E k \in SessionKeys :
                 /\ session[k] # NoSession /\ session[k].status = "pending"
                 /\ session[k].operator = OperatorOf[run[h].event]
                 /\ run'[h].pc = "attaching" /\ run'[h].event = run[h].event
                 /\ Key(h)' = k
  <1>1. RunType
    BY DEF IInv, TypeInv, TypeOK, RunType
  <1>2. UNCHANGED <<session, suggestions>> /\ At(h, "claimed")
    BY DEF TextSelect, EventAt, tables
  <1>3. CASE AnswerWith(h, "ignored")
    <2>1. /\ \A g \in Handlers \ {h} : run'[g] = run[g]
          /\ run'[h].pc = "answering"
      BY <1>1, <1>3, AnswerEffect DEF Moves, Answers
    <2>2. QED
      BY <1>2, <2>1, TurnOf DEF HasSession, Steps
  <1>4. ASSUME NEW k \in DOMAIN session, session[k] # NoSession,
               session[k].operator = OperatorOf[run[h].event],
               session[k].status = "pending",
               run' = [run EXCEPT ![h].pc = "attaching",
                                  ![h].batch = k[1], ![h].at = k[2]]
        PROVE  /\ Turn(h) /\ k \in SessionKeys
               /\ run'[h].pc = "attaching" /\ run'[h].event = run[h].event
               /\ Key(h)' = k
    <2>1. k \in SessionKeys
      BY DEF IInv, TypeInv, TypeOK, SessionKeys
    <2>2. k[1] \in Batches /\ k[2] \in Times /\ k = <<k[1], k[2]>>
      BY <2>1 DEF SessionKeys
    <2>3. RunType /\ Takes(h, k[1], k[2])
      BY <1>1, <1>4 DEF Takes
    <2>4. Moves(h, "attaching") /\ run'[h].batch = k[1] /\ run'[h].at = k[2]
      BY <2>2, <2>3, AttachingEffect
    <2>5. Turn(h)
      BY <1>2, <2>4, TurnOf DEF Moves, Steps
    <2>6. QED
      BY <2>1, <2>2, <2>4, <2>5 DEF Key, Moves
  <1>5. QED
    BY <1>2, <1>3, <1>4 DEF TextSelect

\* A text takes the session it found, whatever it has become by now.
LEMMA AttachEffect ==
  ASSUME IInv, NEW h \in Handlers, TextAttach(h)
  PROVE  \E k \in SessionKeys :
           /\ Stays(h, k) /\ UNCHANGED suggestions
           /\ run[h].pc = "attaching" /\ run'[h].pc = "attached"
           /\ session[k] \in Session /\ session'[k] \in Session
           /\ session'[k].operator = session[k].operator
           /\ session'[k].text = run[h].event /\ run[h].event \in Events
           /\ session'[k].status = "processing"
           /\ \A j \in SessionKeys \ {k} : session'[j] = session[j]
  <1>1. RunType
    BY DEF IInv, TypeInv, TypeOK, RunType
  <1>2. At(h, "attaching") /\ run[h].pc = "attaching" /\ UNCHANGED suggestions
    BY DEF TextAttach, At
  <1>3. PICK k \in SessionKeys : k = Key(h) /\ session[k] \in Session
    BY <1>2, KeysInHand, SessionUpdate DEF HasSession, IInv
  <1>4. /\ session' = [session EXCEPT ![k].text = run[h].event,
                                      ![k].status = "processing"]
        /\ Goto(h, "attached")
    BY <1>3 DEF TextAttach
  <1>5. Moves(h, "attached") /\ run'[h].batch = run[h].batch
        /\ run'[h].at = run[h].at
    BY <1>1, <1>4, GotoEffect DEF Steps
  <1>6. Stays(h, k)
    <2>1. Turn(h)
      BY <1>2, <1>5, TurnOf DEF Moves, Steps
    <2>2. QED
      BY <1>3, <1>5, <2>1 DEF Stays, Moves, Key
  <1> DEFINE new == [session[k] EXCEPT !.text = run[h].event,
                                       !.status = "processing"]
  <1>7. run[h].event \in Events
    BY <1>2 DEF IInv, ClaimInv, Owner
  <1>8. new \in Session /\ new.text = run[h].event
        /\ new.status = "processing" /\ new.operator = session[k].operator
    BY <1>3, <1>7 DEF Session
  <1>9. session \in [SessionKeys -> Session \cup {NoSession}]
    BY DEF IInv, TypeInv, TypeOK, SessionKeys
  <1>10. session' = [session EXCEPT ![k] = new]
    BY <1>4, <1>9
  <1> HIDE DEF new
  <1>11. session'[k] = new /\ \A j \in SessionKeys \ {k} : session'[j] = session[j]
    BY <1>8, <1>9, <1>10
  <1>12. QED
    BY <1>2, <1>3, <1>5, <1>6, <1>7, <1>8, <1>11 DEF Moves

\* The text is read back from the session.
LEMMA RereadEffect ==
  ASSUME IInv, NEW h \in Handlers, TextReread(h)
  PROVE  \E k \in SessionKeys :
           /\ Stays(h, k) /\ UNCHANGED <<session, suggestions>>
           /\ run[h].pc = "attached" /\ run'[h].pc = "revising"
           /\ session[k] \in Session /\ run'[h].text = session[k].text
  <1>1. RunType
    BY DEF IInv, TypeInv, TypeOK, RunType
  <1>2. At(h, "attached") /\ run[h].pc = "attached"
        /\ UNCHANGED <<session, suggestions>>
    BY DEF TextReread, At, tables
  <1>3. PICK k \in SessionKeys : k = Key(h) /\ session[k] \in Session
    BY <1>2, KeysInHand, SessionUpdate DEF HasSession, IInv
  <1>4. run' = [run EXCEPT ![h].pc = "revising", ![h].text = session[k].text]
    BY <1>3 DEF TextReread
  <1>5. PICK x \in Events \cup {NoEvent} : x = session[k].text
    BY <1>3 DEF Session
  <1>6. run' = [run EXCEPT ![h].pc = "revising", ![h].text = x]
    BY <1>4, <1>5
  <1>7. Moves(h, "revising") /\ run'[h].batch = run[h].batch
        /\ run'[h].at = run[h].at
    BY <1>1, <1>6, RevisingEffect
  <1>8. run'[h].text = x
    BY <1>1, <1>6 DEF RunType, Handler
  <1>9. Turn(h)
    BY <1>2, <1>7, TurnOf DEF Moves, Steps
  <1>10. Stays(h, k)
    BY <1>3, <1>7, <1>9 DEF Stays, Moves, Key
  <1>11. QED
    BY <1>2, <1>3, <1>5, <1>7, <1>8, <1>10 DEF Moves

\* The revision is saved, or the regeneration failed.
LEMMA RegenerateEffect ==
  ASSUME IInv, NEW h \in Handlers, Regenerate(h) \/ RegenerateFails(h)
  PROVE  \E k \in SessionKeys :
           /\ Stays(h, k) /\ UNCHANGED session
           /\ run[h].pc = "revising"
           /\ \/ run'[h].pc = "failing" /\ UNCHANGED suggestions
              \/ /\ run'[h].pc = "saved"
                 /\ \E s : /\ suggestions' = suggestions \cup {s}
                           /\ s.batch = k[1] /\ s.original = k[2]
                           /\ s.by = run[h].event /\ s.feedback = run[h].text
  <1>1. RunType
    BY DEF IInv, TypeInv, TypeOK, RunType
  <1>2. At(h, "revising") /\ run[h].pc = "revising" /\ UNCHANGED session
    BY DEF Regenerate, RegenerateFails, At, tables
  <1>3. PICK k \in SessionKeys : k = Key(h)
    BY <1>2, KeysInHand DEF HasSession
  <1>4. ASSUME NEW p \in Steps, Goto(h, p)
        PROVE  Stays(h, k) /\ run'[h].pc = p
    <2>1. Moves(h, p) /\ run'[h].batch = run[h].batch /\ run'[h].at = run[h].at
      BY <1>1, <1>4, GotoEffect
    <2>2. Turn(h)
      BY <1>2, <2>1, TurnOf DEF Moves, Steps
    <2>3. QED
      BY <1>3, <2>1, <2>2 DEF Stays, Moves, Key
  <1>5. CASE RegenerateFails(h)
    <2>1. UNCHANGED suggestions /\ Goto(h, "failing") /\ "failing" \in Steps
      BY <1>5 DEF RegenerateFails, tables, Steps
    <2>2. QED
      BY <1>2, <1>4, <2>1
  <1>6. CASE Regenerate(h)
    <2> DEFINE new == [batch |-> run[h].batch, at |-> clock + 1,
                       original |-> run[h].at, by |-> run[h].event,
                       feedback |-> run[h].text]
    <2>1. suggestions' = suggestions \cup {new} /\ Goto(h, "saved")
          /\ "saved" \in Steps
      BY <1>6 DEF Regenerate, Steps
    <2>2. /\ new.batch = k[1] /\ new.original = k[2]
          /\ new.by = run[h].event /\ new.feedback = run[h].text
      BY <1>3 DEF Key
    <2> HIDE DEF new
    <2>3. QED
      BY <1>2, <1>4, <2>1, <2>2
  <1>7. QED
    BY <1>5, <1>6

\* The session is closed and let go.
LEMMA SettleEffect ==
  ASSUME IInv, NEW h \in Handlers, CompleteSession(h) \/ FailSession(h)
  PROVE  \E k \in SessionKeys :
           /\ Turn(h) /\ UNCHANGED suggestions /\ k = Key(h)
           /\ run[h].pc \in {"saved", "failing"} /\ run'[h].pc \notin HasSession
           /\ session[k] \in Session /\ session'[k] \in Session
           /\ session'[k].operator = session[k].operator
           /\ session'[k].text = session[k].text
           /\ session'[k].status \in {"completed", "failed"}
           /\ session'[k].status = "completed" => run[h].pc = "saved"
           /\ session'[k].status = "failed" => run[h].pc = "failing"
           /\ \A j \in SessionKeys \ {k} : session'[j] = session[j]
  <1>1. RunType
    BY DEF IInv, TypeInv, TypeOK, RunType
  <1>2. /\ UNCHANGED suggestions
        /\ run[h].pc \in {"saved", "failing"} /\ At(h, run[h].pc)
    BY DEF CompleteSession, FailSession, At
  <1>3. PICK k \in SessionKeys : k = Key(h) /\ session[k] \in Session
    BY <1>2, KeysInHand, SessionUpdate DEF HasSession, IInv
  <1>4. PICK st \in {"completed", "failed"} :
          /\ session' = [session EXCEPT ![k].status = st]
          /\ st = "completed" => run[h].pc = "saved"
          /\ st = "failed" => run[h].pc = "failing"
    BY <1>3 DEF CompleteSession, FailSession, At
  <1> DEFINE new == [session[k] EXCEPT !.status = st]
  <1>5. new \in Session /\ new.status = st /\ new.text = session[k].text
        /\ new.operator = session[k].operator
    BY <1>3 DEF Session
  <1>6. session \in [SessionKeys -> Session \cup {NoSession}]
    BY DEF IInv, TypeInv, TypeOK, SessionKeys
  <1>7. session' = [session EXCEPT ![k] = new]
    BY <1>4
  <1> HIDE DEF new
  <1>8. session'[k] = new /\ \A j \in SessionKeys \ {k} : session'[j] = session[j]
    BY <1>5, <1>6, <1>7
  <1>9. /\ \A g \in Handlers \ {h} : run'[g] = run[g]
        /\ run'[h].pc \notin HasSession
    BY <1>1, GotoEffect, AnswerEffect
       DEF CompleteSession, FailSession, Moves, Steps, Answers, HasSession
  <1>10. Turn(h)
    BY <1>2, <1>9, TurnOf DEF Steps
  <1>11. QED
    BY <1>2, <1>3, <1>4, <1>5, <1>8, <1>9, <1>10

\* A scan's suggestion revises none; a crash takes handlers away.
LEMMA ScanCrashEffect ==
  ASSUME IInv, NEW i \in Instances,
         \/ ScanSave(i) \/ Crash(i)
         \/ \E b \in Batches : ScanGenerate(i, b)
  PROVE  /\ UNCHANGED session
         /\ \A g \in Handlers : run'[g] = run[g] \/ run'[g].pc = "idle"
         /\ \/ UNCHANGED suggestions
            \/ \E new : /\ suggestions' = suggestions \cup {new}
                        /\ new.original = 0
                        /\ new.by = NoEvent /\ new.feedback = NoEvent
  <1>1. UNCHANGED session
    BY DEF ScanSave, Crash, ScanGenerate, tables
  <1>2. \A g \in Handlers : run'[g] = run[g] \/ run'[g].pc = "idle"
    BY IdleType DEF ScanSave, Crash, ScanGenerate
  <1>3. CASE ScanSave(i)
    <2> DEFINE new == [batch |-> draft[i].batch, at |-> draft[i].at,
                       original |-> 0, by |-> NoEvent, feedback |-> NoEvent]
    <2>1. suggestions' = suggestions \cup {new}
      BY <1>3 DEF ScanSave
    <2>2. new.original = 0 /\ new.by = NoEvent /\ new.feedback = NoEvent
      OBVIOUS
    <2> HIDE DEF new
    <2>3. QED
      BY <1>1, <1>2, <2>1, <2>2
  <1>4. CASE ~ScanSave(i)
    BY <1>1, <1>2, <1>4 DEF Crash, ScanGenerate, tables
  <1>5. QED
    BY <1>3, <1>4

(***************************************************************************)
(* How often a suggestion is revised                                       *)
(***************************************************************************)

\* The event loops: those of the instances that have handlers.
Loops == {InstanceOf[h] : h \in Handlers}

\* A session no text has taken.
Open(s) == s = NoSession \/ s.status = "pending"

RoundsOf(k) == {s \in suggestions : s.batch = k[1] /\ s.original = k[2]}

\* Handlers that found the session k and have not revised its suggestion.
Engaged(k) ==
  {h \in Handlers :
     run[h].pc \in {"attaching", "attached", "revising", "failing"} /\ Key(h) = k}

\* Within an instance one handler at most is between two awaits.
Spread ==
  \A g, h \in Handlers :
    g # h /\ InstanceOf[g] = InstanceOf[h] =>
      run[g].pc \in Waiting \/ run[h].pc \in Waiting

Counted(k) ==
  /\ IsFiniteSet(RoundsOf(k)) /\ IsFiniteSet(Engaged(k))
  /\ Cardinality(RoundsOf(k)) + Cardinality(Engaged(k)) <= Cardinality(Loops)

OpenOK == \A k \in SessionKeys : Open(session[k]) => RoundsOf(k) = {}

TakenOK == \A k \in SessionKeys : ~Open(session[k]) => Counted(k)

WorkOK == \A h \in Handlers :
  /\ run[h].pc \in Working => ~Open(session[Key(h)])
  /\ run[h].pc = "saved" => RoundsOf(Key(h)) # {}

DoneOK == \A k \in SessionKeys :
  session[k] # NoSession /\ session[k].status = "completed" => RoundsOf(k) # {}

\* On a single event loop a failed session is left to itself.
FailedOK == \A k \in SessionKeys :
  Cardinality(Loops) <= 1 /\ session[k] # NoSession /\ session[k].status = "failed" =>
    RoundsOf(k) = {} /\ Engaged(k) = {}

CountInv == Spread /\ OpenOK /\ TakenOK /\ WorkOK /\ DoneOK /\ FailedOK

LEMMA CountInit == Init => CountInv
  <1> SUFFICES ASSUME Init
               PROVE  CountInv
    OBVIOUS
  <1>1. \A h \in Handlers : run[h].pc = "idle"
    BY IdleType DEF Init
  <1>2. suggestions = {} /\ \A k \in SessionKeys : session[k] = NoSession
    BY DEF Init, SessionKeys
  <1>3. QED
    BY <1>1, <1>2 DEF CountInv, Spread, OpenOK, TakenOK, WorkOK, DoneOK, FailedOK, Open,
       RoundsOf, Waiting, Working

\* While a session is open its handlers are between two awaits: one an instance.
LEMMA OneALoop ==
  ASSUME IsFiniteSet(Loops), CountInv, NEW k \in SessionKeys, Open(session[k])
  PROVE  IsFiniteSet(Engaged(k)) /\ Cardinality(Engaged(k)) <= Cardinality(Loops)
  <1> DEFINE f == [h \in Engaged(k) |-> InstanceOf[h]]
  <1>1. \A h \in Engaged(k) : run[h].pc = "attaching"
    BY DEF Engaged, CountInv, WorkOK, Working
  <1>2. \A g, h \in Engaged(k) : InstanceOf[g] = InstanceOf[h] => g = h
    BY <1>1 DEF Engaged, CountInv, Spread, Waiting
  <1>3. f \in Injection(Engaged(k), Loops)
    <2>1. f \in [Engaged(k) -> Loops]
      BY DEF Engaged, Loops
    <2>2. \A g, h \in Engaged(k) : f[g] = f[h] => g = h
      BY <1>2
    <2> HIDE DEF f
    <2>3. QED
      BY <2>1, <2>2 DEF Injection, IsInjective
  <1>4. QED
    BY <1>3, FS_Injection

LEMMA AllCounted ==
  ASSUME IsFiniteSet(Loops), CountInv, NEW k \in SessionKeys
  PROVE  Counted(k)
  <1>1. CASE Open(session[k])
    <2>1. RoundsOf(k) = {}
      BY <1>1 DEF CountInv, OpenOK
    <2>2. IsFiniteSet(RoundsOf(k)) /\ Cardinality(RoundsOf(k)) = 0
      BY <2>1, FS_EmptySet
    <2>3. Cardinality(Engaged(k)) \in Nat /\ Cardinality(Loops) \in Nat
      BY <1>1, OneALoop, FS_CardinalityType
    <2>4. QED
      BY <1>1, <2>2, <2>3, OneALoop DEF Counted
  <1>2. CASE ~Open(session[k])
    BY <1>2 DEF CountInv, TakenOK
  <1>3. QED
    BY <1>1, <1>2

\* On a single event loop a handler of a session is its only one, and the
\* suggestion is not revised yet.
LEMMA OneHand ==
  ASSUME IsFiniteSet(Loops), Cardinality(Loops) <= 1, CountInv,
         NEW k \in SessionKeys, NEW h \in Engaged(k)
  PROVE  Engaged(k) = {h} /\ RoundsOf(k) = {}
  <1>1. PICK R, E : R = RoundsOf(k) /\ E = Engaged(k)
    OBVIOUS
  <1>2. /\ IsFiniteSet(R) /\ IsFiniteSet(E)
        /\ Cardinality(R) + Cardinality(E) <= Cardinality(Loops)
    BY <1>1, AllCounted DEF Counted
  <1>3. IsFiniteSet(E \ {h}) /\ Cardinality(E \ {h}) = Cardinality(E) - 1
    BY <1>1, <1>2, FS_RemoveElement
  <1>4. /\ Cardinality(R) \in Nat /\ Cardinality(E \ {h}) \in Nat
        /\ Cardinality(E) \in Nat /\ Cardinality(Loops) \in Nat
    BY <1>2, <1>3, FS_CardinalityType
  <1>5. Cardinality(R) = 0 /\ Cardinality(E \ {h}) = 0
    BY <1>2, <1>3, <1>4
  <1>6. R = {} /\ E \ {h} = {}
    BY <1>2, <1>3, <1>5, FS_EmptySet
  <1>7. QED
    BY <1>1, <1>6

\* Nobody joins a session and nothing is revised, or one of its handlers is
\* done and has revised its suggestion.
Kept(k) == RoundsOf(k)' = RoundsOf(k) /\ Engaged(k)' \subseteq Engaged(k)

Turned(k) ==
  \E h \in Engaged(k) :
    /\ Engaged(k)' \subseteq Engaged(k) \ {h}
    /\ \E s : RoundsOf(k)' = RoundsOf(k) \cup {s}

LEMMA CountedKept ==
  ASSUME IsFiniteSet(Loops), CountInv, NEW k \in SessionKeys, Kept(k) \/ Turned(k)
  PROVE  Counted(k)'
  <1>1. PICK R, E : R = RoundsOf(k) /\ E = Engaged(k)
    OBVIOUS
  <1>2. PICK S, F : S = RoundsOf(k)' /\ F = Engaged(k)'
    OBVIOUS
  <1>3. /\ IsFiniteSet(R) /\ IsFiniteSet(E)
        /\ Cardinality(R) + Cardinality(E) <= Cardinality(Loops)
    BY <1>1, AllCounted DEF Counted
  <1>4. Cardinality(R) \in Nat /\ Cardinality(E) \in Nat /\ Cardinality(Loops) \in Nat
    BY <1>3, FS_CardinalityType
  <1>5. CASE Kept(k)
    <2>1. S = R /\ F \in SUBSET E
      BY <1>1, <1>2, <1>5 DEF Kept
    <2>2. IsFiniteSet(F) /\ Cardinality(F) <= Cardinality(E)
      BY <1>3, <2>1, FS_Subset
    <2>3. Cardinality(F) \in Nat
      BY <2>2, FS_CardinalityType
    <2>4. IsFiniteSet(S) /\ Cardinality(S) + Cardinality(F) <= Cardinality(Loops)
      BY <1>3, <1>4, <2>1, <2>2, <2>3
    <2>5. QED
      BY <1>2, <2>2, <2>4 DEF Counted, Loops
  <1>6. CASE Turned(k)
    <2>1. PICK h \in E : F \in SUBSET (E \ {h}) /\ \E s : S = R \cup {s}
      BY <1>1, <1>2, <1>6 DEF Turned
    <2>2. IsFiniteSet(E \ {h}) /\ Cardinality(E \ {h}) = Cardinality(E) - 1
      BY <1>3, FS_RemoveElement
    <2>3. IsFiniteSet(F) /\ Cardinality(F) <= Cardinality(E \ {h})
      BY <2>1, <2>2, FS_Subset
    <2>4. IsFiniteSet(S)
          /\ (Cardinality(S) = Cardinality(R) \/ Cardinality(S) = Cardinality(R) + 1)
      BY <1>3, <2>1, FS_AddElement
    <2>5. Cardinality(F) \in Nat
      BY <2>3, FS_CardinalityType
    <2>6. Cardinality(S) + Cardinality(F) <= Cardinality(Loops)
      BY <1>3, <1>4, <2>2, <2>3, <2>4, <2>5
    <2>7. QED
      BY <1>2, <2>3, <2>4, <2>6 DEF Counted, Loops
  <1>7. QED
    BY <1>5, <1>6

\* What each step must say of the sessions and of the handlers.
SessionFate(k) ==
  /\ Open(session'[k]) => Open(session[k]) /\ RoundsOf(k)' = RoundsOf(k)
  /\ RoundsOf(k) \subseteq RoundsOf(k)'
  /\ Open(session'[k]) \/ Kept(k) \/ Turned(k)
  /\ session'[k] # NoSession /\ session'[k].status = "completed" =>
       session'[k] = session[k] \/ RoundsOf(k)' # {}
  /\ session'[k] # NoSession /\ session'[k].status = "failed" =>
       \/ session'[k] = session[k]
       \/ Kept(k) /\ \E h \in Engaged(k) : h \notin Engaged(k)'

HandlerFate(g) ==
  \/ run'[g] = run[g]
  \/ run'[g].pc \notin Working
  \/ \E k \in SessionKeys :
       /\ Key(g)' = k /\ ~Open(session'[k])
       /\ run'[g].pc = "saved" => RoundsOf(k)' # {}

LEMMA CountStep ==
  ASSUME IsFiniteSet(Loops), IInv, CountInv, Spread',
         \A k \in SessionKeys : SessionFate(k),
         \A g \in Handlers : HandlerFate(g)
  PROVE  CountInv'
  <1>1. OpenOK'
    BY DEF CountInv, OpenOK, SessionFate
  <1>2. TakenOK'
    BY CountedKept DEF TakenOK, SessionFate
  <1>3. DoneOK'
    BY DEF CountInv, DoneOK, SessionFate
  <1>4. ASSUME NEW g \in Handlers, run'[g].pc \in Working
        PROVE  /\ ~Open(session[Key(g)])'
               /\ run'[g].pc = "saved" => RoundsOf(Key(g))' # {}
    <2>1. CASE run'[g] = run[g]
      <3>1. PICK k \in SessionKeys : k = Key(g)
        BY <1>4, <2>1, KeysInHand DEF HasSession, Working
      <3>2. k = Key(g)'
        BY <2>1, <3>1 DEF Key
      <3>3. ~Open(session[k]) /\ (run[g].pc = "saved" => RoundsOf(k) # {})
        BY <1>4, <2>1, <3>1 DEF CountInv, WorkOK
      <3>4. ~Open(session'[k]) /\ (run'[g].pc = "saved" => RoundsOf(k)' # {})
        BY <2>1, <3>3 DEF SessionFate
      <3>5. QED
        BY <3>2, <3>4 DEF Open, RoundsOf
    <2>2. CASE run'[g] # run[g]
      <3>1. PICK k \in SessionKeys :
              /\ Key(g)' = k /\ ~Open(session'[k])
              /\ run'[g].pc = "saved" => RoundsOf(k)' # {}
        BY <1>4, <2>2 DEF HandlerFate
      <3>2. QED
        BY <3>1 DEF Open, RoundsOf
    <2>3. QED
      BY <2>1, <2>2
  <1>5. WorkOK'
    BY <1>4 DEF WorkOK, Working
  <1>6. ASSUME NEW k \in SessionKeys, Cardinality(Loops) <= 1,
               session'[k] # NoSession, session'[k].status = "failed"
        PROVE  RoundsOf(k)' = {} /\ Engaged(k)' = {}
    <2>1. CASE session'[k] = session[k]
      <3>1. RoundsOf(k) = {} /\ Engaged(k) = {}
        BY <1>6, <2>1 DEF CountInv, FailedOK
      <3>2. ~Open(session'[k])
        BY <1>6 DEF Open
      <3>3. QED
        BY <3>1, <3>2 DEF SessionFate, Kept, Turned
    <2>2. CASE session'[k] # session[k]
      <3>1. PICK h \in Engaged(k) : Kept(k) /\ h \notin Engaged(k)'
        BY <1>6, <2>2 DEF SessionFate
      <3>2. Engaged(k) = {h} /\ RoundsOf(k) = {}
        BY <1>6, <3>1, OneHand
      <3>3. QED
        BY <3>1, <3>2 DEF Kept
    <2>3. QED
      BY <2>1, <2>2
  <1>7. FailedOK'
    BY <1>6 DEF FailedOK, Loops
  <1>8. QED
    BY <1>1, <1>2, <1>3, <1>5, <1>7 DEF CountInv

LEMMA SpreadTurn ==
  ASSUME Spread, NEW h \in Handlers, Turn(h)
  PROVE  Spread'
  BY DEF Spread, Turn

LEMMA SpreadLeave ==
  ASSUME Spread, \A g \in Handlers : run'[g] = run[g] \/ run'[g].pc = "idle"
  PROVE  Spread'
  BY DEF Spread, Waiting

\* A step that tells the sessions nothing and takes none.
LEMMA CountQuiet ==
  ASSUME IsFiniteSet(Loops), IInv, CountInv, Spread',
         UNCHANGED session,
         \A k \in SessionKeys : RoundsOf(k)' = RoundsOf(k),
         \A g \in Handlers : run'[g] = run[g] \/ run'[g].pc \notin HasSession
  PROVE  CountInv'
  <1>1. ASSUME NEW k \in SessionKeys
        PROVE  SessionFate(k)
    <2>1. Engaged(k)' \subseteq Engaged(k)
      BY DEF Engaged, HasSession, Key
    <2>2. QED
      BY <2>1 DEF SessionFate, Kept
  <1>2. \A g \in Handlers : HandlerFate(g)
    BY DEF HandlerFate, HasSession, Working
  <1>3. QED
    BY <1>1, <1>2, CountStep

\* A step of handler h with the session k.
LEMMA CountTurn ==
  ASSUME IsFiniteSet(Loops), IInv, CountInv, NEW h \in Handlers,
         NEW k \in SessionKeys, Turn(h),
         \A j \in SessionKeys \ {k} :
           session'[j] = session[j] /\ RoundsOf(j)' = RoundsOf(j),
         run'[h].pc \in HasSession => Key(h)' = k,
         SessionFate(k), HandlerFate(h)
  PROVE  CountInv'
  <1>1. ASSUME NEW j \in SessionKeys, j # k
        PROVE  SessionFate(j)
    <2>1. Engaged(j)' \subseteq Engaged(j)
      BY <1>1 DEF Engaged, HasSession, Key, Turn
    <2>2. QED
      BY <1>1, <2>1 DEF SessionFate, Kept
  <1>2. \A j \in SessionKeys : SessionFate(j)
    BY <1>1
  <1>3. \A g \in Handlers : HandlerFate(g)
    BY DEF HandlerFate, Turn
  <1>4. Spread'
    BY SpreadTurn DEF CountInv
  <1>5. QED
    BY <1>2, <1>3, <1>4, CountStep

LEMMA CountOpen ==
  ASSUME IsFiniteSet(Loops), IInv, CountInv, NEW h \in Handlers, ReviseOpen(h)
  PROVE  CountInv'
  <1>1. UNCHANGED suggestions /\ Turn(h) /\ run'[h].pc \notin HasSession
    BY OpenEffect
  <1>2. CASE UNCHANGED session
    <2>1. Spread'
      BY <1>1, SpreadTurn DEF CountInv
    <2>2. QED
      BY <1>1, <1>2, <2>1, CountQuiet DEF Turn, RoundsOf
  <1>3. CASE session' # session
    <2>1. PICK k \in SessionKeys :
            /\ session[k] = NoSession /\ session'[k].status = "pending"
            /\ \A j \in SessionKeys \ {k} : session'[j] = session[j]
      BY <1>3, OpenEffect
    <2>2. \A j \in SessionKeys : RoundsOf(j)' = RoundsOf(j)
      BY <1>1 DEF RoundsOf
    <2>3. SessionFate(k)
      BY <2>1, <2>2 DEF SessionFate, Open
    <2>4. HandlerFate(h)
      BY <1>1 DEF HandlerFate, HasSession, Working
    <2>5. QED
      BY <1>1, <2>1, <2>2, <2>3, <2>4, CountTurn
  <1>4. QED
    BY <1>2, <1>3

LEMMA CountSelect ==
  ASSUME IsFiniteSet(Loops), IInv, CountInv, NEW h \in Handlers, TextSelect(h)
  PROVE  CountInv'
  <1>1. UNCHANGED <<session, suggestions>> /\ Turn(h)
    BY SelectEffect
  <1>2. \A j \in SessionKeys : RoundsOf(j)' = RoundsOf(j)
    BY <1>1 DEF RoundsOf
  <1>3. CASE run'[h].pc \notin HasSession
    <2>1. Spread'
      BY <1>1, SpreadTurn DEF CountInv
    <2>2. QED
      BY <1>1, <1>2, <1>3, <2>1, CountQuiet DEF Turn
  <1>4. CASE run'[h].pc \in HasSession
    <2>1. PICK k \in SessionKeys :
            /\ session[k] # NoSession /\ session[k].status = "pending"
            /\ run'[h].pc = "attaching" /\ Key(h)' = k
      BY <1>4, SelectEffect
    <2>2. SessionFate(k)
      BY <1>1, <1>2, <2>1 DEF SessionFate, Open
    <2>3. HandlerFate(h)
      BY <2>1 DEF HandlerFate, Working
    <2>4. QED
      BY <1>1, <1>2, <2>1, <2>2, <2>3, CountTurn
  <1>5. QED
    BY <1>3, <1>4

LEMMA CountAttach ==
  ASSUME IsFiniteSet(Loops), IInv, CountInv, NEW h \in Handlers,
         TextAttach(h) \/ TextReread(h)
  PROVE  CountInv'
  <1>1. PICK k \in SessionKeys :
          /\ Stays(h, k) /\ UNCHANGED suggestions
          /\ run[h].pc \in {"attaching", "attached"}
          /\ run'[h].pc \in {"attached", "revising"}
          /\ ~Open(session'[k])
          /\ session'[k].status \in {"completed", "failed"} => session'[k] = session[k]
          /\ \A j \in SessionKeys \ {k} : session'[j] = session[j]
    <2>1. CASE TextAttach(h)
      BY <2>1, AttachEffect DEF Open
    <2>2. CASE TextReread(h)
      <3>1. PICK k \in SessionKeys :
              /\ Stays(h, k) /\ UNCHANGED <<session, suggestions>>
              /\ run[h].pc = "attached" /\ run'[h].pc = "revising"
        BY <2>2, RereadEffect
      <3>2. ~Open(session[k])
        BY <3>1 DEF CountInv, WorkOK, Working, Stays
      <3>3. QED
        BY <3>1, <3>2 DEF Open
    <2>3. QED
      BY <2>1, <2>2
  <1>2. \A j \in SessionKeys : RoundsOf(j)' = RoundsOf(j)
    BY <1>1 DEF RoundsOf
  <1>3. Engaged(k)' \subseteq Engaged(k)
    BY <1>1 DEF Engaged, Stays, Turn, Key
  <1>4. SessionFate(k)
    BY <1>1, <1>2, <1>3 DEF SessionFate, Kept
  <1>5. HandlerFate(h)
    BY <1>1 DEF HandlerFate, Stays
  <1>6. QED
    BY <1>1, <1>2, <1>4, <1>5, CountTurn DEF Stays

LEMMA CountRegenerate ==
  ASSUME IsFiniteSet(Loops), IInv, CountInv, NEW h \in Handlers,
         Regenerate(h) \/ RegenerateFails(h)
  PROVE  CountInv'
  <1>1. PICK k \in SessionKeys :
          /\ Stays(h, k) /\ UNCHANGED session
          /\ run[h].pc = "revising"
          /\ \/ run'[h].pc = "failing" /\ UNCHANGED suggestions
             \/ /\ run'[h].pc = "saved"
                /\ \E s : /\ suggestions' = suggestions \cup {s}
                          /\ s.batch = k[1] /\ s.original = k[2]
    BY RegenerateEffect
  <1>2. ~Open(session'[k])
    BY <1>1 DEF CountInv, WorkOK, Working, Stays
  <1>3. CASE run'[h].pc = "failing"
    <2>1. \A j \in SessionKeys : RoundsOf(j)' = RoundsOf(j)
      BY <1>1, <1>3 DEF RoundsOf
    <2>2. Engaged(k)' \subseteq Engaged(k)
      BY <1>1, <1>3 DEF Engaged, Stays, Turn, Key
    <2>3. SessionFate(k)
      BY <1>1, <1>2, <2>1, <2>2 DEF SessionFate, Kept
    <2>4. HandlerFate(h)
      BY <1>1, <1>2, <1>3 DEF HandlerFate, Stays
    <2>5. QED
      BY <1>1, <2>1, <2>3, <2>4, CountTurn DEF Stays
  <1>4. CASE run'[h].pc = "saved"
    <2>1. PICK s : /\ suggestions' = suggestions \cup {s}
                   /\ s.batch = k[1] /\ s.original = k[2]
      BY <1>1, <1>4
    <2>2. RoundsOf(k)' = RoundsOf(k) \cup {s}
      BY <2>1 DEF RoundsOf
    <2>3. ASSUME NEW j \in SessionKeys \ {k}
          PROVE  RoundsOf(j)' = RoundsOf(j)
      <3>1. j[1] # k[1] \/ j[2] # k[2]
        BY DEF SessionKeys
      <3>2. QED
        BY <2>1, <3>1 DEF RoundsOf
    <2>4. h \in Engaged(k) /\ Engaged(k)' \subseteq Engaged(k) \ {h}
      BY <1>1, <1>4 DEF Engaged, Stays, Turn, Key
    <2>5. SessionFate(k)
      BY <1>1, <1>2, <2>2, <2>4 DEF SessionFate, Turned
    <2>6. HandlerFate(h)
      BY <1>1, <1>2, <2>2 DEF HandlerFate, Stays
    <2>7. QED
      BY <1>1, <2>3, <2>5, <2>6, CountTurn DEF Stays
  <1>5. QED
    BY <1>1, <1>3, <1>4

LEMMA CountSettle ==
  ASSUME IsFiniteSet(Loops), IInv, CountInv, NEW h \in Handlers,
         CompleteSession(h) \/ FailSession(h)
  PROVE  CountInv'
  <1>1. PICK k \in SessionKeys :
          /\ Turn(h) /\ UNCHANGED suggestions /\ k = Key(h)
          /\ run'[h].pc \notin HasSession
          /\ session'[k] \in Session
          /\ session'[k].status \in {"completed", "failed"}
          /\ session'[k].status = "completed" => run[h].pc = "saved"
          /\ session'[k].status = "failed" => run[h].pc = "failing"
          /\ \A j \in SessionKeys \ {k} : session'[j] = session[j]
    BY SettleEffect
  <1>2. \A j \in SessionKeys : RoundsOf(j)' = RoundsOf(j)
    BY <1>1 DEF RoundsOf
  <1>3. Engaged(k)' \subseteq Engaged(k)
    BY <1>1 DEF Engaged, Turn, Key, HasSession
  <1>4. ~Open(session'[k])
    BY <1>1 DEF Open
  <1>5. run[h].pc = "saved" => RoundsOf(k) # {}
    BY <1>1 DEF CountInv, WorkOK
  <1>6. run[h].pc = "failing" => h \in Engaged(k) /\ h \notin Engaged(k)'
    BY <1>1 DEF Engaged, HasSession
  <1>7. SessionFate(k)
    BY <1>1, <1>2, <1>3, <1>4, <1>5, <1>6 DEF SessionFate, Kept
  <1>8. HandlerFate(h)
    BY <1>1 DEF HandlerFate, HasSession, Working
  <1>9. QED
    BY <1>1, <1>2, <1>7, <1>8, CountTurn

LEMMA CountScanCrash ==
  ASSUME IsFiniteSet(Loops), IInv, CountInv, NEW i \in Instances,
         \/ ScanSave(i) \/ Crash(i)
         \/ \E b \in Batches : ScanGenerate(i, b)
  PROVE  CountInv'
  <1>1. /\ UNCHANGED session
        /\ \A g \in Handlers : run'[g] = run[g] \/ run'[g].pc = "idle"
        /\ \/ UNCHANGED suggestions
           \/ \E new : suggestions' = suggestions \cup {new} /\ new.original = 0
    BY ScanCrashEffect
  <1>2. ASSUME NEW k \in SessionKeys
        PROVE  RoundsOf(k)' = RoundsOf(k)
    <2>1. k[2] # 0
      BY DEF SessionKeys, Times
    <2>2. QED
      BY <1>1, <2>1 DEF RoundsOf
  <1>3. Spread'
    BY <1>1, SpreadLeave DEF CountInv
  <1>4. QED
    BY <1>1, <1>2, <1>3, CountQuiet DEF HasSession

LEMMA CountInvStep ==
  ASSUME IsFiniteSet(Loops)
  PROVE  IInv /\ CountInv /\ [Next]_vars => CountInv'
  <1> SUFFICES ASSUME IInv, CountInv, [Next]_vars
               PROVE  CountInv'
    OBVIOUS
  <1>1. ASSUME NEW h \in Handlers,
               \/ \E e \in Events : Deliver(h, e)
               \/ Answer(h) \/ Release(h) \/ DbError(h)
               \/ Snooze(h) \/ SnoozeUnknown(h) \/ ReviseRead(h)
        PROVE  CountInv'
    <2>1. UNCHANGED <<session, suggestions>> /\ Turn(h) /\ run'[h].pc \notin HasSession
      BY <1>1, QuietEffect
    <2>2. Spread'
      BY <2>1, SpreadTurn DEF CountInv
    <2>3. QED
      BY <2>1, <2>2, CountQuiet DEF Turn, RoundsOf
  <1>2. ASSUME NEW h \in Handlers,
               Handle(h) \/ DbError(h) \/ \E e \in Events : Deliver(h, e)
        PROVE  CountInv'
    BY <1>1, <1>2, CountOpen, CountSelect, CountAttach, CountRegenerate, CountSettle
       DEF Handle
  <1>3. CASE UNCHANGED vars
    <2>1. UNCHANGED <<run, session, suggestions>>
      BY <1>3 DEF vars, tables
    <2>2. Spread'
      BY <2>1 DEF CountInv, Spread
    <2>3. QED
      BY <2>1, <2>2, CountQuiet DEF RoundsOf
  <1>4. QED
    BY <1>2, <1>3, CountScanCrash DEF Next

LEMMA CountInvariance ==
  ASSUME IsFiniteSet(Loops)
  PROVE  Spec => [](IInv /\ CountInv)
  <1>1. Init => IInv /\ CountInv
    BY IInvInit, CountInit
  <1>2. IInv /\ CountInv /\ [Next]_vars => (IInv /\ CountInv)'
    BY IInvStep, CountInvStep
  <1>3. QED
    BY <1>1, <1>2, PTL DEF Spec

(***************************************************************************)
(* Whose text a revision uses                                              *)
(***************************************************************************)

\* What a handler r may rely on, of the session s in its hand.
OwnHand(r, s) ==
  /\ s.operator = OperatorOf[r.event]
  /\ r.pc = "attached" => s.text # NoEvent
  /\ r.pc = "revising" => r.text # NoEvent /\ OperatorOf[r.text] = OperatorOf[r.event]

OwnText(s) == s # NoSession /\ s.text # NoEvent => OperatorOf[s.text] = s.operator

OperatorInv ==
  /\ \A h \in Handlers : run[h].pc \in HasSession => OwnHand(run[h], session[Key(h)])
  /\ \A k \in SessionKeys : OwnText(session[k])
  /\ OperatorsOwnText

LEMMA OperatorInit == Init => OperatorInv
  <1> SUFFICES ASSUME Init
               PROVE  OperatorInv
    OBVIOUS
  <1>1. \A h \in Handlers : run[h].pc = "idle"
    BY IdleType DEF Init
  <1>2. suggestions = {} /\ \A k \in SessionKeys : session[k] = NoSession
    BY DEF Init, SessionKeys
  <1>3. QED
    BY <1>1, <1>2 DEF OperatorInv, OwnText, OperatorsOwnText, HasSession

\* A session keeps its operator and, of a handler past the update, a text.
Grows(s, t) ==
  \/ t = s
  \/ t.operator = s.operator /\ (s.text # NoEvent => t.text # NoEvent)

LEMMA OperatorStep ==
  ASSUME IInv, OperatorInv,
         \A k \in SessionKeys :
           /\ session[k] # NoSession => Grows(session[k], session'[k])
           /\ OwnText(session'[k]),
         \A g \in Handlers :
           \/ run'[g] = run[g]
           \/ run'[g].pc \notin HasSession
           \/ \E k \in SessionKeys : Key(g)' = k /\ OwnHand(run'[g], session'[k]),
         OperatorsOwnText'
  PROVE  OperatorInv'
  <1>1. ASSUME NEW g \in Handlers, run'[g].pc \in HasSession
        PROVE  OwnHand(run[g], session[Key(g)])'
    <2>1. CASE run'[g] = run[g]
      <3>1. PICK k \in SessionKeys : k = Key(g) /\ session[k] # NoSession
        BY <1>1, <2>1, KeysInHand DEF IInv, TypeInv, InHand
      <3>2. k = Key(g)'
        BY <2>1, <3>1 DEF Key
      <3>3. OwnHand(run[g], session[k])
        BY <1>1, <2>1, <3>1 DEF OperatorInv
      <3>4. OwnHand(run[g], session'[k])
        BY <3>1, <3>3 DEF OwnHand, Grows
      <3>5. QED
        BY <2>1, <3>2, <3>4 DEF OwnHand
    <2>2. CASE run'[g] # run[g]
      BY <1>1, <2>2 DEF OwnHand
    <2>3. QED
      BY <2>1, <2>2
  <1>2. QED
    BY <1>1 DEF OperatorInv, OwnText

\* The session k changes hands or contents, the others keep theirs.
LEMMA OperatorTurn ==
  ASSUME IInv, OperatorInv, NEW h \in Handlers, NEW k \in SessionKeys, Turn(h),
         \A j \in SessionKeys \ {k} : session'[j] = session[j],
         session[k] # NoSession => Grows(session[k], session'[k]),
         OwnText(session'[k]),
         run'[h].pc \in HasSession => Key(h)' = k /\ OwnHand(run'[h], session'[k]),
         OperatorsOwnText'
  PROVE  OperatorInv'
  <1>1. \A j \in SessionKeys :
           /\ session[j] # NoSession => Grows(session[j], session'[j])
           /\ OwnText(session'[j])
    BY DEF Grows, OperatorInv
  <1>2. \A g \in Handlers :
           \/ run'[g] = run[g]
           \/ run'[g].pc \notin HasSession
           \/ \E j \in SessionKeys : Key(g)' = j /\ OwnHand(run'[g], session'[j])
    BY DEF Turn
  <1>3. QED
    BY <1>1, <1>2, OperatorStep

LEMMA OperatorQuiet ==
  ASSUME IInv, OperatorInv, UNCHANGED session, OperatorsOwnText',
         \A g \in Handlers : run'[g] = run[g] \/ run'[g].pc \notin HasSession
  PROVE  OperatorInv'
  <1>1. \A j \in SessionKeys :
           /\ session[j] # NoSession => Grows(session[j], session'[j])
           /\ OwnText(session'[j])
    BY DEF Grows, OperatorInv
  <1>2. QED
    BY <1>1, OperatorStep

LEMMA OperatorHandle ==
  ASSUME IInv, OperatorInv, NEW h \in Handlers,
         \/ ReviseOpen(h) \/ TextSelect(h) \/ TextAttach(h) \/ TextReread(h)
         \/ Regenerate(h) \/ RegenerateFails(h)
         \/ CompleteSession(h) \/ FailSession(h)
  PROVE  OperatorInv'
  <1>1. \A k \in SessionKeys : OwnText(session[k])
    BY DEF OperatorInv
  <1>2. UNCHANGED suggestions => OperatorsOwnText'
    BY DEF OperatorInv, OperatorsOwnText
  <1>3. CASE ReviseOpen(h)
    <2>1. UNCHANGED suggestions /\ Turn(h) /\ run'[h].pc \notin HasSession
      BY <1>3, OpenEffect
    <2>2. CASE UNCHANGED session
      BY <1>2, <2>1, <2>2, OperatorQuiet DEF Turn
    <2>3. CASE session' # session
      <3>1. PICK k \in SessionKeys :
              /\ session[k] = NoSession /\ session'[k].text = NoEvent
              /\ \A j \in SessionKeys \ {k} : session'[j] = session[j]
        BY <1>3, <2>3, OpenEffect
      <3>2. OwnText(session'[k])
        BY <3>1 DEF OwnText
      <3>3. QED
        BY <1>2, <2>1, <3>1, <3>2, OperatorTurn
    <2>4. QED
      BY <2>2, <2>3
  <1>4. CASE TextSelect(h)
    <2>1. UNCHANGED <<session, suggestions>> /\ Turn(h)
      BY <1>4, SelectEffect
    <2>2. CASE run'[h].pc \notin HasSession
      BY <1>2, <2>1, <2>2, OperatorQuiet DEF Turn
    <2>3. CASE run'[h].pc \in HasSession
      <3>1. PICK k \in SessionKeys :
              /\ session[k].operator = OperatorOf[run[h].event]
              /\ run'[h].pc = "attaching" /\ run'[h].event = run[h].event
              /\ Key(h)' = k
        BY <1>4, <2>3, SelectEffect
      <3>2. OwnHand(run'[h], session'[k])
        BY <2>1, <3>1 DEF OwnHand
      <3>3. QED
        BY <1>1, <1>2, <2>1, <3>1, <3>2, OperatorTurn DEF Grows
    <2>4. QED
      BY <2>2, <2>3
  <1>5. CASE TextAttach(h)
    <2>1. PICK k \in SessionKeys :
            /\ Stays(h, k) /\ UNCHANGED suggestions
            /\ run[h].pc = "attaching" /\ run'[h].pc = "attached"
            /\ session'[k].operator = session[k].operator
            /\ session'[k].text = run[h].event /\ run[h].event \in Events
            /\ \A j \in SessionKeys \ {k} : session'[j] = session[j]
      BY <1>5, AttachEffect
    <2>2. session[k].operator = OperatorOf[run[h].event]
      BY <2>1 DEF OperatorInv, OwnHand, HasSession, Stays
    <2>3. OwnText(session'[k]) /\ OwnHand(run'[h], session'[k])
      BY <2>1, <2>2 DEF OwnText, OwnHand, Stays
    <2>4. Grows(session[k], session'[k])
      BY <2>1 DEF Grows
    <2>5. QED
      BY <1>2, <2>1, <2>3, <2>4, OperatorTurn DEF Stays
  <1>6. CASE TextReread(h)
    <2>1. PICK k \in SessionKeys :
            /\ Stays(h, k) /\ UNCHANGED <<session, suggestions>>
            /\ run[h].pc = "attached" /\ run'[h].pc = "revising"
            /\ session[k] \in Session /\ run'[h].text = session[k].text
      BY <1>6, RereadEffect
    <2>2. OwnHand(run[h], session[k])
      BY <2>1 DEF OperatorInv, HasSession, Stays
    <2>3. OwnHand(run'[h], session'[k])
      BY <1>1, <2>1, <2>2 DEF OwnHand, OwnText, Stays
    <2>4. QED
      BY <1>1, <1>2, <2>1, <2>3, OperatorTurn DEF Stays, Grows
  <1>7. CASE Regenerate(h) \/ RegenerateFails(h)
    <2>1. PICK k \in SessionKeys :
            /\ Stays(h, k) /\ UNCHANGED session
            /\ run[h].pc = "revising" /\ run'[h].pc \in {"failing", "saved"}
            /\ \/ UNCHANGED suggestions
               \/ \E s : /\ suggestions' = suggestions \cup {s}
                         /\ s.by = run[h].event /\ s.feedback = run[h].text
      BY <1>7, RegenerateEffect
    <2>2. OwnHand(run[h], session[k])
      BY <2>1 DEF OperatorInv, HasSession, Stays
    <2>3. OwnHand(run'[h], session'[k])
      BY <2>1, <2>2 DEF OwnHand, Stays
    <2>4. OperatorsOwnText'
      BY <1>2, <2>1, <2>2 DEF OperatorInv, OperatorsOwnText, OwnHand
    <2>5. QED
      BY <1>1, <2>1, <2>3, <2>4, OperatorTurn DEF Stays, Grows
  <1>8. CASE CompleteSession(h) \/ FailSession(h)
    <2>1. PICK k \in SessionKeys :
            /\ Turn(h) /\ UNCHANGED suggestions
            /\ run'[h].pc \notin HasSession
            /\ session[k] \in Session
            /\ session'[k].operator = session[k].operator
            /\ session'[k].text = session[k].text
            /\ \A j \in SessionKeys \ {k} : session'[j] = session[j]
      BY <1>8, SettleEffect
    <2>2. OwnText(session'[k]) /\ Grows(session[k], session'[k])
      BY <1>1, <2>1 DEF OwnText, Grows
    <2>3. QED
      BY <1>2, <2>1, <2>2, OperatorTurn
  <1>9. QED
    BY <1>3, <1>4, <1>5, <1>6, <1>7, <1>8

LEMMA OperatorInvStep == IInv /\ OperatorInv /\ [Next]_vars => OperatorInv'
  <1> SUFFICES ASSUME IInv, OperatorInv, [Next]_vars
               PROVE  OperatorInv'
    OBVIOUS
  <1>1. ASSUME NEW h \in Handlers,
               \/ \E e \in Events : Deliver(h, e)
               \/ Answer(h) \/ Release(h) \/ DbError(h)
               \/ Snooze(h) \/ SnoozeUnknown(h) \/ ReviseRead(h)
        PROVE  OperatorInv'
    <2>1. UNCHANGED <<session, suggestions>> /\ Turn(h) /\ run'[h].pc \notin HasSession
      BY <1>1, QuietEffect
    <2>2. OperatorsOwnText'
      BY <2>1 DEF OperatorInv, OperatorsOwnText
    <2>3. QED
      BY <2>1, <2>2, OperatorQuiet DEF Turn
  <1>2. ASSUME NEW h \in Handlers,
               Handle(h) \/ DbError(h) \/ \E e \in Events : Deliver(h, e)
        PROVE  OperatorInv'
    BY <1>1, <1>2, OperatorHandle DEF Handle
  <1>3. ASSUME NEW i \in Instances,
               \/ ScanSave(i) \/ Crash(i)
               \/ \E b \in Batches : ScanGenerate(i, b)
        PROVE  OperatorInv'
    <2>1. /\ UNCHANGED session
          /\ \A g \in Handlers : run'[g] = run[g] \/ run'[g].pc = "idle"
          /\ \/ UNCHANGED suggestions
             \/ \E new : suggestions' = suggestions \cup {new} /\ new.by = NoEvent
      BY <1>3, ScanCrashEffect
    <2>2. OperatorsOwnText'
      BY <2>1 DEF OperatorInv, OperatorsOwnText
    <2>3. QED
      BY <2>1, <2>2, OperatorQuiet DEF HasSession
  <1>4. CASE UNCHANGED vars
    <2>1. UNCHANGED <<run, session, suggestions>>
      BY <1>4 DEF vars, tables
    <2>2. OperatorsOwnText'
      BY <2>1 DEF OperatorInv, OperatorsOwnText
    <2>3. QED
      BY <2>1, <2>2, OperatorQuiet
  <1>5. QED
    BY <1>2, <1>3, <1>4 DEF Next

(***************************************************************************)
(* One instance: its event loop runs one handler between two awaits.       *)
(***************************************************************************)

\* One instance: its event loop runs one handler between two awaits.
Solo == \A g, h \in Handlers : InstanceOf[g] = InstanceOf[h]

\* The text in a handler's hand is its event's.
HandText(r, s) ==
  /\ r.pc = "attached" => s.text = r.event
  /\ r.pc = "revising" => r.text = r.event

TextInv ==
  /\ \A h \in Handlers : run[h].pc \in HasSession => HandText(run[h], session[Key(h)])
  /\ OwnFeedback

LEMMA SoloLoops ==
  ASSUME Solo
  PROVE  IsFiniteSet(Loops) /\ Cardinality(Loops) <= 1
  <1>1. CASE Handlers = {}
    <2>1. Loops = {}
      BY <1>1 DEF Loops
    <2>2. QED
      BY <2>1, FS_EmptySet
  <1>2. CASE Handlers # {}
    <2>1. PICK h \in Handlers : TRUE
      BY <1>2
    <2>2. Loops = {InstanceOf[h]}
      BY <2>1 DEF Solo, Loops
    <2>3. QED
      BY <2>2, FS_Singleton, 1 <= 1
  <1>3. QED
    BY <1>1, <1>2

LEMMA TextInit == Init => TextInv
  <1> SUFFICES ASSUME Init
               PROVE  TextInv
    OBVIOUS
  <1>1. \A h \in Handlers : run[h].pc = "idle"
    BY IdleType DEF Init
  <1>2. suggestions = {}
    BY DEF Init
  <1>3. QED
    BY <1>1, <1>2 DEF TextInv, OwnFeedback, HasSession

\* Handlers whose session keeps its text, and the one that moves.
LEMMA TextStep ==
  ASSUME IInv, TextInv, OwnFeedback',
         \A g \in Handlers :
           \/ run'[g] = run[g]
              /\ (run[g].pc = "attached" =>
                    \A k \in SessionKeys : k = Key(g) => session'[k].text = session[k].text)
           \/ run'[g].pc \notin HasSession
           \/ \E k \in SessionKeys : Key(g)' = k /\ HandText(run'[g], session'[k])
  PROVE  TextInv'
  <1>1. ASSUME NEW g \in Handlers, run'[g].pc \in HasSession
        PROVE  HandText(run[g], session[Key(g)])'
    <2>1. CASE \E k \in SessionKeys : Key(g)' = k /\ HandText(run'[g], session'[k])
      BY <2>1 DEF HandText
    <2>2. CASE run'[g] = run[g]
              /\ (run[g].pc = "attached" =>
                    \A k \in SessionKeys : k = Key(g) => session'[k].text = session[k].text)
      <3>1. PICK k \in SessionKeys : k = Key(g)
        BY <1>1, <2>2, KeysInHand
      <3>2. k = Key(g)'
        BY <2>2, <3>1 DEF Key
      <3>3. HandText(run[g], session[k])
        BY <1>1, <2>2, <3>1 DEF TextInv
      <3>4. HandText(run[g], session'[k])
        BY <2>2, <3>1, <3>3 DEF HandText
      <3>5. QED
        BY <2>2, <3>2, <3>4 DEF HandText
    <2>3. QED
      BY <1>1, <2>1, <2>2
  <1>2. QED
    BY <1>1 DEF TextInv

LEMMA TextHandle ==
  ASSUME Solo, IInv, CountInv, TextInv, NEW h \in Handlers,
         \/ ReviseOpen(h) \/ TextSelect(h) \/ TextAttach(h) \/ TextReread(h)
         \/ Regenerate(h) \/ RegenerateFails(h)
         \/ CompleteSession(h) \/ FailSession(h)
  PROVE  TextInv'
  <1>1. UNCHANGED suggestions => OwnFeedback'
    BY DEF TextInv, OwnFeedback
  <1>2. CASE ReviseOpen(h)
    <2>1. /\ UNCHANGED suggestions /\ Turn(h) /\ run'[h].pc \notin HasSession
          /\ \A j \in SessionKeys : session[j] # NoSession => session'[j] = session[j]
      BY <1>2, OpenEffect
    <2>2. \A g \in Handlers : run[g].pc = "attached" => session[Key(g)] # NoSession
      BY DEF IInv, TypeInv, InHand, HasSession
    <2>3. QED
      BY <1>1, <2>1, <2>2, TextStep DEF Turn
  <1>3. CASE TextSelect(h)
    <2>1. /\ UNCHANGED <<session, suggestions>> /\ Turn(h)
          /\ \/ run'[h].pc \notin HasSession
             \/ \E k \in SessionKeys : run'[h].pc = "attaching" /\ Key(h)' = k
      BY <1>3, SelectEffect
    <2>2. \/ run'[h].pc \notin HasSession
          \/ \E k \in SessionKeys : Key(h)' = k /\ HandText(run'[h], session'[k])
      BY <2>1 DEF HandText
    <2>3. QED
      BY <1>1, <2>1, <2>2, TextStep DEF Turn
  <1>4. CASE TextAttach(h)
    <2>1. PICK k \in SessionKeys :
            /\ Stays(h, k) /\ UNCHANGED suggestions
            /\ run[h].pc = "attaching" /\ run'[h].pc = "attached"
            /\ session'[k].text = run[h].event
            /\ \A j \in SessionKeys \ {k} : session'[j] = session[j]
      BY <1>4, AttachEffect
    <2>2. HandText(run'[h], session'[k])
      BY <2>1 DEF HandText, Stays
    <2>3. ASSUME NEW g \in Handlers \ {h}, run[g].pc = "attached"
          PROVE  Key(g) # k
      <3>1. h \in Engaged(k)
        BY <2>1 DEF Engaged, Stays
      <3>2. Engaged(k) = {h}
        BY <3>1, SoloLoops, OneHand
      <3>3. QED
        BY <2>3, <3>2 DEF Engaged
    <2>4. QED
      BY <1>1, <2>1, <2>2, <2>3, TextStep DEF Stays, Turn
  <1>5. CASE TextReread(h)
    <2>1. PICK k \in SessionKeys :
            /\ Stays(h, k) /\ UNCHANGED <<session, suggestions>>
            /\ run[h].pc = "attached" /\ run'[h].pc = "revising"
            /\ run'[h].text = session[k].text
      BY <1>5, RereadEffect
    <2>2. HandText(run[h], session[k])
      BY <2>1 DEF TextInv, HasSession, Stays
    <2>3. HandText(run'[h], session'[k])
      BY <2>1, <2>2 DEF HandText, Stays
    <2>4. QED
      BY <1>1, <2>1, <2>3, TextStep DEF Stays, Turn
  <1>6. CASE Regenerate(h) \/ RegenerateFails(h)
    <2>1. PICK k \in SessionKeys :
            /\ Stays(h, k) /\ UNCHANGED session
            /\ run[h].pc = "revising" /\ run'[h].pc \in {"failing", "saved"}
            /\ \/ UNCHANGED suggestions
               \/ \E s : /\ suggestions' = suggestions \cup {s}
                         /\ s.by = run[h].event /\ s.feedback = run[h].text
      BY <1>6, RegenerateEffect
    <2>2. HandText(run[h], session[k])
      BY <2>1 DEF TextInv, HasSession, Stays
    <2>3. HandText(run'[h], session'[k])
      BY <2>1 DEF HandText
    <2>4. OwnFeedback'
      BY <1>1, <2>1, <2>2 DEF TextInv, OwnFeedback, HandText
    <2>5. QED
      BY <2>1, <2>3, <2>4, TextStep DEF Stays, Turn
  <1>7. CASE CompleteSession(h) \/ FailSession(h)
    <2>1. PICK k \in SessionKeys :
            /\ Turn(h) /\ UNCHANGED suggestions
            /\ run'[h].pc \notin HasSession
            /\ session'[k].text = session[k].text
            /\ \A j \in SessionKeys \ {k} : session'[j] = session[j]
      BY <1>7, SettleEffect
    <2>2. \A j \in SessionKeys : session'[j].text = session[j].text
      BY <2>1
    <2>3. QED
      BY <1>1, <2>1, <2>2, TextStep DEF Turn
  <1>8. QED
    BY <1>2, <1>3, <1>4, <1>5, <1>6, <1>7

LEMMA TextInvStep ==
  ASSUME Solo
  PROVE  IInv /\ CountInv /\ TextInv /\ [Next]_vars => TextInv'
  <1> SUFFICES ASSUME IInv, CountInv, TextInv, [Next]_vars
               PROVE  TextInv'
    OBVIOUS
  <1>0. ASSUME UNCHANGED session, OwnFeedback',
               \A g \in Handlers : run'[g] = run[g] \/ run'[g].pc \notin HasSession
        PROVE  TextInv'
    BY <1>0, TextStep
  <1>1. ASSUME NEW h \in Handlers,
               \/ \E e \in Events : Deliver(h, e)
               \/ Answer(h) \/ Release(h) \/ DbError(h)
               \/ Snooze(h) \/ SnoozeUnknown(h) \/ ReviseRead(h)
        PROVE  TextInv'
    <2>1. UNCHANGED <<session, suggestions>> /\ Turn(h) /\ run'[h].pc \notin HasSession
      BY <1>1, QuietEffect
    <2>2. OwnFeedback'
      BY <2>1 DEF TextInv, OwnFeedback
    <2>3. QED
      BY <1>0, <2>1, <2>2 DEF Turn
  <1>2. ASSUME NEW h \in Handlers,
               Handle(h) \/ DbError(h) \/ \E e \in Events : Deliver(h, e)
        PROVE  TextInv'
    BY <1>1, <1>2, TextHandle DEF Handle
  <1>3. ASSUME NEW i \in Instances,
               \/ ScanSave(i) \/ Crash(i)
               \/ \E b \in Batches : ScanGenerate(i, b)
        PROVE  TextInv'
    <2>1. /\ UNCHANGED session
          /\ \A g \in Handlers : run'[g] = run[g] \/ run'[g].pc = "idle"
          /\ \/ UNCHANGED suggestions
             \/ \E new : /\ suggestions' = suggestions \cup {new}
                         /\ new.by = NoEvent /\ new.feedback = NoEvent
      BY <1>3, ScanCrashEffect
    <2>2. OwnFeedback'
      BY <2>1 DEF TextInv, OwnFeedback
    <2>3. QED
      BY <1>0, <2>1, <2>2 DEF HasSession
  <1>4. CASE UNCHANGED vars
    <2>1. UNCHANGED <<run, session, suggestions>>
      BY <1>4 DEF vars, tables
    <2>2. OwnFeedback'
      BY <2>1 DEF TextInv, OwnFeedback
    <2>3. QED
      BY <1>0, <2>1, <2>2
  <1>5. QED
    BY <1>2, <1>3, <1>4 DEF Next

LEMMA TextInvariance ==
  ASSUME Solo
  PROVE  Spec => [](IInv /\ CountInv /\ TextInv)
  <1>1. Init => IInv /\ CountInv /\ TextInv
    BY IInvInit, CountInit, TextInit
  <1>2. IInv /\ CountInv /\ TextInv /\ [Next]_vars => (IInv /\ CountInv /\ TextInv)'
    BY IInvStep, CountInvStep, TextInvStep, SoloLoops
  <1>3. QED
    BY <1>1, <1>2, PTL DEF Spec

(***************************************************************************)
(* Theorems                                                                *)
(***************************************************************************)

\* A set of one element at most.
LEMMA AtMostOne ==
  ASSUME NEW S, IsFiniteSet(S), Cardinality(S) <= 1, NEW x \in S, NEW y \in S
  PROVE  x = y
  <1>1. IsFiniteSet(S \ {x}) /\ Cardinality(S \ {x}) = Cardinality(S) - 1
    BY FS_RemoveElement
  <1>2. Cardinality(S) \in Nat /\ Cardinality(S \ {x}) \in Nat
    BY <1>1, FS_CardinalityType
  <1>3. Cardinality(S \ {x}) = 0
    BY <1>1, <1>2
  <1>4. S \ {x} = {}
    BY <1>1, <1>3, FS_EmptySet
  <1>5. QED
    BY <1>4

\* A revision is of a suggestion that has a session key.
LEMMA RevisedKey ==
  ASSUME IInv, NEW s \in suggestions, s.original # 0
  PROVE  \E k \in SessionKeys : k[1] = s.batch /\ k[2] = s.original
  <1>1. s.batch \in Batches /\ s.original \in 0..MaxTime
    BY DEF IInv, TypeInv, TypeOK, Suggestion
  <1>2. s.original \in Times
    BY <1>1 DEF Times
  <1>3. <<s.batch, s.original>> \in SessionKeys
    BY <1>1, <1>2 DEF SessionKeys
  <1>4. QED
    BY <1>3

\* On any number of instances a suggestion is regenerated once per instance at
\* most, whatever is delivered again, raises or dies.
THEOREM RoundsTheorem ==
  ASSUME IsFiniteSet(Instances)
  PROVE  Spec => []RoundsPerInstance
  <1>1. IsFiniteSet(Loops) /\ Cardinality(Loops) <= Cardinality(Instances)
    <2>1. Loops \in SUBSET Instances
      BY DEF Loops
    <2>2. QED
      BY <2>1, FS_Subset
  <1>2. IInv /\ CountInv => RoundsPerInstance
    <2> SUFFICES ASSUME IInv, CountInv, NEW s \in suggestions, s.original # 0
                 PROVE  Cardinality({r \in suggestions : r.batch = s.batch
                                       /\ r.original = s.original})
                          <= Cardinality(Instances)
      BY DEF RoundsPerInstance
    <2>1. PICK k \in SessionKeys : k[1] = s.batch /\ k[2] = s.original
      BY RevisedKey
    <2>2. RoundsOf(k) = {r \in suggestions : r.batch = s.batch /\ r.original = s.original}
      BY <2>1 DEF RoundsOf
    <2>3. /\ IsFiniteSet(RoundsOf(k)) /\ IsFiniteSet(Engaged(k))
          /\ Cardinality(RoundsOf(k)) + Cardinality(Engaged(k)) <= Cardinality(Loops)
      BY <1>1, AllCounted DEF Counted
    <2>4. /\ Cardinality(RoundsOf(k)) \in Nat /\ Cardinality(Engaged(k)) \in Nat
          /\ Cardinality(Loops) \in Nat /\ Cardinality(Instances) \in Nat
      BY <1>1, <2>3, FS_CardinalityType
    <2>5. Cardinality(RoundsOf(k)) <= Cardinality(Instances)
      BY <1>1, <2>3, <2>4
    <2>6. QED
      BY <2>2, <2>5
  <1>3. QED
    BY <1>1, <1>2, CountInvariance, PTL

\* On any number of instances a completed session has its revision and one
\* that waits for its text has none.
THEOREM CompletedTheorem ==
  ASSUME IsFiniteSet(Instances)
  PROVE  Spec => []CompletedRevised
  <1>1. IsFiniteSet(Loops)
    <2>1. Loops \in SUBSET Instances
      BY DEF Loops
    <2>2. QED
      BY <2>1, FS_Subset
  <1>2. IInv /\ CountInv => CompletedRevised
    <2>1. IInv => DOMAIN session = SessionKeys
      BY DEF IInv, TypeInv, TypeOK, SessionKeys
    <2>2. QED
      BY <2>1 DEF CountInv, DoneOK, OpenOK, Open, RoundsOf, CompletedRevised
  <1>3. QED
    BY <1>1, <1>2, CountInvariance, PTL

\* On any number of instances a regeneration uses a text of the operator who
\* asked for it.
THEOREM OperatorTheorem == Spec => []OperatorsOwnText
  <1>1. Init => IInv /\ OperatorInv
    BY IInvInit, OperatorInit
  <1>2. IInv /\ OperatorInv /\ [Next]_vars => (IInv /\ OperatorInv)'
    BY IInvStep, OperatorInvStep
  <1>3. OperatorInv => OperatorsOwnText
    BY DEF OperatorInv
  <1>4. QED
    BY <1>1, <1>2, <1>3, PTL DEF Spec

\* In one instance a suggestion is regenerated once, whatever is delivered
\* again, raises or dies.
THEOREM RoundTheorem ==
  ASSUME Solo
  PROVE  Spec => []OneRoundPerSuggestion
  <1>1. IInv /\ CountInv /\ TextInv => OneRoundPerSuggestion
    <2> SUFFICES ASSUME IInv, CountInv, NEW r \in suggestions, NEW s \in suggestions,
                        r.original # 0, r.batch = s.batch, r.original = s.original
                 PROVE  r = s
      BY DEF OneRoundPerSuggestion
    <2>1. PICK k \in SessionKeys : k[1] = s.batch /\ k[2] = s.original
      BY RevisedKey
    <2>2. r \in RoundsOf(k) /\ s \in RoundsOf(k)
      BY <2>1 DEF RoundsOf
    <2>3. /\ IsFiniteSet(RoundsOf(k)) /\ IsFiniteSet(Engaged(k))
          /\ Cardinality(RoundsOf(k)) + Cardinality(Engaged(k)) <= Cardinality(Loops)
      BY SoloLoops, AllCounted DEF Counted
    <2>4. /\ Cardinality(RoundsOf(k)) \in Nat /\ Cardinality(Engaged(k)) \in Nat
          /\ Cardinality(Loops) \in Nat
      BY <2>3, SoloLoops, FS_CardinalityType
    <2>5. Cardinality(RoundsOf(k)) <= 1
      BY <2>3, <2>4, SoloLoops
    <2>6. QED
      BY <2>2, <2>3, <2>5, AtMostOne
  <1>2. QED
    BY <1>1, TextInvariance, PTL

\* In one instance a regeneration uses the text that asked for it.
THEOREM FeedbackTheorem ==
  ASSUME Solo
  PROVE  Spec => []OwnFeedback
  <1>1. TextInv => OwnFeedback
    BY DEF TextInv
  <1>2. QED
    BY <1>1, TextInvariance, PTL

\* In one instance a completed session has its revision, a failed or pending
\* one has none.
THEOREM SessionTheorem ==
  ASSUME Solo
  PROVE  Spec => []SessionsMatchRevisions
  <1>1. IInv /\ CountInv => SessionsMatchRevisions
    <2>1. IInv => DOMAIN session = SessionKeys
      BY DEF IInv, TypeInv, TypeOK, SessionKeys
    <2>2. QED
      BY <2>1, SoloLoops
         DEF CountInv, DoneOK, OpenOK, FailedOK, Open, RoundsOf, SessionsMatchRevisions
  <1>2. QED
    BY <1>1, TextInvariance, PTL
=============================================================================
