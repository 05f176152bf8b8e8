--------------------------- MODULE WebhookProofs ---------------------------
(***************************************************************************)
(* Theorems about Webhook for any events, operators, handlers, instances   *)
(* and bounds: what the idempotency record protects however requests,      *)
(* errors, crashes and redeliveries interleave.                            *)
(***************************************************************************)
EXTENDS Webhook, TLAPS

USE EventsAssumption, NullsAssumption, BoundsAssumption

(***************************************************************************)
(* Lemmas: what the steps do to a handler                                  *)
(***************************************************************************)

RunType == run \in [Handlers -> Handler]

\* Only handler h moves, from p, and keeps its event.
Moves(h, p) ==
  /\ RunType'
  /\ \A g \in Handlers \ {h} : run'[g] = run[g]
  /\ run'[h].pc = p /\ run'[h].event = run[h].event

LEMMA IdleType == Idle \in Handler /\ Idle.pc = "idle"
  <1>1. (CHOOSE b \in Batches : TRUE) \in Batches
    OBVIOUS
  <1>2. QED
    BY <1>1 DEF Idle, Start, Handler, Steps, Answers

LEMMA RunUpdate ==
  ASSUME RunType, NEW h \in Handlers, NEW new \in Handler,
         run' = [run EXCEPT ![h] = new]
  PROVE  /\ RunType' /\ run'[h] = new
         /\ \A g \in Handlers \ {h} : run'[g] = run[g]
  BY DEF RunType

LEMMA GotoEffect ==
  ASSUME RunType, NEW h \in Handlers, NEW p \in Steps, Goto(h, p)
  PROVE  /\ Moves(h, p)
         /\ run'[h].batch = run[h].batch /\ run'[h].at = run[h].at
  <1> DEFINE new == [run[h] EXCEPT !.pc = p]
  <1>1. /\ new \in Handler /\ new.pc = p /\ new.event = run[h].event
        /\ new.batch = run[h].batch /\ new.at = run[h].at
    BY DEF RunType, Handler
  <1>2. run' = [run EXCEPT ![h] = new]
    BY DEF RunType, Goto
  <1> HIDE DEF new
  <1>3. /\ RunType' /\ run'[h] = new
        /\ \A g \in Handlers \ {h} : run'[g] = run[g]
    BY <1>1, <1>2, RunUpdate
  <1>4. QED
    BY <1>1, <1>3 DEF Moves

LEMMA AnswerEffect ==
  ASSUME RunType, NEW h \in Handlers, NEW a \in Answers, AnswerWith(h, a)
  PROVE  Moves(h, "answering") /\ run'[h].answer = a
  <1> DEFINE new == [run[h] EXCEPT !.pc = "answering", !.answer = a]
  <1>1. /\ new \in Handler /\ new.pc = "answering"
        /\ new.event = run[h].event /\ new.answer = a
    BY DEF RunType, Handler, Steps
  <1>2. run' = [run EXCEPT ![h] = new]
    BY DEF RunType, Handler, AnswerWith
  <1> HIDE DEF new
  <1>3. /\ RunType' /\ run'[h] = new
        /\ \A g \in Handlers \ {h} : run'[g] = run[g]
    BY <1>1, <1>2, RunUpdate
  <1>4. QED
    BY <1>1, <1>3 DEF Moves

LEMMA FinishEffect ==
  ASSUME RunType, NEW h \in Handlers, Finish(h)
  PROVE  /\ RunType' /\ run'[h].pc = "idle"
         /\ \A g \in Handlers \ {h} : run'[g] = run[g]
  BY IdleType DEF RunType, Finish

LEMMA OpeningEffect ==
  ASSUME RunType, NEW h \in Handlers, NEW t \in Times,
         run' = [run EXCEPT ![h].pc = "opening", ![h].at = t]
  PROVE  /\ Moves(h, "opening")
         /\ run'[h].batch = run[h].batch /\ run'[h].at = t
  <1> DEFINE new == [run[h] EXCEPT !.pc = "opening", !.at = t]
  <1>1. t \in 0..MaxTime
    BY DEF Times
  <1>2. /\ new \in Handler /\ new.pc = "opening" /\ new.event = run[h].event
        /\ new.batch = run[h].batch /\ new.at = t
    BY <1>1 DEF RunType, Handler, Steps
  <1>3. run' = [run EXCEPT ![h] = new]
    BY DEF RunType, Handler
  <1> HIDE DEF new
  <1>4. /\ RunType' /\ run'[h] = new
        /\ \A g \in Handlers \ {h} : run'[g] = run[g]
    BY <1>2, <1>3, RunUpdate
  <1>5. QED
    BY <1>2, <1>4 DEF Moves

\* Handler h takes the session of batch b's suggestion of time t.
Takes(h, b, t) ==
  run' = [run EXCEPT ![h].pc = "attaching", ![h].batch = b, ![h].at = t]

LEMMA AttachingEffect ==
  ASSUME RunType, NEW h \in Handlers, NEW b \in Batches, NEW t \in Times,
         Takes(h, b, t)
  PROVE  /\ Moves(h, "attaching")
         /\ run'[h].batch = b /\ run'[h].at = t
  <1> DEFINE one == [run[h] EXCEPT !.pc = "attaching"]
             two == [one EXCEPT !.batch = b]
             new == [two EXCEPT !.at = t]
  <1>1. t \in 0..MaxTime
    BY DEF Times
  <1>2. one \in Handler /\ one.pc = "attaching" /\ one.event = run[h].event
    BY DEF RunType, Handler, Steps
  <1> HIDE DEF one
  <1>3. two \in Handler /\ two.pc = one.pc /\ two.event = one.event /\ two.batch = b
    BY <1>2 DEF Handler
  <1> HIDE DEF two
  <1>4. new \in Handler /\ new.pc = two.pc /\ new.event = two.event
        /\ new.batch = two.batch /\ new.at = t
    BY <1>1, <1>3 DEF Handler
  <1>5. run' = [run EXCEPT ![h] = new]
    BY DEF one, two, RunType, Takes
  <1> HIDE DEF new
  <1>6. /\ new \in Handler /\ new.pc = "attaching" /\ new.event = run[h].event
        /\ new.batch = b /\ new.at = t
    BY <1>2, <1>3, <1>4
  <1>7. /\ RunType' /\ run'[h] = new
        /\ \A g \in Handlers \ {h} : run'[g] = run[g]
    BY <1>5, <1>6, RunUpdate
  <1>8. QED
    BY <1>6, <1>7 DEF Moves

LEMMA RevisingEffect ==
  ASSUME RunType, NEW h \in Handlers, NEW x \in Events \cup {NoEvent},
         run' = [run EXCEPT ![h].pc = "revising", ![h].text = x]
  PROVE  /\ Moves(h, "revising")
         /\ run'[h].batch = run[h].batch /\ run'[h].at = run[h].at
  <1> DEFINE new == [run[h] EXCEPT !.pc = "revising", !.text = x]
  <1>1. /\ new \in Handler /\ new.pc = "revising" /\ new.event = run[h].event
        /\ new.batch = run[h].batch /\ new.at = run[h].at
    BY DEF RunType, Handler, Steps
  <1>2. run' = [run EXCEPT ![h] = new]
    BY DEF RunType, Handler
  <1> HIDE DEF new
  <1>3. /\ RunType' /\ run'[h] = new
        /\ \A g \in Handlers \ {h} : run'[g] = run[g]
    BY <1>1, <1>2, RunUpdate
  <1>4. QED
    BY <1>1, <1>3 DEF Moves

LEMMA ClaimedEffect ==
  ASSUME RunType, NEW h \in Handlers, NEW e \in Events, Claimed(h, e)
  PROVE  /\ RunType' /\ run'[h].pc = "claimed" /\ run'[h].event = e
         /\ \A g \in Handlers \ {h} : run'[g] = run[g]
  <1> DEFINE new == Start("claimed", e, BatchOf[e])
  <1>1. new \in Handler /\ new.pc = "claimed" /\ new.event = e
    BY DEF Start, Handler, Steps, Answers
  <1> HIDE DEF new
  <1>2. run' = [run EXCEPT ![h] = new]
    BY DEF Claimed, new
  <1>3. QED
    BY <1>1, <1>2 DEF RunType

(***************************************************************************)
(* The invariant.  InHand: a handler past its lookup holds the key of a    *)
(* session that exists.  Owner: whoever works on an event holds its claim. *)
(* DecidedOnce: once a decision is written its event is still claimed or   *)
(* answered, and nobody is left who could write it again.  Evidenced: what *)
(* a handler is about to answer has been done.                             *)
(***************************************************************************)

HasSession == {"attaching", "attached", "revising", "saved", "failing"}

InHand ==
  \A h \in Handlers :
    /\ run[h].pc = "opening" => run[h].at \in Times
    /\ run[h].pc \in HasSession => /\ run[h].at \in Times
                                   /\ session[Key(h)] # NoSession

Owner ==
  \A h \in Handlers :
    run[h].pc # "idle" => /\ run[h].event \in Events
                          /\ record[run[h].event] = "processing"

DecidedOnce ==
  \A e \in Events :
    /\ decisions[e] \in {0, 1}
    /\ decisions[e] = 1 =>
         /\ record[e] # "none"
         /\ \A h \in Handlers :
              run[h].pc # "idle" /\ run[h].event = e => run[h].pc = "answering"

Revised(e) == \E s \in suggestions : s.by = e

Evidenced ==
  \A h \in Handlers :
    /\ run[h].pc = "saved" => Revised(run[h].event)
    /\ run[h].pc = "answering" =>
         /\ run[h].answer = "decided" => decisions[run[h].event] = 1
         /\ run[h].answer = "revised" => Revised(run[h].event)

TypeInv == TypeOK /\ InHand
ClaimInv == Owner /\ OneProcessor /\ DecidedOnce /\ Evidenced /\ AnswersAreTrue
IInv == TypeInv /\ ClaimInv

LEMMA IInvInit == Init => IInv
  <1> SUFFICES ASSUME Init
               PROVE  IInv
    OBVIOUS
  <1>1. \A h \in Handlers : run[h] = Idle
    BY DEF Init
  <1>2. TypeOK
    BY IdleType DEF Init, TypeOK
  <1>3. InHand
    BY <1>1, IdleType DEF InHand, HasSession
  <1>4. ClaimInv
    BY <1>1, IdleType DEF Init, ClaimInv, Owner, OneProcessor, DecidedOnce,
       Evidenced, AnswersAreTrue, Answers
  <1>5. QED
    BY <1>2, <1>3, <1>4 DEF IInv, TypeInv

\* A handler that moves on without writing to record or decisions.
LEMMA MoveKeeps ==
  ASSUME ClaimInv, NEW h \in Handlers, NEW p \in Steps \ {"idle"}, Moves(h, p),
         run[h].pc \notin {"idle", "answering"},
         UNCHANGED <<record, decisions>>, suggestions \subseteq suggestions',
         p = "saved" => \E s \in suggestions' : s.by = run[h].event,
         p = "answering" => /\ run'[h].answer # "decided"
                            /\ run'[h].answer = "revised" => Revised(run[h].event)
  PROVE  ClaimInv'
  <1> USE DEF Moves, ClaimInv
  <1>1. Owner' /\ OneProcessor'
    BY DEF Owner, OneProcessor
  <1>2. DecidedOnce'
    <2>1. decisions[run[h].event] = 0
      BY DEF DecidedOnce, Owner
    <2>2. QED
      BY <2>1 DEF DecidedOnce
  <1>a. \A e \in Events : Revised(e) => Revised(e)'
    BY DEF Revised
  <1>3. Evidenced'
    BY <1>a DEF Evidenced, Revised, Owner
  <1>4. AnswersAreTrue'
    BY <1>a DEF AnswersAreTrue, Revised
  <1>5. QED
    BY <1>1, <1>2, <1>3, <1>4

\* Handlers that stop, or none that moves.
LEMMA LeaveKeeps ==
  ASSUME ClaimInv,
         \A g \in Handlers : run'[g] = run[g] \/ run'[g].pc = "idle",
         UNCHANGED <<record, decisions>>, suggestions \subseteq suggestions'
  PROVE  ClaimInv'
  <1> USE DEF ClaimInv
  <1>1. Owner' /\ OneProcessor'
    BY DEF Owner, OneProcessor
  <1>2. DecidedOnce'
    BY DEF DecidedOnce
  <1>a. \A e \in Events : Revised(e) => Revised(e)'
    BY DEF Revised
  <1>3. Evidenced'
    BY <1>a DEF Evidenced, Revised, Owner
  <1>4. AnswersAreTrue'
    BY <1>a DEF AnswersAreTrue, Revised
  <1>5. QED
    BY <1>1, <1>2, <1>3, <1>4

LEMMA DeliverKeeps ==
  ASSUME IInv, NEW h \in Handlers, NEW e \in Events, Deliver(h, e)
  PROVE  ClaimInv'
  <1>1. /\ RunType' /\ run'[h].pc = "claimed" /\ run'[h].event = e
        /\ \A g \in Handlers \ {h} : run'[g] = run[g]
    BY ClaimedEffect DEF Deliver, IInv, TypeInv, TypeOK, RunType
  <1>2. /\ record[e] = "none" /\ record' = [record EXCEPT ![e] = "processing"]
        /\ UNCHANGED <<decisions, suggestions>>
    BY DEF Deliver
  <1>3. \A x \in Events : record'[x] = IF x = e THEN "processing" ELSE record[x]
    BY <1>2 DEF IInv, TypeInv, TypeOK
  <1> USE DEF IInv, ClaimInv
  <1>4. \A g \in Handlers : run[g].pc # "idle" => run[g].event # e
    BY <1>2 DEF Owner
  <1>5. Owner' /\ OneProcessor'
    BY <1>1, <1>3, <1>4 DEF Owner, OneProcessor
  <1>6. decisions[e] = 0
    BY <1>2 DEF DecidedOnce
  <1>7. DecidedOnce'
    BY <1>1, <1>2, <1>3, <1>6 DEF DecidedOnce
  <1>8. Evidenced'
    BY <1>1, <1>2 DEF Evidenced, Revised
  <1>9. AnswersAreTrue'
    BY <1>2, <1>3 DEF AnswersAreTrue
  <1>10. QED
    BY <1>5, <1>7, <1>8, <1>9

LEMMA AnswerKeeps ==
  ASSUME IInv, NEW h \in Handlers, Answer(h)
  PROVE  ClaimInv'
  <1> DEFINE e == run[h].event
  <1>1. /\ RunType' /\ run'[h].pc = "idle"
        /\ \A g \in Handlers \ {h} : run'[g] = run[g]
    BY FinishEffect DEF Answer, IInv, TypeInv, TypeOK, RunType
  <1>2. /\ run[h].pc = "answering"
        /\ record' = [record EXCEPT ![e] = run[h].answer]
        /\ UNCHANGED <<decisions, suggestions>>
    BY DEF Answer, At
  <1> USE DEF IInv, ClaimInv
  <1>3. e \in Events /\ record[e] = "processing"
    BY <1>2 DEF Owner
  <1>4. run[h].answer \in Answers
    BY DEF TypeInv, TypeOK, Handler
  <1>5. \A x \in Events : record'[x] = IF x = e THEN run[h].answer ELSE record[x]
    BY <1>2, <1>3 DEF TypeInv, TypeOK
  <1>6. \A g \in Handlers \ {h} : run[g].pc # "idle" => run[g].event # e
    BY <1>2 DEF OneProcessor
  <1>7. Owner' /\ OneProcessor'
    BY <1>1, <1>5, <1>6 DEF Owner, OneProcessor
  <1>8. DecidedOnce'
    BY <1>1, <1>2, <1>4, <1>5 DEF DecidedOnce, Answers
  <1>9. Evidenced'
    BY <1>1, <1>2 DEF Evidenced, Revised
  <1>10. AnswersAreTrue'
    BY <1>2, <1>5 DEF AnswersAreTrue, Evidenced, Revised
  <1>11. QED
    BY <1>7, <1>8, <1>9, <1>10

LEMMA ReleaseKeeps ==
  ASSUME IInv, NEW h \in Handlers, Release(h)
  PROVE  ClaimInv'
  <1> DEFINE e == run[h].event
  <1>1. /\ RunType' /\ run'[h].pc = "idle"
        /\ \A g \in Handlers \ {h} : run'[g] = run[g]
    BY FinishEffect DEF Release, IInv, TypeInv, TypeOK, RunType
  <1>2. /\ run[h].pc = "refused"
        /\ record' = [record EXCEPT ![e] = "none"]
        /\ UNCHANGED <<decisions, suggestions>>
    BY DEF Release, At
  <1> USE DEF IInv, ClaimInv
  <1>3. e \in Events
    BY <1>2 DEF Owner
  <1>4. \A x \in Events : record'[x] = IF x = e THEN "none" ELSE record[x]
    BY <1>2, <1>3 DEF TypeInv, TypeOK
  <1>5. \A g \in Handlers \ {h} : run[g].pc # "idle" => run[g].event # e
    BY <1>2 DEF OneProcessor
  <1>6. Owner' /\ OneProcessor'
    BY <1>1, <1>4, <1>5 DEF Owner, OneProcessor
  <1>7. decisions[e] = 0
    BY <1>2, <1>3 DEF DecidedOnce
  <1>8. DecidedOnce'
    BY <1>1, <1>2, <1>4, <1>7 DEF DecidedOnce
  <1>9. Evidenced'
    BY <1>1, <1>2 DEF Evidenced, Revised
  <1>10. AnswersAreTrue'
    BY <1>2, <1>4 DEF AnswersAreTrue
  <1>11. QED
    BY <1>6, <1>8, <1>9, <1>10

LEMMA SnoozeKeeps ==
  ASSUME IInv, NEW h \in Handlers, Snooze(h)
  PROVE  ClaimInv'
  <1> DEFINE e == run[h].event
  <1>1. Moves(h, "answering") /\ run'[h].answer = "decided"
    BY AnswerEffect DEF Snooze, IInv, TypeInv, TypeOK, RunType, Answers
  <1>2. /\ run[h].pc = "claimed"
        /\ decisions' = [decisions EXCEPT ![e] = @ + 1]
        /\ UNCHANGED <<record, suggestions>>
    BY DEF Snooze, EventAt, At
  <1> USE DEF IInv, ClaimInv, Moves
  <1>3. e \in Events /\ record[e] = "processing"
    BY <1>2 DEF Owner
  <1>4. \A g \in Handlers \ {h} : run[g].pc # "idle" => run[g].event # e
    BY <1>2 DEF OneProcessor
  <1>5. decisions[e] = 0
    BY <1>2, <1>3 DEF DecidedOnce
  <1>6. \A x \in Events : decisions'[x] = IF x = e THEN 1 ELSE decisions[x]
    BY <1>2, <1>5 DEF TypeInv, TypeOK
  <1>7. Owner' /\ OneProcessor'
    BY <1>1, <1>2 DEF Owner, OneProcessor
  <1>8. DecidedOnce'
    BY <1>1, <1>2, <1>3, <1>4, <1>6 DEF DecidedOnce
  <1>9. Evidenced'
    BY <1>1, <1>2, <1>3, <1>4, <1>6 DEF Evidenced, Revised, Owner
  <1>10. AnswersAreTrue'
    BY <1>2, <1>3, <1>6 DEF AnswersAreTrue
  <1>11. QED
    BY <1>7, <1>8, <1>9, <1>10

\* No step removes a session.
SessionsStay == \A k \in Batches \X Times : session[k] # NoSession => session'[k] # NoSession

LEMMA InHandMove ==
  ASSUME InHand, RunType, SessionsStay, NEW h \in Handlers, NEW p \in Steps,
         Moves(h, p),
         p = "opening" => run'[h].at \in Times,
         p \in HasSession => /\ run'[h].at \in Times
                            /\ session'[<<run'[h].batch, run'[h].at>>] # NoSession
  PROVE  InHand'
  <1>1. ASSUME NEW g \in Handlers \ {h}
        PROVE  /\ run'[g].pc = "opening" => run'[g].at \in Times
               /\ run'[g].pc \in HasSession =>
                    /\ run'[g].at \in Times
                    /\ session'[<<run'[g].batch, run'[g].at>>] # NoSession
    <2>1. run'[g] = run[g] /\ run[g].batch \in Batches
      BY DEF Moves, RunType, Handler
    <2>2. QED
      BY <2>1 DEF InHand, SessionsStay, Key
  <1>2. QED
    BY <1>1 DEF InHand, Key, Moves

LEMMA InHandLeave ==
  ASSUME InHand, RunType, SessionsStay,
         \A g \in Handlers : run'[g] = run[g] \/ run'[g].pc \in {"idle", "claimed"}
  PROVE  InHand'
  <1>1. \A g \in Handlers : run[g].batch \in Batches
    BY DEF RunType, Handler
  <1>2. QED
    BY <1>1 DEF InHand, SessionsStay, Key, HasSession

\* A session in hand is a session, and so is the result of an update to it.
LEMMA SessionUpdate ==
  ASSUME TypeInv, NEW h \in Handlers, run[h].pc \in HasSession
  PROVE  /\ Key(h) \in Batches \X Times /\ session[Key(h)] \in Session
         /\ \A st \in {"completed", "failed"} :
              [session[Key(h)] EXCEPT !.status = st] \in Session
         /\ \A e \in Events :
              [session[Key(h)] EXCEPT !.text = e, !.status = "processing"] \in Session
  <1>1. Key(h) \in Batches \X Times
    BY DEF TypeInv, TypeOK, InHand, Key, Handler
  <1>2. session[Key(h)] \in Session
    BY <1>1 DEF TypeInv, TypeOK, InHand
  <1>3. \A st \in {"completed", "failed"} :
          [session[Key(h)] EXCEPT !.status = st] \in Session
    BY <1>2 DEF Session
  <1>4. \A e \in Events :
          [session[Key(h)] EXCEPT !.text = e, !.status = "processing"] \in Session
    BY <1>2 DEF Session
  <1>5. QED
    BY <1>1, <1>2, <1>3, <1>4

\* A session written at the key in hand keeps the table well formed.
LEMMA SessionWrite ==
  ASSUME TypeInv, NEW k \in Batches \X Times, NEW s \in Session,
         session' = [session EXCEPT ![k] = s]
  PROVE  /\ session' \in [Batches \X Times -> Session \cup {NoSession}]
         /\ SessionsStay /\ session'[k] # NoSession
  BY DEF TypeInv, TypeOK, SessionsStay

LEMMA TypeClaims ==
  ASSUME IInv, NEW h \in Handlers,
         Answer(h) \/ Release(h) \/ \E e \in Events : Deliver(h, e)
  PROVE  TypeInv'
  <1>1. RunType /\ InHand
    BY DEF IInv, TypeInv, TypeOK, RunType
  <1>2. /\ RunType'
        /\ \A g \in Handlers : run'[g] = run[g] \/ run'[g].pc \in {"idle", "claimed"}
    BY <1>1, FinishEffect, ClaimedEffect DEF Answer, Release, Deliver
  <1>3. run[h].answer \in Answers
    BY <1>1 DEF RunType, Handler
  <1>4. record' \in [Events -> {"none", "processing"} \cup Answers]
    BY <1>3 DEF Answer, Release, Deliver, IInv, TypeInv, TypeOK
  <1>5. UNCHANGED <<decisions, session, suggestions, draft, clock, bounds>>
    BY DEF Answer, Release, Deliver
  <1>6. InHand'
    BY <1>1, <1>2, <1>5, InHandLeave DEF SessionsStay
  <1>7. QED
    BY <1>2, <1>4, <1>5, <1>6 DEF IInv, TypeInv, TypeOK, RunType, bounds

LEMMA TypeClicks ==
  ASSUME IInv, NEW h \in Handlers,
         Snooze(h) \/ SnoozeUnknown(h) \/ ReviseRead(h) \/ ReviseOpen(h)
  PROVE  TypeInv'
  <1>0. RunType /\ InHand /\ TypeInv
    BY DEF IInv, TypeInv, TypeOK, RunType
  <1>1. CASE Snooze(h) \/ SnoozeUnknown(h)
    <2>1. \E p \in {"answering", "refused"} : Moves(h, p)
      BY <1>0, <1>1, GotoEffect, AnswerEffect DEF Snooze, SnoozeUnknown, Steps, Answers
    <2>2. UNCHANGED <<record, session, suggestions, draft, clock, bounds>>
      BY <1>1 DEF Snooze, SnoozeUnknown, tables
    <2>3. decisions' \in [Events -> Nat]
      BY <1>0, <1>1 DEF Snooze, SnoozeUnknown, tables, TypeInv, TypeOK
    <2>4. InHand'
      BY <1>0, <2>1, <2>2, InHandMove DEF SessionsStay, HasSession, Steps
    <2>5. QED
      BY <1>0, <2>1, <2>2, <2>3, <2>4 DEF TypeInv, TypeOK, RunType, Moves, bounds
  <1>2. CASE ReviseRead(h)
    <2>1. UNCHANGED <<tables, draft, clock, bounds>>
      BY <1>2 DEF ReviseRead
    <2>2. \E p \in {"answering", "refused", "opening"} :
            Moves(h, p) /\ (p = "opening" => run'[h].at \in Times)
      <3>1. CASE AnswerWith(h, "prompted")
        BY <1>0, <3>1, AnswerEffect DEF Answers
      <3>2. CASE Goto(h, "refused")
        BY <1>0, <3>2, GotoEffect DEF Steps
      <3>3. ASSUME NEW s \in Latest(run[h].batch),
                   run' = [run EXCEPT ![h].pc = "opening", ![h].at = s.at]
            PROVE  Moves(h, "opening") /\ run'[h].at \in Times
        <4>1. s.at \in Times
          BY <1>0 DEF Latest, TypeInv, TypeOK, Suggestion
        <4>2. QED
          BY <1>0, <3>3, <4>1, OpeningEffect
      <3>4. QED
        BY <1>2, <3>1, <3>2, <3>3 DEF ReviseRead
    <2>3. InHand'
      BY <1>0, <2>1, <2>2, InHandMove DEF SessionsStay, HasSession, Steps, tables
    <2>4. QED
      BY <1>0, <2>1, <2>2, <2>3 DEF TypeInv, TypeOK, RunType, Moves, tables, bounds
  <1>3. CASE ReviseOpen(h)
    <2> DEFINE op == OperatorOf[run[h].event]
               new == [operator |-> op, status |-> "pending", text |-> NoEvent]
    <2>1. UNCHANGED <<record, decisions, suggestions, draft, clock, bounds>>
      BY <1>3 DEF ReviseOpen
    <2>2. \E p \in {"answering", "refused"} : Moves(h, p)
      BY <1>0, <1>3, GotoEffect, AnswerEffect DEF ReviseOpen, Steps, Answers
    <2>3. Key(h) \in Batches \X Times
      BY <1>0, <1>3 DEF ReviseOpen, At, InHand, Key, RunType, Handler
    <2>4. new \in Session
      <3>1. run[h].event \in Events
        BY <1>3 DEF ReviseOpen, At, IInv, ClaimInv, Owner
      <3>2. QED
        BY <3>1 DEF Session
    <2>5. session' = session \/ session' = [session EXCEPT ![Key(h)] = new]
      BY <1>3 DEF ReviseOpen
    <2>6. session' \in [Batches \X Times -> Session \cup {NoSession}] /\ SessionsStay
      BY <1>0, <2>3, <2>4, <2>5, SessionWrite DEF TypeInv, TypeOK, SessionsStay
    <2>7. InHand'
      BY <1>0, <2>2, <2>6, InHandMove DEF HasSession, Steps
    <2>8. QED
      BY <1>0, <2>1, <2>2, <2>6, <2>7 DEF TypeInv, TypeOK, RunType, Moves, bounds
  <1>4. QED
    BY <1>1, <1>2, <1>3

LEMMA TypeAttach ==
  ASSUME IInv, NEW h \in Handlers,
         TextSelect(h) \/ TextAttach(h) \/ TextReread(h)
  PROVE  TypeInv'
  <1>0. RunType /\ InHand /\ TypeInv
    BY DEF IInv, TypeInv, TypeOK, RunType
  <1>1. CASE TextSelect(h)
    <2>1. UNCHANGED <<tables, draft, clock, bounds>>
      BY <1>1 DEF TextSelect
    <2>2. \E p \in {"answering", "attaching"} :
            /\ Moves(h, p)
            /\ p = "attaching" =>
                 /\ run'[h].at \in Times
                 /\ session[<<run'[h].batch, run'[h].at>>] # NoSession
      <3>1. CASE AnswerWith(h, "ignored")
        BY <1>0, <3>1, AnswerEffect DEF Answers
      <3>2. ASSUME NEW k \in DOMAIN session, session[k] # NoSession,
                   run' = [run EXCEPT ![h].pc = "attaching",
                                      ![h].batch = k[1], ![h].at = k[2]]
            PROVE  /\ Moves(h, "attaching") /\ run'[h].at \in Times
                   /\ session[<<run'[h].batch, run'[h].at>>] # NoSession
        <4>1. k \in Batches \X Times
          BY <1>0 DEF TypeInv, TypeOK
        <4>2. k[1] \in Batches /\ k[2] \in Times
          BY <4>1
        <4>3. k = <<k[1], k[2]>>
          BY <4>1
        <4>4. RunType /\ Takes(h, k[1], k[2])
          BY <1>0, <3>2 DEF Takes
        <4>5. Moves(h, "attaching") /\ run'[h].batch = k[1] /\ run'[h].at = k[2]
          BY <4>2, <4>4, AttachingEffect
        <4>6. QED
          BY <3>2, <4>2, <4>3, <4>5
      <3>3. QED
        BY <1>1, <3>1, <3>2 DEF TextSelect
    <2>3. InHand'
      BY <1>0, <2>1, <2>2, InHandMove DEF SessionsStay, HasSession, Steps, tables
    <2>4. QED
      BY <1>0, <2>1, <2>2, <2>3 DEF TypeInv, TypeOK, RunType, Moves, tables, bounds
  <1>2. CASE TextAttach(h)
    <2> DEFINE e == run[h].event
               new == [session[Key(h)] EXCEPT !.text = e, !.status = "processing"]
    <2>1. /\ UNCHANGED <<record, decisions, suggestions, draft, clock, bounds>>
          /\ run[h].pc = "attaching" /\ Goto(h, "attached")
      BY <1>2 DEF TextAttach, At
    <2>2. e \in Events
      BY <2>1 DEF IInv, ClaimInv, Owner
    <2>3. Key(h) \in Batches \X Times /\ new \in Session
      BY <1>0, <2>1, <2>2, SessionUpdate DEF HasSession
    <2>4. session' = [session EXCEPT ![Key(h)] = new]
      BY <1>0, <1>2, <2>3 DEF TextAttach, TypeInv, TypeOK
    <2> HIDE DEF new
    <2>5. /\ session' \in [Batches \X Times -> Session \cup {NoSession}]
          /\ SessionsStay /\ session'[Key(h)] # NoSession
      BY <1>0, <2>3, <2>4, SessionWrite
    <2>6. /\ Moves(h, "attached")
          /\ run'[h].batch = run[h].batch /\ run'[h].at = run[h].at
      BY <1>0, <2>1, GotoEffect DEF Steps
    <2>7. InHand'
      BY <1>0, <2>1, <2>5, <2>6, InHandMove DEF InHand, HasSession, Steps, Key
    <2>8. QED
      BY <1>0, <2>1, <2>5, <2>6, <2>7 DEF TypeInv, TypeOK, RunType, Moves, bounds
  <1>3. CASE TextReread(h)
    <2>1. /\ UNCHANGED <<tables, draft, clock, bounds>> /\ run[h].pc = "attached"
          /\ run' = [run EXCEPT ![h].pc = "revising", ![h].text = session[Key(h)].text]
      BY <1>3 DEF TextReread, At
    <2>2. session[Key(h)].text \in Events \cup {NoEvent}
      BY <1>0, <2>1, SessionUpdate DEF HasSession, Session
    <2>3. /\ Moves(h, "revising")
          /\ run'[h].batch = run[h].batch /\ run'[h].at = run[h].at
      BY <1>0, <2>1, <2>2, RevisingEffect
    <2>4. InHand'
      BY <1>0, <2>1, <2>3, InHandMove
         DEF InHand, HasSession, Steps, Key, SessionsStay, tables
    <2>5. QED
      BY <1>0, <2>1, <2>3, <2>4 DEF TypeInv, TypeOK, RunType, Moves, tables, bounds
  <1>4. QED
    BY <1>1, <1>2, <1>3

LEMMA TypeRegenerate ==
  ASSUME IInv, NEW h \in Handlers, Regenerate(h) \/ RegenerateFails(h)
  PROVE  TypeInv'
  <1>0. RunType /\ InHand /\ TypeInv
    BY DEF IInv, TypeInv, TypeOK, RunType
  <1>1. PICK p \in {"saved", "failing"} : Goto(h, p)
    BY DEF Regenerate, RegenerateFails
  <1>2. /\ Moves(h, p)
        /\ run'[h].batch = run[h].batch /\ run'[h].at = run[h].at
    BY <1>0, <1>1, GotoEffect DEF Steps
  <1>3. /\ run[h].pc = "revising"
        /\ UNCHANGED <<record, decisions, session, draft, bounds>>
    BY DEF Regenerate, RegenerateFails, At, tables
  <1>4. InHand'
    BY <1>0, <1>2, <1>3, InHandMove DEF InHand, HasSession, Steps, Key, SessionsStay
  <1>5. clock' \in 0..MaxTime /\ suggestions' \subseteq Suggestion
    <2>1. CASE Regenerate(h)
      <3>1. /\ clock < MaxTime /\ clock' = clock + 1
            /\ suggestions' = suggestions \cup
                 {[batch |-> run[h].batch, at |-> clock + 1, original |-> run[h].at,
                   by |-> run[h].event, feedback |-> run[h].text]}
        BY <2>1 DEF Regenerate
      <3>2. clock + 1 \in Times /\ clock + 1 \in 0..MaxTime
        BY <1>0, <3>1 DEF TypeInv, TypeOK, Times
      <3>3. run[h] \in Handler
        BY <1>0 DEF RunType
      <3>4. QED
        BY <1>0, <3>1, <3>2, <3>3 DEF TypeInv, TypeOK, Suggestion, Handler
    <2>2. CASE RegenerateFails(h)
      BY <1>0, <2>2 DEF RegenerateFails, tables, TypeInv, TypeOK
    <2>3. QED
      BY <2>1, <2>2
  <1>6. QED
    BY <1>0, <1>2, <1>3, <1>4, <1>5 DEF TypeInv, TypeOK, RunType, Moves, bounds

LEMMA TypeSettle ==
  ASSUME IInv, NEW h \in Handlers, CompleteSession(h) \/ FailSession(h)
  PROVE  TypeInv'
  <1>0. RunType /\ InHand /\ TypeInv
    BY DEF IInv, TypeInv, TypeOK, RunType
  <1>1. PICK p \in {"answering", "refused"} : Moves(h, p)
    BY <1>0, GotoEffect, AnswerEffect DEF CompleteSession, FailSession, Steps, Answers
  <1>2. PICK st \in {"completed", "failed"} :
          session' = [session EXCEPT ![Key(h)].status = st]
    BY DEF CompleteSession, FailSession
  <1>3. /\ run[h].pc \in {"saved", "failing"}
        /\ UNCHANGED <<record, decisions, suggestions, draft, clock, bounds>>
    BY DEF CompleteSession, FailSession, At
  <1> DEFINE new == [session[Key(h)] EXCEPT !.status = st]
  <1>4. Key(h) \in Batches \X Times /\ new \in Session
    BY <1>0, <1>3, SessionUpdate DEF HasSession
  <1>5. session' = [session EXCEPT ![Key(h)] = new]
    BY <1>2
  <1> HIDE DEF new
  <1>6. session' \in [Batches \X Times -> Session \cup {NoSession}] /\ SessionsStay
    BY <1>0, <1>4, <1>5, SessionWrite
  <1>7. InHand'
    BY <1>0, <1>1, <1>6, InHandMove DEF HasSession, Steps
  <1>8. QED
    BY <1>0, <1>1, <1>3, <1>6, <1>7 DEF TypeInv, TypeOK, RunType, Moves, bounds

LEMMA DbErrorStep ==
  ASSUME IInv, NEW h \in Handlers, DbError(h)
  PROVE  IInv'
  <1>0. RunType /\ InHand /\ TypeInv /\ ClaimInv
    BY DEF IInv, TypeInv, TypeOK, RunType
  <1>1. /\ UNCHANGED <<tables, draft, clock, scans, crashes>>
        /\ errors < MaxDbErrors /\ errors' = errors + 1
    BY DEF DbError
  <1>2. errors' \in 0..MaxDbErrors
    BY <1>0, <1>1 DEF TypeInv, TypeOK
  <1>3. CASE Finish(h)
    <2>1. /\ RunType'
          /\ \A g \in Handlers : run'[g] = run[g] \/ run'[g].pc = "idle"
      BY <1>0, <1>3, FinishEffect
    <2>2. ClaimInv'
      BY <1>0, <1>1, <2>1, LeaveKeeps DEF tables
    <2>3. InHand'
      BY <1>0, <1>1, <2>1, InHandLeave DEF SessionsStay, tables
    <2>4. QED
      BY <1>0, <1>1, <1>2, <2>1, <2>2, <2>3
         DEF IInv, TypeInv, TypeOK, RunType, tables
  <1>4. CASE Goto(h, "refused") /\ run[h].pc \notin {"idle", "answering"}
    <2>1. Moves(h, "refused")
      BY <1>0, <1>4, GotoEffect DEF Steps
    <2>2. ClaimInv'
      BY <1>0, <1>1, <1>4, <2>1, MoveKeeps DEF tables, Steps
    <2>3. InHand'
      BY <1>0, <1>1, <2>1, InHandMove DEF SessionsStay, HasSession, Steps, tables
    <2>4. QED
      BY <1>0, <1>1, <1>2, <2>1, <2>2, <2>3
         DEF IInv, TypeInv, TypeOK, RunType, Moves, tables
  <1>5. QED
    BY <1>3, <1>4 DEF DbError

LEMMA CrashStep ==
  ASSUME IInv, NEW i \in Instances, Crash(i)
  PROVE  IInv'
  <1>0. RunType /\ InHand /\ TypeInv /\ ClaimInv
    BY DEF IInv, TypeInv, TypeOK, RunType
  <1>1. /\ UNCHANGED <<tables, clock, scans, errors>>
        /\ crashes < MaxCrashes /\ crashes' = crashes + 1
        /\ draft' = [draft EXCEPT ![i] = NoDraft]
        /\ run' = [h \in Handlers |-> IF InstanceOf[h] = i THEN Idle ELSE run[h]]
    BY DEF Crash
  <1>2. /\ RunType'
        /\ \A g \in Handlers : run'[g] = run[g] \/ run'[g].pc = "idle"
    BY <1>0, <1>1, IdleType DEF RunType
  <1>3. ClaimInv'
    BY <1>0, <1>1, <1>2, LeaveKeeps DEF tables
  <1>4. InHand'
    BY <1>0, <1>1, <1>2, InHandLeave DEF SessionsStay, tables
  <1>5. QED
    BY <1>0, <1>1, <1>2, <1>3, <1>4 DEF IInv, TypeInv, TypeOK, RunType, tables

LEMMA ScanStep ==
  ASSUME IInv, NEW i \in Instances,
         ScanSave(i) \/ \E b \in Batches : ScanGenerate(i, b)
  PROVE  IInv'
  <1>0. RunType /\ InHand /\ TypeInv /\ ClaimInv
    BY DEF IInv, TypeInv, TypeOK, RunType
  <1>1. UNCHANGED <<record, decisions, session, run>>
    BY DEF ScanSave, ScanGenerate, tables
  <1>2. suggestions \subseteq suggestions'
    BY DEF ScanSave, ScanGenerate, tables
  <1>3. ClaimInv'
    BY <1>0, <1>1, <1>2, LeaveKeeps
  <1>4. InHand'
    BY <1>0, <1>1, InHandLeave DEF SessionsStay
  <1>5. TypeOK'
    <2>1. CASE ScanSave(i)
      <3>1. draft[i] \in Draft
        BY <1>0, <2>1 DEF ScanSave, TypeInv, TypeOK
      <3>2. [batch |-> draft[i].batch, at |-> draft[i].at, original |-> 0,
             by |-> NoEvent, feedback |-> NoEvent] \in Suggestion
        BY <3>1 DEF Draft, Suggestion
      <3>3. QED
        BY <1>0, <1>1, <2>1, <3>2 DEF ScanSave, TypeInv, TypeOK, RunType, bounds
    <2>2. ASSUME NEW b \in Batches, ScanGenerate(i, b)
          PROVE  TypeOK'
      <3>1. /\ clock < MaxTime /\ clock' = clock + 1
            /\ scans < MaxScans /\ scans' = scans + 1
            /\ draft' = [draft EXCEPT ![i] = [batch |-> b, at |-> clock + 1]]
            /\ UNCHANGED <<suggestions, errors, crashes>>
        BY <2>2 DEF ScanGenerate, tables
      <3>2. clock + 1 \in Times /\ clock' \in 0..MaxTime /\ scans' \in 0..MaxScans
        BY <1>0, <3>1 DEF TypeInv, TypeOK, Times
      <3>3. [batch |-> b, at |-> clock + 1] \in Draft
        BY <3>2 DEF Draft
      <3>4. draft' \in [Instances -> Draft \cup {NoDraft}]
        BY <1>0, <3>1, <3>3 DEF TypeInv, TypeOK
      <3>5. QED
        BY <1>0, <1>1, <3>1, <3>2, <3>4 DEF TypeInv, TypeOK, RunType
    <2>3. QED
      BY <2>1, <2>2
  <1>6. QED
    BY <1>3, <1>4, <1>5 DEF IInv, TypeInv

LEMMA HandleStep ==
  ASSUME IInv, NEW h \in Handlers, Handle(h)
  PROVE  IInv'
  <1>0. RunType /\ TypeInv /\ ClaimInv
    BY DEF IInv, TypeInv, TypeOK, RunType
  <1>1. TypeInv'
    BY TypeClaims, TypeClicks, TypeAttach, TypeRegenerate, TypeSettle DEF Handle
  <1> SUFFICES ClaimInv'
    BY <1>1 DEF IInv
  <1>2. ASSUME NEW p \in Steps \ {"idle", "saved", "answering"}, Moves(h, p),
               run[h].pc \notin {"idle", "answering"},
               UNCHANGED <<record, decisions, suggestions>>
        PROVE  ClaimInv'
    BY <1>0, <1>2, MoveKeeps
  <1>3. ASSUME NEW a \in {"prompted", "ignored"}, AnswerWith(h, a),
               run[h].pc \notin {"idle", "answering"},
               UNCHANGED <<record, decisions, suggestions>>
        PROVE  ClaimInv'
    <2>1. Moves(h, "answering") /\ run'[h].answer = a
      BY <1>0, <1>3, AnswerEffect DEF Answers
    <2>2. QED
      BY <1>0, <1>3, <2>1, MoveKeeps DEF Steps
  <1>4. CASE SnoozeUnknown(h) \/ RegenerateFails(h) \/ FailSession(h) \/ TextAttach(h)
    <2>1. /\ run[h].pc \notin {"idle", "answering"}
          /\ UNCHANGED <<record, decisions, suggestions>>
      BY <1>4 DEF SnoozeUnknown, RegenerateFails, FailSession, TextAttach,
                  EventAt, At, tables
    <2>2. \E p \in {"refused", "failing", "attached"} : Goto(h, p)
      BY <1>4 DEF SnoozeUnknown, RegenerateFails, FailSession, TextAttach
    <2>3. PICK p \in {"refused", "failing", "attached"} : Moves(h, p)
      BY <1>0, <2>2, GotoEffect DEF Steps
    <2>4. p \in Steps \ {"idle", "saved", "answering"}
      BY DEF Steps
    <2>5. QED
      BY <1>2, <2>1, <2>3, <2>4
  <1>5. CASE ReviseRead(h)
    <2>1. /\ run[h].pc \notin {"idle", "answering"}
          /\ UNCHANGED <<record, decisions, suggestions>>
      BY <1>5 DEF ReviseRead, EventAt, At, tables
    <2>2. CASE AnswerWith(h, "prompted")
      BY <1>3, <2>1, <2>2
    <2>3. CASE Goto(h, "refused")
      <3>1. Moves(h, "refused")
        BY <1>0, <2>3, GotoEffect DEF Steps
      <3>2. "refused" \in Steps \ {"idle", "saved", "answering"}
        BY DEF Steps
      <3>3. QED
        BY <1>2, <2>1, <3>1, <3>2
    <2>4. ASSUME NEW s \in Latest(run[h].batch),
                 run' = [run EXCEPT ![h].pc = "opening", ![h].at = s.at]
          PROVE  ClaimInv'
      <3>1. s.at \in Times
        BY <1>0 DEF Latest, TypeInv, TypeOK, Suggestion
      <3>2. Moves(h, "opening")
        BY <1>0, <2>4, <3>1, OpeningEffect
      <3>3. "opening" \in Steps \ {"idle", "saved", "answering"}
        BY DEF Steps
      <3>4. QED
        BY <1>2, <2>1, <3>2, <3>3
    <2>5. QED
      BY <1>5, <2>2, <2>3, <2>4 DEF ReviseRead
  <1>6. CASE ReviseOpen(h)
    <2>1. /\ run[h].pc \notin {"idle", "answering"}
          /\ UNCHANGED <<record, decisions, suggestions>>
      BY <1>6 DEF ReviseOpen, At
    <2>2. CASE AnswerWith(h, "prompted")
      BY <1>3, <2>1, <2>2
    <2>3. CASE Goto(h, "refused")
      <3>1. Moves(h, "refused")
        BY <1>0, <2>3, GotoEffect DEF Steps
      <3>2. "refused" \in Steps \ {"idle", "saved", "answering"}
        BY DEF Steps
      <3>3. QED
        BY <1>2, <2>1, <3>1, <3>2
    <2>4. QED
      BY <1>6, <2>2, <2>3 DEF ReviseOpen
  <1>7. CASE TextSelect(h)
    <2>1. /\ run[h].pc \notin {"idle", "answering"}
          /\ UNCHANGED <<record, decisions, suggestions>>
      BY <1>7 DEF TextSelect, EventAt, At, tables
    <2>2. CASE AnswerWith(h, "ignored")
      BY <1>3, <2>1, <2>2
    <2>3. ASSUME NEW k \in DOMAIN session,
                 run' = [run EXCEPT ![h].pc = "attaching",
                                    ![h].batch = k[1], ![h].at = k[2]]
          PROVE  ClaimInv'
      <3>1. k[1] \in Batches /\ k[2] \in Times
        BY <1>0 DEF TypeInv, TypeOK
      <3>2. Moves(h, "attaching")
        <4>1. RunType /\ Takes(h, k[1], k[2])
          BY <1>0, <2>3 DEF Takes
        <4>2. QED
          BY <3>1, <4>1, AttachingEffect
      <3>3. "attaching" \in Steps \ {"idle", "saved", "answering"}
        BY DEF Steps
      <3>4. QED
        BY <1>2, <2>1, <3>2, <3>3
    <2>4. QED
      BY <1>7, <2>2, <2>3 DEF TextSelect
  <1>8. CASE TextReread(h)
    <2>1. /\ run[h].pc \notin {"idle", "answering"} /\ run[h].pc = "attached"
          /\ UNCHANGED <<record, decisions, suggestions>>
      BY <1>8 DEF TextReread, At, tables
    <2>2. session[Key(h)].text \in Events \cup {NoEvent}
      BY <1>0, <2>1, SessionUpdate DEF HasSession, Session
    <2>3. run' = [run EXCEPT ![h].pc = "revising", ![h].text = session[Key(h)].text]
      BY <1>8 DEF TextReread
    <2>4. Moves(h, "revising")
      BY <1>0, <2>2, <2>3, RevisingEffect
    <2>5. "revising" \in Steps \ {"idle", "saved", "answering"}
      BY DEF Steps
    <2>6. QED
      BY <1>2, <2>1, <2>4, <2>5
  <1>9. CASE Regenerate(h)
    <2>1. /\ run[h].pc \notin {"idle", "answering"}
          /\ UNCHANGED <<record, decisions>> /\ Goto(h, "saved")
      BY <1>9 DEF Regenerate, At
    <2>2. Moves(h, "saved") /\ "saved" \in Steps \ {"idle"}
      BY <1>0, <2>1, GotoEffect DEF Steps
    <2>3. /\ suggestions \subseteq suggestions'
          /\ \E s \in suggestions' : s.by = run[h].event
      <3> DEFINE new == [batch |-> run[h].batch, at |-> clock + 1,
                         original |-> run[h].at, by |-> run[h].event,
                         feedback |-> run[h].text]
      <3>1. suggestions' = suggestions \cup {new}
        BY <1>9 DEF Regenerate
      <3>2. new.by = run[h].event
        OBVIOUS
      <3> HIDE DEF new
      <3>3. QED
        BY <3>1, <3>2
    <2>4. QED
      BY <1>0, <2>1, <2>2, <2>3, MoveKeeps
  <1>10. CASE CompleteSession(h)
    <2>1. /\ run[h].pc = "saved" /\ UNCHANGED <<record, decisions, suggestions>>
          /\ AnswerWith(h, "revised")
      BY <1>10 DEF CompleteSession, At
    <2>2. Moves(h, "answering") /\ run'[h].answer = "revised"
      BY <1>0, <2>1, AnswerEffect DEF Answers
    <2>3. Revised(run[h].event)
      BY <1>0, <2>1 DEF ClaimInv, Evidenced
    <2>4. "answering" \in Steps \ {"idle"}
      BY DEF Steps
    <2>5. QED
      BY <1>0, <2>1, <2>2, <2>3, <2>4, MoveKeeps
  <1>11. QED
    BY <1>4, <1>5, <1>6, <1>7, <1>8, <1>9, <1>10, AnswerKeeps, ReleaseKeeps,
       SnoozeKeeps DEF Handle

LEMMA IInvStep == IInv /\ [Next]_vars => IInv'
  <1> SUFFICES ASSUME IInv, [Next]_vars
               PROVE  IInv'
    OBVIOUS
  <1>1. ASSUME NEW h \in Handlers, NEW e \in Events, Deliver(h, e)
        PROVE  IInv'
    BY <1>1, TypeClaims, DeliverKeeps DEF IInv
  <1>2. CASE UNCHANGED vars
    <2>1. ClaimInv'
      BY <1>2, LeaveKeeps DEF vars, tables, IInv
    <2>2. InHand'
      BY <1>2, InHandLeave DEF vars, tables, IInv, TypeInv, TypeOK, RunType, SessionsStay
    <2>3. QED
      BY <1>2, <2>1, <2>2 DEF vars, tables, bounds, IInv, TypeInv, TypeOK
  <1>3. QED
    BY <1>1, <1>2, HandleStep, DbErrorStep, CrashStep, ScanStep DEF Next

THEOREM Invariance == Spec => []IInv
  <1>1. QED
    BY IInvInit, IInvStep, PTL DEF Spec

\* The tables and the handlers stay well formed.
THEOREM TypeCorrect == Spec => []TypeOK
  <1>1. IInv => TypeOK
    BY DEF IInv, TypeInv
  <1>2. QED
    BY <1>1, Invariance, PTL

\* However often an event is delivered, to however many instances, with any
\* crash or failed statement in between, it writes one decision at most.
THEOREM OneDecisionTheorem == Spec => []OneDecisionPerEvent
  <1>1. IInv => OneDecisionPerEvent
    <2>1. IInv => \A e \in Events : decisions[e] = 0 \/ decisions[e] = 1
      BY DEF IInv, ClaimInv, DecidedOnce
    <2>2. 0 <= 1 /\ 1 <= 1
      OBVIOUS
    <2>3. QED
      BY <2>1, <2>2, Zenon DEF OneDecisionPerEvent
  <1>2. QED
    BY <1>1, Invariance, PTL

\* Concurrent deliveries of one event elect one processor.
THEOREM OneProcessorTheorem == Spec => []OneProcessor
  <1>1. IInv => OneProcessor
    BY DEF IInv, ClaimInv
  <1>2. QED
    BY <1>1, Invariance, PTL

\* What is replayed to later deliveries did happen.
THEOREM TrueAnswersTheorem == Spec => []AnswersAreTrue
  <1>1. IInv => AnswersAreTrue
    BY DEF IInv, ClaimInv
  <1>2. QED
    BY <1>1, Invariance, PTL

(***************************************************************************)
(* What liveness rests on: a claim without a handler is the work of a      *)
(* fault, and a handler only goes forward.                                 *)
(***************************************************************************)

\* A claim that nobody works on was left by a failed statement or a crash.
OrphansNeedFaults ==
  \A e \in Events :
    record[e] = "processing" =>
      \/ \E h \in Handlers : run[h].pc # "idle" /\ run[h].event = e
      \/ errors + crashes > 0

\* Statements still to come, at most.
Rank == [p \in Steps |->
  CASE p = "idle" -> 0
    [] p \in {"refused", "answering"} -> 1
    [] p \in {"saved", "failing"} -> 2
    [] p = "revising" -> 3
    [] p = "attached" -> 4
    [] p \in {"opening", "attaching"} -> 5
    [] p = "claimed" -> 6]

\* Whatever happens to a request it comes nearer to its end.
HandlersAdvance ==
  \A h \in Handlers :
    run[h].pc # "idle" /\ run'[h] # run[h] =>
      Rank[run'[h].pc] < Rank[run[h].pc]

\* A handler goes on with its event.
Forward(h) ==
  \E p \in Steps \ {"idle"} : Moves(h, p) /\ Rank[p] < Rank[run[h].pc]

LEMMA Ranks ==
  /\ \A p \in Steps \ {"idle"} : Rank["idle"] < Rank[p]
  /\ \A p \in Steps \ {"idle", "refused", "answering"} :
       Rank["refused"] < Rank[p] /\ Rank["answering"] < Rank[p]
  /\ \A q \in {"saved", "failing"} : Rank[q] < Rank["revising"]
  /\ Rank["revising"] < Rank["attached"]
  /\ Rank["attached"] < Rank["attaching"]
  /\ Rank["attaching"] < Rank["claimed"]
  /\ Rank["opening"] < Rank["claimed"]
  BY DEF Rank, Steps

LEMMA AnswerForward ==
  ASSUME RunType, NEW h \in Handlers,
         run[h].pc \notin {"idle", "refused", "answering"},
         (\E a \in Answers : AnswerWith(h, a)) \/ Goto(h, "refused")
  PROVE  Forward(h)
  <1>1. Moves(h, "answering") \/ Moves(h, "refused")
    BY AnswerEffect, GotoEffect DEF Steps
  <1>2. run[h].pc \in Steps \ {"idle", "refused", "answering"}
    BY DEF RunType, Handler
  <1>3. {"answering", "refused"} \subseteq Steps \ {"idle"}
    BY DEF Steps
  <1>4. QED
    BY <1>1, <1>2, <1>3, Ranks DEF Forward

LEMMA ClickForward ==
  ASSUME IInv, NEW h \in Handlers,
         \/ Snooze(h) \/ SnoozeUnknown(h) \/ ReviseRead(h) \/ ReviseOpen(h)
  PROVE  Forward(h) /\ UNCHANGED <<record, errors, crashes>>
  <1>1. RunType
    BY DEF IInv, TypeInv, TypeOK, RunType
  <1>2. /\ run[h].pc \notin {"idle", "refused", "answering"}
        /\ UNCHANGED <<record, errors, crashes>>
    BY DEF Snooze, SnoozeUnknown, ReviseRead, ReviseOpen, EventAt, At, tables, bounds
  <1>3. CASE (\E a \in Answers : AnswerWith(h, a)) \/ Goto(h, "refused")
    BY <1>1, <1>2, <1>3, AnswerForward
  <1>4. ASSUME NEW s \in Latest(run[h].batch), run[h].pc = "claimed",
               run' = [run EXCEPT ![h].pc = "opening", ![h].at = s.at]
        PROVE  Forward(h)
    <2>1. s.at \in Times
      BY DEF IInv, Latest, TypeInv, TypeOK, Suggestion
    <2>2. Moves(h, "opening") /\ "opening" \in Steps \ {"idle"}
      BY <1>1, <1>4, <2>1, OpeningEffect DEF Steps
    <2>3. QED
      BY <1>4, <2>2, Ranks DEF Forward
  <1>5. ReviseRead(h) => run[h].pc = "claimed"
    BY DEF ReviseRead, EventAt, At
  <1>6. QED
    BY <1>2, <1>3, <1>4, <1>5
       DEF Snooze, SnoozeUnknown, ReviseRead, ReviseOpen, Answers

LEMMA TextForward ==
  ASSUME IInv, NEW h \in Handlers,
         \/ TextSelect(h) \/ TextAttach(h) \/ TextReread(h)
         \/ Regenerate(h) \/ RegenerateFails(h)
         \/ CompleteSession(h) \/ FailSession(h)
  PROVE  Forward(h) /\ UNCHANGED <<record, errors, crashes>>
  <1>1. RunType
    BY DEF IInv, TypeInv, TypeOK, RunType
  <1>2. UNCHANGED <<record, errors, crashes>>
    BY DEF TextSelect, TextAttach, TextReread, Regenerate, RegenerateFails,
           CompleteSession, FailSession, tables, bounds
  <1>3. {"attaching", "attached", "revising", "saved", "failing"} \subseteq Steps \ {"idle"}
    BY DEF Steps
  <1>4. CASE TextSelect(h)
    <2>1. run[h].pc = "claimed"
      BY <1>4 DEF TextSelect, EventAt, At
    <2>2. CASE AnswerWith(h, "ignored")
      BY <1>1, <1>2, <2>1, <2>2, AnswerForward DEF Answers
    <2>3. ASSUME NEW k \in DOMAIN session,
                 run' = [run EXCEPT ![h].pc = "attaching",
                                    ![h].batch = k[1], ![h].at = k[2]]
          PROVE  Forward(h)
      <3>1. k[1] \in Batches /\ k[2] \in Times
        BY DEF IInv, TypeInv, TypeOK
      <3>2. Takes(h, k[1], k[2])
        BY <2>3 DEF Takes
      <3>3. Moves(h, "attaching")
        BY <1>1, <3>1, <3>2, AttachingEffect
      <3>4. QED
        BY <1>3, <2>1, <3>3, Ranks DEF Forward
    <2>4. QED
      BY <1>2, <1>4, <2>2, <2>3 DEF TextSelect
  <1>5. CASE TextReread(h)
    <2>1. run[h].pc = "attached"
      BY <1>5 DEF TextReread, At
    <2>2. PICK x \in Events \cup {NoEvent} : x = session[Key(h)].text
      BY <2>1, SessionUpdate DEF IInv, HasSession, Session
    <2>3. run' = [run EXCEPT ![h].pc = "revising", ![h].text = x]
      BY <1>5, <2>2 DEF TextReread
    <2>4. Moves(h, "revising")
      BY <1>1, <2>3, RevisingEffect
    <2>5. QED
      BY <1>2, <1>3, <2>1, <2>4, Ranks DEF Forward
  <1>6. CASE TextAttach(h) \/ Regenerate(h) \/ RegenerateFails(h)
    <2>1. \/ run[h].pc = "attaching" /\ Goto(h, "attached")
          \/ run[h].pc = "revising" /\ (Goto(h, "saved") \/ Goto(h, "failing"))
      BY <1>6 DEF TextAttach, Regenerate, RegenerateFails, At
    <2>2. \/ run[h].pc = "attaching" /\ Moves(h, "attached")
          \/ run[h].pc = "revising" /\ (Moves(h, "saved") \/ Moves(h, "failing"))
      BY <1>1, <2>1, GotoEffect DEF Steps
    <2>3. QED
      BY <1>2, <1>3, <2>2, Ranks DEF Forward
  <1>7. CASE CompleteSession(h) \/ FailSession(h)
    <2>1. /\ run[h].pc \in {"saved", "failing"}
          /\ AnswerWith(h, "revised") \/ Goto(h, "refused")
      BY <1>7 DEF CompleteSession, FailSession, At
    <2>2. QED
      BY <1>1, <1>2, <2>1, AnswerForward DEF Answers
  <1>8. QED
    BY <1>4, <1>5, <1>6, <1>7

\* What a step does to the requests, the claims and the faults.
LEMMA StepForward ==
  ASSUME IInv, [Next]_vars
  PROVE  \/ UNCHANGED <<record, run, errors, crashes>>
         \/ \E h \in Handlers : Forward(h) /\ UNCHANGED <<record, errors, crashes>>
         \/ \E h \in Handlers : Answer(h) \/ Release(h) \/ DbError(h)
         \/ \E h \in Handlers, e \in Events : Deliver(h, e)
         \/ \E i \in Instances : Crash(i)
  <1>1. CASE UNCHANGED vars
    BY <1>1 DEF vars, tables, bounds
  <1>2. ASSUME NEW h \in Handlers, Handle(h)
        PROVE  \/ Forward(h) /\ UNCHANGED <<record, errors, crashes>>
               \/ Answer(h) \/ Release(h)
    BY <1>2, ClickForward, TextForward DEF Handle
  <1>3. ASSUME NEW i \in Instances,
               ScanSave(i) \/ \E b \in Batches : ScanGenerate(i, b)
        PROVE  UNCHANGED <<record, run, errors, crashes>>
    BY <1>3 DEF ScanSave, ScanGenerate, tables, bounds
  <1>4. QED
    BY <1>1, <1>2, <1>3 DEF Next

LEMMA OrphanStep ==
  ASSUME IInv, OrphansNeedFaults, [Next]_vars
  PROVE  OrphansNeedFaults'
  <1>1. RunType /\ errors \in Nat /\ crashes \in Nat
    BY DEF IInv, TypeInv, TypeOK, RunType
  <1>2. CASE UNCHANGED <<record, run, errors, crashes>>
    BY <1>2 DEF OrphansNeedFaults
  <1>3. CASE (\E h \in Handlers : DbError(h)) \/ \E i \in Instances : Crash(i)
    <2>1. errors' + crashes' > 0
      BY <1>1, <1>3 DEF DbError, Crash
    <2>2. QED
      BY <2>1 DEF OrphansNeedFaults
  <1>4. ASSUME NEW h \in Handlers, Forward(h), UNCHANGED <<record, errors, crashes>>
        PROVE  OrphansNeedFaults'
    <2>1. /\ run'[h].event = run[h].event /\ run'[h].pc # "idle"
          /\ \A g \in Handlers \ {h} : run'[g] = run[g]
      BY <1>4 DEF Forward, Moves
    <2>2. QED
      BY <1>4, <2>1 DEF OrphansNeedFaults
  <1>5. ASSUME NEW h \in Handlers, Answer(h) \/ Release(h)
        PROVE  OrphansNeedFaults'
    <2>1. /\ \A g \in Handlers \ {h} : run'[g] = run[g]
          /\ run[h].pc # "idle" /\ UNCHANGED <<errors, crashes>>
          /\ run[h].answer \in Answers
      BY <1>1, <1>5, FinishEffect DEF Answer, Release, At, bounds, RunType, Handler
    <2>2. run[h].event \in Events
      BY <2>1 DEF IInv, ClaimInv, Owner
    <2>3. \A e \in Events :
            record'[e] = "processing" => record[e] = "processing" /\ e # run[h].event
      BY <1>5, <2>1, <2>2 DEF Answer, Release, IInv, TypeInv, TypeOK, Answers
    <2>4. QED
      BY <2>1, <2>3 DEF OrphansNeedFaults
  <1>6. ASSUME NEW h \in Handlers, NEW e \in Events, Deliver(h, e)
        PROVE  OrphansNeedFaults'
    <2>1. /\ run'[h].pc = "claimed" /\ run'[h].event = e /\ run[h].pc = "idle"
          /\ \A g \in Handlers \ {h} : run'[g] = run[g]
          /\ UNCHANGED <<errors, crashes>>
      BY <1>1, <1>6, ClaimedEffect DEF Deliver, bounds
    <2>2. \A x \in Events : x # e => record'[x] = record[x]
      BY <1>6 DEF Deliver, IInv, TypeInv, TypeOK
    <2>3. QED
      BY <2>1, <2>2 DEF OrphansNeedFaults
  <1>7. QED
    BY <1>2, <1>3, <1>4, <1>5, <1>6, StepForward

\* A claim whose request is gone, answered 409 until its record is deleted, is
\* the work of a failed statement or of a crash and of nothing else, however
\* deliveries interleave: the part of ClaimsSettle that is safety.
THEOREM OrphanTheorem == Spec => []OrphansNeedFaults
  <1>1. Init => OrphansNeedFaults
    BY DEF Init, OrphansNeedFaults
  <1>2. IInv /\ OrphansNeedFaults /\ [Next]_vars => OrphansNeedFaults'
    BY OrphanStep
  <1>3. QED
    BY <1>1, <1>2, Invariance, PTL DEF Spec

LEMMA AdvanceStep == IInv /\ [Next]_vars => HandlersAdvance
  <1> SUFFICES ASSUME IInv, [Next]_vars
               PROVE  HandlersAdvance
    OBVIOUS
  <1>1. RunType
    BY DEF IInv, TypeInv, TypeOK, RunType
  <1>2. \A h \in Handlers : run[h].pc \in Steps
    BY <1>1 DEF RunType, Handler
  <1>3. ASSUME \A g \in Handlers : run'[g] = run[g] \/ run'[g].pc = "idle"
        PROVE  HandlersAdvance
    BY <1>2, <1>3, Ranks DEF HandlersAdvance
  <1>4. CASE \E h \in Handlers : Forward(h)
    BY <1>4 DEF HandlersAdvance, Forward, Moves
  <1>5. ASSUME NEW h \in Handlers, Answer(h) \/ Release(h) \/ DbError(h)
        PROVE  HandlersAdvance
    <2>1. CASE Finish(h)
      BY <1>1, <1>3, <2>1, FinishEffect
    <2>2. CASE Goto(h, "refused") /\ run[h].pc \notin {"idle", "refused", "answering"}
      <3>1. Forward(h)
        BY <1>1, <2>2, AnswerForward
      <3>2. QED
        BY <3>1 DEF HandlersAdvance, Forward, Moves
    <2>3. QED
      BY <1>5, <2>1, <2>2 DEF Answer, Release, DbError
  <1>6. ASSUME NEW h \in Handlers, NEW e \in Events, Deliver(h, e)
        PROVE  HandlersAdvance
    <2>1. /\ run[h].pc = "idle"
          /\ \A g \in Handlers \ {h} : run'[g] = run[g]
      BY <1>1, <1>6, ClaimedEffect DEF Deliver
    <2>2. QED
      BY <2>1 DEF HandlersAdvance
  <1>7. ASSUME NEW i \in Instances, Crash(i)
        PROVE  HandlersAdvance
    <2>1. \A g \in Handlers : run'[g] = run[g] \/ run'[g].pc = "idle"
      BY <1>7, IdleType DEF Crash
    <2>2. QED
      BY <1>3, <2>1
  <1>8. CASE UNCHANGED run
    BY <1>8 DEF HandlersAdvance
  <1>9. QED
    BY <1>4, <1>5, <1>6, <1>7, <1>8, StepForward

\* A request takes six steps after its claim at most: no step of it, another or
\* a fault takes it back, so a claim cannot be worked on for ever.
THEOREM AdvanceTheorem == Spec => [][HandlersAdvance]_vars
  BY Invariance, AdvanceStep, PTL DEF Spec

(***************************************************************************)
(* The abstract specification                                              *)
(***************************************************************************)

\* A click that was decided is answered with the decision.
ToldAll ==
  \A h \in Handlers :
    run[h].pc = "answering" /\ decisions[run[h].event] = 1 =>
      run[h].answer = "decided"

LEMMA OnlySnoozeDecides ==
  ASSUME [Next]_vars
  PROVE  UNCHANGED decisions \/ \E h \in Handlers : Snooze(h)
  BY DEF Next, Handle, Deliver, DbError, ScanSave, ScanGenerate, Crash, SnoozeUnknown,
     ReviseRead, ReviseOpen, TextSelect, TextAttach, TextReread, Regenerate,
     RegenerateFails, CompleteSession, FailSession, Answer, Release, tables, vars

\* The decision a snooze writes is its event's first.
LEMMA SnoozeFacts ==
  ASSUME IInv, NEW h \in Handlers, Snooze(h)
  PROVE  /\ run[h].event \in Events /\ record[run[h].event] = "processing"
         /\ decisions[run[h].event] = 0
         /\ decisions' = [decisions EXCEPT ![run[h].event] = 1]
         /\ run'[h].answer = "decided" /\ run'[h].event = run[h].event
         /\ UNCHANGED record
         /\ \A g \in Handlers \ {h} : run'[g] = run[g]
         /\ \A g \in Handlers \ {h} : run[g].pc # "idle" =>
              run[g].event # run[h].event
  <1>1. /\ run[h].pc = "claimed" /\ UNCHANGED record
        /\ decisions' = [decisions EXCEPT ![run[h].event] = @ + 1]
    BY DEF Snooze, EventAt, At
  <1>2. Moves(h, "answering") /\ run'[h].answer = "decided"
    BY AnswerEffect DEF Snooze, IInv, TypeInv, TypeOK, RunType, Answers
  <1>3. run[h].event \in Events /\ record[run[h].event] = "processing"
    BY <1>1 DEF IInv, ClaimInv, Owner
  <1>4. decisions[run[h].event] = 0
    BY <1>1, <1>3 DEF IInv, ClaimInv, DecidedOnce
  <1>5. decisions' = [decisions EXCEPT ![run[h].event] = 1]
    BY <1>1, <1>4
  <1>6. \A g \in Handlers \ {h} : run[g].pc # "idle" => run[g].event # run[h].event
    BY <1>1 DEF IInv, ClaimInv, OneProcessor
  <1>7. QED
    BY <1>1, <1>2, <1>3, <1>4, <1>5, <1>6 DEF Moves

LEMMA ToldAllStep ==
  ASSUME IInv, ToldAll, [Next]_vars
  PROVE  ToldAll'
  <1>1. RunType /\ decisions \in [Events -> Nat]
    BY DEF IInv, TypeInv, TypeOK, RunType
  <1>2. ASSUME NEW h \in Handlers, Snooze(h)
        PROVE  ToldAll'
    <2>1. /\ run'[h].answer = "decided"
          /\ \A x \in Events \ {run[h].event} : decisions'[x] = decisions[x]
          /\ \A g \in Handlers \ {h} : run'[g] = run[g]
          /\ \A g \in Handlers \ {h} : run[g].pc # "idle" =>
               run[g].event # run[h].event
      <3>1. decisions' = [decisions EXCEPT ![run[h].event] = 1]
        BY <1>2, SnoozeFacts
      <3>2. \A x \in Events \ {run[h].event} : decisions'[x] = decisions[x]
        BY <1>1, <3>1
      <3>3. run'[h].answer = "decided"
        BY <1>2, SnoozeFacts
      <3>4. QED
        BY <1>2, <3>2, <3>3, SnoozeFacts
    <2>2. \A g \in Handlers : run[g].pc # "idle" => run[g].event \in Events
      BY DEF IInv, ClaimInv, Owner
    <2>3. ASSUME NEW g \in Handlers, (run[g].pc = "answering")',
                 (decisions[run[g].event] = 1)'
          PROVE  (run[g].answer = "decided")'
      <3>1. CASE g = h
        BY <2>1, <3>1
      <3>2. CASE g # h
        <4>1. /\ run'[g] = run[g] /\ run[g].pc = "answering"
              /\ run[g].event \in Events \ {run[h].event}
          BY <2>1, <2>2, <2>3, <3>2
        <4>2. decisions[run[g].event] = 1
          BY <2>1, <2>3, <4>1
        <4>3. QED
          BY <4>1, <4>2 DEF ToldAll
      <3>3. QED
        BY <3>1, <3>2
    <2>4. QED
      BY <2>3 DEF ToldAll
  <1>3. ASSUME UNCHANGED decisions, NEW h \in Handlers, Forward(h)
        PROVE  ToldAll'
    <2>1. /\ run[h].pc \notin {"idle", "answering"}
          /\ run'[h].event = run[h].event
          /\ \A g \in Handlers \ {h} : run'[g] = run[g]
      <3>1. PICK p \in Steps \ {"idle"} : Moves(h, p) /\ Rank[p] < Rank[run[h].pc]
        BY <1>3 DEF Forward
      <3>2. /\ Rank["idle"] = 0 /\ Rank["answering"] = 1 /\ Rank[p] >= 1
            /\ Rank[p] \in Nat
        BY <3>1 DEF Rank, Steps
      <3>3. run[h].pc \notin {"idle", "answering"}
        BY <3>1, <3>2
      <3>4. QED
        BY <3>1, <3>3 DEF Moves
    <2>2. decisions[run[h].event] = 0
      BY <2>1 DEF IInv, ClaimInv, Owner, DecidedOnce
    <2>3. QED
      BY <1>3, <2>1, <2>2 DEF ToldAll
  <1>4. ASSUME UNCHANGED decisions,
               \A g \in Handlers : run'[g] = run[g] \/ run'[g].pc # "answering"
        PROVE  ToldAll'
    BY <1>4 DEF ToldAll
  <1>5. ASSUME NEW h \in Handlers, Answer(h) \/ Release(h) \/ DbError(h)
        PROVE  \A g \in Handlers : run'[g] = run[g] \/ run'[g].pc # "answering"
    <2>1. CASE Finish(h)
      BY <1>1, <2>1, FinishEffect
    <2>2. CASE Goto(h, "refused")
      BY <1>1, <2>2, GotoEffect DEF Moves, Steps
    <2>3. QED
      BY <1>5, <2>1, <2>2 DEF Answer, Release, DbError
  <1>6. ASSUME NEW h \in Handlers, NEW e \in Events, Deliver(h, e)
        PROVE  \A g \in Handlers : run'[g] = run[g] \/ run'[g].pc # "answering"
    BY <1>1, <1>6, ClaimedEffect DEF Deliver
  <1>7. ASSUME NEW i \in Instances, Crash(i)
        PROVE  \A g \in Handlers : run'[g] = run[g] \/ run'[g].pc # "answering"
    BY <1>7, IdleType DEF Crash
  <1>8. CASE UNCHANGED decisions
    BY <1>3, <1>4, <1>5, <1>6, <1>7, <1>8, StepForward
  <1>9. QED
    BY <1>2, <1>8, OnlySnoozeDecides

LEMMA ClaimStateIs ==
  /\ ClaimState("none") = "free" /\ ClaimState("processing") = "held"
  /\ \A a \in Answers : ClaimState(a) = "answered"
  BY DEF ClaimState, Answers

\* A step that writes the record of one event and no decision.
LEMMA ClaimsUpdate ==
  ASSUME IInv, NEW e \in Events, NEW r \in {"none", "processing"} \cup Answers,
         record' = [record EXCEPT ![e] = r], UNCHANGED decisions
  PROVE  /\ Claims' = [Claims EXCEPT ![e] = ClaimState(r)]
         /\ Claims[e] = ClaimState(record[e])
         /\ Decided' = Decided
         /\ Reported' = [Reported EXCEPT ![e] = IF r = "decided" THEN {1} ELSE {}]
  <1>1. \A x \in Events : record'[x] = IF x = e THEN r ELSE record[x]
    BY DEF IInv, TypeInv, TypeOK
  <1>2. Claims' = [x \in Events |-> IF x = e THEN ClaimState(r) ELSE Claims[x]]
    BY <1>1 DEF Claims
  <1>3. Reported' = [x \in Events |-> IF x = e THEN IF r = "decided" THEN {1} ELSE {}
                                      ELSE Reported[x]]
    BY <1>1 DEF Reported
  <1>4. Claims' = [Claims EXCEPT ![e] = ClaimState(r)] /\ Claims[e] = ClaimState(record[e])
    BY <1>2 DEF Claims
  <1>5. Reported' = [Reported EXCEPT ![e] = IF r = "decided" THEN {1} ELSE {}]
    BY <1>3 DEF Reported
  <1>6. QED
    BY <1>4, <1>5 DEF Decided

LEMMA KeyedDeliver ==
  ASSUME IInv, NEW h \in Handlers, NEW e \in Events, Deliver(h, e)
  PROVE  Keyed!Hold(e)
  <1>1. /\ record[e] = "none" /\ record' = [record EXCEPT ![e] = "processing"]
        /\ UNCHANGED decisions
    BY DEF Deliver
  <1>2. PICK r \in {"none", "processing"} \cup Answers : r = "processing"
    OBVIOUS
  <1>3. record' = [record EXCEPT ![e] = r] /\ r # "decided"
    BY <1>1, <1>2
  <1>4. /\ Claims' = [Claims EXCEPT ![e] = ClaimState(r)]
        /\ Claims[e] = ClaimState(record[e]) /\ Decided' = Decided
        /\ Reported' = [Reported EXCEPT ![e] = IF r = "decided" THEN {1} ELSE {}]
    BY <1>1, <1>3, ClaimsUpdate
  <1>5. /\ Claims' = [Claims EXCEPT ![e] = "held"] /\ Claims[e] = "free"
        /\ Decided' = Decided /\ Reported' = [Reported EXCEPT ![e] = {}]
    BY <1>1, <1>2, <1>3, <1>4, ClaimStateIs
  <1>6. Reported' = Reported
    BY <1>1, <1>5 DEF Reported
  <1>7. QED
    BY <1>5, <1>6 DEF Keyed!Hold

LEMMA KeyedSnooze ==
  ASSUME IInv, NEW h \in Handlers, Snooze(h)
  PROVE  Keyed!Work(run[h].event)
  <1> DEFINE e == run[h].event
  <1>1. /\ e \in Events /\ record[e] = "processing" /\ decisions[e] = 0
        /\ decisions' = [decisions EXCEPT ![e] = 1] /\ UNCHANGED record
    BY SnoozeFacts
  <1> HIDE DEF e
  <1>2. \A x \in Events : decisions'[x] = IF x = e THEN 1 ELSE decisions[x]
    BY <1>1 DEF IInv, TypeInv, TypeOK
  <1>3. Decided' = [x \in Events |-> IF x = e THEN {1} ELSE Decided[x]]
    BY <1>2 DEF Decided
  <1>4. Decided' = [Decided EXCEPT ![e] = {1}] /\ Decided'[e] = {1}
    BY <1>1, <1>3 DEF Decided
  <1>5. Decided[e] = {} /\ Claims[e] = "held"
    BY <1>1, ClaimStateIs DEF Decided, Claims
  <1>6. UNCHANGED <<Claims, Reported>>
    BY <1>1 DEF Claims, Reported
  <1>7. \E f \in Decided'[e] : f \in {1} /\ Decided' = [Decided EXCEPT ![e] = {f}]
    BY <1>4
  <1>8. Keyed!Work(e)
    BY <1>5, <1>6, <1>7 DEF Keyed!Work
  <1>9. QED
    BY <1>8 DEF e

LEMMA KeyedRelease ==
  ASSUME IInv, NEW h \in Handlers, Release(h)
  PROVE  run[h].event \in Events /\ Keyed!LetGo(run[h].event)
  <1> DEFINE e == run[h].event
  <1>1. /\ run[h].pc = "refused" /\ record' = [record EXCEPT ![e] = "none"]
        /\ UNCHANGED decisions
    BY DEF Release, At
  <1>2. e \in Events /\ record[e] = "processing"
    BY <1>1 DEF IInv, ClaimInv, Owner
  <1>3. decisions[e] = 0
    BY <1>1, <1>2 DEF IInv, ClaimInv, DecidedOnce
  <1> HIDE DEF e
  <1>4. PICK r \in {"none", "processing"} \cup Answers : r = "none"
    OBVIOUS
  <1>5. record' = [record EXCEPT ![e] = r] /\ r # "decided"
    BY <1>1, <1>4
  <1>6. /\ Claims' = [Claims EXCEPT ![e] = ClaimState(r)]
        /\ Claims[e] = ClaimState(record[e]) /\ Decided' = Decided
        /\ Reported' = [Reported EXCEPT ![e] = IF r = "decided" THEN {1} ELSE {}]
    BY <1>1, <1>2, <1>5, ClaimsUpdate
  <1>7. /\ Claims' = [Claims EXCEPT ![e] = "free"] /\ Claims[e] = "held"
        /\ Decided' = Decided /\ Reported' = [Reported EXCEPT ![e] = {}]
    BY <1>2, <1>4, <1>5, <1>6, ClaimStateIs
  <1>8. Reported' = Reported
    BY <1>2, <1>7 DEF Reported
  <1>9. Decided[e] = {}
    BY <1>2, <1>3 DEF Decided
  <1>10. Keyed!LetGo(e)
    BY <1>7, <1>8, <1>9 DEF Keyed!LetGo
  <1>11. QED
    BY <1>2, <1>10 DEF e

LEMMA KeyedAnswer ==
  ASSUME IInv, ToldAll, NEW h \in Handlers, Answer(h)
  PROVE  run[h].event \in Events /\ Keyed!Settle(run[h].event)
  <1> DEFINE e == run[h].event
             a == run[h].answer
  <1>1. /\ run[h].pc = "answering" /\ record' = [record EXCEPT ![e] = a]
        /\ UNCHANGED decisions
    BY DEF Answer, At
  <1>2. e \in Events /\ record[e] = "processing" /\ a \in Answers
    BY <1>1 DEF IInv, TypeInv, TypeOK, Handler, ClaimInv, Owner
  <1>3. decisions[e] \in {0, 1} /\ (a = "decided" <=> decisions[e] = 1)
    <2>1. decisions[e] \in {0, 1}
      BY <1>2 DEF IInv, ClaimInv, DecidedOnce
    <2>2. a = "decided" => decisions[e] = 1
      BY <1>1 DEF IInv, ClaimInv, Evidenced
    <2>3. decisions[e] = 1 => a = "decided"
      BY <1>1 DEF ToldAll
    <2>4. QED
      BY <2>1, <2>2, <2>3
  <1> HIDE DEF e, a
  <1>4. PICK r \in {"none", "processing"} \cup Answers : r = a
    BY <1>2
  <1>5. /\ Claims' = [Claims EXCEPT ![e] = ClaimState(r)]
        /\ Claims[e] = ClaimState(record[e]) /\ Decided' = Decided
        /\ Reported' = [Reported EXCEPT ![e] = IF r = "decided" THEN {1} ELSE {}]
    BY <1>1, <1>2, <1>4, ClaimsUpdate
  <1>6. /\ Claims' = [Claims EXCEPT ![e] = "answered"] /\ Claims[e] = "held"
        /\ Decided' = Decided
        /\ Reported' = [Reported EXCEPT ![e] = IF a = "decided" THEN {1} ELSE {}]
    BY <1>2, <1>4, <1>5, ClaimStateIs
  <1>7. Decided[e] = IF a = "decided" THEN {1} ELSE {}
    BY <1>2, <1>3 DEF Decided
  <1>8. Keyed!Settle(e)
    BY <1>6, <1>7 DEF Keyed!Settle
  <1>9. QED
    BY <1>2, <1>8 DEF e

\* To WeCom an event is one exchange whatever crashes, fails or is delivered
\* again: it is let go of only undecided, decided once, and answered, for good,
\* with the decision it has.
THEOREM EventsRefinementTheorem == Spec => ImplementsIdempotency
  <1>1. Init => Keyed!Init /\ ToldAll
    BY ClaimStateIs, IdleType
       DEF Init, Keyed!Init, Claims, Decided, Reported, ToldAll
  <1>2. IInv /\ ToldAll /\ [Next]_vars => ToldAll'
    BY ToldAllStep
  <1>3. ASSUME IInv, ToldAll, [Next]_vars
        PROVE  [Keyed!Next]_<<Claims, Decided, Reported>>
    <2>1. CASE UNCHANGED <<record, decisions>>
      BY <2>1 DEF Claims, Decided, Reported
    <2>2. ASSUME NEW h \in Handlers, Snooze(h)
          PROVE  Keyed!Next
      BY <1>3, <2>2, KeyedSnooze, SnoozeFacts DEF Keyed!Next
    <2>3. ASSUME NEW h \in Handlers, Answer(h) \/ Release(h)
          PROVE  Keyed!Next
      BY <1>3, <2>3, KeyedAnswer, KeyedRelease DEF Keyed!Next
    <2>4. ASSUME NEW h \in Handlers, NEW e \in Events, Deliver(h, e)
          PROVE  Keyed!Next
      BY <1>3, <2>4, KeyedDeliver DEF Keyed!Next
    <2>5. (\E h \in Handlers : DbError(h)) \/ (\E i \in Instances : Crash(i))
            => UNCHANGED <<record, decisions>>
      BY DEF DbError, Crash, tables
    <2>6. QED
      BY <1>3, <2>1, <2>2, <2>3, <2>4, <2>5, StepForward, OnlySnoozeDecides
  <1>4. QED
    BY <1>1, <1>2, <1>3, Invariance, PTL DEF Spec, ImplementsIdempotency, Keyed!Spec
=============================================================================
