--------------------------- MODULE CommandsProofs ---------------------------
(***************************************************************************)
(* Theorems about Commands for any instances, keys, orders, windows,       *)
(* requests and any limit: a key is carried out once and has one holder,   *)
(* approvals and plans stay whole, and the shared limit holds until a      *)
(* request of a later window is counted.                                   *)
(***************************************************************************)
EXTENDS Commands, ApprovalsProofs, FiniteSetTheorems

(***************************************************************************)
(* Keys                                                                    *)
(***************************************************************************)

HoldPhases == {"claimed", "updating", "worked"}

\* A request r that holds its key has the record in process, and what was
\* done under the key is what its phase says.
OwnOK(r, record_t, done_t, k) ==
  /\ r \in Request
  /\ r.phase # "idle" => r.token \in AllTokens /\ r.work \in Works
  /\ r.phase \in HoldPhases => record_t.status = "processing"
  /\ r.phase \in {"claimed", "updating"} => done_t = {}
  /\ r.phase = "worked" => r.result \in Result /\ done_t = {r.result}
  /\ r.phase = "updating" => k # NoCall /\ k.target.receipt \in Receipts

\* A completed record stores what was done, an answer was given from it; one
\* that is not completed was never answered.
BooksOK(record_t, done_t, told_t) ==
  /\ record_t.status = "absent" => done_t = {} /\ told_t = {}
  /\ record_t.status = "processing" =>
       told_t = {} /\ (done_t = {} \/ \E r \in Result : done_t = {r})
  /\ record_t.status = "completed" =>
       /\ record_t.result \in Result
       /\ done_t = {record_t.result}
       /\ told_t = done_t

HeldBy(c, t) == Holding(c) /\ req[c].token = t

KeyTypes ==
  /\ req \in [Clients -> Request]
  /\ record \in [AllTokens -> Record]
  /\ done \in [AllTokens -> SUBSET Result]
  /\ told \in [AllTokens -> SUBSET Result]
  /\ stranded \subseteq AllTokens

Held ==
  /\ KeyTypes
  /\ \A c \in Clients :
       OwnOK(req[c], record[req[c].token], done[req[c].token], call[c])
  /\ \A t \in AllTokens : \A c, d \in Clients :
       HeldBy(c, t) /\ HeldBy(d, t) => c = d
  /\ \A t \in AllTokens :
       /\ BooksOK(record[t], done[t], told[t])
       /\ record[t].status = "processing" =>
            t \in stranded \/ \E c \in Clients : HeldBy(c, t)

(***************************************************************************)
(* The tables of Approvals                                                 *)
(***************************************************************************)

\* Commands write the tables by Approvals' own operations, and an instance
\* that dies gives up the update it was at.
LEMMA TablesStep ==
  ASSUME Held, CommandsNext \/ UNCHANGED commandsVars
  PROVE  \/ [Next]_vars
         \/ \E c \in Clients : /\ call' = [call EXCEPT ![c] = NoCall]
                               /\ UNCHANGED <<tables, answers>>
  <1>1. CASE OtherStep
    BY <1>1 DEF OtherStep, Next
  <1>2. CASE NextWindow \/ UNCHANGED commandsVars
    BY <1>2 DEF NextWindow, commandsVars
  <1>3. ASSUME NEW c \in Clients, CommandStep(c)
        PROVE  \/ [Next]_vars
               \/ /\ call' = [call EXCEPT ![c] = NoCall]
                  /\ UNCHANGED <<tables, answers>>
    <2>1. CASE \E t \in AllTokens, w \in Works : Arrive(c, t, w)
      BY <2>1 DEF Arrive
    <2>2. CASE Admit(c) \/ TurnAway(c) \/ ClaimInsert(c) \/ ClaimSelect(c)
                 \/ ScanEnds(c) \/ Respond(c)
      BY <2>2 DEF Admit, TurnAway, ClaimInsert, ClaimSelect, ScanEnds, Respond
    <2>3. CASE ReadForCompletion(c)
      <3>1. req[c].work # Scan /\ ReadOrder(c, req[c].work)
        BY <2>3 DEF ReadForCompletion
      <3>2. req[c].work \in Batches
        <4>1. req[c].phase = "claimed" /\ OwnOK(req[c], record[req[c].token],
                                                done[req[c].token], call[c])
          BY <2>3 DEF ReadForCompletion, Held
        <4>2. QED
          BY <3>1, <4>1 DEF OwnOK, Works
      <3>3. QED
        BY <3>1, <3>2 DEF Next
    <2>4. CASE WriteCompletion(c)
      BY <2>4 DEF WriteCompletion, Next
    <2>5. CASE WorkFails(c)
      BY <2>5 DEF WorkFails, Next
    <2>6. CASE Vanish(c)
      BY <2>6 DEF Vanish
    <2>7. QED
      BY <1>3, <2>1, <2>2, <2>3, <2>4, <2>5, <2>6 DEF CommandStep
  <1>4. QED
    BY <1>1, <1>2, <1>3 DEF CommandsNext

LEMMA TablesKept ==
  ASSUME IInv, FiguresInv, Held, CommandsNext \/ UNCHANGED commandsVars
  PROVE  IInv' /\ FiguresInv'
  <1>1. CASE [Next]_vars
    BY <1>1, IInvStep, FiguresInvStep
  <1>2. ASSUME NEW c \in Clients, call' = [call EXCEPT ![c] = NoCall],
               UNCHANGED <<tables, answers>>
        PROVE  IInv' /\ FiguresInv'
    <2>1. IInv'
      BY <1>2 DEF IInv, TypeOK, ApprovalIsWhole, PlanIsWhole, CallsHaveRows, tables
    <2>2. FiguresInv'
      BY <1>2 DEF IInv, TypeOK, FiguresInv, CallsWellFormed, FiguresAgree,
         ClicksMatch, AnswersNameTheOrder, tables
    <2>3. QED
      BY <2>1, <2>2
  <1>3. QED
    BY <1>1, <1>2, TablesStep

(***************************************************************************)
(* What a step does to a key                                               *)
(***************************************************************************)

\* A step of the client c with the key t.  Either c holds the key, or nobody
\* does since its record is absent, or the step leaves record and work alone.
LEMMA KeyStep ==
  ASSUME Held, NEW c \in Clients, NEW t \in AllTokens,
         NEW r \in Request, NEW rc \in Record,
         NEW dn \in SUBSET Result, NEW td \in SUBSET Result,
         req' = [req EXCEPT ![c] = r],
         record' = [record EXCEPT ![t] = rc],
         done' = [done EXCEPT ![t] = dn],
         told' = [told EXCEPT ![t] = td],
         stranded' \in {stranded, stranded \cup {t}},
         \A d \in Clients \ {c} : call'[d] = call[d],
         r.phase \in HoldPhases => r.token = t,
         r.phase # "idle" => r.token \in AllTokens,
         Holding(c) => req[c].token = t,
         \/ Holding(c)
         \/ record[t].status = "absent"
         \/ rc = record[t] /\ dn = done[t] /\ r.phase \notin HoldPhases,
         OwnOK(r, rc, dn, call'[c]),
         BooksOK(rc, dn, td),
         rc.status = "processing" =>
           \/ t \in stranded'
           \/ r.phase \in HoldPhases
           \/ ~Holding(c) /\ rc = record[t]
  PROVE  Held'
  <1>1. /\ req \in [Clients -> Request] /\ record \in [AllTokens -> Record]
        /\ done \in [AllTokens -> SUBSET Result]
        /\ told \in [AllTokens -> SUBSET Result]
        /\ stranded \subseteq AllTokens
    BY DEF Held, KeyTypes
  <1>2. KeyTypes'
    BY <1>1 DEF KeyTypes
  <1>3. /\ req'[c] = r /\ \A d \in Clients \ {c} : req'[d] = req[d]
        /\ record'[t] = rc /\ done'[t] = dn /\ told'[t] = td
        /\ \A u \in AllTokens \ {t} :
             record'[u] = record[u] /\ done'[u] = done[u] /\ told'[u] = told[u]
    BY <1>1
  <1>4. \A d \in Clients \ {c}, u \in AllTokens : HeldBy(d, u)' <=> HeldBy(d, u)
    BY <1>3 DEF HeldBy, Holding
  <1>5. \A u \in AllTokens : HeldBy(c, u)' => u = t /\ r.phase \in HoldPhases
    BY <1>3 DEF HeldBy, Holding, HoldPhases
  <1>6. r.phase \in HoldPhases => HeldBy(c, t)'
    BY <1>3 DEF HeldBy, Holding, HoldPhases
  <1>7. ASSUME NEW d \in Clients \ {c}, HeldBy(d, t)
        PROVE  ~Holding(c) /\ rc = record[t] /\ dn = done[t]
               /\ r.phase \notin HoldPhases
    <2>1. record[t].status = "processing"
      BY <1>7 DEF Held, OwnOK, HeldBy, Holding, HoldPhases
    <2>2. ~Holding(c)
      BY <1>7 DEF Held, HeldBy
    <2>3. QED
      BY <2>1, <2>2
  <1>8. \A u \in AllTokens : \A d, e \in Clients :
          HeldBy(d, u)' /\ HeldBy(e, u)' => d = e
    <2> SUFFICES ASSUME NEW u \in AllTokens, NEW d \in Clients, NEW e \in Clients,
                        HeldBy(d, u)', HeldBy(e, u)', d # e
                 PROVE  FALSE
      OBVIOUS
    <2>1. CASE d # c /\ e # c
      BY <1>4, <2>1 DEF Held
    <2>2. CASE d = c
      BY <1>4, <1>5, <1>7, <2>2
    <2>3. CASE e = c
      BY <1>4, <1>5, <1>7, <2>3
    <2>4. QED
      BY <2>1, <2>2, <2>3
  <1>9. ASSUME NEW d \in Clients
        PROVE  OwnOK(req[d], record[req[d].token], done[req[d].token], call[d])'
    <2>1. CASE d = c
      <3>1. CASE r.phase \in HoldPhases
        BY <1>3, <2>1, <3>1
      <3>2. CASE r.phase \notin HoldPhases
        BY <1>3, <2>1, <3>2 DEF OwnOK, HoldPhases
      <3>3. QED
        BY <3>1, <3>2
    <2>2. CASE d # c
      <3>1. /\ OwnOK(req[d], record[req[d].token], done[req[d].token], call[d])
            /\ req'[d] = req[d] /\ call'[d] = call[d]
        BY <1>3, <2>2 DEF Held
      <3>2. CASE Holding(d)
        <4>1. req[d].token \in AllTokens
          BY <3>1, <3>2 DEF OwnOK, Holding
        <4>2. record'[req[d].token] = record[req[d].token]
              /\ done'[req[d].token] = done[req[d].token]
          BY <1>3, <1>7, <2>2, <3>2, <4>1 DEF HeldBy
        <4>3. QED
          BY <3>1, <4>2
      <3>3. CASE ~Holding(d)
        BY <3>1, <3>3 DEF OwnOK, HoldPhases, Holding
      <3>4. QED
        BY <3>2, <3>3
    <2>3. QED
      BY <2>1, <2>2
  <1>10. ASSUME NEW u \in AllTokens
         PROVE  /\ BooksOK(record[u], done[u], told[u])'
                /\ record'[u].status = "processing" =>
                     u \in stranded' \/ \E d \in Clients : HeldBy(d, u)'
    <2>1. CASE u = t
      <3>1. BooksOK(record[u], done[u], told[u])'
        BY <1>3, <2>1
      <3>2. ASSUME record'[u].status = "processing", t \notin stranded',
                   r.phase \notin HoldPhases
            PROVE  \E d \in Clients : HeldBy(d, u)'
        <4>1. ~Holding(c) /\ record[t].status = "processing" /\ t \notin stranded
          BY <1>3, <2>1, <3>2
        <4>2. PICK d \in Clients : HeldBy(d, t)
          BY <4>1 DEF Held
        <4>3. d # c
          BY <4>1, <4>2 DEF HeldBy
        <4>4. QED
          BY <1>4, <2>1, <4>2, <4>3
      <3>3. QED
        BY <1>6, <2>1, <3>1, <3>2
    <2>2. CASE u # t
      <3>1. /\ BooksOK(record[u], done[u], told[u])
            /\ record[u].status = "processing" =>
                 u \in stranded \/ \E d \in Clients : HeldBy(d, u)
        BY DEF Held
      <3>2. \A d \in Clients : HeldBy(d, u) => d # c
        BY <2>2 DEF HeldBy
      <3>3. QED
        BY <1>3, <1>4, <2>2, <3>1, <3>2
    <2>3. QED
      BY <2>1, <2>2
  <1>11. QED
    BY <1>2, <1>8, <1>9, <1>10 DEF Held

\* The same for a step that leaves the key's record and work alone.
LEMMA QuietStep ==
  ASSUME Held, NEW c \in Clients, NEW r \in Request,
         req' = [req EXCEPT ![c] = r],
         UNCHANGED <<record, done, told, stranded>>,
         \A d \in Clients \ {c} : call'[d] = call[d],
         r.phase \notin HoldPhases, ~Holding(c),
         r.phase # "idle" => r.token \in AllTokens /\ r.work \in Works
  PROVE  Held'
  <1>1. CASE AllTokens = {}
    <2>1. KeyTypes'
      BY DEF Held, KeyTypes
    <2>2. r.phase = "idle" /\ OwnOK(r, record[r.token], done[r.token], call'[c])
      BY <1>1 DEF OwnOK, HoldPhases
    <2>3. ASSUME NEW d \in Clients
          PROVE  OwnOK(req[d], record[req[d].token], done[req[d].token], call[d])'
      <3>1. CASE d = c
        BY <2>2, <3>1 DEF Held, KeyTypes
      <3>2. CASE d # c
        BY <3>2 DEF Held, KeyTypes
      <3>3. QED
        BY <3>1, <3>2
    <2>4. QED
      BY <1>1, <2>1, <2>3 DEF Held
  <1>2. CASE AllTokens # {}
    <2>1. PICK t \in AllTokens : r.phase # "idle" => r.token = t
      BY <1>2
    <2>2. PICK rc \in Record, dn \in SUBSET Result, td \in SUBSET Result :
            rc = record[t] /\ dn = done[t] /\ td = told[t]
      BY DEF Held, KeyTypes
    <2>3. /\ record' = [record EXCEPT ![t] = rc]
          /\ done' = [done EXCEPT ![t] = dn]
          /\ told' = [told EXCEPT ![t] = td]
      BY <2>2 DEF Held, KeyTypes
    <2>4. OwnOK(r, rc, dn, call'[c])
      BY DEF OwnOK, HoldPhases
    <2>5. BooksOK(rc, dn, td)
      BY <2>2 DEF Held
    <2>6. /\ stranded' \in {stranded, stranded \cup {t}}
          /\ r.phase \in HoldPhases => r.token = t
          /\ r.phase # "idle" => r.token \in AllTokens
          /\ Holding(c) => req[c].token = t
          /\ \/ Holding(c)
             \/ record[t].status = "absent"
             \/ rc = record[t] /\ dn = done[t] /\ r.phase \notin HoldPhases
          /\ rc.status = "processing" =>
               \/ t \in stranded'
               \/ r.phase \in HoldPhases
               \/ ~Holding(c) /\ rc = record[t]
      BY <2>2
    <2>7. QED
      BY <2>3, <2>4, <2>5, <2>6, KeyStep
  <1>3. QED
    BY <1>1, <1>2

\* The same for a step that leaves the requests and the keys alone.
LEMMA HeldStill ==
  ASSUME Held, UNCHANGED <<req, record, done, told, stranded>>,
         \A c \in Clients : req[c].phase = "updating" => call'[c] = call[c]
  PROVE  Held'
  <1>1. KeyTypes'
    BY DEF Held, KeyTypes
  <1>2. ASSUME NEW c \in Clients
        PROVE  OwnOK(req[c], record[req[c].token], done[req[c].token], call[c])'
    BY DEF Held, OwnOK
  <1>3. \A c \in Clients, t \in AllTokens : HeldBy(c, t)' <=> HeldBy(c, t)
    BY DEF HeldBy, Holding
  <1>4. QED
    BY <1>1, <1>2, <1>3 DEF Held

LEMMA NoRequestIs == NoRequest \in Request /\ NoRequest.phase = "idle"
  BY CommandsAssumption DEF NoRequest, Request, Windows


\* The request a client works on, its key and what the invariant says of them.
LEMMA OwnFacts ==
  ASSUME Held, NEW c \in Clients, req[c].phase # "idle"
  PROVE  /\ req[c] \in Request /\ req[c].token \in AllTokens
         /\ req[c].work \in Works
         /\ OwnOK(req[c], record[req[c].token], done[req[c].token], call[c])
         /\ BooksOK(record[req[c].token], done[req[c].token],
                    told[req[c].token])
         /\ record[req[c].token] \in Record
         /\ done[req[c].token] \in SUBSET Result
         /\ told[req[c].token] \in SUBSET Result
         /\ Holding(c) <=> req[c].phase \in HoldPhases
  BY DEF Held, KeyTypes, OwnOK, Holding, HoldPhases

LEMMA HeldLimiter ==
  ASSUME Held, window \in Windows, NEW c \in Clients,
         \/ \E t \in AllTokens, w \in Works : Arrive(c, t, w)
         \/ Admit(c) \/ TurnAway(c)
  PROVE  Held'
  <1>1. UNCHANGED <<record, done, told, stranded, call>>
    BY DEF Arrive, Admit, TurnAway, vars
  <1>2. ASSUME NEW t \in AllTokens, NEW w \in Works, Arrive(c, t, w)
        PROVE  Held'
    <2> DEFINE r == [NoRequest EXCEPT !.phase = "stamped", !.token = t,
                                      !.work = w, !.window = window]
    <2>1. req' = [req EXCEPT ![c] = r] /\ req[c].phase = "idle"
      BY <1>2 DEF Arrive
    <2>2. r \in Request /\ r.phase = "stamped" /\ r.token = t /\ r.work = w
      BY NoRequestIs DEF Request, NoRequest
    <2> HIDE DEF r
    <2>3. r.phase \notin HoldPhases /\ ~Holding(c)
      BY <2>1, <2>2 DEF HoldPhases, Holding
    <2>4. QED
      BY <1>1, <2>1, <2>2, <2>3, QuietStep
  <1>3. CASE Admit(c) \/ TurnAway(c)
    <2> DEFINE r == [req[c] EXCEPT !.phase = "admitted"]
    <2>1. req[c].phase \in {"stamped", "admitted"}
      BY <1>3 DEF Admit, TurnAway
    <2>2. req[c] \in Request /\ req[c].token \in AllTokens
          /\ req[c].work \in Works /\ ~Holding(c)
      BY <2>1, OwnFacts DEF HoldPhases
    <2>3. r \in Request /\ r.phase = "admitted" /\ r.token = req[c].token
          /\ r.work = req[c].work
      BY <2>2 DEF Request
    <2>4. \/ req' = [req EXCEPT ![c] = r]
          \/ req' = [req EXCEPT ![c] = NoRequest]
      BY <1>3 DEF Admit, TurnAway
    <2> HIDE DEF r
    <2>5. CASE req' = [req EXCEPT ![c] = r]
      <3>1. r.phase \notin HoldPhases
        BY <2>3 DEF HoldPhases
      <3>2. QED
        BY <1>1, <2>2, <2>3, <2>5, <3>1, QuietStep
    <2>6. CASE req' = [req EXCEPT ![c] = NoRequest]
      <3>1. NoRequest.phase \notin HoldPhases
        BY NoRequestIs DEF HoldPhases
      <3>2. QED
        BY <1>1, <2>2, <2>6, <3>1, NoRequestIs, QuietStep
    <2>7. QED
      BY <2>4, <2>5, <2>6
  <1>4. QED
    BY <1>2, <1>3

LEMMA HeldClaim ==
  ASSUME Held, NEW c \in Clients, ClaimInsert(c)
  PROVE  Held'
  <1> DEFINE t == req[c].token
             r == [req[c] EXCEPT !.phase = "claimed"]
             q == [req[c] EXCEPT !.phase = "conflict"]
  <1>1. /\ req[c].phase = "admitted"
        /\ UNCHANGED <<done, told, stranded, call>>
    BY DEF ClaimInsert, vars
  <1>2. /\ req[c] \in Request /\ t \in AllTokens /\ req[c].work \in Works
        /\ ~Holding(c) /\ BooksOK(record[t], done[t], told[t])
        /\ done[t] \in SUBSET Result /\ told[t] \in SUBSET Result
    BY <1>1, OwnFacts DEF HoldPhases
  <1>3. /\ r \in Request /\ r.phase = "claimed" /\ r.token = t
        /\ r.work = req[c].work
        /\ q \in Request /\ q.phase = "conflict" /\ q.token = t
        /\ q.work = req[c].work
    BY <1>2 DEF Request
  <1>4. CASE record[t] = Absent
    <2>1. record' = [record EXCEPT ![t] = Processing]
          /\ req' = [req EXCEPT ![c] = r]
      BY <1>4 DEF ClaimInsert
    <2>2. record[t].status = "absent" /\ done[t] = {} /\ told[t] = {}
      BY <1>2, <1>4 DEF Absent, BooksOK
    <2>3. /\ Processing \in Record /\ Processing.status = "processing"
      BY DEF Processing, Record
    <2>4. /\ done' = [done EXCEPT ![t] = done[t]]
          /\ told' = [told EXCEPT ![t] = told[t]]
      BY <1>1 DEF Held, KeyTypes
    <2> HIDE DEF r, q, t
    <2>5. OwnOK(r, Processing, done[t], call'[c])
      BY <1>2, <1>3, <2>2, <2>3 DEF OwnOK
    <2>6. BooksOK(Processing, done[t], told[t])
      BY <2>2, <2>3 DEF BooksOK
    <2>7. r.phase \in HoldPhases
      BY <1>3 DEF HoldPhases
    <2>8. QED
      BY <1>1, <1>2, <1>3, <2>1, <2>2, <2>3, <2>4, <2>5, <2>6, <2>7, KeyStep
  <1>5. CASE record[t] # Absent
    <2>1. UNCHANGED record /\ req' = [req EXCEPT ![c] = q]
      BY <1>5 DEF ClaimInsert
    <2> HIDE DEF r, q, t
    <2>2. q.phase \notin HoldPhases
      BY <1>3 DEF HoldPhases
    <2>3. QED
      BY <1>1, <1>2, <1>3, <2>1, <2>2, QuietStep
  <1>6. QED
    BY <1>4, <1>5

LEMMA HeldReplay ==
  ASSUME Held, NEW c \in Clients, ClaimSelect(c)
  PROVE  Held'
  <1> DEFINE t == req[c].token
             td == IF record[t].status = "completed"
                   THEN told[t] \cup {record[t].result} ELSE told[t]
  <1>1. /\ req[c].phase = "conflict"
        /\ UNCHANGED <<record, done, stranded, call>>
        /\ req' = [req EXCEPT ![c] = NoRequest]
    BY DEF ClaimSelect, vars
  <1>2. /\ t \in AllTokens /\ ~Holding(c)
        /\ BooksOK(record[t], done[t], told[t]) /\ record[t] \in Record
        /\ done[t] \in SUBSET Result /\ told[t] \in SUBSET Result
    BY <1>1, OwnFacts DEF HoldPhases
  <1>3. td \in SUBSET Result /\ BooksOK(record[t], done[t], td)
    BY <1>2 DEF BooksOK
  <1>4. told' = [told EXCEPT ![t] = td]
    <2>1. told \in [AllTokens -> SUBSET Result]
      BY DEF Held, KeyTypes
    <2>2. CASE record[t].status = "completed"
      BY <2>2 DEF ClaimSelect
    <2>3. CASE record[t].status # "completed"
      BY <2>1, <2>3 DEF ClaimSelect
    <2>4. QED
      BY <2>2, <2>3
  <1> HIDE DEF td, t
  <1>5. /\ record' = [record EXCEPT ![t] = record[t]]
        /\ done' = [done EXCEPT ![t] = done[t]]
    BY <1>1 DEF Held, KeyTypes
  <1>6. OwnOK(NoRequest, record[t], done[t], call'[c])
    BY NoRequestIs DEF OwnOK, HoldPhases
  <1>7. NoRequest.phase \notin HoldPhases
    BY NoRequestIs DEF HoldPhases
  <1>8. QED
    BY <1>1, <1>2, <1>3, <1>4, <1>5, <1>6, <1>7, NoRequestIs, KeyStep

\* The holder of a key does its work, or learns that it is done.
LEMMA HeldWork ==
  ASSUME IInv, Held, sent \in Nat, NEW c \in Clients,
         ScanEnds(c) \/ WriteCompletion(c)
  PROVE  Held'
  <1> DEFINE t == req[c].token
             v == IF ScanEnds(c) THEN [work |-> Scan,
                                       value |-> sent + Cardinality(done[t])]
                  ELSE [work |-> req[c].work, value |-> call[c].target.receipt]
             r == [req[c] EXCEPT !.phase = "worked", !.result = v]
  <1>1. /\ req[c].phase \in {"claimed", "updating"}
        /\ UNCHANGED <<record, told, stranded>>
        /\ req' = [req EXCEPT ![c] = r]
        /\ done' = [done EXCEPT ![t] = done[t] \cup {v}]
    BY DEF ScanEnds, WriteCompletion
  <1>2. /\ req[c] \in Request /\ t \in AllTokens /\ req[c].work \in Works
        /\ OwnOK(req[c], record[t], done[t], call[c])
        /\ BooksOK(record[t], done[t], told[t]) /\ record[t] \in Record
        /\ told[t] \in SUBSET Result /\ Holding(c)
    BY <1>1, OwnFacts DEF HoldPhases
  <1>3. record[t].status = "processing" /\ done[t] = {} /\ told[t] = {}
    BY <1>1, <1>2 DEF OwnOK, BooksOK, HoldPhases
  <1>4. v \in Result
    <2>1. CASE ScanEnds(c)
      <3>1. Cardinality(done[t]) = 0
        BY <1>3, FS_EmptySet
      <3>2. sent + Cardinality(done[t]) \in Nat
        BY <3>1
      <3>3. QED
        BY <2>1, <3>2 DEF Result, Works
    <2>2. CASE ~ScanEnds(c)
      <3>1. req[c].phase = "updating"
        BY <2>2 DEF WriteCompletion
      <3>2. QED
        BY <1>2, <2>2, <3>1 DEF OwnOK, Result
    <2>3. QED
      BY <2>1, <2>2
  <1>5. \A d \in Clients \ {c} : call'[d] = call[d]
    BY DEF ScanEnds, WriteCompletion, WriteOrder, vars, IInv, TypeOK
  <1> HIDE DEF v
  <1>6. r \in Request /\ r.phase = "worked" /\ r.token = t
        /\ r.work = req[c].work /\ r.result = v
    BY <1>2, <1>4 DEF Request
  <1>7. PICK rc \in Record, dn \in SUBSET Result, td \in SUBSET Result :
          rc = record[t] /\ dn = {v} /\ td = told[t]
    BY <1>2, <1>4
  <1>8. /\ record' = [record EXCEPT ![t] = rc]
        /\ done' = [done EXCEPT ![t] = dn]
        /\ told' = [told EXCEPT ![t] = td]
    BY <1>1, <1>3, <1>7 DEF Held, KeyTypes
  <1> HIDE DEF r, t
  <1>9. OwnOK(r, rc, dn, call'[c])
    BY <1>2, <1>3, <1>4, <1>6, <1>7 DEF OwnOK
  <1>10. BooksOK(rc, dn, td)
    BY <1>3, <1>4, <1>7 DEF BooksOK
  <1>11. r.phase \in HoldPhases
    BY <1>6 DEF HoldPhases
  <1>12. QED
    BY <1>1, <1>2, <1>5, <1>6, <1>8, <1>9, <1>10, <1>11, KeyStep DEF t

\* The holder of a key reads the order it is to complete.
LEMMA HeldRead ==
  ASSUME IInv, Held, NEW c \in Clients, ReadForCompletion(c)
  PROVE  Held'
  <1> DEFINE r == [req[c] EXCEPT !.phase = "updating"]
  <1>1. /\ req[c].phase = "claimed"
        /\ UNCHANGED <<record, done, told, stranded>>
        /\ req' = [req EXCEPT ![c] = r]
        /\ ReadOrder(c, req[c].work)
        /\ call'[c].target.to = "completed"
    BY DEF ReadForCompletion
  <1>2. PICK t \in AllTokens : t = req[c].token
    BY <1>1, OwnFacts
  <1>3. /\ req[c] \in Request /\ req[c].work \in Works
        /\ OwnOK(req[c], record[t], done[t], call[c])
        /\ BooksOK(record[t], done[t], told[t]) /\ Holding(c)
    BY <1>1, <1>2, OwnFacts DEF HoldPhases
  <1>4. r \in Request /\ r.phase = "updating" /\ r.token = t
        /\ r.work = req[c].work
    BY <1>2, <1>3 DEF Request
  <1>5. /\ \A d \in Clients \ {c} : call'[d] = call[d]
        /\ call'[c] # NoCall /\ call'[c].target.receipt \in Receipts
    <2>1. PICK target \in Target :
            /\ WellFormed(target)
            /\ call' = [call EXCEPT ![c] = [batch |-> req[c].work,
                                            target |-> target]]
      BY <1>1 DEF ReadOrder
    <2>2. /\ call'[c] = [batch |-> req[c].work, target |-> target]
          /\ \A d \in Clients \ {c} : call'[d] = call[d]
      BY <2>1 DEF IInv, TypeOK
    <2>3. target.to = "completed"
      BY <1>1, <2>2
    <2>4. target.receipt \in Receipts
      BY <2>1, <2>3 DEF WellFormed, Target
    <2>5. req[c].work \in Batches
      BY <1>3 DEF ReadForCompletion, Works
    <2>6. [batch |-> req[c].work, target |-> target] # NoCall
      BY <2>5, NullsAssumption DEF Call
    <2>7. QED
      BY <2>2, <2>4, <2>6
  <1>6. PICK rc \in Record, dn \in SUBSET Result, td \in SUBSET Result :
          rc = record[t] /\ dn = done[t] /\ td = told[t]
    BY DEF Held, KeyTypes
  <1>7. /\ record' = [record EXCEPT ![t] = rc]
        /\ done' = [done EXCEPT ![t] = dn]
        /\ told' = [told EXCEPT ![t] = td]
    BY <1>1, <1>6 DEF Held, KeyTypes
  <1> HIDE DEF r
  <1>8. OwnOK(r, rc, dn, call'[c])
    BY <1>1, <1>3, <1>4, <1>5, <1>6 DEF OwnOK, HoldPhases
  <1>9. BooksOK(rc, dn, td)
    BY <1>3, <1>6
  <1>10. /\ stranded' \in {stranded, stranded \cup {t}}
         /\ r.phase \in HoldPhases => r.token = t
         /\ r.phase # "idle" => r.token \in AllTokens
         /\ Holding(c) => req[c].token = t
         /\ rc.status = "processing" =>
              \/ t \in stranded'
              \/ r.phase \in HoldPhases
              \/ ~Holding(c) /\ rc = record[t]
    BY <1>1, <1>2, <1>4 DEF HoldPhases
  <1>11. QED
    BY <1>1, <1>3, <1>4, <1>5, <1>7, <1>8, <1>9, <1>10, KeyStep

\* The holder of a key goes away: the record is released or settled, or the
\* key is one of the stranded.
LEMMA HeldLetGo ==
  ASSUME Held, NEW c \in Clients, NEW t \in AllTokens, Holding(c),
         t = req[c].token,
         NEW rc \in Record, NEW dn \in SUBSET Result, NEW td \in SUBSET Result,
         req' = [req EXCEPT ![c] = NoRequest],
         record' = [record EXCEPT ![t] = rc],
         done' = [done EXCEPT ![t] = dn],
         told' = [told EXCEPT ![t] = td],
         stranded' \in {stranded, stranded \cup {t}},
         \A d \in Clients \ {c} : call'[d] = call[d],
         BooksOK(rc, dn, td),
         rc.status = "processing" => t \in stranded'
  PROVE  Held'
  <1>1. PICK r \in Request : r = NoRequest
    BY NoRequestIs
  <1>2. r.phase = "idle" /\ req' = [req EXCEPT ![c] = r]
    BY <1>1, NoRequestIs
  <1>3. OwnOK(r, rc, dn, call'[c]) /\ r.phase \notin HoldPhases
    BY <1>2 DEF OwnOK, HoldPhases
  <1>4. QED
    BY <1>2, <1>3, KeyStep

LEMMA HeldFails ==
  ASSUME IInv, Held, NEW c \in Clients, WorkFails(c)
  PROVE  Held'
  <1>1. /\ req[c].phase \in {"claimed", "updating"}
        /\ UNCHANGED <<done, told>>
        /\ req' = [req EXCEPT ![c] = NoRequest]
    BY DEF WorkFails
  <1>2. PICK t \in AllTokens : t = req[c].token
    BY <1>1, OwnFacts
  <1>3. /\ OwnOK(req[c], record[t], done[t], call[c])
        /\ BooksOK(record[t], done[t], told[t]) /\ Holding(c)
    BY <1>1, <1>2, OwnFacts DEF HoldPhases
  <1>4. done[t] = {} /\ told[t] = {}
    BY <1>1, <1>3 DEF OwnOK, BooksOK, HoldPhases
  <1>5. \A d \in Clients \ {c} : call'[d] = call[d]
    BY DEF WorkFails, Rollback, vars, IInv, TypeOK
  <1>6. PICK dn \in SUBSET Result, td \in SUBSET Result :
          dn = done[t] /\ td = told[t]
    BY DEF Held, KeyTypes
  <1>7. /\ done' = [done EXCEPT ![t] = dn]
        /\ told' = [told EXCEPT ![t] = td]
    BY <1>1, <1>6 DEF Held, KeyTypes
  <1>8. PICK rc \in Record :
          /\ record' = [record EXCEPT ![t] = rc]
          /\ \/ rc = Absent /\ stranded' = stranded
             \/ rc = record[t] /\ stranded' = stranded \cup {t}
    <2>1. Absent \in Record /\ record \in [AllTokens -> Record]
      BY DEF Absent, Record, Held, KeyTypes
    <2>2. CASE record' = [record EXCEPT ![t] = Absent] /\ UNCHANGED stranded
      BY <2>1, <2>2
    <2>3. CASE stranded' = stranded \cup {t} /\ UNCHANGED record
      <3>1. record' = [record EXCEPT ![t] = record[t]] /\ record[t] \in Record
        BY <2>1, <2>3
      <3>2. QED
        BY <2>3, <3>1
    <2>4. QED
      BY <1>2, <2>2, <2>3 DEF WorkFails
  <1>9. BooksOK(rc, dn, td)
    BY <1>3, <1>4, <1>6, <1>8 DEF BooksOK, Absent
  <1>10. rc.status = "processing" => t \in stranded'
    BY <1>8 DEF Absent
  <1>11. stranded' \in {stranded, stranded \cup {t}}
    BY <1>8
  <1>12. /\ req' = [req EXCEPT ![c] = NoRequest] /\ Holding(c)
         /\ record' = [record EXCEPT ![t] = rc]
    BY <1>1, <1>3, <1>8
  <1>13. QED
    BY <1>2, <1>5, <1>7, <1>9, <1>10, <1>11, <1>12, HeldLetGo

LEMMA HeldResponds ==
  ASSUME Held, NEW c \in Clients, Respond(c)
  PROVE  Held'
  <1>1. /\ req[c].phase = "worked"
        /\ UNCHANGED <<call, done>>
        /\ req' = [req EXCEPT ![c] = NoRequest]
    BY DEF Respond, vars
  <1>2. PICK t \in AllTokens : t = req[c].token
    BY <1>1, OwnFacts
  <1>3. /\ OwnOK(req[c], record[t], done[t], call[c])
        /\ BooksOK(record[t], done[t], told[t]) /\ Holding(c)
    BY <1>1, <1>2, OwnFacts DEF HoldPhases
  <1>4. done[t] = {req[c].result} /\ told[t] = {} /\ req[c].result \in Result
    BY <1>1, <1>3 DEF OwnOK, BooksOK, HoldPhases
  <1>5. /\ record \in [AllTokens -> Record]
        /\ done \in [AllTokens -> SUBSET Result]
        /\ told \in [AllTokens -> SUBSET Result]
    BY DEF Held, KeyTypes
  <1>6. PICK dn \in SUBSET Result : dn = done[t] /\ done' = [done EXCEPT ![t] = dn]
    BY <1>1, <1>5
  <1>7. CASE /\ record' = [record EXCEPT ![t] = [status |-> "completed",
                                                 result |-> req[c].result]]
             /\ told' = [told EXCEPT ![t] = @ \cup {req[c].result}]
             /\ UNCHANGED stranded
    <2>1. PICK rc \in Record : rc = [status |-> "completed",
                                     result |-> req[c].result]
      BY <1>4 DEF Record
    <2>2. PICK td \in SUBSET Result : td = {req[c].result}
      BY <1>4
    <2>3. /\ record' = [record EXCEPT ![t] = rc]
          /\ told' = [told EXCEPT ![t] = td]
      BY <1>4, <1>7, <2>1, <2>2
    <2>4. BooksOK(rc, dn, td) /\ rc.status = "completed"
      BY <1>4, <1>6, <2>1, <2>2 DEF BooksOK
    <2>5. stranded' \in {stranded, stranded \cup {t}}
      BY <1>7
    <2>6. QED
      BY <1>1, <1>2, <1>3, <1>6, <2>3, <2>4, <2>5, HeldLetGo
  <1>8. CASE /\ stranded' = stranded \cup {t}
             /\ UNCHANGED <<record, told>>
    <2>1. PICK rc \in Record, td \in SUBSET Result :
            /\ rc = record[t] /\ record' = [record EXCEPT ![t] = rc]
            /\ td = told[t] /\ told' = [told EXCEPT ![t] = td]
      BY <1>5, <1>8
    <2>2. BooksOK(rc, dn, td)
      BY <1>3, <1>6, <2>1
    <2>3. stranded' \in {stranded, stranded \cup {t}} /\ t \in stranded'
      BY <1>8
    <2>4. QED
      BY <1>1, <1>2, <1>3, <1>6, <2>1, <2>2, <2>3, HeldLetGo
  <1>9. \/ /\ record' = [record EXCEPT ![t] = [status |-> "completed",
                                              result |-> req[c].result]]
           /\ told' = [told EXCEPT ![t] = @ \cup {req[c].result}]
           /\ UNCHANGED stranded
        \/ /\ stranded' = stranded \cup {t}
           /\ UNCHANGED <<record, told>>
    BY <1>2, Zenon DEF Respond
  <1>10. QED
    BY <1>7, <1>8, <1>9

LEMMA HeldVanish ==
  ASSUME IInv, Held, NEW c \in Clients, Vanish(c)
  PROVE  Held'
  <1>1. /\ req[c].phase # "idle"
        /\ UNCHANGED <<record, done, told>>
        /\ req' = [req EXCEPT ![c] = NoRequest]
        /\ \A d \in Clients \ {c} : call'[d] = call[d]
    BY DEF Vanish, IInv, TypeOK
  <1>2. PICK t \in AllTokens : t = req[c].token
    BY <1>1, OwnFacts
  <1>3. CASE Holding(c)
    <2>1. stranded' = stranded \cup {t}
      BY <1>2, <1>3 DEF Vanish
    <2>2. PICK rc \in Record, dn \in SUBSET Result, td \in SUBSET Result :
            rc = record[t] /\ dn = done[t] /\ td = told[t]
      BY DEF Held, KeyTypes
    <2>3. /\ record' = [record EXCEPT ![t] = rc]
          /\ done' = [done EXCEPT ![t] = dn]
          /\ told' = [told EXCEPT ![t] = td]
      BY <1>1, <2>2 DEF Held, KeyTypes
    <2>4. BooksOK(rc, dn, td)
      BY <2>2 DEF Held
    <2>5. stranded' \in {stranded, stranded \cup {t}} /\ t \in stranded'
      BY <2>1
    <2>6. QED
      BY <1>1, <1>2, <1>3, <2>3, <2>4, <2>5, HeldLetGo
  <1>4. CASE ~Holding(c)
    <2>1. stranded' = stranded
      BY <1>4 DEF Vanish
    <2>2. PICK r \in Request : r = NoRequest /\ r.phase \notin HoldPhases
                               /\ r.phase = "idle"
      BY NoRequestIs DEF HoldPhases
    <2>3. req' = [req EXCEPT ![c] = r]
      BY <1>1, <2>2
    <2>4. QED
      BY <1>1, <1>4, <2>1, <2>2, <2>3, QuietStep
  <1>5. QED
    BY <1>3, <1>4

\* The other operations run in slots no request uses.
LEMMA HeldOther ==
  ASSUME IInv, Held, OtherStep \/ NextWindow \/ UNCHANGED commandsVars
  PROVE  Held'
  <1>1. UNCHANGED <<req, record, done, told, stranded>>
    BY DEF OtherStep, NextWindow, commandVars, commandsVars
  <1>2. ASSUME NEW c \in Clients, req[c].phase = "updating"
        PROVE  call'[c] = call[c]
    <2>1. CASE NextWindow \/ UNCHANGED commandsVars
      BY <2>1 DEF NextWindow, commandsVars, vars
    <2>2. CASE \/ \E e \in Events : Approve(e)
               \/ \E p \in Plans : SavePlan(p) \/ ExecutePlan(p)
      BY <2>2 DEF Approve, SavePlan, ExecutePlan
    <2>3. ASSUME NEW d \in Clients, req[d].phase = "idle",
                 \/ \E b \in Batches : ReadOrder(d, b)
                 \/ WriteOrder(d) \/ Rollback(d)
          PROVE  call'[c] = call[c]
      BY <1>2, <2>3 DEF ReadOrder, WriteOrder, Rollback, IInv, TypeOK
    <2>4. QED
      BY <2>1, <2>2, <2>3 DEF OtherStep
  <1>3. QED
    BY <1>1, <1>2, HeldStill

LEMMA HeldStep ==
  ASSUME IInv, Held, window \in Windows, sent \in Nat,
         CommandsNext \/ UNCHANGED commandsVars
  PROVE  Held'
  <1>1. ASSUME NEW c \in Clients, CommandStep(c)
        PROVE  Held'
    BY <1>1, HeldLimiter, HeldClaim, HeldReplay, HeldWork, HeldRead, HeldFails,
       HeldResponds, HeldVanish DEF CommandStep
  <1>2. QED
    BY <1>1, HeldOther DEF CommandsNext

(***************************************************************************)
(* The shared limit                                                        *)
(***************************************************************************)

\* A window that no later one was counted before is counted in full; once its
\* row counts somebody, somebody was counted in time or it is past.
Counted ==
  /\ window \in Windows
  /\ quota \in [Works -> [Windows -> 0..Limit]]
  /\ onTime \in [Works -> [Windows -> Nat]]
  /\ \A w \in Works, v \in Windows :
       /\ onTime[w][v] <= Limit
       /\ InTime(v) => onTime[w][v] <= quota[w][v]
       /\ quota[w][v] > 0 /\ InTime(v) => onTime[w][v] > 0

\* Both tables after the request is counted in or refused.
LEMMA AdmitEffect ==
  ASSUME Counted, NEW w \in Works, NEW v \in Windows,
         quota' = IF quota[w][v] < Limit
                  THEN [Purged(v) EXCEPT ![w][v] = @ + 1] ELSE Purged(v),
         onTime' = IF quota[w][v] < Limit /\ InTime(v)
                   THEN [onTime EXCEPT ![w][v] = @ + 1] ELSE onTime
  PROVE  /\ quota' \in [Works -> [Windows -> 0..Limit]]
         /\ onTime' \in [Works -> [Windows -> Nat]]
         /\ \A x \in Works, u \in Windows :
              /\ quota'[x][u] = IF u < v THEN 0
                                ELSE IF x = w /\ u = v /\ quota[w][v] < Limit
                                THEN quota[x][u] + 1 ELSE quota[x][u]
              /\ onTime'[x][u] = IF x = w /\ u = v /\ quota[w][v] < Limit
                                    /\ InTime(v)
                                 THEN onTime[x][u] + 1 ELSE onTime[x][u]
  <1> DEFINE p == Purged(v)
  <1>1. /\ Limit \in Nat \ {0} /\ Windows \subseteq Nat
        /\ quota \in [Works -> [Windows -> 0..Limit]]
        /\ onTime \in [Works -> [Windows -> Nat]]
    BY CommandsAssumption DEF Windows, Counted
  <1>2. /\ p \in [Works -> [Windows -> 0..Limit]]
        /\ \A x \in Works, u \in Windows :
             p[x][u] = IF u < v THEN 0 ELSE quota[x][u]
    BY <1>1 DEF Purged
  <1> HIDE DEF p
  <1>3. p[w][v] = quota[w][v]
    BY <1>1, <1>2
  <1>4. CASE quota[w][v] < Limit
    <2>1. quota' = [p EXCEPT ![w][v] = @ + 1]
      BY <1>4 DEF p
    <2>2. /\ quota' \in [Works -> [Windows -> 0..Limit]]
          /\ \A x \in Works, u \in Windows :
               quota'[x][u] = IF x = w /\ u = v THEN p[x][u] + 1 ELSE p[x][u]
      <3>1. /\ p[w] \in [Windows -> 0..Limit]
            /\ p[w][v] + 1 \in 0..Limit
        BY <1>1, <1>2, <1>3, <1>4
      <3>2. quota' = [p EXCEPT ![w] = [p[w] EXCEPT ![v] = p[w][v] + 1]]
        BY <1>2, <2>1, <3>1
      <3>3. [p[w] EXCEPT ![v] = p[w][v] + 1] \in [Windows -> 0..Limit]
        BY <3>1
      <3>4. quota' \in [Works -> [Windows -> 0..Limit]]
        BY <1>2, <3>2, <3>3
      <3>5. \A x \in Works : quota'[x] = IF x = w
                                         THEN [p[w] EXCEPT ![v] = p[w][v] + 1]
                                         ELSE p[x]
        BY <1>2, <3>2
      <3>6. \A u \in Windows : [p[w] EXCEPT ![v] = p[w][v] + 1][u] =
                               IF u = v THEN p[w][u] + 1 ELSE p[w][u]
        BY <3>1
      <3>7. QED
        BY <3>4, <3>5, <3>6
    <2>3. CASE InTime(v)
      <3>1. onTime' = [onTime EXCEPT ![w][v] = @ + 1]
        BY <1>4, <2>3
      <3>2. /\ onTime' \in [Works -> [Windows -> Nat]]
            /\ \A x \in Works, u \in Windows :
                 onTime'[x][u] = IF x = w /\ u = v THEN onTime[x][u] + 1
                                 ELSE onTime[x][u]
        BY <1>1, <3>1
      <3>3. QED
        BY <1>1, <1>2, <1>4, <2>2, <2>3, <3>2
    <2>4. CASE ~InTime(v)
      BY <1>1, <1>2, <1>4, <2>2, <2>4
    <2>5. QED
      BY <2>3, <2>4
  <1>5. CASE ~(quota[w][v] < Limit)
    BY <1>1, <1>2, <1>5 DEF p
  <1>6. QED
    BY <1>4, <1>5

\* A request counted in a window, or refused by its full row, leaves no
\* window before it without a later request, and so none that is in time.
LEMMA CountedAdmit ==
  ASSUME Counted, NEW c \in Clients, req[c].work \in Works,
         req[c].window \in Windows, Admit(c)
  PROVE  Counted'
  <1>1. PICK w \in Works, v \in Windows : w = req[c].work /\ v = req[c].window
    OBVIOUS
  <1>2. /\ quota' = IF quota[w][v] < Limit
                    THEN [Purged(v) EXCEPT ![w][v] = @ + 1] ELSE Purged(v)
        /\ onTime' = IF quota[w][v] < Limit /\ InTime(v)
                     THEN [onTime EXCEPT ![w][v] = @ + 1] ELSE onTime
        /\ window' = window
    BY <1>1 DEF Admit
  <1>3. /\ Limit \in Nat \ {0} /\ Windows \subseteq Nat
        /\ quota \in [Works -> [Windows -> 0..Limit]]
        /\ onTime \in [Works -> [Windows -> Nat]]
        /\ window \in Windows
    <2>1. Limit \in Nat \ {0} /\ Windows \subseteq Nat
      BY CommandsAssumption DEF Windows
    <2>2. QED
      BY <2>1 DEF Counted
  <1>4. /\ quota' \in [Works -> [Windows -> 0..Limit]]
        /\ onTime' \in [Works -> [Windows -> Nat]]
        /\ \A x \in Works, u \in Windows :
             /\ quota'[x][u] = IF u < v THEN 0
                               ELSE IF x = w /\ u = v /\ quota[w][v] < Limit
                               THEN quota[x][u] + 1 ELSE quota[x][u]
             /\ onTime'[x][u] = IF x = w /\ u = v /\ quota[w][v] < Limit
                                   /\ InTime(v)
                                THEN onTime[x][u] + 1 ELSE onTime[x][u]
    BY <1>2, AdmitEffect
  <1>5. \A u \in Windows : InTime(u)' => InTime(u)
    <2>1. ASSUME NEW x \in Works, NEW u \in Windows, onTime'[x][u] = 0
          PROVE  onTime[x][u] = 0
      <3>1. onTime[x][u] \in Nat
        BY <1>3
      <3>2. onTime'[x][u] = onTime[x][u] \/ onTime'[x][u] = onTime[x][u] + 1
        BY <1>4
      <3>3. QED
        BY <2>1, <3>1, <3>2
    <2>2. QED
      BY <2>1 DEF InTime
  <1>6. \A u \in Windows : u < v => ~InTime(u)'
    <2> SUFFICES ASSUME NEW u \in Windows, u < v, InTime(u)'
                 PROVE  FALSE
      OBVIOUS
    <2>1. \A x \in Works : onTime'[x][v] = 0
      BY DEF InTime
    <2>2. onTime[w][v] = 0 /\ ~(quota[w][v] < Limit /\ InTime(v))
      BY <1>3, <1>4, <2>1
    <2>3. InTime(v)
      <3>1. \A y \in Windows : y > v => y > u
        BY <1>3
      <3>2. InTime(u)
        BY <1>5
      <3>3. QED
        BY <3>1, <3>2 DEF InTime
    <2>4. quota[w][v] > 0
      BY <1>3, <2>2, <2>3
    <2>5. QED
      BY <2>2, <2>3, <2>4 DEF Counted
  <1>7. ASSUME NEW x \in Works, NEW u \in Windows
        PROVE  /\ onTime'[x][u] <= Limit
               /\ InTime(u)' => onTime'[x][u] <= quota'[x][u]
               /\ quota'[x][u] > 0 /\ InTime(u)' => onTime'[x][u] > 0
    <2>1. /\ onTime[x][u] <= Limit
          /\ InTime(u) => onTime[x][u] <= quota[x][u]
          /\ quota[x][u] > 0 /\ InTime(u) => onTime[x][u] > 0
          /\ onTime[x][u] \in Nat /\ quota[x][u] \in Nat
          /\ u \in Nat /\ v \in Nat
      <3>1. onTime[x][u] \in Nat /\ quota[x][u] \in 0..Limit
        BY <1>3
      <3>2. quota[x][u] \in Nat /\ u \in Nat /\ v \in Nat
        BY <1>3, <3>1
      <3>3. /\ onTime[x][u] <= Limit
            /\ InTime(u) => onTime[x][u] <= quota[x][u]
            /\ quota[x][u] > 0 /\ InTime(u) => onTime[x][u] > 0
        BY DEF Counted
      <3>4. QED
        BY <3>1, <3>2, <3>3
    <2>2. CASE x = w /\ u = v /\ quota[w][v] < Limit
      BY <1>3, <1>4, <1>5, <2>1, <2>2
    <2>3. CASE ~(x = w /\ u = v /\ quota[w][v] < Limit)
      BY <1>3, <1>4, <1>5, <1>6, <2>1, <2>3
    <2>4. QED
      BY <2>2, <2>3
  <1>8. window' \in Windows
    BY <1>2, <1>3
  <1>9. \A x \in Works, u \in Windows :
          /\ onTime'[x][u] <= Limit
          /\ InTime(u)' => onTime'[x][u] <= quota'[x][u]
          /\ quota'[x][u] > 0 /\ InTime(u)' => onTime'[x][u] > 0
    BY <1>7
  <1>10. QED
    BY <1>4, <1>8, <1>9 DEF Counted

LEMMA CountedStep ==
  ASSUME Counted, Held, CommandsNext \/ UNCHANGED commandsVars
  PROVE  Counted'
  <1>1. CASE UNCHANGED <<quota, onTime>> /\ window' \in Windows
    BY <1>1 DEF Counted, InTime
  <1>2. CASE OtherStep \/ UNCHANGED commandsVars
    BY <1>1, <1>2 DEF OtherStep, commandVars, commandsVars, Counted
  <1>3. CASE NextWindow
    <2>1. window' \in Windows
      BY <1>3, CommandsAssumption DEF NextWindow, Windows, Counted
    <2>2. QED
      BY <1>1, <1>3, <2>1 DEF NextWindow
  <1>4. ASSUME NEW c \in Clients, Admit(c)
        PROVE  Counted'
    <2>1. req[c].phase # "idle"
      BY <1>4 DEF Admit
    <2>2. req[c].work \in Works /\ req[c] \in Request
      BY <2>1, OwnFacts
    <2>3. req[c].window \in Windows
      BY <2>2 DEF Request
    <2>4. QED
      BY <1>4, <2>2, <2>3, CountedAdmit
  <1>5. ASSUME NEW c \in Clients, CommandStep(c), ~Admit(c)
        PROVE  Counted'
    <2>1. UNCHANGED <<quota, onTime, window>>
      BY <1>5 DEF CommandStep, Arrive, TurnAway, ClaimInsert, ClaimSelect,
         ScanEnds, ReadForCompletion, WriteCompletion, WorkFails, Respond, Vanish
    <2>2. QED
      BY <1>1, <2>1 DEF Counted
  <1>6. QED
    BY <1>2, <1>3, <1>4, <1>5 DEF CommandsNext

(***************************************************************************)
(* The invariant                                                           *)
(***************************************************************************)

CommandsInv == IInv /\ FiguresInv /\ Held /\ Counted /\ sent \in 0..MaxRequests

LEMMA CommandsInvInit == CommandsInit => CommandsInv
  <1> SUFFICES ASSUME CommandsInit
               PROVE  CommandsInv
    OBVIOUS
  <1>1. IInv /\ FiguresInv
    BY IInvInit, FiguresInvInit DEF CommandsInit
  <1>2. Held
    <2>1. KeyTypes
      BY NoRequestIs DEF CommandsInit, KeyTypes, Absent, Record
    <2>2. \A c \in Clients : req[c] = NoRequest /\ ~Holding(c)
      BY NoRequestIs DEF CommandsInit, Holding
    <2>3. ASSUME NEW c \in Clients
          PROVE  OwnOK(req[c], record[req[c].token], done[req[c].token], call[c])
      BY <2>2, NoRequestIs DEF OwnOK, HoldPhases
    <2>4. \A t \in AllTokens :
            /\ record[t] = Absent /\ done[t] = {} /\ told[t] = {}
      BY DEF CommandsInit
    <2>5. \A t \in AllTokens : BooksOK(record[t], done[t], told[t])
                               /\ record[t].status # "processing"
      BY <2>4 DEF BooksOK, Absent
    <2>6. QED
      BY <2>1, <2>2, <2>3, <2>5 DEF Held, HeldBy
  <1>3. Counted
    <2>1. Limit \in Nat \ {0} /\ MaxWindow \in Nat
      BY CommandsAssumption
    <2>2. QED
      BY <2>1 DEF CommandsInit, Counted, Windows
  <1>4. sent \in 0..MaxRequests
    BY CommandsAssumption DEF CommandsInit
  <1>5. QED
    BY <1>1, <1>2, <1>3, <1>4 DEF CommandsInv

LEMMA CommandsInvStep ==
  CommandsInv /\ [CommandsNext]_commandsVars => CommandsInv'
  <1> SUFFICES ASSUME CommandsInv, CommandsNext \/ UNCHANGED commandsVars
               PROVE  CommandsInv'
    OBVIOUS
  <1>1. IInv /\ FiguresInv /\ Held /\ Counted /\ sent \in 0..MaxRequests
    BY DEF CommandsInv
  <1>2. window \in Windows /\ sent \in Nat
    BY <1>1, CommandsAssumption DEF Counted
  <1>3. IInv' /\ FiguresInv' /\ Held' /\ Counted'
    BY <1>1, <1>2, TablesKept, HeldStep, CountedStep
  <1>4. sent' \in 0..MaxRequests
    <2>1. CASE sent' = sent
      BY <1>1, <2>1
    <2>2. CASE sent < MaxRequests /\ sent' = sent + 1
      BY <1>1, <2>2, CommandsAssumption
    <2>3. \/ sent' = sent
          \/ sent < MaxRequests /\ sent' = sent + 1
      BY DEF CommandsNext, CommandStep, OtherStep, NextWindow, Arrive, Admit,
         TurnAway, ClaimInsert, ClaimSelect, ScanEnds, ReadForCompletion,
         WriteCompletion, WorkFails, Respond, Vanish, commandVars, commandsVars
    <2>4. QED
      BY <2>1, <2>2, <2>3
  <1>5. QED
    BY <1>3, <1>4 DEF CommandsInv

\* The invariant of every run of the commands on several instances.
THEOREM CommandsInvariance == CommandsSpec => []CommandsInv
  <1>1. QED
    BY CommandsInvInit, CommandsInvStep, PTL DEF CommandsSpec

\* Requests, records, limiter rows and tables keep their types.
THEOREM CommandsTypeTheorem == CommandsSpec => []CommandsTypeOK
  <1>1. CommandsInv => CommandsTypeOK
    BY DEF CommandsInv, CommandsTypeOK, IInv, Held, KeyTypes, Counted
  <1>2. QED
    BY <1>1, CommandsInvariance, PTL

\* A key is carried out at most once whatever dies, fails or is retried, and
\* is answered only with the result of that work.
THEOREM OnceTheorem == CommandsSpec => []CarriedOutOnce
  <1>1. ASSUME CommandsInv, NEW t \in AllTokens
        PROVE  Cardinality(done[t]) <= 1 /\ told[t] \subseteq done[t]
    <2>1. BooksOK(record[t], done[t], told[t]) /\ record[t] \in Record
      BY <1>1 DEF CommandsInv, Held, KeyTypes
    <2>2. /\ done[t] = {} \/ \E r \in Result : done[t] = {r}
          /\ told[t] \subseteq done[t]
      BY <2>1 DEF BooksOK, Record
    <2>3. CASE done[t] = {}
      BY <2>2, <2>3, FS_EmptySet
    <2>4. ASSUME NEW r \in Result, done[t] = {r}
          PROVE  Cardinality(done[t]) = 1
      BY <2>4, FS_Singleton
    <2>5. QED
      BY <2>2, <2>3, <2>4
  <1>2. CommandsInv => CarriedOutOnce
    BY <1>1 DEF CarriedOutOnce
  <1>3. QED
    BY <1>2, CommandsInvariance, PTL

\* A key in process has one holder, or it is stranded and was never answered.
THEOREM HolderTheorem == CommandsSpec => []ClaimsHaveOneHolder
  <1>1. ASSUME CommandsInv, NEW t \in AllTokens
        PROVE  LET holders == {c \in Clients : Holding(c) /\ req[c].token = t} IN
               /\ Cardinality(holders) <= 1
               /\ holders # {} => record[t].status = "processing"
               /\ record[t].status = "processing" /\ holders = {} =>
                    t \in stranded /\ told[t] = {}
    <2> DEFINE holders == {c \in Clients : Holding(c) /\ req[c].token = t}
    <2>1. \A c \in Clients : c \in holders <=> HeldBy(c, t)
      BY DEF HeldBy
    <2>2. \A c, d \in holders : c = d
      BY <1>1, <2>1 DEF CommandsInv, Held
    <2>3. \A c \in holders : record[t].status = "processing"
      BY <1>1, <2>1 DEF CommandsInv, Held, HeldBy, OwnOK, Holding, HoldPhases
    <2>4. record[t].status = "processing" =>
            told[t] = {} /\ (t \in stranded \/ \E c \in Clients : HeldBy(c, t))
      BY <1>1 DEF CommandsInv, Held, BooksOK
    <2>5. record[t].status = "processing" /\ holders = {} =>
            t \in stranded /\ told[t] = {}
      BY <2>1, <2>4
    <2> HIDE DEF holders
    <2>6. Cardinality(holders) <= 1
      <3>1. CASE holders = {}
        BY <3>1, FS_EmptySet
      <3>2. ASSUME NEW c \in holders
            PROVE  Cardinality(holders) = 1
        <4>1. holders = {c}
          BY <2>2, <3>2
        <4>2. QED
          BY <4>1, FS_Singleton
      <3>3. QED
        BY <3>1, <3>2
    <2>7. QED
      BY <2>3, <2>5, <2>6 DEF holders
  <1>2. CommandsInv => ClaimsHaveOneHolder
    BY <1>1 DEF ClaimsHaveOneHolder
  <1>3. QED
    BY <1>2, CommandsInvariance, PTL

\* All instances together admit no more than the limit of one path in one
\* window until a request of a later window is counted.
THEOREM QuotaTheorem == CommandsSpec => []QuotaOnTime
  <1>1. CommandsInv => QuotaOnTime
    BY DEF CommandsInv, Counted, QuotaOnTime
  <1>2. QED
    BY <1>1, CommandsInvariance, PTL

\* A decision and its order stay together under commands, crashes and retries.
THEOREM CommandsWholenessTheorem == CommandsSpec => []ApprovalIsWhole
  <1>1. CommandsInv => ApprovalIsWhole
    BY DEF CommandsInv, IInv
  <1>2. QED
    BY <1>1, CommandsInvariance, PTL

\* A plan's orders stay whole under commands, crashes and retries.
THEOREM CommandsPlanTheorem == CommandsSpec => []PlanIsWhole
  <1>1. CommandsInv => PlanIsWhole
    BY DEF CommandsInv, IInv
  <1>2. QED
    BY <1>1, CommandsInvariance, PTL

\* Commands retried, raced or cut off by a crash leave the order and the
\* decision a report reads with the same figures.
THEOREM CommandsFiguresTheorem == CommandsSpec => []FiguresAgree
  <1>1. CommandsInv => FiguresAgree
    BY DEF CommandsInv, FiguresInv
  <1>2. QED
    BY <1>1, CommandsInvariance, PTL

(***************************************************************************)
(* The abstract specification                                              *)
(***************************************************************************)

\* What a step of a client does to the one key it is about.
LEMMA KeyedStep ==
  ASSUME Held, NEW t \in AllTokens,
         NEW rc \in Record, NEW dn \in SUBSET Result, NEW td \in SUBSET Result,
         record' = [record EXCEPT ![t] = rc],
         done' = [done EXCEPT ![t] = dn],
         told' = [told EXCEPT ![t] = td]
  PROVE  /\ KeyStates' = [KeyStates EXCEPT ![t] = KeyState(rc.status)]
         /\ KeyStates[t] = KeyState(record[t].status)
         /\ done'[t] = dn
  <1>1. record \in [AllTokens -> Record] /\ done \in [AllTokens -> SUBSET Result]
    BY DEF Held, KeyTypes
  <1>2. record'[t] = rc /\ \A u \in AllTokens \ {t} : record'[u] = record[u]
    BY <1>1
  <1>3. KeyStates' = [KeyStates EXCEPT ![t] = KeyState(rc.status)]
    <2>1. KeyStates' = [u \in AllTokens |-> IF u = t THEN KeyState(rc.status)
                                            ELSE KeyStates[u]]
      BY <1>2 DEF KeyStates
    <2>2. QED
      BY <2>1 DEF KeyStates
  <1>4. QED
    BY <1>1, <1>3 DEF KeyStates

LEMMA KeyStateIs ==
  /\ KeyState("absent") = "free"
  /\ KeyState("processing") = "held"
  /\ KeyState("completed") = "answered"
  BY DEF KeyState

\* Steps that leave the keys alone, or answer from the record.
LEMMA KeyedQuiet ==
  ASSUME UNCHANGED <<record, done, told>>
  PROVE  UNCHANGED <<KeyStates, done, told>>
  BY DEF KeyStates

LEMMA KeyedClaim ==
  ASSUME Held, NEW c \in Clients, ClaimInsert(c)
  PROVE  (\E t \in AllTokens : Keyed!Hold(t)) \/ UNCHANGED <<KeyStates, done, told>>
  <1>1. req[c].phase # "idle" /\ UNCHANGED <<done, told>>
    BY DEF ClaimInsert
  <1>2. PICK t \in AllTokens : t = req[c].token
    BY <1>1, OwnFacts
  <1>3. CASE record[t] = Absent
    <2>1. record' = [record EXCEPT ![t] = Processing]
      BY <1>2, <1>3 DEF ClaimInsert
    <2>2. /\ Processing \in Record /\ Processing.status = "processing"
          /\ Absent.status = "absent"
      BY DEF Processing, Absent, Record
    <2>3. PICK dn \in SUBSET Result, td \in SUBSET Result :
            /\ dn = done[t] /\ done' = [done EXCEPT ![t] = dn]
            /\ td = told[t] /\ told' = [told EXCEPT ![t] = td]
      BY <1>1 DEF Held, KeyTypes
    <2>4. /\ KeyStates' = [KeyStates EXCEPT ![t] = "held"]
          /\ KeyStates[t] = "free"
      BY <1>3, <2>1, <2>2, <2>3, KeyedStep, KeyStateIs
    <2>5. QED
      BY <1>1, <2>4 DEF Keyed!Hold
  <1>4. CASE record[t] # Absent
    BY <1>1, <1>2, <1>4, KeyedQuiet DEF ClaimInsert
  <1>5. QED
    BY <1>3, <1>4

LEMMA KeyedReplay ==
  ASSUME Held, NEW c \in Clients, ClaimSelect(c)
  PROVE  UNCHANGED <<KeyStates, done, told>>
  <1>1. req[c].phase # "idle" /\ UNCHANGED <<record, done>>
    BY DEF ClaimSelect
  <1>2. PICK t \in AllTokens : t = req[c].token
    BY <1>1, OwnFacts
  <1>3. told \in [AllTokens -> SUBSET Result] /\ BooksOK(record[t], done[t], told[t])
    BY DEF Held, KeyTypes
  <1>4. CASE record[t].status = "completed"
    <2>1. told' = [told EXCEPT ![t] = told[t] \cup {record[t].result}]
      BY <1>2, <1>4 DEF ClaimSelect
    <2>2. told[t] \cup {record[t].result} = told[t]
      BY <1>3, <1>4 DEF BooksOK
    <2>3. told' = told
      BY <1>3, <2>1, <2>2
    <2>4. QED
      BY <1>1, <2>3, KeyedQuiet
  <1>5. CASE record[t].status # "completed"
    BY <1>1, <1>2, <1>5, KeyedQuiet DEF ClaimSelect
  <1>6. QED
    BY <1>4, <1>5

\* The work is done while its client holds the key, once.
LEMMA KeyedWork ==
  ASSUME IInv, Held, sent \in Nat, NEW c \in Clients,
         ScanEnds(c) \/ WriteCompletion(c)
  PROVE  \E t \in AllTokens : Keyed!Work(t)
  <1>1. /\ req[c].phase \in {"claimed", "updating"}
        /\ UNCHANGED <<record, told>>
    BY DEF ScanEnds, WriteCompletion
  <1>2. PICK t \in AllTokens : t = req[c].token
    BY <1>1, OwnFacts
  <1>3. record[t].status = "processing" /\ done[t] = {}
    BY <1>1, <1>2, OwnFacts DEF OwnOK, HoldPhases
  <1>4. PICK v \in Result : done' = [done EXCEPT ![t] = done[t] \cup {v}]
    <2>1. CASE ScanEnds(c)
      <3>1. sent + Cardinality(done[t]) \in Nat
        BY <1>3, FS_EmptySet
      <3>2. [work |-> Scan, value |-> sent + Cardinality(done[t])] \in Result
        BY <3>1 DEF Result, Works
      <3>3. QED
        BY <1>2, <2>1, <3>2 DEF ScanEnds
    <2>2. CASE WriteCompletion(c)
      <3>1. /\ req[c].phase = "updating" /\ req[c].work \in Works
            /\ call[c].target.receipt \in Receipts
        BY <2>2, OwnFacts DEF WriteCompletion, OwnOK
      <3>2. [work |-> req[c].work, value |-> call[c].target.receipt] \in Result
        BY <3>1 DEF Result
      <3>3. QED
        BY <1>2, <2>2, <3>2 DEF WriteCompletion
    <2>3. QED
      BY <2>1, <2>2
  <1>5. done' = [done EXCEPT ![t] = {v}]
    BY <1>3, <1>4
  <1>6. done'[t] = {v}
    BY <1>5 DEF Held, KeyTypes
  <1>7. \E f \in done'[t] : f \in Result /\ done' = [done EXCEPT ![t] = {f}]
    BY <1>5, <1>6
  <1>8. KeyStates[t] = "held" /\ KeyStates' = KeyStates
    BY <1>1, <1>3, KeyStateIs DEF KeyStates
  <1>9. Keyed!Work(t)
    BY <1>1, <1>3, <1>7, <1>8 DEF Keyed!Work
  <1>10. QED
    BY <1>9

LEMMA KeyedFails ==
  ASSUME Held, NEW c \in Clients, WorkFails(c)
  PROVE  (\E t \in AllTokens : Keyed!LetGo(t)) \/ UNCHANGED <<KeyStates, done, told>>
  <1>1. req[c].phase \in {"claimed", "updating"} /\ UNCHANGED <<done, told>>
    BY DEF WorkFails
  <1>2. PICK t \in AllTokens : t = req[c].token
    BY <1>1, OwnFacts
  <1>3. record[t].status = "processing" /\ done[t] = {}
    BY <1>1, <1>2, OwnFacts DEF OwnOK, HoldPhases
  <1>4. CASE UNCHANGED record
    BY <1>1, <1>4, KeyedQuiet
  <1>5. CASE record' = [record EXCEPT ![t] = Absent]
    <2>1. Absent \in Record /\ Absent.status = "absent"
      BY DEF Absent, Record
    <2>2. PICK dn \in SUBSET Result, td \in SUBSET Result :
            /\ dn = done[t] /\ done' = [done EXCEPT ![t] = dn]
            /\ td = told[t] /\ told' = [told EXCEPT ![t] = td]
      BY <1>1 DEF Held, KeyTypes
    <2>3. /\ KeyStates' = [KeyStates EXCEPT ![t] = "free"]
          /\ KeyStates[t] = "held"
      BY <1>3, <1>5, <2>1, <2>2, KeyedStep, KeyStateIs
    <2>4. QED
      BY <1>1, <1>3, <2>3 DEF Keyed!LetGo
  <1>6. QED
    BY <1>2, <1>4, <1>5 DEF WorkFails

LEMMA KeyedResponds ==
  ASSUME Held, NEW c \in Clients, Respond(c)
  PROVE  (\E t \in AllTokens : Keyed!Settle(t)) \/ UNCHANGED <<KeyStates, done, told>>
  <1>1. req[c].phase = "worked" /\ UNCHANGED done
    BY DEF Respond
  <1>2. PICK t \in AllTokens : t = req[c].token
    BY <1>1, OwnFacts
  <1>3. /\ record[t].status = "processing" /\ told[t] = {}
        /\ req[c].result \in Result /\ done[t] = {req[c].result}
    BY <1>1, <1>2, OwnFacts DEF OwnOK, BooksOK, HoldPhases
  <1>4. CASE UNCHANGED <<record, told>>
    BY <1>1, <1>4, KeyedQuiet
  <1>5. CASE /\ record' = [record EXCEPT ![t] = [status |-> "completed",
                                                 result |-> req[c].result]]
             /\ told' = [told EXCEPT ![t] = @ \cup {req[c].result}]
    <2>1. PICK rc \in Record : /\ rc.status = "completed"
                               /\ record' = [record EXCEPT ![t] = rc]
      BY <1>3, <1>5 DEF Record
    <2>2. PICK dn \in SUBSET Result :
            dn = done[t] /\ done' = [done EXCEPT ![t] = dn]
      BY <1>1 DEF Held, KeyTypes
    <2>3. PICK td \in SUBSET Result : td = dn /\ told' = [told EXCEPT ![t] = td]
      BY <1>3, <1>5, <2>2
    <2>4. /\ KeyStates' = [KeyStates EXCEPT ![t] = KeyState(rc.status)]
          /\ KeyStates[t] = KeyState(record[t].status)
      BY <2>1, <2>2, <2>3, KeyedStep
    <2>5. /\ KeyStates' = [KeyStates EXCEPT ![t] = "answered"]
          /\ KeyStates[t] = "held"
      BY <1>3, <2>1, <2>4, KeyStateIs
    <2>6. QED
      BY <1>1, <2>2, <2>3, <2>5 DEF Keyed!Settle
  <1>6. QED
    BY <1>2, <1>4, <1>5, Zenon DEF Respond

\* The record, the work and the response of a key are one exchange to the
\* clients, though each is a transaction of its own and instances die between
\* them: a key is let go of only with nothing done under it, and is answered,
\* for good, with what was done.
THEOREM KeysRefinementTheorem == CommandsSpec => ImplementsIdempotency
  <1>1. CommandsInit => Keyed!Init
    BY KeyStateIs DEF CommandsInit, Keyed!Init, KeyStates, Absent
  <1>2. ASSUME CommandsInv, [CommandsNext]_commandsVars
        PROVE  [Keyed!Next]_<<KeyStates, done, told>>
    <2>1. IInv /\ Held /\ sent \in Nat
      BY <1>2, CommandsAssumption DEF CommandsInv
    <2>2. CASE UNCHANGED <<record, done, told>>
      BY <2>2, KeyedQuiet
    <2>3. ASSUME NEW c \in Clients, CommandStep(c)
          PROVE  Keyed!Next \/ UNCHANGED <<KeyStates, done, told>>
      <3>1. CASE \/ \E t \in AllTokens, w \in Works : Arrive(c, t, w)
                 \/ Admit(c) \/ TurnAway(c) \/ ReadForCompletion(c) \/ Vanish(c)
        <4>1. UNCHANGED <<record, done, told>>
          BY <3>1 DEF Arrive, Admit, TurnAway, ReadForCompletion, Vanish
        <4>2. QED
          BY <4>1, KeyedQuiet
      <3>2. QED
        BY <2>1, <2>3, <3>1, KeyedClaim, KeyedReplay, KeyedWork, KeyedFails,
           KeyedResponds DEF CommandStep, Keyed!Next
    <2>4. OtherStep \/ NextWindow \/ UNCHANGED commandsVars
            => UNCHANGED <<record, done, told>>
      BY DEF OtherStep, NextWindow, commandVars, commandsVars
    <2>5. QED
      BY <1>2, <2>2, <2>3, <2>4 DEF CommandsNext
  <1>3. QED
    BY <1>1, <1>2, CommandsInvariance, PTL
       DEF CommandsSpec, ImplementsIdempotency, Keyed!Spec
=============================================================================
