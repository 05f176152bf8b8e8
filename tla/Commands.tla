------------------------------ MODULE Commands ------------------------------
(***************************************************************************)
(* The keyed commands of the API on several instances with one PostgreSQL: *)
(* POST /scans and POST /work-orders/{id}/complete of src/api/router.py    *)
(* behind the shared rate limit, on top of Approvals.                      *)
(*                                                                         *)
(* A request passes the limiter, claims its Idempotency-Key, does its      *)
(* work, stores its response under the key and answers with it.  Each of   *)
(* these is a transaction of its own; instances die and statements fail    *)
(* between them.  A client is an instance's request slot; a completion is  *)
(* named by its order's batch, a key counts per kind of command.           *)
(*                                                                         *)
(* What a scan does to the stores is in Scan; here it is a call that takes *)
(* a while, succeeds with a result of its own, or raises.                  *)
(***************************************************************************)
EXTENDS Approvals

CONSTANTS
  Tokens,       \* Idempotency-Key values sent with completions
  ScanTokens,   \* Idempotency-Key values sent with scans
  Scan,         \* the work of a scan request
  NoResult,
  Limit,        \* rate_limit_requests
  MaxWindow,    \* bound: windows of the rate limit in a behaviour
  MaxRequests   \* bound: requests in a behaviour

AllTokens == Tokens \cup ScanTokens

Works == Batches \cup {Scan}

Result == [work : Works, value : Receipts \cup Nat]

ASSUME CommandsAssumption ==
  /\ Backend = "postgres"
  /\ Tokens \cap ScanTokens = {}
  /\ Scan \notin Batches
  /\ NoResult \notin Result
  /\ Limit \in Nat \ {0} /\ MaxWindow \in Nat /\ MaxRequests \in Nat

VARIABLES
  req,       \* the request each client works on
  record,    \* idempotency_records
  window,    \* the window the database's clock is in
  quota,     \* rate_limit_windows: count of each path and window
  sent,      \* requests so far
  done,      \* history: work carried out, by key
  told,      \* history: 200 answers, by key
  stranded,  \* history: keys whose holder went away without letting go
  onTime     \* history: requests of a window let through before the next

commandVars == <<req, record, window, quota, sent, done, told, stranded, onTime>>
commandsVars == <<vars, commandVars>>

Windows == 0..MaxWindow

Record == [status : {"absent", "processing", "completed"},
           result : Result \cup {NoResult}]

Absent == [status |-> "absent", result |-> NoResult]
Processing == [status |-> "processing", result |-> NoResult]

Request == [phase  : {"idle", "stamped", "admitted", "conflict", "claimed",
                      "updating", "worked"},
            token  : AllTokens \cup {NoResult},
            work   : Works \cup {NoResult},
            window : Windows,      \* of its limiter transaction's start
            result : Result \cup {NoResult}]

NoRequest == [phase |-> "idle", token |-> NoResult, work |-> NoResult,
              window |-> 0, result |-> NoResult]

\* The requests that have claimed their key and not let go of it.
Holding(c) == req[c].phase \in {"claimed", "updating", "worked"}

CommandsInit ==
  /\ Init
  /\ req = [c \in Clients |-> NoRequest]
  /\ record = [t \in AllTokens |-> Absent]
  /\ window = 0
  /\ quota = [w \in Works |-> [v \in Windows |-> 0]]
  /\ sent = 0
  /\ done = [t \in AllTokens |-> {}]
  /\ told = [t \in AllTokens |-> {}]
  /\ stranded = {}
  /\ onTime = [w \in Works |-> [v \in Windows |-> 0]]

(***************************************************************************)
(* PostgresRateLimiter.allow                                               *)
(***************************************************************************)

\* The request arrives and its limiter transaction begins.
Arrive(c, t, w) ==
  /\ req[c].phase = "idle" /\ call[c] = NoCall
  /\ sent < MaxRequests
  /\ (t \in ScanTokens) <=> (w = Scan)
  /\ sent' = sent + 1
  /\ req' = [req EXCEPT ![c] = [NoRequest EXCEPT !.phase = "stamped",
                                !.token = t, !.work = w, !.window = window]]
  /\ UNCHANGED <<vars, record, window, quota, done, told, stranded, onTime>>

\* No statement of a later window was executed.
InTime(v) == \A u \in Windows : u > v => \A w \in Works : onTime[w][u] = 0

\* Variant: the statement deletes its own window as well.
PurgedOwn(v) == [w \in Works |-> [u \in Windows |-> IF u <= v THEN 0 ELSE quota[w][u]]]

Purged(v) == [w \in Works |-> [u \in Windows |-> IF u < v THEN 0 ELSE quota[w][u]]]

\* Variant: the quota is compared after the request was counted in.
AdmitOneMore(c) ==
  LET w == req[c].work
      v == req[c].window IN
  /\ req[c].phase = "stamped"
  /\ IF quota[w][v] <= Limit
     THEN /\ quota' = [Purged(v) EXCEPT ![w][v] = @ + 1]
          /\ req' = [req EXCEPT ![c].phase = "admitted"]
          /\ onTime' = IF InTime(v) THEN [onTime EXCEPT ![w][v] = @ + 1] ELSE onTime
     ELSE /\ quota' = Purged(v)
          /\ req' = [req EXCEPT ![c] = NoRequest]
          /\ UNCHANGED onTime
  /\ UNCHANGED <<vars, record, window, sent, done, told, stranded>>

\* One statement: the windows before the request's own are deleted, whoever
\* still counts in them, and the request is counted or refused (429).
Admit(c) ==
  LET w == req[c].work
      v == req[c].window IN
  /\ req[c].phase = "stamped"
  /\ IF quota[w][v] < Limit
     THEN /\ quota' = [Purged(v) EXCEPT ![w][v] = @ + 1]
          /\ req' = [req EXCEPT ![c].phase = "admitted"]
          /\ onTime' = IF InTime(v) THEN [onTime EXCEPT ![w][v] = @ + 1] ELSE onTime
     ELSE /\ quota' = Purged(v)
          /\ req' = [req EXCEPT ![c] = NoRequest]
          /\ UNCHANGED onTime
  /\ UNCHANGED <<vars, record, window, sent, done, told, stranded>>

\* The limiter's database fails (503), or the order is unknown (404).
TurnAway(c) ==
  /\ \/ req[c].phase = "stamped"
     \/ req[c].phase = "admitted" /\ req[c].work # Scan
          /\ order[req[c].work] = NoOrder
  /\ req' = [req EXCEPT ![c] = NoRequest]
  /\ UNCHANGED <<vars, record, window, quota, sent, done, told, stranded, onTime>>

(***************************************************************************)
(* _claim_or_replay                                                        *)
(***************************************************************************)

\* Variant: ON CONFLICT DO UPDATE, which takes over a record in process.
ClaimInsertTakingOver(c) ==
  LET t == req[c].token IN
  /\ req[c].phase = "admitted"
  /\ req[c].work # Scan => order[req[c].work] # NoOrder
  /\ IF record[t].status # "completed"
     THEN /\ record' = [record EXCEPT ![t] = Processing]
          /\ req' = [req EXCEPT ![c].phase = "claimed"]
     ELSE /\ req' = [req EXCEPT ![c].phase = "conflict"]
          /\ UNCHANGED record
  /\ UNCHANGED <<vars, window, quota, sent, done, told, stranded, onTime>>

\* INSERT .. ON CONFLICT DO NOTHING.
ClaimInsert(c) ==
  LET t == req[c].token IN
  /\ req[c].phase = "admitted"
  /\ req[c].work # Scan => order[req[c].work] # NoOrder
  /\ IF record[t] = Absent
     THEN /\ record' = [record EXCEPT ![t] = Processing]
          /\ req' = [req EXCEPT ![c].phase = "claimed"]
     ELSE /\ req' = [req EXCEPT ![c].phase = "conflict"]
          /\ UNCHANGED record
  /\ UNCHANGED <<vars, window, quota, sent, done, told, stranded, onTime>>

\* The SELECT after the conflict: the stored response is replayed, a record
\* in process is refused (409), one gone by now fails the assertion.
ClaimSelect(c) ==
  LET t == req[c].token IN
  /\ req[c].phase = "conflict"
  /\ told' = IF record[t].status = "completed"
             THEN [told EXCEPT ![t] = @ \cup {record[t].result}] ELSE told
  /\ req' = [req EXCEPT ![c] = NoRequest]
  /\ UNCHANGED <<vars, record, window, quota, sent, done, stranded, onTime>>

(***************************************************************************)
(* The work                                                                *)
(***************************************************************************)

\* The scan ends with a result no other scan has.
ScanEnds(c) ==
  LET t == req[c].token
      r == [work |-> Scan, value |-> sent + Cardinality(done[t])] IN
  /\ req[c].phase = "claimed" /\ req[c].work = Scan
  /\ req' = [req EXCEPT ![c].phase = "worked", ![c].result = r]
  /\ done' = [done EXCEPT ![t] = @ \cup {r}]
  /\ UNCHANGED <<vars, record, window, quota, sent, told, stranded, onTime>>

\* complete() of the work-order store: the row is read and checked.
ReadForCompletion(c) ==
  /\ req[c].phase = "claimed" /\ req[c].work # Scan
  /\ ReadOrder(c, req[c].work)
  /\ call'[c].target.to = "completed"
  /\ req' = [req EXCEPT ![c].phase = "updating"]
  /\ UNCHANGED <<record, window, quota, sent, done, told, stranded, onTime>>

WriteCompletion(c) ==
  LET t == req[c].token
      r == [work |-> req[c].work, value |-> call[c].target.receipt] IN
  /\ req[c].phase = "updating"
  /\ WriteOrder(c)
  /\ req' = [req EXCEPT ![c].phase = "worked", ![c].result = r]
  /\ done' = [done EXCEPT ![t] = @ \cup {r}]
  /\ UNCHANGED <<record, window, quota, sent, told, stranded, onTime>>

\* Variant: an error of the work does not release the claim.
WorkFailsKeeping(c) ==
  /\ req[c].phase \in {"claimed", "updating"}
  /\ IF req[c].phase = "updating" THEN Rollback(c) ELSE UNCHANGED vars
  /\ req' = [req EXCEPT ![c] = NoRequest]
  /\ UNCHANGED <<record, window, quota, sent, done, told, stranded, onTime>>

\* The work raises: the order is gone or may not be completed, the scan or
\* the transaction fails.  The claim is released, unless that fails as well.
WorkFails(c) ==
  LET t == req[c].token IN
  /\ req[c].phase \in {"claimed", "updating"}
  /\ IF req[c].phase = "updating" THEN Rollback(c) ELSE UNCHANGED vars
  /\ \/ record' = [record EXCEPT ![t] = Absent] /\ UNCHANGED stranded
     \/ stranded' = stranded \cup {t} /\ UNCHANGED record
  /\ req' = [req EXCEPT ![c] = NoRequest]
  /\ UNCHANGED <<window, quota, sent, done, told, onTime>>

\* Variant: a response that cannot be stored releases the claim.
RespondReleasing(c) ==
  LET t == req[c].token IN
  /\ req[c].phase = "worked"
  /\ \/ /\ record' = [record EXCEPT ![t] = [status |-> "completed",
                                            result |-> req[c].result]]
        /\ told' = [told EXCEPT ![t] = @ \cup {req[c].result}]
     \/ /\ record' = [record EXCEPT ![t] = Absent]
        /\ UNCHANGED told
  /\ req' = [req EXCEPT ![c] = NoRequest]
  /\ UNCHANGED <<vars, window, quota, sent, done, stranded, onTime>>

\* The response is stored and sent, or cannot be stored.
Respond(c) ==
  LET t == req[c].token IN
  /\ req[c].phase = "worked"
  /\ \/ /\ record' = [record EXCEPT ![t] = [status |-> "completed",
                                            result |-> req[c].result]]
        /\ told' = [told EXCEPT ![t] = @ \cup {req[c].result}]
        /\ UNCHANGED stranded
     \/ /\ stranded' = stranded \cup {t}
        /\ UNCHANGED <<record, told>>
  /\ req' = [req EXCEPT ![c] = NoRequest]
  /\ UNCHANGED <<vars, window, quota, sent, done, onTime>>

\* The instance dies; its transaction is rolled back.
Vanish(c) ==
  /\ req[c].phase # "idle"
  /\ call' = [call EXCEPT ![c] = NoCall]
  /\ stranded' = IF Holding(c) THEN stranded \cup {req[c].token} ELSE stranded
  /\ req' = [req EXCEPT ![c] = NoRequest]
  /\ UNCHANGED <<tables, answers, record, window, quota, sent, done, told, onTime>>

NextWindow ==
  /\ window < MaxWindow
  /\ window' = window + 1
  /\ UNCHANGED <<vars, req, record, quota, sent, done, told, stranded, onTime>>

(***************************************************************************)
(* Approvals' other operations, by the same instances                      *)
(***************************************************************************)

OtherStep ==
  /\ \/ \E e \in Events : Approve(e)
     \/ \E p \in Plans : SavePlan(p) \/ ExecutePlan(p)
     \/ \E c \in Clients :
          /\ req[c].phase = "idle"
          /\ \/ \E b \in Batches :
                  ReadOrder(c, b) /\ call'[c].target.to # "completed"
             \/ WriteOrder(c)
             \/ Rollback(c)
  /\ UNCHANGED commandVars

CommandStep(c) ==
  \/ \E t \in AllTokens, w \in Works : Arrive(c, t, w)
  \/ Admit(c) \/ TurnAway(c)
  \/ ClaimInsert(c) \/ ClaimSelect(c)
  \/ ScanEnds(c) \/ ReadForCompletion(c) \/ WriteCompletion(c) \/ WorkFails(c)
  \/ Respond(c) \/ Vanish(c)

CommandsNext == OtherStep \/ NextWindow \/ \E c \in Clients : CommandStep(c)

CommandsSpec == CommandsInit /\ [][CommandsNext]_commandsVars

(***************************************************************************)
(* Properties                                                              *)
(***************************************************************************)

\* The requests, the records and the limiter's rows.
CommandsTypeOK ==
  /\ TypeOK
  /\ req \in [Clients -> Request]
  /\ record \in [AllTokens -> Record]
  /\ window \in Windows
  /\ quota \in [Works -> [Windows -> 0..Limit]]
  /\ sent \in 0..MaxRequests
  /\ done \in [AllTokens -> SUBSET Result]
  /\ told \in [AllTokens -> SUBSET Result]
  /\ stranded \subseteq AllTokens
  /\ onTime \in [Works -> [Windows -> Nat]]

\* Whatever is retried, raced or lost, a key is carried out at most once and
\* every 200 answer under it gives that work's result: a retry of a command
\* whose answer was lost never does it again.
CarriedOutOnce ==
  \A t \in AllTokens : Cardinality(done[t]) <= 1 /\ told[t] \subseteq done[t]

\* A key in process has one request that works under it, which will settle
\* or release it; only a crash, a failed release or a response that could
\* not be stored leaves a key in process for ever, and no such key was ever
\* answered.
ClaimsHaveOneHolder ==
  \A t \in AllTokens :
    LET holders == {c \in Clients : Holding(c) /\ req[c].token = t} IN
    /\ Cardinality(holders) <= 1
    /\ holders # {} => record[t].status = "processing"
    /\ record[t].status = "processing" /\ holders = {} =>
         t \in stranded /\ told[t] = {}

\* All instances together let no more requests of a path through than the
\* limit in one window, until a request of a later window is counted, which
\* deletes the window: a request that began before and is counted after is
\* counted from nothing.
QuotaOnTime ==
  \A w \in Works, v \in Windows : onTime[w][v] <= Limit

KeyState(status) == CASE status = "absent" -> "free"
                      [] status = "processing" -> "held"
                      [] status = "completed" -> "answered"
KeyStates == [t \in AllTokens |-> KeyState(record[t].status)]

Keyed == INSTANCE Idempotency
           WITH Keys <- AllTokens, Effects <- Result,
                state <- KeyStates, effect <- done

\* To the clients the record, the work and the response, three transactions of
\* an instance that may die between them, are one exchange: a key is let go of
\* only with nothing done and is answered, for good, with what was done.
ImplementsIdempotency == Keyed!Spec
=============================================================================
