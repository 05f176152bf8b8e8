------------------------------- MODULE Service -------------------------------
(***************************************************************************)
(* The application's processes on one SQLite file: their lifespans, with   *)
(* the rate limiter each keeps in memory, the monthly scheduler each runs  *)
(* while it serves and the archive of denied requests.                     *)
(*                                                                         *)
(* One clock serves the calendar, the limiter and the archive.  That its   *)
(* windows are not as long as real ones matters to none of them.           *)
(***************************************************************************)
EXTENDS Lifespan, RateLimit, Reports, Audit

CONSTANT MaxDeeds  \* bound: requests, decisions, receipts and denials

ASSUME ServiceAssumption ==
  /\ Limiters = Processes
  /\ Reporters = Processes
  /\ Recorders = Processes
  /\ MaxDeeds \in Nat

VARIABLE deeds  \* requests, decisions, receipts and denials so far

serviceVars == <<lifespanVars, rateVars, reportsVars, auditVars, deeds>>

Init == LifespanInit /\ RateInit /\ ReportsInit /\ AuditInit /\ deeds = 0

\* A denial is stored by a handler on the event loop: meanwhile the process
\* does nothing else.
LoopIsFree(p) == denial[p] = {}

\* The process comes up with a limiter of its own, and deletes old events
\* when its stores are open.
LifeGoesOn(p) ==
  /\ LifespanStep(p)
  /\ LoopIsFree(p) \/ life'[p] = "down"
  /\ IF life'[p] = "opening" /\ life[p] # "opening"
     THEN ResetLimiter(p) ELSE UNCHANGED rateVars
  /\ IF open'[p] = Stores /\ open[p] # Stores
     THEN Purge(now)
     ELSE IF life'[p] = "down" THEN Abandon(p) ELSE UNCHANGED auditVars
  /\ UNCHANGED <<reportsVars, deeds>>

Deed == deeds < MaxDeeds /\ deeds' = deeds + 1

ARequest(p, k) ==
  /\ life[p] = "serving" /\ LoopIsFree(p)
  /\ Deed
  /\ Allow(p, k, now)
  /\ UNCHANGED <<lifespanVars, reportsVars, auditVars>>

ADecision(p, c) ==
  /\ life[p] = "serving" /\ LoopIsFree(p)
  /\ Deed
  /\ Decide(c) \/ Verify(c)
  /\ UNCHANGED <<lifespanVars, rateVars, auditVars>>

AReport(p, c) ==
  /\ life[p] = "serving" /\ LoopIsFree(p)
  /\ Fire(p, c)
  /\ UNCHANGED <<lifespanVars, rateVars, auditVars, deeds>>

ADenial(p, t) ==
  /\ life[p] = "serving"
  /\ Deed
  /\ Deny(p, t, now)
  /\ UNCHANGED <<lifespanVars, rateVars, reportsVars>>

\* The insert succeeds or fails.
DenialEnds(p) ==
  /\ denial[p] # {}
  /\ Record(p) \/ Abandon(p)
  /\ UNCHANGED <<lifespanVars, rateVars, reportsVars, deeds>>

AnAuditPage(p, t) ==
  /\ life[p] = "serving" /\ LoopIsFree(p)
  /\ OpenListing(t) \/ ReadPage(t)
  /\ UNCHANGED <<lifespanVars, rateVars, reportsVars, deeds>>

TimePasses == Pass /\ UNCHANGED <<lifespanVars, rateVars, auditVars, deeds>>

Next ==
  \/ \E p \in Processes :
       \/ LifeGoesOn(p) \/ DenialEnds(p)
       \/ \E k \in Keys : ARequest(p, k)
       \/ \E c \in Customers : ADecision(p, c) \/ AReport(p, c)
       \/ \E t \in Tenants : ADenial(p, t) \/ AnAuditPage(p, t)
  \/ TimePasses

Spec == Init /\ [][Next]_serviceVars

\* The states of the processes, the limiters, the reports and the archive.
TypeOK ==
  /\ LifespanTypeOK /\ RateTypeOK /\ ReportsTypeOK /\ AuditTypeOK
  /\ deeds \in 0..MaxDeeds
=============================================================================
