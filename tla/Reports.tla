------------------------------- MODULE Reports -------------------------------
(***************************************************************************)
(* The monthly report (src/scheduler/monthly.py and src/reports/): on a    *)
(* day of the month, in the customer's own time zone, the scheduler works  *)
(* out the month before, turns it into a half-open interval of UTC         *)
(* instants, reads the decisions in it and adds them up.                   *)
(*                                                                         *)
(* Instants are whole numbers, a customer's time zone is an offset and all *)
(* months are equally long.  A decision is named by its instant; sums of   *)
(* money are left out, what they are taken over is kept.                   *)
(***************************************************************************)
EXTENDS Integers

CONSTANTS
  Customers,
  Offset,         \* business_timezone: local time minus UTC
  MonthLength,
  MonthsPerYear,
  FireAt,         \* day and hour of the cron, as instants into the month
  Reporters,      \* the processes, each with a scheduler
  Start, End      \* bound: the instants of a behaviour

ASSUME ReportsAssumption ==
  /\ Offset \in [Customers -> Int]
  /\ MonthLength \in Nat \ {0} /\ MonthsPerYear \in Nat \ {0}
  /\ FireAt \in 0..(MonthLength - 1)
  /\ Start \in Int /\ End \in Int /\ Start <= End

VARIABLES
  now,     \* UTC
  ledger,  \* decisions of each customer: what was decided at an instant
  reports  \* reports made, by customer

reportsVars == <<now, ledger, reports>>

Instants == Start..End

Status == {"none", "declined", "approved", "verified"}

Months == Int \X (1..MonthsPerYear)

Report == [by : Reporters, month : Months, counted : SUBSET Instants,
           approved : SUBSET Instants, verified : SUBSET Instants]

ReportsInit ==
  /\ now = Start
  /\ ledger = [c \in Customers |-> [t \in Instants |-> "none"]]
  /\ reports = [c \in Customers |-> {}]

(***************************************************************************)
(* The calendar                                                            *)
(***************************************************************************)

Local(c, t) == t + Offset[c]

\* Year and month of a local instant.
MonthOf(local) == <<local \div (MonthLength * MonthsPerYear),
                    ((local \div MonthLength) % MonthsPerYear) + 1>>

PreviousMonth(m) == IF m[2] = 1 THEN <<m[1] - 1, MonthsPerYear>>
                    ELSE <<m[1], m[2] - 1>>

NextMonth(m) == IF m[2] = MonthsPerYear THEN <<m[1] + 1, 1>>
                ELSE <<m[1], m[2] + 1>>

\* Variant: the month begins at midnight UTC.
BeginsUTC(c, m) == (m[1] * MonthsPerYear + m[2] - 1) * MonthLength

\* The instant at which a customer's month begins.
Begins(c, m) == (m[1] * MonthsPerYear + m[2] - 1) * MonthLength - Offset[c]

\* list_for_period of [start, end).
InMonth(c, m) ==
  {t \in Instants : /\ Begins(c, m) <= t /\ t < Begins(c, NextMonth(m))
                    /\ ledger[c][t] # "none"}

\* aggregate_monthly_report: receipts verify approved decisions only.
Aggregate(p, c, m) ==
  [by |-> p, month |-> m, counted |-> InMonth(c, m),
   approved |-> {t \in InMonth(c, m) : ledger[c][t] \in {"approved", "verified"}},
   verified |-> {t \in InMonth(c, m) : ledger[c][t] = "verified"}]

(***************************************************************************)
(* Decisions, receipts and the cron                                        *)
(***************************************************************************)

\* decided_at is taken just before the insert; between the two the process
\* does nothing else, and no other process is assumed to make a report.
Decide(c) ==
  /\ ledger[c][now] = "none"
  /\ \E s \in {"declined", "approved"} : ledger' = [ledger EXCEPT ![c][now] = s]
  /\ UNCHANGED <<now, reports>>

Verify(c) ==
  /\ \E t \in Instants : /\ ledger[c][t] = "approved"
                         /\ ledger' = [ledger EXCEPT ![c][t] = "verified"]
  /\ UNCHANGED <<now, reports>>

\* The trigger of a customer's job, in the customer's time zone.
CronFires(c) == Local(c, now) % MonthLength = FireAt

\* The job, once in its month; a month without decisions is skipped, and a
\* run that fails leaves no report.
Fire(p, c) ==
  LET month == PreviousMonth(MonthOf(Local(c, now))) IN
  /\ CronFires(c)
  /\ \A r \in reports[c] : ~(r.by = p /\ r.month = month)
  /\ InMonth(c, month) # {}
  /\ reports' = [reports EXCEPT ![c] = @ \cup {Aggregate(p, c, month)}]
  /\ UNCHANGED <<now, ledger>>

Pass ==
  /\ now < End
  /\ now' = now + 1
  /\ UNCHANGED <<ledger, reports>>

(***************************************************************************)
(* Properties                                                              *)
(***************************************************************************)

\* The ledger and the reports.
ReportsTypeOK ==
  /\ now \in Instants
  /\ ledger \in [Customers -> [Instants -> Status]]
  /\ \A c \in Customers : reports[c] \subseteq Report

\* A report stays true: it counts the decisions that were made in its month
\* by the customer's own calendar, all of them and no others, and the
\* approved ones as approved, whatever is decided or received after it.  So
\* no decision is in two months' reports, and none falls between two months.
ReportsAreComplete ==
  \A c \in Customers : \A r \in reports[c] :
    LET month == {t \in Instants : MonthOf(Local(c, t)) = r.month} IN
    /\ r.counted = {t \in month : ledger[c][t] # "none"}
    /\ r.approved = {t \in month : ledger[c][t] \in {"approved", "verified"}}
    /\ r.verified \subseteq r.approved
=============================================================================
