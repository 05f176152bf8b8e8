------------------------------ MODULE Pipeline ------------------------------
(***************************************************************************)
(* Scans and planning requests that load their batches from one ERP: the   *)
(* composition of Erp, Scan and Planner.  The jobs meet in the ERP's rows, *)
(* which change under all of them.                                         *)
(***************************************************************************)
EXTENDS Scan, Planner

CONSTANT MaxBusy  \* bound: jobs that get to work in a behaviour

ASSUME JobsAssumption ==
  /\ Scanners \cap Planners = {}
  /\ MaxBusy \in Nat

pipelineVars == <<erpVars, scanVars, plan>>

Init == ErpInit /\ ScanInit /\ PlanInit

\* Jobs that have been at work.
Busy == {j \in Scanners : scan[j].tries > 0}
          \cup {j \in Planners : plan[j].phase # "idle"}

MayWork(j) == Cardinality(Busy \cup {j}) <= MaxBusy

ErpStep == ErpNext /\ UNCHANGED <<scanVars, plan>>

ScanStep(j) ==
  /\ MayWork(j)
  /\ Begin(j) \/ Proceed(j) \/ Die(j)
  /\ UNCHANGED plan

PlanStep(j) ==
  /\ MayWork(j)
  /\ \/ Request(j) \/ Refuse(j) \/ StartAllocation(j)
     \/ Allocate(j) \/ Conclude(j)
  /\ UNCHANGED scanVars

Next ==
  \/ ErpStep
  \/ \E j \in Scanners : ScanStep(j)
  \/ \E j \in Planners : PlanStep(j)

\* Requests to the ERP, the LLM and WeCom have timeouts, so what a job waits
\* for comes; the queue gives out a scan again that failed and has attempts
\* left, or whose process died, to a worker that polls.
Fairness ==
  /\ \A j \in Jobs : WF_pipelineVars(Fetch(j) /\ UNCHANGED <<scanVars, plan>>)
  /\ \A j \in Scanners :
       WF_pipelineVars(MayWork(j) /\ (Begin(j) \/ Proceed(j)) /\ UNCHANGED plan)

Spec == Init /\ [][Next]_pipelineVars /\ Fairness

\* A scan that was begun is carried to its end, or fails and has no attempt
\* left: paging, retries and waiting for answers are never endless.  That is
\* so as long as the processes that work on it die finitely often, which
\* MaxDeaths says; one that kills every process is tried for ever (BoundedRetry
\* of TaskQueue is violated).
ScansEnd == \A j \in Scanners : scan[j].tries > 0 ~> Over(j)

\* The states of the ERP, the scans and the planning requests.
TypeOK == ErpTypeOK /\ ScanTypeOK /\ PlanTypeOK
=============================================================================
