----------------------------- MODULE MCPipeline -----------------------------
(***************************************************************************)
(* Pipeline for TLC: an ERP of three batches on two pages and a fourth     *)
(* that may arrive, a scan tried twice and a planning request with two     *)
(* actions.                                                                *)
(***************************************************************************)
EXTENDS Pipeline

CONSTANTS b1, b2, b3, b4, s1, p1, sell, scrap

MCBatches == {b1, b2, b3, b4}
MCStocked == <<b1, b2, b3>>
MCDaysLeft == [b \in MCBatches |->
                 IF b = b1 THEN 30 ELSE IF b = b2 THEN -1
                 ELSE IF b = b3 THEN 31 ELSE 15]
MCId == [b \in MCBatches |->
           IF b = b1 THEN 1 ELSE IF b = b2 THEN 2 ELSE IF b = b3 THEN 3 ELSE 4]
MCStock == [b \in MCBatches |-> IF b = b2 THEN 2 ELSE IF b = b4 THEN 0 ELSE 1]
MCJobs == {s1, p1}
MCScanners == {s1}
MCPlanners == {p1}
MCEnabled == <<sell, scrap>>
MCCapacities == [{sell, scrap} -> 0..2]
=============================================================================
