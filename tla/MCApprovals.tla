---------------------------- MODULE MCApprovals ----------------------------
(***************************************************************************)
(* Approvals for TLC: two batches, two approve clicks on the first one and *)
(* one on the second, a plan, two concurrent callers.                      *)
(***************************************************************************)
EXTENDS Approvals

CONSTANTS b1, b2, e1, e2, e3, p1, c1, c2, r1, r2

MCBatches == {b1, b2}
MCEvents == {e1, e2, e3}
MCBatchOf == [e \in MCEvents |-> IF e = e3 THEN b2 ELSE b1]
MCPlans == {p1}
MCClients == {c1, c2}
MCReceipts == {r1, r2}
=============================================================================
