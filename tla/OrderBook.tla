----------------------------- MODULE OrderBook -----------------------------
(***************************************************************************)
(* What the approval side promises about each batch: at most one work      *)
(* order, opened together with its decision, moving along the legal path   *)
(* pending, in_progress, completed, cancelled only from the first two, and *)
(* carrying a receipt once and only when it completes.                     *)
(***************************************************************************)
CONSTANTS Batches, Receipts, NoReceipt

VARIABLES
  stage,    \* stage of the batch's order, "none" while there is none
  receipt   \* receipt of the order, NoReceipt until it completes

Stage == {"none", "pending", "in_progress", "completed", "cancelled"}

Init ==
  /\ stage = [b \in Batches |-> "none"]
  /\ receipt = [b \in Batches |-> NoReceipt]

\* One approval opens one order, one executed plan several at once.
Open(B) ==
  /\ B # {} /\ \A b \in B : stage[b] = "none"
  /\ stage' = [b \in Batches |-> IF b \in B THEN "pending" ELSE stage[b]]
  /\ UNCHANGED receipt

Start(b) ==
  /\ stage[b] = "pending"
  /\ stage' = [stage EXCEPT ![b] = "in_progress"]
  /\ UNCHANGED receipt

Cancel(b) ==
  /\ stage[b] \in {"pending", "in_progress"}
  /\ stage' = [stage EXCEPT ![b] = "cancelled"]
  /\ UNCHANGED receipt

Complete(b) ==
  /\ stage[b] = "in_progress"
  /\ stage' = [stage EXCEPT ![b] = "completed"]
  /\ \E r \in Receipts : receipt' = [receipt EXCEPT ![b] = r]

Next ==
  \/ \E B \in SUBSET Batches : Open(B)
  \/ \E b \in Batches : Start(b) \/ Cancel(b) \/ Complete(b)

Spec == Init /\ [][Next]_<<stage, receipt>>
=============================================================================
