----------------------------- MODULE Approvals -----------------------------
(***************************************************************************)
(* Decisions, work orders and optimization plans: the tables that an       *)
(* approve click, an executed plan and the shop floor's receipts write     *)
(* (src/persistence/decision_store.py, work_order_store.py,                *)
(* optimization_store.py and their twins in postgres.py, with the legal    *)
(* transitions of src/models/work_order.py).                               *)
(*                                                                         *)
(* An approved decision is named by its idempotency key, which is unique.  *)
(* A batch stands for a (customer, batch) pair.  Approving and executing   *)
(* are one transaction each whose constraints are checked at once.  A      *)
(* work-order update reads the row, checks the transition on the copy and  *)
(* then writes: SQLite holds the write lock of BEGIN IMMEDIATE in between, *)
(* PostgreSQL reads without FOR UPDATE and holds nothing.                  *)
(*                                                                         *)
(* Calls that are refused before they write (an unknown order, an illegal  *)
(* transition, a timestamp before created_at) change nothing and are left  *)
(* out, and so are timestamps and the texts of a decision.                 *)
(***************************************************************************)
EXTENDS Integers, FiniteSets

CONSTANTS
  Batches,    \* (customer, batch) pairs
  Events,     \* stable event ids of approve clicks
  BatchOf,    \* the batch an event's key names
  Plans,      \* optimization plan ids
  Clients,    \* concurrent callers of the work-order store
  Receipts,   \* receipts a caller may attach
  NoReceipt, NoOrder, NoDecision, NoCall,
  Backend     \* "sqlite" or "postgres"

ASSUME KeysAssumption ==
  /\ BatchOf \in [Events -> Batches]
  /\ Events \cap (Plans \X Batches) = {}
ASSUME BackendAssumption == Backend \in {"sqlite", "postgres"}

\* Idempotency keys: an event id, or optimization:<plan>:<batch>.
Keys == Events \cup (Plans \X Batches)

VARIABLES
  decision,   \* approved decisions by key
  order,      \* the work order of each batch
  plan,       \* status of each plan
  alloc,      \* batches a plan allocates a positive quantity
  call,       \* work-order update whose row has been read
  answers     \* history: what approve clicks were told

tables == <<decision, order, plan, alloc>>
vars == <<decision, order, plan, alloc, call, answers>>

OrderStatus == {"pending", "in_progress", "completed", "cancelled"}

Decision == [batch : Batches, actual : Receipts \cup {NoReceipt}]

Order == [key : Keys, status : OrderStatus,
          receipt : Receipts \cup {NoReceipt}]

PlanStatus == {"absent", "pending_approval", "executed"}

\* What an update asks for: a new status, or completion with a receipt.
Target == [to : {"in_progress", "cancelled", "completed"},
           receipt : Receipts \cup {NoReceipt}]

Call == [batch : Batches, target : Target]

ASSUME NullsAssumption ==
  /\ NoReceipt \notin Receipts
  /\ NoOrder \notin Order
  /\ NoDecision \notin Decision
  /\ NoCall \notin Call

Answer == [event : Events, verb : {"recorded", "already", "error"},
           key : Keys \cup {NoOrder}]

\* Statuses an order may move to, by its present one.
Transitions ==
  [s \in OrderStatus |->
     IF s = "pending" THEN {"in_progress", "cancelled"}
     ELSE IF s = "in_progress" THEN {"completed", "cancelled"} ELSE {}]

Init ==
  /\ decision = [k \in Keys |-> NoDecision]
  /\ order = [b \in Batches |-> NoOrder]
  /\ plan = [p \in Plans |-> "absent"]
  /\ alloc = [p \in Plans |-> {}]
  /\ call = [c \in Clients |-> NoCall]
  /\ answers = {}

\* SQLite: no other transaction is between its BEGIN IMMEDIATE and its end.
CanWrite == Backend = "sqlite" => \A c \in Clients : call[c] = NoCall

NewDecision(b) == [batch |-> b, actual |-> NoReceipt]

\* Variant: a new order takes the decision's outcome as its status.
NewOrderApproved(k) == [key |-> k, status |-> "approved", receipt |-> NoReceipt]

NewOrder(k) == [key |-> k, status |-> "pending", receipt |-> NoReceipt]

Tell(e, verb, k) == answers' = answers \cup {[event |-> e, verb |-> verb, key |-> k]}

(***************************************************************************)
(* record_approval: one transaction, and after a violated constraint the   *)
(* lookup of what is already there.                                        *)
(***************************************************************************)

Fresh(k, b) == decision[k] = NoDecision /\ order[b] = NoOrder

\* SQLite looks the batch up and reads every column of its order.
ExistingForBatch(e) == order[BatchOf[e]]

\* PostgreSQL looks the event up, and its row has no receipt columns, which
\* the model of a completed order refuses.
ExistingForKey(e) ==
  IF decision[e] = NoDecision \/ order[BatchOf[e]].status = "completed"
  THEN NoOrder ELSE order[BatchOf[e]]

\* Variant: both backends look the event up.
ExistingByEvent(e) == ExistingForKey(e)

Existing(e) ==
  IF Backend = "sqlite" THEN ExistingForBatch(e) ELSE ExistingForKey(e)

\* Variant: the decision is kept although the batch already has an order.
ApproveKeepingDecision(e) ==
  /\ CanWrite
  /\ decision[e] = NoDecision
  /\ decision' = [decision EXCEPT ![e] = NewDecision(BatchOf[e])]
  /\ IF order[BatchOf[e]] = NoOrder
     THEN /\ order' = [order EXCEPT ![BatchOf[e]] = NewOrder(e)]
          /\ Tell(e, "recorded", e)
     ELSE /\ UNCHANGED order
          /\ Tell(e, "already", order[BatchOf[e]].key)
  /\ UNCHANGED <<plan, alloc, call>>

Approve(e) ==
  LET b == BatchOf[e] IN
  /\ CanWrite
  /\ \/ /\ Fresh(e, b)
        /\ decision' = [decision EXCEPT ![e] = NewDecision(b)]
        /\ order' = [order EXCEPT ![b] = NewOrder(e)]
        /\ Tell(e, "recorded", e)
     \/ /\ ~Fresh(e, b)
        /\ \/ Existing(e) # NoOrder /\ Tell(e, "already", Existing(e).key)
           \/ Existing(e) = NoOrder /\ Tell(e, "error", NoOrder)
        /\ UNCHANGED <<decision, order>>
  /\ UNCHANGED <<plan, alloc, call>>

(***************************************************************************)
(* Optimization plans                                                      *)
(***************************************************************************)

\* The endpoint saves no plan that allocates nothing.
SavePlan(p) ==
  /\ CanWrite
  /\ plan[p] = "absent"
  /\ plan' = [plan EXCEPT ![p] = "pending_approval"]
  /\ \E B \in SUBSET Batches \ {{}} : alloc' = [alloc EXCEPT ![p] = B]
  /\ UNCHANGED <<decision, order, call, answers>>

\* Variant: batches that already have an order are skipped.
ExecutePlanSkipping(p) ==
  LET B == {b \in alloc[p] : Fresh(<<p, b>>, b)} IN
  /\ CanWrite
  /\ plan[p] = "pending_approval"
  /\ decision' = [k \in Keys |-> IF k \in {p} \X B THEN NewDecision(k[2])
                                 ELSE decision[k]]
  /\ order' = [b \in Batches |-> IF b \in B THEN NewOrder(<<p, b>>)
                                 ELSE order[b]]
  /\ plan' = [plan EXCEPT ![p] = "executed"]
  /\ UNCHANGED <<alloc, call, answers>>

\* Either every allocated batch gets its decision and order, or the first
\* constraint violated rolls everything back and the plan stays pending.
ExecutePlan(p) ==
  /\ CanWrite
  /\ plan[p] = "pending_approval"
  /\ \A b \in alloc[p] : Fresh(<<p, b>>, b)
  /\ decision' = [k \in Keys |-> IF k \in {p} \X alloc[p]
                                 THEN NewDecision(k[2]) ELSE decision[k]]
  /\ order' = [b \in Batches |-> IF b \in alloc[p] THEN NewOrder(<<p, b>>)
                                 ELSE order[b]]
  /\ plan' = [plan EXCEPT ![p] = "executed"]
  /\ UNCHANGED <<alloc, call, answers>>

(***************************************************************************)
(* Work-order updates: transition and complete                             *)
(***************************************************************************)

\* transition_to refuses completed, complete() attaches a receipt.
WellFormed(target) == target.to = "completed" <=> target.receipt # NoReceipt

\* Variant: a finished order may be cancelled.
AnyStatus(s, target) == target.to = "cancelled" \/ target.to \in Transitions[s]

Allowed(s, target) == target.to \in Transitions[s]

ReadOrder(c, b) ==
  /\ CanWrite
  /\ call[c] = NoCall
  /\ order[b] # NoOrder
  /\ \E target \in Target :
       /\ WellFormed(target)
       /\ Allowed(order[b].status, target)
       /\ call' = [call EXCEPT ![c] = [batch |-> b, target |-> target]]
  /\ UNCHANGED <<tables, answers>>

\* Variant: the actual figures are not copied to the decision.
WriteOrderOnly(c) ==
  LET b == call[c].batch
      target == call[c].target IN
  /\ call[c] # NoCall
  /\ order' = [order EXCEPT ![b].status = target.to,
                            ![b].receipt = IF target.to = "completed"
                                           THEN target.receipt ELSE @]
  /\ UNCHANGED decision
  /\ call' = [call EXCEPT ![c] = NoCall]
  /\ UNCHANGED <<plan, alloc, answers>>

\* The update overwrites the row whatever it holds by now; completion also
\* copies the actual figures to the linked decision.
WriteOrder(c) ==
  LET b == call[c].batch
      target == call[c].target
      done == target.to = "completed" IN
  /\ call[c] # NoCall
  /\ order' = [order EXCEPT ![b].status = target.to,
                            ![b].receipt = IF done THEN target.receipt ELSE @]
  /\ decision' = IF done THEN [decision EXCEPT ![order[b].key].actual =
                                 target.receipt]
                 ELSE decision
  /\ call' = [call EXCEPT ![c] = NoCall]
  /\ UNCHANGED <<plan, alloc, answers>>

\* The transaction is rolled back: an error, or the process went away.
Rollback(c) ==
  /\ call[c] # NoCall
  /\ call' = [call EXCEPT ![c] = NoCall]
  /\ UNCHANGED <<tables, answers>>

Next ==
  \/ \E e \in Events : Approve(e)
  \/ \E p \in Plans : SavePlan(p) \/ ExecutePlan(p)
  \/ \E c \in Clients :
       \/ \E b \in Batches : ReadOrder(c, b)
       \/ WriteOrder(c)
       \/ Rollback(c)

Spec == Init /\ [][Next]_vars

(***************************************************************************)
(* Properties                                                              *)
(***************************************************************************)

\* The tables, the calls in progress and the answers given.
TypeOK ==
  /\ decision \in [Keys -> Decision \cup {NoDecision}]
  /\ order \in [Batches -> Order \cup {NoOrder}]
  /\ plan \in [Plans -> PlanStatus]
  /\ alloc \in [Plans -> SUBSET Batches]
  /\ call \in [Clients -> Call \cup {NoCall}]
  /\ answers \subseteq Answer

\* An approved decision and its work order exist together and name each
\* other: no decision without an order is left behind by a click or a plan
\* that found the batch taken, and no order without its decision.
ApprovalIsWhole ==
  /\ \A k \in Keys : decision[k] # NoDecision =>
       /\ order[decision[k].batch] # NoOrder
       /\ order[decision[k].batch].key = k
  /\ \A b \in Batches : order[b] # NoOrder =>
       /\ decision[order[b].key] # NoDecision
       /\ decision[order[b].key].batch = b

\* A plan is executed for every batch it allocates or for none.
PlanIsWhole ==
  \A p \in Plans :
    {b \in Batches : decision[<<p, b>>] # NoDecision} =
      IF plan[p] = "executed" THEN alloc[p] ELSE {}

\* An order carries a receipt exactly when it is completed (any other row
\* could not be read back), and its decision shows the same figures.
ReceiptsAgree ==
  \A b \in Batches : order[b] # NoOrder =>
    /\ order[b].status = "completed" <=> order[b].receipt # NoReceipt
    /\ decision[order[b].key].actual = order[b].receipt

\* Every approve click, repeated or concurrent with a plan, is answered with
\* the one work order of its batch.
ClicksNameTheOrder ==
  \A a \in answers :
    /\ a.verb # "error"
    /\ order[BatchOf[a.event]] # NoOrder
    /\ a.key = order[BatchOf[a.event]].key

\* A finished order never changes again, and no step leaves the legal path.
LegalTransitions ==
  [][\A b \in Batches : order[b] # NoOrder /\ order'[b] # order[b] =>
       order'[b].status \in Transitions[order[b].status]]_vars

Stages == [b \in Batches |-> IF order[b] = NoOrder THEN "none"
                             ELSE order[b].status]
BookReceipts == [b \in Batches |-> IF order[b] = NoOrder THEN NoReceipt
                                   ELSE order[b].receipt]

Book == INSTANCE OrderBook WITH stage <- Stages, receipt <- BookReceipts

\* The tables, updated by read, check and write, implement the atomic order
\* book: each batch has one order, on the legal path, with one receipt.
ImplementsOrderBook == Book!Spec
=============================================================================
