-------------------------- MODULE ApprovalsProofs --------------------------
(***************************************************************************)
(* Theorems about Approvals for any batches, events, plans, callers and    *)
(* receipts.  The first groups hold for both backends, the next one as     *)
(* long as no two updates of one order overlap, the last under SQLite,     *)
(* whose write lock covers an update from read to write.                   *)
(***************************************************************************)
EXTENDS Approvals, TLAPS

USE KeysAssumption, NullsAssumption, BackendAssumption

(***************************************************************************)
(* Both backends                                                           *)
(***************************************************************************)

\* A row that was read for an update exists.
CallsHaveRows ==
  \A c \in Clients : call[c] # NoCall => order[call[c].batch] # NoOrder

IInv == TypeOK /\ ApprovalIsWhole /\ PlanIsWhole /\ CallsHaveRows

LEMMA IInvInit == Init => IInv
  BY DEF Init, IInv, TypeOK, ApprovalIsWhole, PlanIsWhole, CallsHaveRows,
         PlanStatus, Keys, Order, Decision, Call

\* A fresh row is a row.
LEMMA NewRows ==
  /\ \A b \in Batches : NewDecision(b) \in Decision /\ NewDecision(b).batch = b
  /\ \A k \in Keys : NewOrder(k) \in Order /\ NewOrder(k).key = k
  BY DEF NewDecision, NewOrder, Decision, Order, OrderStatus

LEMMA IInvApprove ==
  ASSUME IInv, NEW e \in Events, Approve(e)
  PROVE  IInv'
  <1> DEFINE b == BatchOf[e]
  <1>1. e \in Keys /\ b \in Batches
    BY DEF Keys
  <1>2. CASE Fresh(e, b)
    <2>1. /\ decision' = [decision EXCEPT ![e] = NewDecision(b)]
          /\ order' = [order EXCEPT ![b] = NewOrder(e)]
          /\ answers' = answers \cup {[event |-> e, verb |-> "recorded", key |-> e]}
          /\ UNCHANGED <<plan, alloc, call>>
      BY <1>2 DEF Approve, Tell
    <2>2. decision[e] = NoDecision /\ order[b] = NoOrder
      BY <1>2 DEF Fresh
    <2>3. TypeOK'
      BY <1>1, <2>1, NewRows DEF IInv, TypeOK, Answer
    <2>4. ApprovalIsWhole'
      BY <1>1, <2>1, <2>2, NewRows DEF IInv, TypeOK, ApprovalIsWhole, Order, Decision
    <2>5. PlanIsWhole'
      BY <2>1 DEF IInv, TypeOK, PlanIsWhole, Keys
    <2>6. CallsHaveRows'
      BY <1>1, <2>1, NewRows DEF IInv, TypeOK, CallsHaveRows
    <2>7. QED
      BY <2>3, <2>4, <2>5, <2>6 DEF IInv
  <1>3. CASE ~Fresh(e, b)
    <2>1. Existing(e) # NoOrder => Existing(e).key \in Keys
      BY <1>1 DEF Existing, ExistingForBatch, ExistingForKey, IInv, TypeOK, Order
    <2>2. UNCHANGED <<tables, call>>
      BY <1>3 DEF Approve, tables
    <2>3. answers' \subseteq Answer
      BY <1>3, <2>1 DEF Approve, Tell, Answer, IInv, TypeOK
    <2>4. QED
      BY <2>2, <2>3 DEF IInv, TypeOK, ApprovalIsWhole, PlanIsWhole,
                        CallsHaveRows, tables
  <1>4. QED
    BY <1>2, <1>3

LEMMA IInvExecutePlan ==
  ASSUME IInv, NEW p \in Plans, ExecutePlan(p)
  PROVE  IInv'
  <1> DEFINE B == alloc[p]
             K == {p} \X B
  <1>1. /\ decision' = [k \in Keys |-> IF k \in K THEN NewDecision(k[2])
                                       ELSE decision[k]]
        /\ order' = [b \in Batches |-> IF b \in B THEN NewOrder(<<p, b>>)
                                       ELSE order[b]]
        /\ plan' = [plan EXCEPT ![p] = "executed"]
        /\ UNCHANGED <<alloc, call, answers>>
        /\ plan[p] = "pending_approval"
    BY DEF ExecutePlan
  <1>2. B \subseteq Batches /\ K \subseteq Keys
    BY DEF IInv, TypeOK, Keys
  <1>3. \A b \in B : decision[<<p, b>>] = NoDecision /\ order[b] = NoOrder
    BY DEF ExecutePlan, Fresh
  <1>4. TypeOK'
    BY <1>1, <1>2, NewRows DEF IInv, TypeOK, PlanStatus, Keys
  <1>5. ApprovalIsWhole'
    <2>1. ASSUME NEW k \in Keys, decision'[k] # NoDecision
          PROVE  /\ order'[decision'[k].batch] # NoOrder
                 /\ order'[decision'[k].batch].key = k
      <3>1. CASE k \in K
        BY <1>1, <1>2, <3>1, NewRows
      <3>2. CASE k \notin K
        <4>1. decision'[k] = decision[k]
          BY <1>1, <3>2
        <4>2. decision[k].batch \in Batches \ B
          <5>1. decision[k] \in Decision
            BY <2>1, <4>1 DEF IInv, TypeOK
          <5>2. decision[k].batch \in Batches
            BY <5>1 DEF Decision
          <5>3. order[decision[k].batch] # NoOrder
            BY <2>1, <4>1 DEF IInv, ApprovalIsWhole
          <5>4. QED
            BY <1>3, <5>2, <5>3
        <4>3. QED
          BY <1>1, <2>1, <4>1, <4>2 DEF IInv, ApprovalIsWhole
      <3>3. QED
        BY <3>1, <3>2
    <2>2. ASSUME NEW b \in Batches, order'[b] # NoOrder
          PROVE  /\ decision'[order'[b].key] # NoDecision
                 /\ decision'[order'[b].key].batch = b
      <3>1. CASE b \in B
        BY <1>1, <1>2, <3>1, NewRows
      <3>2. CASE b \notin B
        <4>1. order'[b] = order[b] /\ order[b] \in Order
          BY <1>1, <2>2, <3>2 DEF IInv, TypeOK
        <4>2. order[b].key \in Keys /\ decision[order[b].key] # NoDecision
          BY <2>2, <4>1 DEF IInv, ApprovalIsWhole, Order
        <4>3. order[b].key \notin K
          BY <1>3, <4>2
        <4>4. QED
          BY <1>1, <2>2, <4>1, <4>2, <4>3 DEF IInv, ApprovalIsWhole
      <3>3. QED
        BY <3>1, <3>2
    <2>3. QED
      BY <2>1, <2>2 DEF ApprovalIsWhole
  <1>6. PlanIsWhole'
    <2>1. ASSUME NEW q \in Plans
          PROVE  {b \in Batches : decision'[<<q, b>>] # NoDecision} =
                   IF plan'[q] = "executed" THEN alloc'[q] ELSE {}
      <3>0. {b \in Batches : decision[<<q, b>>] # NoDecision} =
              IF plan[q] = "executed" THEN alloc[q] ELSE {}
        BY DEF IInv, PlanIsWhole
      <3>1. \A b \in Batches :
              decision'[<<q, b>>] = IF q = p /\ b \in B THEN NewDecision(b)
                                    ELSE decision[<<q, b>>]
        BY <1>1 DEF Keys
      <3>2. CASE q = p
        BY <1>1, <1>2, <3>0, <3>1, <3>2, NewRows DEF IInv, TypeOK
      <3>3. CASE q # p
        BY <1>1, <3>0, <3>1, <3>3 DEF IInv, TypeOK
      <3>4. QED
        BY <3>2, <3>3
    <2>2. QED
      BY <2>1 DEF PlanIsWhole
  <1>7. CallsHaveRows'
    BY <1>1, <1>2, NewRows DEF IInv, TypeOK, CallsHaveRows, Call, Keys
  <1>8. QED
    BY <1>4, <1>5, <1>6, <1>7 DEF IInv

LEMMA IInvSavePlan ==
  ASSUME IInv, NEW p \in Plans, SavePlan(p)
  PROVE  IInv'
  <1>1. PICK B \in SUBSET Batches : alloc' = [alloc EXCEPT ![p] = B]
    BY DEF SavePlan
  <1>2. /\ plan[p] = "absent"
        /\ plan' = [plan EXCEPT ![p] = "pending_approval"]
        /\ UNCHANGED <<decision, order, call, answers>>
    BY DEF SavePlan
  <1>3. TypeOK'
    BY <1>1, <1>2 DEF IInv, TypeOK, PlanStatus
  <1>4. PlanIsWhole'
    BY <1>1, <1>2 DEF IInv, TypeOK, PlanIsWhole
  <1>5. ApprovalIsWhole' /\ CallsHaveRows'
    BY <1>2 DEF IInv, ApprovalIsWhole, CallsHaveRows
  <1>6. QED
    BY <1>3, <1>4, <1>5 DEF IInv

LEMMA IInvReadOrder ==
  ASSUME IInv, NEW c \in Clients, NEW b \in Batches, ReadOrder(c, b)
  PROVE  IInv'
  <1>1. PICK target \in Target :
          call' = [call EXCEPT ![c] = [batch |-> b, target |-> target]]
    BY DEF ReadOrder
  <1>2. order[b] # NoOrder /\ UNCHANGED <<tables, answers>>
    BY DEF ReadOrder
  <1>3. TypeOK'
    BY <1>1, <1>2 DEF IInv, TypeOK, Call, tables
  <1>4. CallsHaveRows'
    BY <1>1, <1>2 DEF IInv, TypeOK, CallsHaveRows, tables
  <1>5. ApprovalIsWhole' /\ PlanIsWhole'
    BY <1>2 DEF IInv, ApprovalIsWhole, PlanIsWhole, tables
  <1>6. QED
    BY <1>3, <1>4, <1>5 DEF IInv

\* A row with some of its fields set.
LEMMA DecisionUpdate ==
  \A d \in Decision : \A x :
    [d EXCEPT !.actual = x] = [batch |-> d.batch, actual |-> x]
  BY DEF Decision

LEMMA OrderUpdate ==
  \A o \in Order : \A x, y :
    [o EXCEPT !.status = x, !.receipt = y] =
      [key |-> o.key, status |-> x, receipt |-> y]
  <1> TAKE o \in Order
  <1> TAKE x, y
  <1> DEFINE o1 == [key |-> o.key, status |-> x, receipt |-> o.receipt]
  <1>1. [o EXCEPT !.status = x] = o1
    BY DEF Order
  <1>2. [o1 EXCEPT !.receipt = y] =
          [key |-> o.key, status |-> x, receipt |-> y]
    OBVIOUS
  <1>3. [o EXCEPT !.status = x, !.receipt = y] =
          [[o EXCEPT !.status = x] EXCEPT !.receipt = y]
    OBVIOUS
  <1> HIDE DEF o1
  <1>4. QED
    BY <1>1, <1>2, <1>3

LEMMA RowUpdate ==
  ASSUME TypeOK, NEW b \in Batches, NEW x, NEW y, order[b] \in Order,
         order' = [order EXCEPT ![b].status = x, ![b].receipt = y]
  PROVE  order' = [order EXCEPT ![b] =
                     [key |-> order[b].key, status |-> x, receipt |-> y]]
  <1> DEFINE o == [order[b] EXCEPT !.status = x, !.receipt = y]
  <1>1. order' = [order EXCEPT ![b] = o]
    BY DEF TypeOK
  <1>2. o = [key |-> order[b].key, status |-> x, receipt |-> y]
    BY OrderUpdate
  <1> HIDE DEF o
  <1>3. QED
    BY <1>1, <1>2

\* What a write does to the rows: the order keeps its key, its decision keeps
\* its batch, and every other row is as before.
LEMMA WriteEffect ==
  ASSUME IInv, NEW c \in Clients, WriteOrder(c)
  PROVE  LET b == call[c].batch
             target == call[c].target
             done == target.to = "completed"
             k == order[b].key
         IN /\ b \in Batches /\ k \in Keys /\ order[b] \in Order
            /\ decision[k] \in Decision /\ decision[k].batch = b
            /\ target \in Target
            /\ order' = [order EXCEPT ![b] =
                 [key |-> k, status |-> target.to,
                  receipt |-> IF done THEN target.receipt ELSE order[b].receipt]]
            /\ decision' = [decision EXCEPT ![k] =
                 [batch |-> b,
                  actual |-> IF done THEN target.receipt ELSE decision[k].actual]]
            /\ call' = [call EXCEPT ![c] = NoCall]
            /\ UNCHANGED <<plan, alloc, answers>>
  <1> DEFINE b == call[c].batch
             target == call[c].target
             k == order[b].key
  <1>1. call[c] \in Call
    BY DEF WriteOrder, IInv, TypeOK
  <1>2. b \in Batches /\ target \in Target /\ order[b] # NoOrder
    BY <1>1 DEF Call, WriteOrder, IInv, CallsHaveRows
  <1>3. order[b] \in Order
    BY <1>2 DEF IInv, TypeOK
  <1>4. k \in Keys /\ decision[k] # NoDecision /\ decision[k].batch = b
    BY <1>2, <1>3 DEF Order, IInv, ApprovalIsWhole
  <1>5. decision[k] \in Decision
    BY <1>4 DEF IInv, TypeOK
  <1>6. order' = [order EXCEPT ![b] =
          [key |-> k, status |-> target.to,
           receipt |-> IF target.to = "completed" THEN target.receipt
                       ELSE order[b].receipt]]
    <2> DEFINE r == IF target.to = "completed" THEN target.receipt
                    ELSE order[b].receipt
    <2>1. order' = [order EXCEPT ![b].status = target.to, ![b].receipt = r]
      BY <1>2, <1>3 DEF WriteOrder, IInv, TypeOK, Order
    <2> HIDE DEF r
    <2>2. order' = [order EXCEPT ![b] =
                      [key |-> k, status |-> target.to, receipt |-> r]]
      BY <1>2, <1>3, <2>1, RowUpdate DEF IInv
    <2>3. QED
      BY <2>2 DEF r
  <1>7. decision' = [decision EXCEPT ![k] =
          [batch |-> b, actual |-> IF target.to = "completed" THEN target.receipt
                                   ELSE decision[k].actual]]
    <2>1. decision[k] = [batch |-> b, actual |-> decision[k].actual]
      BY <1>4, <1>5 DEF Decision
    <2>2. CASE target.to = "completed"
      <3>1. decision' = [decision EXCEPT ![k].actual = target.receipt]
        BY <2>2 DEF WriteOrder
      <3>2. QED
        BY <1>4, <1>5, <2>2, <3>1, DecisionUpdate
    <2>3. CASE target.to # "completed"
      <3>1. decision' = decision
        BY <2>3 DEF WriteOrder
      <3>2. QED
        BY <1>4, <2>1, <2>3, <3>1 DEF IInv, TypeOK
    <2>4. QED
      BY <2>2, <2>3
  <1>8. QED
    BY <1>2, <1>3, <1>4, <1>5, <1>6, <1>7 DEF WriteOrder

LEMMA IInvWriteOrder ==
  ASSUME IInv, NEW c \in Clients, WriteOrder(c)
  PROVE  IInv'
  <1> DEFINE b == call[c].batch
             target == call[c].target
             k == order[b].key
             row == [key |-> k, status |-> target.to,
                     receipt |-> IF target.to = "completed" THEN target.receipt
                                 ELSE order[b].receipt]
             dec == [batch |-> b,
                     actual |-> IF target.to = "completed" THEN target.receipt
                                ELSE decision[k].actual]
  <1>1. /\ b \in Batches /\ k \in Keys /\ order[b] \in Order
        /\ decision[k] \in Decision /\ decision[k].batch = b
        /\ target \in Target
        /\ order' = [order EXCEPT ![b] = row]
        /\ decision' = [decision EXCEPT ![k] = dec]
        /\ call' = [call EXCEPT ![c] = NoCall]
        /\ UNCHANGED <<plan, alloc, answers>>
    BY WriteEffect
  <1>2. row \in Order /\ row.key = k
    BY <1>1 DEF Order, Target, OrderStatus
  <1>3. dec \in Decision /\ dec.batch = b
    BY <1>1 DEF Decision, Target
  <1> HIDE DEF row, dec
  <1>4. TypeOK'
    BY <1>1, <1>2, <1>3 DEF IInv, TypeOK
  <1>5. \A l \in Keys : /\ decision'[l] = NoDecision <=> decision[l] = NoDecision
                        /\ decision'[l].batch = decision[l].batch
    BY <1>1, <1>3 DEF IInv, TypeOK
  <1>6. \A d \in Batches : /\ order'[d] = NoOrder <=> order[d] = NoOrder
                           /\ order'[d].key = order[d].key
    BY <1>1, <1>2 DEF IInv, TypeOK
  <1>7. \A l \in Keys : decision[l] # NoDecision => decision[l].batch \in Batches
    BY DEF IInv, TypeOK, Decision
  <1>8. \A d \in Batches : order[d] # NoOrder => order[d].key \in Keys
    BY DEF IInv, TypeOK, Order
  <1>9. ApprovalIsWhole'
    BY <1>5, <1>6, <1>7, <1>8 DEF IInv, ApprovalIsWhole
  <1>10. PlanIsWhole'
    <2>1. \A p \in Plans, d \in Batches : <<p, d>> \in Keys
      BY DEF Keys
    <2>2. QED
      BY <1>1, <1>5, <2>1 DEF IInv, PlanIsWhole
  <1>11. CallsHaveRows'
    BY <1>1, <1>6 DEF IInv, TypeOK, CallsHaveRows, Call
  <1>12. QED
    BY <1>4, <1>9, <1>10, <1>11 DEF IInv

LEMMA IInvStep == IInv /\ [Next]_vars => IInv'
  <1> SUFFICES ASSUME IInv, [Next]_vars
               PROVE  IInv'
    OBVIOUS
  <1>1. CASE UNCHANGED vars
    BY <1>1 DEF vars, tables, IInv, TypeOK, ApprovalIsWhole, PlanIsWhole,
                CallsHaveRows
  <1>2. ASSUME NEW c \in Clients, Rollback(c)
        PROVE  IInv'
    BY <1>2 DEF Rollback, tables, IInv, TypeOK, ApprovalIsWhole, PlanIsWhole,
                CallsHaveRows
  <1>3. QED
    BY <1>1, <1>2, IInvApprove, IInvSavePlan, IInvExecutePlan, IInvReadOrder,
       IInvWriteOrder DEF Next

THEOREM Invariance == Spec => []IInv
  <1>1. QED
    BY IInvInit, IInvStep, PTL DEF Spec

\* The tables stay well formed on both backends.
THEOREM TypeCorrect == Spec => []TypeOK
  <1>1. IInv => TypeOK
    BY DEF IInv
  <1>2. QED
    BY <1>1, Invariance, PTL

\* Approved decisions and work orders exist only in pairs: clicks, plans and
\* receipts in any interleaving, on either backend, leave no half of one.
THEOREM WholenessTheorem == Spec => []ApprovalIsWhole
  <1>1. IInv => ApprovalIsWhole
    BY DEF IInv
  <1>2. QED
    BY <1>1, Invariance, PTL

\* A plan has decisions for all its batches once it is executed and for none
\* before.
THEOREM PlanTheorem == Spec => []PlanIsWhole
  <1>1. IInv => PlanIsWhole
    BY DEF IInv
  <1>2. QED
    BY <1>1, Invariance, PTL

(***************************************************************************)
(* Orders and their figures on both backends                               *)
(***************************************************************************)

\* An update carries a receipt when it completes an order and else none.
CallsWellFormed == \A c \in Clients : call[c] # NoCall => WellFormed(call[c].target)

\* However updates overwrite each other, an order and its decision show the
\* same figures, and a completed order has some.
FiguresAgree ==
  \A b \in Batches : order[b] # NoOrder =>
    /\ decision[order[b].key].actual = order[b].receipt
    /\ order[b].status = "completed" => order[b].receipt # NoReceipt

\* The decision of a click is about the click's batch.
ClicksMatch ==
  \A e \in Events : decision[e] # NoDecision => decision[e].batch = BatchOf[e]

\* A click that is not answered with an error is told the order its batch has,
\* then and ever after.
AnswersNameTheOrder ==
  \A a \in answers : a.verb # "error" =>
    /\ order[BatchOf[a.event]] # NoOrder
    /\ a.key = order[BatchOf[a.event]].key

FiguresInv ==
  CallsWellFormed /\ FiguresAgree /\ ClicksMatch /\ AnswersNameTheOrder

\* Approvals and plans add pending orders and leave the others alone.
LEMMA OpenEffect ==
  ASSUME IInv, (\E e \in Events : Approve(e)) \/ (\E p \in Plans : ExecutePlan(p))
  PROVE  /\ UNCHANGED call
         /\ \A b \in Batches : order[b] # NoOrder =>
              /\ order'[b] = order[b]
              /\ decision'[order[b].key] = decision[order[b].key]
         /\ \A b \in Batches : order[b] = NoOrder /\ order'[b] # NoOrder =>
              /\ order'[b].status = "pending" /\ order'[b].receipt = NoReceipt
              /\ decision'[order'[b].key].actual = NoReceipt
  <1>1. \A b \in Batches : order[b] # NoOrder =>
          order[b].key \in Keys /\ decision[order[b].key] # NoDecision
    BY DEF IInv, TypeOK, ApprovalIsWhole, Order
  <1>2. ASSUME NEW e \in Events, Approve(e), Fresh(e, BatchOf[e])
        PROVE  /\ UNCHANGED call
               /\ \A b \in Batches : order[b] # NoOrder =>
                    /\ order'[b] = order[b]
                    /\ decision'[order[b].key] = decision[order[b].key]
               /\ \A b \in Batches : order[b] = NoOrder /\ order'[b] # NoOrder =>
                    /\ order'[b].status = "pending" /\ order'[b].receipt = NoReceipt
                    /\ decision'[order'[b].key].actual = NoReceipt
    <2>1. /\ decision' = [decision EXCEPT ![e] = NewDecision(BatchOf[e])]
          /\ order' = [order EXCEPT ![BatchOf[e]] = NewOrder(e)]
          /\ decision[e] = NoDecision /\ order[BatchOf[e]] = NoOrder
          /\ UNCHANGED call
      BY <1>2 DEF Approve, Fresh
    <2>2. e \in Keys /\ BatchOf[e] \in Batches
      BY DEF Keys
    <2>3. QED
      BY <1>1, <2>1, <2>2 DEF IInv, TypeOK, NewOrder, NewDecision
  <1>3. ASSUME NEW e \in Events, Approve(e), ~Fresh(e, BatchOf[e])
        PROVE  UNCHANGED <<call, order, decision>>
    BY <1>3 DEF Approve
  <1>4. ASSUME NEW p \in Plans, ExecutePlan(p)
        PROVE  /\ UNCHANGED call
               /\ \A b \in Batches : order[b] # NoOrder =>
                    /\ order'[b] = order[b]
                    /\ decision'[order[b].key] = decision[order[b].key]
               /\ \A b \in Batches : order[b] = NoOrder /\ order'[b] # NoOrder =>
                    /\ order'[b].status = "pending" /\ order'[b].receipt = NoReceipt
                    /\ decision'[order'[b].key].actual = NoReceipt
    <2> DEFINE B == alloc[p]
               K == {p} \X B
    <2>1. /\ decision' = [k \in Keys |-> IF k \in K THEN NewDecision(k[2])
                                         ELSE decision[k]]
          /\ order' = [b \in Batches |-> IF b \in B THEN NewOrder(<<p, b>>)
                                         ELSE order[b]]
          /\ \A b \in B : decision[<<p, b>>] = NoDecision /\ order[b] = NoOrder
          /\ UNCHANGED call
      BY <1>4 DEF ExecutePlan, Fresh
    <2>2. B \subseteq Batches /\ K \subseteq Keys
      BY DEF IInv, TypeOK, Keys
    <2>3. ASSUME NEW b \in Batches, order[b] # NoOrder
          PROVE  /\ order'[b] = order[b]
                 /\ decision'[order[b].key] = decision[order[b].key]
      <3>1. b \notin B
        BY <2>1, <2>3
      <3>2. \A k \in K : decision[k] = NoDecision
        BY <2>1
      <3>3. order[b].key \in Keys /\ order[b].key \notin K
        BY <1>1, <2>3, <3>2
      <3>4. QED
        BY <2>1, <3>1, <3>3
    <2>4. ASSUME NEW b \in Batches, order[b] = NoOrder, order'[b] # NoOrder
          PROVE  /\ order'[b].status = "pending" /\ order'[b].receipt = NoReceipt
                 /\ decision'[order'[b].key].actual = NoReceipt
      <3>1. b \in B /\ order'[b] = NewOrder(<<p, b>>) /\ <<p, b>> \in K
        BY <2>1, <2>4
      <3>2. decision'[<<p, b>>] = NewDecision(b)
        BY <2>1, <2>2, <3>1
      <3>3. QED
        BY <3>1, <3>2 DEF NewOrder, NewDecision
    <2>5. QED
      BY <2>1, <2>3, <2>4
  <1>5. QED
    BY <1>2, <1>3, <1>4

\* An update rewrites the status and the figures of one order.
LEMMA UpdateEffect ==
  ASSUME IInv, NEW c \in Clients, WriteOrder(c)
  PROVE  LET b == call[c].batch
             target == call[c].target
             done == target.to = "completed"
         IN /\ call[c] # NoCall /\ b \in Batches /\ target \in Target
            /\ order[b] \in Order
            /\ \A d \in Batches \ {b} : order'[d] = order[d]
            /\ \A d \in Batches \ {b} : order[d] # NoOrder =>
                 decision'[order[d].key] = decision[order[d].key]
            /\ order'[b].status = target.to /\ order'[b].key = order[b].key
            /\ order'[b] # NoOrder
            /\ order'[b].receipt = IF done THEN target.receipt ELSE order[b].receipt
            /\ decision'[order[b].key].actual =
                 IF done THEN target.receipt ELSE decision[order[b].key].actual
            /\ \A k \in Keys : decision[k] # NoDecision =>
                 decision'[k].batch = decision[k].batch
            /\ \A k \in Keys : decision'[k] # NoDecision => decision[k] # NoDecision
            /\ call' = [call EXCEPT ![c] = NoCall] /\ UNCHANGED answers
  <1> DEFINE b == call[c].batch
             target == call[c].target
             k == order[b].key
             row == [key |-> k, status |-> target.to,
                     receipt |-> IF target.to = "completed" THEN target.receipt
                                 ELSE order[b].receipt]
             dec == [batch |-> b,
                     actual |-> IF target.to = "completed" THEN target.receipt
                                ELSE decision[k].actual]
  <1>1. /\ b \in Batches /\ k \in Keys /\ order[b] \in Order
        /\ decision[k] \in Decision /\ decision[k].batch = b
        /\ target \in Target
        /\ order' = [order EXCEPT ![b] = row]
        /\ decision' = [decision EXCEPT ![k] = dec]
        /\ call' = [call EXCEPT ![c] = NoCall]
        /\ UNCHANGED answers
    BY WriteEffect
  <1>2. call[c] # NoCall
    BY DEF WriteOrder
  <1>3. order'[b] = row /\ \A d \in Batches \ {b} : order'[d] = order[d]
    BY <1>1 DEF IInv, TypeOK
  <1>4. decision'[k] = dec /\ \A x \in Keys \ {k} : decision'[x] = decision[x]
    BY <1>1 DEF IInv, TypeOK
  <1>5. row # NoOrder
    <2>1. row.receipt \in Receipts \cup {NoReceipt} /\ row.status \in OrderStatus
      BY <1>1 DEF Target, Order, OrderStatus
    <2>2. row \in Order
      BY <1>1, <2>1 DEF Order
    <2>3. QED
      BY <2>2
  <1>6. \A d \in Batches \ {b} : order[d] # NoOrder =>
          order[d].key \in Keys /\ order[d].key # k
    BY <1>1 DEF IInv, TypeOK, ApprovalIsWhole, Order
  <1>7. decision[k] # NoDecision
    BY <1>1
  <1>8. row.status = target.to /\ row.key = k /\ dec.batch = b
        /\ row.receipt = (IF target.to = "completed" THEN target.receipt
                          ELSE order[b].receipt)
        /\ dec.actual = (IF target.to = "completed" THEN target.receipt
                         ELSE decision[k].actual)
    OBVIOUS
  <1> HIDE DEF row, dec
  <1>9. \A d \in Batches \ {b} : order[d] # NoOrder =>
          decision'[order[d].key] = decision[order[d].key]
    BY <1>4, <1>6
  <1>10. /\ \A x \in Keys : decision[x] # NoDecision =>
              decision'[x].batch = decision[x].batch
         /\ \A x \in Keys : decision'[x] # NoDecision => decision[x] # NoDecision
    BY <1>1, <1>4, <1>7, <1>8
  <1>11. QED
    BY <1>1, <1>2, <1>3, <1>4, <1>5, <1>8, <1>9, <1>10

LEMMA OpenFigures ==
  ASSUME IInv, FiguresInv,
         (\E e \in Events : Approve(e)) \/ (\E p \in Plans : ExecutePlan(p))
  PROVE  FiguresInv'
  <1>1. CallsWellFormed'
    BY OpenEffect DEF FiguresInv, CallsWellFormed
  <1>2. FiguresAgree'
    <2>1. ASSUME NEW b \in Batches, order'[b] # NoOrder
          PROVE  /\ decision'[order'[b].key].actual = order'[b].receipt
                 /\ order'[b].status = "completed" => order'[b].receipt # NoReceipt
      <3>1. CASE order[b] # NoOrder
        BY <3>1, OpenEffect DEF FiguresInv, FiguresAgree
      <3>2. CASE order[b] = NoOrder
        BY <2>1, <3>2, OpenEffect
      <3>3. QED
        BY <3>1, <3>2
    <2>2. QED
      BY <2>1 DEF FiguresAgree
  <1>3. ClicksMatch'
    <2>1. ASSUME NEW e \in Events, Approve(e)
          PROVE  ClicksMatch'
      BY <2>1 DEF Approve, FiguresInv, ClicksMatch, IInv, TypeOK, NewDecision, Keys
    <2>2. ASSUME NEW p \in Plans, ExecutePlan(p)
          PROVE  ClicksMatch'
      <3>1. \A e \in Events : e \in Keys /\ e \notin {p} \X alloc[p]
        BY DEF Keys, IInv, TypeOK
      <3>2. \A e \in Events : decision'[e] = decision[e]
        BY <2>2, <3>1 DEF ExecutePlan
      <3>3. QED
        BY <3>2 DEF FiguresInv, ClicksMatch
    <2>3. QED
      BY <2>1, <2>2
  <1>4. AnswersNameTheOrder'
    <2>1. \A a \in answers : BatchOf[a.event] \in Batches
      BY DEF IInv, TypeOK, Answer
    <2>2. \A a \in answers : a.verb # "error" =>
            /\ order'[BatchOf[a.event]] # NoOrder
            /\ a.key = order'[BatchOf[a.event]].key
      BY <2>1, OpenEffect DEF FiguresInv, AnswersNameTheOrder
    <2>3. ASSUME NEW e \in Events, Approve(e)
          PROVE  AnswersNameTheOrder'
      <3>1. e \in Keys /\ BatchOf[e] \in Batches
        BY DEF Keys
      <3>2. CASE Fresh(e, BatchOf[e])
        <4>1. /\ order' = [order EXCEPT ![BatchOf[e]] = NewOrder(e)]
              /\ answers' = answers \cup {[event |-> e, verb |-> "recorded", key |-> e]}
          BY <2>3, <3>2 DEF Approve, Tell, Fresh
        <4>2. order'[BatchOf[e]] = NewOrder(e)
          BY <3>1, <4>1 DEF IInv, TypeOK
        <4>3. order'[BatchOf[e]] # NoOrder /\ order'[BatchOf[e]].key = e
          BY <3>1, <4>2, NewRows
        <4>4. QED
          BY <2>2, <4>1, <4>3 DEF AnswersNameTheOrder
      <3>3. CASE ~Fresh(e, BatchOf[e])
        <4>1. /\ UNCHANGED order
              /\ \/ /\ Existing(e) # NoOrder
                    /\ answers' = answers \cup {[event |-> e, verb |-> "already",
                                                 key |-> Existing(e).key]}
                 \/ answers' = answers \cup {[event |-> e, verb |-> "error",
                                              key |-> NoOrder]}
          BY <2>3, <3>3 DEF Approve, Tell
        <4>2. Existing(e) # NoOrder => Existing(e) = order[BatchOf[e]]
          BY DEF Existing, ExistingForBatch, ExistingForKey
        <4>3. QED
          BY <2>2, <4>1, <4>2 DEF AnswersNameTheOrder
      <3>4. QED
        BY <3>2, <3>3
    <2>4. ASSUME NEW p \in Plans, ExecutePlan(p)
          PROVE  AnswersNameTheOrder'
      BY <2>2, <2>4 DEF ExecutePlan, AnswersNameTheOrder
    <2>5. QED
      BY <2>3, <2>4
  <1>5. QED
    BY <1>1, <1>2, <1>3, <1>4 DEF FiguresInv

LEMMA UpdateFigures ==
  ASSUME IInv, FiguresInv, NEW c \in Clients, WriteOrder(c)
  PROVE  FiguresInv'
  <1> DEFINE b == call[c].batch
             target == call[c].target
             done == target.to = "completed"
  <1>1. /\ b \in Batches
        /\ \A d \in Batches \ {b} : order'[d] = order[d]
        /\ \A d \in Batches \ {b} : order[d] # NoOrder =>
             decision'[order[d].key] = decision[order[d].key]
        /\ order'[b].status = target.to /\ order'[b].key = order[b].key
        /\ order'[b] # NoOrder /\ order[b] # NoOrder
        /\ order'[b].receipt = IF done THEN target.receipt ELSE order[b].receipt
        /\ decision'[order[b].key].actual =
             IF done THEN target.receipt ELSE decision[order[b].key].actual
        /\ call' = [call EXCEPT ![c] = NoCall] /\ UNCHANGED answers
    BY UpdateEffect
  <1>2. /\ \A k \in Keys : decision[k] # NoDecision =>
             decision'[k].batch = decision[k].batch
        /\ \A k \in Keys : decision'[k] # NoDecision => decision[k] # NoDecision
    BY UpdateEffect
  <1>3. WellFormed(target)
    BY UpdateEffect DEF FiguresInv, CallsWellFormed
  <1> HIDE DEF b, target
  <1>4. CallsWellFormed'
    BY <1>1 DEF FiguresInv, CallsWellFormed, IInv, TypeOK
  <1>5. FiguresAgree'
    <2>1. ASSUME NEW d \in Batches, order'[d] # NoOrder
          PROVE  /\ decision'[order'[d].key].actual = order'[d].receipt
                 /\ order'[d].status = "completed" => order'[d].receipt # NoReceipt
      <3>1. CASE d = b
        BY <1>1, <1>3, <3>1 DEF FiguresInv, FiguresAgree, WellFormed
      <3>2. CASE d # b
        BY <1>1, <2>1, <3>2 DEF FiguresInv, FiguresAgree
      <3>3. QED
        BY <3>1, <3>2
    <2>2. QED
      BY <2>1 DEF FiguresAgree
  <1>6. ClicksMatch'
    BY <1>2 DEF FiguresInv, ClicksMatch, Keys
  <1>7. AnswersNameTheOrder'
    BY <1>1 DEF FiguresInv, AnswersNameTheOrder, IInv, TypeOK, Answer
  <1>8. QED
    BY <1>4, <1>5, <1>6, <1>7 DEF FiguresInv

LEMMA FiguresInvStep == IInv /\ FiguresInv /\ [Next]_vars => FiguresInv'
  <1> SUFFICES ASSUME IInv, FiguresInv, [Next]_vars
               PROVE  FiguresInv'
    OBVIOUS
  <1> USE DEF FiguresInv, CallsWellFormed, FiguresAgree, ClicksMatch,
              AnswersNameTheOrder
  <1>1. ASSUME NEW c \in Clients, NEW b \in Batches, ReadOrder(c, b)
        PROVE  FiguresInv'
    BY <1>1 DEF ReadOrder, tables, IInv, TypeOK, WellFormed
  <1>2. ASSUME NEW c \in Clients, Rollback(c)
        PROVE  FiguresInv'
    BY <1>2 DEF Rollback, tables, IInv, TypeOK
  <1>3. CASE (\E p \in Plans : SavePlan(p)) \/ UNCHANGED vars
    BY <1>3 DEF SavePlan, vars, tables
  <1> HIDE DEF FiguresInv
  <1>4. QED
    BY <1>1, <1>2, <1>3, OpenFigures, UpdateFigures DEF Next

LEMMA FiguresInvInit == Init => FiguresInv
  BY DEF Init, FiguresInv, CallsWellFormed, FiguresAgree, ClicksMatch,
         AnswersNameTheOrder, Keys

LEMMA FiguresInvariance == Spec => [](IInv /\ FiguresInv)
  <1>1. Init => IInv /\ FiguresInv
    BY IInvInit, FiguresInvInit
  <1>2. IInv /\ FiguresInv /\ [Next]_vars => (IInv /\ FiguresInv)'
    BY IInvStep, FiguresInvStep
  <1>3. QED
    BY <1>1, <1>2, PTL DEF Spec

\* On either backend, whatever updates overwrite each other, the order and the
\* decision a report reads show the same figures.
THEOREM FiguresTheorem == Spec => []FiguresAgree
  <1>1. FiguresInv => FiguresAgree
    BY DEF FiguresInv
  <1>2. QED
    BY <1>1, FiguresInvariance, PTL

\* On either backend a click is told the one order of its batch or an error,
\* never an order that is not there or another's.
THEOREM AnswersTheorem == Spec => []AnswersNameTheOrder
  <1>1. FiguresInv => AnswersNameTheOrder
    BY DEF FiguresInv
  <1>2. QED
    BY <1>1, FiguresInvariance, PTL

(***************************************************************************)
(* Updates that do not overlap                                             *)
(***************************************************************************)

\* No two updates of one order are between their reads and their writes.
UpdatesApart ==
  \A c, d \in Clients :
    call[c] # NoCall /\ call[d] # NoCall /\ call[c].batch = call[d].batch
      => c = d

\* The row still allows what was checked on the copy.
Checked ==
  \A c \in Clients : call[c] # NoCall =>
    Allowed(order[call[c].batch].status, call[c].target)

ApartInv == Checked /\ ReceiptsAgree

LEMMA ApartInvInit == Init => ApartInv
  BY DEF Init, ApartInv, Checked, ReceiptsAgree

LEMMA ApartOpens ==
  ASSUME IInv, ApartInv,
         (\E e \in Events : Approve(e)) \/ (\E p \in Plans : ExecutePlan(p))
  PROVE  ApartInv'
  <1>1. \A c \in Clients : call[c] # NoCall =>
          call[c].batch \in Batches /\ order[call[c].batch] # NoOrder
    BY DEF IInv, TypeOK, CallsHaveRows, Call
  <1>2. Checked'
    BY <1>1, OpenEffect DEF ApartInv, Checked
  <1>3. ASSUME NEW b \in Batches, order'[b] # NoOrder
        PROVE  /\ order'[b].status = "completed" <=> order'[b].receipt # NoReceipt
               /\ decision'[order'[b].key].actual = order'[b].receipt
    <2>1. CASE order[b] # NoOrder
      BY <2>1, OpenEffect DEF ApartInv, ReceiptsAgree
    <2>2. CASE order[b] = NoOrder
      BY <1>3, <2>2, OpenEffect
    <2>3. QED
      BY <2>1, <2>2
  <1>4. QED
    BY <1>2, <1>3 DEF ApartInv, ReceiptsAgree

LEMMA ApartWrites ==
  ASSUME IInv, FiguresInv, UpdatesApart, ApartInv, NEW c \in Clients, WriteOrder(c)
  PROVE  ApartInv'
  <1> DEFINE b == call[c].batch
             target == call[c].target
             done == target.to = "completed"
  <1>1. /\ call[c] # NoCall /\ b \in Batches /\ target \in Target
        /\ order[b] \in Order
        /\ \A d \in Batches \ {b} : order'[d] = order[d]
        /\ \A d \in Batches \ {b} : order[d] # NoOrder =>
             decision'[order[d].key] = decision[order[d].key]
        /\ order'[b].status = target.to /\ order'[b].key = order[b].key
        /\ order'[b].receipt = IF done THEN target.receipt ELSE order[b].receipt
        /\ decision'[order[b].key].actual =
             IF done THEN target.receipt ELSE decision[order[b].key].actual
        /\ call' = [call EXCEPT ![c] = NoCall]
    BY UpdateEffect
  <1>2. WellFormed(target) /\ Allowed(order[b].status, target)
    BY <1>1 DEF FiguresInv, CallsWellFormed, ApartInv, Checked
  <1>3. order[b].status # "completed" /\ order[b].receipt = NoReceipt
        /\ decision[order[b].key].actual = NoReceipt
    BY <1>1, <1>2 DEF Allowed, Transitions, Target, Order, OrderStatus,
                      ApartInv, ReceiptsAgree
  <1>4. \A d \in Clients \ {c} : call[d] # NoCall =>
          call[d].batch \in Batches \ {b}
    BY <1>1 DEF UpdatesApart, IInv, TypeOK, Call
  <1> HIDE DEF b, target
  <1>5. Checked'
    <2>1. ASSUME NEW d \in Clients, call'[d] # NoCall
          PROVE  d # c /\ call'[d] = call[d]
      BY <1>1, <2>1 DEF IInv, TypeOK
    <2>2. QED
      BY <1>1, <1>4, <2>1 DEF ApartInv, Checked
  <1>6. ASSUME NEW d \in Batches, order'[d] # NoOrder
        PROVE  /\ order'[d].status = "completed" <=> order'[d].receipt # NoReceipt
               /\ decision'[order'[d].key].actual = order'[d].receipt
    <2>1. CASE d = b
      BY <1>1, <1>2, <1>3, <2>1 DEF WellFormed
    <2>2. CASE d # b
      BY <1>1, <1>6, <2>2 DEF ApartInv, ReceiptsAgree
    <2>3. QED
      BY <2>1, <2>2
  <1>7. QED
    BY <1>5, <1>6 DEF ApartInv, ReceiptsAgree

LEMMA ApartInvStep ==
  IInv /\ FiguresInv /\ UpdatesApart /\ ApartInv /\ [Next]_vars => ApartInv'
  <1> SUFFICES ASSUME IInv, FiguresInv, UpdatesApart, ApartInv, [Next]_vars
               PROVE  ApartInv'
    OBVIOUS
  <1> USE DEF ApartInv, Checked, ReceiptsAgree
  <1>1. ASSUME NEW c \in Clients, NEW b \in Batches, ReadOrder(c, b)
        PROVE  ApartInv'
    BY <1>1 DEF ReadOrder, tables, IInv, TypeOK, Allowed
  <1>2. ASSUME NEW c \in Clients, Rollback(c)
        PROVE  ApartInv'
    BY <1>2 DEF Rollback, tables, IInv, TypeOK
  <1>3. CASE (\E p \in Plans : SavePlan(p)) \/ UNCHANGED vars
    BY <1>3 DEF SavePlan, vars, tables
  <1> HIDE DEF ApartInv
  <1>4. QED
    BY <1>1, <1>2, <1>3, ApartOpens, ApartWrites DEF Next

\* What holds of a run in which no two updates of one order overlap.
LEMMA ApartInvariance ==
  Spec /\ []UpdatesApart => [](IInv /\ FiguresInv /\ ApartInv)
  <1>1. QED
    BY ApartInvInit, ApartInvStep, FiguresInvariance, PTL DEF Spec

\* A receipt is attached once, to the order and its decision together, on
\* either backend as long as no two updates of one order overlap.
THEOREM ApartReceiptTheorem == Spec /\ []UpdatesApart => []ReceiptsAgree
  <1>1. ApartInv => ReceiptsAgree
    BY DEF ApartInv
  <1>2. QED
    BY <1>1, ApartInvariance, PTL

\* An order leaves the legal path only when two updates of it overlap: the
\* check that PostgreSQL makes on a copy fails in no other way.
THEOREM TransitionTheorem == Spec /\ []UpdatesApart => LegalTransitions
  <1>1. ASSUME IInv, ApartInv, [Next]_vars,
               NEW b \in Batches, order[b] # NoOrder, order'[b] # order[b]
        PROVE  order'[b].status \in Transitions[order[b].status]
    <2>1. ASSUME NEW c \in Clients, WriteOrder(c)
          PROVE  order'[b].status \in Transitions[order[b].status]
      <3>1. call[c].batch = b /\ order'[b].status = call[c].target.to
            /\ call[c] # NoCall
        BY <1>1, <2>1, UpdateEffect
      <3>2. QED
        BY <1>1, <3>1 DEF ApartInv, Checked, Allowed
    <2>2. ~((\E e \in Events : Approve(e)) \/ (\E p \in Plans : ExecutePlan(p)))
      BY <1>1, OpenEffect
    <2>3. ~(\/ \E p \in Plans : SavePlan(p)
            \/ \E c \in Clients : Rollback(c) \/ \E d \in Batches : ReadOrder(c, d)
            \/ UNCHANGED vars)
      BY <1>1 DEF SavePlan, Rollback, ReadOrder, vars, tables
    <2>4. QED
      BY <1>1, <2>1, <2>2, <2>3 DEF Next
  <1>2. IInv /\ ApartInv /\ [Next]_vars =>
          \A b \in Batches : order[b] # NoOrder /\ order'[b] # order[b] =>
            order'[b].status \in Transitions[order[b].status]
    BY <1>1
  <1>3. QED
    BY <1>2, ApartInvariance, PTL DEF Spec, LegalTransitions

(***************************************************************************)
(* SQLite                                                                  *)
(***************************************************************************)

\* One update at a time is between its read and its write.
Locked == \A c, d \in Clients : call[c] # NoCall /\ call[d] # NoCall => c = d

\* Every click was told an order.
ClicksAnswered == \A a \in answers : a.verb # "error"

SqliteInv == Locked /\ ClicksAnswered

LEMMA SqliteInvStep ==
  ASSUME Backend = "sqlite"
  PROVE  IInv /\ FiguresInv /\ SqliteInv /\ [Next]_vars => SqliteInv'
  <1> SUFFICES ASSUME IInv, FiguresInv, SqliteInv, [Next]_vars
               PROVE  SqliteInv'
    OBVIOUS
  <1> USE DEF SqliteInv, Locked, ClicksAnswered
  <1>1. ASSUME NEW e \in Events, Approve(e)
        PROVE  SqliteInv'
    <2>1. CASE Fresh(e, BatchOf[e])
      BY <1>1, <2>1 DEF Approve, Tell, Fresh
    <2>2. CASE ~Fresh(e, BatchOf[e])
      <3>1. e \in Keys /\ BatchOf[e] \in Batches
        BY DEF Keys
      <3>2. order[BatchOf[e]] # NoOrder
        BY <2>2, <3>1 DEF Fresh, IInv, ApprovalIsWhole, FiguresInv, ClicksMatch
      <3>3. QED
        BY <1>1, <2>2, <3>2 DEF Approve, Tell, Existing, ExistingForBatch
    <2>3. QED
      BY <2>1, <2>2
  <1>2. ASSUME NEW c \in Clients, NEW b \in Batches, ReadOrder(c, b)
        PROVE  SqliteInv'
    BY <1>2 DEF ReadOrder, CanWrite, IInv, TypeOK
  <1>3. ASSUME NEW c \in Clients, WriteOrder(c) \/ Rollback(c)
        PROVE  SqliteInv'
    BY <1>3 DEF WriteOrder, Rollback, IInv, TypeOK
  <1>4. CASE (\E p \in Plans : SavePlan(p) \/ ExecutePlan(p)) \/ UNCHANGED vars
    BY <1>4 DEF SavePlan, ExecutePlan, vars, tables
  <1>5. QED
    BY <1>1, <1>2, <1>3, <1>4 DEF Next

LEMMA SqliteInvariance ==
  ASSUME Backend = "sqlite"
  PROVE  Spec => [](IInv /\ FiguresInv /\ SqliteInv)
  <1>1. Init => SqliteInv
    BY DEF Init, SqliteInv, Locked, ClicksAnswered
  <1>2. IInv /\ FiguresInv /\ SqliteInv /\ [Next]_vars => SqliteInv'
    BY SqliteInvStep
  <1>3. QED
    BY <1>1, <1>2, FiguresInvariance, PTL DEF Spec

\* SQLite's write lock keeps updates apart, of one order or of several.
LEMMA SqliteApart ==
  ASSUME Backend = "sqlite"
  PROVE  Spec => []UpdatesApart
  <1>1. SqliteInv => UpdatesApart
    BY DEF SqliteInv, Locked, UpdatesApart
  <1>2. QED
    BY <1>1, SqliteInvariance, PTL

\* A receipt is attached once, to the order and its decision together.
THEOREM ReceiptTheorem ==
  ASSUME Backend = "sqlite"
  PROVE  Spec => []ReceiptsAgree
  <1>1. QED
    BY SqliteApart, ApartReceiptTheorem, PTL

\* With SQLite no order leaves the legal path, and a finished one stays as it
\* is.
THEOREM SqliteTransitionTheorem ==
  ASSUME Backend = "sqlite"
  PROVE  Spec => LegalTransitions
  <1>1. QED
    BY SqliteApart, TransitionTheorem, PTL

\* Every approve click, repeated or racing a plan, is told the one order of
\* its batch, and the answer stays true.
THEOREM ClickTheorem ==
  ASSUME Backend = "sqlite"
  PROVE  Spec => []ClicksNameTheOrder
  <1>1. FiguresInv /\ SqliteInv => ClicksNameTheOrder
    BY DEF FiguresInv, AnswersNameTheOrder, SqliteInv, ClicksAnswered,
       ClicksNameTheOrder
  <1>2. QED
    BY <1>1, SqliteInvariance, PTL

(***************************************************************************)
(* Refinement: updates that do not overlap are steps of the order book.    *)
(***************************************************************************)

LEMMA BookInit == Init => Book!Init
  BY DEF Init, Book!Init, Stages, BookReceipts

LEMMA BookApprove ==
  ASSUME IInv, NEW e \in Events, Approve(e)
  PROVE  Book!Open({BatchOf[e]}) \/ UNCHANGED <<Stages, BookReceipts>>
  <1> DEFINE b == BatchOf[e]
  <1>0. e \in Keys /\ b \in Batches
    BY DEF Keys
  <1>1. CASE Fresh(e, b)
    <2>1. order' = [order EXCEPT ![b] = NewOrder(e)] /\ order[b] = NoOrder
      BY <1>1 DEF Approve, Fresh
    <2>2. NewOrder(e) # NoOrder /\ NewOrder(e).status = "pending"
          /\ NewOrder(e).receipt = NoReceipt
      BY <1>0, NewRows DEF NewOrder
    <2>3. \A d \in Batches : order'[d] = IF d = b THEN NewOrder(e) ELSE order[d]
      BY <2>1 DEF IInv, TypeOK
    <2>4. Stages' = [d \in Batches |-> IF d \in {b} THEN "pending" ELSE Stages[d]]
      BY <2>2, <2>3 DEF Stages
    <2>5. BookReceipts' = BookReceipts
      BY <2>1, <2>2, <2>3 DEF BookReceipts
    <2>6. Stages[b] = "none"
      BY <1>0, <2>1 DEF Stages
    <2>7. QED
      BY <2>4, <2>5, <2>6 DEF Book!Open
  <1>2. CASE ~Fresh(e, b)
    BY <1>2 DEF Approve, Stages, BookReceipts
  <1>3. QED
    BY <1>1, <1>2

LEMMA BookExecutePlan ==
  ASSUME IInv, NEW p \in Plans, ExecutePlan(p)
  PROVE  Book!Open(alloc[p]) \/ UNCHANGED <<Stages, BookReceipts>>
  <1> DEFINE B == alloc[p]
  <1>1. order' = [b \in Batches |-> IF b \in B THEN NewOrder(<<p, b>>) ELSE order[b]]
    BY DEF ExecutePlan
  <1>2. B \subseteq Batches /\ \A b \in B : order[b] = NoOrder
    BY DEF IInv, TypeOK, ExecutePlan, Fresh
  <1>3. \A b \in B : /\ NewOrder(<<p, b>>) # NoOrder
                     /\ NewOrder(<<p, b>>).status = "pending"
                     /\ NewOrder(<<p, b>>).receipt = NoReceipt
    BY <1>2, NewRows DEF NewOrder, Keys
  <1>4. Stages' = [b \in Batches |-> IF b \in B THEN "pending" ELSE Stages[b]]
    BY <1>1, <1>3 DEF Stages
  <1>5. BookReceipts' = BookReceipts
    BY <1>1, <1>2, <1>3 DEF BookReceipts
  <1>6. \A b \in B : Stages[b] = "none"
    BY <1>2 DEF Stages
  <1>7. CASE B = {}
    BY <1>4, <1>5, <1>7 DEF Stages
  <1>8. CASE B # {}
    BY <1>4, <1>5, <1>6, <1>8 DEF Book!Open
  <1>9. QED
    BY <1>7, <1>8

LEMMA BookWriteOrder ==
  ASSUME IInv, FiguresInv, ApartInv, NEW c \in Clients, WriteOrder(c)
  PROVE  \E b \in Batches : Book!Start(b) \/ Book!Cancel(b) \/ Book!Complete(b)
  <1> DEFINE b == call[c].batch
             target == call[c].target
             done == target.to = "completed"
             row == [key |-> order[b].key, status |-> target.to,
                     receipt |-> IF done THEN target.receipt ELSE order[b].receipt]
  <1>1. /\ b \in Batches /\ order[b] \in Order /\ target \in Target
        /\ order' = [order EXCEPT ![b] = row] /\ order[b].key \in Keys
    BY WriteEffect
  <1>2. WellFormed(target) /\ target.to \in Transitions[order[b].status]
    BY DEF FiguresInv, CallsWellFormed, ApartInv, Checked, Allowed, WriteOrder
  <1>3. row # NoOrder
    BY <1>1 DEF Order, Target, OrderStatus
  <1>4. order[b] # NoOrder
    BY <1>1
  <1>5. \A d \in Batches : order'[d] = IF d = b THEN row ELSE order[d]
    BY <1>1 DEF IInv, TypeOK
  <1> HIDE DEF row
  <1>a. row.status = target.to /\ row.receipt = IF done THEN target.receipt
                                                ELSE order[b].receipt
    BY DEF row
  <1>6. Stages' = [Stages EXCEPT ![b] = target.to]
    <2>1. Stages' = [d \in Batches |-> IF d = b THEN target.to ELSE Stages[d]]
      BY <1>3, <1>5, <1>a DEF Stages
    <2>2. QED
      BY <2>1 DEF Stages
  <1>7. BookReceipts' = [BookReceipts EXCEPT ![b] =
          IF done THEN target.receipt ELSE order[b].receipt]
    <2>1. BookReceipts' = [d \in Batches |-> IF d = b THEN row.receipt
                                             ELSE BookReceipts[d]]
      BY <1>3, <1>5 DEF BookReceipts
    <2>2. QED
      BY <1>a, <2>1 DEF BookReceipts
  <1>8. Stages[b] = order[b].status /\ BookReceipts[b] = order[b].receipt
    BY <1>1, <1>4 DEF Stages, BookReceipts
  <1>9. CASE target.to = "in_progress"
    <2>1. order[b].status = "pending"
      BY <1>1, <1>2, <1>9 DEF Transitions, Order, OrderStatus
    <2>2. BookReceipts' = BookReceipts
      BY <1>7, <1>8, <1>9 DEF BookReceipts
    <2>3. QED
      BY <1>1, <1>6, <1>8, <1>9, <2>1, <2>2 DEF Book!Start
  <1>10. CASE target.to = "cancelled"
    <2>1. order[b].status \in {"pending", "in_progress"}
      BY <1>1, <1>2, <1>10 DEF Transitions, Order, OrderStatus
    <2>2. BookReceipts' = BookReceipts
      BY <1>7, <1>8, <1>10 DEF BookReceipts
    <2>3. QED
      BY <1>1, <1>6, <1>8, <1>10, <2>1, <2>2 DEF Book!Cancel
  <1>11. CASE target.to = "completed"
    <2>1. order[b].status = "in_progress" /\ target.receipt \in Receipts
      BY <1>1, <1>2, <1>11 DEF Transitions, Order, OrderStatus, WellFormed, Target
    <2>2. QED
      BY <1>1, <1>6, <1>7, <1>8, <1>11, <2>1 DEF Book!Complete
  <1>12. QED
    BY <1>1, <1>9, <1>10, <1>11 DEF Target

\* Reading, checking and writing a row is one step of the order book, one
\* order for a batch, on the legal path, with one receipt, on either backend
\* as long as no two updates of one order overlap.
THEOREM ApartRefinementTheorem == Spec /\ []UpdatesApart => ImplementsOrderBook
  <1>1. ASSUME IInv, FiguresInv, ApartInv, [Next]_vars
        PROVE  [Book!Next]_<<Stages, BookReceipts>>
    <2> USE <1>1
    <2>1. ASSUME NEW e \in Events, Approve(e)
          PROVE  Book!Next \/ UNCHANGED <<Stages, BookReceipts>>
      <3>1. {BatchOf[e]} \in SUBSET Batches
        OBVIOUS
      <3>2. QED
        BY <2>1, <3>1, BookApprove DEF Book!Next
    <2>2. ASSUME NEW p \in Plans, ExecutePlan(p)
          PROVE  Book!Next \/ UNCHANGED <<Stages, BookReceipts>>
      <3>1. alloc[p] \in SUBSET Batches
        BY DEF IInv, TypeOK
      <3>2. QED
        BY <2>2, <3>1, BookExecutePlan DEF Book!Next
    <2>3. ASSUME NEW c \in Clients, WriteOrder(c)
          PROVE  Book!Next
      BY <2>3, BookWriteOrder DEF Book!Next
    <2>4. ASSUME \/ \E p \in Plans : SavePlan(p)
                 \/ \E c \in Clients : Rollback(c) \/ \E b \in Batches : ReadOrder(c, b)
                 \/ UNCHANGED vars
          PROVE  UNCHANGED <<Stages, BookReceipts>>
      <3>1. order' = order
        BY <2>4 DEF SavePlan, Rollback, ReadOrder, vars, tables
      <3>2. QED
        BY <3>1 DEF Stages, BookReceipts
    <2>5. QED
      BY <2>1, <2>2, <2>3, <2>4 DEF Next
  <1>2. QED
    BY <1>1, BookInit, ApartInvariance, PTL DEF Spec, ImplementsOrderBook, Book!Spec

\* With SQLite, whose write lock covers the read, the check and the write, the
\* tables implement the order book.
THEOREM RefinementTheorem ==
  ASSUME Backend = "sqlite"
  PROVE  Spec => ImplementsOrderBook
  <1>1. QED
    BY SqliteApart, ApartRefinementTheorem, PTL
=============================================================================
