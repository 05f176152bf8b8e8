------------------------------- MODULE Planner -------------------------------
(***************************************************************************)
(* Making an optimization plan: POST /optimization-plans of                *)
(* src/api/router.py and the greedy allocation of src/optimization.py.     *)
(*                                                                         *)
(* The endpoint loads the batches, refuses fewer than two, allocates them  *)
(* in the order of their expiry to the action with the most capacity left, *)
(* and saves a plan that allocates anything at all.  A step is one turn of *)
(* the allocation's loop; quantities are whole numbers.  What becomes of a *)
(* saved plan is in Approvals.                                             *)
(***************************************************************************)
EXTENDS Erp

CONSTANTS
  Planners,    \* the jobs that plan
  Id,          \* batch_id, for its order
  Stock,       \* stock_qty
  Enabled,     \* the customer's enabled_actions, as listed
  Capacities,  \* capacities a caller may ask for
  NoAction     \* the action of a batch not yet allocated

ActionSet == ToSet(Enabled)

ASSUME PlannerAssumption ==
  /\ Planners \subseteq Jobs
  /\ Id \in [Batches -> Nat]
  /\ \A a, b \in Batches : Id[a] = Id[b] => a = b
  /\ Stock \in [Batches -> Nat]
  /\ Enabled \in Seq(ActionSet) /\ Enabled # <<>>
  /\ Capacities \subseteq [ActionSet -> Nat]
  /\ NoAction \notin ActionSet

VARIABLE plan  \* the request each planner works on

Assignment == [action : ActionSet \cup {NoAction}, qty : Nat]

Unassigned == [action |-> NoAction, qty |-> 0]

Plan == [phase     : {"idle", "loading", "allocating", "saved", "refused"},
         capacity  : [ActionSet -> Nat],
         remaining : [ActionSet -> Nat],
         used      : [ActionSet -> Nat],   \* history: what the gate adds up
         todo      : SUBSET Batches,
         given     : [Batches -> Assignment]]

NoCapacity == [a \in ActionSet |-> 0]

NoPlan == [phase |-> "idle", capacity |-> NoCapacity, remaining |-> NoCapacity,
           used |-> NoCapacity, todo |-> {},
           given |-> [b \in Batches |-> Unassigned]]

PlanInit == plan = [j \in Planners |-> NoPlan]

(***************************************************************************)
(* priority_baseline                                                       *)
(***************************************************************************)

\* The sort key (days_left, batch_id).
Before(b, c) ==
  DaysLeft[b] < DaysLeft[c] \/ (DaysLeft[b] = DaysLeft[c] /\ Id[b] < Id[c])

\* The first of the enabled actions with the most capacity left.
Roomiest(remaining) ==
  Enabled[CHOOSE i \in DOMAIN Enabled :
            \A k \in DOMAIN Enabled :
              /\ remaining[Enabled[k]] <= remaining[Enabled[i]]
              /\ remaining[Enabled[k]] = remaining[Enabled[i]] => i <= k]

Quantity(stock, room) == IF stock <= room THEN stock ELSE room

\* Variant: a capacity is not used up.
AllocatedTwice(p, b) ==
  LET a == Roomiest(p.remaining)
      q == Quantity(Stock[b], p.remaining[a]) IN
  [p EXCEPT !.used[a] = @ + q, !.todo = @ \ {b},
            !.given[b] = [action |-> a, qty |-> q]]

\* One turn of the loop for the batch b.
Allocated(p, b) ==
  LET a == Roomiest(p.remaining)
      q == Quantity(Stock[b], p.remaining[a]) IN
  [p EXCEPT !.remaining[a] = @ - q, !.used[a] = @ + q, !.todo = @ \ {b},
            !.given[b] = [action |-> a, qty |-> q]]

(***************************************************************************)
(* evaluate_optimizer: the gate computed at start-up on two fixed cases of *)
(* one action each, their batches in the order of allocation.              *)
(***************************************************************************)

EvalCases == {[stocks |-> <<7, 8>>, capacity |-> 10],
              [stocks |-> <<0, 0>>, capacity |-> 0]}

TotalStock(case) == FoldLeft(LAMBDA sum, stock : sum + stock, 0, case.stocks)

UsedBy(case) ==
  FoldLeft(LAMBDA used, stock : used + Quantity(stock, case.capacity - used),
           0, case.stocks)

\* Capacity is safe and at least 65% of the stock is covered.
GatePasses ==
  \A case \in EvalCases :
    /\ UsedBy(case) <= case.capacity
    /\ 100 * UsedBy(case) >= 65 * TotalStock(case)

(***************************************************************************)
(* create_optimization_plan                                                *)
(***************************************************************************)

Request(j) ==
  /\ GatePasses
  /\ plan[j].phase = "idle"
  /\ \E capacity \in Capacities :
       plan' = [plan EXCEPT ![j] = [NoPlan EXCEPT !.phase = "loading",
                                                  !.capacity = capacity,
                                                  !.remaining = capacity]]
  /\ load' = [load EXCEPT ![j] = NewLoad]
  /\ UNCHANGED <<rows, moves>>

\* Fewer than two candidates, or an error of the load.
Refuse(j) ==
  /\ plan[j].phase = "loading"
  /\ \/ load[j].phase = "failed"
     \/ load[j].phase = "loaded" /\ Len(load[j].batches) < 2
  /\ plan' = [plan EXCEPT ![j].phase = "refused"]
  /\ UNCHANGED erpVars

\* Variant: batches without stock are no candidates.
StartAllocationInStock(j) ==
  /\ plan[j].phase = "loading"
  /\ load[j].phase = "loaded"
  /\ Len(load[j].batches) >= 2
  /\ plan' = [plan EXCEPT ![j].phase = "allocating",
                          ![j].todo = {b \in ToSet(load[j].batches) : Stock[b] > 0}]
  /\ UNCHANGED erpVars

StartAllocation(j) ==
  /\ plan[j].phase = "loading"
  /\ load[j].phase = "loaded"
  /\ Len(load[j].batches) >= 2
  /\ plan' = [plan EXCEPT ![j].phase = "allocating",
                          ![j].todo = ToSet(load[j].batches)]
  /\ UNCHANGED erpVars

\* Variant: batches are taken as they come.
AllocateUnsorted(j) ==
  /\ plan[j].phase = "allocating"
  /\ \E b \in plan[j].todo : plan' = [plan EXCEPT ![j] = Allocated(@, b)]
  /\ UNCHANGED erpVars

Allocate(j) ==
  /\ plan[j].phase = "allocating"
  /\ \E b \in plan[j].todo :
       /\ \A c \in plan[j].todo \ {b} : Before(b, c)
       /\ plan' = [plan EXCEPT ![j] = Allocated(@, b)]
  /\ UNCHANGED erpVars

\* The plan is saved if it allocates any inventory, and refused otherwise or
\* when the store fails.
Conclude(j) ==
  /\ plan[j].phase = "allocating"
  /\ plan[j].todo = {}
  /\ \/ /\ \E b \in Batches : plan[j].given[b].qty > 0
        /\ plan' = [plan EXCEPT ![j].phase = "saved"]
     \/ plan' = [plan EXCEPT ![j].phase = "refused"]
  /\ UNCHANGED erpVars

(***************************************************************************)
(* Properties                                                              *)
(***************************************************************************)

\* The request each planner works on.
PlanTypeOK == plan \in [Planners -> Plan]

\* No action is given more than its capacity, while the plan is made and in
\* the plan saved: what the start-up gate tries on two cases holds of all.
CapacityRespected ==
  \A j \in Planners, a \in ActionSet : plan[j].used[a] <= plan[j].capacity[a]

\* The batch had its turn and got nothing.
PassedOver(p, b) ==
  p.given[b].action # NoAction /\ p.given[b].qty = 0 /\ Stock[b] > 0

\* A batch that got nothing is never overtaken: no batch that expires later
\* got a share of what was left.
NoneOvertaken ==
  \A j \in Planners, b, c \in Batches :
    PassedOver(plan[j], b) /\ Before(b, c) => plan[j].given[c].qty = 0

\* A saved plan assigns every batch of the ERP, if the ERP stood still, and
\* no other.
PlanCoversStock ==
  \A j \in Planners : plan[j].phase = "saved" /\ load[j].steady =>
    {b \in Batches : plan[j].given[b].action # NoAction} = ToSet(load[j].listed)
=============================================================================
