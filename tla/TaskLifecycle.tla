--------------------------- MODULE TaskLifecycle ---------------------------
(***************************************************************************)
(* What the durable queue promises about each scheduled scan, whatever the *)
(* number of workers and however they fail: once accepted it is delivered  *)
(* at least once before it counts as done, or it is given up; either       *)
(* verdict is final, and one dedupe key is accepted once.                  *)
(***************************************************************************)
CONSTANTS Tasks

VARIABLES
  fate,       \* fate of a task as its row tells it
  delivered   \* tasks whose scan ran to its end at least once

Fate == {"unknown", "accepted", "done", "given_up"}

Init ==
  /\ fate = [t \in Tasks |-> "unknown"]
  /\ delivered = {}

Accept(t) ==
  /\ fate[t] = "unknown"
  /\ fate' = [fate EXCEPT ![t] = "accepted"]
  /\ UNCHANGED delivered

\* A delivery may settle the task in the same step.  It may also come late,
\* from a worker that lost its claim, whatever the fate is by then.
Deliver(t) ==
  /\ fate[t] # "unknown"
  /\ delivered' = delivered \cup {t}
  /\ \/ UNCHANGED fate
     \/ fate[t] = "accepted" /\ fate' = [fate EXCEPT ![t] = "done"]

GiveUp(t) ==
  /\ fate[t] = "accepted"
  /\ fate' = [fate EXCEPT ![t] = "given_up"]
  /\ UNCHANGED delivered

Next == \E t \in Tasks : Accept(t) \/ Deliver(t) \/ GiveUp(t)

Spec == Init /\ [][Next]_<<fate, delivered>>
=============================================================================
