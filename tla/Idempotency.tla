---------------------------- MODULE Idempotency ----------------------------
(***************************************************************************)
(* What the idempotency records promise of each key, a client's or a       *)
(* callback's: while one request holds it its work is done once, the key   *)
(* is let go of only with nothing done, and it is answered with what was   *)
(* done, for good.  A repeated delivery is answered from the record, which *)
(* changes nothing here.                                                   *)
(***************************************************************************)
CONSTANTS Keys, Effects

VARIABLES
  state,    \* "free", "held" or "answered", of each key
  effect,   \* what was done under the key, a set of at most one effect
  told      \* what its 200 answers say was done

Init ==
  /\ state = [k \in Keys |-> "free"]
  /\ effect = [k \in Keys |-> {}]
  /\ told = [k \in Keys |-> {}]

Hold(k) ==
  /\ state[k] = "free"
  /\ state' = [state EXCEPT ![k] = "held"]
  /\ UNCHANGED <<effect, told>>

Work(k) ==
  /\ state[k] = "held" /\ effect[k] = {}
  /\ \E f \in effect'[k] : /\ f \in Effects
                           /\ effect' = [effect EXCEPT ![k] = {f}]
  /\ UNCHANGED <<state, told>>

LetGo(k) ==
  /\ state[k] = "held" /\ effect[k] = {}
  /\ state' = [state EXCEPT ![k] = "free"]
  /\ UNCHANGED <<effect, told>>

Settle(k) ==
  /\ state[k] = "held"
  /\ state' = [state EXCEPT ![k] = "answered"]
  /\ told' = [told EXCEPT ![k] = effect[k]]
  /\ UNCHANGED effect

Next == \E k \in Keys : Hold(k) \/ Work(k) \/ LetGo(k) \/ Settle(k)

Spec == Init /\ [][Next]_<<state, effect, told>>
=============================================================================
