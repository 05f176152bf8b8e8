----------------------------- MODULE MCWebhook -----------------------------
(***************************************************************************)
(* Webhook for TLC: a snooze click, two revise clicks and two text replies *)
(* of one operator about one batch; two requests in flight, in one         *)
(* instance (SQLite) or one in each of two (PostgreSQL).                   *)
(***************************************************************************)
EXTENDS Webhook

CONSTANTS snooze, revise1, revise2, text1, text2, b1, op1, h1, h2, i1, i2

MCEvents == {snooze, revise1, revise2, text1, text2}
MCKind == [e \in MCEvents |-> IF e = snooze THEN "snooze"
                              ELSE IF e \in {text1, text2} THEN "text"
                              ELSE "revise"]
MCOperatorOf == [e \in MCEvents |-> op1]
MCBatchOf == [e \in MCEvents |-> b1]
MCBatches == {b1}
MCOperators == {op1}
MCHandlers == {h1, h2}
OneInstance == {i1}
TwoInstances == {i1, i2}
Together == [h \in MCHandlers |-> i1]
Apart == [h \in MCHandlers |-> IF h = h1 THEN i1 ELSE i2]
=============================================================================
