----------------------------- MODULE MCCommands -----------------------------
(***************************************************************************)
(* Commands for TLC: two batches, one approved by a click and both by a    *)
(* plan, two instances, a key for completions and one for scans, two       *)
(* windows of one request each.                                            *)
(***************************************************************************)
EXTENDS Commands, TLC

CONSTANTS b1, b2, e1, p1, c1, c2, r1, t1, s1

MCBatches == {b1, b2}
MCEvents == {e1}
MCBatchOf == [e \in MCEvents |-> b1]
MCPlans == {p1}
MCClients == {c1, c2}
MCReceipts == {r1}
MCTokens == {t1}
MCScanTokens == {s1}

\* The instances run the same code.
MCSymmetry == Permutations(MCClients)
=============================================================================
