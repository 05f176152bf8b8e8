---------------------------- MODULE MCTaskQueue ----------------------------
(***************************************************************************)
(* TaskQueue for TLC: two dedupe keys and two workers on one table.        *)
(***************************************************************************)
EXTENDS TaskQueue

CONSTANTS k1, k2, w1, w2

MCTasks == {k1, k2}
MCWorkers == {w1, w2}
=============================================================================
