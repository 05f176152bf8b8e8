------------------------------ MODULE MCService ------------------------------
(***************************************************************************)
(* Service for TLC: a process of release 1 and one of release 2 with two   *)
(* stores, three starts in all, five instants across a year's end with     *)
(* months of two, a customer ahead of UTC, two deeds, and audit pages of   *)
(* one event.                                                              *)
(***************************************************************************)
EXTENDS Service

CONSTANTS p1, p2, k1, c1

MCProcesses == {p1, p2}
MCLatest == [p \in MCProcesses |-> IF p = p1 THEN 1 ELSE 2]
MCKeys == {k1}
MCCustomers == {c1}
MCOffset == [c \in MCCustomers |-> 1]
MCStart == 1
MCEventIds == {1, 2}
MCPeriods == {<<1, 3>>}
=============================================================================
