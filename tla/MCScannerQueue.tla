-------------------------- MODULE MCScannerQueue ----------------------------
(* The scanner page on small instances. *)
EXTENDS ScannerQueue

\* Outages only, and every fault at once.
Outages == [limit |-> 10, faults |-> {}, reloads |-> FALSE]

Harsh == [limit |-> 1, faults |-> {"broken", "unanswered", "unreachable"}, reloads |-> TRUE]

EveryDay == {Outages, Harsh}

OutagesOnly == {Outages}
=============================================================================
