----------------------------- MODULE MCScanGates ------------------------------
(***************************************************************************)
(* The students a gate may meet in good standing, by their seat, and the   *)
(* settings of the groups, one by one.                                     *)
(***************************************************************************)
EXTENDS ScanGates

Expected ==
    [card |-> "ASSIGNED", student |-> "ACTIVE", lesson |-> "OPEN", seat |-> "here",
     same_grade |-> TRUE, dues |-> "none", grace |-> FALSE]

Seats == {[Expected EXCEPT !.seat = seat] : seat \in {"here", "other", "none"}}

\* The registry's defaults.
Defaults ==
    [outside |-> "REQUIRE_APPROVAL", alternative |-> "ALLOW", unassigned |-> "REQUIRE_APPROVAL",
     other_grade |-> "REQUIRE_APPROVAL", enforce |-> FALSE, allow_unpaid |-> TRUE,
     allow_partial |-> TRUE, unpaid_action |-> "REQUIRE_APPROVAL"]

Alternatives ==
    {[Defaults EXCEPT !.alternative = policy] :
        policy \in {"ALLOW", "WARN", "REQUIRE_APPROVAL", "BLOCK"}}
=============================================================================
