------------------------------ MODULE MCCenter ------------------------------
(***************************************************************************)
(* Center on small sets: what a .cfg cannot write, and the symmetry of the *)
(* workers.                                                                *)
(***************************************************************************)
EXTENDS Center, TLC

CONSTANTS a1, a2

OneProcess == [w \in Worker |-> "p1"]

LimitSets ==
    {[blocked |-> FALSE, burst |-> 1, limit |-> [rps |-> 1, rpm |-> 1, rph |-> Unlimited]],
     [blocked |-> FALSE, burst |-> 0, limit |-> [rps |-> 1, rpm |-> Unlimited, rph |-> 1]],
     [blocked |-> TRUE, burst |-> 0, limit |-> [rps |-> Unlimited, rpm |-> Unlimited, rph |-> Unlimited]]}

OneOffering == [g1 |-> "o", g2 |-> "o"]

OneSeat == [g1 |-> 1, g2 |-> 0]

SeatBounds == {[requests |-> 4, runs |-> 0], [requests |-> 3, runs |-> 1], [requests |-> 2, runs |-> 2]}

\* The registry's defaults, and each policy on its own at its other values.
Usual ==
    [outside |-> "REQUIRE_APPROVAL", alternative |-> "ALLOW", unassigned |-> "REQUIRE_APPROVAL",
     other_grade |-> "REQUIRE_APPROVAL", enforce |-> FALSE, allow_unpaid |-> TRUE,
     allow_partial |-> TRUE, unpaid_action |-> "REQUIRE_APPROVAL"]

CenterPolicies ==
    {[Usual EXCEPT !.outside = o] : o \in {"BLOCK", "REQUIRE_APPROVAL", "ALLOW_EXCEPTIONAL"}}
      \cup {[Usual EXCEPT !.alternative = o] : o \in {"WARN", "REQUIRE_APPROVAL", "BLOCK"}}
      \cup {[Usual EXCEPT !.unassigned = o, !.other_grade = "BLOCK"] : o \in {"WARN", "BLOCK"}}
      \cup {[Usual EXCEPT !.enforce = TRUE, !.allow_unpaid = FALSE, !.allow_partial = p,
                          !.unpaid_action = a] : p \in BOOLEAN, a \in {"BLOCK", "REQUIRE_APPROVAL"}}

\* Somebody who may come in, and each reason why not on its own.
Expected ==
    [card |-> "ASSIGNED", student |-> "ACTIVE", lesson |-> "OPEN", seat |-> "here",
     same_grade |-> TRUE, dues |-> "none", grace |-> FALSE]

CenterWorlds ==
    {Expected, [Expected EXCEPT !.seat = "other"], [Expected EXCEPT !.seat = "none"],
     [Expected EXCEPT !.seat = "none", !.same_grade = FALSE], [Expected EXCEPT !.dues = "unpaid"],
     [Expected EXCEPT !.dues = "partial"], [Expected EXCEPT !.dues = "unpaid", !.grace = TRUE],
     [Expected EXCEPT !.student = "SUSPENDED"], [Expected EXCEPT !.student = "INACTIVE"],
     [Expected EXCEPT !.lesson = "SCHEDULED"]}

LessonGroups == [l1 |-> "g1", l2 |-> "g2"]

OneSubject == [g1 |-> "b", g2 |-> "b"]

TwoDays == [l1 |-> 1, l2 |-> 2]

HomeGroups == [s1 |-> "g1", s2 |-> "g2"]

TwoCharges ==
    [c1 |-> [student |-> "s1", group |-> "g1", month |-> 1],
     c2 |-> [student |-> "s2", group |-> "g2", month |-> 1]]

ReportBounds == {[attendance |-> 4, money |-> 0], [attendance |-> 0, money |-> 3]}

\* Bounds on what the rows of two scenes begin with.
SmallOffer ==
    /\ groups \in [StudyGroup -> [offering : {"o1"}, fee : {0, 1}]] /\ groups["g2"].fee = 1
    /\ defaults = [o1 |-> 1, o2 |-> 0]

SmallDebts == charges["c1"].due = 2 /\ charges["c2"].due = 1

MCInit ==
    /\ CenterInit
    /\ scene = "academics" => SmallOffer
    /\ scene = "reports" => SmallDebts

MCSpec == MCInit /\ [][CenterNext]_allVars

\* No property here is a liveness property.
Workers == Permutations(Worker)
=============================================================================
