---------------------------- MODULE MCAttendance ----------------------------
(* Attendance on small instances. *)
EXTENDS Attendance, TLC

CONSTANTS s1, s2, k1, k2, k3, w1, w2, redis, locmem1, locmem2

\* One scan of s1, one of s2, and for k3 a second one of s1.
CardOf == [k \in Key |-> IF k = k2 THEN s2 ELSE s1]

\* k3 asks for a check-out.
AskCheckOut == [k \in Key |-> IF k = k3 THEN "CHECK_OUT" ELSE "AUTO"]

AskAuto == [k \in Key |-> "AUTO"]

OneCache == [w \in Worker |-> redis]

OwnCaches == [w \in Worker |-> IF w = w1 THEN locmem1 ELSE locmem2]

Symmetry == Permutations(Worker)
=============================================================================
