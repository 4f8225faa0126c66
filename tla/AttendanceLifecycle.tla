------------------------ MODULE AttendanceLifecycle ------------------------
(***************************************************************************)
(* The lifecycle of attendance in one lesson as docs/03-attendance-and-    *)
(* cards.md:29-47 draws it: a student who has not attended is checked in   *)
(* or found absent, an absence may be corrected, a check-in is closed, and *)
(* anything that was recorded may be cancelled, which is the end of it.    *)
(* Closing and finding absent may befall many students at once: that is    *)
(* what completing the lesson does.                                        *)
(***************************************************************************)
CONSTANT Student

VARIABLE state   \* where each student stands

AttendanceState == {"NOT_ATTENDED", "CHECKED_IN", "CHECKED_OUT", "ABSENT", "CANCELLED"}

Init == state = [s \in Student |-> "NOT_ATTENDED"]

\* Each student of the group goes from one of the given states to another.
Move(group, from, to) ==
    /\ \A s \in group : state[s] \in from
    /\ state' = [s \in Student |-> IF s \in group THEN to ELSE state[s]]

CheckIn(s) == Move({s}, {"NOT_ATTENDED", "ABSENT"}, "CHECKED_IN")

CheckOut(s) == Move({s}, {"CHECKED_IN"}, "CHECKED_OUT")

Cancel(s) == Move({s}, AttendanceState \ {"NOT_ATTENDED"}, "CANCELLED")

\* Completing the lesson: the leavers are checked out, the missing absent.
Complete(leavers, missing) ==
    /\ \A s \in leavers : state[s] = "CHECKED_IN"
    /\ \A s \in missing : state[s] = "NOT_ATTENDED"
    /\ state' = [s \in Student |->
           IF s \in leavers THEN "CHECKED_OUT" ELSE IF s \in missing THEN "ABSENT" ELSE state[s]]

Next ==
    \/ \E s \in Student : CheckIn(s) \/ CheckOut(s) \/ Cancel(s)
    \/ \E leavers, missing \in SUBSET Student : Complete(leavers, missing)

Spec == Init /\ [][Next]_state
=============================================================================
