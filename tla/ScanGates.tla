------------------------------ MODULE ScanGates -------------------------------
(***************************************************************************)
(* What one student's scan is answered with, and what it leaves behind:    *)
(* attendance/eligibility.py, the gates of attendance.services.scan, the   *)
(* table of result codes and the endpoint, and the scanner's button that   *)
(* sends the scan again with an approval.                                  *)
(*                                                                         *)
(* One scan is one step: Attendance has the concurrency of scans.  The     *)
(* policies, the seat, the dues and the lesson change between scans.       *)
(***************************************************************************)
EXTENDS Naturals, Sequences, FiniteSetsExt

CONSTANTS
    Worlds,         \* facts that a behaviour begins with
    PolicySets,     \* the policies a center may have set
    Opens, Closes,  \* the window of the lesson
    LateAfter,
    Gap,            \* min_checkout_gap; the duplicate window is shorter
    Partial,        \* partial_min_duration
    MaxNow,         \* bound: time
    MaxChanges      \* bound: changes of the world in a behaviour

VARIABLES
    now,
    world,      \* what a scan reads: card, student, lesson snapshot, seat, grade, dues
    policies,   \* the settings a scan reads
    row,        \* the student's attendance of the lesson
    screen,     \* the scanner's last answer, while nothing has changed since
    changes,    \* how often the world changed
    owed,       \* history: the row's check-in needed an approval
    corrected   \* history: the check-in came upon an absence

vars == <<now, world, policies, row, screen, changes, owed, corrected>>

-----------------------------------------------------------------------------
(* The facts and the settings *)

CardStatus == {"AVAILABLE", "ASSIGNED", "LOST", "DISABLED", "REPLACED"}

StudentStatus == {"ACTIVE", "INACTIVE", "SUSPENDED"}

LessonStatus == {"SCHEDULED", "OPEN", "COMPLETED", "CANCELLED"}

\* The seat is the student's group for the lesson's offering: the lesson's
\* group, another, or none.  The dues are the charge of the month.
World ==
    [card : CardStatus, student : StudentStatus, lesson : LessonStatus,
     seat : {"here", "other", "none"}, same_grade : BOOLEAN,
     dues : {"none", "settled", "partial", "unpaid"}, grace : BOOLEAN]

Policies ==
    [outside : {"BLOCK", "REQUIRE_APPROVAL", "ALLOW_EXCEPTIONAL"},
     alternative : {"ALLOW", "WARN", "REQUIRE_APPROVAL", "BLOCK"},
     unassigned : {"BLOCK", "WARN", "REQUIRE_APPROVAL"},
     other_grade : {"BLOCK", "REQUIRE_APPROVAL"},
     enforce : BOOLEAN, allow_unpaid : BOOLEAN, allow_partial : BOOLEAN,
     unpaid_action : {"BLOCK", "REQUIRE_APPROVAL"}]

ScanGatesAssumption ==
    /\ Worlds \subseteq World /\ PolicySets \subseteq Policies
    /\ {Opens, Closes, LateAfter, Gap, Partial, MaxNow, MaxChanges} \subseteq Nat

\* Who scans: an instructor sees the groups he teaches, and may approve.
Operator == {"desk", "admin", "instructor", "other_instructor"}

Approvers == {"admin", "instructor", "other_instructor"}

\* can_touch_lesson
MayTouch(by) == by # "other_instructor"

NoRow == [state |-> "none"]

\* The check-in time of an absence.
NoTime == MaxNow + 1

\* approved stands for requires_approval, approved_by and approved_at.
Row(state, type, assigned, at, late, approved) ==
    [state |-> state, type |-> type, assigned |-> assigned, at |-> at, late |-> late,
     approved |-> approved]

Blank == [code |-> "none", colour |-> "idle", recorded |-> FALSE]

Init ==
    /\ now = 0
    /\ world \in Worlds
    /\ policies \in PolicySets
    /\ row = NoRow
    /\ screen = Blank
    /\ changes = 0
    /\ owed = FALSE
    /\ corrected = FALSE

-----------------------------------------------------------------------------
(* Result codes *)

\* STATUS_ERRORS
CardError ==
    [status \in CardStatus \ {"ASSIGNED"} |->
        CASE status = "AVAILABLE" -> "ERR_CARD_UNASSIGNED"
          [] status = "LOST" -> "ERR_CARD_LOST"
          [] status = "DISABLED" -> "ERR_CARD_DISABLED"
          [] status = "REPLACED" -> "ERR_CARD_REPLACED"]

\* CODES: the severity of a code decides the colour, the sound and the button.
Severities ==
    [OK |-> {"OK_CHECK_IN", "OK_CHECK_IN_LATE", "OK_CHECK_IN_ALTERNATIVE", "OK_CHECK_IN_MAKEUP",
             "OK_CHECK_OUT", "OK_CHECK_OUT_PARTIAL"},
     WARN |-> {"WARN_DUPLICATE", "WARN_ALREADY_CHECKED_OUT", "WARN_NOT_ASSIGNED"},
     NEEDS_APPROVAL |-> {"NEEDS_APPROVAL_NOT_ASSIGNED", "NEEDS_APPROVAL_GRADE",
                         "NEEDS_APPROVAL_WINDOW", "NEEDS_APPROVAL_PAYMENT"}]

Severity(code) ==
    IF \E s \in DOMAIN Severities : code \in Severities[s]
      THEN CHOOSE s \in DOMAIN Severities : code \in Severities[s] ELSE "ERR"

\* PRESENTATION; a sound goes with each colour.
Colour(code) ==
    CASE Severity(code) = "OK" -> "green"
      [] Severity(code) \in {"WARN", "NEEDS_APPROVAL"} -> "amber"
      [] OTHER -> "red"

\* The scanner shows the button of the approval.
Button == Severity(screen.code) = "NEEDS_APPROVAL"

-----------------------------------------------------------------------------
(* Eligibility and payment *)

Decision(type, decision, code, block) ==
    [type |-> type, decision |-> decision, code |-> code, block |-> block]

\* classify: scenarios A, B, D and C.
Classified(makeup) ==
    CASE world.seat = "here" ->
            Decision("NORMAL", "ALLOW", "OK_CHECK_IN", "none")
      [] world.seat = "other" ->
            Decision(IF makeup THEN "MAKEUP" ELSE "ALTERNATIVE_GROUP", policies.alternative,
                     IF makeup THEN "OK_CHECK_IN_MAKEUP" ELSE "OK_CHECK_IN_ALTERNATIVE",
                     "ERR_NOT_ASSIGNED_BLOCKED")
      [] world.seat = "none" /\ ~world.same_grade ->
            Decision("EXCEPTIONAL", policies.other_grade, "NEEDS_APPROVAL_GRADE", "ERR_GRADE_BLOCKED")
      [] OTHER ->
            Decision("EXCEPTIONAL", policies.unassigned,
                     IF policies.unassigned = "REQUIRE_APPROVAL" THEN "NEEDS_APPROVAL_NOT_ASSIGNED"
                     ELSE "WARN_NOT_ASSIGNED",
                     "ERR_NOT_ASSIGNED_BLOCKED")

\* Mutant: a month that is not paid at all is treated as one that is partly paid.
PaymentCodePartly ==
    CASE ~policies.enforce \/ world.dues \in {"none", "settled"} \/ world.grace -> "none"
      [] policies.allow_partial -> "WARN_PAYMENT_DUE"
      [] OTHER -> IF policies.unpaid_action = "REQUIRE_APPROVAL" THEN "NEEDS_APPROVAL_PAYMENT"
                  ELSE "ERR_PAYMENT_BLOCKED"

\* _payment_gate
PaymentCode ==
    CASE ~policies.enforce \/ world.dues \in {"none", "settled"} \/ world.grace -> "none"
      [] (IF world.dues = "partial" THEN policies.allow_partial ELSE policies.allow_unpaid) ->
            "WARN_PAYMENT_DUE"
      [] OTHER -> IF policies.unpaid_action = "REQUIRE_APPROVAL" THEN "NEEDS_APPROVAL_PAYMENT"
                  ELSE "ERR_PAYMENT_BLOCKED"

InWindow == Opens <= now /\ now <= Closes

-----------------------------------------------------------------------------
(* scan *)

\* The gates that a scan meets, in their order; an approval opens the last six.
Gates(makeup, approve) ==
    LET decision == Classified(makeup)
        closed(policy) == ~InWindow /\ policies.outside = policy /\ ~approve
        decided(policy) == decision.decision = policy /\ ~approve
        owing(code) == PaymentCode = code /\ ~approve
    IN  << [shut |-> world.card # "ASSIGNED",
            code |-> IF world.card = "ASSIGNED" THEN "none" ELSE CardError[world.card]],
           [shut |-> world.student = "SUSPENDED", code |-> "ERR_STUDENT_SUSPENDED"],
           [shut |-> world.student # "ACTIVE", code |-> "ERR_STUDENT_INACTIVE"],
           [shut |-> world.lesson = "CANCELLED", code |-> "ERR_LESSON_CANCELLED"],
           [shut |-> world.lesson # "OPEN", code |-> "ERR_LESSON_NOT_OPEN"],
           [shut |-> closed("BLOCK"), code |-> "ERR_WINDOW_CLOSED"],
           [shut |-> closed("REQUIRE_APPROVAL"), code |-> "NEEDS_APPROVAL_WINDOW"],
           [shut |-> decided("BLOCK"), code |-> decision.block],
           [shut |-> decided("REQUIRE_APPROVAL"), code |-> decision.code],
           [shut |-> owing("ERR_PAYMENT_BLOCKED"), code |-> "ERR_PAYMENT_BLOCKED"],
           [shut |-> owing("NEEDS_APPROVAL_PAYMENT"), code |-> "NEEDS_APPROVAL_PAYMENT"] >>

\* The gates that are shut, by their place; the first of them answers.
Shut(makeup, approve) ==
    LET gates == Gates(makeup, approve) IN {i \in DOMAIN gates : gates[i].shut}

\* Answers and refusals alike carry the colour of their code, and the scanner
\* shows the colour it is sent: its own red is for a failure that brings none.
Answer(code, recorded) ==
    screen' = [code |-> code, colour |-> Colour(code), recorded |-> recorded]

Refuse(code) ==
    /\ Answer(code, FALSE)
    /\ UNCHANGED <<row, owed, corrected>>

\* A student in his own group comes exceptionally outside the window.
TypeOf(decision) ==
    IF ~InWindow /\ decision.type = "NORMAL" THEN "EXCEPTIONAL" ELSE decision.type

\* The tables of docs/03, D.4 and D.5, as far as they ask for an approval or
\* refuse without one.
Asked ==
    \/ (now < Opens \/ now > Closes) /\ policies.outside \in {"BLOCK", "REQUIRE_APPROVAL"}
    \/ world.seat = "other" /\ policies.alternative \in {"BLOCK", "REQUIRE_APPROVAL"}
    \/ world.seat = "none" /\ world.same_grade /\ policies.unassigned \in {"BLOCK", "REQUIRE_APPROVAL"}
    \/ world.seat = "none" /\ ~world.same_grade
    \/ policies.enforce /\ ~world.grace /\ world.dues = "unpaid" /\ ~policies.allow_unpaid
    \/ policies.enforce /\ ~world.grace /\ world.dues = "partial" /\ ~policies.allow_partial

\* _write_attendance
CheckIn(decision, approve) ==
    LET late == now > LateAfter
    IN  /\ row.state \in {"none", "ABSENT"}
        /\ owed' = Asked
        /\ corrected' = (row.state = "ABSENT")
        /\ row' = Row("CHECKED_IN", TypeOf(decision), world.seat, now, late,
                      IF row = NoRow THEN approve ELSE row.approved)
        /\ Answer(IF row = NoRow /\ late /\ decision.code = "OK_CHECK_IN" THEN "OK_CHECK_IN_LATE"
                  ELSE decision.code, TRUE)

CheckOut ==
    /\ row.state = "CHECKED_IN" /\ now - row.at >= Gap
    /\ row' = [row EXCEPT !.state = "CHECKED_OUT"]
    /\ Answer(IF now - row.at < Partial THEN "OK_CHECK_OUT_PARTIAL" ELSE "OK_CHECK_OUT", TRUE)
    /\ UNCHANGED <<owed, corrected>>

Repeat ==
    /\ \/ row.state = "CHECKED_OUT" /\ Answer("WARN_ALREADY_CHECKED_OUT", TRUE)
       \/ row.state = "CHECKED_IN" /\ now - row.at < Gap /\ Answer("WARN_DUPLICATE", TRUE)
    /\ UNCHANGED <<row, owed, corrected>>

Write(decision, intent, approve) ==
    \/ /\ intent = "CHECK_OUT" /\ row.state \in {"none", "ABSENT"}
       /\ Refuse("ERR_NOT_CHECKED_IN")
    \/ intent # "CHECK_OUT" /\ CheckIn(decision, approve)
    \/ row.state = "CANCELLED" /\ Refuse("ERR_ATTENDANCE_CANCELLED")
    \/ CheckOut \/ Repeat

Scan(by, intent, makeup, approve) ==
    LET shut == Shut(makeup, approve)
    IN  /\ MayTouch(by)
        /\ approve => by \in Approvers
        /\ IF shut # {} THEN Refuse(Gates(makeup, approve)[Min(shut)].code)
           ELSE Write(Classified(makeup), intent, approve)
        /\ UNCHANGED <<now, world, policies, changes>>

-----------------------------------------------------------------------------
(* Between scans *)

Changes ==
    /\ changes < MaxChanges
    /\ changes' = changes + 1
    /\ screen' = Blank

\* Another seat, another payment, a card reported, a lesson completed or
\* cancelled as far as its snapshot shows it.
WorldChanges ==
    /\ Changes
    /\ \/ \E seat \in {"here", "other", "none"} : world' = [world EXCEPT !.seat = seat]
       \/ \E dues \in {"partial", "settled"} : world.dues # "none" /\ world' = [world EXCEPT !.dues = dues]
       \/ world' = [world EXCEPT !.card = "LOST"]
       \/ world.lesson = "OPEN" /\ \E status \in {"COMPLETED", "CANCELLED"} :
             world' = [world EXCEPT !.lesson = status]
    /\ world' # world
    /\ UNCHANGED <<now, policies, row, owed, corrected>>

PoliciesChange ==
    /\ Changes
    /\ policies' \in PolicySets \ {policies}
    /\ UNCHANGED <<now, world, row, owed, corrected>>

\* finalize_lesson, of a lesson whose snapshot may still be open to a scan.
Sweep ==
    /\ Changes
    /\ world.lesson = "OPEN"
    /\ row' = CASE row = NoRow /\ world.seat = "here" -> Row("ABSENT", "NORMAL", "here", NoTime, FALSE, FALSE)
                [] row.state = "CHECKED_IN" -> [row EXCEPT !.state = "CHECKED_OUT"]
                [] OTHER -> row
    /\ row' # row
    /\ UNCHANGED <<now, world, policies, owed, corrected>>

\* manual, cancel and approve, of api.py.
ManualCreate ==
    /\ Changes
    /\ row = NoRow
    /\ row' = Row("CHECKED_IN", "MANUAL", world.seat, now, now > LateAfter, FALSE)
    /\ owed' = FALSE
    /\ UNCHANGED <<now, world, policies, corrected>>

Cancel ==
    /\ Changes
    /\ row # NoRow
    /\ row' = [row EXCEPT !.state = "CANCELLED"]
    /\ UNCHANGED <<now, world, policies, owed, corrected>>

Approve ==
    /\ Changes
    /\ row # NoRow /\ ~row.approved
    /\ row' = [row EXCEPT !.approved = TRUE]
    /\ UNCHANGED <<now, world, policies, owed, corrected>>

Tick ==
    /\ now < MaxNow
    /\ now' = now + 1
    /\ screen' = Blank
    /\ UNCHANGED <<world, policies, row, changes, owed, corrected>>

-----------------------------------------------------------------------------

Next ==
    \/ \E by \in Operator, intent \in {"AUTO", "CHECK_OUT"}, makeup, approve \in BOOLEAN :
          Scan(by, intent, makeup, approve)
    \/ WorldChanges \/ PoliciesChange \/ Sweep
    \/ ManualCreate \/ Cancel \/ Approve
    \/ Tick

Spec == Init /\ [][Next]_vars

-----------------------------------------------------------------------------
(* Properties *)

TypeOK ==
    /\ now \in 0 .. MaxNow
    /\ world \in World /\ policies \in Policies
    /\ row.state \in {"none", "CHECKED_IN", "CHECKED_OUT", "ABSENT", "CANCELLED"}
    /\ screen.colour \in {"idle", "green", "amber", "red"} /\ screen.recorded \in BOOLEAN
    /\ changes \in 0 .. MaxChanges

\* Whoever came in although the policies asked for an approval has it on his
\* row, whatever the policies say by now; a scan that corrects an absence
\* is the one that does not write it.
ApprovalIsRecorded == owed => row.approved \/ corrected

\* The button leads on: a scan that was not let in for want of an approval
\* meets no other gate when it is sent again with one.
ButtonLeadsOn == Button /\ ~screen.recorded => \A makeup \in BOOLEAN : Shut(makeup, TRUE) = {}

\* A NORMAL row is of the student's own group as it was when he came, and
\* within the window: the reports count on it.
NormalIsNormal ==
    row # NoRow /\ row.type = "NORMAL" /\ row.at # NoTime =>
        row.assigned = "here" /\ Opens <= row.at /\ row.at <= Closes

\* The colours tell what was written.  Behind an answer that stands for a row
\* is a row of a student who came, and it is not red; and a green one without
\* a row is the first answer to a student of another group whose policy asks
\* for an approval, which alone would let him in.
ColoursTell ==
    /\ screen.recorded => row.state \in {"CHECKED_IN", "CHECKED_OUT"} /\ screen.colour # "red"
    /\ screen.colour = "green" /\ ~screen.recorded =>
          /\ world.seat = "other" /\ policies.alternative = "REQUIRE_APPROVAL"
          /\ \A makeup \in BOOLEAN : Shut(makeup, TRUE) = {}

ScansHold ==
    TypeOK /\ ApprovalIsRecorded /\ ButtonLeadsOn /\ NormalIsNormal /\ ColoursTell

\* docs/05: whether he was checked in must never be a guess.  A green card is
\* shown for what was recorded only.
GreenIsRecorded == screen.colour = "green" => screen.recorded
=============================================================================
