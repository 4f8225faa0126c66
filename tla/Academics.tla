----------------------------- MODULE Academics ------------------------------
(***************************************************************************)
(* Groups, what they teach and when: apps/academics (api, forms, models),  *)
(* apps/core/crud.py, and the lessons that lessons/services.py makes of a  *)
(* weekly schedule.  Enrolment appears here as far as it copies a group's  *)
(* offering; Enrollment has the rest of it.                                *)
(*                                                                         *)
(* A PATCH validates a form over the instance it read and saves all of its *)
(* fields later.  A generation reads the schedule and the lessons there    *)
(* are, and then makes each lesson in a transaction of its own.            *)
(***************************************************************************)
EXTENDS Naturals, FiniteSets, FiniteSetsExt

CONSTANTS
    Group,
    Offering,       \* grades and subjects
    Student,
    Fee,            \* monthly fees; 0 is falsy
    Week,           \* days of a week
    Horizon,        \* bound: days that lessons are made for
    Request,        \* requests served at the same time
    MaxRequests     \* bound: requests in a behaviour

AcademicsAssumption ==
    /\ Fee \subseteq Nat
    /\ Week \in Nat \ {0} /\ {Horizon, MaxRequests} \subseteq Nat

VARIABLES
    groups,     \* the offering and the fee of each group
    defaults,   \* GradeSubject.default_monthly_fee
    schedules,  \* the weekdays of each group
    lessons,    \* the group and the day of each lesson; none is ever deleted
    seats,      \* ACTIVE assignments: student, group and the group's offering as copied
    tx,         \* what each request is doing
    received,   \* how many requests were received
    promised    \* history: lessons a generation that ended had to leave behind it

vars == <<groups, defaults, schedules, lessons, seats, tx, received, promised>>

-----------------------------------------------------------------------------

Weekday == 0 .. Week - 1

Day == 1 .. Horizon

Record == [offering : Offering, fee : Fee]

Seat == [student : Student, group : Group, offering : Offering]

Idle == [step |-> "idle"]

\* Classes are set up before anything is taught.
Init ==
    /\ groups \in [Group -> Record]
    /\ defaults \in [Offering -> Fee]
    /\ schedules = [g \in Group |-> {}]
    /\ lessons = {}
    /\ seats = {}
    /\ tx = [r \in Request |-> Idle]
    /\ received = 0
    /\ promised = {}

Receives(r) ==
    /\ tx[r] = Idle
    /\ received < MaxRequests
    /\ received' = received + 1

Taught(g) == \E day \in Day : <<g, day>> \in lessons

-----------------------------------------------------------------------------
(* Groups and offerings *)

\* A field a PATCH does not carry is taken from the instance.
Sent(data, field, group) == IF data[field] = {} THEN group[field] ELSE CHOOSE x \in data[field] : TRUE

\* What a PATCH carries: none or one value of each field.
Data ==
    [offering : {{}} \cup {{o} : o \in Offering}, fee : {{}} \cup {{f} : f \in Fee}]

\* GroupForm.clean: a fee of 0 is no fee, and the offering's is taken.
Cleaned(group, data) ==
    LET offering == Sent(data, "offering", group)
        fee == Sent(data, "fee", group)
    IN  [offering |-> offering, fee |-> IF fee = 0 THEN defaults[offering] ELSE fee]

\* A group that has lessons keeps its offering.
MayPatch(g, group) == group.offering # groups[g].offering => ~Taught(g)

\* group_detail: update_object validates; groups, POST, is the same form on
\* a group that nothing refers to yet.
Patch(r, g, data) ==
    LET group == Cleaned(groups[g], data)
    IN  /\ Receives(r)
        /\ MayPatch(g, group)
        /\ tx' = [tx EXCEPT ![r] =
               [step |-> "patching", group |-> g, read |-> groups[g], data |-> data, row |-> group,
                taught |-> Taught(g), overtaken |-> FALSE]]
        /\ UNCHANGED <<groups, defaults, schedules, lessons, seats, promised>>

Overtaken(r, g) ==
    [q \in Request |->
        IF q = r THEN Idle
        ELSE IF tx[q].step = "patching" /\ tx[q].group = g THEN [tx[q] EXCEPT !.overtaken = TRUE]
        ELSE tx[q]]

\* form.save()
Save(r) ==
    /\ tx[r].step = "patching"
    /\ groups' = [groups EXCEPT ![tx[r].group] = tx[r].row]
    /\ tx' = Overtaken(r, tx[r].group)
    /\ UNCHANGED <<defaults, schedules, lessons, seats, received, promised>>

\* offering_detail, for its fee.
PatchOffering(r, o, fee) ==
    /\ Receives(r)
    /\ fee # defaults[o]
    /\ defaults' = [defaults EXCEPT ![o] = fee]
    /\ UNCHANGED <<groups, schedules, lessons, seats, tx, promised>>

\* StudentGroupAssignment.save copies the group's offering, and the unique
\* index is over the copy.
Enrol(r, s, g) ==
    /\ Receives(r)
    /\ \A seat \in seats : seat.student = s => seat.offering # groups[g].offering
    /\ seats' = seats \cup {[student |-> s, group |-> g, offering |-> groups[g].offering]}
    /\ UNCHANGED <<groups, defaults, schedules, lessons, tx, promised>>

-----------------------------------------------------------------------------
(* The timetable *)

\* group_schedules, POST, and schedule_detail, DELETE.
ChangeSchedule(r, g, weekday) ==
    /\ Receives(r)
    /\ schedules' = [schedules EXCEPT ![g] = IF weekday \in @ THEN @ \ {weekday} ELSE @ \cup {weekday}]
    /\ UNCHANGED <<groups, defaults, lessons, seats, tx, promised>>

\* Mutant: the lessons of every group are taken for this one's.
ExistingAnywhere(g) == {lesson[2] : lesson \in lessons}

Existing(g) == {day \in Day : <<g, day>> \in lessons}

\* The days of the range on which the schedule has the group, less the holidays.
Wanted(g, range, holidays) == {day \in range \ holidays : day % Week \in schedules[g]}

\* generate_lessons begins: the schedule and the lessons are read once.
Generate(r, g, range, holidays) ==
    /\ Receives(r)
    /\ schedules[g] # {}
    /\ tx' = [tx EXCEPT ![r] =
           [step |-> "generating", group |-> g, wanted |-> Wanted(g, range, holidays),
            todo |-> Wanted(g, range, holidays) \ Existing(g)]]
    /\ UNCHANGED <<groups, defaults, schedules, lessons, seats, promised>>

\* create_lesson for the next day; another request may have made the lesson
\* by now, and then ERR_LESSON_EXISTS ends the generation where it is.
NextLesson(r) ==
    LET lesson == <<tx[r].group, Min(tx[r].todo)>>
    IN  /\ tx[r].step = "generating" /\ tx[r].todo # {}
        /\ lessons' = lessons \cup {lesson}
        /\ tx' = [tx EXCEPT ![r] = IF lesson \in lessons THEN Idle
                                   ELSE [tx[r] EXCEPT !.todo = tx[r].todo \ {lesson[2]}]]
        /\ UNCHANGED <<groups, defaults, schedules, seats, received, promised>>

Generated(r) ==
    /\ tx[r].step = "generating" /\ tx[r].todo = {}
    /\ promised' = promised \cup ({tx[r].group} \X tx[r].wanted)
    /\ tx' = [tx EXCEPT ![r] = Idle]
    /\ UNCHANGED <<groups, defaults, schedules, lessons, seats, received>>

\* lessons, POST: a lesson by hand.
CreateLesson(r, g, day) ==
    /\ Receives(r)
    /\ <<g, day>> \notin lessons
    /\ lessons' = lessons \cup {<<g, day>>}
    /\ UNCHANGED <<groups, defaults, schedules, seats, tx, promised>>

-----------------------------------------------------------------------------

Next ==
    \/ \E r \in Request, g \in Group :
          \/ \E data \in Data : Patch(r, g, data)
          \/ \E s \in Student : Enrol(r, s, g)
          \/ \E weekday \in Weekday : ChangeSchedule(r, g, weekday)
          \/ \E range \in {1 .. last : last \in Day}, holidays \in {{}} \cup {{day} : day \in Day} :
                Generate(r, g, range, holidays)
          \/ \E day \in Day : CreateLesson(r, g, day)
    \/ \E r \in Request, o \in Offering, fee \in Fee : PatchOffering(r, o, fee)
    \/ \E r \in Request : Save(r) \/ NextLesson(r) \/ Generated(r)

Spec == Init /\ [][Next]_vars

-----------------------------------------------------------------------------
(* Properties *)

TypeOK ==
    /\ groups \in [Group -> Record]
    /\ defaults \in [Offering -> Fee]
    /\ schedules \in [Group -> SUBSET Weekday]
    /\ lessons \subseteq Group \X Day
    /\ seats \subseteq Seat
    /\ received \in 0 .. MaxRequests

\* A generation that ends has left a lesson on every day it was asked for,
\* its own or another's; one that another request overtook has not ended,
\* and is run again.
PromisedAreHeld == promised \subseteq lessons

AcademicsHold == TypeOK /\ PromisedAreHeld

Moves(g) == groups'[g].offering # groups[g].offering

Reprices(g) == groups'[g].fee # groups[g].fee

\* In every step: a group that has lessons moves to another offering only if its first
\* lesson was made while the PATCH was on its way; and a fee changes to what
\* was sent, or because it was 0, or with an instance that was overtaken.
GroupsAreDecided ==
    \A g \in Group : Moves(g) \/ Reprices(g) =>
        \E r \in Request :
           /\ tx[r].step = "patching" /\ tx[r].group = g /\ tx'[r] = Idle
           /\ Moves(g) => ~tx[r].taught \/ tx[r].overtaken
           /\ Reprices(g) => tx[r].overtaken \/ tx[r].data.fee # {} \/ tx[r].read.fee = 0
=============================================================================
