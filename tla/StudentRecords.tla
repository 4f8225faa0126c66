--------------------------- MODULE StudentRecords ---------------------------
(***************************************************************************)
(* The students of one center: apps/students/services.py and api.py.       *)
(*                                                                         *)
(* A creation takes its code from the center's sequence, whose row it      *)
(* locks until it ends, so that creations follow one another.  A PATCH     *)
(* takes what it does not carry from the instance it read and saves every  *)
(* field; a change of status saves the status alone.                       *)
(***************************************************************************)
EXTENDS Naturals, FiniteSets, FiniteSetsExt

CONSTANTS
    Request,        \* requests served at the same time
    Attempts,       \* tries of create_student: 5
    MaxCode,        \* bound: numbers of the sequence
    MaxRequests     \* bound: requests in a behaviour

StudentRecordsAssumption == Attempts \in Nat \ {0} /\ {MaxCode, MaxRequests} \subseteq Nat

VARIABLES
    students,   \* by code
    next,       \* Sequence.next_value
    tx,         \* what each request is doing
    received    \* how many requests were received

vars == <<students, next, tx, received>>

-----------------------------------------------------------------------------

Status == {"ACTIVE", "SUSPENDED"}

Code == 1 .. MaxCode

Nobody == [status |-> "none"]

\* The name stands for the fields that only a PATCH changes.
Student == [status : Status, name : {"old", "new"}]

Idle == [step |-> "idle"]

Init ==
    /\ students = [code \in Code |-> Nobody]
    /\ next = 1
    /\ tx = [r \in Request |-> Idle]
    /\ received = 0

Taken == {code \in Code : students[code] # Nobody}

Receives(r) ==
    /\ tx[r] = Idle
    /\ received < MaxRequests
    /\ received' = received + 1

\* A code that is given is not taken from the sequence (the seed commands).
CreateWithCode(r, code) ==
    /\ Receives(r)
    /\ code \notin Taken
    /\ students' = [students EXCEPT ![code] = [status |-> "ACTIVE", name |-> "old"]]
    /\ UNCHANGED <<next, tx>>

\* Each try is a savepoint, and keeps the number it took.
Tried == next .. next + Attempts - 1

\* create_student; the refusal rolls the sequence back.
Create(r) ==
    LET free == Tried \ Taken
    IN  /\ Receives(r)
        /\ next + Attempts <= MaxCode + 1
        /\ IF free = {}
             THEN UNCHANGED <<students, next>>
             ELSE /\ students' = [students EXCEPT ![Min(free)] = [status |-> "ACTIVE", name |-> "old"]]
                  /\ next' = Min(free) + 1
        /\ UNCHANGED tx

Working(step, code, status) ==
    [step |-> step, code |-> code, read |-> students[code], status |-> status, overtaken |-> FALSE]

\* student_detail, PATCH; status is "same" when the form does not carry it.
Patch(r, code, status) ==
    /\ Receives(r)
    /\ code \in Taken
    /\ tx' = [tx EXCEPT ![r] = Working("patching", code, status)]
    /\ UNCHANGED <<students, next>>

\* student_status: nothing to do if the instance has the status already.
Change(r, code, status) ==
    /\ Receives(r)
    /\ code \in Taken
    /\ status # students[code].status
    /\ tx' = [tx EXCEPT ![r] = Working("changing", code, status)]
    /\ UNCHANGED <<students, next>>

Overtaken(r, code) ==
    [q \in Request |->
        IF q = r THEN Idle
        ELSE IF tx[q] # Idle /\ tx[q].code = code THEN [tx[q] EXCEPT !.overtaken = TRUE] ELSE tx[q]]

\* update_student
Update(r) ==
    /\ tx[r].step = "patching"
    /\ students' = [students EXCEPT ![tx[r].code] =
           [status |-> IF tx[r].status = "same" THEN tx[r].read.status ELSE tx[r].status,
            name |-> "new"]]
    /\ tx' = Overtaken(r, tx[r].code)
    /\ UNCHANGED <<next, received>>

\* change_status
ChangeStatus(r) ==
    /\ tx[r].step = "changing"
    /\ students' = [students EXCEPT ![tx[r].code].status = tx[r].status]
    /\ tx' = Overtaken(r, tx[r].code)
    /\ UNCHANGED <<next, received>>

Next ==
    \/ \E r \in Request : Create(r) \/ Update(r) \/ ChangeStatus(r)
    \/ \E r \in Request, code \in Code :
          \/ CreateWithCode(r, code)
          \/ \E status \in Status \cup {"same"} : Patch(r, code, status)
          \/ \E status \in Status : Change(r, code, status)

Spec == Init /\ [][Next]_vars

-----------------------------------------------------------------------------
(* Properties *)

TypeOK ==
    /\ students \in [Code -> Student \cup {Nobody}]
    /\ next \in 1 .. MaxCode + 1
    /\ received \in 0 .. MaxRequests

\* A number the sequence has passed is a code that somebody has: a creation
\* that is refused leaves no gap behind.
NoGaps == 1 .. next - 1 \subseteq Taken

RecordsHold == TypeOK /\ NoGaps

\* In every step: a status becomes what a request asked for, or what an instance held that
\* was overtaken; no change of status undoes a PATCH.
RecordsAreDecided ==
    \A code \in Taken :
        /\ students'[code].status # students[code].status =>
             \E r \in Request : tx[r] # Idle /\ tx[r].code = code /\ tx'[r] = Idle
                                  /\ (tx[r].status = students'[code].status \/ tx[r].overtaken)
        /\ students[code].name = "new" => students'[code].name = "new"
=============================================================================
