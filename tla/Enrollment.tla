----------------------------- MODULE Enrollment -----------------------------
(***************************************************************************)
(* Which group a student sits in, and whether the month bills the seat:    *)
(* apps/students/assignment_services.py with its endpoints, and what       *)
(* apps/payments does for them.                                            *)
(*                                                                         *)
(* Endpoints read the assignment before the service's transaction begins.  *)
(* A transaction is open for several steps; other transactions see none of *)
(* its rows, wait for the row it changed and for the seat it inserted.     *)
(* Requests that are refused on their arguments alone change nothing and   *)
(* are left out.                                                           *)
(***************************************************************************)
EXTENDS Naturals, Sequences, FiniteSets

CONSTANTS
    Student,
    Group,
    OfferingOf,     \* the subject offering of each group
    Capacity,       \* advisory; 0 is without a limit
    Clerk,          \* requests served at the same time
    Budgets         \* bounds: requests and runs of the generation in a behaviour

EnrollmentAssumption ==
    /\ IsFiniteSet(Clerk)
    /\ DOMAIN OfferingOf = Group
    /\ Capacity \in [Group -> Nat]
    /\ Budgets \subseteq [requests : Nat, runs : Nat]

VARIABLES
    rows,       \* StudentGroupAssignment, committed, by id
    tx,         \* what each clerk's request is doing
    charges,    \* MonthlyCharge of the month: students and offerings
    run,        \* generate_monthly_charges
    left,       \* requests and runs that may still begin
    listed,     \* history: groups whose assignments a run has listed
    missed      \* history: seats that looked for a charge before there was one, and
                \* were committed after the run had listed their group

history == <<listed, missed>>

vars == <<rows, tx, charges, run, left, history>>

-----------------------------------------------------------------------------

Offering == {OfferingOf[g] : g \in Group}

Assignment ==
    [student : Student, group : Group, status : {"ACTIVE", "ENDED", "TRANSFERRED"}, warned : BOOLEAN]

Idle == [step |-> "idle"]

NoRun == [step |-> "idle"]

\* A request that seats a student; old is the row a transfer ends, or 0.
Seating(step, s, g, old) == [step |-> step, student |-> s, group |-> g, old |-> old]

Seat(s, g) == <<s, OfferingOf[g]>>

SeatOf(row) == Seat(row.student, row.group)

Init ==
    /\ rows = <<>>
    /\ tx = [c \in Clerk |-> Idle]
    /\ charges = {}
    /\ run = NoRun
    /\ left \in Budgets
    /\ listed = {}
    /\ missed = {}

\* The ACTIVE rows as the transaction of c sees them: a transfer has ended
\* its old row.
Active(c) ==
    {i \in DOMAIN rows : rows[i].status = "ACTIVE"
                           /\ ~(tx[c].step \in {"ended", "counted"} /\ tx[c].old = i)}

\* Another transaction has changed the row and is open.
Locked(c, i) ==
    \E d \in Clerk \ {c} : tx[d].step \in {"ended", "counted", "inserted"} /\ tx[d].old = i

\* Another transaction has inserted the seat and is open.
Awaited(c, s, g) ==
    \E d \in Clerk \ {c} : tx[d].step = "inserted"
                             /\ Seat(tx[d].student, tx[d].group) = Seat(s, g)

\* group_is_full
Full(c, g) ==
    Capacity[g] # 0 /\ Cardinality({i \in Active(c) : rows[i].group = g}) >= Capacity[g]

-----------------------------------------------------------------------------
(* Requests *)

Begins(c) ==
    /\ tx[c] = Idle
    /\ left.requests > 0
    /\ left' = [left EXCEPT !.requests = @ - 1]

\* group_student_detail, DELETE: reads an ACTIVE row.
ReadToEnd(c, i) ==
    /\ Begins(c)
    /\ rows[i].status = "ACTIVE"
    /\ tx' = [tx EXCEPT ![c] = [step |-> "ending", old |-> i]]
    /\ UNCHANGED <<rows, charges, run, history>>

\* transfer: reads the row; the service goes on if that row is ACTIVE.
ReadToMove(c, i, g) ==
    /\ Begins(c)
    /\ rows[i].status = "ACTIVE"
    /\ g # rows[i].group /\ OfferingOf[g] = OfferingOf[rows[i].group]
    /\ tx' = [tx EXCEPT ![c] = Seating("moving", rows[i].student, g, i)]
    /\ UNCHANGED <<rows, charges, run, history>>

\* end_assignment by itself: the status is that of the instance; the row is
\* written whatever it holds now.
End(c) ==
    /\ tx[c].step = "ending"
    /\ ~Locked(c, tx[c].old)
    /\ rows' = [rows EXCEPT ![tx[c].old].status = "ENDED"]
    /\ tx' = [tx EXCEPT ![c] = Idle]
    /\ UNCHANGED <<charges, run, left, history>>

\* Mutant: the ending is committed on its own.
EndOldAlone(c) ==
    /\ tx[c].step = "moving"
    /\ ~Locked(c, tx[c].old)
    /\ rows' = [rows EXCEPT ![tx[c].old].status = "TRANSFERRED"]
    /\ tx' = [tx EXCEPT ![c].step = "ended"]
    /\ UNCHANGED <<charges, run, left, history>>

\* end_assignment within transfer_student.
EndOld(c) ==
    /\ tx[c].step = "moving"
    /\ ~Locked(c, tx[c].old)
    /\ tx' = [tx EXCEPT ![c].step = "ended"]
    /\ UNCHANGED <<rows, charges, run, left, history>>

Counted(c, s, g, old) ==
    [step |-> "counted", student |-> s, group |-> g, old |-> old, warned |-> Full(c, g)]

\* group_students, POST: assign_student begins with the advisory count.
Assign(c, s, g) ==
    /\ Begins(c)
    /\ tx' = [tx EXCEPT ![c] = Counted(c, s, g, 0)]
    /\ UNCHANGED <<rows, charges, run, history>>

\* assign_student within transfer_student.
AssignNew(c) ==
    /\ tx[c].step = "ended"
    /\ tx' = [tx EXCEPT ![c] = Counted(c, tx[c].student, tx[c].group, tx[c].old)]
    /\ UNCHANGED <<rows, charges, run, left, history>>

\* The insertion, under uq_active_assignment_per_offering: it waits for who
\* holds the seat, and is refused when the seat is taken; the refusal rolls
\* a transfer's ending back.  ensure_charge_for_new_assignment then asks
\* whether the month was generated.
Insert(c) ==
    LET t == tx[c]
        taken == {i \in Active(c) : SeatOf(rows[i]) = Seat(t.student, t.group)}
    IN  /\ t.step = "counted"
        /\ ~Awaited(c, t.student, t.group)
        /\ \A i \in taken : ~Locked(c, i)
        /\ tx' = [tx EXCEPT ![c] =
               IF taken # {} THEN Idle
               ELSE [step |-> "inserted", student |-> t.student, group |-> t.group, old |-> t.old,
                     warned |-> t.warned, bills |-> charges # {}]]
        /\ UNCHANGED <<rows, charges, run, left, history>>

\* The end of the transaction; get_or_create keeps a charge that is there.
Commit(c) ==
    LET t == tx[c]
        ended == IF t.old = 0 THEN rows ELSE [rows EXCEPT ![t.old].status = "TRANSFERRED"]
        seat == Seat(t.student, t.group)
    IN  /\ t.step = "inserted"
        /\ rows' = Append(ended, [student |-> t.student, group |-> t.group, status |-> "ACTIVE",
                                  warned |-> t.warned])
        /\ charges' = IF t.bills THEN charges \cup {seat} ELSE charges
        /\ missed' = IF ~t.bills /\ t.group \in listed THEN missed \cup {seat} ELSE missed
        /\ tx' = [tx EXCEPT ![c] = Idle]
        /\ UNCHANGED <<run, left, listed>>

-----------------------------------------------------------------------------
(* generate_monthly_charges *)

Billable(groups) == {i \in DOMAIN rows : rows[i].group \in groups /\ rows[i].status = "ACTIVE"}

\* The queryset is read once, for one group or for all.
List(groups) ==
    /\ run = NoRun
    /\ left.runs > 0
    /\ left' = [left EXCEPT !.runs = @ - 1]
    /\ run' = [step |-> "charging", groups |-> groups, todo |-> {SeatOf(rows[i]) : i \in Billable(groups)}]
    /\ listed' = listed \cup groups
    /\ UNCHANGED <<rows, tx, charges, missed>>

\* create_charge_for_assignment: a transaction for each.
Charge(seat) ==
    /\ run # NoRun
    /\ seat \in run.todo
    /\ run' = [run EXCEPT !.todo = @ \ {seat}]
    /\ charges' = charges \cup {seat}
    /\ UNCHANGED <<rows, tx, left, history>>

Finish ==
    /\ run # NoRun
    /\ run.todo = {}
    /\ run' = NoRun
    /\ UNCHANGED <<rows, tx, charges, left, history>>

\* The process is killed: what is not charged is left to the next run.
Fail ==
    /\ run # NoRun
    /\ run.todo # {}
    /\ run' = NoRun
    /\ listed' = listed \ run.groups
    /\ UNCHANGED <<rows, tx, charges, left, missed>>

-----------------------------------------------------------------------------

Next ==
    \/ \E c \in Clerk, s \in Student, g \in Group : Assign(c, s, g)
    \/ \E c \in Clerk, i \in DOMAIN rows : ReadToEnd(c, i)
    \/ \E c \in Clerk, i \in DOMAIN rows, g \in Group : ReadToMove(c, i, g)
    \/ \E c \in Clerk : End(c) \/ EndOld(c) \/ AssignNew(c) \/ Insert(c) \/ Commit(c)
    \/ \E groups \in {{g} : g \in Group} \cup {Group} : List(groups)
    \/ \E seat \in Student \X Offering : Charge(seat)
    \/ Finish \/ Fail

Spec == Init /\ [][Next]_vars

-----------------------------------------------------------------------------
(* Properties *)

TypeOK ==
    /\ rows \in Seq(Assignment)
    /\ charges \subseteq Student \X Offering
    /\ left \in [requests : Nat, runs : Nat]
    /\ listed \subseteq Group /\ missed \subseteq Student \X Offering

Seated(g) == {i \in DOMAIN rows : rows[i].group = g /\ rows[i].status = "ACTIVE"}

\* "No student should be silently unbilled": when a group's month has been
\* generated, every seat of the group has its charge, whether it was there
\* before, came by a transfer or later, unless its transaction looked for a
\* charge before the first one was written.
BilledOrRaced ==
    \A g \in listed : run = NoRun \/ g \notin run.groups =>
        \A i \in Seated(g) : SeatOf(rows[i]) \in charges \cup missed

\* Capacity is advisory, but not silent: the seats beyond it that nobody was
\* warned of are at most the requests that were served together.
UnwarnedFit ==
    \A g \in Group : Capacity[g] # 0 =>
        Cardinality({i \in Seated(g) : ~rows[i].warned}) <= Capacity[g] + Cardinality(Clerk) - 1

EnrollmentHolds == TypeOK /\ BilledOrRaced /\ UnwarnedFit

\* In every step: a student has one seat for an offering at most, and loses it to an ending
\* only: a transfer that is refused, because the seat was taken meanwhile,
\* leaves the old seat as it was.
SeatsAreKept ==
    \A seat \in Student \X Offering :
        LET before == {i \in DOMAIN rows : rows[i].status = "ACTIVE" /\ SeatOf(rows[i]) = seat}
            after == {i \in DOMAIN rows' : rows'[i].status = "ACTIVE" /\ SeatOf(rows'[i]) = seat}
        IN  /\ Cardinality(after) <= 1
            /\ before # {} /\ after = {} =>
                 \E c \in Clerk : tx[c].step = "ending" /\ tx[c].old \in before
=============================================================================
