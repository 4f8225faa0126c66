------------------------------ MODULE Reports ------------------------------
(***************************************************************************)
(* The reports and the two dashboards: apps/reports/queries.py over the    *)
(* rows that attendance, lessons and payments leave behind.  Twelve        *)
(* queries count the same rows with filters of their own, and a manager    *)
(* compares their totals; the rows come about by every operation the       *)
(* center has, in any order.                                               *)
(*                                                                         *)
(* Operations are whole transactions here: how they interleave is the      *)
(* subject of Attendance and of Payments.                                  *)
(***************************************************************************)
EXTENDS Integers, Sequences, FiniteSets, FiniteSetsExt

CONSTANTS
    Lesson, Student,
    GroupOf,        \* of a lesson
    SubjectOf,      \* of a group
    DayOf,          \* of a lesson; the first day of the month is 1
    HomeOf,         \* the group a student is assigned to
    Charge, ChargeOf,   \* [student, group, month] of a charge
    Cashier, Method,
    Due,            \* what a charge may ask for
    Today,          \* in month 1
    Recent,         \* days a group's dashboard looks back
    NoFilter,       \* a filter that is not set
    Budgets         \* bounds: attendance and money operations of a behaviour

\* The groups there are: that of a charge is one of them.
Group == {GroupOf[l] : l \in Lesson} \cup {HomeOf[s] : s \in Student}

ReportsAssumption ==
    /\ IsFiniteSet(Lesson) /\ IsFiniteSet(Student) /\ IsFiniteSet(Charge)
    /\ DayOf \in [Lesson -> Int] /\ DOMAIN GroupOf = Lesson /\ DOMAIN HomeOf = Student
    /\ \A c \in Charge : ChargeOf[c].group \in Group
    /\ Due \subseteq Nat /\ Today \in Nat \ {0} /\ Recent \in Nat /\ NoFilter \notin Int
    /\ Budgets \subseteq [attendance : Nat, money : Nat]

VARIABLES
    lessons,    \* the status of each lesson
    rows,       \* Attendance, by lesson and student
    charges,    \* MonthlyCharge
    ledger,     \* Payment, in order
    left,       \* operations that may still happen
    adjusted    \* history: the rows whose status was chosen by hand

vars == <<lessons, rows, charges, ledger, left, adjusted>>

Row == [state : {"ABSENT", "CHECKED_IN", "CHECKED_OUT", "CANCELLED"},
        status : {"PRESENT", "LATE", "ABSENT", "PARTIAL", "CANCELLED"},
        type : {"NORMAL", "ALTERNATIVE_GROUP", "MANUAL"}]

\* Statuses and types a correction may choose.
Corrections == [status : {"PRESENT", "LATE", "ABSENT"}, type : {"NORMAL", "MANUAL"}]

Sticky == {"WAIVED", "CANCELLED"}

Net(charge) == charge.due - charge.discount

Balance(charge) == Net(charge) - charge.paid

Derived(charge) ==
    [charge EXCEPT !.status =
        CASE charge.status \in Sticky -> charge.status
          [] charge.paid = 0 -> "UNPAID"
          [] charge.paid > 0 /\ charge.paid < Net(charge) -> "PARTIALLY_PAID"
          [] charge.paid > 0 /\ charge.paid = Net(charge) -> "PAID"
          [] OTHER -> "OVERPAID"]

Init ==
    /\ lessons = [l \in Lesson |-> "SCHEDULED"]
    /\ rows = << >>
    /\ charges \in [Charge -> {[due |-> d, discount |-> 0, paid |-> 0, status |-> "UNPAID"] : d \in Due}]
    /\ ledger = << >>
    /\ left \in Budgets
    /\ adjusted = {}

-----------------------------------------------------------------------------
(* Attendance and lessons *)

Attends ==
    /\ left.attendance > 0
    /\ left' = [left EXCEPT !.attendance = @ - 1]
    /\ UNCHANGED <<charges, ledger>>

Put(k, row) == rows' = [key \in DOMAIN rows \cup {k} |-> IF key = k THEN row ELSE rows[key]]

Open(l) ==
    /\ Attends
    /\ lessons[l] = "SCHEDULED"
    /\ lessons' = [lessons EXCEPT ![l] = "OPEN"]
    /\ UNCHANGED <<rows, adjusted>>

\* A card at the door: inside, or late; a seat of another group is an
\* alternative one.  A scan that finds the student inside lets them out,
\* after a short stay as partly present.
Scan(l, s) ==
    LET k == <<l, s>> IN
    /\ Attends
    /\ lessons[l] = "OPEN"
    /\ \/ /\ k \in DOMAIN rows => rows[k].state = "ABSENT"
          /\ \E status \in {"PRESENT", "LATE"} :
                Put(k, [state |-> "CHECKED_IN", status |-> status,
                        type |-> IF HomeOf[s] = GroupOf[l] THEN "NORMAL" ELSE "ALTERNATIVE_GROUP"])
       \/ /\ k \in DOMAIN rows
          /\ rows[k].state = "CHECKED_IN"
          /\ \E status \in {rows[k].status, "PARTIAL"} :
                Put(k, [rows[k] EXCEPT !.state = "CHECKED_OUT", !.status = status])
    /\ adjusted' = adjusted \ (IF k \in DOMAIN rows /\ rows[k].state = "ABSENT" THEN {k} ELSE {})
    /\ UNCHANGED lessons

\* manual_create looks at no lesson's status.
ManualCreate(l, s) ==
    /\ Attends
    /\ <<l, s>> \notin DOMAIN rows
    /\ \E status \in {"PRESENT", "LATE"} :
          Put(<<l, s>>, [state |-> "CHECKED_IN", status |-> status, type |-> "MANUAL"])
    /\ UNCHANGED <<lessons, adjusted>>

\* manual_adjust sets the status it is given next to whatever the state is,
\* and takes an absent student in when it is given a time.
ManualAdjust(l, s) ==
    LET k == <<l, s>> IN
    /\ Attends
    /\ k \in DOMAIN rows
    /\ \E c \in Corrections, timed \in BOOLEAN :
          /\ Put(k, [state |-> IF timed /\ rows[k].state = "ABSENT" THEN "CHECKED_IN" ELSE rows[k].state,
                     status |-> c.status, type |-> c.type])
          /\ adjusted' = adjusted \cup {k}
    /\ UNCHANGED lessons

CancelAttendance(l, s) ==
    /\ Attends
    /\ <<l, s>> \in DOMAIN rows
    /\ Put(<<l, s>>, [rows[<<l, s>>] EXCEPT !.state = "CANCELLED", !.status = "CANCELLED"])
    /\ adjusted' = adjusted \ {<<l, s>>}
    /\ UNCHANGED lessons

\* complete_lesson with its sweep: those inside leave, some of them after a
\* short stay, and who is missing is absent.
Complete(l) ==
    LET inside == {k \in DOMAIN rows : k[1] = l /\ rows[k].state = "CHECKED_IN"}
        missing == {<<l, s>> : s \in {s \in Student : HomeOf[s] = GroupOf[l]}} \ DOMAIN rows IN
    /\ Attends
    /\ lessons[l] = "OPEN"
    /\ lessons' = [lessons EXCEPT ![l] = "COMPLETED"]
    /\ \E short \in SUBSET inside :
          /\ rows' = [k \in DOMAIN rows \cup missing |->
                CASE k \in missing -> [state |-> "ABSENT", status |-> "ABSENT", type |-> "NORMAL"]
                  [] k \in short -> [rows[k] EXCEPT !.state = "CHECKED_OUT", !.status = "PARTIAL"]
                  [] k \in inside \ short -> [rows[k] EXCEPT !.state = "CHECKED_OUT"]
                  [] OTHER -> rows[k]]
          /\ adjusted' = adjusted \ short

CancelLesson(l) ==
    /\ Attends
    /\ lessons[l] \notin {"COMPLETED", "CANCELLED"}
    /\ lessons' = [lessons EXCEPT ![l] = "CANCELLED"]
    /\ UNCHANGED <<rows, adjusted>>

-----------------------------------------------------------------------------
(* Money *)

Pays ==
    /\ left.money > 0
    /\ left' = [left EXCEPT !.money = @ - 1]
    /\ UNCHANGED <<lessons, rows, adjusted>>

Posted(c, kind, amount, cashier, method, day) ==
    /\ ledger' = Append(ledger, [charge |-> c, kind |-> kind, amount |-> amount,
                                 cashier |-> cashier, method |-> method, day |-> day])
    /\ charges' = [charges EXCEPT ![c] = Derived([@ EXCEPT !.paid =
                      charges[c].paid + (IF kind = "PAYMENT" THEN amount ELSE -amount)])]

\* With payments.allow_overpayment; paid_at is the caller's or now.
RecordPayment(c) ==
    /\ Pays
    /\ charges[c].status \notin Sticky
    /\ \E amount \in Due \ {0}, cashier \in Cashier, method \in Method, day \in {Today - 1, Today} :
          Posted(c, "PAYMENT", amount, cashier, method, day)

\* Any amount up to what was paid on the charge, of this payment or another.
\* The refund has its payment's method, its own cashier and today's date.
RefundPayment(i) ==
    LET payment == ledger[i] IN
    /\ Pays
    /\ payment.kind = "PAYMENT"
    /\ charges[payment.charge].status \notin Sticky
    /\ \E amount \in 1 .. charges[payment.charge].paid, cashier \in Cashier :
          Posted(payment.charge, "REFUND", amount, cashier, payment.method, Today)

UpdateCharge(c) ==
    /\ Pays
    /\ \E due \in Due : \E discount \in 0 .. due :
          charges' = [charges EXCEPT ![c] = Derived([@ EXCEPT !.due = due, !.discount = discount])]
    /\ UNCHANGED ledger

Waive(c) ==
    /\ Pays
    /\ charges' = [charges EXCEPT ![c].status = "WAIVED"]
    /\ UNCHANGED ledger

CancelCharge(c) ==
    /\ Pays
    /\ charges[c].paid = 0
    /\ charges' = [charges EXCEPT ![c].status = "CANCELLED"]
    /\ UNCHANGED ledger

Next ==
    \/ \E l \in Lesson : Open(l) \/ Complete(l) \/ CancelLesson(l)
    \/ \E l \in Lesson, s \in Student :
          Scan(l, s) \/ ManualCreate(l, s) \/ ManualAdjust(l, s) \/ CancelAttendance(l, s)
    \/ \E c \in Charge : RecordPayment(c) \/ UpdateCharge(c) \/ Waive(c) \/ CancelCharge(c)
    \/ \E i \in DOMAIN ledger : RefundPayment(i)

Spec == Init /\ [][Next]_vars

-----------------------------------------------------------------------------
(* The attendance queries *)

IsPresent(row) == row.state \in {"CHECKED_IN", "CHECKED_OUT"} /\ row.status \in {"PRESENT", "PARTIAL"}

IsLate(row) == row.status = "LATE"

IsAbsent(row) == row.state = "ABSENT"

IsAlternative(row) == row.type # "NORMAL" /\ row.state # "ABSENT"

Count(S, P(_)) == Cardinality({k \in S : P(rows[k])})

Aggregates(S) ==
    [lessons |-> Cardinality({k[1] : k \in S}), present |-> Count(S, IsPresent),
     late |-> Count(S, IsLate), absent |-> Count(S, IsAbsent), alternative |-> Count(S, IsAlternative)]

\* The default period is the month up to today.
InRange(day, f) ==
    /\ day >= IF f.from = NoFilter THEN 1 ELSE f.from
    /\ day <= IF f.to = NoFilter THEN Today ELSE f.to

AttendanceQs(f) ==
    {k \in DOMAIN rows : /\ InRange(DayOf[k[1]], f)
                         /\ rows[k].state # "CANCELLED"
                         /\ f.group \in {NoFilter, GroupOf[k[1]]}}

LessonQs(f) ==
    {l \in Lesson : /\ InRange(DayOf[l], f)
                    /\ lessons[l] # "CANCELLED"
                    /\ f.group \in {NoFilter, GroupOf[l]}}

\* One row of a report for each value the key takes.
GroupedBy(key, S) == [v \in {key[k] : k \in S} |-> Aggregates({k \in S : key[k] = v})]

AttendanceDaily(f) == GroupedBy([k \in DOMAIN rows |-> DayOf[k[1]]], AttendanceQs(f))

AttendanceByLesson(f) == [l \in LessonQs(f) |-> Aggregates({k \in DOMAIN rows : k[1] = l})]

AttendanceByStudent(f) == GroupedBy([k \in DOMAIN rows |-> k[2]], AttendanceQs(f))

AttendanceByGroup(f) == GroupedBy([k \in DOMAIN rows |-> GroupOf[k[1]]], AttendanceQs(f))

AttendanceBySubject(f) == GroupedBy([k \in DOMAIN rows |-> SubjectOf[GroupOf[k[1]]]], AttendanceQs(f))

LateStudents(f) == {k \in AttendanceQs(f) : IsLate(rows[k])}

AbsentStudents(f) == {k \in AttendanceQs(f) : IsAbsent(rows[k])}

\* Each row with how often its student sat elsewhere; the days are of a month.
AlternativeGroups(f) ==
    LET listed == {k \in AttendanceQs(f) : IsAlternative(rows[k])} IN
    [k \in listed |-> Cardinality({o \in listed : o[2] = k[2]})]

\* The dashboards leave no state out; a group's has no last day.
DashboardAttendance == Aggregates({k \in DOMAIN rows : DayOf[k[1]] = Today})

GroupAttendance(g) == Aggregates({k \in DOMAIN rows : GroupOf[k[1]] = g /\ DayOf[k[1]] >= Today - Recent})

-----------------------------------------------------------------------------
(* The finance queries *)

PaymentQs(f) == {i \in DOMAIN ledger : InRange(ledger[i].day, f)}

NetOf(S) ==
    MapThenSumSet(LAMBDA i : ledger[i].amount, {i \in S : ledger[i].kind = "PAYMENT"})
      - MapThenSumSet(LAMBDA i : ledger[i].amount, {i \in S : ledger[i].kind = "REFUND"})

CollectionDaily(f) ==
    [d \in {ledger[i].day : i \in PaymentQs(f)} |-> NetOf({i \in PaymentQs(f) : ledger[i].day = d})]

CashierDaybook(f) ==
    LET till(i) == <<ledger[i].cashier, ledger[i].method>> IN
    [t \in {till(i) : i \in PaymentQs(f)} |-> NetOf({i \in PaymentQs(f) : till(i) = t})]

StudentPayments(f) ==
    [i \in PaymentQs(f) |-> IF ledger[i].kind = "REFUND" THEN -ledger[i].amount ELSE ledger[i].amount]

Billable == {c \in Charge : charges[c].status \notin Sticky}

ChargeQs(f) == {c \in Billable : /\ f.month \in {NoFilter, ChargeOf[c].month}
                                 /\ f.group \in {NoFilter, ChargeOf[c].group}}

Outstanding(f) == {c \in ChargeQs(f) : Balance(charges[c]) > 0}

Money(S) ==
    [expected |-> MapThenSumSet(LAMBDA c : Net(charges[c]), S),
     collected |-> MapThenSumSet(LAMBDA c : charges[c].paid, S),
     outstanding |-> MapThenSumSet(LAMBDA c : Balance(charges[c]), S)]

FinanceByGroup(f) ==
    [g \in {ChargeOf[c].group : c \in ChargeQs(f)} |-> Money({c \in ChargeQs(f) : ChargeOf[c].group = g})]

FinanceBySubject(f) ==
    LET subject(c) == SubjectOf[ChargeOf[c].group] IN
    [b \in {subject(c) : c \in ChargeQs(f)} |-> Money({c \in ChargeQs(f) : subject(c) = b})]

\* Today's till, and the month's charges with how many are in each status.
DashboardMoney ==
    LET month == {c \in Billable : ChargeOf[c].month = 1}
        of(status) == Cardinality({c \in month : charges[c].status = status}) IN
    [today |-> NetOf({i \in DOMAIN ledger : ledger[i].day = Today}), month |-> Money(month),
     paid |-> of("PAID"), partial |-> of("PARTIALLY_PAID"), unpaid |-> of("UNPAID")]

GroupMoney(g) == Money({c \in Billable : ChargeOf[c].group = g /\ ChargeOf[c].month = 1})

-----------------------------------------------------------------------------
(* Properties *)

\* Every table is well typed.
TypeOK ==
    /\ lessons \in [Lesson -> {"SCHEDULED", "OPEN", "COMPLETED", "CANCELLED"}]
    /\ DOMAIN rows \subseteq Lesson \X Student /\ \A k \in DOMAIN rows : rows[k] \in Row
    /\ \A c \in Charge : charges[c].paid >= 0 /\ charges[c].discount <= charges[c].due
    /\ adjusted \subseteq DOMAIN rows

Period == [from : {NoFilter, Today}, to : {NoFilter, Today - 1}, group : Group \cup {NoFilter}]

Column(report, column) == MapThenSumSet(LAMBDA v : report[v][column], DOMAIN report)

\* The totals of an attendance report, all columns at once.
Added(a, b) ==
    [present |-> a.present + b.present, late |-> a.late + b.late,
     absent |-> a.absent + b.absent, alternative |-> a.alternative + b.alternative]

Nothing == [present |-> 0, late |-> 0, absent |-> 0, alternative |-> 0]

Totals(report) ==
    MapThenFoldSet(Added, Nothing, LAMBDA v : report[v], LAMBDA S : CHOOSE v \in S : TRUE, DOMAIN report)

\* What by_lesson counts of the rows of lessons it lists and daily does not:
\* the cancelled ones; and what daily counts of lessons it does not list.
Cancelled(f, P(_)) == Count({k \in DOMAIN rows : k[1] \in LessonQs(f) /\ rows[k].state = "CANCELLED"}, P)
Called(f, P(_)) == Count({k \in AttendanceQs(f) : lessons[k[1]] = "CANCELLED"}, P)

\* A row nobody corrected by hand is present, late or absent, and one of the
\* three only, whatever brought it about, so that the columns of a report
\* add up to its rows.
EveryRowCountsOnce ==
    \A k \in DOMAIN rows \ adjusted :
        LET row == rows[k] IN
        row.state # "CANCELLED" =>
            Cardinality({i \in 1..3 : <<IsPresent(row), IsLate(row), IsAbsent(row)>>[i]}) = 1

\* The totals of the attendance reports agree with each other for every
\* filter: daily, by student, by group and by subject count the same rows,
\* the lists of late, absent and alternative students are as long as their
\* columns say, and by lesson differs by the rows of cancelled lessons and
\* the cancelled rows, which it alone treats otherwise.
AttendanceReportsAgree ==
    \A f \in Period :
        LET daily == Totals(AttendanceDaily(f))
            lesson == Totals(AttendanceByLesson(f)) IN
        /\ Totals(AttendanceByStudent(f)) = daily
        /\ Totals(AttendanceByGroup(f)) = daily
        /\ Totals(AttendanceBySubject(f)) = daily
        /\ Cardinality(LateStudents(f)) = daily.late
        /\ Cardinality(AbsentStudents(f)) = daily.absent
        /\ Cardinality(DOMAIN AlternativeGroups(f)) = daily.alternative
        /\ lesson.present = daily.present - Called(f, IsPresent)
        /\ lesson.absent = daily.absent - Called(f, IsAbsent)
        /\ lesson.late = daily.late - Called(f, IsLate) + Cancelled(f, IsLate)
        /\ lesson.alternative
              = daily.alternative - Called(f, IsAlternative) + Cancelled(f, IsAlternative)

\* The dashboard of today is the daily report's row of today, except that it
\* counts the cancelled rows that are still called alternative or were
\* called late by hand; a group's is its row of a group report that begins
\* when it does and ends with the last lesson.
DashboardsAgree ==
    LET f == [from |-> NoFilter, to |-> NoFilter, group |-> NoFilter]
        today == DashboardAttendance
        daily(column) == IF Today \in DOMAIN AttendanceDaily(f) THEN AttendanceDaily(f)[Today][column] ELSE 0
        period(end) == [f EXCEPT !.from = Today - Recent, !.to = end]
        of(p, g, column) == IF g \in DOMAIN AttendanceByGroup(p) THEN AttendanceByGroup(p)[g][column] ELSE 0
        void(S, P(_)) == Count({k \in S : rows[k].state = "CANCELLED"}, P) IN
    /\ today.present = daily("present") /\ today.absent = daily("absent")
    /\ LET S == {k \in DOMAIN rows : DayOf[k[1]] = Today} IN
          /\ today.late = daily("late") + void(S \cap adjusted, IsLate)
          /\ today.alternative = daily("alternative") + void(S, IsAlternative)
    /\ \A g \in Group, end \in {DayOf[l] : l \in Lesson} :
          (\A l \in Lesson : DayOf[l] <= end) =>
              /\ GroupAttendance(g).present = of(period(end), g, "present")
              /\ GroupAttendance(g).absent = of(period(end), g, "absent")

\* Money is the same on every screen: the till by day, by cashier and by
\* payment; what was expected is collected or outstanding, by group, by
\* subject and on the dashboards; the list of debts exceeds the month's
\* outstanding by the credits of overpaid charges; and the ledger is what the
\* finance reports collected plus what was paid on waived charges, which they
\* drop.
MoneyReportsAgree ==
    LET f == [from |-> NoFilter, to |-> NoFilter, group |-> NoFilter, month |-> 1]
        every == [f EXCEPT !.month = NoFilter]
        table(report, column) == Column(report, column)
        total(report) == MapThenSumSet(LAMBDA k : report[k], DOMAIN report)
        owed(S) == MapThenSumSet(LAMBDA c : Balance(charges[c]), S)
        overpaid == {c \in ChargeQs(f) : Balance(charges[c]) < 0} IN
    /\ \A p \in Period : p.group = NoFilter =>
          /\ total(CollectionDaily(p)) = total(CashierDaybook(p))
          /\ total(CollectionDaily(p)) = total(StudentPayments(p))
    /\ DashboardMoney.today = IF Today \in DOMAIN CollectionDaily(f) THEN CollectionDaily(f)[Today] ELSE 0
    /\ \A column \in {"expected", "collected", "outstanding"} :
          /\ table(FinanceByGroup(f), column) = DashboardMoney.month[column]
          /\ table(FinanceBySubject(f), column) = DashboardMoney.month[column]
          /\ table(FinanceByGroup(f), column) = MapThenSumSet(LAMBDA g : GroupMoney(g)[column], Group)
    /\ DashboardMoney.month.expected = DashboardMoney.month.collected + DashboardMoney.month.outstanding
    /\ owed(Outstanding(f)) = DashboardMoney.month.outstanding - owed(overpaid)
    /\ NetOf(DOMAIN ledger) = table(FinanceByGroup(every), "collected")
                                + Money(Charge \ Billable).collected

ReportsAgree ==
    TypeOK /\ EveryRowCountsOnce /\ AttendanceReportsAgree /\ DashboardsAgree /\ MoneyReportsAgree
=============================================================================
