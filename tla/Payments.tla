------------------------------ MODULE Payments ------------------------------
(***************************************************************************)
(* Monthly charges and the payment ledger of one center                    *)
(* (apps/payments/services.py), driven by concurrent request handlers.     *)
(*                                                                         *)
(* The API reads a charge with get_object_or_404, outside any transaction, *)
(* and hands that instance to a service.  record_payment and               *)
(* refund_payment read the row again under SELECT ... FOR UPDATE; the      *)
(* administrative services write the instance they were given.  The        *)
(* database is PostgreSQL at READ COMMITTED: an UPDATE waits for the lock  *)
(* of its row, a plain SELECT waits for nothing and sees what is           *)
(* committed, and what a transaction wrote is visible when it commits.     *)
(***************************************************************************)
EXTENDS Integers, FiniteSets

CONSTANTS
    Charge,            \* (student, offering, month) keys: uq_charge_per_month
    Worker,            \* request handlers, each with its own connection
    Amount,            \* amounts a request may name, in the smallest coin
    Fee,               \* fees and discounts in use
    Operation,         \* which operations this deployment exercises
    AuditFix,          \* modes of the drift check: fix or --check-only
    AllowOverpayment,  \* the setting payments.allow_overpayment
    MaxRequests,       \* bound: requests ever received by the API
    Free               \* no worker holds the lock

Collecting == {"PAYMENT", "REFUND"}

Administrative == {"UPDATE", "WAIVE", "CANCEL"}

ASSUME PaymentsAssumption ==
    /\ Amount \subseteq Nat \ {0}        \* ck_payment_amount_positive
    /\ Fee \subseteq Nat
    /\ Operation \subseteq Collecting \cup Administrative \cup {"RECALCULATE"}
    /\ AuditFix \subseteq BOOLEAN
    /\ AllowOverpayment \in BOOLEAN
    /\ MaxRequests \in Nat
    /\ Free \notin Worker

VARIABLES
    charges,     \* the table payments_monthlycharge
    payments,    \* the table payments_payment
    next_value,  \* the committed value of the center's receipt sequence
    lock,        \* row lock of each charge
    seq_lock,    \* row lock of the sequence
    pc,          \* where each handler stands
    job,         \* what each handler is doing, with the instance it holds
    requests,    \* how many requests were received
    audit        \* the drift check

vars == <<charges, payments, next_value, lock, seq_lock, pc, job, requests, audit>>

-----------------------------------------------------------------------------
(* Rows *)

Sticky == {"WAIVED", "CANCELLED"}

Status == {"UNPAID", "PARTIALLY_PAID", "PAID", "OVERPAID"} \cup Sticky

MonthlyCharge == [amount_due : Nat, discount_amount : Nat, total_paid : Nat, status : Status]

NoCharge == [status |-> "NO CHARGE"]

Issued(c) == charges[c] # NoCharge

Payment ==
    [receipt_number : Nat, charge : Charge, kind : Collecting, amount : Nat, reverses : Nat]

NoPayment == 0     \* a payment's "reverses" when it reverses nothing

Balance(row) == row.amount_due - row.discount_amount - row.total_paid

\* recalculate_status on an instance: what it leaves in the status.
RecalculateStatus(row) ==
    LET net == row.amount_due - row.discount_amount
    IN  CASE row.status \in Sticky -> row.status
          [] row.status \notin Sticky /\ row.total_paid <= 0 -> "UNPAID"
          [] row.status \notin Sticky /\ row.total_paid > 0 /\ row.total_paid < net -> "PARTIALLY_PAID"
          [] row.status \notin Sticky /\ row.total_paid > 0 /\ row.total_paid = net -> "PAID"
          [] OTHER -> "OVERPAID"

Derived(row) == [row EXCEPT !.status = RecalculateStatus(row)]

\* The coins that the ledger's lines of one kind moved on a charge.
Coins(kind, c, lines) ==
    UNION {{p.receipt_number} \X (1 .. p.amount) : p \in {q \in lines : q.charge = c /\ q.kind = kind}}

\* ledger_total: the payments of the charge minus its refunds.
LedgerTotal(c) ==
    Cardinality(Coins("PAYMENT", c, payments)) - Cardinality(Coins("REFUND", c, payments))

-----------------------------------------------------------------------------
(* Handlers *)

Step == {"idle", "fetched", "locked", "numbered"}

Job ==
    [op : Collecting \cup Administrative, charge : Charge, row : MonthlyCharge,
     amount : Nat, reverses : Nat, receipt : Nat]

NoJob == [op |-> "NONE"]

AuditStep == {"idle", "compare", "fix", "status"}

Audit ==
    [step : AuditStep, rows : [Charge -> MonthlyCharge \cup {NoCharge}], todo : SUBSET Charge,
     charge : Charge \cup {Free}, expected : Int, fix : BOOLEAN]

NoAudit ==
    [step |-> "idle", rows |-> [c \in Charge |-> NoCharge], todo |-> {}, charge |-> Free,
     expected |-> 0, fix |-> FALSE]

Init ==
    /\ charges = [c \in Charge |-> NoCharge]
    /\ payments = {}
    /\ next_value = 1
    /\ lock = [c \in Charge |-> Free]
    /\ seq_lock = Free
    /\ pc = [w \in Worker |-> "idle"]
    /\ job = [w \in Worker |-> NoJob]
    /\ requests = 0
    /\ audit = NoAudit

\* The handler answers and forgets its request.
Finish(w) ==
    /\ pc' = [pc EXCEPT ![w] = "idle"]
    /\ job' = [job EXCEPT ![w] = NoJob]

\* create_charge_for_assignment: get_or_create on the unique key, with the
\* group's fee of the day.  An issued charge is returned as it is.
CreateCharge(c, fee) ==
    /\ ~Issued(c)
    /\ charges' = [charges EXCEPT ![c] =
           [amount_due |-> fee, discount_amount |-> 0, total_paid |-> 0, status |-> "UNPAID"]]
    /\ UNCHANGED <<payments, next_value, lock, seq_lock, pc, job, requests, audit>>

\* get_object_or_404(MonthlyCharge) before record_payment and the
\* administrative services.
FetchCharge(w, op, c) ==
    /\ pc[w] = "idle"
    /\ requests < MaxRequests
    /\ op \in Operation \cap ({"PAYMENT"} \cup Administrative)
    /\ Issued(c)
    /\ pc' = [pc EXCEPT ![w] = "fetched"]
    /\ job' = [job EXCEPT ![w] = [op |-> op, charge |-> c, row |-> charges[c],
                                  amount |-> 0, reverses |-> NoPayment, receipt |-> 0]]
    /\ requests' = requests + 1
    /\ UNCHANGED <<charges, payments, next_value, lock, seq_lock, audit>>

\* get_object_or_404(Payment) before refund_payment, which refuses to
\* reverse a refund.
FetchPayment(w, p) ==
    /\ pc[w] = "idle"
    /\ requests < MaxRequests
    /\ "REFUND" \in Operation
    /\ p.kind = "PAYMENT"
    /\ pc' = [pc EXCEPT ![w] = "fetched"]
    /\ job' = [job EXCEPT ![w] = [op |-> "REFUND", charge |-> p.charge, row |-> charges[p.charge],
                                  amount |-> 0, reverses |-> p.receipt_number, receipt |-> 0]]
    /\ requests' = requests + 1
    /\ UNCHANGED <<charges, payments, next_value, lock, seq_lock, audit>>

-----------------------------------------------------------------------------
(* record_payment *)

\* Mutant: nothing bounds a refund.
UnboundedRefund(row, op, amount) ==
    /\ row.status \notin Sticky
    /\ op = "PAYMENT" => AllowOverpayment \/ amount <= Balance(row)

\* The checks of record_payment, on the row as it was read.
Collectable(row, op, amount) ==
    /\ row.status \notin Sticky                                      \* ERR_CHARGE_CLOSED
    /\ op = "PAYMENT" => AllowOverpayment \/ amount <= Balance(row)  \* ERR_OVERPAYMENT
    /\ op = "REFUND" => amount <= row.total_paid                     \* ERR_REFUND_EXCEEDS_PAID

\* Mutant: the checks look at the instance the API read.
InstanceRow(w) == job[w].row

\* The row the checks look at: the one select_for_update returned.
CheckedRow(w) == charges[job[w].charge]

\* Mutant: the row is read again without FOR UPDATE.
ReadCharge(w, amount) ==
    LET c == job[w].charge
    IN  /\ pc[w] = "fetched"
        /\ job[w].op \in Collecting
        /\ Collectable(CheckedRow(w), job[w].op, amount)
        /\ pc' = [pc EXCEPT ![w] = "locked"]
        /\ job' = [job EXCEPT ![w].row = CheckedRow(w), ![w].amount = amount]
        /\ UNCHANGED <<charges, payments, next_value, lock, seq_lock, requests, audit>>

LockCharge(w, amount) ==
    LET c == job[w].charge
    IN  /\ pc[w] = "fetched"
        /\ job[w].op \in Collecting
        /\ lock[c] = Free
        /\ Collectable(CheckedRow(w), job[w].op, amount)
        /\ lock' = [lock EXCEPT ![c] = w]
        /\ pc' = [pc EXCEPT ![w] = "locked"]
        /\ job' = [job EXCEPT ![w].row = CheckedRow(w), ![w].amount = amount]
        /\ UNCHANGED <<charges, payments, next_value, seq_lock, requests, audit>>

RefusePayment(w, amount) ==
    /\ pc[w] = "fetched"
    /\ job[w].op \in Collecting
    /\ lock[job[w].charge] = Free
    /\ ~Collectable(CheckedRow(w), job[w].op, amount)
    /\ Finish(w)
    /\ UNCHANGED <<charges, payments, next_value, lock, seq_lock, requests, audit>>

\* Mutant: the sequence row is read without FOR UPDATE.
PeekReceiptNumber(w) ==
    /\ pc[w] = "locked"
    /\ pc' = [pc EXCEPT ![w] = "numbered"]
    /\ job' = [job EXCEPT ![w].receipt = next_value]
    /\ UNCHANGED <<charges, payments, next_value, lock, seq_lock, requests, audit>>

\* next_receipt_number -> next_number: the sequence row stays locked until
\* the payment's transaction ends.
TakeReceiptNumber(w) ==
    /\ pc[w] = "locked"
    /\ seq_lock = Free
    /\ seq_lock' = w
    /\ pc' = [pc EXCEPT ![w] = "numbered"]
    /\ job' = [job EXCEPT ![w].receipt = next_value]
    /\ UNCHANGED <<charges, payments, next_value, lock, requests, audit>>

\* Mutants: a refund counted with the sign of a payment; recalculate_status
\* forgotten.
Added(row, op, amount) == Derived([row EXCEPT !.total_paid = @ + amount])

Unrefreshed(row, op, amount) ==
    [row EXCEPT !.total_paid = IF op = "PAYMENT" THEN @ + amount ELSE @ - amount]

\* total_paid = F("total_paid") +- amount on the row in the table, then the
\* status of the refreshed instance.
Collected(row, op, amount) ==
    Derived([row EXCEPT !.total_paid = IF op = "PAYMENT" THEN @ + amount ELSE @ - amount])

LedgerLine(w) ==
    [receipt_number |-> job[w].receipt, charge |-> job[w].charge, kind |-> job[w].op,
     amount |-> job[w].amount, reverses |-> job[w].reverses]

\* Mutant: the sequence stays locked.
ReleaseCharge(w) ==
    /\ lock' = [c \in Charge |-> IF lock[c] = w THEN Free ELSE lock[c]]
    /\ UNCHANGED seq_lock

ReleaseLocks(w) ==
    /\ lock' = [c \in Charge |-> IF lock[c] = w THEN Free ELSE lock[c]]
    /\ seq_lock' = IF seq_lock = w THEN Free ELSE seq_lock

CommitPayment(w) ==
    /\ pc[w] = "numbered"
    /\ payments' = payments \cup {LedgerLine(w)}
    /\ charges' = [charges EXCEPT ![job[w].charge] = Collected(@, job[w].op, job[w].amount)]
    /\ next_value' = job[w].receipt + 1
    /\ ReleaseLocks(w)
    /\ Finish(w)
    /\ UNCHANGED <<requests, audit>>

\* The worker or its connection dies before the commit: PostgreSQL rolls the
\* transaction back, the reserved number included.
Abort(w) ==
    /\ pc[w] # "idle"
    /\ ReleaseLocks(w)
    /\ Finish(w)
    /\ UNCHANGED <<charges, payments, next_value, requests, audit>>

-----------------------------------------------------------------------------
(* Administrative services: they work on the instance the API read *)

\* The instance update_charge is about to save: every field it was read with,
\* and the amounts of the request.
Edited(row, due, discount) == [row EXCEPT !.amount_due = due, !.discount_amount = discount]

UpdateCharge(w, due, discount) ==
    LET c == job[w].charge
        edited == Edited(job[w].row, due, discount)
    IN  /\ pc[w] = "fetched"
        /\ job[w].op = "UPDATE"
        /\ lock[c] = Free
        /\ discount <= due
        /\ charges' = [charges EXCEPT ![c] = Derived(edited)]
        /\ Finish(w)
        /\ UNCHANGED <<payments, next_value, lock, seq_lock, requests, audit>>

RefuseUpdate(w, due, discount) ==
    /\ pc[w] = "fetched"
    /\ job[w].op = "UPDATE"
    /\ discount > due
    /\ Finish(w)
    /\ UNCHANGED <<charges, payments, next_value, lock, seq_lock, requests, audit>>

\* save(update_fields=["status", ...]) of waive_charge.
WaiveCharge(w) ==
    /\ pc[w] = "fetched"
    /\ job[w].op = "WAIVE"
    /\ lock[job[w].charge] = Free
    /\ charges' = [charges EXCEPT ![job[w].charge].status = "WAIVED"]
    /\ Finish(w)
    /\ UNCHANGED <<payments, next_value, lock, seq_lock, requests, audit>>

CancelCharge(w) ==
    /\ pc[w] = "fetched"
    /\ job[w].op = "CANCEL"
    /\ job[w].row.total_paid = 0
    /\ lock[job[w].charge] = Free
    /\ charges' = [charges EXCEPT ![job[w].charge].status = "CANCELLED"]
    /\ Finish(w)
    /\ UNCHANGED <<payments, next_value, lock, seq_lock, requests, audit>>

\* ERR_CHARGE_HAS_PAYMENTS.
RefuseCancel(w) ==
    /\ pc[w] = "fetched"
    /\ job[w].op = "CANCEL"
    /\ job[w].row.total_paid > 0
    /\ Finish(w)
    /\ UNCHANGED <<charges, payments, next_value, lock, seq_lock, requests, audit>>

-----------------------------------------------------------------------------
(* recalculate_charges: a command outside any transaction *)

\* The iterator's cursor sees the table as it was when it was opened.
AuditOpen(fix) ==
    /\ "RECALCULATE" \in Operation
    /\ audit.step = "idle"
    /\ audit' = [step |-> "compare", rows |-> charges, todo |-> {c \in Charge : Issued(c)},
                 charge |-> Free, expected |-> 0, fix |-> fix]
    /\ UNCHANGED <<charges, payments, next_value, lock, seq_lock, pc, job, requests>>

\* Mutant: only a stored total above the ledger counts as drift.
CompareExcess(c) ==
    /\ audit.step = "compare"
    /\ c \in audit.todo
    /\ LET expected == LedgerTotal(c)
           repair == audit.fix /\ expected < audit.rows[c].total_paid
       IN  audit' = [audit EXCEPT !.step = IF repair THEN "fix" ELSE "status", !.charge = c,
                                  !.expected = IF repair THEN expected ELSE 0]
    /\ UNCHANGED <<charges, payments, next_value, lock, seq_lock, pc, job, requests>>

\* expected = ledger_total(charge), compared with the instance.
AuditCompare(c) ==
    /\ audit.step = "compare"
    /\ c \in audit.todo
    /\ LET expected == LedgerTotal(c)
           repair == audit.fix /\ expected # audit.rows[c].total_paid
       IN  audit' = [audit EXCEPT !.step = IF repair THEN "fix" ELSE "status", !.charge = c,
                                  !.expected = IF repair THEN expected ELSE 0]
    /\ UNCHANGED <<charges, payments, next_value, lock, seq_lock, pc, job, requests>>

\* charge.save(update_fields=["total_paid", ...]).
AuditFixTotal ==
    LET c == audit.charge
    IN  /\ audit.step = "fix"
        /\ audit.expected >= 0
        /\ lock[c] = Free
        /\ charges' = [charges EXCEPT ![c].total_paid = audit.expected]
        /\ audit' = [audit EXCEPT !.step = "status", !.rows[c].total_paid = audit.expected,
                                  !.expected = 0]
        /\ UNCHANGED <<payments, next_value, lock, seq_lock, pc, job, requests>>

\* ck_charge_amounts_non_negative refuses a negative total: the IntegrityError
\* ends the command, and the charges it had not reached are not looked at.
AuditCrash ==
    /\ audit.step = "fix"
    /\ audit.expected < 0
    /\ audit' = NoAudit
    /\ UNCHANGED <<charges, payments, next_value, lock, seq_lock, pc, job, requests>>

\* recalculate_status(charge): saves the status when the instance's changes.
AuditStatus ==
    LET c == audit.charge
        status == RecalculateStatus(audit.rows[c])
    IN  /\ audit.step = "status"
        /\ IF status = audit.rows[c].status
           THEN UNCHANGED charges
           ELSE /\ lock[c] = Free
                /\ charges' = [charges EXCEPT ![c].status = status]
        /\ audit' = [audit EXCEPT !.step = "compare", !.charge = Free, !.todo = @ \ {c},
                                  !.rows[c] = NoCharge]
        /\ UNCHANGED <<payments, next_value, lock, seq_lock, pc, job, requests>>

AuditClose ==
    /\ audit.step = "compare"
    /\ audit.todo = {}
    /\ audit' = NoAudit
    /\ UNCHANGED <<charges, payments, next_value, lock, seq_lock, pc, job, requests>>

AuditNext ==
    \/ \E c \in Charge : AuditCompare(c)
    \/ AuditFixTotal
    \/ AuditCrash
    \/ AuditStatus
    \/ AuditClose

-----------------------------------------------------------------------------
\* A step of the service the handler called, once the API has read its rows.
Serve(w) ==
    \/ \E amount \in Amount : LockCharge(w, amount) \/ RefusePayment(w, amount)
    \/ TakeReceiptNumber(w)
    \/ CommitPayment(w)
    \/ \E due, discount \in Fee : UpdateCharge(w, due, discount) \/ RefuseUpdate(w, due, discount)
    \/ WaiveCharge(w)
    \/ CancelCharge(w)
    \/ RefuseCancel(w)

Next ==
    \/ \E c \in Charge, fee \in Fee : CreateCharge(c, fee)
    \/ \E w \in Worker :
          \/ \E op \in Operation, c \in Charge : FetchCharge(w, op, c)
          \/ \E p \in payments : FetchPayment(w, p)
          \/ Serve(w)
          \/ Abort(w)
    \/ \E fix \in AuditFix : AuditOpen(fix)
    \/ AuditNext

Spec == Init /\ [][Next]_vars

\* Handlers that were started go on, and the drift check is run again and
\* again in each of its modes (docs/04-payments.md:79) and goes on.
Fairness ==
    /\ \A w \in Worker : WF_vars(Serve(w))
    /\ \A fix \in AuditFix : SF_vars(AuditOpen(fix))
    /\ WF_vars(AuditNext)

FairSpec == Spec /\ Fairness

-----------------------------------------------------------------------------
(* Properties *)

\* Every table, lock and handler holds what its type says; in particular the
\* CHECK constraints on the amounts of a charge never have to fire.
TypeOK ==
    /\ charges \in [Charge -> MonthlyCharge \cup {NoCharge}]
    /\ payments \subseteq Payment
    /\ next_value \in Nat
    /\ lock \in [Charge -> Worker \cup {Free}]
    /\ seq_lock \in Worker \cup {Free}
    /\ pc \in [Worker -> Step]
    /\ job \in [Worker -> Job \cup {NoJob}]
    /\ requests \in Nat
    /\ audit \in Audit

\* The receipts of a center are exactly 1 .. n, each on one ledger line: a
\* number is neither issued twice by concurrent cashiers nor lost by a
\* payment that rolled back (next_number under its row lock, sequences.py).
ReceiptsGapless ==
    /\ {p.receipt_number : p \in payments} = 1 .. (next_value - 1)
    /\ \A p, q \in payments : p.receipt_number = q.receipt_number => p = q

\* From the lock to the commit of record_payment, the row its checks looked
\* at is the row in the table, whatever the administrative services and the
\* drift check do meanwhile (docs/04-payments.md:52).
CheckedRowIsCurrent ==
    \A w \in Worker : pc[w] \in {"locked", "numbered"} => charges[job[w].charge] = job[w].row

\* What a handler may rely on at each step: the charge of its request exists,
\* and from lock to commit it owns the row it checked, then the sequence.
HandlerOK(w) ==
    /\ pc[w] # "idle" => job[w] \in Job /\ Issued(job[w].charge)
    /\ pc[w] \in {"locked", "numbered"} =>
          /\ lock[job[w].charge] = w
          /\ charges[job[w].charge] = job[w].row
          /\ job[w].op \in Collecting
          /\ job[w].amount \in Amount
          /\ Collectable(job[w].row, job[w].op, job[w].amount)
    /\ pc[w] = "numbered" => seq_lock = w /\ job[w].receipt = next_value

\* What the drift check may rely on: the rows it still has to look at exist.
AuditOK ==
    /\ \A c \in audit.todo : Issued(c) /\ audit.rows[c] \in MonthlyCharge
    /\ audit.step \in {"fix", "status"} => audit.charge \in audit.todo

\* The inductive invariant of all operations together.
PaymentsInv ==
    /\ TypeOK
    /\ \A w \in Worker : HandlerOK(w)
    /\ AuditOK
    /\ \A p \in payments : Issued(p.charge)
    /\ \A kind \in Collecting, c \in Charge : IsFiniteSet(Coins(kind, c, payments))
    /\ next_value >= 1
    /\ ReceiptsGapless

\* No ledger line is added to a charge that is waived or cancelled at that
\* moment (ERR_CHARGE_CLOSED), even when it was closed after the cashier
\* opened it.
ClosedChargeTakesNoMoney ==
    [][\A p \in payments' \ payments : charges[p.charge].status \notin Sticky]_vars

\* The stored total_paid is the ledger's total, payments minus refunds
\* (docs/04-payments.md:90).
LedgerBalanced ==
    \A c \in Charge : Issued(c) => charges[c].total_paid = LedgerTotal(c)

\* The stored status of a charge that was not closed by hand is the one its
\* stored amounts imply (recalculate_status is "its only author").
StatusDerived ==
    \A c \in Charge : Issued(c) => charges[c].status = RecalculateStatus(charges[c])

\* With payments.allow_overpayment off and the amounts left alone, what the
\* ledger collected on a charge is never more than its net fee: two cashiers
\* cannot both pass the overpayment check (services.py:6).
NeverOverpaid ==
    ~AllowOverpayment =>
        \A c \in Charge : Issued(c) =>
            LedgerTotal(c) <= charges[c].amount_due - charges[c].discount_amount

\* Every request that reached its service is answered: no handler waits
\* forever for a charge's row or for the receipt sequence.
EveryRequestEnds ==
    \A w \in Worker : pc[w] # "idle" ~> pc[w] = "idle"

\* Once requests stop, the repeated drift check leaves every charge agreeing
\* with its ledger, in total and in status, whatever the lost updates before,
\* unless one of them let the same money be refunded twice: a negative total
\* stops the command (ck_charge_amounts_non_negative).
DriftHeals ==
    [](\A c \in Charge : LedgerTotal(c) >= 0) => <>[](LedgerBalanced /\ StatusDerived)

\* A charge as an account: what the ledger holds against its net fee.
AccountOf(c) ==
    IF Issued(c)
    THEN [net |-> charges[c].amount_due - charges[c].discount_amount, held |-> LedgerTotal(c),
          closed |-> charges[c].status \in Sticky]
    ELSE [net |-> "NO ACCOUNT"]

Accounts == INSTANCE ChargeAccounts
    WITH account <- [c \in Charge |-> AccountOf(c)], receipts <- Cardinality(payments)

\* Collecting, refunding, waiving and cancelling by concurrent handlers is
\* collecting on accounts one movement at a time, although record_payment
\* decides on the cached total_paid and not on the ledger.
CollectionImplementsAccounts == Accounts!Spec
=============================================================================
