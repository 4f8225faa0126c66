--------------------------- MODULE PaymentsProofs ---------------------------
(***************************************************************************)
(* Theorems about Payments, for any number of charges, handlers, amounts   *)
(* and requests.                                                           *)
(***************************************************************************)
EXTENDS Payments, FiniteSetTheorems, TLAPS

-----------------------------------------------------------------------------
(* Rows *)

\* The null row is no charge, and the idle job no request.
LEMMA NullRows == NoCharge \notin MonthlyCharge /\ NoJob \notin Job
<1>1. NoCharge \notin MonthlyCharge
  <2>1. NoCharge.status \notin Status
    BY DEF NoCharge, Status, Sticky
  <2> QED
    BY <2>1 DEF MonthlyCharge
<1>2. NoJob \notin Job
  <2>1. NoJob.op \notin Collecting \cup Administrative
    BY DEF NoJob, Collecting, Administrative
  <2> QED
    BY <2>1 DEF Job
<1> QED
  BY <1>1, <1>2

\* recalculate_status returns a status, and leaves an administrative one alone.
LEMMA RecalculateStatusType ==
    ASSUME NEW row \in MonthlyCharge
    PROVE  /\ RecalculateStatus(row) \in Status
           /\ row.status \in Sticky => RecalculateStatus(row) = row.status
           /\ Derived(row) \in MonthlyCharge
           /\ Derived(row) = [row EXCEPT !.status = RecalculateStatus(row)]
<1>1. RecalculateStatus(row) \in Status
  BY DEF RecalculateStatus, Status, Sticky, MonthlyCharge
<1>2. row.status \in Sticky => RecalculateStatus(row) = row.status
  BY DEF RecalculateStatus, Sticky, MonthlyCharge
<1> QED
  BY <1>1, <1>2 DEF Derived, MonthlyCharge

\* The row a payment commits on a row that passed the checks.
LEMMA CollectedRow ==
    ASSUME NEW row \in MonthlyCharge, NEW op \in Collecting, NEW amount \in Nat,
           Collectable(row, op, amount)
    PROVE  /\ Collected(row, op, amount) \in MonthlyCharge
           /\ Collected(row, op, amount).amount_due = row.amount_due
           /\ Collected(row, op, amount).discount_amount = row.discount_amount
           /\ Collected(row, op, amount).total_paid =
                 IF op = "PAYMENT" THEN row.total_paid + amount ELSE row.total_paid - amount
<1> DEFINE paid == IF op = "PAYMENT" THEN row.total_paid + amount ELSE row.total_paid - amount
           moved == [row EXCEPT !.total_paid = paid]
<1>1. paid \in Nat
  BY DEF Collecting, Collectable, MonthlyCharge
<1>2. moved \in MonthlyCharge
  BY <1>1 DEF MonthlyCharge
<1>3. Collected(row, op, amount) = Derived(moved)
  BY DEF Collected
<1>4. /\ Derived(moved) \in MonthlyCharge
      /\ Derived(moved) = [moved EXCEPT !.status = RecalculateStatus(moved)]
  BY <1>2, RecalculateStatusType
<1> HIDE DEF paid
<1>5. /\ moved.amount_due = row.amount_due
      /\ moved.discount_amount = row.discount_amount
      /\ moved.total_paid = paid
  BY DEF MonthlyCharge
<1>6. /\ Derived(moved).amount_due = moved.amount_due
      /\ Derived(moved).discount_amount = moved.discount_amount
      /\ Derived(moved).total_paid = moved.total_paid
  BY <1>2, <1>4 DEF MonthlyCharge
<1> QED
  BY <1>3, <1>4, <1>5, <1>6 DEF paid

-----------------------------------------------------------------------------
(* The ledger *)

\* A new line brings its own coins, to its own charge.
LEMMA CoinsOfNewLine ==
    ASSUME NEW kind, NEW c, NEW lines, NEW line
    PROVE  /\ line.charge = c /\ line.kind = kind =>
                 Coins(kind, c, lines \cup {line}) =
                    Coins(kind, c, lines) \cup ({line.receipt_number} \X (1 .. line.amount))
           /\ ~(line.charge = c /\ line.kind = kind) =>
                 Coins(kind, c, lines \cup {line}) = Coins(kind, c, lines)
<1> DEFINE Of(p) == {p.receipt_number} \X (1 .. p.amount)
           Picked(ls) == {q \in ls : q.charge = c /\ q.kind = kind}
<1>1. \A x, ls : x \in Coins(kind, c, ls) <=> \E p \in Picked(ls) : x \in Of(p)
  BY DEF Coins
<1>2. CASE line.charge = c /\ line.kind = kind
  <2>1. Picked(lines \cup {line}) = Picked(lines) \cup {line}
    BY <1>2
  <2>2. \A x : x \in Coins(kind, c, lines \cup {line}) <=>
                  x \in Coins(kind, c, lines) \/ x \in Of(line)
    <3> HIDE DEF Picked, Of
    <3> QED
      BY <1>1, <2>1
  <2> QED
    BY <1>2, <2>2
<1>3. CASE ~(line.charge = c /\ line.kind = kind)
  <2>1. Picked(lines \cup {line}) = Picked(lines)
    BY <1>3
  <2> QED
    BY <1>3, <2>1 DEF Coins
<1> QED
  BY <1>2, <1>3

\* With a receipt no line has, those coins are new, and count for the amount.
LEMMA CountingNewLine ==
    ASSUME NEW kind, NEW c, NEW lines, NEW line, line.amount \in Nat,
           \A p \in lines : p.receipt_number # line.receipt_number,
           IsFiniteSet(Coins(kind, c, lines))
    PROVE  /\ IsFiniteSet(Coins(kind, c, lines \cup {line}))
           /\ Cardinality(Coins(kind, c, lines)) \in Nat
           /\ Cardinality(Coins(kind, c, lines \cup {line})) =
                 IF line.charge = c /\ line.kind = kind
                 THEN Cardinality(Coins(kind, c, lines)) + line.amount
                 ELSE Cardinality(Coins(kind, c, lines))
<1> DEFINE old == Coins(kind, c, lines)
           new == {line.receipt_number} \X (1 .. line.amount)
<1>1. Cardinality(old) \in Nat
  BY FS_CardinalityType
<1>2. IsFiniteSet(new) /\ Cardinality(new) = line.amount
  <2>1. IsFiniteSet({line.receipt_number}) /\ Cardinality({line.receipt_number}) = 1
    BY FS_Singleton
  <2>2. \A n \in Nat : IsFiniteSet(1 .. n) /\ Cardinality(1 .. n) = n
    <3> TAKE n \in Nat
    <3>1. /\ IsFiniteSet(1 .. n)
          /\ Cardinality(1 .. n) = IF 1 > n THEN 0 ELSE n - 1 + 1
      BY FS_Interval, SMTT(60)
    <3> QED
      BY <3>1
  <2>3. IsFiniteSet(1 .. line.amount) /\ Cardinality(1 .. line.amount) = line.amount
    BY <2>2
  <2>4. /\ IsFiniteSet(new)
        /\ Cardinality(new) = Cardinality({line.receipt_number}) * Cardinality(1 .. line.amount)
    BY <2>1, <2>3, FS_Product
  <2>5. Cardinality(new) = 1 * line.amount
    BY <2>1, <2>3, <2>4
  <2> HIDE DEF new
  <2>6. \A n \in Nat : 1 * n = n
    OBVIOUS
  <2> QED
    BY <2>4, <2>5, <2>6
<1>3. old \cap new = {}
  BY DEF Coins
<1> HIDE DEF old, new
<1>4. IsFiniteSet(old \cup new) /\ Cardinality(old \cup new) = Cardinality(old) + line.amount
  <2>1. IsFiniteSet(old)
    BY DEF old
  <2>2. /\ IsFiniteSet(old \cup new)
        /\ Cardinality(old \cup new) = Cardinality(old) + Cardinality(new) - Cardinality(old \cap new)
    BY <1>2, <2>1, FS_Union
  <2>3. Cardinality(old \cap new) = 0
    BY <1>3, FS_EmptySet
  <2>4. \A m, n \in Nat : m + n - 0 = m + n
    OBVIOUS
  <2>5. Cardinality(old \cup new) = Cardinality(old) + line.amount - 0
    BY <1>2, <2>2, <2>3
  <2> QED
    BY <1>1, <2>2, <2>4, <2>5
<1>5. CASE line.charge = c /\ line.kind = kind
  <2>1. Coins(kind, c, lines \cup {line}) = old \cup new
    BY <1>5, CoinsOfNewLine DEF old, new
  <2>2. Cardinality(Coins(kind, c, lines)) = Cardinality(old)
    BY DEF old
  <2> QED
    BY <1>1, <1>4, <1>5, <2>1, <2>2
<1>6. CASE ~(line.charge = c /\ line.kind = kind)
  <2>1. Coins(kind, c, lines \cup {line}) = Coins(kind, c, lines)
    BY <1>6, CoinsOfNewLine
  <2> QED
    BY <1>1, <1>6, <2>1 DEF old
<1> QED
  BY <1>5, <1>6

\* No coins on an empty ledger.
LEMMA NoCoins ==
    ASSUME NEW kind, NEW c
    PROVE  Coins(kind, c, {}) = {}
BY DEF Coins

-----------------------------------------------------------------------------
(* Steps that several operations share *)

\* Writing a row that no transaction has locked keeps every charge issued and
\* every row a payment has checked.
LEMMA UnlockedWrite ==
    ASSUME PaymentsInv, NEW c \in Charge, lock[c] = Free,
           NEW row \in MonthlyCharge, charges' = [charges EXCEPT ![c] = row]
    PROVE  /\ charges' \in [Charge -> MonthlyCharge \cup {NoCharge}]
           /\ Issued(c)'
           /\ \A d \in Charge : Issued(d) => Issued(d)'
           /\ \A w \in Worker : pc[w] \in {"locked", "numbered"} =>
                 charges'[job[w].charge] = charges[job[w].charge]
<1>1. /\ charges \in [Charge -> MonthlyCharge \cup {NoCharge}]
      /\ \A d \in Charge : charges'[d] = IF d = c THEN row ELSE charges[d]
      /\ charges' \in [Charge -> MonthlyCharge \cup {NoCharge}]
  BY DEF PaymentsInv, TypeOK
<1>2. row # NoCharge
  BY NullRows
<1>3. /\ Issued(c)'
      /\ \A d \in Charge : Issued(d) => Issued(d)'
  BY <1>1, <1>2 DEF Issued
<1>4. ASSUME NEW w \in Worker, pc[w] \in {"locked", "numbered"}
      PROVE  charges'[job[w].charge] = charges[job[w].charge]
  <2>1. lock[job[w].charge] = w /\ job[w].charge \in Charge
    BY <1>4 DEF PaymentsInv, HandlerOK, Job
  <2>2. job[w].charge # c
    BY <2>1, PaymentsAssumption
  <2> QED
    BY <1>1, <2>1, <2>2
<1> QED
  BY <1>1, <1>3, <1>4

\* A handler that answers leaves the others where they were.
LEMMA Finishing ==
    ASSUME PaymentsInv, NEW w \in Worker, Finish(w)
    PROVE  /\ pc' \in [Worker -> Step]
           /\ job' \in [Worker -> Job \cup {NoJob}]
           /\ pc'[w] = "idle"
           /\ \A v \in Worker : v # w => pc'[v] = pc[v] /\ job'[v] = job[v]
BY DEF PaymentsInv, TypeOK, Finish, Step

\* ... and, when its request wrote nothing, everything else too.
LEMMA Answering ==
    ASSUME PaymentsInv, NEW w \in Worker, Finish(w),
           UNCHANGED <<charges, payments, next_value, lock, seq_lock, requests, audit>>
    PROVE  PaymentsInv'
<1>1. TypeOK'
  BY Finishing DEF PaymentsInv, TypeOK
<1>2. \A v \in Worker : HandlerOK(v)'
  <2>0. HandlerOK(w)'
    BY Finishing DEF HandlerOK
  <2> SUFFICES ASSUME NEW v \in Worker, v # w
               PROVE  HandlerOK(v)'
    BY <2>0
  <2> QED
    BY Finishing DEF PaymentsInv, HandlerOK, Issued
<1>3. AuditOK' /\ (\A p \in payments : Issued(p.charge))' /\ (next_value >= 1)' /\ ReceiptsGapless'
  BY DEF PaymentsInv, AuditOK, ReceiptsGapless, Issued
<1> QED
  BY <1>1, <1>2, <1>3 DEF PaymentsInv

\* A handler that writes an unlocked row and answers.
LEMMA WritingAndAnswering ==
    ASSUME PaymentsInv, NEW w \in Worker, Finish(w), NEW c \in Charge, lock[c] = Free,
           NEW row \in MonthlyCharge, charges' = [charges EXCEPT ![c] = row],
           UNCHANGED <<payments, next_value, lock, seq_lock, requests, audit>>
    PROVE  PaymentsInv'
<1>1. TypeOK'
  BY Finishing, UnlockedWrite DEF PaymentsInv, TypeOK
<1>2. \A v \in Worker : HandlerOK(v)'
  <2>0. HandlerOK(w)'
    BY Finishing DEF HandlerOK
  <2> SUFFICES ASSUME NEW v \in Worker, v # w
               PROVE  HandlerOK(v)'
    BY <2>0
  <2>1. pc'[v] = pc[v] /\ job'[v] = job[v]
    BY Finishing
  <2>2. pc[v] # "idle" => job[v] \in Job /\ charges'[job[v].charge] # NoCharge
    BY UnlockedWrite DEF PaymentsInv, HandlerOK, Job, Issued
  <2>3. pc[v] \in {"locked", "numbered"} => charges'[job[v].charge] = charges[job[v].charge]
    BY UnlockedWrite
  <2> QED
    BY <2>1, <2>2, <2>3 DEF PaymentsInv, HandlerOK, Issued
<1>3. AuditOK'
  BY UnlockedWrite DEF PaymentsInv, AuditOK, TypeOK, Audit
<1>4. (\A p \in payments : Issued(p.charge))'
  BY UnlockedWrite DEF PaymentsInv, TypeOK, Payment
<1>5. (next_value >= 1)' /\ ReceiptsGapless'
  BY DEF PaymentsInv, ReceiptsGapless
<1> QED
  BY <1>1, <1>2, <1>3, <1>4, <1>5 DEF PaymentsInv

-----------------------------------------------------------------------------
(* Every step preserves the inductive invariant *)

LEMMA PaymentsInitially == Init => PaymentsInv
<1> SUFFICES ASSUME Init PROVE PaymentsInv
  OBVIOUS
<1>1. TypeOK
  BY DEF Init, TypeOK, NoAudit, Audit, AuditStep, Step
<1>2. AuditOK /\ ReceiptsGapless
  BY DEF Init, AuditOK, NoAudit, ReceiptsGapless
<1>3. \A kind \in Collecting, c \in Charge : IsFiniteSet(Coins(kind, c, payments))
  BY NoCoins, FS_EmptySet DEF Init
<1> QED
  BY <1>1, <1>2, <1>3 DEF PaymentsInv, Init, HandlerOK

\* Steps of the requests that only read, lock, number or give up.
LEMMA ReadingSteps ==
    ASSUME PaymentsInv, NEW w \in Worker,
           \/ \E op \in Operation, c \in Charge : FetchCharge(w, op, c)
           \/ \E p \in payments : FetchPayment(w, p)
           \/ \E amount \in Amount : LockCharge(w, amount) \/ RefusePayment(w, amount)
           \/ TakeReceiptNumber(w)
           \/ Abort(w)
           \/ \E due, discount \in Fee : RefuseUpdate(w, due, discount)
           \/ RefuseCancel(w)
    PROVE  PaymentsInv'
<1>1. CASE \E op \in Operation, c \in Charge : FetchCharge(w, op, c)
  <2> PICK op \in Operation, c \in Charge : FetchCharge(w, op, c)
    BY <1>1
  <2>1. job'[w] \in Job /\ job'[w].charge = c
    BY DEF FetchCharge, PaymentsInv, TypeOK, Job, Issued, Collecting, Administrative, NoPayment
  <2>2. TypeOK'
    BY <2>1 DEF FetchCharge, PaymentsInv, TypeOK, Step
  <2>3. \A v \in Worker : HandlerOK(v)'
    BY <2>1 DEF FetchCharge, PaymentsInv, TypeOK, HandlerOK, Issued
  <2> QED
    BY <2>2, <2>3 DEF FetchCharge, PaymentsInv, AuditOK, ReceiptsGapless, Issued
<1>2. CASE \E p \in payments : FetchPayment(w, p)
  <2> PICK p \in payments : FetchPayment(w, p)
    BY <1>2
  <2>1. job'[w] \in Job /\ job'[w].charge = p.charge /\ Issued(p.charge)
    BY DEF FetchPayment, PaymentsInv, TypeOK, Job, Issued, Collecting, Payment, NoPayment
  <2>2. TypeOK'
    BY <2>1 DEF FetchPayment, PaymentsInv, TypeOK, Step
  <2>3. \A v \in Worker : HandlerOK(v)'
    BY <2>1 DEF FetchPayment, PaymentsInv, TypeOK, HandlerOK, Issued
  <2> QED
    BY <2>2, <2>3 DEF FetchPayment, PaymentsInv, AuditOK, ReceiptsGapless, Issued
<1>3. CASE \E amount \in Amount : LockCharge(w, amount)
  <2> PICK amount \in Amount : LockCharge(w, amount)
    BY <1>3
  <2> DEFINE c == job[w].charge
  <2>0. job[w] \in Job /\ Issued(c)
    BY DEF LockCharge, PaymentsInv, HandlerOK
  <2>1. /\ job[w] \in Job /\ c \in Charge /\ charges[c] \in MonthlyCharge
        /\ amount \in Nat /\ Issued(c)
    BY <2>0, PaymentsAssumption DEF PaymentsInv, TypeOK, Issued, Job
  <2>2. /\ job'[w] \in Job
        /\ job'[w].charge = c
        /\ job'[w].op = job[w].op
        /\ job'[w].row = charges[c]
        /\ job'[w].amount = amount
    BY <2>1 DEF LockCharge, PaymentsInv, TypeOK, Job, CheckedRow
  <2>3. TypeOK'
    BY <2>1, <2>2 DEF LockCharge, PaymentsInv, TypeOK, Step
  <2>4. HandlerOK(w)'
    BY <2>1, <2>2 DEF LockCharge, PaymentsInv, TypeOK, HandlerOK, Issued, CheckedRow
  <2>5. ASSUME NEW v \in Worker, v # w
        PROVE  HandlerOK(v)'
    <3>1. HandlerOK(v) /\ pc'[v] = pc[v] /\ job'[v] = job[v]
      BY <2>5 DEF LockCharge, PaymentsInv, TypeOK
    <3>2. pc[v] \in {"locked", "numbered"} => lock'[job[v].charge] = v
      <4> SUFFICES ASSUME pc[v] \in {"locked", "numbered"}
                   PROVE  lock'[job[v].charge] = v
        OBVIOUS
      <4>1. job[v].charge \in Charge /\ lock[job[v].charge] = v
        BY <3>1 DEF HandlerOK, Job
      <4>2. lock[c] = Free /\ lock' = [lock EXCEPT ![c] = w]
        BY DEF LockCharge
      <4> QED
        BY <4>1, <4>2, PaymentsAssumption DEF PaymentsInv, TypeOK
    <3> QED
      BY <3>1, <3>2 DEF LockCharge, HandlerOK, Issued
  <2> QED
    BY <2>3, <2>4, <2>5 DEF LockCharge, PaymentsInv, AuditOK, ReceiptsGapless, Issued
<1>4. CASE \E amount \in Amount : RefusePayment(w, amount)
  BY <1>4, Answering DEF RefusePayment
<1>5. CASE TakeReceiptNumber(w)
  <2>1. /\ job'[w] \in Job
        /\ \A field \in {"op", "charge", "row", "amount"} : job'[w][field] = job[w][field]
        /\ job'[w].receipt = next_value
    BY <1>5 DEF TakeReceiptNumber, PaymentsInv, TypeOK, HandlerOK, Job
  <2>2. TypeOK'
    BY <1>5, <2>1 DEF TakeReceiptNumber, PaymentsInv, TypeOK, Step
  <2>3. HandlerOK(w)'
    BY <1>5, <2>1 DEF TakeReceiptNumber, PaymentsInv, TypeOK, HandlerOK, Issued
  <2>4. ASSUME NEW v \in Worker, v # w
        PROVE  HandlerOK(v)'
    BY <1>5, <2>4, PaymentsAssumption DEF TakeReceiptNumber, PaymentsInv, TypeOK, HandlerOK, Issued
  <2> QED
    BY <1>5, <2>2, <2>3, <2>4 DEF TakeReceiptNumber, PaymentsInv, AuditOK, ReceiptsGapless, Issued
<1>6. CASE Abort(w)
  <2>1. Finish(w) /\ ReleaseLocks(w)
    BY <1>6 DEF Abort
  <2>2. TypeOK'
    BY <1>6, <2>1, Finishing DEF Abort, ReleaseLocks, PaymentsInv, TypeOK
  <2>3. HandlerOK(w)'
    BY <2>1, Finishing DEF HandlerOK
  <2>4. ASSUME NEW v \in Worker, v # w
        PROVE  HandlerOK(v)'
    <3>1. HandlerOK(v) /\ pc'[v] = pc[v] /\ job'[v] = job[v]
      BY <2>1, <2>4, Finishing DEF PaymentsInv
    <3>2. /\ pc[v] \in {"locked", "numbered"} => lock'[job[v].charge] = v
          /\ pc[v] = "numbered" => seq_lock' = v
      BY <2>1, <2>4, <3>1 DEF ReleaseLocks, HandlerOK, Job
    <3> QED
      BY <1>6, <3>1, <3>2 DEF Abort, HandlerOK, Issued
  <2> QED
    BY <1>6, <2>2, <2>3, <2>4 DEF Abort, PaymentsInv, AuditOK, ReceiptsGapless, Issued
<1>7. CASE \E due, discount \in Fee : RefuseUpdate(w, due, discount)
  BY <1>7, Answering DEF RefuseUpdate
<1>8. CASE RefuseCancel(w)
  BY <1>8, Answering DEF RefuseCancel
<1> QED
  BY <1>1, <1>2, <1>3, <1>4, <1>5, <1>6, <1>7, <1>8

\* The administrative writes.
LEMMA AdministrativeSteps ==
    ASSUME PaymentsInv, NEW w \in Worker,
           \/ \E due, discount \in Fee : UpdateCharge(w, due, discount)
           \/ WaiveCharge(w)
           \/ CancelCharge(w)
    PROVE  PaymentsInv'
<1> DEFINE c == job[w].charge
<1>1. /\ job[w] \in Job
      /\ c \in Charge
      /\ lock[c] = Free
      /\ Finish(w)
      /\ UNCHANGED <<payments, next_value, lock, seq_lock, requests, audit>>
  BY DEF PaymentsInv, HandlerOK, Job, UpdateCharge, WaiveCharge, CancelCharge
<1>2. charges[c] \in MonthlyCharge /\ job[w].row \in MonthlyCharge
  BY <1>1 DEF PaymentsInv, HandlerOK, Job, UpdateCharge, WaiveCharge, CancelCharge, TypeOK, Issued
<1>3. \E row \in MonthlyCharge : charges' = [charges EXCEPT ![c] = row]
  <2>1. CASE \E due, discount \in Fee : UpdateCharge(w, due, discount)
    <3> PICK due \in Fee, discount \in Fee : UpdateCharge(w, due, discount)
      BY <2>1
    <3>1. Edited(job[w].row, due, discount) \in MonthlyCharge
      BY <1>2, PaymentsAssumption DEF Edited, MonthlyCharge
    <3>2. Derived(Edited(job[w].row, due, discount)) \in MonthlyCharge
      BY <3>1, RecalculateStatusType
    <3> QED
      BY <3>2 DEF UpdateCharge
  <2>2. ASSUME NEW s \in Sticky, charges' = [charges EXCEPT ![c].status = s]
        PROVE  \E row \in MonthlyCharge : charges' = [charges EXCEPT ![c] = row]
    <3>1. [charges[c] EXCEPT !.status = s] \in MonthlyCharge
      BY <1>2 DEF MonthlyCharge, Status
    <3>2. charges' = [charges EXCEPT ![c] = [charges[c] EXCEPT !.status = s]]
      BY <2>2
    <3> QED
      BY <3>1, <3>2
  <2> QED
    BY <2>1, <2>2 DEF WaiveCharge, CancelCharge, Sticky
<1> QED
  BY <1>1, <1>3, WritingAndAnswering

\* The commit of a payment: the receipt becomes the next ledger line.
LEMMA CommitStep ==
    ASSUME PaymentsInv, NEW w \in Worker, CommitPayment(w)
    PROVE  /\ PaymentsInv'
           /\ job[w] \in Job
           /\ charges[job[w].charge] \in MonthlyCharge
           /\ job[w].op \in Collecting
           /\ job[w].amount \in Amount
           /\ Collectable(charges[job[w].charge], job[w].op, job[w].amount)
           /\ job[w].receipt = next_value
<1> DEFINE c == job[w].charge
           row == Collected(charges[c], job[w].op, job[w].amount)
<1>1. /\ job[w] \in Job /\ Issued(c) /\ c \in Charge
      /\ lock[c] = w
      /\ charges[c] = job[w].row
      /\ job[w].op \in Collecting
      /\ job[w].amount \in Amount
      /\ Collectable(charges[c], job[w].op, job[w].amount)
      /\ seq_lock = w
      /\ job[w].receipt = next_value
  BY DEF CommitPayment, PaymentsInv, HandlerOK, Job
<1>2. charges[c] \in MonthlyCharge /\ job[w].amount \in Nat
  BY <1>1 DEF Job
<1>3. row \in MonthlyCharge /\ row # NoCharge
  BY <1>1, <1>2, CollectedRow, NullRows
<1>4. /\ charges' = [charges EXCEPT ![c] = row]
      /\ charges' \in [Charge -> MonthlyCharge \cup {NoCharge}]
      /\ \A d \in Charge : d # c => charges'[d] = charges[d]
      /\ charges'[c] = row
  BY <1>1, <1>3 DEF CommitPayment, PaymentsInv, TypeOK
<1> HIDE DEF row
<1>5. \A d \in Charge : Issued(d) => charges'[d] # NoCharge
  BY <1>3, <1>4 DEF Issued
<1>6. LedgerLine(w) \in Payment
  BY <1>1 DEF LedgerLine, Payment, Job
<1>7. TypeOK'
  <2>1. payments' \subseteq Payment /\ next_value' \in Nat
    BY <1>1, <1>6 DEF CommitPayment, PaymentsInv, TypeOK
  <2>2. Finish(w) /\ ReleaseLocks(w) /\ UNCHANGED <<requests, audit>>
    BY DEF CommitPayment
  <2> QED
    BY <1>4, <2>1, <2>2, Finishing DEF ReleaseLocks, PaymentsInv, TypeOK
<1>8. \A v \in Worker : HandlerOK(v)'
  <2>1. HandlerOK(w)'
    BY Finishing DEF CommitPayment, HandlerOK
  <2>2. ASSUME NEW v \in Worker, v # w
        PROVE  HandlerOK(v)'
    <3>1. HandlerOK(v) /\ pc'[v] = pc[v] /\ job'[v] = job[v]
      BY <2>2, Finishing DEF CommitPayment, PaymentsInv
    <3>2. pc[v] # "idle" => job[v] \in Job /\ charges'[job[v].charge] # NoCharge
      BY <3>1, <1>5 DEF HandlerOK, Job
    <3>3. pc[v] \in {"locked", "numbered"} =>
             /\ lock'[job[v].charge] = v
             /\ charges'[job[v].charge] = charges[job[v].charge]
      <4> SUFFICES ASSUME pc[v] \in {"locked", "numbered"}
                   PROVE  /\ lock'[job[v].charge] = v
                          /\ charges'[job[v].charge] = charges[job[v].charge]
        OBVIOUS
      <4>1. job[v].charge \in Charge /\ lock[job[v].charge] = v
        BY <3>1 DEF HandlerOK, Job
      <4>2. lock'[job[v].charge] = v
        BY <2>2, <4>1 DEF CommitPayment, ReleaseLocks
      <4>3. job[v].charge # c
        BY <1>1, <2>2, <4>1
      <4> QED
        BY <1>4, <4>1, <4>2, <4>3
    <3>4. pc[v] # "numbered"
      BY <1>1, <2>2, <3>1 DEF HandlerOK
    <3> QED
      BY <3>1, <3>2, <3>3, <3>4 DEF HandlerOK, Issued
  <2> QED
    BY <2>1, <2>2
<1>9. AuditOK'
  BY <1>5 DEF CommitPayment, PaymentsInv, AuditOK, TypeOK, Audit, Issued
<1>10. (\A p \in payments : Issued(p.charge))'
  <2>1. \A p \in payments : p.charge \in Charge /\ Issued(p.charge)
    BY DEF PaymentsInv, TypeOK, Payment
  <2>2. LedgerLine(w).charge = c
    BY DEF LedgerLine
  <2> QED
    BY <1>1, <1>5, <2>1, <2>2 DEF CommitPayment, Issued
<1>11. (next_value >= 1)' /\ ReceiptsGapless'
  <2>1. next_value \in Nat /\ next_value >= 1 /\ next_value' = next_value + 1
    BY <1>1 DEF CommitPayment, PaymentsInv, TypeOK
  <2>2. LedgerLine(w).receipt_number = next_value
    BY <1>1 DEF LedgerLine
  <2>3. payments' = payments \cup {LedgerLine(w)}
    BY DEF CommitPayment
  <2>4. {p.receipt_number : p \in payments'} = {p.receipt_number : p \in payments} \cup {next_value}
    BY <2>2, <2>3
  <2>5. {p.receipt_number : p \in payments'} = 1 .. (next_value' - 1)
    <3>1. {p.receipt_number : p \in payments} = 1 .. (next_value - 1)
      BY DEF PaymentsInv, ReceiptsGapless
    <3>2. \A n \in Nat : n >= 1 => (1 .. (n - 1)) \cup {n} = 1 .. ((n + 1) - 1)
      OBVIOUS
    <3>3. (1 .. (next_value - 1)) \cup {next_value} = 1 .. (next_value' - 1)
      BY <2>1, <3>2
    <3> QED
      BY <2>4, <3>1, <3>3
  <2>6. \A p \in payments : p.receipt_number \in 1 .. (next_value - 1)
    BY DEF PaymentsInv, ReceiptsGapless
  <2>7. \A p \in payments : p.receipt_number # next_value
    BY <2>1, <2>6
  <2>8. \A p, q \in payments' : p.receipt_number = q.receipt_number => p = q
    BY <2>2, <2>3, <2>7 DEF PaymentsInv, ReceiptsGapless
  <2> QED
    BY <2>1, <2>5, <2>8 DEF ReceiptsGapless
<1>12. (\A kind \in Collecting, d \in Charge : IsFiniteSet(Coins(kind, d, payments)))'
  <2> SUFFICES ASSUME NEW kind \in Collecting, NEW d \in Charge
               PROVE  IsFiniteSet(Coins(kind, d, payments \cup {LedgerLine(w)}))
    BY DEF CommitPayment
  <2>1. LedgerLine(w).amount \in Nat /\ LedgerLine(w).receipt_number = next_value
    BY <1>1, <1>2 DEF LedgerLine
  <2>2. \A p \in payments : p.receipt_number # next_value
    <3>1. \A p \in payments : p.receipt_number \in 1 .. (next_value - 1)
      BY DEF PaymentsInv, ReceiptsGapless
    <3> QED
      BY <3>1 DEF PaymentsInv, TypeOK
  <2>3. IsFiniteSet(Coins(kind, d, payments))
    BY DEF PaymentsInv
  <2> QED
    BY <2>1, <2>2, <2>3, CountingNewLine
<1> QED
  BY <1>1, <1>2, <1>7, <1>8, <1>9, <1>10, <1>11, <1>12 DEF PaymentsInv

\* Billing a new charge.
LEMMA CreateStep ==
    ASSUME PaymentsInv, NEW c \in Charge, NEW fee \in Fee, CreateCharge(c, fee)
    PROVE  PaymentsInv'
<1> DEFINE row == [amount_due |-> fee, discount_amount |-> 0, total_paid |-> 0, status |-> "UNPAID"]
<1>1. row \in MonthlyCharge /\ row # NoCharge
  BY PaymentsAssumption, NullRows DEF MonthlyCharge, Status
<1>2. /\ charges' = [charges EXCEPT ![c] = row]
      /\ charges' \in [Charge -> MonthlyCharge \cup {NoCharge}]
      /\ \A d \in Charge : Issued(d) => charges'[d] = charges[d]
  BY <1>1 DEF CreateCharge, PaymentsInv, TypeOK, Issued
<1> HIDE DEF row
<1>3. TypeOK'
  BY <1>2 DEF CreateCharge, PaymentsInv, TypeOK
<1>4. ASSUME NEW w \in Worker
      PROVE  HandlerOK(w)'
  <2>1. HandlerOK(w) /\ pc'[w] = pc[w] /\ job'[w] = job[w]
    BY DEF CreateCharge, PaymentsInv
  <2>2. pc[w] # "idle" => /\ job[w] \in Job
                          /\ charges'[job[w].charge] = charges[job[w].charge]
                          /\ charges[job[w].charge] # NoCharge
    BY <1>2, <2>1 DEF HandlerOK, Job, Issued
  <2> QED
    BY <2>1, <2>2 DEF CreateCharge, HandlerOK, Issued
<1>5. AuditOK'
  BY <1>2 DEF CreateCharge, PaymentsInv, AuditOK, TypeOK, Audit, Issued
<1>6. (\A p \in payments : Issued(p.charge))'
  BY <1>2 DEF CreateCharge, PaymentsInv, TypeOK, Payment, Issued
<1> QED
  BY <1>3, <1>4, <1>5, <1>6 DEF CreateCharge, PaymentsInv, ReceiptsGapless

\* The drift check: what it reads, and the rows it writes.
LEMMA AuditSteps ==
    ASSUME PaymentsInv, (\E fix \in AuditFix : AuditOpen(fix)) \/ AuditNext
    PROVE  PaymentsInv'
<1>1. ASSUME NEW c \in Charge, lock[c] = Free, NEW row \in MonthlyCharge,
             charges' = [charges EXCEPT ![c] = row] \/ charges' = charges,
             audit' \in Audit, audit'.step \notin {"fix", "status"} \/ audit'.charge \in audit'.todo,
             \A d \in audit'.todo : Issued(d) /\ audit'.rows[d] \in MonthlyCharge,
             UNCHANGED <<payments, next_value, lock, seq_lock, pc, job, requests>>
      PROVE  PaymentsInv'
  <2>1. /\ charges' \in [Charge -> MonthlyCharge \cup {NoCharge}]
        /\ \A d \in Charge : Issued(d) => Issued(d)'
        /\ \A w \in Worker : pc[w] \in {"locked", "numbered"} =>
              charges'[job[w].charge] = charges[job[w].charge]
    <3>1. CASE charges' = charges
      BY <3>1 DEF PaymentsInv, TypeOK, Issued
    <3>2. CASE charges' = [charges EXCEPT ![c] = row]
      BY <1>1, <3>2, UnlockedWrite
    <3> QED
      BY <1>1, <3>1, <3>2
  <2>2. TypeOK'
    BY <1>1, <2>1 DEF PaymentsInv, TypeOK
  <2>3. ASSUME NEW w \in Worker
        PROVE  HandlerOK(w)'
    <3>1. HandlerOK(w) /\ pc' = pc /\ job' = job
      BY <1>1 DEF PaymentsInv
    <3>2. pc[w] # "idle" => job[w] \in Job /\ charges'[job[w].charge] # NoCharge
      BY <2>1, <3>1 DEF HandlerOK, Job, Issued
    <3> QED
      BY <1>1, <2>1, <3>1, <3>2 DEF HandlerOK, Issued
  <2>4. AuditOK'
    BY <1>1, <2>1 DEF AuditOK, Audit
  <2>5. (\A p \in payments : Issued(p.charge))'
    BY <1>1, <2>1 DEF PaymentsInv, TypeOK, Payment
  <2> QED
    BY <1>1, <2>2, <2>3, <2>4, <2>5 DEF PaymentsInv, ReceiptsGapless
<1>2. ASSUME charges' = charges, audit' \in Audit,
             audit'.step \notin {"fix", "status"} \/ audit'.charge \in audit'.todo,
             \A d \in audit'.todo : Issued(d) /\ audit'.rows[d] \in MonthlyCharge,
             UNCHANGED <<payments, next_value, lock, seq_lock, pc, job, requests>>
      PROVE  PaymentsInv'
  BY <1>2 DEF PaymentsInv, TypeOK, HandlerOK, AuditOK, ReceiptsGapless, Issued
<1>3. CASE \E fix \in AuditFix : AuditOpen(fix)
  <2> PICK fix \in AuditFix : AuditOpen(fix)
    BY <1>3
  <2>1. audit' \in Audit
    BY PaymentsAssumption DEF AuditOpen, Audit, AuditStep, PaymentsInv, TypeOK
  <2>2. \A d \in audit'.todo : Issued(d) /\ audit'.rows[d] \in MonthlyCharge
    BY DEF AuditOpen, PaymentsInv, TypeOK, Issued
  <2> QED
    BY <1>2, <2>1, <2>2 DEF AuditOpen
<1>4. CASE \E c \in Charge : AuditCompare(c)
  <2> PICK c \in Charge : AuditCompare(c)
    BY <1>4
  <2>1. LedgerTotal(c) \in Int
    <3>1. /\ IsFiniteSet(Coins("PAYMENT", c, payments))
          /\ IsFiniteSet(Coins("REFUND", c, payments))
      BY DEF PaymentsInv, Collecting
    <3> QED
      BY <3>1, FS_CardinalityType DEF LedgerTotal
  <2>2. audit' \in Audit /\ audit'.todo = audit.todo /\ audit'.rows = audit.rows /\ audit'.charge = c
    <3> DEFINE repair == audit.fix /\ LedgerTotal(c) # audit.rows[c].total_paid
               step == IF repair THEN "fix" ELSE "status"
               expected == IF repair THEN LedgerTotal(c) ELSE 0
    <3>1. step \in AuditStep /\ expected \in Int
      BY <2>1 DEF AuditStep
    <3>2. audit' = [audit EXCEPT !.step = step, !.charge = c, !.expected = expected]
      BY DEF AuditCompare
    <3>3. audit \in Audit
      BY DEF PaymentsInv, TypeOK
    <3> HIDE DEF step, expected
    <3> QED
      BY <3>1, <3>2, <3>3 DEF Audit
  <2> QED
    BY <1>2, <2>2 DEF AuditCompare, PaymentsInv, AuditOK
<1>5. CASE AuditFixTotal
  <2> DEFINE c == audit.charge
             row == [charges[c] EXCEPT !.total_paid = audit.expected]
  <2>1. /\ c \in Charge /\ c \in audit.todo /\ Issued(c)
        /\ audit.expected \in Nat
        /\ audit.rows[c] \in MonthlyCharge
        /\ lock[c] = Free
        /\ charges[c] \in MonthlyCharge
    BY <1>5 DEF AuditFixTotal, PaymentsInv, AuditOK, TypeOK, Audit, Issued
  <2>2. row \in MonthlyCharge /\ [audit.rows[c] EXCEPT !.total_paid = audit.expected] \in MonthlyCharge
    BY <2>1 DEF MonthlyCharge
  <2>3. charges' = [charges EXCEPT ![c] = row]
    BY <1>5 DEF AuditFixTotal
  <2>4. /\ audit' \in Audit /\ audit'.todo = audit.todo /\ audit'.charge = c
        /\ audit'.rows = [audit.rows EXCEPT ![c] = [audit.rows[c] EXCEPT !.total_paid = audit.expected]]
    <3> DEFINE fixed == [audit.rows[c] EXCEPT !.total_paid = audit.expected]
               rows == [audit.rows EXCEPT ![c] = fixed]
    <3>1. audit \in Audit
      BY DEF PaymentsInv, TypeOK
    <3>2. audit' = [audit EXCEPT !.step = "status", !.rows = rows, !.expected = 0]
      BY <1>5 DEF AuditFixTotal
    <3>3. rows \in [Charge -> MonthlyCharge \cup {NoCharge}]
      BY <2>2, <3>1 DEF Audit
    <3> HIDE DEF rows
    <3>4. audit' = [step |-> "status", rows |-> rows, todo |-> audit.todo, charge |-> audit.charge,
                    expected |-> 0, fix |-> audit.fix]
      BY <3>1, <3>2 DEF Audit
    <3>5. audit' \in Audit
      BY <3>1, <3>3, <3>4 DEF Audit, AuditStep
    <3> QED
      BY <3>4, <3>5 DEF rows
  <2>5. \A d \in audit'.todo : Issued(d) /\ audit'.rows[d] \in MonthlyCharge
    <3>1. audit.rows \in [Charge -> MonthlyCharge \cup {NoCharge}] /\ audit.todo \subseteq Charge
      BY DEF PaymentsInv, TypeOK, Audit
    <3>2. \A d \in audit.todo : Issued(d) /\ audit.rows[d] \in MonthlyCharge
      BY DEF PaymentsInv, AuditOK
    <3> QED
      BY <2>1, <2>2, <2>4, <3>1, <3>2
  <2> QED
    BY <1>1, <1>5, <2>1, <2>2, <2>3, <2>4, <2>5 DEF AuditFixTotal
<1>6. CASE AuditCrash \/ AuditClose
  <2>1. audit' = NoAudit /\ audit'.todo = {} /\ audit'.step = "idle"
    BY <1>6 DEF AuditCrash, AuditClose, NoAudit
  <2>2. NoAudit \in Audit
    BY DEF NoAudit, Audit, AuditStep
  <2> QED
    BY <1>2, <1>6, <2>1, <2>2 DEF AuditCrash, AuditClose
<1>7. CASE AuditStatus
  <2> DEFINE c == audit.charge
             s == RecalculateStatus(audit.rows[c])
             row == [charges[c] EXCEPT !.status = s]
  <2>1. /\ c \in Charge /\ Issued(c)
        /\ audit.rows[c] \in MonthlyCharge
        /\ charges[c] \in MonthlyCharge
    BY <1>7 DEF AuditStatus, PaymentsInv, AuditOK, TypeOK, Audit, Issued
  <2>2. row \in MonthlyCharge
    BY <2>1, RecalculateStatusType DEF MonthlyCharge
  <2>3. charges' = charges \/ (lock[c] = Free /\ charges' = [charges EXCEPT ![c] = row])
    BY <1>7 DEF AuditStatus
  <2>4. /\ audit' \in Audit /\ audit'.step = "compare" /\ audit'.todo = audit.todo \ {c}
        /\ audit'.rows = [audit.rows EXCEPT ![c] = NoCharge]
    BY <1>7, <2>1 DEF AuditStatus, PaymentsInv, TypeOK, Audit, AuditStep
  <2>5. \A d \in audit'.todo : Issued(d) /\ audit'.rows[d] \in MonthlyCharge
    BY <2>4 DEF PaymentsInv, AuditOK, TypeOK, Audit
  <2>6. UNCHANGED <<payments, next_value, lock, seq_lock, pc, job, requests>>
    BY <1>7 DEF AuditStatus
  <2> HIDE DEF row
  <2> QED
    BY <1>1, <1>2, <2>1, <2>2, <2>3, <2>4, <2>5, <2>6
<1> QED
  BY <1>3, <1>4, <1>5, <1>6, <1>7 DEF AuditNext

\* PaymentsInv is inductive.
THEOREM PaymentsStep == PaymentsInv /\ [Next]_vars => PaymentsInv'
<1> SUFFICES ASSUME PaymentsInv, [Next]_vars
             PROVE  PaymentsInv'
  OBVIOUS
<1>1. CASE UNCHANGED vars
  BY <1>1 DEF vars, PaymentsInv, TypeOK, HandlerOK, AuditOK, ReceiptsGapless, Issued
<1>2. ASSUME NEW c \in Charge, NEW fee \in Fee, CreateCharge(c, fee)
      PROVE  PaymentsInv'
  BY <1>2, CreateStep
<1>3. ASSUME NEW w \in Worker,
             \/ \E op \in Operation, c \in Charge : FetchCharge(w, op, c)
             \/ \E p \in payments : FetchPayment(w, p)
             \/ Abort(w)
      PROVE  PaymentsInv'
  BY <1>3, ReadingSteps
<1>4. ASSUME NEW w \in Worker, Serve(w)
      PROVE  PaymentsInv'
  BY <1>4, ReadingSteps, AdministrativeSteps, CommitStep DEF Serve
<1>5. CASE (\E fix \in AuditFix : AuditOpen(fix)) \/ AuditNext
  BY <1>5, AuditSteps
<1> QED
  BY <1>1, <1>2, <1>3, <1>4, <1>5 DEF Next

\* In every deployment, whatever operations it uses, the tables keep their
\* types (no CHECK constraint ever fires), ...
THEOREM Typing == Spec => []TypeOK
<1>1. Init => PaymentsInv
  BY PaymentsInitially
<1>2. PaymentsInv => TypeOK
  BY DEF PaymentsInv
<1> QED
  BY <1>1, <1>2, PaymentsStep, PTL DEF Spec

\* ... the receipts of the center are exactly 1 .. n, one line each, ...
THEOREM Receipts == Spec => []ReceiptsGapless
<1>1. Init => PaymentsInv
  BY PaymentsInitially
<1>2. PaymentsInv => ReceiptsGapless
  BY DEF PaymentsInv
<1> QED
  BY <1>1, <1>2, PaymentsStep, PTL DEF Spec

\* ... and the row a payment was checked against is the row it is applied to.
THEOREM CheckedRows == Spec => []CheckedRowIsCurrent
<1>1. Init => PaymentsInv
  BY PaymentsInitially
<1>2. PaymentsInv => CheckedRowIsCurrent
  BY DEF PaymentsInv, HandlerOK, CheckedRowIsCurrent
<1> QED
  BY <1>1, <1>2, PaymentsStep, PTL DEF Spec

\* A charge that is closed when a payment commits takes no line.
THEOREM ClosedCharges == Spec => ClosedChargeTakesNoMoney
<1>1. Init => PaymentsInv
  BY PaymentsInitially
<1>2. ASSUME PaymentsInv, [Next]_vars
      PROVE  [\A p \in payments' \ payments : charges[p.charge].status \notin Sticky]_vars
  <2>1. CASE UNCHANGED payments
    BY <2>1
  <2>2. ASSUME NEW w \in Worker, CommitPayment(w)
        PROVE  \A p \in payments' \ payments : charges[p.charge].status \notin Sticky
    <3>1. Collectable(charges[job[w].charge], job[w].op, job[w].amount)
      BY <1>2, <2>2, CommitStep
    <3>2. \A p \in payments' \ payments : p.charge = job[w].charge
      BY <2>2, SMTT(60) DEF CommitPayment, LedgerLine
    <3> QED
      BY <3>1, <3>2 DEF Collectable
  <2>3. UNCHANGED payments \/ \E w \in Worker : CommitPayment(w)
    BY <1>2, ZenonT(60) DEF Next, Serve, CreateCharge, FetchCharge, FetchPayment, LockCharge, RefusePayment,
                TakeReceiptNumber, Abort, UpdateCharge, RefuseUpdate, WaiveCharge, CancelCharge,
                RefuseCancel, AuditOpen, AuditNext, AuditCompare, AuditFixTotal, AuditCrash,
                AuditStatus, AuditClose, vars
  <2> QED
    BY <2>1, <2>2, <2>3
<1> QED
  BY <1>1, <1>2, PaymentsStep, PTL DEF Spec, ClosedChargeTakesNoMoney

-----------------------------------------------------------------------------
(* Collecting without the services that write stale rows *)

Collection == Operation \cap {"UPDATE", "RECALCULATE"} = {}

\* Handlers only do what the deployment exercises.
OperationsOK ==
    /\ "RECALCULATE" \in Operation \/ audit.step = "idle"
    /\ \A w \in Worker : pc[w] # "idle" => job[w].op \in Operation

CollectionInv == PaymentsInv /\ OperationsOK

LEMMA CollectionInitially == Init => CollectionInv
BY PaymentsInitially DEF Init, CollectionInv, OperationsOK, NoAudit

LEMMA CollectionStep == CollectionInv /\ [Next]_vars => CollectionInv'
<1> SUFFICES ASSUME CollectionInv, [Next]_vars
             PROVE  OperationsOK'
  BY PaymentsStep DEF CollectionInv
<1>0. pc \in [Worker -> Step] /\ job \in [Worker -> Job \cup {NoJob}] /\ OperationsOK
  BY DEF CollectionInv, PaymentsInv, TypeOK
<1>1. CASE UNCHANGED vars
  BY <1>0, <1>1 DEF vars, OperationsOK
<1>2. ASSUME NEW c \in Charge, NEW fee \in Fee, CreateCharge(c, fee)
      PROVE  OperationsOK'
  BY <1>0, <1>2 DEF CreateCharge, OperationsOK
<1>3. ASSUME NEW w \in Worker, Finish(w), UNCHANGED audit
      PROVE  OperationsOK'
  BY <1>0, <1>3 DEF Finish, OperationsOK
<1>4. ASSUME NEW w \in Worker, \E op \in Operation, c \in Charge : FetchCharge(w, op, c)
      PROVE  OperationsOK'
  BY <1>0, <1>4 DEF FetchCharge, OperationsOK
<1>5. ASSUME NEW w \in Worker, \E p \in payments : FetchPayment(w, p)
      PROVE  OperationsOK'
  BY <1>0, <1>5 DEF FetchPayment, OperationsOK
<1>6. ASSUME NEW w \in Worker, \E amount \in Amount : LockCharge(w, amount)
      PROVE  OperationsOK'
  <2>1. job[w] \in Job
    BY <1>6 DEF LockCharge, CollectionInv, PaymentsInv, HandlerOK
  <2>2. job'[w].op = job[w].op
    BY <1>0, <1>6, <2>1 DEF LockCharge, Job
  <2> QED
    BY <1>0, <1>6, <2>2 DEF LockCharge, OperationsOK
<1>7. ASSUME NEW w \in Worker, TakeReceiptNumber(w)
      PROVE  OperationsOK'
  <2>1. job[w] \in Job
    BY <1>7 DEF TakeReceiptNumber, CollectionInv, PaymentsInv, HandlerOK
  <2>2. job'[w].op = job[w].op
    BY <1>0, <1>7, <2>1, SMTT(60) DEF TakeReceiptNumber, Job
  <2> QED
    BY <1>0, <1>7, <2>2 DEF TakeReceiptNumber, OperationsOK
<1>8. CASE (\E fix \in AuditFix : AuditOpen(fix)) \/ AuditNext
  BY <1>0, <1>8 DEF OperationsOK, AuditOpen, AuditNext, AuditCompare, AuditFixTotal, AuditCrash,
                    AuditStatus, AuditClose, NoAudit
<1> QED
  BY <1>1, <1>2, <1>3, <1>4, <1>5, <1>6, <1>7, <1>8, ZenonT(60)
     DEF Next, Serve, RefusePayment, CommitPayment, Abort, UpdateCharge, RefuseUpdate, WaiveCharge,
         CancelCharge, RefuseCancel

\* Closing a charge by hand.
CloseByHand ==
    /\ \E c \in Charge, status \in Sticky :
          Issued(c) /\ charges' = [charges EXCEPT ![c].status = status]
    /\ UNCHANGED payments

\* What the steps of collection do to the two tables.
LEMMA CollectionMoves ==
    ASSUME Collection, CollectionInv, [Next]_vars
    PROVE  \/ UNCHANGED <<charges, payments>>
           \/ \E c \in Charge, fee \in Fee : CreateCharge(c, fee)
           \/ \E w \in Worker : CommitPayment(w)
           \/ CloseByHand
<1>1. CASE UNCHANGED vars
  BY <1>1 DEF vars
<1>2. audit.step = "idle" /\ "RECALCULATE" \notin Operation
  BY DEF Collection, CollectionInv, OperationsOK
<1>3. ~AuditNext /\ ~(\E fix \in AuditFix : AuditOpen(fix))
  BY <1>2 DEF AuditOpen, AuditNext, AuditCompare, AuditFixTotal, AuditCrash, AuditStatus, AuditClose
<1>4. ASSUME NEW w \in Worker, WaiveCharge(w) \/ CancelCharge(w)
      PROVE  CloseByHand
  <2>1. job[w].charge \in Charge /\ Issued(job[w].charge)
    BY <1>4 DEF WaiveCharge, CancelCharge, CollectionInv, PaymentsInv, HandlerOK, Job
  <2> QED
    BY <1>4, <2>1 DEF WaiveCharge, CancelCharge, CloseByHand, Sticky
<1>5. ASSUME NEW w \in Worker, NEW due \in Fee, NEW discount \in Fee, UpdateCharge(w, due, discount)
      PROVE  FALSE
  BY <1>5 DEF UpdateCharge, Collection, CollectionInv, OperationsOK
<1> QED
  BY <1>1, <1>3, <1>4, <1>5, ZenonT(60)
     DEF Next, Serve, FetchCharge, FetchPayment, LockCharge, RefusePayment, TakeReceiptNumber,
         Abort, RefuseUpdate, RefuseCancel

\* The ledger's total after a payment commits.
LEMMA LedgerTotalMoves ==
    ASSUME PaymentsInv, NEW w \in Worker, CommitPayment(w), NEW c \in Charge
    PROVE  /\ LedgerTotal(c) \in Int
           /\ LedgerTotal(c)' =
                 IF c # job[w].charge THEN LedgerTotal(c)
                 ELSE IF job[w].op = "PAYMENT" THEN LedgerTotal(c) + job[w].amount
                 ELSE LedgerTotal(c) - job[w].amount
<1> DEFINE line == LedgerLine(w)
           count(kind, lines) == Cardinality(Coins(kind, c, lines))
<1>1. /\ line.charge = job[w].charge
      /\ line.kind = job[w].op
      /\ line.amount = job[w].amount
      /\ line.receipt_number = next_value
      /\ line.amount \in Nat
      /\ job[w].op \in Collecting
  BY CommitStep DEF LedgerLine, Job
<1>2. \A p \in payments : p.receipt_number # line.receipt_number
  <2>1. \A p \in payments : p.receipt_number \in 1 .. (next_value - 1)
    BY DEF PaymentsInv, ReceiptsGapless
  <2> QED
    BY <1>1, <2>1 DEF PaymentsInv, TypeOK
<1>3. payments' = payments \cup {line}
  BY DEF CommitPayment
<1> HIDE DEF line
<1>4. ASSUME NEW kind \in Collecting
      PROVE  /\ count(kind, payments) \in Nat
             /\ line.charge = c /\ line.kind = kind =>
                   count(kind, payments') = count(kind, payments) + line.amount
             /\ ~(line.charge = c /\ line.kind = kind) =>
                   count(kind, payments') = count(kind, payments)
  <2>1. IsFiniteSet(Coins(kind, c, payments))
    BY DEF PaymentsInv
  <2> QED
    BY <1>1, <1>2, <1>3, <2>1, CountingNewLine
<1>5. /\ LedgerTotal(c) = count("PAYMENT", payments) - count("REFUND", payments)
      /\ LedgerTotal(c)' = count("PAYMENT", payments') - count("REFUND", payments')
  BY DEF LedgerTotal
<1>6. "PAYMENT" \in Collecting /\ "REFUND" \in Collecting
  BY DEF Collecting
<1> HIDE DEF count
<1>7. /\ count("PAYMENT", payments) \in Nat
      /\ count("REFUND", payments) \in Nat
  BY <1>4, <1>6
<1>8. CASE c # job[w].charge
  BY <1>1, <1>4, <1>5, <1>6, <1>7, <1>8
<1>9. CASE c = job[w].charge /\ job[w].op = "PAYMENT"
  BY <1>1, <1>4, <1>5, <1>6, <1>7, <1>9
<1>10. CASE c = job[w].charge /\ job[w].op = "REFUND"
  BY <1>1, <1>4, <1>5, <1>6, <1>7, <1>10
<1> QED
  BY <1>1, <1>8, <1>9, <1>10 DEF Collecting

\* What the commit of a payment does to its charge and to the ledger.
LEMMA PaymentCommits ==
    ASSUME PaymentsInv, NEW w \in Worker, CommitPayment(w), NEW c, c = job[w].charge
    PROVE  /\ c \in Charge
           /\ charges[c] \in MonthlyCharge
           /\ Issued(c)
           /\ job[w].amount \in Amount /\ job[w].amount \in Nat
           /\ job[w].op \in Collecting
           /\ Collectable(charges[c], job[w].op, job[w].amount)
           /\ \A d \in Charge : d # c => charges'[d] = charges[d] /\ LedgerTotal(d)' = LedgerTotal(d)
           /\ charges'[c] = Collected(charges[c], job[w].op, job[w].amount)
           /\ charges'[c] \in MonthlyCharge
           /\ charges'[c].amount_due = charges[c].amount_due
           /\ charges'[c].discount_amount = charges[c].discount_amount
           /\ charges'[c].total_paid =
                 IF job[w].op = "PAYMENT" THEN charges[c].total_paid + job[w].amount
                 ELSE charges[c].total_paid - job[w].amount
           /\ LedgerTotal(c) \in Int
           /\ LedgerTotal(c)' =
                 IF job[w].op = "PAYMENT" THEN LedgerTotal(c) + job[w].amount
                 ELSE LedgerTotal(c) - job[w].amount
<1>1. /\ job[w] \in Job
      /\ c \in Charge
      /\ charges[c] \in MonthlyCharge
      /\ job[w].amount \in Amount
      /\ job[w].op \in Collecting
      /\ Collectable(charges[c], job[w].op, job[w].amount)
  BY CommitStep DEF Job
<1>2. Issued(c) /\ job[w].amount \in Nat
  BY <1>1, NullRows DEF Issued, Job
<1>3. /\ \A d \in Charge : d # c => charges'[d] = charges[d]
      /\ charges'[c] = Collected(charges[c], job[w].op, job[w].amount)
  BY <1>1 DEF CommitPayment, PaymentsInv, TypeOK
<1>4. /\ charges'[c] \in MonthlyCharge
      /\ charges'[c].amount_due = charges[c].amount_due
      /\ charges'[c].discount_amount = charges[c].discount_amount
      /\ charges'[c].total_paid =
            IF job[w].op = "PAYMENT" THEN charges[c].total_paid + job[w].amount
            ELSE charges[c].total_paid - job[w].amount
  BY <1>1, <1>2, <1>3, CollectedRow
<1>5. /\ \A d \in Charge : d # c => LedgerTotal(d)' = LedgerTotal(d)
      /\ LedgerTotal(c) \in Int
      /\ LedgerTotal(c)' =
            IF job[w].op = "PAYMENT" THEN LedgerTotal(c) + job[w].amount
            ELSE LedgerTotal(c) - job[w].amount
  BY <1>1, LedgerTotalMoves
<1> QED
  BY <1>1, <1>2, <1>3, <1>4, <1>5

\* The stored amounts of a charge never leave less than nothing to pay.
StoredWithinNet ==
    ~AllowOverpayment =>
        \A c \in Charge : Issued(c) =>
            charges[c].total_paid <= charges[c].amount_due - charges[c].discount_amount

\* A charge that was never billed has an empty ledger.
UnbilledHoldsNothing == \A c \in Charge : ~Issued(c) => LedgerTotal(c) = 0

BalanceInv == CollectionInv /\ LedgerBalanced /\ StoredWithinNet /\ UnbilledHoldsNothing

LEMMA BalanceInitially == Init => BalanceInv
<1> SUFFICES ASSUME Init PROVE BalanceInv
  OBVIOUS
<1>1. \A c \in Charge : ~Issued(c)
  BY DEF Init, Issued
<1>2. \A c \in Charge : LedgerTotal(c) = 0
  <2> TAKE c \in Charge
  <2>1. Coins("PAYMENT", c, payments) = {} /\ Coins("REFUND", c, payments) = {}
    BY NoCoins DEF Init
  <2> QED
    BY <2>1, FS_EmptySet DEF LedgerTotal
<1> QED
  BY <1>1, <1>2, CollectionInitially DEF BalanceInv, LedgerBalanced, StoredWithinNet, UnbilledHoldsNothing

LEMMA BalanceStep ==
    ASSUME Collection
    PROVE  BalanceInv /\ [Next]_vars => BalanceInv'
<1> SUFFICES ASSUME BalanceInv, [Next]_vars
             PROVE  LedgerBalanced' /\ StoredWithinNet' /\ UnbilledHoldsNothing'
  BY CollectionStep DEF BalanceInv
<1>0. /\ PaymentsInv /\ CollectionInv
      /\ \A c \in Charge : Issued(c) => charges[c] \in MonthlyCharge
  BY DEF BalanceInv, CollectionInv, PaymentsInv, TypeOK, Issued
<1>1. CASE UNCHANGED <<charges, payments>>
  BY <1>1 DEF BalanceInv, LedgerBalanced, StoredWithinNet, UnbilledHoldsNothing, LedgerTotal, Issued
<1>2. ASSUME NEW c \in Charge, NEW fee \in Fee, CreateCharge(c, fee)
      PROVE  LedgerBalanced' /\ StoredWithinNet' /\ UnbilledHoldsNothing'
  <2>1. \A d \in Charge : LedgerTotal(d)' = LedgerTotal(d)
    BY <1>2 DEF CreateCharge, LedgerTotal
  <2>2. /\ \A d \in Charge : d # c => charges'[d] = charges[d]
        /\ charges'[c] = [amount_due |-> fee, discount_amount |-> 0, total_paid |-> 0, status |-> "UNPAID"]
        /\ ~Issued(c)
    BY <1>0, <1>2 DEF CreateCharge, PaymentsInv, TypeOK
  <2>3. /\ charges'[c].total_paid = 0
        /\ charges'[c].amount_due - charges'[c].discount_amount >= 0
    BY <2>2, PaymentsAssumption
  <2>4. /\ charges'[c].amount_due - charges'[c].discount_amount \in Int
        /\ charges'[c] # NoCharge
    <3>1. charges'[c] \in MonthlyCharge
      BY <2>2, PaymentsAssumption DEF MonthlyCharge, Status
    <3> QED
      BY <3>1, NullRows DEF MonthlyCharge
  <2>5. LedgerTotal(c) = 0
    BY <2>2 DEF BalanceInv, UnbilledHoldsNothing
  <2> QED
    BY <2>1, <2>2, <2>3, <2>4, <2>5
       DEF BalanceInv, LedgerBalanced, StoredWithinNet, UnbilledHoldsNothing, Issued
<1>3. ASSUME NEW w \in Worker, CommitPayment(w)
      PROVE  LedgerBalanced' /\ StoredWithinNet' /\ UnbilledHoldsNothing'
  <2> PICK c : c = job[w].charge
    OBVIOUS
  <2>1. /\ c \in Charge
        /\ charges[c] \in MonthlyCharge
        /\ job[w].amount \in Nat
        /\ job[w].op \in Collecting
        /\ Collectable(charges[c], job[w].op, job[w].amount)
        /\ Issued(c)
        /\ \A d \in Charge : d # c => charges'[d] = charges[d] /\ LedgerTotal(d)' = LedgerTotal(d)
    BY <1>0, <1>3, PaymentCommits
  <2>2. /\ charges'[c] \in MonthlyCharge
        /\ charges'[c].amount_due = charges[c].amount_due
        /\ charges'[c].discount_amount = charges[c].discount_amount
        /\ charges'[c].total_paid =
              IF job[w].op = "PAYMENT" THEN charges[c].total_paid + job[w].amount
              ELSE charges[c].total_paid - job[w].amount
        /\ LedgerTotal(c)' =
              IF job[w].op = "PAYMENT" THEN LedgerTotal(c) + job[w].amount
              ELSE LedgerTotal(c) - job[w].amount
    BY <1>0, <1>3, PaymentCommits
  <2>3. LedgerTotal(c) = charges[c].total_paid
    BY <2>1 DEF BalanceInv, LedgerBalanced
  <2>4. LedgerTotal(c)' = charges'[c].total_paid
    BY <2>2, <2>3
  <2>5. /\ \A d \in Charge : d # c => (Issued(d)' <=> Issued(d))
        /\ Issued(c)'
    BY <2>1, <2>2, NullRows DEF Issued
  <2>6. LedgerBalanced' /\ UnbilledHoldsNothing'
    BY <2>1, <2>4, <2>5 DEF BalanceInv, LedgerBalanced, UnbilledHoldsNothing, Issued
  <2>7. ASSUME ~AllowOverpayment
        PROVE  charges'[c].total_paid <= charges'[c].amount_due - charges'[c].discount_amount
    <3>1. charges[c].total_paid <= charges[c].amount_due - charges[c].discount_amount
      BY <2>1, <2>7 DEF BalanceInv, StoredWithinNet
    <3>2. CASE job[w].op = "PAYMENT"
      BY <2>1, <2>2, <2>7, <3>2 DEF Collectable, Balance, MonthlyCharge
    <3>3. CASE job[w].op = "REFUND"
      BY <2>1, <2>2, <3>1, <3>3 DEF MonthlyCharge
    <3> QED
      BY <2>1, <3>2, <3>3 DEF Collecting
  <2>8. StoredWithinNet'
    BY <2>1, <2>5, <2>7 DEF BalanceInv, StoredWithinNet
  <2> QED
    BY <2>6, <2>8
<1>4. CASE CloseByHand
  <2> PICK c \in Charge, status \in Sticky :
             Issued(c) /\ charges' = [charges EXCEPT ![c].status = status]
    BY <1>4 DEF CloseByHand
  <2>1. \A d \in Charge : LedgerTotal(d)' = LedgerTotal(d)
    BY <1>4 DEF CloseByHand, LedgerTotal
  <2>2. /\ \A d \in Charge : d # c => charges'[d] = charges[d]
        /\ charges'[c] = [charges[c] EXCEPT !.status = status]
    BY <1>0 DEF PaymentsInv, TypeOK
  <2>3. /\ charges'[c].amount_due = charges[c].amount_due
        /\ charges'[c].discount_amount = charges[c].discount_amount
        /\ charges'[c].total_paid = charges[c].total_paid
        /\ charges'[c] # NoCharge
    <3>1. charges[c] \in MonthlyCharge
      BY <1>0
    <3>2. charges'[c] \in MonthlyCharge
      BY <2>2, <3>1 DEF MonthlyCharge, Status
    <3> QED
      BY <2>2, <3>1, <3>2, NullRows DEF MonthlyCharge
  <2> QED
    BY <2>1, <2>2, <2>3 DEF BalanceInv, LedgerBalanced, StoredWithinNet, UnbilledHoldsNothing, Issued
<1> QED
  BY <1>0, <1>1, <1>2, <1>3, <1>4, CollectionMoves

\* Where nobody edits charges and no drift check repairs them, the stored
\* total is the ledger's, ...
THEOREM Balanced ==
    ASSUME Collection
    PROVE  Spec => []LedgerBalanced
<1>1. Init => BalanceInv
  BY BalanceInitially
<1>2. BalanceInv /\ [Next]_vars => BalanceInv'
  BY BalanceStep
<1>3. BalanceInv => LedgerBalanced
  BY DEF BalanceInv
<1> QED
  BY <1>1, <1>2, <1>3, PTL DEF Spec

\* ... and no cashier collects more than the net fee unless the center allows it.
THEOREM NoOverpayment ==
    ASSUME Collection
    PROVE  Spec => []NeverOverpaid
<1>1. Init => BalanceInv
  BY BalanceInitially
<1>2. BalanceInv /\ [Next]_vars => BalanceInv'
  BY BalanceStep
<1>3. BalanceInv => NeverOverpaid
  BY DEF BalanceInv, LedgerBalanced, StoredWithinNet, NeverOverpaid
<1> QED
  BY <1>1, <1>2, <1>3, PTL DEF Spec

-----------------------------------------------------------------------------
(* Statuses *)

\* A status that recalculate_status left is the one it leaves again.
LEMMA DerivedTwice ==
    ASSUME NEW row \in MonthlyCharge
    PROVE  Derived(row).status = RecalculateStatus(Derived(row))
<1>1. Derived(row) = [row EXCEPT !.status = RecalculateStatus(row)]
  BY DEF Derived
<1>2. /\ Derived(row).amount_due = row.amount_due
      /\ Derived(row).discount_amount = row.discount_amount
      /\ Derived(row).total_paid = row.total_paid
      /\ Derived(row).status = RecalculateStatus(row)
  BY <1>1 DEF MonthlyCharge
<1> QED
  BY <1>2 DEF RecalculateStatus, Sticky, MonthlyCharge

\* A commit leaves the status of what was collected.
LEMMA CollectedStatus ==
    ASSUME PaymentsInv, NEW w \in Worker, CommitPayment(w)
    PROVE  charges'[job[w].charge].status = RecalculateStatus(charges'[job[w].charge])
<1> PICK c : c = job[w].charge
  OBVIOUS
<1> DEFINE moved == [charges[c] EXCEPT !.total_paid = IF job[w].op = "PAYMENT" THEN @ + job[w].amount
                                                     ELSE @ - job[w].amount]
<1>1. /\ charges[c] \in MonthlyCharge
      /\ job[w].amount \in Nat
      /\ Collectable(charges[c], job[w].op, job[w].amount)
      /\ job[w].op \in Collecting
      /\ charges'[c] = Collected(charges[c], job[w].op, job[w].amount)
  BY PaymentCommits
<1>2. moved \in MonthlyCharge
  BY <1>1 DEF Collectable, Collecting, MonthlyCharge
<1>3. charges'[c] = Derived(moved)
  BY <1>1 DEF Collected
<1> QED
  BY <1>2, <1>3, DerivedTwice

StatusInv == CollectionInv /\ StatusDerived

\* One row is written with the status its amounts imply.
LEMMA RowWithItsStatus ==
    ASSUME StatusInv, NEW c \in Charge,
           \A d \in Charge : d # c => charges'[d] = charges[d],
           charges'[c].status = RecalculateStatus(charges'[c])
    PROVE  StatusDerived'
BY DEF StatusInv, StatusDerived, Issued

LEMMA StatusStep ==
    ASSUME "RECALCULATE" \notin Operation
    PROVE  StatusInv /\ [Next]_vars => StatusInv'
<1> SUFFICES ASSUME StatusInv, [Next]_vars
             PROVE  StatusDerived'
  BY CollectionStep DEF StatusInv
<1>0. /\ PaymentsInv /\ charges \in [Charge -> MonthlyCharge \cup {NoCharge}]
      /\ audit.step = "idle"
  BY DEF StatusInv, CollectionInv, OperationsOK, PaymentsInv, TypeOK
<1>1. CASE UNCHANGED charges
  BY <1>1 DEF StatusInv, StatusDerived, Issued
<1>2. ASSUME NEW c \in Charge, NEW fee \in Fee, CreateCharge(c, fee)
      PROVE  StatusDerived'
  <2>1. charges'[c] = [amount_due |-> fee, discount_amount |-> 0, total_paid |-> 0, status |-> "UNPAID"]
    BY <1>0, <1>2 DEF CreateCharge
  <2>2. charges'[c].status = RecalculateStatus(charges'[c])
    BY <2>1 DEF RecalculateStatus, Sticky
  <2> QED
    BY <1>0, <1>2, <2>2, RowWithItsStatus DEF CreateCharge
<1>3. ASSUME NEW w \in Worker, CommitPayment(w)
      PROVE  StatusDerived'
  <2>1. PICK c : c = job[w].charge
    OBVIOUS
  <2>2. /\ c \in Charge
        /\ \A d \in Charge : d # c => charges'[d] = charges[d]
    BY <1>0, <1>3, <2>1, PaymentCommits
  <2>3. charges'[c].status = RecalculateStatus(charges'[c])
    BY <1>0, <1>3, <2>1, CollectedStatus
  <2> QED
    BY <2>2, <2>3, RowWithItsStatus
<1>4. ASSUME NEW w \in Worker, NEW due \in Fee, NEW discount \in Fee, UpdateCharge(w, due, discount)
      PROVE  StatusDerived'
  <2> PICK c, row : c = job[w].charge /\ row = Edited(job[w].row, due, discount)
    OBVIOUS
  <2>1. c \in Charge /\ job[w].row \in MonthlyCharge
    BY <1>0, <1>4 DEF UpdateCharge, PaymentsInv, HandlerOK, Job
  <2>2. row \in MonthlyCharge
    BY <2>1, PaymentsAssumption DEF Edited, MonthlyCharge
  <2>3. charges' = [charges EXCEPT ![c] = Derived(row)]
    BY <1>4 DEF UpdateCharge
  <2>4. /\ \A d \in Charge : d # c => charges'[d] = charges[d]
        /\ charges'[c] = Derived(row)
    BY <1>0, <2>1, <2>3
  <2> QED
    BY <2>1, <2>2, <2>4, DerivedTwice, RowWithItsStatus
<1>5. CASE CloseByHand
  <2> PICK c \in Charge, status \in Sticky :
             Issued(c) /\ charges' = [charges EXCEPT ![c].status = status]
    BY <1>5 DEF CloseByHand
  <2>1. /\ \A d \in Charge : d # c => charges'[d] = charges[d]
        /\ charges'[c] = [charges[c] EXCEPT !.status = status]
        /\ charges[c] \in MonthlyCharge
    BY <1>0 DEF Issued
  <2>2. charges'[c].status = status
    BY <2>1 DEF MonthlyCharge
  <2>3. charges'[c].status = RecalculateStatus(charges'[c])
    BY <2>2 DEF RecalculateStatus
  <2> QED
    BY <2>1, <2>3, RowWithItsStatus
<1>6. ASSUME NEW w \in Worker, WaiveCharge(w) \/ CancelCharge(w)
      PROVE  CloseByHand
  <2>1. job[w].charge \in Charge /\ Issued(job[w].charge)
    BY <1>0, <1>6 DEF WaiveCharge, CancelCharge, PaymentsInv, HandlerOK, Job
  <2> QED
    BY <1>6, <2>1 DEF WaiveCharge, CancelCharge, CloseByHand, Sticky
<1>7. ~AuditNext /\ ~(\E fix \in AuditFix : AuditOpen(fix))
  BY <1>0 DEF AuditOpen, AuditNext, AuditCompare, AuditFixTotal, AuditCrash, AuditStatus, AuditClose
<1> QED
  BY <1>1, <1>2, <1>3, <1>4, <1>5, <1>6, <1>7, ZenonT(60)
     DEF Next, Serve, FetchCharge, FetchPayment, LockCharge, RefusePayment, TakeReceiptNumber,
         Abort, RefuseUpdate, RefuseCancel, vars

\* Services that write back stale amounts still leave every charge with the
\* status its stored amounts imply; only the drift check, which saves the
\* total before the status, shows one without the other.
THEOREM Statuses ==
    ASSUME "RECALCULATE" \notin Operation
    PROVE  Spec => []StatusDerived
<1>1. Init => StatusInv
  BY CollectionInitially DEF Init, StatusInv, StatusDerived, Issued
<1>2. StatusInv /\ [Next]_vars => StatusInv'
  BY StatusStep
<1>3. StatusInv => StatusDerived
  BY DEF StatusInv
<1> QED
  BY <1>1, <1>2, <1>3, PTL DEF Spec

-----------------------------------------------------------------------------
(* Collecting is collecting on accounts *)

\* The book of accounts that the tables stand for, and its receipts.
Book == [c \in Charge |-> AccountOf(c)]

Printed == Cardinality(payments)

FiniteLedger == IsFiniteSet(payments)

AccountsStep == [Accounts!Next]_<<Book, Printed>>

LEMMA FiniteLedgerStep == FiniteLedger /\ PaymentsInv /\ [Next]_vars => FiniteLedger'
<1> SUFFICES ASSUME FiniteLedger, [Next]_vars
             PROVE  IsFiniteSet(payments')
  BY SMTT(60) DEF FiniteLedger
<1>1. UNCHANGED payments \/ \E line : payments' = payments \cup {line}
  BY ZenonT(60) DEF Next, Serve, CreateCharge, FetchCharge, FetchPayment, LockCharge, RefusePayment,
         TakeReceiptNumber, CommitPayment, Abort, UpdateCharge, RefuseUpdate, WaiveCharge, CancelCharge,
         RefuseCancel, AuditOpen, AuditNext, AuditCompare, AuditFixTotal, AuditCrash,
         AuditStatus, AuditClose, vars
<1> QED
  BY <1>1, FS_AddElement DEF FiniteLedger

\* A charge that was billed has an account.
LEMMA BilledAccount ==
    ASSUME NEW c \in Charge, Issued(c)
    PROVE  /\ AccountOf(c) = [net |-> charges[c].amount_due - charges[c].discount_amount,
                              held |-> LedgerTotal(c), closed |-> charges[c].status \in Sticky]
           /\ AccountOf(c) # [net |-> "NO ACCOUNT"]
<1>1. AccountOf(c) = [net |-> charges[c].amount_due - charges[c].discount_amount,
                      held |-> LedgerTotal(c), closed |-> charges[c].status \in Sticky]
  BY DEF AccountOf
<1>2. "held" \in DOMAIN AccountOf(c)
  BY <1>1
<1>3. "held" \notin DOMAIN [net |-> "NO ACCOUNT"]
  OBVIOUS
<1>4. AccountOf(c) # [net |-> "NO ACCOUNT"]
  BY ONLY <1>2, <1>3
<1> QED
  BY <1>1, <1>4

\* Accounts that are not moved stay as they are.
LEMMA OtherAccounts ==
    ASSUME NEW c \in Charge, charges'[c] = charges[c], LedgerTotal(c)' = LedgerTotal(c)
    PROVE  AccountOf(c)' = AccountOf(c)
BY DEF AccountOf, Issued

\* A book in which one account was written.
LEMMA OneAccountWritten ==
    ASSUME NEW c \in Charge, \A d \in Charge : d # c => AccountOf(d)' = AccountOf(d)
    PROVE  Book' = [Book EXCEPT ![c] = AccountOf(c)']
BY DEF Book

\* Billing opens an account.
LEMMA OpenStep ==
    ASSUME BalanceInv, NEW c \in Charge, NEW fee \in Fee, CreateCharge(c, fee)
    PROVE  AccountsStep
<1>1. /\ charges'[c] = [amount_due |-> fee, discount_amount |-> 0, total_paid |-> 0, status |-> "UNPAID"]
      /\ \A d \in Charge : d # c => charges'[d] = charges[d]
  BY DEF CreateCharge, BalanceInv, CollectionInv, PaymentsInv, TypeOK
<1>2. \A d \in Charge : LedgerTotal(d)' = LedgerTotal(d)
  BY DEF CreateCharge, LedgerTotal
<1>3. ~Issued(c) /\ LedgerTotal(c) = 0
  BY DEF CreateCharge, BalanceInv, UnbilledHoldsNothing
<1>4. Book[c] = [net |-> "NO ACCOUNT"]
  BY <1>3 DEF Book, AccountOf
<1>5. Issued(c)'
  <2>1. charges'[c] \in MonthlyCharge
    BY <1>1, PaymentsAssumption DEF MonthlyCharge, Status
  <2> QED
    BY <2>1, NullRows DEF Issued
<1>6. AccountOf(c)' = [net |-> fee, held |-> 0, closed |-> FALSE]
  <2>1. charges'[c].amount_due - charges'[c].discount_amount = fee
    BY <1>1, PaymentsAssumption
  <2>2. (charges'[c].status \in Sticky) = FALSE
    BY <1>1 DEF Sticky
  <2> QED
    BY <1>2, <1>3, <1>5, <2>1, <2>2 DEF AccountOf
<1>7. Book' = [Book EXCEPT ![c] = [net |-> fee, held |-> 0, closed |-> FALSE]]
  BY <1>1, <1>2, <1>6, OtherAccounts, OneAccountWritten
<1>8. UNCHANGED Printed
  BY DEF CreateCharge, Printed
<1>9. Accounts!Open(c, fee)
  BY <1>4, <1>7, <1>8 DEF Accounts!Open, Accounts!Exists, Accounts!NoAccount, Book, Printed
<1> QED
  BY <1>9 DEF AccountsStep, Accounts!Next

\* record_payment and refund_payment move one account.
LEMMA MoneyStep ==
    ASSUME BalanceInv, FiniteLedger, NEW w \in Worker, CommitPayment(w)
    PROVE  AccountsStep
<1> PICK c : c = job[w].charge
  OBVIOUS
<1> DEFINE amount == job[w].amount
           paid == IF job[w].op = "PAYMENT" THEN LedgerTotal(c) + amount ELSE LedgerTotal(c) - amount
<1>0. PaymentsInv
  BY DEF BalanceInv, CollectionInv
<1>1. /\ c \in Charge
      /\ charges[c] \in MonthlyCharge
      /\ Issued(c)
      /\ amount \in Amount /\ amount \in Nat
      /\ job[w].op \in Collecting
      /\ Collectable(charges[c], job[w].op, amount)
      /\ \A d \in Charge : d # c => charges'[d] = charges[d] /\ LedgerTotal(d)' = LedgerTotal(d)
  BY <1>0, PaymentCommits
<1>2. /\ charges'[c] \in MonthlyCharge
      /\ charges'[c] = Collected(charges[c], job[w].op, amount)
      /\ charges'[c].amount_due = charges[c].amount_due
      /\ charges'[c].discount_amount = charges[c].discount_amount
      /\ LedgerTotal(c)' = paid
  BY <1>0, PaymentCommits
<1>3. Issued(c)'
  BY <1>2, NullRows DEF Issued
<1>4. (charges'[c].status \in Sticky) = FALSE /\ (charges[c].status \in Sticky) = FALSE
  <2>1. charges[c].status \notin Sticky
    BY <1>1 DEF Collectable
  <2> DEFINE moved == [charges[c] EXCEPT !.total_paid = IF job[w].op = "PAYMENT" THEN @ + amount
                                                       ELSE @ - amount]
  <2>2. moved.status = charges[c].status /\ moved \in MonthlyCharge
    BY <1>1 DEF Collectable, Collecting, MonthlyCharge
  <2>3. charges'[c] = [moved EXCEPT !.status = RecalculateStatus(moved)]
    BY <1>2 DEF Collected, Derived
  <2>4. charges'[c].status = RecalculateStatus(moved)
    <3> HIDE DEF moved
    <3> QED
      BY <2>2, <2>3 DEF MonthlyCharge
  <2>5. RecalculateStatus(moved) \in {"UNPAID", "PARTIALLY_PAID", "PAID", "OVERPAID"}
    <3> HIDE DEF moved
    <3> QED
      BY <2>1, <2>2 DEF RecalculateStatus
  <2> QED
    BY <2>1, <2>4, <2>5 DEF Sticky
<1>5. PICK net, open : net = charges[c].amount_due - charges[c].discount_amount /\ open = FALSE
  OBVIOUS
<1>6. AccountOf(c) = [net |-> net, held |-> LedgerTotal(c), closed |-> open]
  BY <1>1, <1>4, <1>5, BilledAccount
<1>7. AccountOf(c)' = [net |-> net, held |-> paid, closed |-> open]
  BY <1>2, <1>3, <1>4, <1>5 DEF AccountOf
<1>8. Book[c] = [net |-> net, held |-> LedgerTotal(c), closed |-> open]
  BY <1>1, <1>6 DEF Book
<1>9. /\ Book[c].net = net /\ Book[c].held = LedgerTotal(c)
      /\ Accounts!IsOpen(c)
      /\ Book' = [Book EXCEPT ![c].held = paid]
  <2>1. Book[c].net = net /\ Book[c].held = LedgerTotal(c) /\ ~Book[c].closed
    BY <1>5, <1>8
  <2>2. Book[c] # [net |-> "NO ACCOUNT"]
    BY <1>1, <1>6, <1>8, BilledAccount, Zenon
  <2>3. Accounts!IsOpen(c)
    BY <2>1, <2>2, Zenon DEF Accounts!IsOpen, Accounts!Exists, Accounts!NoAccount, Book
  <2> HIDE DEF paid
  <2>4. Book' = [Book EXCEPT ![c] = [net |-> net, held |-> paid, closed |-> open]]
    BY <1>1, <1>7, OtherAccounts, OneAccountWritten, Zenon
  <2>5. [Book EXCEPT ![c].held = paid] = [Book EXCEPT ![c] = [Book[c] EXCEPT !.held = paid]]
    OBVIOUS
  <2>6. [[net |-> net, held |-> LedgerTotal(c), closed |-> open] EXCEPT !.held = paid]
          = [net |-> net, held |-> paid, closed |-> open]
    OBVIOUS
  <2>7. [Book EXCEPT ![c].held = paid] = Book'
    BY <1>8, <2>4, <2>5, <2>6, Zenon
  <2> QED
    BY <2>1, <2>3, <2>7, Zenon
<1>10. Printed' = Printed + 1
  <2>1. LedgerLine(w) \notin payments
    <3>1. LedgerLine(w).receipt_number = next_value
      BY <1>0, CommitStep DEF LedgerLine
    <3>2. \A p \in payments : p.receipt_number \in 1 .. (next_value - 1)
      BY <1>0 DEF PaymentsInv, ReceiptsGapless
    <3> QED
      BY <1>0, <3>1, <3>2 DEF PaymentsInv, TypeOK
  <2> QED
    BY <2>1, FS_AddElement DEF FiniteLedger, CommitPayment, Printed
<1>11. LedgerTotal(c) = charges[c].total_paid
  BY <1>1 DEF BalanceInv, LedgerBalanced
<1> HIDE DEF amount
<1>12. CASE job[w].op = "PAYMENT"
  <2>1. AllowOverpayment \/ Book[c].held + amount <= Book[c].net
    <3>1. AllowOverpayment \/ LedgerTotal(c) + amount <= net
      BY <1>1, <1>5, <1>11, <1>12 DEF Collectable, Balance, MonthlyCharge
    <3> QED
      BY <1>9, <3>1
  <2>2. Book' = [Book EXCEPT ![c].held = Book[c].held + amount]
    BY <1>9, <1>12, Zenon
  <2>3. Accounts!Collect(c, amount)
    BY <1>9, <1>10, <2>1, <2>2, Zenon DEF Accounts!Collect, Book, Printed
  <2> QED
    BY <1>1, <2>3 DEF AccountsStep, Accounts!Next
<1>13. CASE job[w].op = "REFUND"
  <2>1. amount <= Book[c].held
    BY <1>1, <1>9, <1>11, <1>13 DEF Collectable
  <2>2. Book' = [Book EXCEPT ![c].held = Book[c].held - amount]
    <3>1. paid = LedgerTotal(c) - amount
      BY <1>13
    <3> HIDE DEF paid
    <3> QED
      BY <1>9, <3>1, Zenon
  <2>3. Accounts!GiveBack(c, amount)
    BY <1>9, <1>10, <2>1, <2>2, Zenon DEF Accounts!GiveBack, Book, Printed
  <2> QED
    BY <1>1, <2>3 DEF AccountsStep, Accounts!Next
<1> QED
  BY <1>1, <1>12, <1>13 DEF Collecting

\* waive_charge and cancel_charge close an open account, or a closed one again.
LEMMA CloseStep ==
    ASSUME BalanceInv, CloseByHand
    PROVE  AccountsStep
<1> PICK c \in Charge, status \in Sticky :
           Issued(c) /\ charges' = [charges EXCEPT ![c].status = status]
  BY DEF CloseByHand
<1>1. /\ charges[c] \in MonthlyCharge
      /\ charges'[c] = [charges[c] EXCEPT !.status = status]
      /\ \A d \in Charge : d # c => charges'[d] = charges[d]
  BY DEF BalanceInv, CollectionInv, PaymentsInv, TypeOK, Issued
<1>2. /\ \A d \in Charge : LedgerTotal(d)' = LedgerTotal(d)
      /\ UNCHANGED Printed
  BY DEF CloseByHand, LedgerTotal, Printed
<1>3. /\ charges'[c].amount_due = charges[c].amount_due
      /\ charges'[c].discount_amount = charges[c].discount_amount
      /\ (charges'[c].status \in Sticky) = TRUE
  BY <1>1 DEF MonthlyCharge
<1>4. Issued(c)'
  <2>1. charges'[c] \in MonthlyCharge
    BY <1>1 DEF MonthlyCharge, Status
  <2> QED
    BY <2>1, NullRows DEF Issued
<1>5. PICK net, open, closed : /\ net = charges[c].amount_due - charges[c].discount_amount
                              /\ open = FALSE /\ closed = TRUE
  OBVIOUS
<1>6. Book' = [Book EXCEPT ![c] = [net |-> net, held |-> LedgerTotal(c), closed |-> closed]]
  <2>1. AccountOf(c)' = [net |-> net, held |-> LedgerTotal(c), closed |-> closed]
    BY <1>2, <1>3, <1>4, <1>5 DEF AccountOf
  <2> QED
    BY <1>1, <1>2, <2>1, OtherAccounts, OneAccountWritten, Zenon
<1>7. CASE charges[c].status \in Sticky
  <2>1. (charges[c].status \in Sticky) = TRUE
    BY <1>7
  <2>2. AccountOf(c) = [net |-> net, held |-> LedgerTotal(c), closed |-> closed]
    BY <1>5, <2>1, BilledAccount
  <2>3. [Book EXCEPT ![c] = AccountOf(c)] = Book
    BY DEF Book
  <2>4. UNCHANGED Book
    BY <1>6, <2>2, <2>3, Zenon
  <2> QED
    BY <1>2, <2>4 DEF AccountsStep
<1>8. CASE charges[c].status \notin Sticky
  <2>1. (charges[c].status \in Sticky) = FALSE
    BY <1>8
  <2>2. AccountOf(c) = [net |-> net, held |-> LedgerTotal(c), closed |-> open]
    BY <1>5, <2>1, BilledAccount
  <2>3. Book[c] = [net |-> net, held |-> LedgerTotal(c), closed |-> open]
    BY <2>2 DEF Book
  <2>4. ~Book[c].closed
    BY <1>5, <2>3
  <2>5. Book[c] # [net |-> "NO ACCOUNT"]
    BY <2>2, <2>3, BilledAccount, Zenon
  <2>6. [Book EXCEPT ![c].closed = closed] = [Book EXCEPT ![c] = [Book[c] EXCEPT !.closed = closed]]
    OBVIOUS
  <2>7. [[net |-> net, held |-> LedgerTotal(c), closed |-> open] EXCEPT !.closed = closed]
          = [net |-> net, held |-> LedgerTotal(c), closed |-> closed]
    OBVIOUS
  <2>8. Book' = [Book EXCEPT ![c].closed = TRUE]
    BY <1>5, <1>6, <2>3, <2>6, <2>7, Zenon
  <2>9. Accounts!IsOpen(c)
    BY <2>4, <2>5, Zenon DEF Accounts!IsOpen, Accounts!Exists, Accounts!NoAccount, Book
  <2>10. Accounts!Close(c)
    BY <1>2, <2>8, <2>9, Zenon DEF Accounts!Close, Book, Printed
  <2> QED
    BY <2>10 DEF AccountsStep, Accounts!Next
<1> QED
  BY <1>7, <1>8

\* Concurrent collecting, refunding, waiving and cancelling is moving
\* accounts one movement at a time, as ChargeAccounts specifies it.
THEOREM CollectionImplements ==
    ASSUME Collection
    PROVE  Spec => CollectionImplementsAccounts
<1>1. Init => BalanceInv /\ FiniteLedger
  BY BalanceInitially, FS_EmptySet DEF Init, FiniteLedger
<1>2. BalanceInv /\ FiniteLedger /\ [Next]_vars => (BalanceInv /\ FiniteLedger)'
  BY BalanceStep, FiniteLedgerStep DEF BalanceInv, CollectionInv
<1>3. Init => Accounts!Init
  <2> SUFFICES ASSUME Init PROVE Accounts!Init
    OBVIOUS
  <2>1. \A c \in Charge : AccountOf(c) = [net |-> "NO ACCOUNT"]
    BY DEF Init, AccountOf, Issued
  <2>2. Cardinality(payments) = 0
    BY FS_EmptySet DEF Init
  <2> QED
    BY <2>1, <2>2 DEF Accounts!Init, Accounts!NoAccount
<1>4. BalanceInv /\ FiniteLedger /\ [Next]_vars => AccountsStep
  <2> SUFFICES ASSUME BalanceInv, FiniteLedger, [Next]_vars
               PROVE  AccountsStep
    OBVIOUS
  <2>1. CASE UNCHANGED <<charges, payments>>
    BY <2>1 DEF AccountsStep, Book, Printed, AccountOf, Issued, LedgerTotal
  <2> QED
    BY <2>1, OpenStep, MoneyStep, CloseStep, CollectionMoves DEF BalanceInv
<1>5. AccountsStep <=> [Accounts!Next]_<<[c \in Charge |-> AccountOf(c)], Cardinality(payments)>>
  BY DEF AccountsStep, Book, Printed
<1> QED
  BY <1>1, <1>2, <1>3, <1>4, <1>5, PTL
     DEF Spec, CollectionImplementsAccounts, Accounts!Spec, Accounts!vars
=============================================================================
