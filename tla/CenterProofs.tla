---------------------------- MODULE CenterProofs -----------------------------
(***************************************************************************)
(* Theorems about the components of Center that add nothing up: the        *)
(* operator's entry into a client, seats, students' records, users,        *)
(* policies, groups and lessons, what a scan is answered with, and the     *)
(* tenant in context.  Each is proved about by itself, for every value of  *)
(* its constants, and then as a scene of the center.  What the center      *)
(* counts is proved about in NumbersProofs.                                *)
(***************************************************************************)
EXTENDS Center, FiniteSets, FiniteSetTheorems, WellFoundedInduction, SequenceTheorems, TLAPS

-----------------------------------------------------------------------------
(* Lemmas *)

LEMMA SmallestIs ==
    ASSUME NEW S, S \subseteq Nat, S # {}
    PROVE  /\ records!Min(S) \in S /\ \A y \in S : records!Min(S) <= y
           /\ academics!Min(S) = records!Min(S) /\ gates!Min(S) = records!Min(S)
<1> DEFINE R == OpToRel(<, Nat)
<1>1. IsWellFoundedOn(R, Nat)
  BY NatLessThanWellFounded
<1>2. \A x, y \in Nat : x < y => <<x, y>> \in R
  BY DEF OpToRel
<1> HIDE DEF R
<1>3. PICK x \in S : \A y \in S : <<y, x>> \notin R
  BY <1>1, WFMin
<1>4. \A y \in S : x <= y
  <2> TAKE y \in S
  <2>1. x \in Nat /\ y \in Nat /\ ~(y < x)
    BY <1>2, <1>3
  <2> QED
    BY <2>1
<1> QED
  BY <1>4 DEF records!Min, academics!Min, gates!Min

-----------------------------------------------------------------------------
(* Student records *)

\* A request that works on a student.
RecordsJob ==
    [step : {"patching", "changing"}, code : records!Code, read : records!Student,
     status : records!Status \cup {"same"}, overtaken : BOOLEAN]

RecordsTyped ==
    /\ students \in [records!Code -> records!Student \cup {records!Nobody}]
    /\ next \in 1 .. MaxCode + 1
    /\ received \in 0 .. MaxRecordRequests
    /\ tx \in [Worker -> RecordsJob \cup {records!Idle}]

\* An instance that was not overtaken is the row.
RecordsCurrent ==
    \A r \in Worker : tx[r] # records!Idle =>
        /\ students[tx[r].code] # records!Nobody
        /\ tx[r].step = "changing" => tx[r].status # "same"
        /\ ~tx[r].overtaken => students[tx[r].code] = tx[r].read

RecordsInv == RecordsTyped /\ records!NoGaps /\ RecordsCurrent

LEMMA RecordsAreDistinct ==
    /\ \A job \in RecordsJob : job # records!Idle
    /\ \A student \in records!Student : student # records!Nobody
    /\ records!Idle.step = "idle"
<1>1. \A job \in RecordsJob : job.step # "idle"
  BY DEF RecordsJob
<1>2. records!Idle.step = "idle"
  BY DEF records!Idle
<1>3. \A student \in records!Student : student.status # "none"
  BY DEF records!Student, records!Status
<1>4. records!Nobody.status = "none"
  BY DEF records!Nobody
<1> QED
  BY <1>1, <1>2, <1>3, <1>4, Zenon

LEMMA RecordsInitially ==
    ASSUME records!StudentRecordsAssumption, records!Init
    PROVE  RecordsInv
<1>1. MaxCode \in Nat /\ MaxRecordRequests \in Nat
  BY DEF records!StudentRecordsAssumption
<1>2. RecordsTyped
  BY <1>1 DEF records!Init, RecordsTyped
<1>3. records!NoGaps
  BY DEF records!Init, records!NoGaps
<1>4. RecordsCurrent
  BY DEF records!Init, RecordsCurrent
<1> QED
  BY <1>2, <1>3, <1>4 DEF RecordsInv

\* What a creation writes.
LEMMA NewStudent == [status |-> "ACTIVE", name |-> "old"] \in records!Student
  BY DEF records!Student, records!Status

\* A code that nobody has is given away; the numbers up to it are taken.
LEMMA RecordsCreated ==
    ASSUME RecordsInv, NEW code \in records!Code, students[code] = records!Nobody,
           students' = [students EXCEPT ![code] = [status |-> "ACTIVE", name |-> "old"]],
           next' \in 1 .. MaxCode + 1, \A k \in Nat : k >= next /\ k < next' => k \in records!Taken \cup {code},
           received' \in 0 .. MaxRecordRequests, tx' = tx, MaxCode \in Nat
    PROVE  RecordsInv'
<1> DEFINE new == [status |-> "ACTIVE", name |-> "old"]
<1>1. new \in records!Student /\ new # records!Nobody
  BY NewStudent, RecordsAreDistinct
<1> HIDE DEF new
<1>2. \A c \in records!Code : students'[c] = IF c = code THEN new ELSE students[c]
  BY DEF RecordsInv, RecordsTyped, new
<1>3. RecordsTyped'
  BY <1>1 DEF RecordsInv, RecordsTyped, new
<1>4. records!Taken' = records!Taken \cup {code}
  BY <1>1, <1>2 DEF records!Taken
<1>5. records!NoGaps'
  <2> SUFFICES ASSUME NEW n \in 1 .. next' - 1
               PROVE  n \in records!Taken'
    BY DEF records!NoGaps
  <2>0. \A a \in Nat : \A b \in 1 .. a - 1 : b \in Nat /\ b >= 1 /\ b < a
    OBVIOUS
  <2>1. next \in Nat /\ next' \in Nat /\ n \in Nat /\ n >= 1 /\ n < next'
    <3>1. next \in 1 .. MaxCode + 1
      BY DEF RecordsInv, RecordsTyped
    <3>2. next \in Nat /\ next' \in Nat
      BY <3>1
    <3> QED
      BY <2>0, <3>2, Zenon
  <2>2. CASE n >= next
    BY <2>1, <2>2, <1>4
  <2>3. CASE n < next
    BY <2>1, <2>3, <1>4 DEF RecordsInv, records!NoGaps
  <2> QED
    BY <2>1, <2>2, <2>3
<1>6. RecordsCurrent'
  <2> SUFFICES ASSUME NEW r \in Worker, tx[r] # records!Idle
               PROVE  /\ students'[tx[r].code] # records!Nobody
                      /\ tx[r].step = "changing" => tx[r].status # "same"
                      /\ ~tx[r].overtaken => students'[tx[r].code] = tx[r].read
    BY DEF RecordsCurrent
  <2>1. tx[r].code \in records!Code /\ tx[r].code # code
    BY DEF RecordsInv, RecordsTyped, RecordsCurrent, RecordsJob
  <2>2. students'[tx[r].code] = students[tx[r].code]
    BY <2>1, <1>2
  <2> QED
    BY <2>2 DEF RecordsInv, RecordsCurrent
<1> QED
  BY <1>3, <1>5, <1>6 DEF RecordsInv

\* What a request that works on a student holds of it.
LEMMA WorkingIs ==
    ASSUME RecordsInv, NEW code \in records!Taken, NEW status \in records!Status \cup {"same"},
           NEW step \in {"patching", "changing"}
    PROVE  /\ records!Working(step, code, status) \in RecordsJob
           /\ records!Working(step, code, status).step = step
           /\ records!Working(step, code, status).code = code
           /\ records!Working(step, code, status).read = students[code]
           /\ records!Working(step, code, status).status = status
<1>1. code \in records!Code /\ students[code] # records!Nobody /\ students[code] \in records!Student
  BY DEF records!Taken, RecordsInv, RecordsTyped
<1> PICK read \in records!Student : read = students[code]
  BY <1>1
<1> PICK no \in BOOLEAN : no = FALSE
  OBVIOUS
<1>2. records!Working(step, code, status) =
        [step |-> step, code |-> code, read |-> read, status |-> status, overtaken |-> no]
  BY Zenon DEF records!Working
<1> QED
  BY <1>1, <1>2 DEF RecordsJob

\* A request begins to work on a student.
LEMMA RecordsRead ==
    ASSUME RecordsInv, NEW r \in Worker, NEW code \in records!Taken,
           NEW status \in records!Status \cup {"same"}, NEW step \in {"patching", "changing"},
           step = "changing" => status # "same",
           tx' = [tx EXCEPT ![r] = records!Working(step, code, status)],
           students' = students, next' = next, received' \in 0 .. MaxRecordRequests
    PROVE  RecordsInv'
<1> DEFINE work == records!Working(step, code, status)
<1>1. /\ work \in RecordsJob /\ work.step = step /\ work.code = code
      /\ work.read = students[code] /\ work.status = status
  BY WorkingIs
<1>2. students[code] # records!Nobody
  BY DEF records!Taken
<1> HIDE DEF work
<1>3. \A q \in Worker : tx'[q] = IF q = r THEN work ELSE tx[q]
  BY DEF RecordsInv, RecordsTyped, work
<1>4. RecordsTyped'
  BY <1>1 DEF RecordsInv, RecordsTyped, work
<1>5. RecordsCurrent'
  BY <1>1, <1>2, <1>3 DEF RecordsInv, RecordsCurrent
<1> QED
  BY <1>4, <1>5 DEF RecordsInv, records!NoGaps, records!Taken

\* Whoever else works on the student is overtaken by a save of it.
LEMMA OvertakenIs ==
    ASSUME RecordsInv, NEW r \in Worker, NEW code \in records!Code,
           tx' = records!Overtaken(r, code)
    PROVE  /\ tx' \in [Worker -> RecordsJob \cup {records!Idle}]
           /\ tx'[r] = records!Idle
           /\ \A q \in Worker : tx'[q] # records!Idle =>
                /\ tx[q] # records!Idle /\ tx'[q].code = tx[q].code /\ tx'[q].read = tx[q].read
                /\ tx'[q].step = tx[q].step /\ tx'[q].status = tx[q].status
                /\ ~tx'[q].overtaken => ~tx[q].overtaken /\ tx[q].code # code
<1> PICK yes \in BOOLEAN : yes = TRUE
  OBVIOUS
<1> DEFINE over(job) == [job EXCEPT !.overtaken = yes]
<1>1. \A job \in RecordsJob :
        /\ over(job) \in RecordsJob /\ over(job).code = job.code /\ over(job).read = job.read
        /\ over(job).step = job.step /\ over(job).status = job.status /\ over(job).overtaken = yes
  BY DEF RecordsJob
<1> HIDE DEF over
<1>2. \A q \in Worker : tx[q] = records!Idle \/ tx[q] \in RecordsJob
  BY DEF RecordsInv, RecordsTyped
<1>3. tx' = [q \in Worker |->
        IF q = r THEN records!Idle
        ELSE IF tx[q] # records!Idle /\ tx[q].code = code THEN over(tx[q]) ELSE tx[q]]
  BY Zenon DEF records!Overtaken, over
<1>4. tx' \in [Worker -> RecordsJob \cup {records!Idle}] /\ tx'[r] = records!Idle
  BY <1>1, <1>2, <1>3
<1>5. ASSUME NEW q \in Worker, tx'[q] # records!Idle
      PROVE  /\ tx[q] # records!Idle /\ tx[q] \in RecordsJob
             /\ tx'[q] = IF tx[q].code = code THEN over(tx[q]) ELSE tx[q]
  BY <1>2, <1>3, <1>5
<1>6. ASSUME NEW q \in Worker, tx'[q] # records!Idle
      PROVE  /\ tx[q] # records!Idle /\ tx'[q].code = tx[q].code /\ tx'[q].read = tx[q].read
             /\ tx'[q].step = tx[q].step /\ tx'[q].status = tx[q].status
             /\ ~tx'[q].overtaken => ~tx[q].overtaken /\ tx[q].code # code
  <2>1. CASE tx[q].code = code
    <3>1. tx'[q] = over(tx[q]) /\ tx[q] \in RecordsJob /\ tx[q] # records!Idle
      BY <1>5, <1>6, <2>1
    <3>2. tx'[q].overtaken = TRUE
      BY <3>1, <1>1
    <3> QED
      BY <3>1, <3>2, <1>1, Zenon
  <2>2. CASE tx[q].code # code
    <3>1. tx'[q] = tx[q] /\ tx[q] # records!Idle
      BY <1>5, <1>6, <2>2
    <3> QED
      BY <3>1, <2>2, Zenon
  <2> QED
    BY <2>1, <2>2
<1> QED
  BY <1>4, <1>6

\* A request saves the student it works on.
LEMMA RecordsSaved ==
    ASSUME RecordsInv, NEW r \in Worker, tx[r] # records!Idle, NEW new \in records!Student,
           students' = [students EXCEPT ![tx[r].code] = new], tx' = records!Overtaken(r, tx[r].code),
           next' = next, received' = received
    PROVE  RecordsInv'
<1>1. tx[r].code \in records!Code
  BY DEF RecordsInv, RecordsTyped, RecordsJob
<1>2. \A c \in records!Code : students'[c] = IF c = tx[r].code THEN new ELSE students[c]
  BY DEF RecordsInv, RecordsTyped
<1>3. new # records!Nobody
  BY RecordsAreDistinct
<1>4. /\ tx' \in [Worker -> RecordsJob \cup {records!Idle}]
      /\ \A q \in Worker : tx'[q] # records!Idle =>
           /\ tx[q] # records!Idle /\ tx'[q].code = tx[q].code /\ tx'[q].read = tx[q].read
           /\ tx'[q].step = tx[q].step /\ tx'[q].status = tx[q].status
           /\ ~tx'[q].overtaken => ~tx[q].overtaken /\ tx[q].code # tx[r].code
  BY <1>1, OvertakenIs
<1>5. RecordsTyped'
  BY <1>4 DEF RecordsInv, RecordsTyped
<1>6. records!NoGaps'
  <2>1. records!Taken \subseteq records!Taken'
    BY <1>2, <1>3 DEF records!Taken
  <2> QED
    BY <2>1 DEF RecordsInv, records!NoGaps
<1>7. RecordsCurrent'
  <2> SUFFICES ASSUME NEW q \in Worker, tx'[q] # records!Idle
               PROVE  /\ students'[tx'[q].code] # records!Nobody
                      /\ tx'[q].step = "changing" => tx'[q].status # "same"
                      /\ ~tx'[q].overtaken => students'[tx'[q].code] = tx'[q].read
    BY DEF RecordsCurrent
  <2>1. tx[q] # records!Idle /\ tx[q].code \in records!Code
    BY <1>4 DEF RecordsInv, RecordsTyped, RecordsJob
  <2>2. /\ students[tx[q].code] # records!Nobody
        /\ tx[q].step = "changing" => tx[q].status # "same"
        /\ ~tx[q].overtaken => students[tx[q].code] = tx[q].read
    BY <2>1 DEF RecordsInv, RecordsCurrent
  <2>3. students'[tx[q].code] = IF tx[q].code = tx[r].code THEN new ELSE students[tx[q].code]
    BY <2>1, <1>2
  <2> QED
    BY <2>2, <2>3, <1>3, <1>4, ZenonT(60)
<1> QED
  BY <1>5, <1>6, <1>7 DEF RecordsInv

LEMMA RecordsStep ==
    ASSUME records!StudentRecordsAssumption, RecordsInv, records!Next
    PROVE  RecordsInv' /\ records!RecordsAreDecided
<1>1. /\ MaxCode \in Nat /\ MaxRecordRequests \in Nat /\ Attempts \in Nat \ {0}
      /\ received \in Nat /\ received <= MaxRecordRequests /\ next \in 1 .. MaxCode + 1
  BY DEF records!StudentRecordsAssumption, RecordsInv, RecordsTyped
<1>2. ASSUME NEW r \in Worker, records!Receives(r)
      PROVE  received' \in 0 .. MaxRecordRequests
  BY <1>1, <1>2 DEF records!Receives
<1>3. ASSUME \A code \in records!Taken : students'[code] = students[code]
      PROVE  records!RecordsAreDecided
  BY <1>3 DEF records!RecordsAreDecided
<1>4. ASSUME NEW r \in Worker, NEW code \in records!Code, records!CreateWithCode(r, code)
      PROVE  RecordsInv' /\ records!RecordsAreDecided
  <2>1. students[code] = records!Nobody
    BY <1>4 DEF records!CreateWithCode, records!Taken
  <2>2. RecordsInv'
    <3>1. /\ students' = [students EXCEPT ![code] = [status |-> "ACTIVE", name |-> "old"]]
          /\ next' = next /\ tx' = tx /\ received' \in 0 .. MaxRecordRequests
      BY <1>2, <1>4 DEF records!CreateWithCode
    <3>2. \A k \in Nat : ~(k >= next /\ k < next)
      BY <1>1
    <3>3. next' \in 1 .. MaxCode + 1 /\ \A k \in Nat : ~(k >= next /\ k < next')
      BY <1>1, <3>1, <3>2, Zenon
    <3> QED
      BY <1>1, <2>1, <3>1, <3>3, RecordsCreated, Zenon
  <2>3. \A c \in records!Taken : students'[c] = students[c]
    BY <1>4 DEF records!CreateWithCode, records!Taken, RecordsInv, RecordsTyped
  <2> QED
    BY <2>2, <2>3, <1>3
<1>5. ASSUME NEW r \in Worker, records!Create(r)
      PROVE  RecordsInv' /\ records!RecordsAreDecided
  <2> DEFINE free == records!Tried \ records!Taken
  <2>1. free \subseteq Nat /\ \A n \in free : next <= n /\ n < next + Attempts /\ n \in records!Code
    BY <1>1, <1>5 DEF records!Create, records!Tried, records!Code
  <2>2. CASE free = {}
    <3>1. students' = students /\ next' = next /\ tx' = tx
      BY <1>5, <2>2 DEF records!Create
    <3>2. RecordsInv'
      BY <3>1, <1>2, <1>5 DEF records!Create, RecordsInv, RecordsTyped, RecordsCurrent, records!NoGaps, records!Taken
    <3> QED
      BY <3>1, <3>2, <1>3
  <2>3. CASE free # {}
    <3> DEFINE code == records!Min(free)
    <3>1. code \in free /\ \A n \in free : code <= n
      BY <2>1, <2>3, SmallestIs
    <3>2. /\ students' = [students EXCEPT ![code] = [status |-> "ACTIVE", name |-> "old"]]
          /\ next' = code + 1 /\ tx' = tx
      BY <1>5, <2>3 DEF records!Create
    <3>3. code \in records!Code /\ code \in Nat /\ code < next + Attempts
      BY <2>1, <3>1
    <3>4. code \notin records!Taken
      BY <3>1
    <3>5. \A k \in Nat : k >= next /\ k < code => k \in records!Taken
      <4> SUFFICES ASSUME NEW k \in Nat, k >= next, k < code
                   PROVE  k \in records!Taken
        OBVIOUS
      <4>1. k \notin free
        BY <3>1, <3>3
      <4>2. k \in records!Tried
        BY <1>1, <3>3 DEF records!Tried
      <4> QED
        BY <4>1, <4>2
    <3> HIDE DEF code, free
    <3>6. students[code] = records!Nobody
      BY <3>3, <3>4 DEF records!Taken
    <3>7. next' \in 1 .. MaxCode + 1
      BY <1>1, <3>2, <3>3 DEF records!Code
    <3>8. \A k \in Nat : k >= next /\ k < next' => k \in records!Taken \cup {code}
      BY <3>2, <3>3, <3>5
    <3>9. RecordsInv'
      BY <1>1, <1>2, <1>5, <3>2, <3>3, <3>6, <3>7, <3>8, RecordsCreated DEF records!Create
    <3>10. \A c \in records!Taken : students'[c] = students[c]
      BY <3>2, <3>4 DEF records!Taken, RecordsInv, RecordsTyped
    <3> QED
      BY <3>9, <3>10, <1>3
  <2> QED
    BY <2>2, <2>3
<1>6. ASSUME NEW r \in Worker, NEW code \in records!Code, NEW status \in records!Status \cup {"same"},
             records!Patch(r, code, status)
      PROVE  RecordsInv' /\ records!RecordsAreDecided
  <2>1. RecordsInv'
    BY <1>2, <1>6, RecordsRead DEF records!Patch
  <2> QED
    BY <2>1, <1>3, <1>6 DEF records!Patch
<1>7. ASSUME NEW r \in Worker, NEW code \in records!Code, NEW status \in records!Status,
             records!Change(r, code, status)
      PROVE  RecordsInv' /\ records!RecordsAreDecided
  <2>1. status # "same"
    BY DEF records!Status
  <2>2. RecordsInv'
    BY <2>1, <1>2, <1>7, RecordsRead DEF records!Change
  <2> QED
    BY <2>2, <1>3, <1>7 DEF records!Change
\* What the instance holds is a status, and the row's unless it was overtaken.
<1>8. ASSUME NEW r \in Worker, tx[r] # records!Idle
      PROVE  /\ tx[r].code \in records!Code /\ tx[r].read \in records!Student
             /\ tx[r].status \in records!Status \cup {"same"}
             /\ tx[r].step = "changing" => tx[r].status # "same"
             /\ students[tx[r].code] \in records!Student
             /\ ~tx[r].overtaken => students[tx[r].code] = tx[r].read
  BY <1>8 DEF RecordsInv, RecordsTyped, RecordsCurrent, RecordsJob
\* A save that keeps the name, or sets it, and a status that was asked for.
<1>9. ASSUME NEW r \in Worker, tx[r] # records!Idle, NEW new \in records!Student,
             new.status \in {tx[r].status, students[tx[r].code].status} \/ tx[r].overtaken,
             new.name \in {"new", students[tx[r].code].name},
             students' = [students EXCEPT ![tx[r].code] = new], tx' = records!Overtaken(r, tx[r].code)
      PROVE  records!RecordsAreDecided
  <2> SUFFICES ASSUME NEW code \in records!Taken
               PROVE  /\ students'[code].status # students[code].status =>
                           tx[r].code = code /\ (tx[r].status = students'[code].status \/ tx[r].overtaken)
                      /\ students[code].name = "new" => students'[code].name = "new"
    <3>1. tx'[r] = records!Idle
      BY <1>8, <1>9, OvertakenIs
    <3> QED
      BY <3>1, <1>9 DEF records!RecordsAreDecided
  <2>1. students'[code] = IF code = tx[r].code THEN new ELSE students[code]
    BY <1>9 DEF records!Taken, RecordsInv, RecordsTyped
  <2> QED
    BY <2>1, <1>9, Zenon
<1>10. ASSUME NEW r \in Worker, records!Update(r)
       PROVE  RecordsInv' /\ records!RecordsAreDecided
  <2>1. tx[r] # records!Idle
    BY <1>10, RecordsAreDistinct DEF records!Update
  <2> DEFINE to == IF tx[r].status = "same" THEN tx[r].read.status ELSE tx[r].status
  <2>2. to \in records!Status
    BY <2>1, <1>8 DEF records!Student
  <2> DEFINE new == [status |-> to, name |-> "new"]
  <2>3. new.status = to /\ new.name = "new"
    OBVIOUS
  <2>4. /\ students' = [students EXCEPT ![tx[r].code] = new]
        /\ tx' = records!Overtaken(r, tx[r].code) /\ next' = next /\ received' = received
    BY <1>10 DEF records!Update
  <2>5. new \in records!Student
    <3> HIDE DEF to
    <3> QED
      BY <2>2 DEF records!Student
  <2>6. to \in {tx[r].status, students[tx[r].code].status} \/ tx[r].overtaken
    BY <2>1, <1>8
  <2> HIDE DEF new, to
  <2>7. RecordsInv'
    BY <2>1, <2>4, <2>5, RecordsSaved
  <2> QED
    BY <2>1, <2>3, <2>4, <2>5, <2>6, <2>7, <1>9
<1>11. ASSUME NEW r \in Worker, records!ChangeStatus(r)
       PROVE  RecordsInv' /\ records!RecordsAreDecided
  <2>1. tx[r] # records!Idle /\ tx[r].status \in records!Status
    <3>1. tx[r] # records!Idle /\ tx[r].step = "changing"
      BY <1>11, RecordsAreDistinct DEF records!ChangeStatus
    <3> QED
      BY <3>1, <1>8
  <2> PICK student \in records!Student : student = students[tx[r].code]
    BY <2>1, <1>8
  <2> DEFINE new == [student EXCEPT !.status = tx[r].status]
  <2>2. new \in records!Student /\ new.status = tx[r].status /\ new.name = student.name
    BY <2>1 DEF records!Student
  <2>3. students' = [students EXCEPT ![tx[r].code] = new]
    <3>1. students' = [students EXCEPT ![tx[r].code].status = tx[r].status]
      BY <1>11 DEF records!ChangeStatus
    <3>2. [students EXCEPT ![tx[r].code].status = tx[r].status] =
            [students EXCEPT ![tx[r].code] = [students[tx[r].code] EXCEPT !.status = tx[r].status]]
      OBVIOUS
    <3> QED
      BY <3>1, <3>2, Zenon
  <2>4. tx' = records!Overtaken(r, tx[r].code) /\ next' = next /\ received' = received
    BY <1>11 DEF records!ChangeStatus
  <2> HIDE DEF new
  <2>5. RecordsInv'
    BY <2>1, <2>2, <2>3, <2>4, RecordsSaved
  <2> QED
    BY <2>1, <2>2, <2>3, <2>4, <2>5, <1>9
<1> QED
  BY <1>4, <1>5, <1>6, <1>7, <1>10, <1>11 DEF records!Next

\* StudentRecords: every number the sequence has passed is somebody's code,
\* however many creations, refused or not, follow one another.
THEOREM Codes ==
    ASSUME records!StudentRecordsAssumption
    PROVE  records!Spec => []records!RecordsHold
<1>1. records!Init => RecordsInv
  BY RecordsInitially
<1>2. RecordsInv /\ [records!Next]_(records!vars) => RecordsInv'
  <2>1. ASSUME RecordsInv, UNCHANGED records!vars
        PROVE  RecordsInv'
    BY <2>1 DEF records!vars, RecordsInv, RecordsTyped, RecordsCurrent, records!NoGaps, records!Taken
  <2> QED
    BY <2>1, RecordsStep
<1>3. RecordsInv => records!RecordsHold
  BY DEF RecordsInv, RecordsTyped, records!RecordsHold, records!TypeOK
<1> QED
  BY <1>1, <1>2, <1>3, PTL DEF records!Spec

\* StudentRecords: a status that changes was asked for, or written from an
\* instance that another request had overtaken; no change undoes a PATCH.
THEOREM RecordsDecided ==
    ASSUME records!StudentRecordsAssumption
    PROVE  records!Spec => [][records!RecordsAreDecided]_(records!vars)
<1>1. records!Init => RecordsInv
  BY RecordsInitially
<1>2. RecordsInv /\ [records!Next]_(records!vars) => RecordsInv' /\ [records!RecordsAreDecided]_(records!vars)
  <2>1. ASSUME RecordsInv, UNCHANGED records!vars
        PROVE  RecordsInv'
    BY <2>1 DEF records!vars, RecordsInv, RecordsTyped, RecordsCurrent, records!NoGaps, records!Taken
  <2> QED
    BY <2>1, RecordsStep
<1> QED
  BY <1>1, <1>2, PTL DEF records!Spec

-----------------------------------------------------------------------------
(* Users, and the groups that follow their roles *)

\* A request that works on a user.
UsersJob ==
    [step : {"patching", "changing", "syncing"}, user : Person, read : accounts!Account,
     account : accounts!Account, data : accounts!Data, actor : Person, super : BOOLEAN, overtaken : BOOLEAN]

UsersTyped ==
    /\ accounts!TypeOK
    /\ tx \in [Worker -> UsersJob \cup {accounts!Idle}]

\* The instance is what the form made of the row that was read; one that was
\* not overtaken is the row, or what the request itself has saved.
InstanceIs(job) ==
    /\ users[job.user] # accounts!NoUser
    /\ job.step = "patching" => /\ job.account = accounts!Patched(job.read, job.data)
                                /\ job.data.role = "SUPER_ADMIN" => job.super
    /\ job.step = "changing" => job.account.role = job.read.role /\ job.account.active = job.read.active
    /\ ~job.overtaken => users[job.user] = IF job.step = "syncing" THEN job.account ELSE job.read

\* Whoever deactivates an owner counted another one, who is still there
\* unless the request was overtaken.
AnotherOwner(job) ==
    job.step = "patching" /\ ~job.overtaken /\ job.data.active = "off" /\ job.read.active
      /\ job.account.role = "SUPER_ADMIN" => accounts!ActiveSupers \ {job.user} # {}

UsersWorked == \A r \in Worker : tx[r] # accounts!Idle => InstanceIs(tx[r]) /\ AnotherOwner(tx[r])

UsersInv == UsersTyped /\ UsersWorked /\ accounts!GroupFollowsRole

LEMMA UsersAreDistinct ==
    /\ \A job \in UsersJob : job # accounts!Idle
    /\ \A account \in accounts!Account : account # accounts!NoUser /\ account.role # "none"
    /\ accounts!Idle.step = "idle" /\ accounts!NoUser.role = "none"
<1>1. \A job \in UsersJob : job.step # "idle"
  BY DEF UsersJob
<1>2. accounts!Idle.step = "idle"
  BY DEF accounts!Idle
<1>3. \A account \in accounts!Account : account.role # "none"
  BY DEF accounts!Account, accounts!Role
<1>4. accounts!NoUser.role = "none"
  BY DEF accounts!NoUser
<1> QED
  BY <1>1, <1>2, <1>3, <1>4, Zenon

LEMMA OwnerIs ==
    ASSUME NEW role \in accounts!Role, NEW password \in {"own", "given"}
    PROVE  [role |-> role, active |-> TRUE, password |-> password] \in accounts!Account
<1> PICK yes \in BOOLEAN : yes = TRUE
  OBVIOUS
<1>1. [role |-> role, active |-> yes, password |-> password] \in accounts!Account
  BY DEF accounts!Account
<1> QED
  BY <1>1, Zenon

LEMMA UsersInitially ==
    ASSUME accounts!AccountsAssumption, accounts!Init
    PROVE  UsersInv
<1> DEFINE first == [role |-> "SUPER_ADMIN", active |-> TRUE, password |-> "own"]
<1>1. first \in accounts!Account
  BY OwnerIs DEF accounts!Role
<1>2. PICK owner \in Person : users = [u \in Person |-> IF u = owner THEN first ELSE accounts!NoUser]
  BY DEF accounts!Init
<1> HIDE DEF first
<1>3. users \in [Person -> accounts!Account \cup {accounts!NoUser}]
  BY <1>1, <1>2
<1>4. \A account \in accounts!Account : account.role \in accounts!Role
  BY DEF accounts!Account
<1>5. groups \in [Person -> accounts!Role \cup {"none"}]
  BY <1>3, <1>4, UsersAreDistinct DEF accounts!Init
<1>6. UsersTyped
  BY <1>3, <1>5 DEF accounts!Init, accounts!AccountsAssumption, UsersTyped, accounts!TypeOK
<1>7. UsersWorked
  BY DEF accounts!Init, UsersWorked
<1>8. accounts!GroupFollowsRole
  BY DEF accounts!Init, accounts!GroupFollowsRole
<1> QED
  BY <1>6, <1>7, <1>8 DEF UsersInv

LEMMA PatchedIs ==
    ASSUME NEW account \in accounts!Account, NEW data \in accounts!Data
    PROVE  /\ accounts!Patched(account, data) \in accounts!Account
           /\ accounts!Patched(account, data).role = IF data.role = "same" THEN account.role ELSE data.role
           /\ data.active # "on" /\ accounts!Patched(account, data).active => account.active /\ data.active = "same"
           /\ data.active # "off" /\ account.active => accounts!Patched(account, data).active
           /\ accounts!Patched(account, data).password \in {"given", account.password}
<1> DEFINE on == IF data.active = "same" THEN account.active ELSE data.active = "on"
           role == IF data.role = "same" THEN account.role ELSE data.role
           password == IF data.reset THEN "given" ELSE account.password
<1>1. role \in accounts!Role /\ password \in {"own", "given"} /\ data.active \in {"on", "off", "same"}
  BY DEF accounts!Account, accounts!Data
<1>2. password \in {"given", account.password}
  OBVIOUS
<1>3. account.active \in BOOLEAN
  BY DEF accounts!Account
<1>4. on \in BOOLEAN
  BY <1>3, Zenon
<1>5. (data.active # "on" /\ on => account.active /\ data.active = "same")
        /\ (data.active # "off" /\ account.active => on)
  BY <1>1
<1> PICK active \in BOOLEAN : active = on
  BY <1>4
<1>6. accounts!Patched(account, data) = [role |-> role, active |-> active, password |-> password]
  BY Zenon DEF accounts!Patched
<1> HIDE DEF on, role, password
<1>7. accounts!Patched(account, data) \in accounts!Account
  BY <1>1, <1>6 DEF accounts!Account
<1>8. /\ accounts!Patched(account, data).role = role /\ accounts!Patched(account, data).active = active
      /\ accounts!Patched(account, data).password = password
  BY <1>6
<1>9. accounts!Patched(account, data).role = IF data.role = "same" THEN account.role ELSE data.role
  BY <1>8, Zenon DEF role
<1>10. accounts!Patched(account, data).active = on
  BY <1>8, Zenon
<1>11. /\ data.active # "on" /\ accounts!Patched(account, data).active => account.active /\ data.active = "same"
       /\ data.active # "off" /\ account.active => accounts!Patched(account, data).active
  BY <1>5, <1>10, Zenon
<1>12. accounts!Patched(account, data).password \in {"given", account.password}
  BY <1>2, <1>8, Zenon
<1> QED
  BY <1>7, <1>9, <1>11, <1>12

LEMMA UsersWorking ==
    ASSUME UsersInv, NEW u \in Person, users[u] # accounts!NoUser, NEW account \in accounts!Account,
           NEW data \in accounts!Data, NEW actor \in Person, NEW step \in {"patching", "changing", "syncing"},
           NEW job, job = accounts!Working(step, u, account, data, actor)
    PROVE  /\ job \in UsersJob /\ job.step = step /\ job.user = u /\ job.read = users[u]
           /\ job.account = account /\ job.data = data
           /\ job.super = (users[actor].role = "SUPER_ADMIN")
<1>1. users[u] \in accounts!Account
  BY DEF UsersInv, UsersTyped, accounts!TypeOK
<1> PICK read \in accounts!Account : read = users[u]
  BY <1>1
<1> PICK super \in BOOLEAN : super = (users[actor].role = "SUPER_ADMIN")
  OBVIOUS
<1> PICK no \in BOOLEAN : no = FALSE
  OBVIOUS
<1>2. job = [step |-> step, user |-> u, read |-> read, account |-> account, data |-> data,
             actor |-> actor, super |-> super, overtaken |-> no]
  BY Zenon DEF accounts!Working
<1>3. job \in UsersJob
  BY <1>2 DEF UsersJob
<1>4. /\ job.step = step /\ job.user = u /\ job.read = read
      /\ job.account = account /\ job.data = data /\ job.super = super
  BY <1>2
<1> QED
  BY <1>3, <1>4, Zenon

\* Whoever else works on the user, or counted him as an owner, is overtaken.
LEMMA UsersOvertaken ==
    ASSUME UsersInv, NEW r \in Worker, NEW u \in Person, NEW then \in UsersJob \cup {accounts!Idle},
           tx' = accounts!Overtaken(r, u, then)
    PROVE  /\ tx' \in [Worker -> UsersJob \cup {accounts!Idle}]
           /\ tx'[r] = then
           /\ \A q \in Worker \ {r} : tx[q] = accounts!Idle => tx'[q] = accounts!Idle
           /\ \A q \in Worker \ {r} : tx[q] # accounts!Idle =>
                /\ tx'[q] # accounts!Idle
                /\ tx'[q].user = tx[q].user /\ tx'[q].read = tx[q].read /\ tx'[q].step = tx[q].step
                /\ tx'[q].account = tx[q].account /\ tx'[q].data = tx[q].data
                /\ tx'[q].super = tx[q].super
                /\ ~tx'[q].overtaken => ~tx[q].overtaken /\ tx[q].user # u /\ u \notin accounts!ActiveSupers
<1> PICK yes \in BOOLEAN : yes = TRUE
  OBVIOUS
<1> DEFINE over(job) == [job EXCEPT !.overtaken = yes]
<1>1. \A job \in UsersJob :
        /\ over(job) \in UsersJob /\ over(job).user = job.user /\ over(job).read = job.read
        /\ over(job).step = job.step /\ over(job).account = job.account /\ over(job).data = job.data
        /\ over(job).super = job.super /\ over(job).overtaken = yes
  BY DEF UsersJob
<1> HIDE DEF over
<1>2. \A q \in Worker : tx[q] = accounts!Idle \/ tx[q] \in UsersJob
  BY DEF UsersInv, UsersTyped
<1> DEFINE hit(q) == tx[q] # accounts!Idle /\ (tx[q].user = u \/ u \in accounts!ActiveSupers)
<1>3. tx' = [q \in Worker |-> IF q = r THEN then ELSE IF hit(q) THEN over(tx[q]) ELSE tx[q]]
  BY Zenon DEF accounts!Overtaken, over
<1>4. \A q \in Worker : hit(q) => tx[q] \in UsersJob /\ tx[q] # accounts!Idle
  BY <1>2
<1>5. \A q \in Worker : ~hit(q) /\ tx[q] # accounts!Idle => tx[q].user # u /\ u \notin accounts!ActiveSupers
  OBVIOUS
<1>6. \A q \in Worker : tx[q] = accounts!Idle => ~hit(q)
  OBVIOUS
<1> HIDE DEF hit
<1>7. tx' \in [Worker -> UsersJob \cup {accounts!Idle}] /\ tx'[r] = then
  BY <1>1, <1>2, <1>3, <1>4, ZenonT(60)
<1>8. \A q \in Worker \ {r} : tx'[q] = IF hit(q) THEN over(tx[q]) ELSE tx[q]
  BY <1>3
<1>9. ASSUME NEW q \in Worker \ {r}, tx[q] # accounts!Idle
      PROVE  /\ tx'[q] # accounts!Idle
             /\ tx'[q].user = tx[q].user /\ tx'[q].read = tx[q].read /\ tx'[q].step = tx[q].step
             /\ tx'[q].account = tx[q].account /\ tx'[q].data = tx[q].data
             /\ tx'[q].super = tx[q].super
             /\ ~tx'[q].overtaken => ~tx[q].overtaken /\ tx[q].user # u /\ u \notin accounts!ActiveSupers
  <2>1. CASE hit(q)
    <3>1. tx'[q] = over(tx[q]) /\ tx[q] \in UsersJob
      BY <1>4, <1>8, <2>1
    <3>2. tx'[q] # accounts!Idle /\ tx'[q].overtaken = TRUE
      BY <3>1, <1>1, UsersAreDistinct
    <3> QED
      BY <3>1, <3>2, <1>1, ZenonT(60)
  <2>2. CASE ~hit(q)
    <3>1. tx'[q] = tx[q]
      BY <1>8, <2>2
    <3> QED
      BY <3>1, <2>2, <1>5, <1>9, Zenon
  <2> QED
    BY <2>1, <2>2
<1> QED
  BY <1>6, <1>7, <1>8, <1>9

\* A request goes on with a job, or ends, and no user is saved.
LEMMA UsersGoOn ==
    ASSUME UsersInv, NEW r \in Worker, NEW then \in UsersJob \cup {accounts!Idle},
           then # accounts!Idle => InstanceIs(then) /\ AnotherOwner(then),
           tx' = [tx EXCEPT ![r] = then], users' = users,
           groups' \in [Person -> accounts!Role \cup {"none"}], stale' \subseteq Person,
           received' \in 0 .. MaxUserRequests
    PROVE  UsersTyped' /\ UsersWorked'
<1>1. \A q \in Worker : tx'[q] = IF q = r THEN then ELSE tx[q]
  BY DEF UsersInv, UsersTyped
<1>2. UsersTyped'
  BY DEF UsersInv, UsersTyped, accounts!TypeOK
<1>3. accounts!ActiveSupers' = accounts!ActiveSupers
  BY DEF accounts!ActiveSupers
<1>4. UsersWorked'
  <2> SUFFICES ASSUME NEW q \in Worker, tx'[q] # accounts!Idle
               PROVE  (InstanceIs(tx[q]) /\ AnotherOwner(tx[q]))'
    BY DEF UsersWorked
  <2>1. PICK job : job = tx'[q]
    OBVIOUS
  <2>2. InstanceIs(job) /\ AnotherOwner(job)
    BY <1>1, <2>1 DEF UsersInv, UsersWorked
  <2> QED
    BY <2>1, <2>2, <1>3 DEF InstanceIs, AnotherOwner
<1> QED
  BY <1>2, <1>4

\* A request saves the user it works on, and ends or goes on to the group.
LEMMA UsersSaved ==
    ASSUME UsersInv, NEW r \in Worker, tx[r] # accounts!Idle, NEW then \in UsersJob \cup {accounts!Idle},
           then # accounts!Idle =>
             then.step = "syncing" /\ then.user = tx[r].user /\ then.account = tx[r].account,
           users' = [users EXCEPT ![tx[r].user] = tx[r].account],
           tx' = accounts!Overtaken(r, tx[r].user, then),
           groups' \in [Person -> accounts!Role \cup {"none"}], stale' \subseteq Person,
           received' \in 0 .. MaxUserRequests
    PROVE  UsersTyped' /\ UsersWorked'
<1> DEFINE u == tx[r].user
           new == tx[r].account
<1>1. u \in Person /\ new \in accounts!Account /\ new # accounts!NoUser
  BY UsersAreDistinct DEF UsersInv, UsersTyped, UsersJob
<1>2. /\ tx' \in [Worker -> UsersJob \cup {accounts!Idle}]
      /\ tx'[r] = then
      /\ \A q \in Worker \ {r} : tx[q] = accounts!Idle => tx'[q] = accounts!Idle
      /\ \A q \in Worker \ {r} : tx[q] # accounts!Idle =>
                /\ tx'[q] # accounts!Idle
                /\ tx'[q].user = tx[q].user /\ tx'[q].read = tx[q].read /\ tx'[q].step = tx[q].step
                /\ tx'[q].account = tx[q].account /\ tx'[q].data = tx[q].data
                /\ tx'[q].super = tx[q].super
                /\ ~tx'[q].overtaken => ~tx[q].overtaken /\ tx[q].user # u /\ u \notin accounts!ActiveSupers
  BY <1>1, UsersOvertaken
<1> HIDE DEF u, new
<1>3. users' = [users EXCEPT ![u] = new] /\ users \in [Person -> accounts!Account \cup {accounts!NoUser}]
  BY DEF u, new, UsersInv, UsersTyped, accounts!TypeOK
<1>4. \A v \in Person : users'[v] = IF v = u THEN new ELSE users[v]
  BY <1>3
<1>5. UsersTyped'
  BY <1>1, <1>2, <1>3, ZenonT(60) DEF UsersTyped, accounts!TypeOK
<1>6. u \notin accounts!ActiveSupers => accounts!ActiveSupers \subseteq accounts!ActiveSupers'
  BY <1>4 DEF accounts!ActiveSupers
<1>7. UsersWorked'
  <2> SUFFICES ASSUME NEW q \in Worker, tx'[q] # accounts!Idle
               PROVE  (InstanceIs(tx[q]) /\ AnotherOwner(tx[q]))'
    BY DEF UsersWorked
  <2>1. CASE q = r
    <3>1. tx'[q].step = "syncing" /\ tx'[q].user = u /\ tx'[q].account = new
      BY <1>2, <2>1 DEF u, new
    <3>2. users'[u] = new
      BY <1>1, <1>4, SMTT(60)
    <3> QED
      BY <3>1, <3>2, <1>1 DEF InstanceIs, AnotherOwner
  <2>2. CASE q # r
    <3> DEFINE job == tx[q]
               after == tx'[q]
    <3>1. /\ job # accounts!Idle
          /\ after.user = job.user /\ after.read = job.read /\ after.step = job.step
          /\ after.account = job.account /\ after.data = job.data /\ after.super = job.super
          /\ ~after.overtaken => ~job.overtaken /\ job.user # u /\ u \notin accounts!ActiveSupers
      BY <1>2, <2>2
    <3>2. job.user \in Person
      BY <3>1 DEF UsersInv, UsersTyped, UsersJob
    <3>3. InstanceIs(job) /\ AnotherOwner(job)
      BY <3>1 DEF UsersInv, UsersWorked
    <3> HIDE DEF job, after
    <3>4. ~after.overtaken => users'[job.user] = users[job.user]
      BY <3>1, <3>2, <3>3, <1>1, <1>4 DEF InstanceIs
    <3>5. /\ users'[after.user] # accounts!NoUser
          /\ after.step = "patching" => /\ after.account = accounts!Patched(after.read, after.data)
                                        /\ after.data.role = "SUPER_ADMIN" => after.super
          /\ after.step = "changing" =>
               after.account.role = after.read.role /\ after.account.active = after.read.active
          /\ ~after.overtaken => users'[after.user] = IF after.step = "syncing" THEN after.account ELSE after.read
      <4>1. users'[after.user] # accounts!NoUser
        BY <3>1, <3>2, <3>3, <1>1, <1>4 DEF InstanceIs
      <4> QED
        BY <4>1, <3>1, <3>3, <3>4 DEF InstanceIs
    <3>6. after.step = "patching" /\ ~after.overtaken /\ after.data.active = "off" /\ after.read.active
            /\ after.account.role = "SUPER_ADMIN" => accounts!ActiveSupers' \ {after.user} # {}
      BY <3>1, <3>3, <1>6 DEF AnotherOwner
    <3> QED
      BY <3>5, <3>6 DEF after, InstanceIs, AnotherOwner
  <2> QED
    BY <2>1, <2>2
<1> QED
  BY <1>5, <1>7

\* Nobody is saved.
LEMMA UsersUndisturbed ==
    ASSUME users' = users
    PROVE  accounts!AccountsAreDecided
<1>1. accounts!ActiveSupers' = accounts!ActiveSupers
  BY DEF accounts!ActiveSupers
<1> QED
  BY <1>1 DEF accounts!AccountsAreDecided, accounts!BecomesSuper, accounts!Reactivated, accounts!ForgetsReset

\* A user is made, whom no request works on.
LEMMA UsersCreated ==
    ASSUME accounts!AccountsAssumption, UsersInv,
           NEW r \in Worker, NEW actor \in Person, NEW u \in Person, NEW role \in accounts!Role,
           accounts!Create(r, actor, u, role)
    PROVE  UsersInv' /\ accounts!AccountsAreDecided
<1> DEFINE new == [role |-> role, active |-> TRUE, password |-> "given"]
<1>1. new \in accounts!Account /\ new # accounts!NoUser
  BY OwnerIs, UsersAreDistinct
<1>2. new.role = role
  OBVIOUS
<1>3. /\ users[u] = accounts!NoUser /\ users' = [users EXCEPT ![u] = new]
      /\ groups' = [groups EXCEPT ![u] = role] /\ tx' = tx /\ stale' = stale
      /\ accounts!MayGrant(actor, role) /\ received' \in 0 .. MaxUserRequests
  <2>1. received' \in 0 .. MaxUserRequests
    <3>1. received \in 0 .. MaxUserRequests /\ MaxUserRequests \in Nat
      BY DEF UsersInv, UsersTyped, accounts!TypeOK, accounts!AccountsAssumption
    <3> QED
      BY <3>1 DEF accounts!Create, accounts!Receives
  <2> QED
    BY <2>1 DEF accounts!Create
<1> HIDE DEF new
<1>4. /\ users \in [Person -> accounts!Account \cup {accounts!NoUser}]
      /\ groups \in [Person -> accounts!Role \cup {"none"}] /\ stale \subseteq Person
      /\ tx \in [Worker -> UsersJob \cup {accounts!Idle}]
  BY DEF UsersInv, UsersTyped, accounts!TypeOK
<1>5. \A v \in Person : /\ users'[v] = IF v = u THEN new ELSE users[v]
                        /\ groups'[v] = IF v = u THEN role ELSE groups[v]
  BY <1>3, <1>4
<1>6. UsersTyped'
  BY <1>1, <1>3, <1>4 DEF UsersTyped, accounts!TypeOK
<1>7. accounts!ActiveSupers \subseteq accounts!ActiveSupers'
  BY <1>3, <1>5 DEF accounts!ActiveSupers
<1>8. UsersWorked'
  <2> SUFFICES ASSUME NEW q \in Worker, tx[q] # accounts!Idle
               PROVE  (InstanceIs(tx[q]) /\ AnotherOwner(tx[q]))'
    BY <1>3 DEF UsersWorked
  <2>1. InstanceIs(tx[q]) /\ AnotherOwner(tx[q]) /\ tx[q].user \in Person
    BY <1>4 DEF UsersInv, UsersWorked, UsersJob
  <2>2. users'[tx[q].user] = users[tx[q].user] /\ tx'[q] = tx[q]
    BY <2>1, <1>3, <1>5 DEF InstanceIs
  <2> QED
    BY <2>1, <2>2, <1>7 DEF InstanceIs, AnotherOwner
<1>9. accounts!GroupFollowsRole'
  BY <1>2, <1>3, <1>5 DEF UsersInv, accounts!GroupFollowsRole
<1>10. accounts!AccountsAreDecided
  <2>1. ASSUME NEW v \in Person, accounts!BecomesSuper(v)
        PROVE  users[v] = accounts!NoUser /\ \E who \in Person : users[who].role = "SUPER_ADMIN"
    <3>1. v = u /\ role = "SUPER_ADMIN"
      BY <2>1, <1>2, <1>5 DEF accounts!BecomesSuper
    <3> QED
      BY <3>1, <1>3 DEF accounts!MayGrant
  <2>2. ASSUME NEW v \in Person
        PROVE  ~accounts!Reactivated(v) /\ ~accounts!ForgetsReset(v)
    <3>1. users[v] # accounts!NoUser => users'[v] = users[v]
      BY <1>3, <1>5
    <3> QED
      BY <3>1 DEF accounts!Reactivated, accounts!ForgetsReset
  <2> QED
    BY <2>1, <2>2, <1>7 DEF accounts!AccountsAreDecided
<1> QED
  BY <1>6, <1>8, <1>9, <1>10 DEF UsersInv

\* A job that begins to work on a user, as the row is.
LEMMA UsersBegun ==
    ASSUME UsersInv, NEW r \in Worker, tx[r] = accounts!Idle, NEW u \in Person, users[u] # accounts!NoUser,
           NEW job \in UsersJob, job.user = u, job.read = users[u], InstanceIs(job), AnotherOwner(job),
           tx' = [tx EXCEPT ![r] = job], users' = users, groups' = groups, stale' = stale,
           received' \in 0 .. MaxUserRequests
    PROVE  UsersInv' /\ accounts!AccountsAreDecided
<1>1. UsersTyped' /\ UsersWorked'
  <2>1. groups' \in [Person -> accounts!Role \cup {"none"}] /\ stale' \subseteq Person
    BY DEF UsersInv, UsersTyped, accounts!TypeOK
  <2> QED
    BY <2>1, UsersGoOn
<1>2. accounts!GroupFollowsRole'
  <2> SUFFICES ASSUME NEW v \in Person \ stale, \A q \in Worker : tx'[q].step = "syncing" => tx'[q].user # v
               PROVE  groups[v] = users[v].role
    BY DEF accounts!GroupFollowsRole
  <2>1. \A q \in Worker : tx[q].step = "syncing" => tx[q].user # v
    <3>1. \A q \in Worker : q # r => tx'[q] = tx[q]
      BY DEF UsersInv, UsersTyped
    <3>2. tx[r].step # "syncing"
      BY UsersAreDistinct
    <3> QED
      BY <3>1, <3>2
  <2> QED
    BY <2>1 DEF UsersInv, accounts!GroupFollowsRole
<1> QED
  BY <1>1, <1>2, UsersUndisturbed DEF UsersInv

LEMMA UsersBegin ==
    ASSUME accounts!AccountsAssumption, UsersInv, NEW r \in Worker, NEW actor \in Person, NEW u \in Person,
           \/ \E data \in accounts!Data : accounts!Patch(r, actor, u, data)
           \/ accounts!Login(r, u)
           \/ accounts!ChangePassword(r, u)
    PROVE  UsersInv' /\ accounts!AccountsAreDecided
<1>1. /\ users[u] # accounts!NoUser /\ tx[r] = accounts!Idle
      /\ received' \in 0 .. MaxUserRequests
  <2>1. received \in 0 .. MaxUserRequests /\ MaxUserRequests \in Nat
    BY DEF UsersInv, UsersTyped, accounts!TypeOK, accounts!AccountsAssumption
  <2>2. users[u] # accounts!NoUser /\ accounts!Receives(r)
    BY DEF accounts!Patch, accounts!Login, accounts!ChangePassword
  <2> QED
    BY <2>1, <2>2 DEF accounts!Receives
<1> PICK account \in accounts!Account : account = users[u]
  BY <1>1 DEF UsersInv, UsersTyped, accounts!TypeOK
<1>2. accounts!NoData \in accounts!Data
  <2> PICK no \in BOOLEAN : no = FALSE
    OBVIOUS
  <2>1. accounts!NoData = [role |-> "same", active |-> "same", reset |-> no]
    BY Zenon DEF accounts!NoData
  <2> QED
    BY <2>1 DEF accounts!Data
<1>3. ASSUME NEW data \in accounts!Data, accounts!Patch(r, actor, u, data)
      PROVE  UsersInv' /\ accounts!AccountsAreDecided
  <2> DEFINE patched == accounts!Patched(account, data)
             job == accounts!Working("patching", u, patched, data, actor)
  <2>1. patched \in accounts!Account /\ patched = accounts!Patched(users[u], data)
    BY PatchedIs
  <2>2. /\ tx' = [tx EXCEPT ![r] = job] /\ users' = users /\ groups' = groups /\ stale' = stale
        /\ data.role # "same" => accounts!MayGrant(actor, data.role)
        /\ data.active = "off" /\ users[u].active => accounts!MayDeactivate(actor, u, patched.role)
    BY <1>3 DEF accounts!Patch
  <2> HIDE DEF patched
  <2>3. /\ job \in UsersJob /\ job.step = "patching" /\ job.user = u /\ job.read = users[u]
        /\ job.account = patched /\ job.data = data
        /\ job.super = (users[actor].role = "SUPER_ADMIN")
    BY <1>1, <2>1, UsersWorking
  <2> HIDE DEF job
  <2>4. data.role = "SUPER_ADMIN" => job.super
    BY <2>2, <2>3, Zenon DEF accounts!MayGrant
  <2>5. InstanceIs(job)
    BY <1>1, <2>1, <2>3, <2>4 DEF InstanceIs
  <2>6. AnotherOwner(job)
    BY <2>2, <2>3, Zenon DEF AnotherOwner, accounts!MayDeactivate
  <2> QED
    BY <1>1, <2>2, <2>3, <2>5, <2>6, UsersBegun
<1>4. CASE accounts!Login(r, u)
  <2> DEFINE job == accounts!Working("syncing", u, users[u], accounts!NoData, u)
  <2>1. tx' = [tx EXCEPT ![r] = job] /\ users' = users /\ groups' = groups /\ stale' = stale
    BY <1>4 DEF accounts!Login
  <2>2. /\ job \in UsersJob /\ job.step = "syncing" /\ job.user = u /\ job.read = users[u]
        /\ job.account = users[u]
    BY <1>1, <1>2, UsersWorking
  <2> HIDE DEF job
  <2>3. InstanceIs(job) /\ AnotherOwner(job)
    BY <1>1, <2>2 DEF InstanceIs, AnotherOwner
  <2> QED
    BY <1>1, <2>1, <2>2, <2>3, UsersBegun
<1>5. CASE accounts!ChangePassword(r, u)
  <2> DEFINE own == [account EXCEPT !.password = "own"]
             job == accounts!Working("changing", u, own, accounts!NoData, u)
  <2>1. tx' = [tx EXCEPT ![r] = job] /\ users' = users /\ groups' = groups /\ stale' = stale
    BY <1>5 DEF accounts!ChangePassword
  <2>2. own \in accounts!Account /\ own.role = account.role /\ own.active = account.active
    BY DEF accounts!Account
  <2> HIDE DEF own
  <2>3. /\ job \in UsersJob /\ job.step = "changing" /\ job.user = u /\ job.read = users[u]
        /\ job.account = own
    BY <1>1, <1>2, <2>2, UsersWorking
  <2> HIDE DEF job
  <2>4. InstanceIs(job)
    BY <1>1, <2>2, <2>3, Zenon DEF InstanceIs
  <2>5. AnotherOwner(job)
    BY <2>3 DEF AnotherOwner
  <2> QED
    BY <1>1, <2>1, <2>3, <2>4, <2>5, UsersBegun
<1> QED
  BY <1>3, <1>4, <1>5

\* What is true of every request that saves a user.
LEMMA UsersSaving ==
    ASSUME UsersInv, NEW r \in Worker, tx[r] # accounts!Idle,
           users' = [users EXCEPT ![tx[r].user] = tx[r].account]
    PROVE  /\ tx[r] \in UsersJob /\ tx[r].user \in Person /\ tx[r].account \in accounts!Account
           /\ users[tx[r].user] \in accounts!Account
           /\ InstanceIs(tx[r]) /\ AnotherOwner(tx[r])
           /\ \A v \in Person : users'[v] = IF v = tx[r].user THEN tx[r].account ELSE users[v]
<1>1. tx[r] \in UsersJob /\ users \in [Person -> accounts!Account \cup {accounts!NoUser}]
  BY DEF UsersInv, UsersTyped, accounts!TypeOK
<1>2. InstanceIs(tx[r]) /\ AnotherOwner(tx[r])
  BY DEF UsersInv, UsersWorked
<1>3. tx[r].user \in Person /\ tx[r].account \in accounts!Account
  BY <1>1 DEF UsersJob
<1>4. users[tx[r].user] \in accounts!Account
  BY <1>1, <1>2, <1>3 DEF InstanceIs
<1> QED
  BY <1>1, <1>2, <1>3, <1>4

\* The membership after a save or a sync: the others' is as it was.
LEMMA UsersSynced ==
    ASSUME UsersInv, NEW r \in Worker, NEW u \in Person,
           \A v \in Person \ {u} : groups'[v] = groups[v] /\ users'[v] = users[v],
           stale \ {u} \subseteq stale',
           u \in stale' \/ groups'[u] = users'[u].role \/ (tx'[r].step = "syncing" /\ tx'[r].user = u),
           \A q \in Worker \ {r} : tx[q].step = "syncing" => tx'[q].step = "syncing" /\ tx'[q].user = tx[q].user,
           tx[r].step = "syncing" => tx[r].user = u
    PROVE  accounts!GroupFollowsRole'
<1> SUFFICES ASSUME NEW v \in Person, v \notin stale',
                    \A q \in Worker : tx'[q].step = "syncing" => tx'[q].user # v
             PROVE  groups'[v] = users'[v].role
  BY DEF accounts!GroupFollowsRole
<1>1. CASE v = u
  BY <1>1
<1>2. CASE v # u
  <2>1. v \notin stale
    BY <1>2
  <2>2. \A q \in Worker : tx[q].step = "syncing" => tx[q].user # v
    BY <1>2
  <2>3. groups[v] = users[v].role
    BY <2>1, <2>2 DEF UsersInv, accounts!GroupFollowsRole
  <2> QED
    BY <2>3, <1>2
<1> QED
  BY <1>1, <1>2

LEMMA UsersSave ==
    ASSUME UsersInv, NEW r \in Worker, accounts!Save(r)
    PROVE  UsersInv' /\ accounts!AccountsAreDecided
<1> DEFINE u == tx[r].user
           new == tx[r].account
<1>1. tx[r] # accounts!Idle /\ tx[r].step = "patching"
  BY UsersAreDistinct DEF accounts!Save
<1>2. /\ users' = [users EXCEPT ![tx[r].user] = tx[r].account]
      /\ tx' = accounts!Overtaken(r, tx[r].user, accounts!Idle)
      /\ groups' = [groups EXCEPT ![tx[r].user] = tx[r].account.role]
      /\ stale' = IF tx[r].overtaken THEN stale \cup {tx[r].user} ELSE stale \ {tx[r].user}
      /\ received' = received
  BY DEF accounts!Save
<1>3. /\ tx[r] \in UsersJob /\ u \in Person /\ new \in accounts!Account /\ users[u] \in accounts!Account
      /\ InstanceIs(tx[r]) /\ AnotherOwner(tx[r])
      /\ \A v \in Person : users'[v] = IF v = u THEN new ELSE users[v]
  BY <1>1, <1>2, UsersSaving
<1>4. /\ groups \in [Person -> accounts!Role \cup {"none"}] /\ stale \subseteq Person
      /\ received \in 0 .. MaxUserRequests
  BY DEF UsersInv, UsersTyped, accounts!TypeOK
<1>5. UsersTyped' /\ UsersWorked'
  <2>1. new.role \in accounts!Role
    BY <1>3 DEF accounts!Account
  <2>2. /\ groups' \in [Person -> accounts!Role \cup {"none"}] /\ stale' \subseteq Person
        /\ received' \in 0 .. MaxUserRequests
    BY <1>2, <1>3, <1>4, <2>1
  <2> QED
    BY <1>1, <1>2, <2>2, UsersSaved
<1>6. /\ tx'[r] = accounts!Idle
      /\ \A q \in Worker \ {r} : tx[q].step = "syncing" => tx'[q].step = "syncing" /\ tx'[q].user = tx[q].user
  <2>1. \A q \in Worker \ {r} : tx[q].step = "syncing" => tx[q] # accounts!Idle
    BY UsersAreDistinct
  <2> QED
    BY <1>2, <1>3, <2>1, UsersOvertaken
<1>7. accounts!GroupFollowsRole'
  <2>1. \A v \in Person \ {u} : groups'[v] = groups[v] /\ users'[v] = users[v]
    BY <1>2, <1>3, <1>4
  <2>2. stale \ {u} \subseteq stale' /\ groups'[u] = users'[u].role
    BY <1>2, <1>3, <1>4
  <2> QED
    BY <1>1, <1>3, <1>6, <2>1, <2>2, UsersSynced
<1> DEFINE made == tx[r].overtaken
           data == tx[r].data
           read == tx[r].read
<1>8. /\ new.role = IF data.role = "same" THEN read.role ELSE data.role
      /\ data.active # "on" /\ new.active => read.active /\ data.active = "same"
      /\ data.active # "off" /\ read.active => new.active
      /\ new.password \in {"given", read.password}
      /\ data.role = "SUPER_ADMIN" => tx[r].super
  <2>1. read \in accounts!Account /\ data \in accounts!Data
    BY <1>3 DEF UsersJob
  <2>2. new = accounts!Patched(read, data) /\ (data.role = "SUPER_ADMIN" => tx[r].super)
    BY <1>1, <1>3 DEF InstanceIs
  <2> QED
    BY <2>1, <2>2, PatchedIs
<1>9. ~made => users[u] = read
  BY <1>1, <1>3 DEF InstanceIs
<1>10. accounts!Saves(r, u)
  BY <1>1, <1>6 DEF accounts!Saves
<1>11. \A v \in Person : v # u => users'[v] = users[v]
  BY <1>3
<1>12. users'[u] = new /\ new # accounts!NoUser /\ users[u] # accounts!NoUser
  BY <1>3, UsersAreDistinct
<1>13. ASSUME NEW v \in Person, accounts!BecomesSuper(v)
       PROVE  \E q \in Worker : /\ accounts!Saves(q, v)
                                /\ tx[q].overtaken \/ (tx[q].super /\ tx[q].data.role = "SUPER_ADMIN")
  <2>1. v = u /\ users[u].role # "SUPER_ADMIN" /\ new.role = "SUPER_ADMIN"
    BY <1>11, <1>12, <1>13 DEF accounts!BecomesSuper
  <2>2. made \/ (tx[r].super /\ data.role = "SUPER_ADMIN")
    BY <2>1, <1>8, <1>9, Zenon
  <2> QED
    BY <2>1, <2>2, <1>10
<1>14. ASSUME NEW v \in Person, accounts!Reactivated(v)
       PROVE  \E q \in Worker : accounts!Saves(q, v) /\ (tx[q].overtaken \/ tx[q].data.active = "on")
  <2>1. v = u /\ ~users[u].active /\ new.active
    BY <1>11, <1>12, <1>14, Zenon DEF accounts!Reactivated
  <2>2. made \/ data.active = "on"
    BY <2>1, <1>8, <1>9, Zenon
  <2> QED
    BY <2>1, <2>2, <1>10
<1>15. ASSUME NEW v \in Person, accounts!ForgetsReset(v)
       PROVE  \E q \in Worker : accounts!Saves(q, v) /\ (tx[q].overtaken \/ tx[q].step = "changing")
  <2>1. v = u /\ users[u].password = "given" /\ new.password = "own"
    BY <1>11, <1>12, <1>15, Zenon DEF accounts!ForgetsReset
  <2>2. made
    BY <2>1, <1>8, <1>9
  <2> QED
    BY <2>1, <2>2, <1>10
<1>16. ASSUME accounts!ActiveSupers # {}, accounts!ActiveSupers' = {}
       PROVE  tx[r].overtaken \/ tx[r].data.role # "same"
  <2> SUFFICES ASSUME ~made, data.role = "same"
               PROVE  FALSE
    OBVIOUS
  <2>1. accounts!ActiveSupers \ {u} \subseteq accounts!ActiveSupers'
    BY <1>11 DEF accounts!ActiveSupers
  <2>2. u \in accounts!ActiveSupers /\ accounts!ActiveSupers \ {u} = {}
    BY <2>1, <1>16
  <2>3. read.role = "SUPER_ADMIN" /\ read.active
    BY <2>2, <1>9, Zenon DEF accounts!ActiveSupers
  <2>4. new.role = "SUPER_ADMIN"
    BY <2>3, <1>8
  <2>5. ~new.active
    BY <2>4, <1>12, <1>16, <1>3, Zenon DEF accounts!ActiveSupers
  <2>6. data.active = "off"
    BY <2>3, <2>5, <1>8, Zenon
  <2> QED
    BY <2>2, <2>3, <2>4, <2>6, <1>1, <1>3, Zenon DEF AnotherOwner
<1>17. accounts!AccountsAreDecided
  BY <1>10, <1>13, <1>14, <1>15, <1>16, <1>3, Zenon DEF accounts!AccountsAreDecided
<1> QED
  BY <1>5, <1>7, <1>17 DEF UsersInv

LEMMA UsersSavePassword ==
    ASSUME UsersInv, NEW r \in Worker, accounts!SavePassword(r)
    PROVE  UsersInv' /\ accounts!AccountsAreDecided
<1> DEFINE u == tx[r].user
           new == tx[r].account
           then == [tx[r] EXCEPT !.step = "syncing"]
<1>1. tx[r] # accounts!Idle /\ tx[r].step = "changing"
  BY UsersAreDistinct DEF accounts!SavePassword
<1>2. /\ users' = [users EXCEPT ![tx[r].user] = tx[r].account]
      /\ tx' = accounts!Overtaken(r, tx[r].user, then)
      /\ groups' = groups
      /\ stale' = IF tx[r].overtaken THEN stale \cup {tx[r].user} ELSE stale
      /\ received' = received
  BY DEF accounts!SavePassword
<1>3. /\ tx[r] \in UsersJob /\ u \in Person /\ new \in accounts!Account /\ users[u] \in accounts!Account
      /\ InstanceIs(tx[r])
      /\ \A v \in Person : users'[v] = IF v = u THEN new ELSE users[v]
  BY <1>1, <1>2, UsersSaving
<1>4. /\ groups \in [Person -> accounts!Role \cup {"none"}] /\ stale \subseteq Person
      /\ received \in 0 .. MaxUserRequests
  BY DEF UsersInv, UsersTyped, accounts!TypeOK
<1>5. /\ then \in UsersJob /\ then.step = "syncing" /\ then.user = u /\ then.account = new
  <2> PICK job \in UsersJob : job = tx[r]
    BY <1>3
  <2>1. [job EXCEPT !.step = "syncing"] \in UsersJob
    BY DEF UsersJob
  <2>2. /\ [job EXCEPT !.step = "syncing"].step = "syncing"
        /\ [job EXCEPT !.step = "syncing"].user = job.user
        /\ [job EXCEPT !.step = "syncing"].account = job.account
    BY DEF UsersJob
  <2> QED
    BY <2>1, <2>2
<1> HIDE DEF then
<1>6. UsersTyped' /\ UsersWorked'
  <2>1. /\ groups' \in [Person -> accounts!Role \cup {"none"}] /\ stale' \subseteq Person
        /\ received' \in 0 .. MaxUserRequests
    BY <1>2, <1>3, <1>4
  <2> QED
    BY <1>1, <1>2, <1>5, <2>1, UsersSaved
<1>7. /\ tx'[r] = then
      /\ \A q \in Worker \ {r} : tx[q].step = "syncing" => tx'[q].step = "syncing" /\ tx'[q].user = tx[q].user
  <2>1. \A q \in Worker \ {r} : tx[q].step = "syncing" => tx[q] # accounts!Idle
    BY UsersAreDistinct
  <2> QED
    BY <1>2, <1>3, <1>5, <2>1, UsersOvertaken
<1>8. accounts!GroupFollowsRole'
  <2>1. \A v \in Person \ {u} : groups'[v] = groups[v] /\ users'[v] = users[v]
    BY <1>2, <1>3
  <2>2. stale \ {u} \subseteq stale'
    BY <1>2
  <2> QED
    BY <1>1, <1>3, <1>5, <1>7, <2>1, <2>2, UsersSynced
<1> DEFINE made == tx[r].overtaken
           read == tx[r].read
<1>9. new.role = read.role /\ new.active = read.active /\ (~made => users[u] = read)
  BY <1>1, <1>3 DEF InstanceIs
<1>10. accounts!Saves(r, u)
  BY <1>1, <1>5, <1>7 DEF accounts!Saves
<1>11. /\ \A v \in Person : v # u => users'[v] = users[v]
       /\ users'[u] = new /\ new # accounts!NoUser /\ users[u] # accounts!NoUser
  BY <1>3, UsersAreDistinct
<1>12. ASSUME NEW v \in Person, accounts!BecomesSuper(v) \/ accounts!Reactivated(v)
       PROVE  accounts!Saves(r, v) /\ tx[r].overtaken
  <2>1. v = u
    BY <1>11, <1>12, Zenon DEF accounts!BecomesSuper, accounts!Reactivated
  <2>2. made
    BY <2>1, <1>9, <1>11, <1>12, Zenon DEF accounts!BecomesSuper, accounts!Reactivated
  <2> QED
    BY <2>1, <2>2, <1>10
<1>13. ASSUME NEW v \in Person, accounts!ForgetsReset(v)
       PROVE  accounts!Saves(r, v) /\ tx[r].step = "changing"
  <2>1. v = u
    BY <1>11, <1>13, Zenon DEF accounts!ForgetsReset
  <2> QED
    BY <2>1, <1>1, <1>10
<1>14. ASSUME accounts!ActiveSupers # {}, accounts!ActiveSupers' = {}
       PROVE  tx[r].overtaken
  <2> SUFFICES ASSUME ~made
               PROVE  accounts!ActiveSupers \subseteq accounts!ActiveSupers'
    BY <1>14
  <2>1. users'[u].role = users[u].role /\ users'[u].active = users[u].active
    BY <1>9, <1>11
  <2> SUFFICES ASSUME NEW v \in accounts!ActiveSupers
               PROVE  v \in accounts!ActiveSupers'
    OBVIOUS
  <2>2. v \in Person /\ users'[v] # accounts!NoUser /\ users'[v].role = users[v].role /\ users'[v].active = users[v].active
    BY <2>1, <1>11 DEF accounts!ActiveSupers
  <2> QED
    BY <2>2, Zenon DEF accounts!ActiveSupers
<1>15. accounts!AccountsAreDecided
  BY <1>10, <1>12, <1>13, <1>14, <1>3, Zenon DEF accounts!AccountsAreDecided
<1> QED
  BY <1>6, <1>8, <1>15 DEF UsersInv

LEMMA UsersSync ==
    ASSUME UsersInv, NEW r \in Worker, accounts!Sync(r)
    PROVE  UsersInv' /\ accounts!AccountsAreDecided
<1> DEFINE u == tx[r].user
           role == tx[r].account.role
<1>1. tx[r] # accounts!Idle /\ tx[r].step = "syncing"
  BY UsersAreDistinct DEF accounts!Sync
<1>2. /\ users' = users /\ tx' = [tx EXCEPT ![r] = accounts!Idle]
      /\ groups' = [groups EXCEPT ![u] = role]
      /\ stale' = IF tx[r].overtaken THEN stale \cup {u} ELSE stale
      /\ received' = received
  BY DEF accounts!Sync
<1>3. /\ u \in Person /\ role \in accounts!Role /\ InstanceIs(tx[r])
  BY <1>1 DEF UsersInv, UsersTyped, UsersWorked, UsersJob, accounts!Account
<1>4. /\ groups \in [Person -> accounts!Role \cup {"none"}] /\ stale \subseteq Person
      /\ received \in 0 .. MaxUserRequests /\ tx \in [Worker -> UsersJob \cup {accounts!Idle}]
  BY DEF UsersInv, UsersTyped, accounts!TypeOK
<1>5. ~tx[r].overtaken => role = users[u].role
  BY <1>1, <1>3 DEF InstanceIs
<1> HIDE DEF u, role
<1>6. UsersTyped' /\ UsersWorked'
  <2>1. /\ groups' \in [Person -> accounts!Role \cup {"none"}] /\ stale' \subseteq Person
        /\ received' \in 0 .. MaxUserRequests
    BY <1>2, <1>3, <1>4
  <2> QED
    BY <1>2, <2>1, UsersGoOn
<1>7. accounts!GroupFollowsRole'
  <2>1. \A v \in Person \ {u} : groups'[v] = groups[v] /\ users'[v] = users[v]
    BY <1>2, <1>3, <1>4
  <2>2. stale \ {u} \subseteq stale' /\ (u \in stale' \/ groups'[u] = users'[u].role)
    BY <1>2, <1>3, <1>4, <1>5
  <2>3. \A q \in Worker \ {r} : tx'[q] = tx[q]
    BY <1>2, <1>4
  <2>4. tx[r].user = u
    BY DEF u
  <2> QED
    BY <1>3, <2>1, <2>2, <2>3, <2>4, UsersSynced
<1> QED
  BY <1>2, <1>6, <1>7, UsersUndisturbed DEF UsersInv

LEMMA UsersStep ==
    ASSUME accounts!AccountsAssumption, UsersInv, [accounts!Next]_(accounts!vars)
    PROVE  UsersInv' /\ [accounts!AccountsAreDecided]_(accounts!vars)
<1>1. ASSUME UNCHANGED accounts!vars
      PROVE  UsersInv'
  <2>1. users' = users /\ groups' = groups /\ tx' = tx /\ received' = received /\ stale' = stale
    BY <1>1 DEF accounts!vars
  <2> QED
    BY <2>1 DEF UsersInv, UsersTyped, accounts!TypeOK, UsersWorked, InstanceIs, AnotherOwner,
                accounts!ActiveSupers, accounts!GroupFollowsRole
<1>2. ASSUME accounts!Next
      PROVE  UsersInv' /\ accounts!AccountsAreDecided
  BY <1>2, UsersCreated, UsersBegin, UsersSave, UsersSavePassword, UsersSync DEF accounts!Next
<1> QED
  BY <1>1, <1>2

\* Accounts: the permissions that are checked are those of the role, for
\* every user whose instance nobody had overtaken when it was saved.
THEOREM Memberships ==
    ASSUME accounts!AccountsAssumption
    PROVE  accounts!Spec => []accounts!AccountsHold
<1>1. accounts!Init => UsersInv
  BY UsersInitially
<1>2. UsersInv /\ [accounts!Next]_(accounts!vars) => UsersInv'
  BY UsersStep
<1>3. UsersInv => accounts!AccountsHold
  BY DEF UsersInv, UsersTyped, accounts!AccountsHold
<1> QED
  BY <1>1, <1>2, <1>3, PTL DEF accounts!Spec

\* Accounts: a grant, a reactivation and a reset of the password are what
\* somebody with the right asked for, and the last owner is not deactivated,
\* except by instances that were overtaken.
THEOREM AccountsDecided ==
    ASSUME accounts!AccountsAssumption
    PROVE  accounts!Spec => [][accounts!AccountsAreDecided]_(accounts!vars)
<1>1. accounts!Init => UsersInv
  BY UsersInitially
<1>2. UsersInv /\ [accounts!Next]_(accounts!vars) => UsersInv' /\ [accounts!AccountsAreDecided]_(accounts!vars)
  BY UsersStep
<1> QED
  BY <1>1, <1>2, PTL DEF accounts!Spec

-----------------------------------------------------------------------------
(* Policies, and the entry they are served from *)

Item == [key : PolicyKey, value : PolicyValue \cup {settings!Invalid, settings!Unset}]

\* The rows an update has written.
Written == UNION {[some -> PolicyValue \cup {settings!Unset}] : some \in SUBSET PolicyKey}

PoliciesJob == [step : {"get", "set", "end"}, todo : Seq(Item), own : Written, failed : BOOLEAN]

Loaded == [loaded : {TRUE}, overrides : settings!Overrides, overtaken : BOOLEAN]

PoliciesTyped ==
    /\ saved \in settings!Overrides
    /\ cache \in settings!Overrides \cup {settings!Missing}
    /\ tx \in [Worker -> PoliciesJob \cup {settings!Idle}]
    /\ \A u \in Worker : tx[u].step \in {"get", "set"} => tx[u].todo # <<>>
    /\ readers \in [Reader -> Loaded \cup {settings!Nothing}]
    /\ received \in 0 .. MaxUpdates
    /\ raced \in BOOLEAN

\* An entry that nothing raced is what is saved, and none of the updates that
\* are open has written a row since it was filled; so is what a reader holds
\* that no update has overtaken.
PoliciesCurrent ==
    /\ cache # settings!Missing /\ ~raced =>
         /\ cache = saved
         /\ \A u \in Worker : tx[u] # settings!Idle => DOMAIN tx[u].own = {}
    /\ \A r \in Reader : readers[r] # settings!Nothing /\ ~readers[r].overtaken => readers[r].overrides = saved

PoliciesInv == PoliciesTyped /\ PoliciesCurrent

LEMMA PoliciesAreDistinct ==
    /\ \A job \in PoliciesJob : job # settings!Idle
    /\ \A reader \in Loaded : reader # settings!Nothing
    /\ settings!Idle.step = "idle"
<1>1. \A job \in PoliciesJob : job.step # "idle"
  BY DEF PoliciesJob
<1>2. settings!Idle.step = "idle"
  BY DEF settings!Idle
<1>3. \A reader \in Loaded : reader.loaded = TRUE
  BY DEF Loaded
<1>4. settings!Nothing.loaded = FALSE
  BY DEF settings!Nothing
<1> QED
  BY <1>1, <1>2, <1>3, <1>4, Zenon

LEMMA WrittenIs ==
    /\ <<>> \in Written /\ DOMAIN <<>> = {}
    /\ \A own \in Written : /\ DOMAIN own \subseteq PolicyKey
                            /\ \A key \in DOMAIN own : own[key] \in PolicyValue \cup {settings!Unset}
    /\ \A own \in Written, key \in PolicyKey, text \in PolicyValue \cup {settings!Unset} :
          settings!Put(own, key, text) \in Written
<1>1. \A f : f = [key \in DOMAIN f |-> f[key]] /\ DOMAIN f \subseteq PolicyKey
               /\ (\A key \in DOMAIN f : f[key] \in PolicyValue \cup {settings!Unset}) => f \in Written
  <2> SUFFICES ASSUME NEW f, f = [key \in DOMAIN f |-> f[key]], DOMAIN f \subseteq PolicyKey,
                      \A key \in DOMAIN f : f[key] \in PolicyValue \cup {settings!Unset}
               PROVE  f \in Written
    OBVIOUS
  <2>1. f \in [DOMAIN f -> PolicyValue \cup {settings!Unset}]
    OBVIOUS
  <2> QED
    BY <2>1 DEF Written
<1>2. <<>> \in Written /\ DOMAIN <<>> = {}
  <2>1. DOMAIN <<>> = {}
    OBVIOUS
  <2>2. <<>> = [key \in {} |-> <<>>[key]]
    OBVIOUS
  <2> QED
    BY <2>1, <2>2, <1>1
<1>3. \A own \in Written : /\ DOMAIN own \subseteq PolicyKey
                            /\ \A key \in DOMAIN own : own[key] \in PolicyValue \cup {settings!Unset}
  BY DEF Written
<1>4. ASSUME NEW own \in Written, NEW key \in PolicyKey, NEW text \in PolicyValue \cup {settings!Unset}
      PROVE  settings!Put(own, key, text) \in Written
  <2>1. DOMAIN own \cup {key} \subseteq PolicyKey
    BY <1>3
  <2>2. settings!Put(own, key, text) \in [DOMAIN own \cup {key} -> PolicyValue \cup {settings!Unset}]
    BY <1>3 DEF settings!Put
  <2> QED
    BY <2>1, <2>2 DEF Written
<1> QED
  BY <1>2, <1>3, <1>4

\* What a transaction sees, and that it is what is saved if it wrote nothing.
LEMMA SeenIs ==
    ASSUME PoliciesInv, NEW u \in Worker, tx[u] # settings!Idle
    PROVE  /\ settings!Seen(u) \in settings!Overrides
           /\ DOMAIN tx[u].own = {} => settings!Seen(u) = saved
<1>1. tx[u].own \in Written /\ saved \in [PolicyKey -> PolicyValue \cup {settings!Unset}]
  BY DEF PoliciesInv, PoliciesTyped, PoliciesJob, settings!Overrides
<1>2. settings!Seen(u) \in settings!Overrides
  BY <1>1, WrittenIs DEF settings!Seen, settings!Overrides
<1>3. DOMAIN tx[u].own = {} => settings!Seen(u) = saved
  BY <1>1 DEF settings!Seen
<1> QED
  BY <1>2, <1>3

LEMMA FormIs ==
    ASSUME NEW form \in settings!Form
    PROVE  form \in Seq(Item) /\ form # <<>>
<1> DEFINE V == PolicyValue \cup {settings!Invalid, settings!Unset}
<1>1. \A key \in PolicyKey, text \in V : [key |-> key, value |-> text] \in Item
  BY DEF Item
<1>2. ASSUME NEW key \in PolicyKey, NEW text \in V, form = <<[key |-> key, value |-> text]>>
      PROVE  form \in Seq(Item) /\ form # <<>>
  <2> PICK item \in Item : item = [key |-> key, value |-> text]
    BY <1>1
  <2> QED
    BY <1>2
<1>3. ASSUME NEW key \in PolicyKey, NEW other \in PolicyKey, NEW text \in V, NEW then \in V,
             form = <<[key |-> key, value |-> text], [key |-> other, value |-> then]>>
      PROVE  form \in Seq(Item) /\ form # <<>>
  <2> PICK item \in Item : item = [key |-> key, value |-> text]
    BY <1>1
  <2> PICK second \in Item : second = [key |-> other, value |-> then]
    BY <1>1
  <2> QED
    BY <1>3
<1> DEFINE U == PolicyValue \cup {settings!Invalid}
<1>4. \/ \E key \in PolicyKey, text \in V : form = <<[key |-> key, value |-> text]>>
      \/ \E key \in PolicyKey, other \in PolicyKey, text \in U, then \in U :
            form = <<[key |-> key, value |-> text], [key |-> other, value |-> then]>>
  BY DEF settings!Form
<1>5. U \subseteq V
  OBVIOUS
<1> HIDE DEF U, V
<1> QED
  BY <1>2, <1>3, <1>4, <1>5, Zenon

\* The next item of a form, or its end.
LEMMA NextItem ==
    ASSUME NEW job \in PoliciesJob, job.todo # <<>>
    PROVE  /\ settings!Next1(job) \in PoliciesJob /\ settings!Next1(job).own = job.own
           /\ settings!Next1(job).step \in {"get", "set"} => settings!Next1(job).todo # <<>>
<1> DEFINE rest == Tail(job.todo)
           step == IF Len(job.todo) = 1 THEN "end" ELSE "get"
<1>1. job.todo \in Seq(Item)
  BY DEF PoliciesJob
<1>2. rest \in Seq(Item) /\ Len(rest) = Len(job.todo) - 1 /\ Len(job.todo) \in Nat
  BY <1>1, HeadTailProperties, LenProperties
<1>3. settings!Next1(job) = [job EXCEPT !.todo = rest, !.step = step]
  BY DEF settings!Next1
<1>4. step \in {"get", "end"} /\ (step = "get" => rest # <<>>)
  <2>1. step \in {"get", "end"} /\ (step = "get" => Len(job.todo) # 1)
    OBVIOUS
  <2>2. Len(rest) = 0 => Len(job.todo) = 1
    BY <1>2
  <2>3. rest = <<>> => Len(rest) = 0
    BY EmptySeq
  <2> QED
    BY <2>1, <2>2, <2>3
<1> HIDE DEF rest, step
<1> QED
  BY <1>2, <1>3, <1>4 DEF PoliciesJob

\* An update goes on with a job: what it has written is what it had written,
\* unless the entry is deleted with the step.
LEMMA PoliciesGoOn ==
    ASSUME PoliciesInv, NEW u \in Worker, NEW job \in PoliciesJob,
           job.step \in {"get", "set"} => job.todo # <<>>,
           tx' = [tx EXCEPT ![u] = job],
           saved' = saved, readers' = readers, received' \in 0 .. MaxUpdates, raced' \in BOOLEAN,
           cache' \in settings!Overrides \cup {settings!Missing},
           \/ cache' = settings!Missing
           \/ raced' = TRUE
           \/ cache' = cache /\ raced' = raced
              /\ (DOMAIN job.own = {} \/ (tx[u] # settings!Idle /\ job.own = tx[u].own))
    PROVE  PoliciesInv'
<1>1. \A v \in Worker : tx'[v] = IF v = u THEN job ELSE tx[v]
  BY DEF PoliciesInv, PoliciesTyped
<1>2. PoliciesTyped'
  BY <1>1 DEF PoliciesInv, PoliciesTyped
<1>3. PoliciesCurrent'
  <2>1. ASSUME cache' # settings!Missing, ~raced'
        PROVE  cache' = saved' /\ \A v \in Worker : tx'[v] # settings!Idle => DOMAIN tx'[v].own = {}
    <3>1. /\ cache' = cache /\ raced' = raced
          /\ DOMAIN job.own = {} \/ (tx[u] # settings!Idle /\ job.own = tx[u].own)
      BY <2>1
    <3>2. cache = saved /\ \A v \in Worker : tx[v] # settings!Idle => DOMAIN tx[v].own = {}
      BY <2>1, <3>1 DEF PoliciesInv, PoliciesCurrent
    <3> QED
      BY <1>1, <3>1, <3>2
  <2> QED
    BY <2>1 DEF PoliciesInv, PoliciesCurrent
<1> QED
  BY <1>2, <1>3 DEF PoliciesInv

LEMMA PoliciesUpdated ==
    ASSUME settings!SettingsAssumption, PoliciesInv, NEW u \in Worker,
           \/ \E form \in settings!Form : settings!Begin(u, form)
           \/ settings!Get(u) \/ settings!Refuse(u) \/ settings!Set(u)
    PROVE  PoliciesInv'
<1> PICK yes \in BOOLEAN, no \in BOOLEAN : yes = TRUE /\ no = FALSE
  OBVIOUS
<1>1. /\ tx \in [Worker -> PoliciesJob \cup {settings!Idle}] /\ raced \in BOOLEAN
      /\ received \in 0 .. MaxUpdates /\ cache \in settings!Overrides \cup {settings!Missing}
      /\ tx[u].step \in {"get", "set"} => tx[u] \in PoliciesJob /\ tx[u].todo # <<>>
      /\ MaxUpdates \in Nat
  BY PoliciesAreDistinct DEF PoliciesInv, PoliciesTyped, settings!SettingsAssumption
<1>2. ASSUME NEW form \in settings!Form, settings!Begin(u, form)
      PROVE  PoliciesInv'
  <2> DEFINE job == [step |-> "get", todo |-> form, own |-> <<>>, failed |-> no]
  <2>1. form \in Seq(Item) /\ form # <<>> /\ <<>> \in Written /\ DOMAIN <<>> = {}
    BY FormIs, WrittenIs
  <2> PICK own \in Written : own = <<>>
    BY <2>1
  <2>2. job = [step |-> "get", todo |-> form, own |-> own, failed |-> no]
    OBVIOUS
  <2>3. job \in PoliciesJob /\ job.todo = form /\ job.own = <<>>
    BY <2>1, <2>2 DEF PoliciesJob
  <2>4. /\ tx' = [tx EXCEPT ![u] = job] /\ received' = received + 1 /\ received < MaxUpdates
        /\ saved' = saved /\ readers' = readers /\ cache' = cache /\ raced' = raced
    BY <1>2, Zenon DEF settings!Begin
  <2>5. received' \in 0 .. MaxUpdates
    BY <1>1, <2>4
  <2> HIDE DEF job
  <2>6. DOMAIN job.own = {}
    BY <2>1, <2>3
  <2> QED
    BY <1>1, <2>1, <2>3, <2>4, <2>5, <2>6, PoliciesGoOn
<1>3. CASE settings!Get(u)
  <2> PICK old \in PoliciesJob : old = tx[u] /\ old.todo # <<>>
    BY <1>1, <1>3 DEF settings!Get
  <2> DEFINE job == [old EXCEPT !.step = "set"]
  <2>1. job \in PoliciesJob /\ job.todo = old.todo /\ job.own = old.own
    BY DEF PoliciesJob
  <2>2. tx' = [tx EXCEPT ![u] = job]
    <3>1. tx' = [tx EXCEPT ![u].step = "set"]
      BY <1>3 DEF settings!Get
    <3>2. [tx EXCEPT ![u].step = "set"] = [tx EXCEPT ![u] = [tx[u] EXCEPT !.step = "set"]]
      OBVIOUS
    <3> QED
      BY <3>1, <3>2, Zenon
  <2>3. old # settings!Idle
    BY PoliciesAreDistinct
  <2>4. /\ saved' = saved /\ readers' = readers /\ received' = received
        /\ IF cache = settings!Missing THEN cache' = settings!Seen(u) /\ raced' = TRUE
           ELSE cache' = cache /\ raced' = raced
    BY <1>3, Zenon DEF settings!Get
  <2>5. cache' \in settings!Overrides \cup {settings!Missing} /\ raced' \in BOOLEAN
    BY <1>1, <2>3, <2>4, SeenIs
  <2> HIDE DEF job
  <2> QED
    BY <1>1, <2>1, <2>2, <2>3, <2>4, <2>5, PoliciesGoOn
<1>4. CASE settings!Refuse(u)
  <2> PICK old \in PoliciesJob : old = tx[u] /\ old.todo # <<>>
    BY <1>1, <1>4 DEF settings!Refuse
  <2> PICK rest \in PoliciesJob : /\ rest = settings!Next1(old) /\ rest.own = old.own
                                  /\ rest.step \in {"get", "set"} => rest.todo # <<>>
    BY NextItem
  <2> DEFINE job == [rest EXCEPT !.failed = yes]
  <2>1. /\ job \in PoliciesJob /\ job.todo = rest.todo /\ job.own = rest.own /\ job.step = rest.step
    BY DEF PoliciesJob
  <2>2. /\ tx' = [tx EXCEPT ![u] = job]
        /\ saved' = saved /\ readers' = readers /\ received' = received /\ cache' = cache /\ raced' = raced
    BY <1>4, Zenon DEF settings!Refuse
  <2>3. old # settings!Idle
    BY PoliciesAreDistinct
  <2> HIDE DEF job
  <2> QED
    BY <1>1, <2>1, <2>2, <2>3, PoliciesGoOn
<1>5. CASE settings!Set(u)
  <2> PICK old \in PoliciesJob : old = tx[u] /\ old.todo # <<>>
    BY <1>1, <1>5 DEF settings!Set
  <2> PICK rest \in PoliciesJob : /\ rest = settings!Next1(old) /\ rest.own = old.own
                                  /\ rest.step \in {"get", "set"} => rest.todo # <<>>
    BY NextItem
  <2> PICK item \in Item : item = Head(old.todo)
    BY HeadTailProperties DEF PoliciesJob
  <2>1. item.key \in PolicyKey /\ item.value \in PolicyValue \cup {settings!Unset}
    BY <1>5, Zenon DEF Item, settings!Set
  <2> PICK own \in Written : own = settings!Put(rest.own, item.key, item.value)
    <3>1. rest.own \in Written
      BY DEF PoliciesJob
    <3> QED
      BY <2>1, <3>1, WrittenIs
  <2> DEFINE job == [rest EXCEPT !.own = own]
  <2>2. /\ job \in PoliciesJob /\ job.todo = rest.todo /\ job.step = rest.step
    BY DEF PoliciesJob
  <2>3. /\ tx' = [tx EXCEPT ![u] = job]
        /\ saved' = saved /\ readers' = readers /\ received' = received
        /\ cache' = settings!Missing /\ raced' = no
    BY <1>5, Zenon DEF settings!Set
  <2> HIDE DEF job
  <2> QED
    BY <1>1, <2>2, <2>3, PoliciesGoOn
<1> QED
  BY <1>2, <1>3, <1>4, <1>5

\* The transaction commits, or rolls back when an item was refused.
LEMMA PoliciesEnded ==
    ASSUME PoliciesInv, NEW u \in Worker, settings!End(u)
    PROVE  PoliciesInv'
<1>1. /\ tx \in [Worker -> PoliciesJob \cup {settings!Idle}]
      /\ readers \in [Reader -> Loaded \cup {settings!Nothing}]
      /\ tx[u] # settings!Idle
  BY PoliciesAreDistinct DEF PoliciesInv, PoliciesTyped, settings!End
<1>2. /\ saved' \in settings!Overrides
      /\ DOMAIN tx[u].own = {} => saved' = saved
  BY <1>1, SeenIs DEF settings!End, PoliciesInv, PoliciesTyped
<1> PICK yes \in BOOLEAN : yes = TRUE
  OBVIOUS
<1>3. ASSUME NEW r \in Reader, readers[r] # settings!Nothing
      PROVE  readers'[r] \in Loaded /\ readers'[r].overtaken = yes
  <2> PICK reader \in Loaded : reader = readers[r]
    BY <1>1, <1>3
  <2>1. [reader EXCEPT !.overtaken = yes] \in Loaded /\ [reader EXCEPT !.overtaken = yes].overtaken = yes
    BY DEF Loaded
  <2>2. readers'[r] = [reader EXCEPT !.overtaken = yes]
    BY <1>3 DEF settings!End
  <2> QED
    BY <2>1, <2>2
<1>4. readers' \in [Reader -> Loaded \cup {settings!Nothing}]
  <2>1. ASSUME NEW r \in Reader
        PROVE  readers'[r] \in Loaded \cup {settings!Nothing}
    BY <1>3 DEF settings!End
  <2>2. readers' = [r \in Reader |-> readers'[r]]
    BY DEF settings!End
  <2> QED
    BY <2>1, <2>2
<1>5. \A v \in Worker : tx'[v] = IF v = u THEN settings!Idle ELSE tx[v]
  BY <1>1 DEF settings!End
<1>6. PoliciesTyped'
  BY <1>1, <1>2, <1>4, <1>5, PoliciesAreDistinct DEF PoliciesInv, PoliciesTyped, settings!End
<1>7. PoliciesCurrent'
  <2>1. cache # settings!Missing /\ ~raced => saved' = saved
    BY <1>1, <1>2 DEF PoliciesInv, PoliciesCurrent
  <2>2. \A r \in Reader : readers'[r] # settings!Nothing => readers[r] # settings!Nothing
    BY DEF settings!End
  <2>3. cache' = cache /\ raced' = raced
    BY DEF settings!End
  <2> QED
    BY <1>3, <1>5, <2>1, <2>2, <2>3 DEF PoliciesInv, PoliciesCurrent
<1> QED
  BY <1>6, <1>7 DEF PoliciesInv

LEMMA PoliciesServed ==
    ASSUME PoliciesInv,
           \/ \E r \in Reader : settings!Load(r) \/ settings!Fill(r)
           \/ settings!Expire
    PROVE  PoliciesInv'
<1>1. /\ readers \in [Reader -> Loaded \cup {settings!Nothing}]
      /\ saved \in settings!Overrides /\ cache \in settings!Overrides \cup {settings!Missing}
      /\ tx \in [Worker -> PoliciesJob \cup {settings!Idle}]
  BY DEF PoliciesInv, PoliciesTyped
<1> PICK yes \in BOOLEAN, no \in BOOLEAN : yes = TRUE /\ no = FALSE
  OBVIOUS
<1>2. ASSUME NEW r \in Reader, settings!Load(r)
      PROVE  PoliciesInv'
  <2> DEFINE reader == [loaded |-> yes, overrides |-> saved, overtaken |-> no]
  <2>1. reader \in Loaded /\ reader.overrides = saved
    BY <1>1 DEF Loaded
  <2>2. /\ readers' = [readers EXCEPT ![r] = reader]
        /\ saved' = saved /\ cache' = cache /\ tx' = tx /\ received' = received /\ raced' = raced
    BY <1>2, Zenon DEF settings!Load
  <2> HIDE DEF reader
  <2>3. \A q \in Reader : readers'[q] = IF q = r THEN reader ELSE readers[q]
    BY <1>1, <2>2
  <2>4. PoliciesTyped'
    BY <2>1, <2>2 DEF PoliciesInv, PoliciesTyped
  <2>5. PoliciesCurrent'
    BY <2>1, <2>2, <2>3 DEF PoliciesInv, PoliciesCurrent
  <2> QED
    BY <2>4, <2>5 DEF PoliciesInv
<1>3. ASSUME NEW r \in Reader, settings!Fill(r)
      PROVE  PoliciesInv'
  <2> PICK reader \in Loaded : reader = readers[r] /\ reader # settings!Nothing
    BY <1>1, <1>3 DEF settings!Fill
  <2>1. reader.overrides \in settings!Overrides /\ reader.overtaken \in BOOLEAN
    BY DEF Loaded
  <2> DEFINE underway == \E u \in Worker : tx[u] # settings!Idle
  <2> PICK racing \in BOOLEAN : racing <=> (reader.overtaken \/ underway)
    BY <2>1
  <2>2. /\ cache' = reader.overrides /\ raced' = racing
        /\ readers' = [readers EXCEPT ![r] = settings!Nothing]
        /\ saved' = saved /\ tx' = tx /\ received' = received
    <3>1. raced' = (reader.overtaken \/ underway)
      BY <1>3, Zenon DEF settings!Fill, settings!Open
    <3>2. raced' = racing
      BY <3>1
    <3> QED
      BY <3>2, <1>3, Zenon DEF settings!Fill
  <2>3. PoliciesTyped'
    BY <1>1, <2>1, <2>2 DEF PoliciesInv, PoliciesTyped
  <2>4. ~racing => reader.overrides = saved /\ ~underway
    BY DEF PoliciesInv, PoliciesCurrent
  <2>5. \A q \in Reader : readers'[q] # settings!Nothing => readers'[q] = readers[q]
    BY <1>1, <2>2
  <2>6. PoliciesCurrent'
    BY <2>2, <2>4, <2>5 DEF PoliciesInv, PoliciesCurrent
  <2> QED
    BY <2>3, <2>6 DEF PoliciesInv
<1>4. CASE settings!Expire
  BY <1>4 DEF settings!Expire, PoliciesInv, PoliciesTyped, PoliciesCurrent
<1> QED
  BY <1>2, <1>3, <1>4

\* Settings: what every worker is served is what is saved, except from an
\* entry that was filled while an update was open, or by an overtaken reader.
THEOREM Served ==
    ASSUME settings!SettingsAssumption
    PROVE  settings!Spec => []settings!SettingsHold
<1>1. settings!Init => PoliciesInv
  <2> SUFFICES ASSUME settings!Init
               PROVE  PoliciesInv
    OBVIOUS
  <2>1. MaxUpdates \in Nat
    BY DEF settings!SettingsAssumption
  <2>2. saved \in settings!Overrides
    BY DEF settings!Init, settings!Overrides
  <2>3. PoliciesTyped
    <3>1. tx \in [Worker -> {settings!Idle}] /\ readers \in [Reader -> {settings!Nothing}]
      BY DEF settings!Init
    <3>2. \A u \in Worker : tx[u].step \notin {"get", "set"}
      BY <3>1, PoliciesAreDistinct
    <3>3. cache = settings!Missing /\ received = 0 /\ raced \in BOOLEAN
      BY DEF settings!Init
    <3> QED
      BY <2>1, <2>2, <3>1, <3>2, <3>3 DEF PoliciesTyped
  <2> QED
    BY <2>3 DEF settings!Init, PoliciesInv, PoliciesCurrent
<1>2. PoliciesInv /\ [settings!Next]_(settings!vars) => PoliciesInv'
  <2>1. ASSUME PoliciesInv, UNCHANGED settings!vars
        PROVE  PoliciesInv'
    BY <2>1 DEF settings!vars, PoliciesInv, PoliciesTyped, PoliciesCurrent
  <2>2. ASSUME PoliciesInv, settings!Next
        PROVE  PoliciesInv'
    BY <2>2, PoliciesUpdated, PoliciesEnded, PoliciesServed DEF settings!Next
  <2> QED
    BY <2>1, <2>2
<1>3. PoliciesInv => settings!SettingsHold
  <2> SUFFICES ASSUME PoliciesInv
               PROVE  settings!SettingsHold
    OBVIOUS
  <2>1. \A r \in Reader : readers[r] # settings!Nothing => readers[r].overrides \in settings!Overrides
    BY DEF PoliciesInv, PoliciesTyped, Loaded
  <2>2. settings!TypeOK
    BY <2>1 DEF PoliciesInv, PoliciesTyped, settings!TypeOK
  <2> QED
    BY <2>2 DEF PoliciesInv, PoliciesCurrent, settings!SettingsHold, settings!ServedIsSavedOrRaced
<1> QED
  BY <1>1, <1>2, <1>3, PTL DEF settings!Spec

-----------------------------------------------------------------------------
(* Groups, what they teach, and the lessons that are generated *)

PatchJob ==
    [step : {"patching"}, group : StudyGroup, read : academics!Record, data : academics!Data,
     row : academics!Record, taught : BOOLEAN, overtaken : BOOLEAN]

GenerateJob ==
    [step : {"generating"}, group : StudyGroup, wanted : SUBSET academics!Day, todo : SUBSET academics!Day]

ClassesTyped ==
    /\ academics!TypeOK
    /\ tx \in [Worker -> PatchJob \cup GenerateJob \cup {academics!Idle}]

\* What a PATCH made of the group it read, and that it is the group still
\* unless the request was overtaken.
PatchIs(job) ==
    /\ job.row.offering # job.read.offering => ~job.taught
    /\ job.data.fee = {} /\ job.read.fee # 0 => job.row.fee = job.read.fee
    /\ ~job.overtaken => groups[job.group] = job.read

\* A generation has left a lesson on every day it has dealt with.
LessonsBehind(job) == \A day \in job.wanted \ job.todo : <<job.group, day>> \in lessons

ClassesWorked ==
    \A r \in Worker : /\ tx[r].step = "patching" => PatchIs(tx[r])
                      /\ tx[r].step = "generating" => LessonsBehind(tx[r])

ClassesInv == ClassesTyped /\ ClassesWorked /\ academics!PromisedAreHeld

LEMMA ClassesAreDistinct ==
    /\ \A job \in PatchJob : job.step = "patching" /\ job # academics!Idle
    /\ \A job \in GenerateJob : job.step = "generating" /\ job # academics!Idle
    /\ academics!Idle.step = "idle"
<1>1. academics!Idle.step = "idle"
  BY DEF academics!Idle
<1>2. \A job \in PatchJob : job.step = "patching"
  BY DEF PatchJob
<1>3. \A job \in GenerateJob : job.step = "generating"
  BY DEF GenerateJob
<1> QED
  BY <1>1, <1>2, <1>3, Zenon

\* Which of the two a request at work is.
LEMMA WorkIs ==
    ASSUME ClassesInv, NEW r \in Worker
    PROVE  /\ tx[r].step = "patching" => tx[r] \in PatchJob /\ PatchIs(tx[r])
           /\ tx[r].step = "generating" => tx[r] \in GenerateJob /\ LessonsBehind(tx[r])
<1>1. tx[r] \in PatchJob \cup GenerateJob \cup {academics!Idle}
  BY DEF ClassesInv, ClassesTyped
<1>2. /\ tx[r].step = "patching" => PatchIs(tx[r])
      /\ tx[r].step = "generating" => LessonsBehind(tx[r])
  BY DEF ClassesInv, ClassesWorked
<1> QED
  BY <1>1, <1>2, ClassesAreDistinct

LEMMA ClassesUndisturbed ==
    ASSUME groups' = groups
    PROVE  academics!GroupsAreDecided
BY DEF academics!GroupsAreDecided, academics!Moves, academics!Reprices

\* No group is saved, and no lesson is taken away.
LEMMA ClassesGoOn ==
    ASSUME ClassesInv, academics!TypeOK', groups' = groups, lessons \subseteq lessons',
           tx' \in [Worker -> PatchJob \cup GenerateJob \cup {academics!Idle}],
           \A q \in Worker : \/ tx'[q] = tx[q]
                             \/ tx'[q] = academics!Idle
                             \/ tx'[q] \in PatchJob /\ PatchIs(tx'[q])
                             \/ \E job \in GenerateJob : tx'[q] = job /\ LessonsBehind(job)'
    PROVE  ClassesTyped' /\ ClassesWorked'
<1>1. ClassesTyped'
  BY DEF ClassesTyped
<1>2. ASSUME NEW q \in Worker, tx'[q].step = "patching"
      PROVE  PatchIs(tx[q])'
  <2>1. PatchIs(tx'[q])
    BY <1>2, WorkIs, ClassesAreDistinct
  <2> QED
    BY <2>1 DEF PatchIs
<1>3. ASSUME NEW q \in Worker, tx'[q].step = "generating"
      PROVE  LessonsBehind(tx[q])'
  <2>1. CASE tx'[q] = tx[q]
    <3>1. LessonsBehind(tx[q])
      BY <1>3, <2>1, WorkIs
    <3> QED
      BY <2>1, <3>1 DEF LessonsBehind
  <2>2. CASE \E job \in GenerateJob : tx'[q] = job /\ LessonsBehind(job)'
    BY <2>2 DEF LessonsBehind
  <2> QED
    BY <1>3, <2>1, <2>2, ClassesAreDistinct
<1> QED
  BY <1>1, <1>2, <1>3 DEF ClassesWorked

\* What GroupForm makes of a group.
LEMMA CleanedIs ==
    ASSUME academics!TypeOK, NEW group \in academics!Record, NEW data \in academics!Data
    PROVE  /\ academics!Cleaned(group, data) \in academics!Record
           /\ data.fee = {} /\ group.fee # 0 => academics!Cleaned(group, data).fee = group.fee
<1> DEFINE offering == academics!Sent(data, "offering", group)
           fee == academics!Sent(data, "fee", group)
           price == IF fee = 0 THEN defaults[offering] ELSE fee
<1>1. /\ data.offering = {} \/ \E o \in SubjectOffering : data.offering = {o}
      /\ data.fee = {} \/ \E f \in Fee : data.fee = {f}
  BY DEF academics!Data
<1>2. group.offering \in SubjectOffering /\ group.fee \in Fee
  BY DEF academics!Record
<1>3. offering = IF data.offering = {} THEN group.offering ELSE CHOOSE x \in data.offering : TRUE
  BY DEF academics!Sent
<1>4. fee = IF data.fee = {} THEN group.fee ELSE CHOOSE x \in data.fee : TRUE
  BY DEF academics!Sent
<1> HIDE DEF offering, fee
<1>5. offering \in SubjectOffering /\ fee \in Fee
  BY <1>1, <1>2, <1>3, <1>4
<1>6. price \in Fee /\ (fee # 0 => price = fee)
  BY <1>5 DEF academics!TypeOK
<1>7. academics!Cleaned(group, data) = [offering |-> offering, fee |-> price]
  BY Zenon DEF academics!Cleaned, offering, fee
<1> HIDE DEF price
<1>8. academics!Cleaned(group, data) \in academics!Record /\ academics!Cleaned(group, data).fee = price
  BY <1>5, <1>6, <1>7 DEF academics!Record
<1> QED
  BY <1>4, <1>6, <1>8

LEMMA ClassesPatch ==
    ASSUME academics!AcademicsAssumption, ClassesInv, NEW r \in Worker, NEW g \in StudyGroup,
           NEW data \in academics!Data, academics!Patch(r, g, data)
    PROVE  ClassesInv' /\ academics!GroupsAreDecided
<1> DEFINE made == academics!Cleaned(groups[g], data)
<1>1. /\ groups[g] \in academics!Record /\ academics!TypeOK
      /\ tx \in [Worker -> PatchJob \cup GenerateJob \cup {academics!Idle}]
  BY DEF ClassesInv, ClassesTyped, academics!TypeOK
<1> PICK read \in academics!Record : read = groups[g]
  BY <1>1
<1> PICK entry \in academics!Record : entry = made /\ (data.fee = {} /\ read.fee # 0 => entry.fee = read.fee)
  BY <1>1, CleanedIs
<1> PICK taught \in BOOLEAN : taught = academics!Taught(g)
  BY DEF academics!Taught
<1> PICK no \in BOOLEAN : no = FALSE
  OBVIOUS
<1> DEFINE job == [step |-> "patching", group |-> g, read |-> read, data |-> data, row |-> entry,
                   taught |-> taught, overtaken |-> no]
<1>2. /\ tx' = [tx EXCEPT ![r] = job]
      /\ entry.offering # read.offering => ~taught
      /\ groups' = groups /\ defaults' = defaults /\ schedules' = schedules /\ lessons' = lessons
      /\ seats' = seats /\ promised' = promised /\ academics!Receives(r)
  BY Zenon DEF academics!Patch, academics!MayPatch
<1>3. job \in PatchJob
  BY DEF PatchJob
<1>4. /\ job.group = g /\ job.read = read /\ job.data = data /\ job.row = entry /\ job.taught = taught
  OBVIOUS
<1> HIDE DEF job
<1>5. PatchIs(job)
  BY <1>2, <1>4, Zenon DEF PatchIs
<1>6. academics!TypeOK'
  <2>1. received' \in 0 .. MaxClassRequests
    BY <1>1, <1>2 DEF academics!TypeOK, academics!Receives, academics!AcademicsAssumption
  <2> QED
    BY <1>1, <1>2, <2>1 DEF academics!TypeOK
<1>7. /\ tx' \in [Worker -> PatchJob \cup GenerateJob \cup {academics!Idle}]
      /\ \A q \in Worker : tx'[q] = tx[q] \/ (tx'[q] \in PatchJob /\ PatchIs(tx'[q]))
  BY <1>1, <1>2, <1>3, <1>5
<1>8. ClassesTyped' /\ ClassesWorked'
  BY <1>2, <1>6, <1>7, ClassesGoOn
<1> QED
  BY <1>2, <1>8, ClassesUndisturbed DEF ClassesInv, academics!PromisedAreHeld

\* Requests of one step.
LEMMA ClassesAtOnce ==
    ASSUME academics!AcademicsAssumption, ClassesInv, NEW r \in Worker,
           \/ \E g \in StudyGroup, s \in Member : academics!Enrol(r, s, g)
           \/ \E g \in StudyGroup, weekday \in academics!Weekday : academics!ChangeSchedule(r, g, weekday)
           \/ \E g \in StudyGroup, day \in academics!Day : academics!CreateLesson(r, g, day)
           \/ \E o \in SubjectOffering, fee \in Fee : academics!PatchOffering(r, o, fee)
    PROVE  ClassesInv' /\ academics!GroupsAreDecided
<1>1. academics!TypeOK /\ tx \in [Worker -> PatchJob \cup GenerateJob \cup {academics!Idle}]
  BY DEF ClassesInv, ClassesTyped
<1>2. received' \in 0 .. MaxClassRequests
  <2>1. academics!Receives(r)
    BY DEF academics!Enrol, academics!ChangeSchedule, academics!CreateLesson, academics!PatchOffering
  <2> QED
    BY <1>1, <2>1 DEF academics!TypeOK, academics!Receives, academics!AcademicsAssumption
<1>3. groups' = groups /\ tx' = tx /\ promised' = promised /\ lessons \subseteq lessons'
  BY DEF academics!Enrol, academics!ChangeSchedule, academics!CreateLesson, academics!PatchOffering
<1>4. academics!TypeOK'
  <2>1. ASSUME NEW g \in StudyGroup, NEW s \in Member, academics!Enrol(r, s, g)
        PROVE  academics!TypeOK'
    <3>1. groups[g].offering \in SubjectOffering
      BY <1>1 DEF academics!TypeOK, academics!Record
    <3>2. [student |-> s, group |-> g, offering |-> groups[g].offering] \in academics!Seat
      BY <3>1 DEF academics!Seat
    <3> QED
      BY <1>1, <1>2, <2>1, <3>2 DEF academics!TypeOK, academics!Enrol
  <2>2. ASSUME NEW g \in StudyGroup, NEW weekday \in academics!Weekday, academics!ChangeSchedule(r, g, weekday)
        PROVE  academics!TypeOK'
    BY <1>1, <1>2, <2>2 DEF academics!TypeOK, academics!ChangeSchedule
  <2>3. ASSUME NEW g \in StudyGroup, NEW day \in academics!Day, academics!CreateLesson(r, g, day)
        PROVE  academics!TypeOK'
    BY <1>1, <1>2, <2>3 DEF academics!TypeOK, academics!CreateLesson
  <2>4. ASSUME NEW o \in SubjectOffering, NEW fee \in Fee, academics!PatchOffering(r, o, fee)
        PROVE  academics!TypeOK'
    BY <1>1, <1>2, <2>4 DEF academics!TypeOK, academics!PatchOffering
  <2> QED
    BY <2>1, <2>2, <2>3, <2>4
<1>5. ClassesTyped' /\ ClassesWorked'
  BY <1>1, <1>3, <1>4, ClassesGoOn
<1> QED
  BY <1>3, <1>5, ClassesUndisturbed DEF ClassesInv, academics!PromisedAreHeld

\* A generation, step by step.
LEMMA ClassesGenerate ==
    ASSUME academics!AcademicsAssumption, ClassesInv, NEW r \in Worker,
           \/ \E g \in StudyGroup, range \in SUBSET academics!Day, holidays \in SUBSET academics!Day :
                 academics!Generate(r, g, range, holidays)
           \/ academics!NextLesson(r)
           \/ academics!Generated(r)
    PROVE  ClassesInv' /\ academics!GroupsAreDecided
<1>1. academics!TypeOK /\ tx \in [Worker -> PatchJob \cup GenerateJob \cup {academics!Idle}]
  BY DEF ClassesInv, ClassesTyped
<1>2. ASSUME NEW g \in StudyGroup, NEW range \in SUBSET academics!Day, NEW holidays \in SUBSET academics!Day,
             academics!Generate(r, g, range, holidays)
      PROVE  ClassesInv'
  <2> PICK wanted \in SUBSET academics!Day : wanted = academics!Wanted(g, range, holidays)
    BY DEF academics!Wanted
  <2> PICK todo \in SUBSET academics!Day : todo = wanted \ academics!Existing(g)
    OBVIOUS
  <2> DEFINE job == [step |-> "generating", group |-> g, wanted |-> wanted, todo |-> todo]
  <2>1. /\ tx' = [tx EXCEPT ![r] = job] /\ groups' = groups /\ lessons' = lessons
        /\ defaults' = defaults /\ schedules' = schedules /\ seats' = seats /\ promised' = promised
        /\ academics!Receives(r)
    BY <1>2, Zenon DEF academics!Generate
  <2>2. job \in GenerateJob /\ job.group = g /\ job.wanted = wanted /\ job.todo = todo
    BY DEF GenerateJob
  <2> HIDE DEF job
  <2>3. LessonsBehind(job)'
    BY <2>1, <2>2 DEF LessonsBehind, academics!Existing
  <2>4. academics!TypeOK'
    BY <1>1, <2>1 DEF academics!TypeOK, academics!Receives, academics!AcademicsAssumption
  <2>5. /\ tx' \in [Worker -> PatchJob \cup GenerateJob \cup {academics!Idle}]
        /\ \A q \in Worker : tx'[q] = tx[q] \/ \E other \in GenerateJob : tx'[q] = other /\ LessonsBehind(other)'
    BY <1>1, <2>1, <2>2, <2>3
  <2>6. ClassesTyped' /\ ClassesWorked'
    BY <2>1, <2>4, <2>5, ClassesGoOn
  <2> QED
    BY <2>1, <2>6 DEF ClassesInv, academics!PromisedAreHeld
<1>3. ASSUME academics!NextLesson(r)
      PROVE  ClassesInv'
  <2> PICK old \in GenerateJob : old = tx[r] /\ old.todo # {} /\ LessonsBehind(old)
    BY <1>3, WorkIs DEF academics!NextLesson
  <2> DEFINE day == academics!Min(old.todo)
             lesson == <<old.group, day>>
             job == [old EXCEPT !.todo = old.todo \ {day}]
  <2>1. old.group \in StudyGroup /\ old.wanted \subseteq academics!Day /\ old.todo \subseteq academics!Day
    BY DEF GenerateJob
  <2>2. day \in old.todo
    BY <2>1, SmallestIs DEF academics!Day
  <2>3. /\ lessons' = lessons \cup {lesson}
        /\ tx' = [tx EXCEPT ![r] = IF lesson \in lessons THEN academics!Idle ELSE job]
        /\ groups' = groups /\ defaults' = defaults /\ schedules' = schedules /\ seats' = seats
        /\ promised' = promised /\ received' = received
    <3>1. lesson[2] = day
      OBVIOUS
    <3> DEFINE that == <<tx[r].group, academics!Min(tx[r].todo)>>
    <3>2. /\ lessons' = lessons \cup {that}
          /\ tx' = [tx EXCEPT ![r] = IF that \in lessons THEN academics!Idle
                                     ELSE [tx[r] EXCEPT !.todo = tx[r].todo \ {that[2]}]]
          /\ groups' = groups /\ defaults' = defaults /\ schedules' = schedules /\ seats' = seats
          /\ promised' = promised /\ received' = received
      <4>1. lessons' = lessons \cup {that}
        BY <1>3, Zenon DEF academics!NextLesson
      <4>2. tx' = [tx EXCEPT ![r] = IF that \in lessons THEN academics!Idle
                                     ELSE [tx[r] EXCEPT !.todo = tx[r].todo \ {that[2]}]]
        BY <1>3, Zenon DEF academics!NextLesson
      <4>3. /\ groups' = groups /\ defaults' = defaults /\ schedules' = schedules /\ seats' = seats
            /\ promised' = promised /\ received' = received
        BY <1>3, Zenon DEF academics!NextLesson
      <4> QED
        BY <4>1, <4>2, <4>3
    <3>3. that = lesson
      OBVIOUS
    <3> HIDE DEF lesson, day, that
    <3>4. [tx[r] EXCEPT !.todo = tx[r].todo \ {lesson[2]}] = job
      BY <3>1, Zenon
    <3> QED
      BY <3>2, <3>3, <3>4, Zenon
  <2> HIDE DEF day
  <2>4. /\ job \in GenerateJob /\ job.group = old.group /\ job.wanted = old.wanted
        /\ job.todo = old.todo \ {day}
    BY <2>1 DEF GenerateJob
  <2>5. lesson \in StudyGroup \X academics!Day
    BY <2>1, <2>2
  <2> HIDE DEF job
  <2>6. LessonsBehind(job)'
    BY <2>3, <2>4 DEF LessonsBehind
  <2>7. academics!TypeOK'
    BY <1>1, <2>3, <2>5 DEF academics!TypeOK
  <2>8. /\ tx' \in [Worker -> PatchJob \cup GenerateJob \cup {academics!Idle}]
        /\ \A q \in Worker : \/ tx'[q] = tx[q] \/ tx'[q] = academics!Idle
                             \/ \E other \in GenerateJob : tx'[q] = other /\ LessonsBehind(other)'
    BY <1>1, <2>3, <2>4, <2>6
  <2>9. ClassesTyped' /\ ClassesWorked'
    BY <2>3, <2>7, <2>8, ClassesGoOn
  <2> QED
    BY <2>3, <2>9 DEF ClassesInv, academics!PromisedAreHeld
<1>4. ASSUME academics!Generated(r)
      PROVE  ClassesInv'
  <2> PICK old \in GenerateJob : old = tx[r] /\ old.todo = {} /\ LessonsBehind(old)
    BY <1>4, WorkIs DEF academics!Generated
  <2>1. /\ promised' = promised \cup ({old.group} \X old.wanted)
        /\ tx' = [tx EXCEPT ![r] = academics!Idle] /\ lessons' = lessons
        /\ groups' = groups /\ defaults' = defaults /\ schedules' = schedules /\ seats' = seats
        /\ received' = received
    BY <1>4 DEF academics!Generated
  <2>2. {old.group} \X old.wanted \subseteq lessons
    BY DEF LessonsBehind
  <2>3. academics!TypeOK'
    BY <1>1, <2>1 DEF academics!TypeOK
  <2>4. /\ tx' \in [Worker -> PatchJob \cup GenerateJob \cup {academics!Idle}]
        /\ \A q \in Worker : tx'[q] = tx[q] \/ tx'[q] = academics!Idle
    BY <1>1, <2>1
  <2>5. ClassesTyped' /\ ClassesWorked'
    BY <2>1, <2>3, <2>4, ClassesGoOn
  <2> QED
    BY <2>1, <2>2, <2>5 DEF ClassesInv, academics!PromisedAreHeld
<1>5. groups' = groups
  BY DEF academics!Generate, academics!NextLesson, academics!Generated
<1> QED
  BY <1>2, <1>3, <1>4, <1>5, ClassesUndisturbed

LEMMA ClassesSave ==
    ASSUME ClassesInv, NEW r \in Worker, academics!Save(r)
    PROVE  ClassesInv' /\ academics!GroupsAreDecided
<1>1. academics!TypeOK /\ tx \in [Worker -> PatchJob \cup GenerateJob \cup {academics!Idle}]
  BY DEF ClassesInv, ClassesTyped
<1> PICK job \in PatchJob : job = tx[r] /\ PatchIs(job)
  BY WorkIs DEF academics!Save
<1> DEFINE g == job.group
<1>2. g \in StudyGroup /\ job.row \in academics!Record /\ job.read \in academics!Record
  BY DEF PatchJob
<1>3. /\ groups' = [groups EXCEPT ![g] = job.row] /\ tx' = academics!Overtaken(r, g)
      /\ defaults' = defaults /\ schedules' = schedules /\ lessons' = lessons /\ seats' = seats
      /\ received' = received /\ promised' = promised
  BY DEF academics!Save
<1> HIDE DEF g
<1>4. \A h \in StudyGroup : groups'[h] = IF h = g THEN job.row ELSE groups[h]
  BY <1>1, <1>3 DEF academics!TypeOK
<1>5. academics!TypeOK'
  BY <1>1, <1>2, <1>3 DEF academics!TypeOK
<1> PICK yes \in BOOLEAN : yes = TRUE
  OBVIOUS
<1>6. ASSUME NEW q \in Worker, q # r
      PROVE  \/ tx'[q] = tx[q] /\ (tx[q].step = "patching" => tx[q].group # g)
             \/ tx'[q] \in PatchJob /\ tx[q] \in PatchJob /\ PatchIs(tx[q])
                /\ tx'[q] = [tx[q] EXCEPT !.overtaken = yes]
  <2>1. CASE tx[q].step = "patching" /\ tx[q].group = g
    <3> PICK other \in PatchJob : other = tx[q] /\ PatchIs(other)
      BY <2>1, WorkIs
    <3>1. [other EXCEPT !.overtaken = yes] \in PatchJob
      BY DEF PatchJob
    <3>2. tx'[q] = [other EXCEPT !.overtaken = yes]
      BY <1>3, <1>6, <2>1 DEF academics!Overtaken
    <3> QED
      BY <3>1, <3>2, Zenon
  <2>2. CASE ~(tx[q].step = "patching" /\ tx[q].group = g)
    <3>1. tx'[q] = tx[q]
      BY <1>3, <1>6, <2>2 DEF academics!Overtaken
    <3> QED
      BY <3>1, <2>2
  <2> QED
    BY <2>1, <2>2
<1>7. tx'[r] = academics!Idle
  BY <1>3 DEF academics!Overtaken
<1>8. tx' \in [Worker -> PatchJob \cup GenerateJob \cup {academics!Idle}]
  <2>1. tx' = [q \in Worker |-> tx'[q]]
    BY <1>3 DEF academics!Overtaken
  <2>2. \A q \in Worker : tx'[q] \in PatchJob \cup GenerateJob \cup {academics!Idle}
    BY <1>1, <1>6, <1>7
  <2> QED
    BY <2>1, <2>2
<1>9. ASSUME NEW q \in Worker, tx'[q].step = "patching"
      PROVE  PatchIs(tx[q])'
  <2>1. q # r
    BY <1>7, <1>9, ClassesAreDistinct
  <2>2. CASE tx'[q] = tx[q] /\ (tx[q].step = "patching" => tx[q].group # g)
    <3>1. PatchIs(tx[q]) /\ tx[q].group # g /\ tx[q].group \in StudyGroup
      BY <1>9, <2>2, WorkIs DEF PatchJob
    <3>2. groups'[tx[q].group] = groups[tx[q].group]
      BY <3>1, <1>4
    <3> QED
      BY <2>2, <3>1, <3>2 DEF PatchIs
  <2>3. CASE tx[q] \in PatchJob /\ PatchIs(tx[q]) /\ tx'[q] = [tx[q] EXCEPT !.overtaken = yes]
    <3> PICK other \in PatchJob : other = tx[q] /\ PatchIs(other)
      BY <2>3
    <3> DEFINE over == [other EXCEPT !.overtaken = yes]
    <3>1. /\ over.row = other.row /\ over.read = other.read /\ over.taught = other.taught
          /\ over.data = other.data /\ over.overtaken = yes
      BY DEF PatchJob
    <3>2. tx'[q] = over
      BY <2>3
    <3> HIDE DEF over
    <3>3. /\ over.row.offering # over.read.offering => ~over.taught
          /\ over.data.fee = {} /\ over.read.fee # 0 => over.row.fee = over.read.fee
          /\ over.overtaken
      BY <3>1, Zenon DEF PatchIs
    <3> QED
      BY <3>2, <3>3 DEF PatchIs
  <2> QED
    BY <2>1, <2>2, <2>3, <1>6
<1>10. ASSUME NEW q \in Worker, tx'[q].step = "generating"
       PROVE  LessonsBehind(tx[q])'
  <2>1. q # r /\ tx'[q] = tx[q]
    BY <1>6, <1>7, <1>10, ClassesAreDistinct
  <2>2. LessonsBehind(tx[q])
    BY <1>10, <2>1, WorkIs
  <2> QED
    BY <1>3, <2>1, <2>2 DEF LessonsBehind
<1>11. ClassesInv'
  BY <1>3, <1>5, <1>8, <1>9, <1>10
    DEF ClassesInv, ClassesTyped, ClassesWorked, academics!PromisedAreHeld
<1>12. academics!GroupsAreDecided
  <2> SUFFICES ASSUME NEW h \in StudyGroup, academics!Moves(h) \/ academics!Reprices(h)
               PROVE  /\ tx[r].step = "patching" /\ tx[r].group = h /\ tx'[r] = academics!Idle
                      /\ academics!Moves(h) => ~tx[r].taught \/ tx[r].overtaken
                      /\ academics!Reprices(h) => tx[r].overtaken \/ tx[r].data.fee # {} \/ tx[r].read.fee = 0
    BY Zenon DEF academics!GroupsAreDecided
  <2>1. h = g
    BY <1>4 DEF academics!Moves, academics!Reprices
  <2>2. groups'[h] = job.row /\ (~job.overtaken => groups[h] = job.read)
    BY <2>1, <1>2, <1>4 DEF PatchIs, g
  <2>3. academics!Moves(h) => ~job.taught \/ job.overtaken
    BY <2>2 DEF academics!Moves, PatchIs
  <2>4. academics!Reprices(h) => job.overtaken \/ job.data.fee # {} \/ job.read.fee = 0
    BY <2>2 DEF academics!Reprices, PatchIs
  <2> QED
    BY <1>7, <2>1, <2>3, <2>4, ClassesAreDistinct DEF g
<1> QED
  BY <1>11, <1>12

LEMMA ClassesStep ==
    ASSUME academics!AcademicsAssumption, ClassesInv, [academics!Next]_(academics!vars)
    PROVE  ClassesInv' /\ [academics!GroupsAreDecided]_(academics!vars)
<1>1. ASSUME UNCHANGED academics!vars
      PROVE  ClassesInv'
  BY <1>1 DEF academics!vars, ClassesInv, ClassesTyped, ClassesWorked, academics!TypeOK, PatchIs, LessonsBehind,
              academics!PromisedAreHeld
<1>2. ASSUME academics!Next
      PROVE  ClassesInv' /\ academics!GroupsAreDecided
  <2>1. \A latest \in academics!Day : 1 .. latest \in SUBSET academics!Day
    BY DEF academics!Day, academics!AcademicsAssumption
  <2>2. {} \in SUBSET academics!Day /\ \A day \in academics!Day : {day} \in SUBSET academics!Day
    OBVIOUS
  <2>3. CASE \E r \in Worker, g \in StudyGroup : \E data \in academics!Data : academics!Patch(r, g, data)
    BY <2>3, ClassesPatch
  <2>4. CASE \E r \in Worker, g \in StudyGroup :
               \/ \E s \in Member : academics!Enrol(r, s, g)
               \/ \E weekday \in academics!Weekday : academics!ChangeSchedule(r, g, weekday)
               \/ \E day \in academics!Day : academics!CreateLesson(r, g, day)
    BY <2>4, ClassesAtOnce
  <2>5. CASE \E r \in Worker, o \in SubjectOffering, fee \in Fee : academics!PatchOffering(r, o, fee)
    BY <2>5, ClassesAtOnce
  <2>6. CASE \E r \in Worker, g \in StudyGroup, range \in {1 .. latest : latest \in academics!Day},
                holidays \in {{}} \cup {{day} : day \in academics!Day} : academics!Generate(r, g, range, holidays)
    <3> PICK r \in Worker, g \in StudyGroup, range \in {1 .. latest : latest \in academics!Day},
             holidays \in {{}} \cup {{day} : day \in academics!Day} : academics!Generate(r, g, range, holidays)
      BY <2>6
    <3>1. range \in SUBSET academics!Day /\ holidays \in SUBSET academics!Day
      BY <2>1, <2>2
    <3> QED
      BY <3>1, ClassesGenerate
  <2>7. CASE \E r \in Worker : academics!NextLesson(r) \/ academics!Generated(r)
    BY <2>7, ClassesGenerate
  <2>8. CASE \E r \in Worker : academics!Save(r)
    BY <2>8, ClassesSave
  <2> QED
    BY <1>2, <2>3, <2>4, <2>5, <2>6, <2>7, <2>8, Zenon DEF academics!Next
<1> QED
  BY <1>1, <1>2

LEMMA ClassesInitially ==
    ASSUME academics!AcademicsAssumption, academics!Init
    PROVE  ClassesInv
<1>1. MaxClassRequests \in Nat
  BY DEF academics!AcademicsAssumption
<1>2. tx \in [Worker -> {academics!Idle}]
  BY DEF academics!Init
<1>3. ClassesTyped
  BY <1>1, <1>2 DEF academics!Init, ClassesTyped, academics!TypeOK
<1>4. ClassesWorked
  BY <1>2, ClassesAreDistinct DEF ClassesWorked
<1> QED
  BY <1>3, <1>4 DEF academics!Init, ClassesInv, academics!PromisedAreHeld

\* Academics: a generation that ends has left a lesson on every day it was
\* asked for, whoever else makes lessons meanwhile.
THEOREM LessonsHeld ==
    ASSUME academics!AcademicsAssumption
    PROVE  academics!Spec => []academics!AcademicsHold
<1>1. academics!Init => ClassesInv
  BY ClassesInitially
<1>2. ClassesInv /\ [academics!Next]_(academics!vars) => ClassesInv'
  BY ClassesStep
<1>3. ClassesInv => academics!AcademicsHold
  BY DEF ClassesInv, ClassesTyped, academics!AcademicsHold
<1> QED
  BY <1>1, <1>2, <1>3, PTL DEF academics!Spec

\* Academics: a group that has lessons changes its offering, and a fee what
\* was not sent, only with an instance that was overtaken, or a first lesson
\* that came while the PATCH was on its way.
THEOREM GroupsDecided ==
    ASSUME academics!AcademicsAssumption
    PROVE  academics!Spec => [][academics!GroupsAreDecided]_(academics!vars)
<1>1. academics!Init => ClassesInv
  BY ClassesInitially
<1>2. ClassesInv /\ [academics!Next]_(academics!vars) => ClassesInv' /\ [academics!GroupsAreDecided]_(academics!vars)
  BY ClassesStep
<1> QED
  BY <1>1, <1>2, PTL DEF academics!Spec

-----------------------------------------------------------------------------
(* What a scan is answered with *)

ScansRows ==
    [state : {"CHECKED_IN", "CHECKED_OUT", "ABSENT", "CANCELLED"},
     type : {"NORMAL", "ALTERNATIVE_GROUP", "MAKEUP", "EXCEPTIONAL", "MANUAL"},
     assigned : {"here", "other", "none"}, at : 0 .. MaxTime + 1, late : BOOLEAN, approved : BOOLEAN]

Colours == {"idle", "green", "amber", "red"}

ScansTyped ==
    /\ now \in 0 .. MaxTime
    /\ world \in gates!World /\ policies \in gates!Policies
    /\ row = gates!NoRow \/ row \in ScansRows
    /\ screen.colour \in Colours /\ screen.recorded \in BOOLEAN
    /\ changes \in 0 .. MaxChanges
    /\ owed \in BOOLEAN /\ corrected \in BOOLEAN

NeedApproval ==
    {"NEEDS_APPROVAL_NOT_ASSIGNED", "NEEDS_APPROVAL_GRADE", "NEEDS_APPROVAL_WINDOW", "NEEDS_APPROVAL_PAYMENT"}

GreenCodes ==
    {"OK_CHECK_IN", "OK_CHECK_IN_LATE", "OK_CHECK_IN_ALTERNATIVE", "OK_CHECK_IN_MAKEUP",
     "OK_CHECK_OUT", "OK_CHECK_OUT_PARTIAL"}

AmberCodes == NeedApproval \cup {"WARN_DUPLICATE", "WARN_ALREADY_CHECKED_OUT", "WARN_NOT_ASSIGNED"}

\* The five gates that an approval does not open are open.
Standing == world.card = "ASSIGNED" /\ world.student = "ACTIVE" /\ world.lesson = "OPEN"

\* The student of another group, where the policy asks for an approval.
AskedForOther == world.seat = "other" /\ policies.alternative = "REQUIRE_APPROVAL"

\* A row that nobody made was not owed an approval; and a refusal that is not
\* red came with the five gates open that an approval does not open, a green
\* one from the policy for students of another group.
ScansKept ==
    /\ row = gates!NoRow => ~owed
    /\ owed => row.approved \/ corrected
    /\ row \in ScansRows /\ row.type = "NORMAL" /\ row.at # MaxTime + 1 =>
          row.assigned = "here" /\ Opens <= row.at /\ row.at <= Closes
    /\ screen.recorded => row.state \in {"CHECKED_IN", "CHECKED_OUT"} /\ screen.colour # "red"
    /\ screen.colour \in {"green", "amber"} /\ ~screen.recorded => Standing
    /\ screen.colour = "green" /\ ~screen.recorded => AskedForOther
    /\ screen.code \in NeedApproval => screen.colour = "amber"

ScansInv == ScansTyped /\ ScansKept

LEMMA ScansSeverity ==
    ASSUME NEW code
    PROVE  /\ gates!Severity(code) = "OK" <=> code \in GreenCodes
           /\ gates!Severity(code) \in {"WARN", "NEEDS_APPROVAL"} <=> code \in AmberCodes
           /\ gates!Severity(code) = "NEEDS_APPROVAL" <=> code \in NeedApproval
<1> DEFINE S == gates!Severities
           Warnings == {"WARN_DUPLICATE", "WARN_ALREADY_CHECKED_OUT", "WARN_NOT_ASSIGNED"}
<1>1. /\ DOMAIN S = {"OK", "WARN", "NEEDS_APPROVAL"}
      /\ S["OK"] = GreenCodes /\ S["WARN"] = Warnings /\ S["NEEDS_APPROVAL"] = NeedApproval
  BY DEF gates!Severities, NeedApproval, GreenCodes
<1>2. GreenCodes \cap AmberCodes = {} /\ Warnings \cap NeedApproval = {} /\ AmberCodes = NeedApproval \cup Warnings
  BY DEF NeedApproval, GreenCodes, AmberCodes
<1>3. gates!Severity(code) =
        IF \E s \in DOMAIN S : code \in S[s] THEN CHOOSE s \in DOMAIN S : code \in S[s] ELSE "ERR"
  BY DEF gates!Severity, S
<1> HIDE DEF S, Warnings
<1>4. CASE \E s \in DOMAIN S : code \in S[s]
  <2>1. gates!Severity(code) \in DOMAIN S /\ code \in S[gates!Severity(code)]
    BY <1>3, <1>4
  <2> QED
    BY <2>1, <1>1, <1>2
<1>5. CASE ~\E s \in DOMAIN S : code \in S[s]
  BY <1>1, <1>2, <1>3, <1>5
<1> QED
  BY <1>4, <1>5

LEMMA ScansColour ==
    ASSUME NEW code
    PROVE  /\ gates!Colour(code) \in {"green", "amber", "red"}
           /\ gates!Colour(code) = "green" <=> code \in GreenCodes
           /\ gates!Colour(code) = "amber" <=> code \in AmberCodes
<1>1. /\ gates!Severity(code) = "OK" => gates!Colour(code) = "green"
      /\ gates!Severity(code) \in {"WARN", "NEEDS_APPROVAL"} => gates!Colour(code) = "amber"
      /\ gates!Severity(code) \notin {"OK", "WARN", "NEEDS_APPROVAL"} => gates!Colour(code) = "red"
  BY DEF gates!Colour
<1> QED
  BY <1>1, ScansSeverity

LEMMA ScansNoRow == \A r \in ScansRows : r # gates!NoRow /\ r.state # "none"
<1>1. gates!NoRow.state = "none"
  BY DEF gates!NoRow
<1> QED
  BY <1>1 DEF ScansRows

\* Which gates are shut: the first five whoever approves, the last six only
\* without an approval.
LEMMA ScansShut ==
    ASSUME NEW makeup \in BOOLEAN, NEW approve \in BOOLEAN
    PROVE  /\ gates!Shut(makeup, approve) \subseteq 1 .. 11
           /\ 1 \in gates!Shut(makeup, approve) <=> world.card # "ASSIGNED"
           /\ 2 \in gates!Shut(makeup, approve) <=> world.student = "SUSPENDED"
           /\ 3 \in gates!Shut(makeup, approve) <=> world.student # "ACTIVE"
           /\ 4 \in gates!Shut(makeup, approve) <=> world.lesson = "CANCELLED"
           /\ 5 \in gates!Shut(makeup, approve) <=> world.lesson # "OPEN"
           /\ 6 \in gates!Shut(makeup, approve) <=>
                ~gates!InWindow /\ policies.outside = "BLOCK" /\ ~approve
           /\ 7 \in gates!Shut(makeup, approve) <=>
                ~gates!InWindow /\ policies.outside = "REQUIRE_APPROVAL" /\ ~approve
           /\ 8 \in gates!Shut(makeup, approve) <=>
                gates!Classified(makeup).decision = "BLOCK" /\ ~approve
           /\ 9 \in gates!Shut(makeup, approve) <=>
                gates!Classified(makeup).decision = "REQUIRE_APPROVAL" /\ ~approve
           /\ 10 \in gates!Shut(makeup, approve) <=>
                gates!PaymentCode = "ERR_PAYMENT_BLOCKED" /\ ~approve
           /\ 11 \in gates!Shut(makeup, approve) <=>
                gates!PaymentCode = "NEEDS_APPROVAL_PAYMENT" /\ ~approve
<1> DEFINE G == gates!Gates(makeup, approve)
<1>1. DOMAIN G = 1 .. 11
  BY DEF gates!Gates
<1>2. /\ G[1].shut <=> world.card # "ASSIGNED"
      /\ G[2].shut <=> world.student = "SUSPENDED"
      /\ G[3].shut <=> world.student # "ACTIVE"
      /\ G[4].shut <=> world.lesson = "CANCELLED"
      /\ G[5].shut <=> world.lesson # "OPEN"
  BY DEF gates!Gates
<1>3. /\ G[6].shut <=> ~gates!InWindow /\ policies.outside = "BLOCK" /\ ~approve
      /\ G[7].shut <=> ~gates!InWindow /\ policies.outside = "REQUIRE_APPROVAL" /\ ~approve
  BY DEF gates!Gates
<1>4. /\ G[8].shut <=> gates!Classified(makeup).decision = "BLOCK" /\ ~approve
      /\ G[9].shut <=> gates!Classified(makeup).decision = "REQUIRE_APPROVAL" /\ ~approve
  BY DEF gates!Gates
<1>5. /\ G[10].shut <=> gates!PaymentCode = "ERR_PAYMENT_BLOCKED" /\ ~approve
      /\ G[11].shut <=> gates!PaymentCode = "NEEDS_APPROVAL_PAYMENT" /\ ~approve
  BY DEF gates!Gates
<1>6. gates!Shut(makeup, approve) = {i \in 1 .. 11 : G[i].shut}
  BY <1>1 DEF gates!Shut
<1> HIDE DEF G
<1> QED
  BY <1>2, <1>3, <1>4, <1>5, <1>6

LEMMA ScansClassified ==
    ASSUME ScansTyped, NEW makeup \in BOOLEAN
    PROVE  /\ gates!Classified(makeup).code \in GreenCodes \cup AmberCodes
           /\ gates!Classified(makeup).block \notin GreenCodes \cup AmberCodes
           /\ /\ gates!Classified(makeup).code \in GreenCodes
              /\ gates!Classified(makeup).decision = "REQUIRE_APPROVAL"
              => AskedForOther
<1>1. world.seat \in {"here", "other", "none"}
  BY DEF ScansTyped, gates!World
<1>2. CASE world.seat = "here"
  <2>1. gates!Classified(makeup) = gates!Decision("NORMAL", "ALLOW", "OK_CHECK_IN", "none")
    BY <1>2, Zenon DEF gates!Classified
  <2> QED
    BY <2>1 DEF gates!Decision, GreenCodes, AmberCodes, NeedApproval
<1>3. CASE world.seat = "other"
  <2>1. /\ gates!Classified(makeup).code \in {"OK_CHECK_IN_MAKEUP", "OK_CHECK_IN_ALTERNATIVE"}
        /\ gates!Classified(makeup).decision = policies.alternative
        /\ gates!Classified(makeup).block = "ERR_NOT_ASSIGNED_BLOCKED"
    BY <1>3 DEF gates!Classified, gates!Decision
  <2> QED
    BY <2>1, <1>3 DEF GreenCodes, AmberCodes, NeedApproval, AskedForOther
<1>4. CASE world.seat = "none"
  <2>1. /\ gates!Classified(makeup).code \in
              {"NEEDS_APPROVAL_GRADE", "NEEDS_APPROVAL_NOT_ASSIGNED", "WARN_NOT_ASSIGNED"}
        /\ gates!Classified(makeup).block \in {"ERR_GRADE_BLOCKED", "ERR_NOT_ASSIGNED_BLOCKED"}
    BY <1>4 DEF gates!Classified, gates!Decision
  <2> QED
    BY <2>1 DEF GreenCodes, AmberCodes, NeedApproval
<1> QED
  BY <1>1, <1>2, <1>3, <1>4

\* The codes of the gates: red at the first five, and green only at the one
\* that asks for an approval of a student of another group.
LEMMA ScansCodes ==
    ASSUME ScansTyped, NEW makeup \in BOOLEAN, NEW approve \in BOOLEAN, NEW i \in 1 .. 11,
           i \in gates!Shut(makeup, approve)
    PROVE  /\ i \in 1 .. 5 => gates!Gates(makeup, approve)[i].code \notin GreenCodes \cup AmberCodes
           /\ gates!Gates(makeup, approve)[i].code \in GreenCodes => AskedForOther
<1> DEFINE G == gates!Gates(makeup, approve)
           decision == gates!Classified(makeup)
<1>1. /\ G[1].code = IF world.card = "ASSIGNED" THEN "none" ELSE gates!CardError[world.card]
      /\ G[2].code = "ERR_STUDENT_SUSPENDED" /\ G[3].code = "ERR_STUDENT_INACTIVE"
      /\ G[4].code = "ERR_LESSON_CANCELLED" /\ G[5].code = "ERR_LESSON_NOT_OPEN"
  BY DEF gates!Gates
<1>2. /\ G[6].code = "ERR_WINDOW_CLOSED" /\ G[7].code = "NEEDS_APPROVAL_WINDOW"
      /\ G[8].code = decision.block /\ G[9].code = decision.code
      /\ G[10].code = "ERR_PAYMENT_BLOCKED" /\ G[11].code = "NEEDS_APPROVAL_PAYMENT"
  BY DEF gates!Gates
<1>3. i = 9 => decision.decision = "REQUIRE_APPROVAL"
  BY ScansShut
<1> HIDE DEF G, decision
<1>4. world.card # "ASSIGNED" =>
        gates!CardError[world.card] \in {"ERR_CARD_UNASSIGNED", "ERR_CARD_LOST", "ERR_CARD_DISABLED", "ERR_CARD_REPLACED"}
  BY DEF ScansTyped, gates!World, gates!CardStatus, gates!CardError
<1>5. i \in 1 .. 5 => G[i].code \notin GreenCodes \cup AmberCodes
  <2>1. /\ G[1].code \notin GreenCodes \cup AmberCodes /\ G[2].code \notin GreenCodes \cup AmberCodes
        /\ G[3].code \notin GreenCodes \cup AmberCodes /\ G[4].code \notin GreenCodes \cup AmberCodes
        /\ G[5].code \notin GreenCodes \cup AmberCodes
    BY <1>1, <1>4 DEF NeedApproval, GreenCodes, AmberCodes
  <2>2. i \in 1 .. 5 => i = 1 \/ i = 2 \/ i = 3 \/ i = 4 \/ i = 5
    OBVIOUS
  <2> QED
    BY <2>1, <2>2, Zenon
<1>6. G[i].code \in GreenCodes => AskedForOther
  <2>1. /\ G[6].code \notin GreenCodes /\ G[7].code \notin GreenCodes
        /\ G[10].code \notin GreenCodes /\ G[11].code \notin GreenCodes
    BY <1>2 DEF GreenCodes
  <2>2. /\ G[8].code \notin GreenCodes
        /\ i = 9 /\ G[9].code \in GreenCodes => AskedForOther
    BY <1>2, <1>3, ScansClassified DEF decision
  <2>3. i \in 1 .. 5 \/ i = 6 \/ i = 7 \/ i = 8 \/ i = 9 \/ i = 10 \/ i = 11
    OBVIOUS
  <2>4. G[i].code \in GreenCodes => G[i].code \in GreenCodes \cup AmberCodes
    OBVIOUS
  <2> QED
    BY <1>5, <2>1, <2>2, <2>3, <2>4, Zenon
<1> QED
  BY <1>5, <1>6 DEF G

\* Who is asked for an approval, and meets no gate, has it.
LEMMA ScansAsked ==
    ASSUME gates!ScanGatesAssumption, ScansTyped, NEW makeup \in BOOLEAN, NEW approve \in BOOLEAN,
           gates!Shut(makeup, approve) = {}, gates!Asked
    PROVE  approve
<1> SUFFICES ASSUME ~approve PROVE FALSE
  OBVIOUS
<1>1. /\ ~(~gates!InWindow /\ policies.outside \in {"BLOCK", "REQUIRE_APPROVAL"})
      /\ gates!Classified(makeup).decision \notin {"BLOCK", "REQUIRE_APPROVAL"}
      /\ gates!PaymentCode \notin {"ERR_PAYMENT_BLOCKED", "NEEDS_APPROVAL_PAYMENT"}
  BY ScansShut
<1>2. /\ policies.other_grade \in {"BLOCK", "REQUIRE_APPROVAL"} /\ policies.enforce \in BOOLEAN
      /\ policies.allow_unpaid \in BOOLEAN /\ policies.allow_partial \in BOOLEAN
      /\ world.grace \in BOOLEAN /\ world.same_grade \in BOOLEAN
  BY DEF ScansTyped, gates!Policies, gates!World
<1>3. world.seat = "other" => gates!Classified(makeup).decision = policies.alternative
  BY DEF gates!Classified, gates!Decision
<1>4. world.seat = "none" /\ ~world.same_grade => gates!Classified(makeup).decision = policies.other_grade
  BY DEF gates!Classified, gates!Decision
<1>5. world.seat = "none" /\ world.same_grade => gates!Classified(makeup).decision = policies.unassigned
  BY DEF gates!Classified, gates!Decision
<1>6. policies.enforce /\ ~world.grace /\ world.dues = "unpaid" /\ ~policies.allow_unpaid =>
        gates!PaymentCode \in {"ERR_PAYMENT_BLOCKED", "NEEDS_APPROVAL_PAYMENT"}
  BY <1>2 DEF gates!PaymentCode
<1>7. policies.enforce /\ ~world.grace /\ world.dues = "partial" /\ ~policies.allow_partial =>
        gates!PaymentCode \in {"ERR_PAYMENT_BLOCKED", "NEEDS_APPROVAL_PAYMENT"}
  BY <1>2 DEF gates!PaymentCode
<1>8. now < Opens \/ now > Closes => ~gates!InWindow
  <2>1. Opens \in Nat /\ Closes \in Nat /\ now \in Nat
    BY DEF gates!ScanGatesAssumption, ScansTyped
  <2> QED
    BY <2>1 DEF gates!InWindow
<1>9. /\ ~(policies.enforce /\ ~world.grace /\ world.dues = "unpaid" /\ ~policies.allow_unpaid)
      /\ ~(policies.enforce /\ ~world.grace /\ world.dues = "partial" /\ ~policies.allow_partial)
  BY <1>1, <1>6, <1>7, Zenon
<1>10. ~(world.seat = "none" /\ ~world.same_grade)
  BY <1>1, <1>2, <1>4, Zenon
<1> QED
  BY <1>1, <1>3, <1>5, <1>8, <1>9, <1>10, Zenon DEF gates!Asked

LEMMA ScansAnswered ==
    ASSUME NEW code, NEW marked \in BOOLEAN, gates!Answer(code, marked)
    PROVE  /\ screen'.code = code /\ screen'.recorded = marked
           /\ screen'.colour \in {"green", "amber", "red"}
           /\ screen'.colour = "green" <=> code \in GreenCodes
           /\ screen'.colour = "amber" <=> code \in AmberCodes
<1>1. screen' = [code |-> code, colour |-> gates!Colour(code), recorded |-> marked]
  BY Zenon DEF gates!Answer
<1> QED
  BY <1>1, ScansColour

LEMMA ScansTypedStill ==
    ASSUME now' \in 0 .. MaxTime, world' \in gates!World, policies' \in gates!Policies,
           row' = gates!NoRow \/ row' \in ScansRows,
           screen'.colour \in Colours, screen'.recorded \in BOOLEAN, changes' \in 0 .. MaxChanges,
           owed' \in BOOLEAN, corrected' \in BOOLEAN
    PROVE  ScansTyped'
  BY Zenon DEF ScansTyped, gates!NoRow, gates!World, gates!Policies,
               gates!CardStatus, gates!StudentStatus, gates!LessonStatus

LEMMA ScansRefused ==
    ASSUME ScansInv, NEW code, gates!Refuse(code), UNCHANGED <<now, world, policies, changes>>,
           code \in GreenCodes \cup AmberCodes => Standing,
           code \in GreenCodes => AskedForOther
    PROVE  ScansInv'
<1>1. /\ screen'.code = code /\ screen'.recorded = FALSE
      /\ screen'.colour \in {"green", "amber", "red"}
      /\ screen'.colour = "green" <=> code \in GreenCodes
      /\ screen'.colour = "amber" <=> code \in AmberCodes
  BY ScansAnswered DEF gates!Refuse
<1>2. /\ row' = row /\ owed' = owed /\ corrected' = corrected /\ world' = world /\ policies' = policies
  BY DEF gates!Refuse
<1>3. ScansTyped'
  <2>1. /\ now' \in 0 .. MaxTime /\ world' \in gates!World /\ policies' \in gates!Policies
        /\ changes' \in 0 .. MaxChanges /\ owed' \in BOOLEAN /\ corrected' \in BOOLEAN
        /\ row' = gates!NoRow \/ row' \in ScansRows
        /\ screen'.recorded \in BOOLEAN /\ screen'.colour \in Colours
    BY <1>1, <1>2 DEF ScansInv, ScansTyped, Colours
  <2> QED
    BY <2>1, ScansTypedStill
<1>4. ScansKept'
  <2>1. screen'.colour \in {"green", "amber"} => Standing'
    BY <1>1, <1>2 DEF Standing
  <2>2. screen'.colour = "green" => AskedForOther'
    BY <1>1, <1>2 DEF AskedForOther
  <2>3. screen'.code \in NeedApproval => screen'.colour = "amber"
    BY <1>1 DEF AmberCodes
  <2> QED
    BY <2>1, <2>2, <2>3, <1>1, <1>2, Zenon DEF ScansInv, ScansKept, gates!NoRow, ScansRows
<1> QED
  BY <1>3, <1>4 DEF ScansInv

LEMMA ScansCheckIn ==
    ASSUME gates!ScanGatesAssumption, ScansInv, NEW makeup \in BOOLEAN, NEW approve \in BOOLEAN,
           gates!Shut(makeup, approve) = {}, gates!CheckIn(gates!Classified(makeup), approve),
           UNCHANGED <<now, world, policies, changes>>
    PROVE  ScansInv'
<1> DEFINE decision == gates!Classified(makeup)
<1>1. /\ row.state \in {"none", "ABSENT"}
      /\ owed' = gates!Asked /\ corrected' = (row.state = "ABSENT")
      /\ row' = gates!Row("CHECKED_IN", gates!TypeOf(decision), world.seat, now, now > LateAfter,
                          IF row = gates!NoRow THEN approve ELSE row.approved)
      /\ \E code \in {"OK_CHECK_IN_LATE", decision.code} : gates!Answer(code, TRUE)
  BY Zenon DEF gates!CheckIn
<1>2. /\ now \in 0 .. MaxTime /\ MaxTime \in Nat /\ Opens \in Nat /\ Closes \in Nat /\ LateAfter \in Nat
      /\ world.seat \in {"here", "other", "none"} /\ (row = gates!NoRow \/ row \in ScansRows)
  BY DEF ScansInv, ScansTyped, gates!World, gates!ScanGatesAssumption
<1>3. /\ decision.type \in {"NORMAL", "ALTERNATIVE_GROUP", "MAKEUP", "EXCEPTIONAL"}
      /\ decision.type = "NORMAL" => world.seat = "here"
  BY <1>2 DEF gates!Classified, gates!Decision
<1> DEFINE type == gates!TypeOf(decision)
<1>4. /\ type \in {"NORMAL", "ALTERNATIVE_GROUP", "MAKEUP", "EXCEPTIONAL"}
      /\ type = "NORMAL" => world.seat = "here" /\ Opens <= now /\ now <= Closes
  BY <1>2, <1>3 DEF gates!TypeOf, gates!InWindow
<1>5. PICK late \in BOOLEAN : late = (now > LateAfter)
  <2>1. (now > LateAfter) \in BOOLEAN
    OBVIOUS
  <2> QED
    BY <2>1, Zenon
<1>6. PICK approved \in BOOLEAN : approved = IF row = gates!NoRow THEN approve ELSE row.approved
  BY <1>2 DEF ScansRows
<1> HIDE DEF decision, type
<1>7. row' = [state |-> "CHECKED_IN", type |-> type, assigned |-> world.seat, at |-> now, late |-> late,
              approved |-> approved]
  BY <1>1, <1>5, <1>6, Zenon DEF gates!Row, type
<1>8. /\ row' \in ScansRows /\ row'.state = "CHECKED_IN" /\ row'.type = type
      /\ row'.assigned = world.seat /\ row'.at = now /\ row'.approved = approved
  BY <1>2, <1>4, <1>7 DEF ScansRows
<1>9. row' # gates!NoRow
  BY <1>8, ScansNoRow
<1>10. /\ screen'.recorded = TRUE /\ screen'.colour \in {"green", "amber"}
       /\ screen'.code \in NeedApproval => screen'.colour = "amber"
  <2>1. decision.code \in GreenCodes \cup AmberCodes
    BY ScansClassified DEF ScansInv, decision
  <2>2. PICK code \in GreenCodes \cup AmberCodes : gates!Answer(code, TRUE)
    BY <1>1, <2>1 DEF GreenCodes
  <2> QED
    BY <2>2, ScansAnswered DEF AmberCodes
<1>11. gates!Asked \in BOOLEAN /\ (row.state = "ABSENT") \in BOOLEAN
  BY DEF gates!Asked
<1>12. owed' \in BOOLEAN /\ corrected' \in BOOLEAN
  BY <1>1, <1>11, Zenon
<1>13. owed' => row'.approved \/ corrected'
  <2>1. row.state # "ABSENT" => row = gates!NoRow
    BY <1>1, <1>2, ScansNoRow
  <2>2. gates!Asked => approve
    BY ScansAsked DEF ScansInv
  <2> QED
    BY <2>1, <2>2, <1>1, <1>6, <1>8, Zenon
<1>14. ScansTyped'
  <2>1. /\ now' \in 0 .. MaxTime /\ world' \in gates!World /\ policies' \in gates!Policies
        /\ changes' \in 0 .. MaxChanges /\ screen'.recorded \in BOOLEAN /\ screen'.colour \in Colours
    BY <1>10 DEF ScansInv, ScansTyped, Colours
  <2> QED
    BY <1>8, <1>10, <1>12, <2>1, ScansTypedStill
<1>15. ScansKept'
  <2>1. row'.type = "NORMAL" => row'.assigned = "here" /\ Opens <= row'.at /\ row'.at <= Closes
    BY <1>4, <1>8
  <2>2. /\ row'.state \in {"CHECKED_IN", "CHECKED_OUT"} /\ row' # [state |-> "none"]
        /\ screen'.recorded /\ screen'.colour # "red"
    BY <1>8, <1>9, <1>10 DEF gates!NoRow
  <2> QED
    BY <2>1, <2>2, <1>10, <1>13, Zenon DEF ScansKept, gates!NoRow
<1> QED
  BY <1>14, <1>15 DEF ScansInv

\* A row in another state, or with its approval, is a row still.
LEMMA ScansRow ==
    ASSUME NEW r \in ScansRows
    PROVE  /\ \A state \in {"CHECKED_IN", "CHECKED_OUT", "ABSENT", "CANCELLED"} :
                 /\ [r EXCEPT !.state = state] \in ScansRows
                 /\ [r EXCEPT !.state = state].state = state
                 /\ [r EXCEPT !.state = state].type = r.type
                 /\ [r EXCEPT !.state = state].assigned = r.assigned
                 /\ [r EXCEPT !.state = state].at = r.at
                 /\ [r EXCEPT !.state = state].approved = r.approved
           /\ [r EXCEPT !.approved = TRUE] \in ScansRows
           /\ [r EXCEPT !.approved = TRUE].state = r.state
           /\ [r EXCEPT !.approved = TRUE].type = r.type
           /\ [r EXCEPT !.approved = TRUE].assigned = r.assigned
           /\ [r EXCEPT !.approved = TRUE].at = r.at
           /\ [r EXCEPT !.approved = TRUE].approved
  BY DEF ScansRows

\* A row that is there takes another state or its approval, and the screen
\* shows nothing, or an answer that the row is good for.
LEMMA ScansKeepRow ==
    ASSUME ScansInv, row \in ScansRows, NEW new \in ScansRows, row' = new,
           new.type = row.type, new.assigned = row.assigned, new.at = row.at,
           new.approved \/ ~row.approved,
           \/ screen' = gates!Blank
           \/ /\ new.state \in {"CHECKED_IN", "CHECKED_OUT"}
              /\ \E code \in GreenCodes \cup AmberCodes : gates!Answer(code, TRUE),
           now' = now, world' = world, policies' = policies, changes' \in 0 .. MaxChanges,
           owed' = owed, corrected' = corrected
    PROVE  ScansInv'
<1>1. /\ screen'.colour \in Colours /\ screen'.recorded \in BOOLEAN
      /\ screen'.recorded => new.state \in {"CHECKED_IN", "CHECKED_OUT"} /\ screen'.colour # "red"
      /\ screen'.colour \in {"green", "amber"} => screen'.recorded
      /\ screen'.code \in NeedApproval => screen'.colour = "amber"
  <2>1. CASE screen' = gates!Blank
    BY <2>1 DEF gates!Blank, NeedApproval, Colours
  <2>2. ASSUME NEW code \in GreenCodes \cup AmberCodes, gates!Answer(code, TRUE),
               new.state \in {"CHECKED_IN", "CHECKED_OUT"}
        PROVE  /\ screen'.colour \in {"green", "amber"} /\ screen'.recorded = TRUE
               /\ screen'.code \in NeedApproval => screen'.colour = "amber"
    <3>1. /\ screen'.code = code /\ screen'.recorded = TRUE /\ screen'.colour \in {"green", "amber"}
          /\ code \in AmberCodes => screen'.colour = "amber"
      BY <2>2, ScansAnswered
    <3> QED
      BY <3>1 DEF AmberCodes
  <2> QED
    BY <2>1, <2>2 DEF Colours
<1>2. new # gates!NoRow
  BY ScansNoRow
<1>3. ScansTyped'
  <2>1. /\ now' \in 0 .. MaxTime /\ world' \in gates!World /\ policies' \in gates!Policies
        /\ owed' \in BOOLEAN /\ corrected' \in BOOLEAN
    BY DEF ScansInv, ScansTyped
  <2> QED
    BY <1>1, <2>1, ScansTypedStill
<1>4. ScansKept'
  <2>1. new.type = "NORMAL" /\ new.at # MaxTime + 1 => new.assigned = "here" /\ Opens <= new.at /\ new.at <= Closes
    BY Zenon DEF ScansInv, ScansKept
  <2>2. owed => new.approved \/ corrected
    BY Zenon DEF ScansInv, ScansKept
  <2> QED
    BY <1>1, <1>2, <2>1, <2>2, Zenon DEF ScansKept, gates!NoRow
<1> QED
  BY <1>3, <1>4 DEF ScansInv

LEMMA ScansScan ==
    ASSUME gates!ScanGatesAssumption, ScansInv, NEW by \in gates!Operator,
           NEW intent \in {"AUTO", "CHECK_OUT"}, NEW makeup \in BOOLEAN, NEW approve \in BOOLEAN,
           gates!Scan(by, intent, makeup, approve)
    PROVE  ScansInv'
<1> DEFINE shut == gates!Shut(makeup, approve)
           G == gates!Gates(makeup, approve)
<1>1. /\ shut # {} => gates!Refuse(G[gates!Min(shut)].code)
      /\ shut = {} => gates!Write(gates!Classified(makeup), intent, approve)
      /\ now' = now /\ world' = world /\ policies' = policies /\ changes' = changes
  BY DEF gates!Scan
<1>2. CASE shut # {}
  <2> DEFINE first == gates!Min(shut)
             code == G[first].code
  <2>1. shut \subseteq 1 .. 11
    BY ScansShut
  <2>2. shut \subseteq Nat
    BY <2>1
  <2>3. first \in shut /\ \A y \in shut : first <= y
    BY <1>2, <2>2, SmallestIs
  <2>4. code \in GreenCodes \cup AmberCodes => Standing
    <3> SUFFICES ASSUME code \in GreenCodes \cup AmberCodes PROVE Standing
      OBVIOUS
    <3>1. first \notin 1 .. 5
      BY <2>1, <2>3, ScansCodes DEF ScansInv
    <3>2. 1 \notin shut /\ 3 \notin shut /\ 5 \notin shut
      <4> HIDE DEF shut, first
      <4> QED
        BY <3>1, <2>1, <2>3
    <3> QED
      BY <3>2, ScansShut DEF Standing
  <2>5. code \in GreenCodes => AskedForOther
    BY <2>1, <2>3, ScansCodes DEF ScansInv
  <2> HIDE DEF code
  <2>6. gates!Refuse(code)
    BY <1>1, <1>2, Zenon DEF code
  <2> QED
    BY <1>1, <2>4, <2>6, <2>5, ScansRefused
<1>3. CASE shut = {}
  <2> DEFINE decision == gates!Classified(makeup)
  <2>1. gates!Write(decision, intent, approve)
    BY <1>1, <1>3
  <2>2. ASSUME NEW code \in {"ERR_NOT_CHECKED_IN", "ERR_ATTENDANCE_CANCELLED"}, gates!Refuse(code)
        PROVE  ScansInv'
    BY <1>1, <2>2, ScansRefused DEF GreenCodes, AmberCodes, NeedApproval
  <2>3. ASSUME gates!CheckIn(decision, approve)
        PROVE  ScansInv'
    BY <1>1, <1>3, <2>3, ScansCheckIn
  <2>4. row.state \in {"CHECKED_IN", "CHECKED_OUT"} => row \in ScansRows
    BY DEF ScansInv, ScansTyped, gates!NoRow
  <2>5. changes' \in 0 .. MaxChanges
    BY <1>1 DEF ScansInv, ScansTyped
  <2>6. ASSUME gates!CheckOut
        PROVE  ScansInv'
    <3>1. /\ row.state = "CHECKED_IN" /\ row' = [row EXCEPT !.state = "CHECKED_OUT"]
          /\ owed' = owed /\ corrected' = corrected
          /\ \E code \in {"OK_CHECK_OUT_PARTIAL", "OK_CHECK_OUT"} : gates!Answer(code, TRUE)
      BY <2>6 DEF gates!CheckOut
    <3>2. row \in ScansRows
      BY <2>4, <3>1
    <3> DEFINE new == [row EXCEPT !.state = "CHECKED_OUT"]
    <3>3. /\ new \in ScansRows /\ new.state = "CHECKED_OUT" /\ new.type = row.type
          /\ new.assigned = row.assigned /\ new.at = row.at /\ new.approved = row.approved
      BY <3>2, ScansRow
    <3>4. row' = new
      BY <3>1
    <3> HIDE DEF new
    <3>5. new.approved \/ ~row.approved
      BY <3>3, Zenon
    <3>6. /\ owed' = owed /\ corrected' = corrected
          /\ \E code \in GreenCodes \cup AmberCodes : gates!Answer(code, TRUE)
      BY <3>1 DEF GreenCodes
    <3> QED
      BY <1>1, <2>5, <3>2, <3>3, <3>4, <3>5, <3>6, ScansKeepRow
  <2>7. ASSUME gates!Repeat
        PROVE  ScansInv'
    <3>1. /\ row.state \in {"CHECKED_IN", "CHECKED_OUT"} /\ row' = row
          /\ owed' = owed /\ corrected' = corrected
      BY <2>7 DEF gates!Repeat
    <3>2. \E code \in GreenCodes \cup AmberCodes : gates!Answer(code, TRUE)
      <4>1. \E code \in {"WARN_ALREADY_CHECKED_OUT", "WARN_DUPLICATE"} : gates!Answer(code, TRUE)
        BY <2>7, Zenon DEF gates!Repeat
      <4> QED
        BY <4>1 DEF AmberCodes
    <3>3. row \in ScansRows
      BY <2>4, <3>1
    <3>4. row.approved \/ ~row.approved
      OBVIOUS
    <3> QED
      BY <1>1, <2>5, <3>1, <3>2, <3>3, <3>4, ScansKeepRow
  <2> HIDE DEF decision
  <2> QED
    BY <2>1, <2>2, <2>3, <2>6, <2>7, Zenon DEF gates!Write
<1> QED
  BY <1>2, <1>3

\* The screen is blank again, and the row as it was.
LEMMA ScansBlanked ==
    ASSUME ScansInv, row' = row, owed' = owed, corrected' = corrected, screen' = gates!Blank,
           now' \in 0 .. MaxTime, world' \in gates!World, policies' \in gates!Policies,
           changes' \in 0 .. MaxChanges
    PROVE  ScansInv'
<1>1. screen'.code = "none" /\ screen'.colour = "idle" /\ screen'.recorded = FALSE
  BY DEF gates!Blank
<1>2. /\ screen'.colour \in Colours /\ screen'.recorded \in BOOLEAN /\ screen'.code \notin NeedApproval
      /\ screen'.colour \notin {"green", "amber"} /\ ~screen'.recorded
  BY <1>1 DEF NeedApproval, Colours
<1>3. ScansTyped'
  <2>1. (row' = gates!NoRow \/ row' \in ScansRows) /\ owed' \in BOOLEAN /\ corrected' \in BOOLEAN
    BY DEF ScansInv, ScansTyped
  <2> QED
    BY <1>2, <2>1, ScansTypedStill
<1>4. ScansKept'
  BY <1>1, <1>2, Zenon DEF ScansInv, ScansKept, gates!NoRow
<1> QED
  BY <1>3, <1>4 DEF ScansInv

\* A row that is made without a scan is owed no approval.
LEMMA ScansMade ==
    ASSUME ScansInv, NEW new \in ScansRows, row' = new, screen' = gates!Blank,
           new.type = "NORMAL" => new.at = MaxTime + 1,
           owed' = FALSE, corrected' = corrected,
           now' = now, world' = world, policies' = policies, changes' \in 0 .. MaxChanges
    PROVE  ScansInv'
<1>1. screen'.code = "none" /\ screen'.colour = "idle" /\ screen'.recorded = FALSE
  BY DEF gates!Blank
<1>2. /\ screen'.colour \in Colours /\ screen'.recorded \in BOOLEAN /\ screen'.code \notin NeedApproval
      /\ screen'.colour \notin {"green", "amber"} /\ ~screen'.recorded
  BY <1>1 DEF NeedApproval, Colours
<1>3. /\ now' \in 0 .. MaxTime /\ world' \in gates!World /\ policies' \in gates!Policies
      /\ corrected' \in BOOLEAN
  BY DEF ScansInv, ScansTyped
<1>4. new # gates!NoRow
  BY ScansNoRow
<1>5. ScansKept'
  BY <1>1, <1>2, <1>4, Zenon DEF ScansKept, gates!NoRow
<1>6. owed' \in BOOLEAN
  OBVIOUS
<1> QED
  BY <1>2, <1>3, <1>5, <1>6, ScansTypedStill DEF ScansInv

LEMMA ScansWorldChanges ==
    ASSUME gates!ScanGatesAssumption, ScansInv, gates!WorldChanges
    PROVE  ScansInv'
<1>1. PICK w \in gates!World : w = world
  BY DEF ScansInv, ScansTyped
<1>2. /\ \A seat \in {"here", "other", "none"} : [w EXCEPT !.seat = seat] \in gates!World
      /\ \A dues \in {"partial", "settled"} : [w EXCEPT !.dues = dues] \in gates!World
      /\ [w EXCEPT !.card = "LOST"] \in gates!World
      /\ \A status \in {"COMPLETED", "CANCELLED"} : [w EXCEPT !.lesson = status] \in gates!World
  BY DEF gates!World, gates!CardStatus, gates!LessonStatus
<1>3. world' \in gates!World
  BY <1>1, <1>2, Zenon DEF gates!WorldChanges
<1>4. /\ row' = row /\ owed' = owed /\ corrected' = corrected /\ screen' = gates!Blank
      /\ now' = now /\ policies' = policies /\ changes < MaxChanges /\ changes' = changes + 1
  BY DEF gates!WorldChanges, gates!Changes
<1>5. now' \in 0 .. MaxTime /\ policies' \in gates!Policies /\ changes' \in 0 .. MaxChanges
  BY <1>4 DEF ScansInv, ScansTyped, gates!ScanGatesAssumption
<1> QED
  BY <1>3, <1>4, <1>5, ScansBlanked

LEMMA ScansPoliciesOrTime ==
    ASSUME gates!ScanGatesAssumption, ScansInv, gates!PoliciesChange \/ gates!Tick
    PROVE  ScansInv'
<1>1. /\ row' = row /\ owed' = owed /\ corrected' = corrected /\ screen' = gates!Blank /\ world' = world
  BY DEF gates!PoliciesChange, gates!Tick, gates!Changes
<1>2. world' \in gates!World
  BY <1>1 DEF ScansInv, ScansTyped
<1>3. now' \in 0 .. MaxTime /\ policies' \in gates!Policies /\ changes' \in 0 .. MaxChanges
  <2>1. CASE gates!PoliciesChange
    <3>1. /\ now' = now /\ policies' \in PolicySets /\ changes < MaxChanges /\ changes' = changes + 1
      BY <2>1 DEF gates!PoliciesChange, gates!Changes
    <3> QED
      BY <3>1 DEF ScansInv, ScansTyped, gates!ScanGatesAssumption
  <2>2. CASE gates!Tick
    <3>1. now < MaxTime /\ now' = now + 1 /\ policies' = policies /\ changes' = changes
      BY <2>2 DEF gates!Tick
    <3> QED
      BY <3>1 DEF ScansInv, ScansTyped, gates!ScanGatesAssumption
  <2> QED
    BY <2>1, <2>2
<1> QED
  BY <1>1, <1>2, <1>3, ScansBlanked

LEMMA ScansOtherScreens ==
    ASSUME gates!ScanGatesAssumption, ScansInv,
           gates!Sweep \/ gates!ManualCreate \/ gates!Cancel \/ gates!Approve
    PROVE  ScansInv'
<1>1. /\ screen' = gates!Blank /\ changes < MaxChanges /\ changes' = changes + 1
      /\ now' = now /\ world' = world /\ policies' = policies /\ corrected' = corrected
  BY DEF gates!Sweep, gates!ManualCreate, gates!Cancel, gates!Approve, gates!Changes
<1>2. /\ changes' \in 0 .. MaxChanges /\ now \in 0 .. MaxTime /\ MaxTime \in Nat /\ LateAfter \in Nat
      /\ world.seat \in {"here", "other", "none"} /\ owed \in BOOLEAN
      /\ row = gates!NoRow \/ row \in ScansRows
      /\ row = gates!NoRow => ~owed
  <2>1. row = gates!NoRow => ~owed
    BY Zenon DEF ScansInv, ScansKept
  <2>2. MaxTime \in Nat /\ LateAfter \in Nat /\ MaxChanges \in Nat
    BY DEF gates!ScanGatesAssumption
  <2>3. changes' \in 0 .. MaxChanges
    BY <1>1, <2>2 DEF ScansInv, ScansTyped
  <2>4. world.seat \in {"here", "other", "none"}
    BY DEF ScansInv, ScansTyped, gates!World
  <2>5. now \in 0 .. MaxTime /\ owed \in BOOLEAN /\ (row = gates!NoRow \/ row \in ScansRows)
    BY DEF ScansInv, ScansTyped
  <2> QED
    BY <2>1, <2>2, <2>3, <2>4, <2>5, Zenon
<1>3. ASSUME row \in ScansRows, owed' = owed, NEW state \in {"CHECKED_OUT", "CANCELLED"},
             row' = [row EXCEPT !.state = state]
      PROVE  ScansInv'
  <2> DEFINE new == [row EXCEPT !.state = state]
  <2>1. /\ new \in ScansRows /\ new.type = row.type
        /\ new.assigned = row.assigned /\ new.at = row.at /\ new.approved = row.approved
    <3>1. state \in {"CHECKED_IN", "CHECKED_OUT", "ABSENT", "CANCELLED"}
      BY <1>3
    <3>2. PICK r \in ScansRows : r = row
      BY <1>3
    <3>3. new = [r EXCEPT !.state = state]
      BY <3>2, Zenon
    <3> HIDE DEF new
    <3> QED
      BY <3>1, <3>2, <3>3 DEF ScansRows
  <2>2. row' = new
    BY <1>3
  <2> HIDE DEF new
  <2>3. new.approved \/ ~row.approved
    BY <2>1, Zenon
  <2> QED
    BY <1>1, <1>2, <1>3, <2>1, <2>2, <2>3, ScansKeepRow
<1>4. CASE gates!Sweep
  <2>1. /\ owed' = owed
        /\ \/ row = gates!NoRow /\ row' = gates!Row("ABSENT", "NORMAL", "here", gates!NoTime, FALSE, FALSE)
           \/ row.state = "CHECKED_IN" /\ row' = [row EXCEPT !.state = "CHECKED_OUT"]
           \/ row' = row
    <3> DEFINE absent == gates!Row("ABSENT", "NORMAL", "here", gates!NoTime, FALSE, FALSE)
               out == [row EXCEPT !.state = "CHECKED_OUT"]
               here == row = gates!NoRow /\ world.seat = "here"
               inside == row.state = "CHECKED_IN"
    <3>1. /\ owed' = owed
          /\ row' = CASE here -> absent [] inside -> out [] OTHER -> row
      BY <1>4, Zenon DEF gates!Sweep
    <3>2. here => row = gates!NoRow
      OBVIOUS
    <3>3. ~(here /\ inside)
      BY DEF gates!NoRow
    <3> HIDE DEF absent, out, here
    <3>4. /\ here => row' = absent
          /\ ~here /\ inside => row' = out
          /\ ~here /\ ~inside => row' = row
      BY <3>1, <3>3
    <3> QED
      BY <3>1, <3>2, <3>4, Zenon DEF absent, out
  <2>2. CASE row = gates!NoRow /\ row' = gates!Row("ABSENT", "NORMAL", "here", gates!NoTime, FALSE, FALSE)
    <3> DEFINE new == [state |-> "ABSENT", type |-> "NORMAL", assigned |-> "here", at |-> MaxTime + 1,
                       late |-> FALSE, approved |-> FALSE]
    <3>1. new \in ScansRows /\ new.at = MaxTime + 1
      BY <1>2 DEF ScansRows
    <3>2. row' = new
      BY <2>2, Zenon DEF gates!Row, gates!NoTime
    <3> HIDE DEF new
    <3>3. owed' = FALSE
      BY <2>1, <2>2, <1>2
    <3> QED
      BY <1>1, <1>2, <3>1, <3>2, <3>3, ScansMade
  <2>3. CASE row.state = "CHECKED_IN" /\ row' = [row EXCEPT !.state = "CHECKED_OUT"]
    <3>1. row \in ScansRows
      BY <2>3, <1>2 DEF gates!NoRow
    <3> QED
      BY <2>1, <2>3, <3>1, <1>3
  <2>4. CASE row' = row
    <3>1. now' \in 0 .. MaxTime /\ world' \in gates!World /\ policies' \in gates!Policies
      BY <1>1 DEF ScansInv, ScansTyped
    <3> QED
      BY <1>1, <1>2, <2>1, <2>4, <3>1, ScansBlanked
  <2> QED
    BY <2>1, <2>2, <2>3, <2>4
<1>5. CASE gates!ManualCreate
  <2>1. PICK late \in BOOLEAN : late = (now > LateAfter)
    <3>1. (now > LateAfter) \in BOOLEAN
      OBVIOUS
    <3> QED
      BY <3>1, Zenon
  <2> DEFINE new == [state |-> "CHECKED_IN", type |-> "MANUAL", assigned |-> world.seat, at |-> now,
                     late |-> late, approved |-> FALSE]
  <2>2. new \in ScansRows /\ new.type # "NORMAL"
    BY <1>2 DEF ScansRows
  <2>3. row' = new /\ owed' = FALSE
    BY <1>5, <2>1, Zenon DEF gates!ManualCreate, gates!Row
  <2> HIDE DEF new
  <2> QED
    BY <1>1, <1>2, <2>2, <2>3, ScansMade
<1>6. CASE gates!Cancel
  <2>1. row # gates!NoRow /\ owed' = owed /\ row' = [row EXCEPT !.state = "CANCELLED"]
    BY <1>6 DEF gates!Cancel
  <2> QED
    BY <1>2, <1>3, <2>1
<1>7. CASE gates!Approve
  <2>1. row # gates!NoRow /\ owed' = owed /\ row' = [row EXCEPT !.approved = TRUE]
    BY <1>7 DEF gates!Approve
  <2>2. row \in ScansRows
    BY <1>2, <2>1
  <2> DEFINE new == [row EXCEPT !.approved = TRUE]
  <2>3. /\ new \in ScansRows /\ new.type = row.type
        /\ new.assigned = row.assigned /\ new.at = row.at /\ new.approved
    BY <2>2, ScansRow
  <2>4. row' = new
    BY <2>1
  <2> HIDE DEF new
  <2> QED
    BY <1>1, <1>2, <2>1, <2>2, <2>3, <2>4, ScansKeepRow
<1> QED
  BY <1>4, <1>5, <1>6, <1>7

LEMMA ScansStep ==
    ASSUME gates!ScanGatesAssumption, ScansInv, [gates!Next]_(gates!vars)
    PROVE  ScansInv'
<1>1. CASE UNCHANGED gates!vars
  <2>1. /\ now' = now /\ world' = world /\ policies' = policies /\ row' = row /\ screen' = screen
        /\ changes' = changes /\ owed' = owed /\ corrected' = corrected
    BY <1>1 DEF gates!vars
  <2>2. /\ now' \in 0 .. MaxTime /\ world' \in gates!World /\ policies' \in gates!Policies
        /\ changes' \in 0 .. MaxChanges /\ owed' \in BOOLEAN /\ corrected' \in BOOLEAN
        /\ row' = gates!NoRow \/ row' \in ScansRows
        /\ screen'.colour \in Colours /\ screen'.recorded \in BOOLEAN
    BY <2>1 DEF ScansInv, ScansTyped
  <2>3. ScansTyped'
    BY <2>2, ScansTypedStill
  <2>4. ScansKept'
    BY <2>1, Zenon DEF ScansInv, ScansKept, gates!NoRow, Standing, AskedForOther
  <2> QED
    BY <2>3, <2>4 DEF ScansInv
<1>2. ASSUME NEW by \in gates!Operator, NEW intent \in {"AUTO", "CHECK_OUT"}, NEW makeup \in BOOLEAN,
             NEW approve \in BOOLEAN, gates!Scan(by, intent, makeup, approve)
      PROVE  ScansInv'
  BY <1>2, ScansScan
<1> QED
  BY <1>1, <1>2, ScansWorldChanges, ScansPoliciesOrTime, ScansOtherScreens, Zenon DEF gates!Next

\* ScanGates: whoever came in although the policies asked for an approval has
\* it on his row; the scan that is sent again with an approval meets no other
\* gate; a NORMAL row is of the student's own group and within the window; an
\* answer that stands for a row has one behind it that stands and is not red;
\* and a green one that does not is the refusal of a student of another group
\* whose policy asks for an approval, which alone would let him in.
THEOREM Answered ==
    ASSUME gates!ScanGatesAssumption
    PROVE  gates!Spec => []gates!ScansHold
<1>1. gates!Init => ScansInv
  <2> SUFFICES ASSUME gates!Init PROVE ScansInv
    OBVIOUS
  <2>1. screen.code = "none" /\ screen.colour = "idle" /\ screen.recorded = FALSE
    BY DEF gates!Init, gates!Blank
  <2>2. MaxTime \in Nat /\ MaxChanges \in Nat
    BY DEF gates!ScanGatesAssumption
  <2>3. ScansTyped
    <3>1. /\ now \in 0 .. MaxTime /\ changes \in 0 .. MaxChanges /\ owed \in BOOLEAN /\ corrected \in BOOLEAN
          /\ row = gates!NoRow
      <4>1. now = 0 /\ changes = 0 /\ owed = FALSE /\ corrected = FALSE /\ row = gates!NoRow
        BY Zenon DEF gates!Init
      <4>2. 0 \in 0 .. MaxTime /\ 0 \in 0 .. MaxChanges
        BY <2>2
      <4> QED
        BY <4>1, <4>2, Zenon
    <3>2. world \in gates!World /\ policies \in gates!Policies
      BY Zenon DEF gates!Init, gates!ScanGatesAssumption
    <3>3. screen.colour \in Colours /\ screen.recorded \in BOOLEAN
      BY <2>1 DEF Colours
    <3> QED
      BY <3>1, <3>2, <3>3, Zenon DEF ScansTyped
  <2>4. ScansKept
    BY <2>1, ScansNoRow DEF gates!Init, ScansKept, NeedApproval
  <2> QED
    BY <2>3, <2>4 DEF ScansInv
<1>2. ScansInv /\ [gates!Next]_(gates!vars) => ScansInv'
  BY ScansStep
<1>3. ScansInv => gates!ScansHold
  <2> SUFFICES ASSUME ScansInv PROVE gates!ScansHold
    OBVIOUS
  <2>1. row = gates!NoRow \/ row \in ScansRows
    BY DEF ScansInv, ScansTyped
  <2>2. gates!TypeOK
    <3>1. row.state \in {"none", "CHECKED_IN", "CHECKED_OUT", "ABSENT", "CANCELLED"}
      BY <2>1 DEF ScansRows, gates!NoRow
    <3> QED
      BY <3>1, Zenon DEF ScansInv, ScansTyped, gates!TypeOK, Colours
  <2>3. gates!ApprovalIsRecorded
    BY Zenon DEF ScansInv, ScansKept, gates!ApprovalIsRecorded
  <2>4. ASSUME Standing, NEW makeup \in BOOLEAN
        PROVE  gates!Shut(makeup, TRUE) = {}
    <3> DEFINE shut == gates!Shut(makeup, TRUE)
    <3>1. TRUE \in BOOLEAN
      OBVIOUS
    <3>2. /\ shut \subseteq 1 .. 11
          /\ 1 \notin shut /\ 2 \notin shut /\ 3 \notin shut /\ 4 \notin shut /\ 5 \notin shut
      BY <2>4, <3>1, ScansShut DEF Standing
    <3>3. /\ 6 \notin shut /\ 7 \notin shut /\ 8 \notin shut /\ 9 \notin shut /\ 10 \notin shut
          /\ 11 \notin shut
      BY <3>1, ScansShut, Zenon
    <3> HIDE DEF shut
    <3>4. shut = {}
      BY <3>2, <3>3
    <3> QED
      BY <3>4 DEF shut
  <2>5. gates!ButtonLeadsOn
    <3> SUFFICES ASSUME gates!Button, ~screen.recorded PROVE Standing
      BY <2>4 DEF gates!ButtonLeadsOn
    <3>1. screen.code \in NeedApproval
      BY ScansSeverity DEF gates!Button
    <3> QED
      BY <3>1 DEF ScansInv, ScansKept
  <2>6. gates!NormalIsNormal
    BY <2>1, Zenon DEF ScansInv, ScansKept, gates!NormalIsNormal, gates!NoTime
  <2>7. gates!ColoursTell
    <3>1. screen.recorded => row.state \in {"CHECKED_IN", "CHECKED_OUT"} /\ screen.colour # "red"
      BY Zenon DEF ScansInv, ScansKept
    <3>2. screen.colour = "green" /\ ~screen.recorded => Standing /\ AskedForOther
      BY DEF ScansInv, ScansKept
    <3> QED
      BY <2>4, <3>1, <3>2, Zenon DEF gates!ColoursTell, AskedForOther
  <2> QED
    BY <2>2, <2>3, <2>5, <2>6, <2>7 DEF gates!ScansHold
<1> QED
  BY <1>1, <1>2, <1>3, PTL DEF gates!Spec

-----------------------------------------------------------------------------
(* The tenant in context *)

ScopeTyped ==
    /\ value \in [Thread -> scope!Here]
    /\ tokens \in [Thread -> Seq(scope!Here)]
    /\ blocks \in [Thread -> Seq(scope!Here)]
    /\ \A th \in Thread : Len(tokens[th]) <= MaxDepth
    /\ field = scope!Deferred
    /\ query \in [Thread -> {scope!NoQuery, scope!Deferred} \cup {scope!By(t) : t \in Tenant}]
    /\ shown \in [Thread -> SUBSET (1 .. Len(rows))]
    /\ built \in [Thread -> scope!Here]
    /\ rows \in Seq(scope!Row) /\ Len(rows) <= MaxRows
    /\ unseen \subseteq scope!Id

\* A thread that is inside n blocks has n values to go back to, each that of
\* the block around; outside of all of them there is no tenant.
ScopeNested ==
    \A th \in Thread :
        /\ Len(tokens[th]) = Len(blocks[th])
        /\ value[th] = IF Len(blocks[th]) = 0 THEN None ELSE blocks[th][Len(blocks[th])]
        /\ \A i \in 1 .. Len(tokens[th]) :
              tokens[th][i] = IF i = 1 THEN None ELSE blocks[th][i - 1]

\* A queryset that is filtered is by the tenant whose code built it or used it
\* first, and shows that tenant's rows; one that is not shows nothing yet.
ScopeConfined ==
    \A th \in Thread :
        /\ query[th] = scope!Deferred => built[th] = None /\ shown[th] = {}
        /\ query[th] = scope!NoQuery => shown[th] = {}
        /\ \A t \in Tenant : query[th] = scope!By(t) => built[th] = t
        /\ \A i \in shown[th] : rows[i].tenant = built[th]

ScopeReferred ==
    \A i \in 1 .. Len(rows) :
        /\ rows[i].ref \in 0 .. Len(rows)
        /\ rows[i].ref # 0 /\ i \notin unseen => rows[rows[i].ref].tenant = rows[i].tenant

ScopeInv == ScopeTyped /\ ScopeNested /\ ScopeConfined /\ ScopeReferred

LEMMA ScopeQueries ==
    /\ scope!NoQuery # scope!Deferred
    /\ \A t : scope!By(t) # scope!Deferred /\ scope!By(t) # scope!NoQuery
    /\ \A t : ~scope!By(t).deferred /\ scope!By(t).tenant = t
    /\ scope!Deferred.deferred
<1>1. DOMAIN scope!NoQuery = {}
  BY DEF scope!NoQuery
<1>2. "deferred" \in DOMAIN scope!Deferred
  BY DEF scope!Deferred
<1>3. \A t : "deferred" \in DOMAIN scope!By(t)
  BY DEF scope!By
<1>4. \A t : scope!By(t).deferred = FALSE /\ scope!By(t).tenant = t
  BY DEF scope!By
<1>5. scope!Deferred.deferred = TRUE
  BY DEF scope!Deferred
<1> QED
  BY <1>1, <1>2, <1>3, <1>4, <1>5, Zenon

\* What holds of the rest of the state when only the context changes.
LEMMA ScopeEnter ==
    ASSUME scope!TenantScopeAssumption, ScopeInv,
           NEW th \in Thread, NEW t \in scope!Here, scope!Enter(th, t)
    PROVE  ScopeInv'
<1> DEFINE back == Append(tokens[th], value[th])
           into == Append(blocks[th], t)
<1>1. /\ tokens' = [tokens EXCEPT ![th] = back] /\ value' = [value EXCEPT ![th] = t]
      /\ blocks' = [blocks EXCEPT ![th] = into]
      /\ UNCHANGED <<field, query, shown, rows, built, unseen>>
      /\ Len(tokens[th]) < MaxDepth
  BY DEF scope!Enter
<1>2. MaxDepth \in Nat /\ tokens[th] \in Seq(scope!Here) /\ blocks[th] \in Seq(scope!Here)
      /\ value[th] \in scope!Here
  BY DEF ScopeInv, ScopeTyped, scope!TenantScopeAssumption
<1>3. /\ back \in Seq(scope!Here) /\ Len(back) = Len(tokens[th]) + 1
      /\ \A i \in 1 .. Len(tokens[th]) : back[i] = tokens[th][i]
      /\ back[Len(tokens[th]) + 1] = value[th] /\ Len(tokens[th]) \in Nat
  BY <1>2, AppendProperties, LenProperties
<1>4. /\ into \in Seq(scope!Here) /\ Len(into) = Len(blocks[th]) + 1
      /\ \A i \in 1 .. Len(blocks[th]) : into[i] = blocks[th][i]
      /\ into[Len(blocks[th]) + 1] = t /\ Len(blocks[th]) \in Nat
  BY <1>2, AppendProperties, LenProperties
<1> HIDE DEF back, into
<1>5. ScopeTyped'
  BY <1>1, <1>2, <1>3, <1>4 DEF ScopeInv, ScopeTyped
<1>6. ScopeNested'
  <2> SUFFICES ASSUME NEW u \in Thread
               PROVE  /\ Len(tokens'[u]) = Len(blocks'[u])
                      /\ value'[u] = IF Len(blocks'[u]) = 0 THEN None ELSE blocks'[u][Len(blocks'[u])]
                      /\ \A i \in 1 .. Len(tokens'[u]) :
                            tokens'[u][i] = IF i = 1 THEN None ELSE blocks'[u][i - 1]
    BY DEF ScopeNested
  <2>1. CASE u # th
    BY <2>1, <1>1 DEF ScopeInv, ScopeTyped, ScopeNested
  <2>2. CASE u = th
    <3>1. tokens'[u] = back /\ blocks'[u] = into /\ value'[u] = t
      BY <2>2, <1>1 DEF ScopeInv, ScopeTyped
    <3>2. /\ Len(tokens[th]) = Len(blocks[th])
          /\ value[th] = IF Len(blocks[th]) = 0 THEN None ELSE blocks[th][Len(blocks[th])]
          /\ \A i \in 1 .. Len(tokens[th]) : tokens[th][i] = IF i = 1 THEN None ELSE blocks[th][i - 1]
      BY DEF ScopeInv, ScopeNested
    <3>3. ASSUME NEW i \in 1 .. Len(back)
          PROVE  back[i] = IF i = 1 THEN None ELSE into[i - 1]
      <4>1. i \in 1 .. Len(tokens[th]) + 1 /\ (i # 1 => i - 1 \in 1 .. Len(blocks[th]))
        BY <3>2, <1>3, <1>4
      <4>2. CASE i \in 1 .. Len(tokens[th])
        BY <4>1, <4>2, <3>2, <1>3, <1>4
      <4>3. CASE i = Len(tokens[th]) + 1
        BY <4>1, <4>3, <3>2, <1>3, <1>4
      <4> QED
        BY <4>1, <4>2, <4>3, <1>3
    <3> QED
      BY <3>1, <3>2, <3>3, <1>3, <1>4
  <2> QED
    BY <2>1, <2>2
<1>7. ScopeConfined' /\ ScopeReferred'
  BY <1>1 DEF ScopeInv, ScopeConfined, ScopeReferred, scope!NoQuery, scope!Deferred, scope!By
<1> QED
  BY <1>5, <1>6, <1>7 DEF ScopeInv

LEMMA ScopeExit ==
    ASSUME scope!TenantScopeAssumption, ScopeInv,
           NEW th \in Thread, NEW n \in 0 .. MaxDepth - 1, scope!Exit(th, n)
    PROVE  ScopeInv'
<1> DEFINE back == SubSeq(tokens[th], 1, n)
           into == SubSeq(blocks[th], 1, n)
           all == query' = query /\ shown' = shown /\ built' = built
           none == /\ query' = [query EXCEPT ![th] = scope!NoQuery]
                   /\ shown' = [shown EXCEPT ![th] = {}] /\ built' = [built EXCEPT ![th] = None]
<1>1. /\ tokens' = [tokens EXCEPT ![th] = back] /\ value' = [value EXCEPT ![th] = tokens[th][n + 1]]
      /\ blocks' = [blocks EXCEPT ![th] = into]
      /\ UNCHANGED <<field, rows, unseen>>
      /\ n < Len(tokens[th]) /\ (all \/ none)
  BY DEF scope!Exit, scope!Restored, scope!Outer
<1>2. /\ MaxDepth \in Nat /\ tokens[th] \in Seq(scope!Here) /\ blocks[th] \in Seq(scope!Here)
      /\ n \in Nat /\ n + 1 \in 1 .. Len(tokens[th]) /\ Len(tokens[th]) \in Nat
      /\ \A i \in 1 .. Len(tokens[th]) : tokens[th][i] \in scope!Here
      /\ \A i \in 1 .. Len(blocks[th]) : blocks[th][i] \in scope!Here
  BY <1>1, LenProperties, ElementOfSeq DEF ScopeInv, ScopeTyped, scope!TenantScopeAssumption
<1>3. /\ Len(tokens[th]) = Len(blocks[th])
      /\ \A i \in 1 .. Len(tokens[th]) : tokens[th][i] = IF i = 1 THEN None ELSE blocks[th][i - 1]
  BY DEF ScopeInv, ScopeNested
<1>4. /\ back \in Seq(scope!Here) /\ Len(back) = n
      /\ \A i \in 1 .. n : back[i] = tokens[th][i]
  <2>1. \A i \in 1 .. n : tokens[th][i] \in scope!Here
    BY <1>1, <1>2
  <2>2. back \in Seq(scope!Here) /\ Len(back) = (IF 1 <= n THEN n - 1 + 1 ELSE 0)
        /\ \A i \in 1 .. n - 1 + 1 : back[i] = tokens[th][1 + i - 1]
    BY <2>1, <1>2, SubSeqProperties
  <2> QED
    BY <2>2, <1>2
<1>5. /\ into \in Seq(scope!Here) /\ Len(into) = n
      /\ \A i \in 1 .. n : into[i] = blocks[th][i]
  <2>1. \A i \in 1 .. n : blocks[th][i] \in scope!Here
    BY <1>1, <1>2, <1>3
  <2>2. into \in Seq(scope!Here) /\ Len(into) = (IF 1 <= n THEN n - 1 + 1 ELSE 0)
        /\ \A i \in 1 .. n - 1 + 1 : into[i] = blocks[th][1 + i - 1]
    BY <2>1, <1>2, SubSeqProperties
  <2> QED
    BY <2>2, <1>2
<1> HIDE DEF back, into
<1>6. ScopeTyped'
  <2>1. tokens' \in [Thread -> Seq(scope!Here)] /\ blocks' \in [Thread -> Seq(scope!Here)]
        /\ value' \in [Thread -> scope!Here]
    BY <1>1, <1>2, <1>4, <1>5 DEF ScopeInv, ScopeTyped
  <2>2. \A u \in Thread : Len(tokens'[u]) <= MaxDepth
    BY <1>1, <1>2, <1>4 DEF ScopeInv, ScopeTyped
  <2>3. /\ query' \in [Thread -> {scope!NoQuery, scope!Deferred} \cup {scope!By(t) : t \in Tenant}]
        /\ shown' \in [Thread -> SUBSET (1 .. Len(rows))]
        /\ built' \in [Thread -> scope!Here]
    BY <1>1 DEF ScopeInv, ScopeTyped, scope!Here
  <2> QED
    BY <2>1, <2>2, <2>3, <1>1 DEF ScopeInv, ScopeTyped
<1>7. ScopeNested'
  <2> SUFFICES ASSUME NEW u \in Thread
               PROVE  /\ Len(tokens'[u]) = Len(blocks'[u])
                      /\ value'[u] = IF Len(blocks'[u]) = 0 THEN None ELSE blocks'[u][Len(blocks'[u])]
                      /\ \A i \in 1 .. Len(tokens'[u]) :
                            tokens'[u][i] = IF i = 1 THEN None ELSE blocks'[u][i - 1]
    BY DEF ScopeNested
  <2>1. CASE u # th
    BY <2>1, <1>1 DEF ScopeInv, ScopeTyped, ScopeNested
  <2>2. CASE u = th
    <3>1. tokens'[u] = back /\ blocks'[u] = into /\ value'[u] = tokens[th][n + 1]
      BY <2>2, <1>1 DEF ScopeInv, ScopeTyped
    <3>2. tokens[th][n + 1] = IF n = 0 THEN None ELSE blocks[th][n]
      BY <1>2, <1>3
    <3>3. ASSUME NEW i \in 1 .. Len(back)
          PROVE  back[i] = IF i = 1 THEN None ELSE into[i - 1]
      <4>1. i \in 1 .. n /\ i \in 1 .. Len(tokens[th])
        BY <1>1, <1>2, <1>4
      <4>2. CASE i = 1
        BY <4>1, <4>2, <1>3, <1>4
      <4>3. CASE i # 1
        <5>1. i - 1 \in 1 .. n
          BY <4>1, <4>3, <1>2
        <5> QED
          BY <5>1, <4>1, <4>3, <1>3, <1>4, <1>5
      <4> QED
        BY <4>2, <4>3
    <3>4. n # 0 => into[n] = blocks[th][n]
      BY <1>5, <1>2
    <3> QED
      BY <3>1, <3>2, <3>3, <3>4, <1>4, <1>5
  <2> QED
    BY <2>1, <2>2
<1>8. ScopeConfined'
  <2>1. CASE all
    BY <2>1, <1>1 DEF ScopeInv, ScopeConfined, scope!NoQuery, scope!Deferred, scope!By
  <2>2. CASE none
    <3>1. \A u \in Thread : /\ query'[u] = IF u = th THEN scope!NoQuery ELSE query[u]
                            /\ shown'[u] = IF u = th THEN {} ELSE shown[u]
                            /\ built'[u] = IF u = th THEN None ELSE built[u]
      BY <2>2 DEF ScopeInv, ScopeTyped
    <3>2. /\ \A i \in {} : rows[i].tenant = None
          /\ \A t \in Tenant : << >> # [deferred |-> FALSE, tenant |-> t]
          /\ << >> # [deferred |-> TRUE]
      BY ScopeQueries DEF scope!NoQuery, scope!Deferred, scope!By
    <3> SUFFICES ASSUME NEW u \in Thread
                 PROVE  /\ query'[u] = [deferred |-> TRUE] => built'[u] = None /\ shown'[u] = {}
                        /\ query'[u] = << >> => shown'[u] = {}
                        /\ \A t \in Tenant : query'[u] = [deferred |-> FALSE, tenant |-> t] => built'[u] = t
                        /\ \A i \in shown'[u] : rows'[i].tenant = built'[u]
      BY DEF ScopeConfined, scope!NoQuery, scope!Deferred, scope!By
    <3>3. rows' = rows
      BY <1>1
    <3>4. CASE u = th
      BY <3>1, <3>2, <3>4, Zenon DEF scope!NoQuery
    <3>5. CASE u # th
      <4>1. query'[u] = query[u] /\ shown'[u] = shown[u] /\ built'[u] = built[u]
        BY <3>1, <3>5
      <4>2. /\ query[u] = [deferred |-> TRUE] => built[u] = None /\ shown[u] = {}
            /\ query[u] = << >> => shown[u] = {}
            /\ \A t \in Tenant : query[u] = [deferred |-> FALSE, tenant |-> t] => built[u] = t
            /\ \A i \in shown[u] : rows[i].tenant = built[u]
        BY Zenon DEF ScopeInv, ScopeConfined, scope!NoQuery, scope!Deferred, scope!By
      <4> QED
        BY <3>3, <4>1, <4>2, Zenon
    <3> QED
      BY <3>4, <3>5
  <2> QED
    BY <1>1, <2>1, <2>2
<1>9. ScopeReferred'
  BY <1>1 DEF ScopeInv, ScopeReferred
<1> QED
  BY <1>6, <1>7, <1>8, <1>9 DEF ScopeInv

\* A step of one thread that changes its queryset alone.
LEMMA ScopeReads ==
    ASSUME scope!TenantScopeAssumption, ScopeInv, NEW th \in Thread,
           NEW q \in {scope!Deferred} \cup {scope!By(t) : t \in Tenant},
           NEW s \in SUBSET (1 .. Len(rows)), NEW b \in scope!Here,
           query' = [query EXCEPT ![th] = q], shown' = [shown EXCEPT ![th] = s],
           built' = [built EXCEPT ![th] = b],
           UNCHANGED <<value, tokens, field, rows, blocks, unseen>>,
           q = scope!Deferred => b = None /\ s = {},
           \A t \in Tenant : q = scope!By(t) => b = t,
           \A i \in s : rows[i].tenant = b
    PROVE  ScopeInv'
<1>1. \A u \in Thread : /\ query'[u] = IF u = th THEN q ELSE query[u]
                        /\ shown'[u] = IF u = th THEN s ELSE shown[u]
                        /\ built'[u] = IF u = th THEN b ELSE built[u]
  BY DEF ScopeInv, ScopeTyped
<1>2. ScopeTyped'
  <2>1. /\ query' \in [Thread -> {scope!NoQuery, scope!Deferred} \cup {scope!By(t) : t \in Tenant}]
        /\ shown' \in [Thread -> SUBSET (1 .. Len(rows))]
        /\ built' \in [Thread -> scope!Here]
    BY DEF ScopeInv, ScopeTyped
  <2> QED
    BY <2>1 DEF ScopeInv, ScopeTyped, scope!NoQuery, scope!Deferred, scope!By, scope!Here,
                scope!Row, scope!Id
<1>3. ScopeNested' /\ ScopeReferred'
  BY DEF ScopeInv, ScopeNested, ScopeReferred
<1>4. ScopeConfined'
  <2> SUFFICES ASSUME NEW u \in Thread
               PROVE  /\ query'[u] = scope!Deferred => built'[u] = None /\ shown'[u] = {}
                      /\ query'[u] = scope!NoQuery => shown'[u] = {}
                      /\ \A t \in Tenant : query'[u] = scope!By(t) => built'[u] = t
                      /\ \A i \in shown'[u] : rows'[i].tenant = built'[u]
    BY DEF ScopeConfined, scope!NoQuery, scope!Deferred, scope!By
  <2>1. CASE u = th
    <3>1. q # scope!NoQuery
      BY ScopeQueries
    <3>2. query'[u] = q /\ shown'[u] = s /\ built'[u] = b /\ rows' = rows
      BY <2>1, <1>1
    <3> QED
      BY <3>1, <3>2, Zenon
  <2>2. CASE u # th
    <3>1. query'[u] = query[u] /\ shown'[u] = shown[u] /\ built'[u] = built[u] /\ rows' = rows
      BY <2>2, <1>1
    <3> QED
      BY <3>1, ZenonT(60) DEF ScopeInv, ScopeConfined
  <2> QED
    BY <2>1, <2>2
<1> QED
  BY <1>2, <1>3, <1>4 DEF ScopeInv

LEMMA ScopeInside ==
    ASSUME ScopeInv, NEW th \in Thread
    PROVE  /\ value[th] = IF scope!Working(th) THEN scope!Inner(th) ELSE None
           /\ value[th] \in scope!Here
<1>1. blocks[th] \in Seq(scope!Here) /\ value[th] \in scope!Here
  BY DEF ScopeInv, ScopeTyped
<1>2. blocks[th] = << >> <=> Len(blocks[th]) = 0
  BY <1>1, EmptySeq
<1> QED
  BY <1>1, <1>2 DEF ScopeInv, ScopeNested, scope!Working, scope!Inner

LEMMA ScopeQuerysets ==
    ASSUME scope!TenantScopeAssumption, ScopeInv,
           NEW th \in Thread, scope!Build(th) \/ scope!Form(th) \/ scope!Use(th)
    PROVE  ScopeInv'
<1>1. /\ value[th] \in scope!Here
      /\ scope!Working(th) => value[th] = scope!Inner(th)
      /\ None \notin Tenant /\ None \in scope!Here /\ Tenant \subseteq scope!Here
      /\ \A t \in scope!Here : t # None => t \in Tenant
  BY ScopeInside DEF scope!TenantScopeAssumption, scope!Here
<1>2. {} \in SUBSET (1 .. Len(rows))
  OBVIOUS
<1>3. CASE scope!Build(th)
  <2> DEFINE q == IF value[th] = None THEN scope!Deferred ELSE scope!By(value[th])
  <2>1. /\ query' = [query EXCEPT ![th] = q] /\ shown' = [shown EXCEPT ![th] = {}]
        /\ built' = [built EXCEPT ![th] = value[th]]
        /\ UNCHANGED <<value, tokens, field, rows, blocks, unseen>>
    BY <1>1, <1>3 DEF scope!Build
  <2>2. q \in {scope!Deferred} \cup {scope!By(t) : t \in Tenant}
    BY <1>1
  <2>3. /\ q = scope!Deferred => value[th] = None
        /\ \A t \in Tenant : q = scope!By(t) => value[th] = t
    BY ScopeQueries
  <2> HIDE DEF q
  <2> QED
    BY <1>1, <1>2, <2>1, <2>2, <2>3, ScopeReads, ZenonT(60)
<1>4. CASE scope!Form(th)
  <2>1. /\ query' = [query EXCEPT ![th] = scope!Deferred] /\ shown' = [shown EXCEPT ![th] = {}]
        /\ built' = [built EXCEPT ![th] = None]
        /\ UNCHANGED <<value, tokens, field, rows, blocks, unseen>>
    BY <1>4 DEF scope!Form, ScopeInv, ScopeTyped
  <2>2. \A t \in Tenant : scope!Deferred # scope!By(t)
    BY ScopeQueries
  <2> QED
    BY <1>1, <1>2, <2>1, <2>2, ScopeReads
<1>5. CASE scope!Use(th)
  <2> DEFINE q == scope!Resolved(th)
             s == {i \in DOMAIN rows : rows[i].tenant = q.tenant}
             b == IF built[th] = None THEN scope!Inner(th) ELSE built[th]
  <2>1. /\ query' = [query EXCEPT ![th] = q] /\ shown' = [shown EXCEPT ![th] = s]
        /\ built' = [built EXCEPT ![th] = b]
        /\ UNCHANGED <<value, tokens, field, rows, blocks, unseen>>
        /\ scope!Working(th) /\ query[th] # scope!NoQuery /\ q.tenant # None
    BY <1>5 DEF scope!Use
  <2>2. s \in SUBSET (1 .. Len(rows))
    BY LenProperties DEF ScopeInv, ScopeTyped
  <2>3. PICK t \in Tenant : q = scope!By(t) /\ b = t
    <3>1. CASE query[th] = scope!Deferred
      <4>1. q = scope!By(value[th]) /\ q.tenant = value[th]
        BY <3>1, ScopeQueries DEF scope!Resolved
      <4>2. b = scope!Inner(th)
        BY <3>1 DEF ScopeInv, ScopeConfined
      <4> QED
        BY <4>1, <4>2, <2>1, <1>1
    <3>2. CASE query[th] # scope!Deferred
      <4>1. PICK t \in Tenant : query[th] = scope!By(t)
        BY <3>2, <2>1 DEF ScopeInv, ScopeTyped
      <4>2. q = scope!By(t)
        BY <4>1, ScopeQueries DEF scope!Resolved
      <4>3. built[th] = t /\ t # None
        BY <4>1, <1>1 DEF ScopeInv, ScopeConfined
      <4> QED
        BY <4>2, <4>3
    <3> QED
      BY <3>1, <3>2
  <2>4. /\ q \in {scope!Deferred} \cup {scope!By(u) : u \in Tenant}
        /\ b \in scope!Here /\ q # scope!Deferred
        /\ \A u \in Tenant : q = scope!By(u) => b = u
        /\ q.tenant = b
    BY <2>3, <1>1, ScopeQueries
  <2>5. \A i \in s : rows[i].tenant = b
    BY <2>4
  <2> HIDE DEF q, s, b
  <2> QED
    BY <2>1, <2>2, <2>4, <2>5, ScopeReads
<1> QED
  BY <1>3, <1>4, <1>5

\* Rows are written without a change of their tenant, at ids that nobody has.
LEMMA ScopeWrites ==
    ASSUME scope!TenantScopeAssumption, ScopeInv, NEW new \in Seq(scope!Row),
           Len(new) <= MaxRows, Len(rows) <= Len(new), rows' = new,
           \A i \in 1 .. Len(rows) : new[i].tenant = rows[i].tenant,
           unseen' \subseteq scope!Id, ScopeReferred',
           UNCHANGED <<value, tokens, field, query, shown, blocks, built>>
    PROVE  ScopeInv'
<1>1. Len(rows) \in Nat /\ Len(new) \in Nat /\ MaxRows \in Nat
  BY LenProperties DEF ScopeInv, ScopeTyped, scope!TenantScopeAssumption
<1>2. 1 .. Len(rows) \subseteq 1 .. Len(new) /\ 1 .. Len(new) \subseteq 1 .. MaxRows
  BY <1>1
<1>3. ScopeTyped'
  <2>1. shown' \in [Thread -> SUBSET (1 .. Len(new))]
    BY <1>2 DEF ScopeInv, ScopeTyped
  <2>2. new \in Seq([tenant : Tenant, ref : (1 .. MaxRows) \cup {0}])
    BY DEF scope!Row, scope!Id
  <2> QED
    BY <1>2, <2>1, <2>2 DEF ScopeInv, ScopeTyped, scope!NoQuery, scope!Deferred, scope!By, scope!Here,
                scope!Row, scope!Id
<1>4. ScopeNested'
  BY DEF ScopeInv, ScopeNested
<1>5. ScopeConfined'
  <2> SUFFICES ASSUME NEW u \in Thread
               PROVE  /\ query'[u] = scope!Deferred => built'[u] = None /\ shown'[u] = {}
                      /\ query'[u] = scope!NoQuery => shown'[u] = {}
                      /\ \A t \in Tenant : query'[u] = scope!By(t) => built'[u] = t
                      /\ \A i \in shown'[u] : rows'[i].tenant = built'[u]
    BY DEF ScopeConfined, scope!NoQuery, scope!Deferred, scope!By
  <2>1. query'[u] = query[u] /\ shown'[u] = shown[u] /\ built'[u] = built[u]
    OBVIOUS
  <2>2. \A i \in shown[u] : rows'[i].tenant = rows[i].tenant
    BY DEF ScopeInv, ScopeTyped
  <2> QED
    BY <2>1, <2>2, Zenon DEF ScopeInv, ScopeConfined
<1> QED
  BY <1>3, <1>4, <1>5 DEF ScopeInv

LEMMA ScopeTenants ==
    ASSUME scope!TenantScopeAssumption, ScopeInv, NEW th \in Thread,
           NEW given \in scope!Here, scope!Stamped(th, given) # None
    PROVE  scope!Stamped(th, given) \in Tenant
  BY ScopeInside DEF scope!Stamped, scope!Here, scope!TenantScopeAssumption

LEMMA ScopeInsert ==
    ASSUME scope!TenantScopeAssumption, ScopeInv, NEW th \in Thread,
           NEW t \in Tenant, NEW ref \in scope!Known, NEW loaded \in BOOLEAN,
           scope!Reference(t, ref, loaded), scope!Insert(th, t, ref, loaded)
    PROVE  ScopeInv'
<1> DEFINE entry == [tenant |-> t, ref |-> ref]
           new == Append(rows, entry)
<1>1. /\ Len(rows) < MaxRows /\ rows' = new
      /\ unseen' = IF loaded \/ ref = 0 THEN unseen ELSE unseen \cup {Len(rows) + 1}
      /\ UNCHANGED <<value, tokens, field, query, shown, blocks, built>>
  BY DEF scope!Insert
<1>2. /\ rows \in Seq(scope!Row) /\ Len(rows) \in Nat /\ DOMAIN rows = 1 .. Len(rows)
      /\ MaxRows \in Nat /\ ref \in 0 .. Len(rows)
  BY LenProperties DEF ScopeInv, ScopeTyped, scope!TenantScopeAssumption, scope!Known
<1>3. entry \in scope!Row /\ entry.tenant = t /\ entry.ref = ref
  BY <1>1, <1>2 DEF scope!Row, scope!Id
<1> HIDE DEF entry
<1>4. /\ new \in Seq(scope!Row) /\ Len(new) = Len(rows) + 1
      /\ \A i \in 1 .. Len(rows) : new[i] = rows[i]
      /\ new[Len(rows) + 1] = entry
  BY <1>2, <1>3, AppendProperties
<1> HIDE DEF new
<1>5. unseen' \subseteq scope!Id
  <2>1. Len(rows) + 1 \in scope!Id
    BY <1>1, <1>2 DEF scope!Id
  <2>2. unseen \subseteq scope!Id
    BY DEF ScopeInv, ScopeTyped
  <2> QED
    BY <1>1, <2>1, <2>2
<1>6. ScopeReferred'
  <2> SUFFICES ASSUME NEW i \in 1 .. Len(rows) + 1
               PROVE  /\ new[i].ref \in 0 .. Len(new)
                      /\ new[i].ref # 0 /\ i \notin unseen' => new[new[i].ref].tenant = new[i].tenant
    BY <1>1, <1>4 DEF ScopeReferred
  <2>1. CASE i \in 1 .. Len(rows)
    <3>1. /\ rows[i].ref \in 0 .. Len(rows)
          /\ rows[i].ref # 0 /\ i \notin unseen => rows[rows[i].ref].tenant = rows[i].tenant
      BY <2>1 DEF ScopeInv, ScopeReferred
    <3>2. new[i] = rows[i] /\ (rows[i].ref # 0 => new[rows[i].ref] = rows[rows[i].ref])
      BY <2>1, <3>1, <1>2, <1>4
    <3> QED
      BY <3>1, <3>2, <1>1, <1>2, <1>4
  <2>2. CASE i = Len(rows) + 1
    <3>1. new[i].ref = ref /\ new[i].tenant = t
      BY <2>2, <1>3, <1>4
    <3>2. ref # 0 /\ loaded => rows[ref].tenant = t
      BY DEF scope!Reference
    <3>3. ref # 0 => new[ref] = rows[ref]
      BY <1>2, <1>4
    <3>4. ref # 0 /\ i \notin unseen' => loaded
      BY <2>2, <1>1
    <3> QED
      BY <3>1, <3>2, <3>3, <3>4, <1>2, <1>4
  <2> QED
    BY <2>1, <2>2, <1>2
<1> QED
  BY <1>1, <1>2, <1>4, <1>5, <1>6, ScopeWrites

LEMMA ScopeUpdate ==
    ASSUME scope!TenantScopeAssumption, ScopeInv, NEW th \in Thread,
           NEW i \in DOMAIN rows, NEW ref \in scope!Known, NEW loaded \in BOOLEAN,
           scope!Update(th, i, ref, loaded)
    PROVE  ScopeInv'
<1> DEFINE entry == [rows[i] EXCEPT !.ref = ref]
           new == [rows EXCEPT ![i] = entry]
<1>1. /\ rows' = [rows EXCEPT ![i].ref = ref]
      /\ unseen' = IF loaded \/ ref = 0 THEN unseen \ {i} ELSE unseen \cup {i}
      /\ UNCHANGED <<value, tokens, field, query, shown, blocks, built>>
      /\ loaded /\ ref # 0 => rows[ref].tenant = rows[i].tenant
  BY DEF scope!Update, scope!Reference
<1>2. /\ rows \in Seq(scope!Row) /\ Len(rows) \in Nat /\ DOMAIN rows = 1 .. Len(rows)
      /\ MaxRows \in Nat /\ ref \in 0 .. Len(rows) /\ Len(rows) <= MaxRows
  BY LenProperties DEF ScopeInv, ScopeTyped, scope!TenantScopeAssumption, scope!Known
<1>3. rows[i] \in [tenant : Tenant, ref : (1 .. MaxRows) \cup {0}]
  BY <1>2, ElementOfSeq DEF scope!Row, scope!Id
<1>4. entry \in scope!Row /\ entry.tenant = rows[i].tenant /\ entry.ref = ref
  <2>1. PICK c \in [tenant : Tenant, ref : (1 .. MaxRows) \cup {0}] : c = rows[i]
    BY <1>3
  <2>2. entry = [c EXCEPT !.ref = ref]
    BY <2>1, Zenon
  <2> QED
    BY <1>2, <2>1, <2>2 DEF scope!Row, scope!Id
<1>5. rows' = new
  <2>1. [rows EXCEPT ![i].ref = ref] = new
    OBVIOUS
  <2> QED
    BY <1>1, <2>1, Zenon
<1> HIDE DEF entry
<1>6. /\ new \in Seq(scope!Row) /\ Len(new) = Len(rows)
      /\ \A j \in 1 .. Len(rows) : new[j] = IF j = i THEN entry ELSE rows[j]
  BY <1>2, <1>4, ExceptSeq
<1> HIDE DEF new
<1>7. unseen' \subseteq scope!Id
  BY <1>1, <1>2 DEF ScopeInv, ScopeTyped, scope!Id
<1>8. \A j \in 1 .. Len(rows) : new[j].tenant = rows[j].tenant
  BY <1>4, <1>6
<1>9. ScopeReferred'
  <2> SUFFICES ASSUME NEW j \in 1 .. Len(rows)
               PROVE  /\ new[j].ref \in 0 .. Len(new)
                      /\ new[j].ref # 0 /\ j \notin unseen' => new[new[j].ref].tenant = new[j].tenant
    BY <1>5, <1>6 DEF ScopeReferred
  <2>1. CASE j # i
    <3>1. /\ rows[j].ref \in 0 .. Len(rows)
          /\ rows[j].ref # 0 /\ j \notin unseen => rows[rows[j].ref].tenant = rows[j].tenant
      BY DEF ScopeInv, ScopeReferred
    <3>2. new[j] = rows[j] /\ (rows[j].ref # 0 => new[rows[j].ref].tenant = rows[rows[j].ref].tenant)
      BY <2>1, <3>1, <1>2, <1>6, <1>8
    <3> QED
      BY <3>1, <3>2, <2>1, <1>1, <1>6
  <2>2. CASE j = i
    <3>1. new[j].ref = ref /\ new[j].tenant = rows[i].tenant
      BY <2>2, <1>4, <1>6
    <3>2. ref # 0 => new[ref].tenant = rows[ref].tenant
      BY <1>2, <1>8
    <3>3. ref # 0 /\ j \notin unseen' => loaded
      BY <2>2, <1>1
    <3> QED
      BY <3>1, <3>2, <3>3, <1>1, <1>2, <1>6
  <2> QED
    BY <2>1, <2>2
<1> QED
  BY <1>1, <1>2, <1>5, <1>6, <1>7, <1>8, <1>9, ScopeWrites

LEMMA ScopeStep ==
    ASSUME scope!TenantScopeAssumption, ScopeInv, [scope!Next]_(scope!vars)
    PROVE  ScopeInv'
<1>1. CASE UNCHANGED scope!vars
  BY <1>1 DEF scope!vars, scope!history, ScopeInv, ScopeTyped, ScopeNested, ScopeConfined, ScopeReferred,
              scope!NoQuery, scope!Deferred, scope!By, scope!Here, scope!Row, scope!Id
<1>2. ASSUME NEW th \in Thread, NEW given \in scope!Here, NEW ref \in scope!Known,
             (\E loaded \in BOOLEAN : scope!Save(th, given, ref, loaded)) \/ scope!BulkCreate(th, given, ref)
      PROVE  ScopeInv'
  <2>1. ASSUME NEW loaded \in BOOLEAN, scope!Save(th, given, ref, loaded)
        PROVE  ScopeInv'
    <3> DEFINE t == scope!Stamped(th, given)
    <3>1. t # None /\ scope!Reference(t, ref, loaded) /\ scope!Insert(th, t, ref, loaded)
      BY <2>1, Zenon DEF scope!Save
    <3>2. t \in Tenant
      BY <3>1, ScopeTenants
    <3> HIDE DEF t
    <3> QED
      BY <3>1, <3>2, ScopeInsert
  <2>2. ASSUME scope!BulkCreate(th, given, ref)
        PROVE  ScopeInv'
    <3> DEFINE t == scope!Stamped(th, given)
    <3>1. t # None /\ scope!Insert(th, t, ref, FALSE)
      BY <2>2, Zenon DEF scope!BulkCreate
    <3>2. t \in Tenant
      BY <3>1, ScopeTenants
    <3>3. scope!Reference(t, ref, FALSE)
      BY DEF scope!Reference
    <3> HIDE DEF t
    <3> QED
      BY <3>1, <3>2, <3>3, ScopeInsert
  <2> QED
    BY <1>2, <2>1, <2>2
<1> QED
  BY <1>1, <1>2, ScopeEnter, ScopeExit, ScopeQuerysets, ScopeUpdate, Zenon DEF scope!Next

\* TenantScope: whatever blocks are left and how, a thread has the tenant of
\* the code that runs; what it reads is of the tenant whose code built or first
\* used the queryset, and a row refers to a row of its own tenant.
THEOREM Scoped ==
    ASSUME scope!TenantScopeAssumption
    PROVE  scope!Spec => []scope!ScopeHolds
<1>1. scope!Init => ScopeInv
  <2> SUFFICES ASSUME scope!Init PROVE ScopeInv
    OBVIOUS
  <2>1. MaxDepth \in Nat /\ MaxRows \in Nat
    BY DEF scope!TenantScopeAssumption
  <2>2. << >> \in Seq(scope!Here) /\ << >> \in Seq(scope!Row) /\ Len(<< >>) = 0
    BY EmptySeq
  <2>3. ScopeTyped
    BY <2>1, <2>2 DEF scope!Init, ScopeTyped, scope!Here
  <2>4. ScopeNested /\ ScopeReferred
    BY <2>2 DEF scope!Init, ScopeNested, ScopeReferred
  <2>5. ScopeConfined
    BY ScopeQueries DEF scope!Init, ScopeConfined
  <2> QED
    BY <2>3, <2>4, <2>5 DEF ScopeInv
<1>2. ScopeInv /\ [scope!Next]_(scope!vars) => ScopeInv'
  BY ScopeStep
<1>3. ScopeInv => scope!ScopeHolds
  <2> SUFFICES ASSUME ScopeInv PROVE scope!ScopeHolds
    OBVIOUS
  <2>1. scope!TypeOK
    <3>1. MaxDepth \in Nat
      BY DEF scope!TenantScopeAssumption
    <3>2. \A th \in Thread : Len(tokens[th]) \in 0 .. MaxDepth
      BY <3>1, LenProperties DEF ScopeInv, ScopeTyped
    <3> QED
      BY <3>2 DEF ScopeInv, ScopeTyped, scope!TypeOK
  <2>2. scope!ContextIsLexical
    BY ScopeInside DEF scope!ContextIsLexical
  <2>3. scope!ReadsStayInside
    BY DEF ScopeInv, ScopeConfined, scope!ReadsStayInside
  <2>4. scope!ReferencesStayInside
    BY LenProperties DEF ScopeInv, ScopeTyped, ScopeReferred, scope!ReferencesStayInside
  <2> QED
    BY <2>1, <2>2, <2>3, <2>4 DEF scope!ScopeHolds
<1> QED
  BY <1>1, <1>2, <1>3, PTL DEF scope!Spec

-----------------------------------------------------------------------------
(* Sessions and entries *)

AccessSession == [user : Tenant \cup {access!Nobody, access!Operator}, record : access!Records \cup {access!NoRecord}]

LEMMA AccessRecords ==
    ASSUME NEW r \in access!Records
    PROVE  r # access!NoRecord /\ r.tenant \in Tenant /\ r.until \in Nat
<1>1. r.mode \in {"read", "write"} /\ r.tenant \in Tenant /\ r.until \in Nat
  BY DEF access!Records
<1>2. access!NoRecord.mode = "none"
  BY DEF access!NoRecord
<1> QED
  BY <1>1, <1>2

\* A session with another record, or with another user.
LEMMA AccessSessions ==
    /\ access!Session = AccessSession /\ access!NoSession \in AccessSession
    /\ access!NoSession.record = access!NoRecord
    /\ \A s \in AccessSession :
          /\ \A r \in access!Records \cup {access!NoRecord} :
                /\ [s EXCEPT !.record = r] \in AccessSession
                /\ [s EXCEPT !.record = r].record = r /\ [s EXCEPT !.record = r].user = s.user
          /\ \A u \in Tenant \cup {access!Nobody, access!Operator} :
                /\ [s EXCEPT !.user = u] \in AccessSession
                /\ [s EXCEPT !.user = u].record = s.record /\ [s EXCEPT !.user = u].user = u
<1>1. access!Session = AccessSession /\ access!NoSession \in AccessSession
      /\ access!NoSession.record = access!NoRecord
  BY DEF AccessSession, access!Session, access!NoSession
<1>2. ASSUME NEW s \in AccessSession, NEW r \in access!Records \cup {access!NoRecord}
      PROVE  /\ [s EXCEPT !.record = r] \in AccessSession
             /\ [s EXCEPT !.record = r].record = r /\ [s EXCEPT !.record = r].user = s.user
  BY DEF AccessSession
<1>3. ASSUME NEW s \in AccessSession, NEW u \in Tenant \cup {access!Nobody, access!Operator}
      PROVE  /\ [s EXCEPT !.user = u] \in AccessSession
             /\ [s EXCEPT !.user = u].record = s.record /\ [s EXCEPT !.user = u].user = u
  BY DEF AccessSession
<1> QED
  BY <1>1, <1>2, <1>3

\* No mismatch comes up, and the guards drop a record that is over.
LEMMA AccessGuards ==
    ASSUME access!AccessAssumption, access!AccessHolds, NEW place \in access!Place
    PROVE  /\ ~access!Mismatch(place)
           /\ access!Cookie(place) \in DOMAIN jar
           /\ access!IsConsole(place) \in BOOLEAN
           /\ ~access!IsConsole(place) => access!Host(place) \in Tenant
           /\ access!User(place) \in open \cup {access!Operator, access!Nobody}
           /\ access!Guarded(place) \in AccessSession
           /\ access!Guarded(place).user = jar[access!Cookie(place)].user
           /\ access!Guarded(place).record # access!NoRecord =>
                 /\ access!Guarded(place).user = access!Operator
                 /\ access!Guarded(place).record = jar[access!Cookie(place)].record
<1>1. /\ place \in Tenant \X BOOLEAN \/ place \in (Tenant \X {FALSE}) \cup {<<Console, TRUE>>}
      /\ access!Host(place) = place[1] /\ access!IsConsole(place) = place[2]
  BY DEF access!Place, access!Host, access!IsConsole
<1>2. /\ access!IsConsole(place) \in BOOLEAN
      /\ ~access!IsConsole(place) => access!Host(place) \in Tenant
      /\ access!Host(place) \in Tenant \cup {Console}
  <2>1. CASE place \in Tenant \X BOOLEAN
    <3>1. place[1] \in Tenant /\ place[2] \in BOOLEAN
      BY <2>1
    <3> QED
      BY <3>1, <1>1, Zenon
  <2>2. CASE place \in Tenant \X {FALSE}
    <3>1. place[1] \in Tenant /\ place[2] \in {FALSE}
      BY <2>2
    <3> QED
      BY <3>1, <1>1, Zenon
  <2>3. CASE place = <<Console, TRUE>>
    <3>1. place[1] = Console /\ place[2] = TRUE
      BY <2>3
    <3> QED
      BY <3>1, <1>1, Zenon
  <2> QED
    BY <1>1, <2>1, <2>2, <2>3
<1>3. /\ access!Cookie(place) \in Tenant \cup {Console} /\ DOMAIN jar = Tenant \cup {Console}
      /\ jar \in [Tenant \cup {Console} -> AccessSession] /\ open \subseteq Tenant
  BY <1>2, AccessSessions DEF access!Cookie, access!AccessHolds, access!TypeOK
<1> DEFINE s == access!SessionAt(place)
<1>4. s \in AccessSession /\ s = jar[access!Cookie(place)]
  BY <1>3 DEF access!SessionAt
<1> HIDE DEF s
<1>5. /\ access!Operator # access!Nobody /\ access!Operator \notin Tenant
      /\ access!Nobody \notin Tenant
  BY DEF access!AccessAssumption, access!Nobody, access!Operator
<1>6. /\ access!Loaded(place) \in open \cup {access!Operator, access!Nobody}
      /\ access!Loaded(place) # access!Nobody => access!Scoped(access!Loaded(place), place)
  BY DEF access!Loaded, s
<1>7. ~access!Mismatch(place)
  BY <1>2, <1>3, <1>5, <1>6 DEF access!Mismatch, access!Scoped
<1>8. access!User(place) = access!Loaded(place) /\ access!Guarded(place) = access!Current(s)
  BY <1>7 DEF access!User, access!Guarded, s
<1>9. /\ access!Current(s) \in AccessSession /\ access!Current(s).user = s.user
      /\ access!Current(s).record # access!NoRecord => access!Current(s) = s
  BY <1>4, AccessSessions DEF access!Current
<1>10. s.record # access!NoRecord => s.user = access!Operator
  BY <1>3, <1>4 DEF access!AccessHolds, access!RecordBelongsToOperator
<1> QED
  BY <1>2, <1>3, <1>4, <1>6, <1>7, <1>8, <1>9, <1>10

LEMMA AccessSets ==
    /\ \A S : access!IsFiniteSet(S) => IsFiniteSet(S)
    /\ \A S : access!Cardinality(S) = Cardinality(S)
<1>1. \A S : access!IsFiniteSet(S) => IsFiniteSet(S)
  BY Zenon DEF IsFiniteSet, access!IsFiniteSet
<1>2. \A S : access!Cardinality(S) = Cardinality(S)
  BY Zenon DEF Cardinality, access!Cardinality
<1> QED
  BY <1>1, <1>2

\* The cookies with an operator's record for a client.
AccessHeld(t, j) ==
    {cookie \in Tenant \cup {Console} :
        j[cookie].record # access!NoRecord /\ j[cookie].record.tenant = t}

\* A cookie gets another session.
LEMMA AccessHeldChanges ==
    ASSUME access!AccessAssumption, NEW j \in [Tenant \cup {Console} -> AccessSession],
           NEW c \in Tenant \cup {Console}, NEW s \in AccessSession, NEW t \in Tenant
    PROVE  LET before == Cardinality(AccessHeld(t, j))
               after == Cardinality(AccessHeld(t, [j EXCEPT ![c] = s]))
           IN  /\ before \in Nat /\ after \in Nat
               /\ after <= before + 1
               /\ s.record = access!NoRecord \/ s.record.tenant # t \/ s.record = j[c].record => after <= before
               /\ s.record = access!NoRecord /\ j[c].record # access!NoRecord /\ j[c].record.tenant = t
                    => after = before - 1
<1> DEFINE B == AccessHeld(t, j)
           A == AccessHeld(t, [j EXCEPT ![c] = s])
<1>1. IsFiniteSet(Tenant \cup {Console})
  BY FS_AddElement, AccessSets DEF access!AccessAssumption
<1>2. IsFiniteSet(B) /\ Cardinality(B) \in Nat
  BY <1>1, FS_Subset, FS_CardinalityType DEF AccessHeld
<1>3. CASE s.record # access!NoRecord /\ s.record.tenant = t
  <2>1. A = B \cup {c}
    BY <1>3 DEF AccessHeld
  <2> HIDE DEF A, B
  <2>2. IsFiniteSet(A) /\ Cardinality(A) = IF c \in B THEN Cardinality(B) ELSE Cardinality(B) + 1
    BY <2>1, <1>2, FS_AddElement
  <2>3. s.record = j[c].record => c \in B
    BY <1>3 DEF AccessHeld, B
  <2>4. /\ Cardinality(B) \in Nat /\ Cardinality(A) \in Nat /\ Cardinality(A) <= Cardinality(B) + 1
        /\ s.record = j[c].record => Cardinality(A) <= Cardinality(B)
    BY <2>2, <2>3, <1>2
  <2> QED
    BY <2>4, <1>3 DEF A, B
<1>4. CASE ~(s.record # access!NoRecord /\ s.record.tenant = t)
  <2>1. A = B \ {c}
    BY <1>4 DEF AccessHeld
  <2> HIDE DEF A, B
  <2>2. IsFiniteSet(A) /\ Cardinality(A) \in Nat
        /\ Cardinality(A) = IF c \in B THEN Cardinality(B) - 1 ELSE Cardinality(B)
    BY <2>1, <1>2, FS_RemoveElement, FS_CardinalityType
  <2>3. j[c].record # access!NoRecord /\ j[c].record.tenant = t => c \in B
    BY DEF AccessHeld, B
  <2>4. /\ Cardinality(B) \in Nat /\ Cardinality(A) \in Nat /\ Cardinality(A) <= Cardinality(B)
        /\ c \in B => Cardinality(A) = Cardinality(B) - 1
    BY <2>2, <1>2
  <2> QED
    BY <2>3, <2>4, <1>4 DEF A, B
<1> QED
  BY <1>3, <1>4

AccessEntriesHeld == \A t \in Tenant : Cardinality(AccessHeld(t, jar)) <= entries[t]

LEMMA AccessEntries ==
    access!TypeOK => (access!OpenEntriesAreAudited <=> AccessEntriesHeld)
<1> SUFFICES ASSUME access!TypeOK
             PROVE  access!OpenEntriesAreAudited <=> AccessEntriesHeld
  OBVIOUS
<1>1. DOMAIN jar = Tenant \cup {Console}
  BY DEF access!TypeOK
<1>2. ASSUME NEW t
      PROVE  access!Cardinality({cookie \in DOMAIN jar :
                 jar[cookie].record # access!NoRecord /\ jar[cookie].record.tenant = t})
               = Cardinality(AccessHeld(t, jar))
  BY <1>1, AccessSets, Zenon DEF AccessHeld
<1> QED
  BY <1>2, Zenon DEF access!OpenEntriesAreAudited, AccessEntriesHeld

\* What a request has to keep to.
LEMMA AccessRequests ==
    ASSUME access!AccessAssumption, access!AccessHolds, NEW place \in access!Place,
           access!Request(place), NEW s \in AccessSession, access!Saved(place, s),
           s.record # access!NoRecord => s.user = access!Operator,
           entries' \in [Tenant -> 0 .. MaxEntries],
           \A t \in Tenant : Cardinality(AccessHeld(t, jar')) <= entries'[t],
           last'.view # "none" /\ last'.user \in Tenant => last'.user \in open
    PROVE  access!AccessHolds'
<1> DEFINE c == access!Cookie(place)
<1>1. /\ ~access!Mismatch(place) /\ c \in Tenant \cup {Console}
      /\ jar \in [Tenant \cup {Console} -> AccessSession]
  BY AccessGuards, AccessSessions DEF access!AccessHolds, access!TypeOK
<1>2. jar' = [jar EXCEPT ![c] = s]
  BY DEF access!Saved
<1>3. flushed' = FALSE /\ UNCHANGED <<deployment, open, cached, clock>>
  BY <1>1 DEF access!Request, access!AccessHolds, access!GuardNeverFires, access!TypeOK
<1> HIDE DEF c
<1>4. access!TypeOK'
  BY <1>1, <1>2, <1>3, AccessSessions
  DEF access!AccessHolds, access!TypeOK, AccessSession, access!Session, access!Records, access!NoRecord
<1>5. access!RecordBelongsToOperator'
  <2> SUFFICES ASSUME NEW d \in Tenant \cup {Console}, jar'[d].record # access!NoRecord
               PROVE  jar'[d].user = access!Operator
    BY <1>1, <1>2 DEF access!RecordBelongsToOperator, access!NoRecord, access!Operator
  <2>1. d # c /\ jar[d].record # access!NoRecord => jar[d].user = access!Operator
    BY <1>1 DEF access!AccessHolds, access!RecordBelongsToOperator
  <2> QED
    BY <2>1, <1>1, <1>2
<1>6. access!SuspendedIsShut' /\ access!GuardNeverFires'
  BY <1>3 DEF access!SuspendedIsShut, access!GuardNeverFires
<1>7. AccessEntriesHeld'
  BY DEF AccessEntriesHeld, AccessHeld, access!NoRecord
<1>8. access!OpenEntriesAreAudited'
  BY <1>4, <1>7, AccessEntries, PTL
<1> QED
  BY <1>4, <1>5, <1>6, <1>8, Zenon DEF access!AccessHolds

\* A request that saves no new record.
LEMMA AccessSaves ==
    ASSUME access!AccessAssumption, access!AccessHolds, NEW place \in access!Place,
           access!Request(place), NEW s \in AccessSession, access!Saved(place, s),
           s.record # access!NoRecord =>
               s.user = access!Operator /\ s.record = jar[access!Cookie(place)].record,
           UNCHANGED entries,
           last'.view # "none" /\ last'.user \in Tenant => last'.user \in open
    PROVE  access!AccessHolds'
<1> DEFINE c == access!Cookie(place)
<1>1. /\ c \in Tenant \cup {Console} /\ jar \in [Tenant \cup {Console} -> AccessSession]
      /\ entries' \in [Tenant -> 0 .. MaxEntries] /\ MaxEntries \in Nat
      /\ jar' = [jar EXCEPT ![c] = s]
  BY AccessGuards, AccessSessions DEF access!AccessHolds, access!TypeOK, access!Saved, access!AccessAssumption
<1> HIDE DEF c
<1>2. ASSUME NEW t \in Tenant
      PROVE  Cardinality(AccessHeld(t, jar')) <= entries'[t]
  <2>1. Cardinality(AccessHeld(t, jar)) <= entries[t]
    BY AccessEntries DEF access!AccessHolds, AccessEntriesHeld
  <2>2. /\ Cardinality(AccessHeld(t, jar)) \in Nat /\ Cardinality(AccessHeld(t, jar')) \in Nat
        /\ Cardinality(AccessHeld(t, jar')) <= Cardinality(AccessHeld(t, jar))
    BY <1>1, AccessHeldChanges DEF c
  <2>3. entries[t] \in Nat
    BY <1>1
  <2> QED
    BY <2>1, <2>2, <2>3
<1> QED
  BY <1>1, <1>2, AccessRequests

LEMMA AccessSignsIn ==
    ASSUME access!AccessAssumption, access!AccessHolds, NEW place \in access!Place,
           NEW user \in Tenant \cup {access!Operator}
    PROVE  LET s == access!SignedIn(place, user)
           IN  /\ s \in AccessSession
               /\ s.record # access!NoRecord =>
                     s.user = access!Operator /\ s.record = jar[access!Cookie(place)].record
<1> DEFINE g == access!Guarded(place)
<1>1. /\ g \in AccessSession
      /\ g.record # access!NoRecord =>
            g.user = access!Operator /\ g.record = jar[access!Cookie(place)].record
  BY AccessGuards
<1>2. access!Operator # access!Nobody
  BY DEF access!Nobody, access!Operator
<1>3. CASE g.user \in {access!Nobody, user}
  <2>1. access!SignedIn(place, user) = [g EXCEPT !.user = user]
    BY <1>3 DEF access!SignedIn
  <2> HIDE DEF g
  <2> QED
    BY <1>1, <1>2, <1>3, <2>1, AccessSessions
<1>4. CASE g.user \notin {access!Nobody, user}
  <2>1. access!SignedIn(place, user) = [access!NoSession EXCEPT !.user = user]
    BY <1>4 DEF access!SignedIn
  <2> QED
    BY <2>1, AccessSessions
<1> QED
  BY <1>3, <1>4

\* The record of an entry, and one more of its client.
LEMMA AccessEnter ==
    ASSUME access!AccessAssumption, access!AccessHolds, NEW place \in access!Place,
           NEW t \in Tenant, NEW mode \in {"read", "write"}, access!Enter(place, t, mode)
    PROVE  access!AccessHolds'
<1> DEFINE c == access!Cookie(place)
           g == access!Guarded(place)
           r == [mode |-> mode, tenant |-> t, until |-> clock + Minutes]
           s == [g EXCEPT !.record = r]
<1>1. /\ c \in Tenant \cup {Console} /\ jar \in [Tenant \cup {Console} -> AccessSession]
      /\ entries \in [Tenant -> 0 .. MaxEntries] /\ MaxEntries \in Nat
      /\ clock \in Nat /\ Minutes \in Nat
      /\ g \in AccessSession
  BY AccessGuards, AccessSessions DEF access!AccessHolds, access!TypeOK, access!AccessAssumption
<1>2. /\ access!User(place) = access!Operator /\ entries[t] < MaxEntries
      /\ access!Request(place) /\ access!Saved(place, s)
      /\ entries' = [entries EXCEPT ![t] = @ + 1]
      /\ last'.view # "none" /\ last'.user \in Tenant => last'.user \in open
  BY DEF access!Enter, access!Staff, access!Ran, access!AccessAssumption
<1>3. r \in access!Records /\ r # access!NoRecord
  BY <1>1, AccessRecords DEF access!Records
<1>4. s \in AccessSession /\ s.record = r /\ s.user = g.user
  BY <1>1, <1>3, AccessSessions
<1>5. g.user = access!Operator
  <2>1. access!User(place) = access!Loaded(place)
    BY AccessGuards DEF access!User
  <2>2. access!Loaded(place) = jar[c].user
    BY <2>1, <1>2 DEF access!Loaded, access!SessionAt, access!Nobody, access!Operator
  <2> QED
    BY <1>2, <2>1, <2>2, AccessGuards
<1>6. r.tenant = t
  OBVIOUS
<1>7. jar' = [jar EXCEPT ![c] = s]
  BY <1>2 DEF access!Saved
<1> HIDE DEF c, g, r, s
<1>8. ASSUME NEW u \in Tenant
      PROVE  Cardinality(AccessHeld(u, jar')) <= entries'[u]
  <2>1. Cardinality(AccessHeld(u, jar)) <= entries[u]
    BY AccessEntries DEF access!AccessHolds, AccessEntriesHeld
  <2>2. /\ Cardinality(AccessHeld(u, jar)) \in Nat /\ Cardinality(AccessHeld(u, jar')) \in Nat
        /\ Cardinality(AccessHeld(u, jar')) <= Cardinality(AccessHeld(u, jar)) + 1
        /\ u # t => Cardinality(AccessHeld(u, jar')) <= Cardinality(AccessHeld(u, jar))
    BY <1>1, <1>4, <1>6, <1>7, AccessHeldChanges
  <2>3. entries[u] \in Nat /\ entries'[u] = IF u = t THEN entries[u] + 1 ELSE entries[u]
    BY <1>1, <1>2
  <2> QED
    BY <2>1, <2>2, <2>3
<1>9. entries' \in [Tenant -> 0 .. MaxEntries]
  BY <1>1, <1>2
<1> QED
  BY <1>2, <1>4, <1>5, <1>8, <1>9, AccessRequests

LEMMA AccessLeave ==
    ASSUME access!AccessAssumption, access!AccessHolds, NEW place \in access!Place,
           access!Leave(place)
    PROVE  access!AccessHolds'
<1> DEFINE c == access!Cookie(place)
           g == access!Guarded(place)
           s == [g EXCEPT !.record = access!NoRecord]
<1>1. /\ c \in Tenant \cup {Console} /\ jar \in [Tenant \cup {Console} -> AccessSession]
      /\ entries \in [Tenant -> 0 .. MaxEntries] /\ MaxEntries \in Nat
      /\ g \in AccessSession /\ (g.record # access!NoRecord => g.record = jar[c].record)
  BY AccessGuards, AccessSessions DEF access!AccessHolds, access!TypeOK, access!AccessAssumption
<1>2. /\ access!Request(place) /\ access!Saved(place, s)
      /\ entries' = IF g.record = access!NoRecord THEN entries
                    ELSE [entries EXCEPT ![g.record.tenant] = @ - 1]
      /\ last'.view # "none" /\ last'.user \in Tenant => last'.user \in open
  BY DEF access!Leave, access!Ran, access!AccessAssumption
<1>3. s \in AccessSession /\ s.record = access!NoRecord
  <2> HIDE DEF g
  <2>1. access!NoRecord \in access!Records \cup {access!NoRecord}
    OBVIOUS
  <2>2. \A x \in AccessSession :
           /\ [x EXCEPT !.record = access!NoRecord] \in AccessSession
           /\ [x EXCEPT !.record = access!NoRecord].record = access!NoRecord
    BY <2>1, AccessSessions, ZenonT(60)
  <2> QED
    BY <1>1, <2>2, Zenon
<1>4. jar' = [jar EXCEPT ![c] = s]
  BY <1>2 DEF access!Saved
<1>5. CASE g.record = access!NoRecord
  BY <1>2, <1>3, <1>5, AccessSaves
<1>6. CASE g.record # access!NoRecord
  <2> DEFINE t == g.record.tenant
  <2>1. /\ t \in Tenant /\ jar[c].record # access!NoRecord /\ jar[c].record.tenant = t
        /\ entries' = [entries EXCEPT ![t] = @ - 1]
    <3>1. g.record \in access!Records
      BY <1>1, <1>6 DEF AccessSession
    <3> QED
      BY <3>1, <1>1, <1>2, <1>6, AccessRecords
  <2> HIDE DEF c, g, s, t
  <2>2. ASSUME NEW u \in Tenant
        PROVE  /\ Cardinality(AccessHeld(u, jar')) <= entries'[u]
               /\ entries'[u] \in 0 .. MaxEntries
    <3>1. Cardinality(AccessHeld(u, jar)) <= entries[u]
      BY AccessEntries DEF access!AccessHolds, AccessEntriesHeld
    <3>2. /\ Cardinality(AccessHeld(u, jar)) \in Nat /\ Cardinality(AccessHeld(u, jar')) \in Nat
          /\ Cardinality(AccessHeld(u, jar')) <= Cardinality(AccessHeld(u, jar))
          /\ u = t => Cardinality(AccessHeld(u, jar')) = Cardinality(AccessHeld(u, jar)) - 1
      BY <1>1, <1>3, <1>4, <2>1, AccessHeldChanges
    <3>3. entries[u] \in 0 .. MaxEntries /\ entries'[u] = IF u = t THEN entries[u] - 1 ELSE entries[u]
      BY <1>1, <2>1
    <3> QED
      BY <3>1, <3>2, <3>3, <1>1
  <2>3. entries' \in [Tenant -> 0 .. MaxEntries]
    <3>1. entries' = [u \in Tenant |-> entries'[u]]
      BY <1>1, <2>1
    <3> QED
      BY <3>1, <2>2
  <2> QED
    BY <1>2, <1>3, <2>2, <2>3, AccessRequests
<1> QED
  BY <1>5, <1>6

LEMMA AccessStopped ==
    ASSUME access!AccessAssumption, access!AccessHolds, NEW place \in access!Place, NEW view, NEW post,
           access!Stopped(place, view, post)
    PROVE  access!AccessHolds'
<1> DEFINE s == IF ~access!Refused(place, view, post) /\ access!User(place) # access!Nobody
                  THEN access!NoSession ELSE access!Guarded(place)
<1>1. /\ access!Request(place) /\ access!Saved(place, s) /\ last' = [view |-> "none"]
      /\ UNCHANGED entries
  BY DEF access!Stopped
<1>2. /\ s \in AccessSession
      /\ s.record # access!NoRecord =>
            s.user = access!Operator /\ s.record = jar[access!Cookie(place)].record
  BY AccessGuards, AccessSessions
<1> HIDE DEF s
<1> QED
  BY <1>1, <1>2, AccessSaves

LEMMA AccessCenterView ==
    ASSUME access!AccessAssumption, access!AccessHolds, NEW place \in access!Place, NEW view, NEW post,
           access!CenterView(place, view, post)
    PROVE  access!AccessHolds'
<1>1. /\ access!Request(place) /\ access!Saved(place, access!Guarded(place)) /\ UNCHANGED entries
      /\ last' = [view |-> "none"] \/ last'.user = access!User(place)
  BY DEF access!CenterView, access!Ran
<1>2. last'.view # "none" /\ last'.user \in Tenant => last'.user \in open
  BY <1>1, AccessGuards DEF access!AccessAssumption
<1> QED
  BY <1>1, <1>2, AccessGuards, AccessSaves

LEMMA AccessCenterLogin ==
    ASSUME access!AccessAssumption, access!AccessHolds, NEW place \in access!Place,
           access!CenterLogin(place)
    PROVE  access!AccessHolds'
<1>1. /\ access!Request(place) /\ UNCHANGED entries /\ access!Host(place) \in open
      /\ access!Saved(place, access!SignedIn(place, access!Host(place)))
      /\ last'.user = access!Host(place)
  BY DEF access!CenterLogin, access!Ran
<1>2. access!Host(place) \in Tenant
  BY <1>1 DEF access!AccessHolds, access!TypeOK
<1> QED
  BY <1>1, <1>2, AccessSignsIn, AccessSaves

LEMMA AccessConsoleLogin ==
    ASSUME access!AccessAssumption, access!AccessHolds, NEW place \in access!Place,
           access!ConsoleLogin(place)
    PROVE  access!AccessHolds'
<1>1. /\ access!Request(place) /\ UNCHANGED entries
      /\ access!Saved(place, access!SignedIn(place, access!Operator))
      /\ last'.user = access!Operator
  BY DEF access!ConsoleLogin, access!Ran
<1>2. access!Operator \notin Tenant
  BY DEF access!AccessAssumption
<1> QED
  BY <1>1, <1>2, AccessSignsIn, AccessSaves

LEMMA AccessSignsOff ==
    ASSUME access!AccessAssumption, access!AccessHolds, NEW place \in access!Place,
           access!Logout(place) \/ access!TurnedAway(place)
    PROVE  access!AccessHolds'
<1>1. /\ access!Request(place) /\ UNCHANGED entries /\ last' = [view |-> "none"]
      /\ access!Saved(place, access!NoSession) \/ access!Saved(place, access!Guarded(place))
  BY DEF access!Logout, access!TurnedAway
<1> QED
  BY <1>1, AccessGuards, AccessSessions, AccessSaves

\* What is not a request.
LEMMA AccessElsewhere ==
    ASSUME access!AccessAssumption, access!AccessHolds, NEW t,
           \/ t \in Tenant /\ (access!SetStatus(t) \/ access!CacheFollows(t))
           \/ access!Tick
    PROVE  access!AccessHolds'
<1>1. /\ UNCHANGED <<deployment, jar, entries, flushed>> /\ last'.view = "none"
      /\ open' \subseteq Tenant /\ cached' \subseteq Tenant /\ clock' \in 0 .. MaxClock
  <2>1. open \subseteq Tenant /\ cached \subseteq Tenant /\ clock \in 0 .. MaxClock /\ MaxClock \in Nat
    BY DEF access!AccessHolds, access!TypeOK, access!AccessAssumption
  <2>2. CASE t \in Tenant /\ access!SetStatus(t)
    BY <2>1, <2>2 DEF access!SetStatus
  <2>3. CASE t \in Tenant /\ access!CacheFollows(t)
    BY <2>1, <2>3 DEF access!CacheFollows
  <2>4. CASE access!Tick
    BY <2>1, <2>4 DEF access!Tick
  <2> QED
    BY <2>2, <2>3, <2>4
<1>2. access!TypeOK'
  BY <1>1 DEF access!AccessHolds, access!TypeOK, access!Session, access!Records, access!NoRecord
<1>3. access!RecordBelongsToOperator' /\ access!SuspendedIsShut' /\ access!GuardNeverFires'
  BY <1>1 DEF access!AccessHolds, access!RecordBelongsToOperator, access!SuspendedIsShut,
              access!GuardNeverFires, access!NoRecord, access!Operator
<1>4. access!OpenEntriesAreAudited'
  <2>1. AccessEntriesHeld
    BY AccessEntries DEF access!AccessHolds
  <2>2. AccessEntriesHeld'
    BY <1>1, <2>1 DEF AccessEntriesHeld, AccessHeld, access!NoRecord
  <2> QED
    BY <1>2, <2>2, AccessEntries, PTL
<1> QED
  BY <1>2, <1>3, <1>4, Zenon DEF access!AccessHolds

LEMMA AccessStep ==
    ASSUME access!AccessAssumption, access!AccessHolds, [access!Next]_(access!vars)
    PROVE  access!AccessHolds'
<1>1. CASE UNCHANGED access!vars
  <2>1. access!TypeOK'
    BY <1>1 DEF access!vars, access!AccessHolds, access!TypeOK, access!Session, access!Records, access!NoRecord
  <2>2. access!RecordBelongsToOperator' /\ access!SuspendedIsShut' /\ access!GuardNeverFires'
    BY <1>1 DEF access!vars, access!AccessHolds, access!RecordBelongsToOperator, access!SuspendedIsShut,
                access!GuardNeverFires, access!NoRecord, access!Operator
  <2>3. AccessEntriesHeld
    BY AccessEntries DEF access!AccessHolds
  <2>4. AccessEntriesHeld'
    BY <1>1, <2>3 DEF access!vars, AccessEntriesHeld, AccessHeld, access!NoRecord
  <2>5. access!OpenEntriesAreAudited'
    BY <2>1, <2>4, AccessEntries, PTL
  <2> QED
    BY <2>1, <2>2, <2>5, Zenon DEF access!AccessHolds
<1> QED
  BY <1>1, AccessStopped, AccessCenterView, AccessCenterLogin, AccessConsoleLogin, AccessSignsOff,
     AccessEnter, AccessLeave, AccessElsewhere, Zenon
  DEF access!Next

\* Access: an operator's record stays with the operator, a suspended client's
\* pages are shut, the guard finds nothing, and an open entry has its audit
\* row, for any clients, deployment and order of requests.
THEOREM Entered ==
    ASSUME access!AccessAssumption
    PROVE  access!Spec => []access!AccessHolds
<1>1. access!Init => access!AccessHolds
  <2> SUFFICES ASSUME access!Init PROVE access!AccessHolds
    OBVIOUS
  <2>1. jar \in [Tenant \cup {Console} -> AccessSession] /\ \A c \in Tenant \cup {Console} : jar[c].record = access!NoRecord
    BY AccessSessions DEF access!Init
  <2>2. access!TypeOK
    <3>1. MaxClock \in Nat /\ MaxEntries \in Nat /\ access!Session = AccessSession
      BY AccessSessions DEF access!AccessAssumption
    <3>2. /\ 0 \in 0 .. MaxClock /\ [t \in Tenant |-> 0] \in [Tenant -> 0 .. MaxEntries]
      BY <3>1
    <3> QED
      BY <2>1, <3>1, <3>2 DEF access!Init, access!TypeOK
  <2>3. access!RecordBelongsToOperator /\ access!SuspendedIsShut /\ access!GuardNeverFires
    BY <2>1 DEF access!Init, access!RecordBelongsToOperator, access!SuspendedIsShut, access!GuardNeverFires
  <2>4. AccessEntriesHeld
    <3> SUFFICES ASSUME NEW t \in Tenant PROVE Cardinality(AccessHeld(t, jar)) <= entries[t]
      BY DEF AccessEntriesHeld
    <3>1. AccessHeld(t, jar) = {} /\ entries[t] = 0
      BY <2>1 DEF AccessHeld, access!Init
    <3> QED
      BY <3>1, FS_EmptySet
  <2>5. access!OpenEntriesAreAudited
    BY <2>2, <2>4, AccessEntries
  <2> QED
    BY <2>2, <2>3, <2>5, Zenon DEF access!AccessHolds
<1>2. access!AccessHolds /\ [access!Next]_(access!vars) => access!AccessHolds'
  BY AccessStep
<1> QED
  BY <1>1, <1>2, PTL DEF access!Spec

-----------------------------------------------------------------------------
(* Seats *)

EnrollmentSeat == Pupil \X enrollment!Offering

\* A request between two of its steps.
EnrollmentJob ==
    {enrollment!Idle}
      \cup [step : {"ending"}, old : Nat]
      \cup [step : {"moving", "ended"}, student : Pupil, group : StudyGroup, old : Nat]
      \cup [step : {"counted"}, student : Pupil, group : StudyGroup, old : Nat, warned : BOOLEAN]
      \cup [step : {"inserted"}, student : Pupil, group : StudyGroup, old : Nat, warned : BOOLEAN,
            bills : BOOLEAN]

EnrollmentRun ==
    {enrollment!NoRun}
      \cup [step : {"charging"}, groups : SUBSET StudyGroup, todo : SUBSET EnrollmentSeat]

EnrollmentTyped ==
    /\ rows \in Seq(enrollment!Assignment)
    /\ tx \in [Worker -> EnrollmentJob]
    /\ charges \subseteq EnrollmentSeat
    /\ run \in EnrollmentRun
    /\ left \in [requests : Nat, runs : Nat]
    /\ listed \subseteq StudyGroup /\ missed \subseteq EnrollmentSeat

EnrollmentSteps == {"moving", "ended", "counted", "inserted"}

\* Who ends a row has read it, and a transfer stays with the student and the
\* offering.
EnrollmentOld ==
    \A c \in Worker :
        /\ tx[c].step = "ending" => tx[c].old \in DOMAIN rows
        /\ tx[c].step \in {"moving", "ended"} => tx[c].old # 0
        /\ tx[c].step \in EnrollmentSteps /\ tx[c].old # 0 =>
              /\ tx[c].old \in DOMAIN rows
              /\ enrollment!SeatOf(rows[tx[c].old]) = enrollment!Seat(tx[c].student, tx[c].group)
              /\ rows[tx[c].old].group # tx[c].group

EnrollmentTaker(c, seat) ==
    tx[c].step = "inserted" /\ enrollment!Seat(tx[c].student, tx[c].group) = seat

\* A seat has one row and one taker at most, and a taker that moves holds it.
EnrollmentSeats ==
    /\ \A i, j \in DOMAIN rows :
          rows[i].status = "ACTIVE" /\ rows[j].status = "ACTIVE"
            /\ enrollment!SeatOf(rows[i]) = enrollment!SeatOf(rows[j]) => i = j
    /\ \A c \in Worker, i \in DOMAIN rows :
          rows[i].status = "ACTIVE" /\ EnrollmentTaker(c, enrollment!SeatOf(rows[i])) => i = tx[c].old
    /\ \A c, d \in Worker :
          tx[c].step = "inserted" /\ EnrollmentTaker(d, enrollment!Seat(tx[c].student, tx[c].group)) => c = d

\* What a run has listed it has still to do or has done.
EnrollmentBilled ==
    \A g \in listed : \A i \in enrollment!Seated(g) :
        \/ enrollment!SeatOf(rows[i]) \in charges \cup missed
        \/ run # enrollment!NoRun /\ g \in run.groups /\ enrollment!SeatOf(rows[i]) \in run.todo

EnrollmentUnwarned(g) == {i \in DOMAIN rows : rows[i].group = g /\ rows[i].status = "ACTIVE" /\ ~rows[i].warned}

EnrollmentPending(g) ==
    {c \in Worker : tx[c].step \in {"counted", "inserted"} /\ tx[c].group = g /\ ~tx[c].warned}

\* Those who were not warned and those who will not be.
EnrollmentFits ==
    \A g \in StudyGroup : Capacity[g] # 0 =>
        Cardinality(EnrollmentUnwarned(g)) + Cardinality(EnrollmentPending(g))
          <= Capacity[g] + Cardinality(Worker) - 1

EnrollmentInv ==
    EnrollmentTyped /\ EnrollmentOld /\ EnrollmentSeats /\ EnrollmentBilled /\ EnrollmentFits

LEMMA EnrollmentSets ==
    /\ \A S : enrollment!IsFiniteSet(S) => IsFiniteSet(S)
    /\ \A S : enrollment!Cardinality(S) = Cardinality(S)
<1>1. \A S : enrollment!IsFiniteSet(S) => IsFiniteSet(S)
  BY Zenon DEF IsFiniteSet, enrollment!IsFiniteSet
<1>2. \A S : enrollment!Cardinality(S) = Cardinality(S)
  BY Zenon DEF Cardinality, enrollment!Cardinality
<1> QED
  BY <1>1, <1>2

LEMMA EnrollmentJobs ==
    ASSUME NEW j \in EnrollmentJob
    PROVE  /\ j.step = "idle" => j = enrollment!Idle
           /\ j.step \in {"idle", "ending"} \cup EnrollmentSteps
           /\ j.step = "ending" => j.old \in Nat
           /\ j.step \in EnrollmentSteps => j.student \in Pupil /\ j.group \in StudyGroup /\ j.old \in Nat
           /\ j.step \in {"counted", "inserted"} => j.warned \in BOOLEAN
           /\ j.step = "inserted" => j.bills \in BOOLEAN
<1>1. CASE j = enrollment!Idle
  BY <1>1 DEF enrollment!Idle, EnrollmentSteps
<1>2. CASE j \in [step : {"ending"}, old : Nat]
  BY <1>2 DEF EnrollmentSteps
<1>3. CASE j \in [step : {"moving", "ended"}, student : Pupil, group : StudyGroup, old : Nat]
  BY <1>3 DEF EnrollmentSteps
<1>4. CASE j \in [step : {"counted"}, student : Pupil, group : StudyGroup, old : Nat, warned : BOOLEAN]
  BY <1>4 DEF EnrollmentSteps
<1>5. CASE j \in [step : {"inserted"}, student : Pupil, group : StudyGroup, old : Nat, warned : BOOLEAN,
                  bills : BOOLEAN]
  BY <1>5 DEF EnrollmentSteps
<1> QED
  BY <1>1, <1>2, <1>3, <1>4, <1>5 DEF EnrollmentJob

LEMMA EnrollmentRows ==
    ASSUME EnrollmentInv
    PROVE  /\ Len(rows) \in Nat /\ DOMAIN rows = 1 .. Len(rows)
           /\ \A i \in DOMAIN rows :
                 /\ rows[i] \in enrollment!Assignment
                 /\ rows[i].student \in Pupil /\ rows[i].group \in StudyGroup
                 /\ rows[i].warned \in BOOLEAN
                 /\ rows[i].status \in {"ACTIVE", "ENDED", "TRANSFERRED"}
           /\ \A g : IsFiniteSet(EnrollmentUnwarned(g)) /\ Cardinality(EnrollmentUnwarned(g)) \in Nat
<1>1. /\ Len(rows) \in Nat /\ DOMAIN rows = 1 .. Len(rows)
      /\ \A i \in DOMAIN rows : rows[i] \in enrollment!Assignment
  BY LenProperties, ElementOfSeq DEF EnrollmentInv, EnrollmentTyped
<1>2. IsFiniteSet(DOMAIN rows)
  BY <1>1, FS_Interval
<1>3. \A g : EnrollmentUnwarned(g) \in SUBSET DOMAIN rows
  BY DEF EnrollmentUnwarned
<1>4. \A g : IsFiniteSet(EnrollmentUnwarned(g)) /\ Cardinality(EnrollmentUnwarned(g)) \in Nat
  BY <1>2, <1>3, FS_Subset, FS_CardinalityType
<1> QED
  BY <1>1, <1>4 DEF enrollment!Assignment

LEMMA EnrollmentSeatIs ==
    /\ \A s \in Pupil, g \in StudyGroup : enrollment!Seat(s, g) \in EnrollmentSeat
    /\ EnrollmentInv => \A i \in DOMAIN rows : enrollment!SeatOf(rows[i]) \in EnrollmentSeat
<1>1. \A s \in Pupil, g \in StudyGroup : enrollment!Seat(s, g) \in EnrollmentSeat
  BY DEF enrollment!Seat, EnrollmentSeat, enrollment!Offering
<1> QED
  BY <1>1, EnrollmentRows DEF enrollment!SeatOf

LEMMA EnrollmentPendings ==
    ASSUME enrollment!EnrollmentAssumption, NEW g
    PROVE  /\ IsFiniteSet(EnrollmentPending(g)) /\ Cardinality(EnrollmentPending(g)) \in Nat
           /\ Cardinality(EnrollmentPending(g)) <= Cardinality(Worker) /\ Cardinality(Worker) \in Nat
<1>1. IsFiniteSet(Worker)
  BY EnrollmentSets DEF enrollment!EnrollmentAssumption
<1>2. EnrollmentPending(g) \in SUBSET Worker
  BY DEF EnrollmentPending
<1> QED
  BY <1>1, <1>2, FS_Subset, FS_CardinalityType

EnrollmentIsPending(j, g) == j.step \in {"counted", "inserted"} /\ j.group = g /\ ~j.warned

EnrollmentReads(j) ==
    /\ j.step = "ending" => j.old \in DOMAIN rows
    /\ j.step \in {"moving", "ended"} => j.old # 0
    /\ j.step \in EnrollmentSteps /\ j.old # 0 =>
          /\ j.old \in DOMAIN rows
          /\ enrollment!SeatOf(rows[j.old]) = enrollment!Seat(j.student, j.group)
          /\ rows[j.old].group # j.group

\* A request goes on and writes nothing yet; if it was not warned, the group
\* had a seat or it was counted before.
LEMMA EnrollmentWorks ==
    ASSUME enrollment!EnrollmentAssumption, EnrollmentInv, NEW c \in Worker, NEW j \in EnrollmentJob,
           tx' = [tx EXCEPT ![c] = j], left' \in [requests : Nat, runs : Nat],
           UNCHANGED <<rows, charges, run, listed, missed>>,
           EnrollmentReads(j), EnrollmentSeats',
           \A g \in StudyGroup : EnrollmentIsPending(j, g) =>
               EnrollmentIsPending(tx[c], g)
                 \/ (Capacity[g] # 0 => Cardinality(EnrollmentUnwarned(g)) < Capacity[g])
    PROVE  EnrollmentInv'
<1>1. /\ tx \in [Worker -> EnrollmentJob] /\ tx' \in [Worker -> EnrollmentJob]
      /\ \A d \in Worker : tx'[d] = IF d = c THEN j ELSE tx[d]
  BY DEF EnrollmentInv, EnrollmentTyped
<1>2. EnrollmentTyped'
  <2>1. (EnrollmentJob = EnrollmentJob')
    BY DEF EnrollmentJob, enrollment!Idle
  <2>2. (EnrollmentRun = EnrollmentRun') /\ (EnrollmentSeat = EnrollmentSeat')
    BY DEF EnrollmentRun, EnrollmentSeat, enrollment!NoRun, enrollment!Offering
  <2> QED
    BY <1>1, <2>1, <2>2 DEF EnrollmentInv, EnrollmentTyped, enrollment!Assignment
<1>3. EnrollmentOld'
  <2> SUFFICES ASSUME NEW d \in Worker PROVE EnrollmentReads(tx'[d])
    BY DEF EnrollmentOld, EnrollmentReads, EnrollmentSteps, enrollment!SeatOf, enrollment!Seat
  <2>1. EnrollmentReads(tx[d])
    BY DEF EnrollmentInv, EnrollmentOld, EnrollmentReads
  <2> QED
    BY <1>1, <2>1
<1>4. EnrollmentBilled'
  BY DEF EnrollmentInv, EnrollmentBilled, enrollment!Seated, enrollment!SeatOf, enrollment!Seat, enrollment!NoRun
<1>5. EnrollmentFits'
  <2> SUFFICES ASSUME NEW g \in StudyGroup, Capacity[g] # 0
               PROVE  Cardinality(EnrollmentUnwarned(g)) + Cardinality(EnrollmentPending(g)')
                        <= Capacity[g] + Cardinality(Worker) - 1
    BY DEF EnrollmentFits, EnrollmentUnwarned, EnrollmentPending
  <2>1. Capacity[g] \in Nat /\ Cardinality(EnrollmentUnwarned(g)) \in Nat
    BY EnrollmentRows DEF enrollment!EnrollmentAssumption
  <2>2. /\ Cardinality(EnrollmentPending(g)) \in Nat /\ Cardinality(Worker) \in Nat
        /\ IsFiniteSet(EnrollmentPending(g)) /\ IsFiniteSet(Worker)
    BY EnrollmentPendings, EnrollmentSets DEF enrollment!EnrollmentAssumption
  <2>3. EnrollmentPending(g)' = {d \in Worker : EnrollmentIsPending(tx'[d], g)}
    BY DEF EnrollmentPending, EnrollmentIsPending
  <2>4. EnrollmentPending(g) = {d \in Worker : EnrollmentIsPending(tx[d], g)}
    BY DEF EnrollmentPending, EnrollmentIsPending
  <2>5. EnrollmentPending(g)' \in SUBSET Worker
    BY <2>3
  <2>6. Cardinality(EnrollmentPending(g)') \in Nat /\ Cardinality(EnrollmentPending(g)') <= Cardinality(Worker)
    BY <2>2, <2>5, FS_Subset, FS_CardinalityType
  <2>7. CASE EnrollmentIsPending(j, g) /\ ~EnrollmentIsPending(tx[c], g)
    BY <2>1, <2>2, <2>6, <2>7
  <2>8. CASE ~(EnrollmentIsPending(j, g) /\ ~EnrollmentIsPending(tx[c], g))
    <3>1. EnrollmentPending(g)' \in SUBSET EnrollmentPending(g)
      BY <1>1, <2>3, <2>4, <2>8
    <3>2. Cardinality(EnrollmentPending(g)') <= Cardinality(EnrollmentPending(g))
      BY <2>2, <3>1, FS_Subset
    <3>3. Cardinality(EnrollmentUnwarned(g)) + Cardinality(EnrollmentPending(g))
            <= Capacity[g] + Cardinality(Worker) - 1
      BY DEF EnrollmentInv, EnrollmentFits
    <3> QED
      BY <2>1, <2>2, <2>6, <3>2, <3>3
  <2> QED
    BY <2>7, <2>8
<1> QED
  BY <1>2, <1>3, <1>4, <1>5 DEF EnrollmentInv

\* Who does not insert takes no seat.
LEMMA EnrollmentTakesNone ==
    ASSUME EnrollmentInv, NEW c \in Worker, NEW j \in EnrollmentJob, j.step # "inserted",
           tx' = [tx EXCEPT ![c] = j], UNCHANGED rows
    PROVE  EnrollmentSeats'
<1>1. \A d \in Worker : tx'[d] = IF d = c THEN j ELSE tx[d]
  BY DEF EnrollmentInv, EnrollmentTyped
<1>2. \A d \in Worker : tx'[d].step = "inserted" => tx'[d] = tx[d]
  BY <1>1
<1> QED
  BY <1>2 DEF EnrollmentInv, EnrollmentSeats, EnrollmentTaker, enrollment!Seat, enrollment!SeatOf

LEMMA EnrollmentBegins ==
    ASSUME EnrollmentInv, NEW c \in Worker, enrollment!Begins(c)
    PROVE  tx[c] = enrollment!Idle /\ left' \in [requests : Nat, runs : Nat]
<1>1. left \in [requests : Nat, runs : Nat]
  BY DEF EnrollmentInv, EnrollmentTyped
<1>2. left.requests \in Nat /\ left.requests > 0 /\ left' = [left EXCEPT !.requests = @ - 1]
  BY <1>1 DEF enrollment!Begins
<1> QED
  BY <1>1, <1>2 DEF enrollment!Begins

LEMMA EnrollmentReadToEnd ==
    ASSUME enrollment!EnrollmentAssumption, EnrollmentInv, NEW c \in Worker, NEW i \in DOMAIN rows,
           enrollment!ReadToEnd(c, i)
    PROVE  EnrollmentInv'
<1> DEFINE j == [step |-> "ending", old |-> i]
<1>1. /\ j \in EnrollmentJob /\ j.step = "ending" /\ j.old = i
  BY EnrollmentRows DEF EnrollmentJob
<1>2. /\ enrollment!Begins(c) /\ tx' = [tx EXCEPT ![c] = j]
      /\ UNCHANGED <<rows, charges, run, listed, missed>>
  BY DEF enrollment!ReadToEnd, enrollment!history
<1> HIDE DEF j
<1>3. EnrollmentReads(j) /\ EnrollmentSeats' /\ \A g : ~EnrollmentIsPending(j, g)
  BY <1>1, <1>2, EnrollmentTakesNone DEF EnrollmentReads, EnrollmentIsPending, EnrollmentSteps
<1> QED
  BY <1>1, <1>2, <1>3, EnrollmentBegins, EnrollmentWorks

LEMMA EnrollmentReadToMove ==
    ASSUME enrollment!EnrollmentAssumption, EnrollmentInv, NEW c \in Worker, NEW i \in DOMAIN rows,
           NEW g \in StudyGroup, enrollment!ReadToMove(c, i, g)
    PROVE  EnrollmentInv'
<1> DEFINE j == enrollment!Seating("moving", rows[i].student, g, i)
<1>1. /\ j \in EnrollmentJob /\ j.step = "moving" /\ j.old = i /\ j.student = rows[i].student
      /\ j.group = g /\ i # 0
  BY EnrollmentRows DEF EnrollmentJob, enrollment!Seating
<1>2. /\ enrollment!Begins(c) /\ tx' = [tx EXCEPT ![c] = j]
      /\ UNCHANGED <<rows, charges, run, listed, missed>>
      /\ g # rows[i].group /\ OfferingOf[g] = OfferingOf[rows[i].group]
  BY DEF enrollment!ReadToMove, enrollment!history
<1>3. enrollment!SeatOf(rows[i]) = enrollment!Seat(rows[i].student, g)
  BY <1>2 DEF enrollment!SeatOf, enrollment!Seat
<1> HIDE DEF j
<1>4. EnrollmentReads(j) /\ EnrollmentSeats' /\ \A h : ~EnrollmentIsPending(j, h)
  BY <1>1, <1>2, <1>3, EnrollmentTakesNone DEF EnrollmentReads, EnrollmentIsPending, EnrollmentSteps
<1> QED
  BY <1>1, <1>2, <1>4, EnrollmentBegins, EnrollmentWorks

LEMMA EnrollmentEndOld ==
    ASSUME enrollment!EnrollmentAssumption, EnrollmentInv, NEW c \in Worker, enrollment!EndOld(c)
    PROVE  EnrollmentInv'
<1> DEFINE t == tx[c]
           j == [t EXCEPT !.step = "ended"]
<1>1. /\ tx' = [tx EXCEPT ![c] = j] /\ UNCHANGED <<rows, charges, run, left, listed, missed>>
      /\ t.step = "moving" /\ EnrollmentReads(t)
  BY DEF enrollment!EndOld, enrollment!history, EnrollmentInv, EnrollmentOld, EnrollmentReads
<1>2. t \in EnrollmentJob /\ left' \in [requests : Nat, runs : Nat]
  BY <1>1 DEF EnrollmentInv, EnrollmentTyped
<1>3. t \in [step : {"moving", "ended"}, student : Pupil, group : StudyGroup, old : Nat]
  BY <1>1, <1>2 DEF EnrollmentJob, enrollment!Idle
<1> HIDE DEF t
<1>4. /\ j \in EnrollmentJob /\ j.step = "ended" /\ j.old = t.old /\ j.student = t.student /\ j.group = t.group
  BY <1>3 DEF EnrollmentJob
<1> HIDE DEF j
<1>5. EnrollmentReads(j) /\ EnrollmentSeats' /\ \A h : ~EnrollmentIsPending(j, h)
  BY <1>1, <1>4, EnrollmentTakesNone DEF EnrollmentReads, EnrollmentIsPending, EnrollmentSteps
<1> QED
  BY <1>1, <1>2, <1>4, <1>5, EnrollmentWorks

\* The advisory count: whoever is not warned finds fewer seats than there may be.
LEMMA EnrollmentCounts ==
    ASSUME enrollment!EnrollmentAssumption, EnrollmentInv, NEW c \in Worker,
           NEW s \in Pupil, NEW g \in StudyGroup, NEW old \in Nat,
           tx' = [tx EXCEPT ![c] = enrollment!Counted(c, s, g, old)],
           left' \in [requests : Nat, runs : Nat], UNCHANGED <<rows, charges, run, listed, missed>>,
           tx[c].step \in {"ended", "counted"} => tx[c].old \in DOMAIN rows /\ rows[tx[c].old].group # g,
           old # 0 => /\ old \in DOMAIN rows /\ rows[old].group # g
                      /\ enrollment!SeatOf(rows[old]) = enrollment!Seat(s, g)
    PROVE  EnrollmentInv'
<1> DEFINE j == enrollment!Counted(c, s, g, old)
<1>1. enrollment!Full(c, g) \in BOOLEAN
  BY Zenon DEF enrollment!Full
<1>2. /\ j \in EnrollmentJob /\ j.step = "counted" /\ j.student = s /\ j.group = g /\ j.old = old
      /\ j.warned = enrollment!Full(c, g)
  <2>1. PICK full \in BOOLEAN : full = enrollment!Full(c, g)
    BY <1>1
  <2>2. j = [step |-> "counted", student |-> s, group |-> g, old |-> old, warned |-> full]
    BY <2>1, Zenon DEF enrollment!Counted
  <2> HIDE DEF j
  <2> QED
    BY <2>1, <2>2 DEF EnrollmentJob
<1> HIDE DEF j
<1>3. EnrollmentReads(j) /\ EnrollmentSeats'
  BY <1>2, EnrollmentTakesNone DEF EnrollmentReads, EnrollmentSteps, j
<1>4. ASSUME NEW h \in StudyGroup, EnrollmentIsPending(j, h), Capacity[h] # 0
      PROVE  Cardinality(EnrollmentUnwarned(h)) < Capacity[h]
  <2> DEFINE seen == {i \in enrollment!Active(c) : rows[i].group = g}
  <2>1. h = g /\ ~enrollment!Full(c, g)
    BY <1>2, <1>4, Zenon DEF EnrollmentIsPending
  <2>2. ~(enrollment!Cardinality(seen) >= Capacity[g])
    BY <2>1, <1>4, Zenon DEF enrollment!Full
  <2>3. /\ Capacity[g] \in Nat /\ IsFiniteSet(DOMAIN rows)
    BY EnrollmentRows, FS_Interval DEF enrollment!EnrollmentAssumption
  <2>4. seen \in SUBSET DOMAIN rows
    BY DEF enrollment!Active
  <2>5. EnrollmentUnwarned(g) \in SUBSET seen
    BY DEF EnrollmentUnwarned, enrollment!Active
  <2> HIDE DEF seen
  <2>6. IsFiniteSet(seen) /\ Cardinality(seen) \in Nat /\ enrollment!Cardinality(seen) = Cardinality(seen)
    BY <2>3, <2>4, FS_Subset, FS_CardinalityType, EnrollmentSets
  <2>7. Cardinality(EnrollmentUnwarned(g)) <= Cardinality(seen) /\ Cardinality(EnrollmentUnwarned(g)) \in Nat
    BY <2>5, <2>6, FS_Subset, FS_CardinalityType
  <2> QED
    BY <2>1, <2>2, <2>3, <2>6, <2>7
<1> QED
  BY <1>2, <1>3, <1>4, EnrollmentWorks DEF j

LEMMA EnrollmentAssign ==
    ASSUME enrollment!EnrollmentAssumption, EnrollmentInv, NEW c \in Worker,
           NEW s \in Pupil, NEW g \in StudyGroup, enrollment!Assign(c, s, g)
    PROVE  EnrollmentInv'
<1>1. /\ enrollment!Begins(c) /\ tx' = [tx EXCEPT ![c] = enrollment!Counted(c, s, g, 0)]
      /\ UNCHANGED <<rows, charges, run, listed, missed>>
  BY DEF enrollment!Assign, enrollment!history
<1>2. tx[c].step = "idle" /\ left' \in [requests : Nat, runs : Nat]
  BY <1>1, EnrollmentBegins DEF enrollment!Idle
<1> QED
  BY <1>1, <1>2, EnrollmentCounts

LEMMA EnrollmentAssignNew ==
    ASSUME enrollment!EnrollmentAssumption, EnrollmentInv, NEW c \in Worker, enrollment!AssignNew(c)
    PROVE  EnrollmentInv'
<1>1. /\ tx' = [tx EXCEPT ![c] = enrollment!Counted(c, tx[c].student, tx[c].group, tx[c].old)]
      /\ UNCHANGED <<rows, charges, run, left, listed, missed>>
      /\ tx[c].step = "ended" /\ EnrollmentReads(tx[c])
  BY DEF enrollment!AssignNew, enrollment!history, EnrollmentInv, EnrollmentOld, EnrollmentReads
<1>2. tx[c] \in EnrollmentJob /\ left' \in [requests : Nat, runs : Nat]
  BY <1>1 DEF EnrollmentInv, EnrollmentTyped
<1>3. tx[c].student \in Pupil /\ tx[c].group \in StudyGroup /\ tx[c].old \in Nat
  BY <1>1, <1>2, EnrollmentJobs DEF EnrollmentSteps
<1>4. /\ tx[c].old \in DOMAIN rows /\ rows[tx[c].old].group # tx[c].group
      /\ enrollment!SeatOf(rows[tx[c].old]) = enrollment!Seat(tx[c].student, tx[c].group)
  BY <1>1 DEF EnrollmentReads, EnrollmentSteps
<1> QED
  BY <1>1, <1>2, <1>3, <1>4, EnrollmentCounts

\* Who inserts finds the seat free, or held by the row that the transfer ends.
LEMMA EnrollmentInsert ==
    ASSUME enrollment!EnrollmentAssumption, EnrollmentInv, NEW c \in Worker, enrollment!Insert(c)
    PROVE  EnrollmentInv'
<1> DEFINE t == tx[c]
           taken == {i \in enrollment!Active(c) :
                        enrollment!SeatOf(rows[i]) = enrollment!Seat(t.student, t.group)}
           j == [step |-> "inserted", student |-> t.student, group |-> t.group, old |-> t.old,
                 warned |-> t.warned, bills |-> charges # {}]
<1>1. /\ t.step = "counted" /\ ~enrollment!Awaited(c, t.student, t.group)
      /\ tx' = [tx EXCEPT ![c] = IF taken # {} THEN enrollment!Idle ELSE j]
      /\ UNCHANGED <<rows, charges, run, left, listed, missed>>
      /\ EnrollmentReads(t)
  BY DEF enrollment!Insert, enrollment!history, EnrollmentInv, EnrollmentOld, EnrollmentReads
<1>2. t \in EnrollmentJob /\ left' \in [requests : Nat, runs : Nat]
  BY <1>1 DEF EnrollmentInv, EnrollmentTyped
<1>3. CASE taken # {}
  <2>1. /\ enrollment!Idle \in EnrollmentJob /\ enrollment!Idle.step = "idle"
        /\ tx' = [tx EXCEPT ![c] = enrollment!Idle]
    BY <1>1, <1>3 DEF EnrollmentJob, enrollment!Idle
  <2>2. /\ EnrollmentReads(enrollment!Idle) /\ EnrollmentSeats'
        /\ \A g : ~EnrollmentIsPending(enrollment!Idle, g)
    BY <2>1, <1>1, EnrollmentTakesNone DEF EnrollmentReads, EnrollmentIsPending, EnrollmentSteps
  <2> QED
    BY <1>1, <1>2, <2>1, <2>2, EnrollmentWorks
<1>4. CASE taken = {}
  <2>1. /\ t.student \in Pupil /\ t.group \in StudyGroup /\ t.old \in Nat /\ t.warned \in BOOLEAN
    BY <1>1, <1>2, EnrollmentJobs DEF EnrollmentSteps
  <2>2. /\ j \in EnrollmentJob /\ j.step = "inserted" /\ j.student = t.student /\ j.group = t.group
        /\ j.old = t.old /\ j.warned = t.warned
    <3>1. (charges # {}) \in BOOLEAN
      OBVIOUS
    <3>2. PICK b \in BOOLEAN : b = (charges # {})
      BY <3>1
    <3>3. PICK w \in BOOLEAN : w = t.warned
      BY <2>1
    <3>4. j = [step |-> "inserted", student |-> t.student, group |-> t.group, old |-> t.old,
               warned |-> w, bills |-> b]
      BY <3>2, <3>3, Zenon
    <3> HIDE DEF j, t
    <3> QED
      BY <2>1, <3>2, <3>3, <3>4 DEF EnrollmentJob
  <2>3. tx' = [tx EXCEPT ![c] = j]
    BY <1>1, <1>4
  <2>4. ASSUME NEW i \in DOMAIN rows, rows[i].status = "ACTIVE",
               enrollment!SeatOf(rows[i]) = enrollment!Seat(t.student, t.group)
        PROVE  i = t.old
    <3>1. i \notin enrollment!Active(c)
      BY <1>4, <2>4
    <3> QED
      BY <3>1, <2>4 DEF enrollment!Active
  <2>5. \A d \in Worker \ {c} : ~EnrollmentTaker(d, enrollment!Seat(t.student, t.group))
    BY <1>1 DEF enrollment!Awaited, EnrollmentTaker
  <2> HIDE DEF j, taken
  <2>6. \A d \in Worker : tx'[d] = IF d = c THEN j ELSE tx[d]
    BY <2>3 DEF EnrollmentInv, EnrollmentTyped
  <2>7. EnrollmentSeats'
    <3> USE DEF EnrollmentTaker, enrollment!Seat, enrollment!SeatOf
    <3>1. \A i, k \in DOMAIN rows :
             rows[i].status = "ACTIVE" /\ rows[k].status = "ACTIVE"
               /\ enrollment!SeatOf(rows[i]) = enrollment!SeatOf(rows[k]) => i = k
      BY DEF EnrollmentInv, EnrollmentSeats
    <3>2. ASSUME NEW d \in Worker, NEW i \in DOMAIN rows, rows[i].status = "ACTIVE",
                 EnrollmentTaker(d, enrollment!SeatOf(rows[i]))'
          PROVE  i = tx'[d].old
      <4>1. CASE d = c
        BY <1>1, <2>2, <2>4, <2>6, <3>2, <4>1
      <4>2. CASE d # c
        BY <1>1, <2>6, <3>2, <4>2 DEF EnrollmentInv, EnrollmentSeats
      <4> QED
        BY <4>1, <4>2
    <3>3. ASSUME NEW d \in Worker, NEW e \in Worker, tx'[d].step = "inserted",
                 EnrollmentTaker(e, enrollment!Seat(tx[d].student, tx[d].group))'
          PROVE  d = e
      <4>1. CASE d = c
        BY <2>2, <2>5, <2>6, <3>3, <4>1
      <4>2. CASE e = c
        BY <2>2, <2>5, <2>6, <3>3, <4>2
      <4>3. CASE d # c /\ e # c
        BY <2>6, <3>3, <4>3 DEF EnrollmentInv, EnrollmentSeats
      <4> QED
        BY <4>1, <4>2, <4>3
    <3> QED
      BY <1>1, <3>1, <3>2, <3>3 DEF EnrollmentSeats
  <2>8. EnrollmentReads(j)
    BY <1>1, <2>2 DEF EnrollmentReads, EnrollmentSteps
  <2>9. \A g : EnrollmentIsPending(j, g) => EnrollmentIsPending(t, g)
    BY <1>1, <2>2 DEF EnrollmentIsPending
  <2> QED
    BY <1>1, <1>2, <2>2, <2>3, <2>7, <2>8, <2>9, EnrollmentWorks
<1> QED
  BY <1>3, <1>4

\* A run of the generation, and what it has to do.
LEMMA EnrollmentRuns ==
    ASSUME enrollment!EnrollmentAssumption, EnrollmentInv,
           UNCHANGED <<rows, tx>>, charges' \subseteq EnrollmentSeat, run' \in EnrollmentRun,
           left' \in [requests : Nat, runs : Nat], listed' \subseteq StudyGroup, UNCHANGED missed,
           EnrollmentBilled'
    PROVE  EnrollmentInv'
<1>1. EnrollmentTyped'
  <2>1. (EnrollmentJob = EnrollmentJob') /\ (EnrollmentRun = EnrollmentRun') /\ (EnrollmentSeat = EnrollmentSeat')
    BY DEF EnrollmentJob, enrollment!Idle, EnrollmentRun, EnrollmentSeat, enrollment!NoRun, enrollment!Offering
  <2> QED
    BY <2>1 DEF EnrollmentInv, EnrollmentTyped, enrollment!Assignment
<1>2. EnrollmentOld' /\ EnrollmentSeats' /\ EnrollmentFits'
  BY DEF EnrollmentInv, EnrollmentOld, EnrollmentSeats, EnrollmentFits, EnrollmentTaker, EnrollmentSteps,
         EnrollmentUnwarned, EnrollmentPending, enrollment!Seat, enrollment!SeatOf
<1> QED
  BY <1>1, <1>2 DEF EnrollmentInv

LEMMA EnrollmentRunIs ==
    ASSUME EnrollmentInv, run # enrollment!NoRun
    PROVE  run \in [step : {"charging"}, groups : SUBSET StudyGroup, todo : SUBSET EnrollmentSeat]
  BY DEF EnrollmentInv, EnrollmentTyped, EnrollmentRun

LEMMA EnrollmentList ==
    ASSUME enrollment!EnrollmentAssumption, EnrollmentInv, NEW asked \in SUBSET StudyGroup,
           enrollment!List(asked)
    PROVE  EnrollmentInv'
<1> DEFINE todo == {enrollment!SeatOf(rows[i]) : i \in enrollment!Billable(asked)}
           r == [step |-> "charging", groups |-> asked, todo |-> todo]
<1>1. /\ run = enrollment!NoRun /\ left.runs > 0 /\ left' = [left EXCEPT !.runs = @ - 1]
      /\ run' = r /\ listed' = listed \cup asked /\ UNCHANGED <<rows, tx, charges, missed>>
  BY DEF enrollment!List
<1>2. todo \subseteq EnrollmentSeat
  BY EnrollmentSeatIs DEF enrollment!Billable
<1>3. \A i \in DOMAIN rows : rows[i].group \in asked /\ rows[i].status = "ACTIVE" => enrollment!SeatOf(rows[i]) \in todo
  BY DEF enrollment!Billable
<1> HIDE DEF todo
<1>4. r \in EnrollmentRun /\ r # enrollment!NoRun /\ r.groups = asked /\ r.todo = todo
  BY <1>2 DEF EnrollmentRun, enrollment!NoRun
<1>5. left' \in [requests : Nat, runs : Nat] /\ listed' \subseteq StudyGroup /\ charges' \subseteq EnrollmentSeat
  <2>1. left \in [requests : Nat, runs : Nat] /\ listed \subseteq StudyGroup /\ charges \subseteq EnrollmentSeat
    BY DEF EnrollmentInv, EnrollmentTyped
  <2>2. left.runs \in Nat
    BY <2>1
  <2> QED
    BY <1>1, <2>1, <2>2
<1> HIDE DEF r
<1>6. EnrollmentBilled'
  <2> SUFFICES ASSUME NEW g \in listed \cup asked, NEW i \in DOMAIN rows,
                      rows[i].group = g, rows[i].status = "ACTIVE"
               PROVE  \/ enrollment!SeatOf(rows[i]) \in charges \cup missed
                      \/ g \in asked /\ enrollment!SeatOf(rows[i]) \in todo
    BY <1>1, <1>4 DEF EnrollmentBilled, enrollment!Seated, enrollment!SeatOf, enrollment!Seat, enrollment!NoRun
  <2>1. CASE g \in asked
    BY <1>3, <2>1
  <2>2. CASE g \in listed
    BY <1>1, <2>2 DEF EnrollmentInv, EnrollmentBilled, enrollment!Seated
  <2> QED
    BY <2>1, <2>2
<1> QED
  BY <1>1, <1>4, <1>5, <1>6, EnrollmentRuns

LEMMA EnrollmentCharge ==
    ASSUME enrollment!EnrollmentAssumption, EnrollmentInv, NEW seat, enrollment!Charge(seat)
    PROVE  EnrollmentInv'
<1>1. /\ run # enrollment!NoRun /\ seat \in run.todo /\ run' = [run EXCEPT !.todo = @ \ {seat}]
      /\ charges' = charges \cup {seat} /\ UNCHANGED <<rows, tx, left, listed, missed>>
  BY DEF enrollment!Charge, enrollment!history
<1>2. PICK r \in [step : {"charging"}, groups : SUBSET StudyGroup, todo : SUBSET EnrollmentSeat] : r = run
  BY <1>1, EnrollmentRunIs
<1>3. /\ run' \in EnrollmentRun /\ run' # enrollment!NoRun /\ run'.groups = run.groups
      /\ run'.todo = run.todo \ {seat} /\ seat \in EnrollmentSeat
  BY <1>1, <1>2 DEF EnrollmentRun, enrollment!NoRun
<1>4. /\ left' \in [requests : Nat, runs : Nat] /\ listed' \subseteq StudyGroup
      /\ charges' \subseteq EnrollmentSeat
  BY <1>1, <1>3 DEF EnrollmentInv, EnrollmentTyped
<1>5. EnrollmentBilled'
  BY <1>1, <1>3
  DEF EnrollmentInv, EnrollmentBilled, enrollment!Seated, enrollment!SeatOf, enrollment!Seat, enrollment!NoRun
<1> QED
  BY <1>1, <1>3, <1>4, <1>5, EnrollmentRuns

LEMMA EnrollmentRunEnds ==
    ASSUME enrollment!EnrollmentAssumption, EnrollmentInv, enrollment!Finish \/ enrollment!Fail
    PROVE  EnrollmentInv'
<1>1. /\ run # enrollment!NoRun /\ run' = enrollment!NoRun /\ UNCHANGED <<rows, tx, charges, left, missed>>
      /\ (run.todo = {} /\ listed' = listed) \/ listed' = listed \ run.groups
  BY DEF enrollment!Finish, enrollment!Fail, enrollment!history
<1>2. /\ left' \in [requests : Nat, runs : Nat] /\ listed' \subseteq StudyGroup
      /\ charges' \subseteq EnrollmentSeat /\ run' \in EnrollmentRun
  BY <1>1 DEF EnrollmentInv, EnrollmentTyped, EnrollmentRun
<1>3. EnrollmentBilled'
  BY <1>1 DEF EnrollmentInv, EnrollmentBilled, enrollment!Seated, enrollment!SeatOf, enrollment!Seat,
              enrollment!NoRun
<1> QED
  BY <1>1, <1>2, <1>3, EnrollmentRuns

LEMMA EnrollmentEnds ==
    ASSUME EnrollmentInv, NEW i \in DOMAIN rows, NEW status \in {"ENDED", "TRANSFERRED"}
    PROVE  LET ended == [rows EXCEPT ![i].status = status]
           IN  /\ ended \in Seq(enrollment!Assignment) /\ Len(ended) = Len(rows)
               /\ \A k \in DOMAIN rows :
                     /\ ended[k].student = rows[k].student /\ ended[k].group = rows[k].group
                     /\ ended[k].warned = rows[k].warned
                     /\ ended[k].status = IF k = i THEN status ELSE rows[k].status
<1> DEFINE entry == [rows[i] EXCEPT !.status = status]
           ended == [rows EXCEPT ![i].status = status]
<1>1. /\ rows \in Seq(enrollment!Assignment) /\ DOMAIN rows = 1 .. Len(rows) /\ Len(rows) \in Nat
      /\ rows[i] \in enrollment!Assignment
  BY EnrollmentRows DEF EnrollmentInv, EnrollmentTyped
<1>2. PICK r \in [student : Pupil, group : StudyGroup, status : {"ACTIVE", "ENDED", "TRANSFERRED"},
                  warned : BOOLEAN] : r = rows[i]
  BY <1>1 DEF enrollment!Assignment
<1>3. /\ entry \in enrollment!Assignment /\ entry.student = rows[i].student /\ entry.group = rows[i].group
      /\ entry.status = status
  BY <1>2 DEF enrollment!Assignment
<1>4. entry.warned = rows[i].warned
  <2>1. entry = [r EXCEPT !.status = status]
    BY <1>2, Zenon
  <2>2. [r EXCEPT !.status = status].warned = r.warned
    BY Zenon
  <2> QED
    BY <1>2, <2>1, <2>2, Zenon
<1>5. ended = [rows EXCEPT ![i] = entry]
  OBVIOUS
<1> HIDE DEF entry
<1>6. /\ ended \in Seq(enrollment!Assignment) /\ Len(ended) = Len(rows)
      /\ \A k \in DOMAIN rows : ended[k] = IF k = i THEN entry ELSE rows[k]
  BY <1>1, <1>3, <1>5, ExceptSeq
<1> HIDE DEF ended
<1>7. ASSUME NEW k \in DOMAIN rows
      PROVE  /\ ended[k].student = rows[k].student /\ ended[k].group = rows[k].group
             /\ ended[k].warned = rows[k].warned
             /\ ended[k].status = IF k = i THEN status ELSE rows[k].status
  <2>1. CASE k = i
    BY <1>3, <1>4, <1>6, <2>1, Zenon
  <2>2. CASE k # i
    BY <1>6, <2>2, Zenon
  <2> QED
    BY <2>1, <2>2
<1> QED
  BY <1>6, <1>7 DEF ended

\* Rows that were there keep all but their status.
EnrollmentKept(new, i, status) ==
    /\ DOMAIN rows \subseteq DOMAIN new
    /\ \A k \in DOMAIN rows :
          /\ new[k].student = rows[k].student /\ new[k].group = rows[k].group
          /\ new[k].warned = rows[k].warned
          /\ new[k].status = IF k = i THEN status ELSE rows[k].status

LEMMA EnrollmentIdles ==
    ASSUME enrollment!EnrollmentAssumption, EnrollmentInv, NEW c \in Worker,
           tx' = [tx EXCEPT ![c] = enrollment!Idle], NEW i, NEW status \in {"ENDED", "TRANSFERRED"},
           EnrollmentKept(rows', i, status)
    PROVE  /\ \A d \in Worker : tx'[d] = IF d = c THEN enrollment!Idle ELSE tx[d]
           /\ tx' \in [Worker -> EnrollmentJob]
           /\ EnrollmentOld'
           /\ \A g : EnrollmentPending(g)' = EnrollmentPending(g) \ {c}
<1>1. \A d \in Worker : tx'[d] = IF d = c THEN enrollment!Idle ELSE tx[d]
  BY DEF EnrollmentInv, EnrollmentTyped
<1>2. tx' \in [Worker -> EnrollmentJob] /\ enrollment!Idle.step = "idle"
  BY DEF EnrollmentInv, EnrollmentTyped, EnrollmentJob, enrollment!Idle
<1>3. EnrollmentOld'
  <2> SUFFICES ASSUME NEW d \in Worker
               PROVE  /\ tx'[d].step = "ending" => tx'[d].old \in DOMAIN rows'
                      /\ tx'[d].step \in {"moving", "ended"} => tx'[d].old # 0
                      /\ tx'[d].step \in EnrollmentSteps /\ tx'[d].old # 0 =>
                            /\ tx'[d].old \in DOMAIN rows'
                            /\ enrollment!SeatOf(rows'[tx'[d].old])
                                  = enrollment!Seat(tx'[d].student, tx'[d].group)
                            /\ rows'[tx'[d].old].group # tx'[d].group
    BY DEF EnrollmentOld, EnrollmentSteps, enrollment!SeatOf, enrollment!Seat
  <2>1. CASE d = c
    BY <1>1, <1>2, <2>1 DEF EnrollmentSteps
  <2>2. CASE d # c
    <3>1. tx'[d] = tx[d]
      BY <1>1, <2>2
    <3>2. /\ tx[d].step = "ending" => tx[d].old \in DOMAIN rows
          /\ tx[d].step \in {"moving", "ended"} => tx[d].old # 0
          /\ tx[d].step \in EnrollmentSteps /\ tx[d].old # 0 =>
                /\ tx[d].old \in DOMAIN rows
                /\ enrollment!SeatOf(rows[tx[d].old]) = enrollment!Seat(tx[d].student, tx[d].group)
                /\ rows[tx[d].old].group # tx[d].group
      BY DEF EnrollmentInv, EnrollmentOld
    <3> QED
      BY <3>1, <3>2 DEF EnrollmentKept, enrollment!SeatOf, enrollment!Seat
  <2> QED
    BY <2>1, <2>2
<1>4. \A g : EnrollmentPending(g)' = EnrollmentPending(g) \ {c}
  BY <1>1, <1>2 DEF EnrollmentPending
<1> QED
  BY <1>1, <1>2, <1>3, <1>4

LEMMA EnrollmentEnd ==
    ASSUME enrollment!EnrollmentAssumption, EnrollmentInv, NEW c \in Worker, enrollment!End(c)
    PROVE  EnrollmentInv'
<1> DEFINE i == tx[c].old
<1>1. /\ tx[c].step = "ending" /\ rows' = [rows EXCEPT ![i].status = "ENDED"]
      /\ tx' = [tx EXCEPT ![c] = enrollment!Idle] /\ UNCHANGED <<charges, run, left, listed, missed>>
      /\ i \in DOMAIN rows
  BY DEF enrollment!End, enrollment!history, EnrollmentInv, EnrollmentOld
<1> HIDE DEF i
<1>2. /\ rows' \in Seq(enrollment!Assignment) /\ DOMAIN rows' = DOMAIN rows
      /\ EnrollmentKept(rows', i, "ENDED")
  <2>1. rows' \in Seq(enrollment!Assignment) /\ Len(rows') = Len(rows)
    BY <1>1, EnrollmentEnds
  <2>2. DOMAIN rows' = 1 .. Len(rows') /\ DOMAIN rows = 1 .. Len(rows)
    BY <2>1, LenProperties, EnrollmentRows
  <2> QED
    BY <1>1, <2>1, <2>2, EnrollmentEnds DEF EnrollmentKept
<1>3. /\ \A d \in Worker : tx'[d] = IF d = c THEN enrollment!Idle ELSE tx[d]
      /\ tx' \in [Worker -> EnrollmentJob] /\ EnrollmentOld'
      /\ \A g : EnrollmentPending(g)' = EnrollmentPending(g) \ {c}
  BY <1>1, <1>2, EnrollmentIdles
<1>4. EnrollmentTyped'
  <2>1. (EnrollmentJob = EnrollmentJob') /\ (EnrollmentRun = EnrollmentRun') /\ (EnrollmentSeat = EnrollmentSeat')
    BY DEF EnrollmentJob, enrollment!Idle, EnrollmentRun, EnrollmentSeat, enrollment!NoRun, enrollment!Offering
  <2> QED
    BY <1>1, <1>2, <1>3, <2>1 DEF EnrollmentInv, EnrollmentTyped, enrollment!Assignment
<1>5. \A k \in DOMAIN rows :
         /\ rows'[k].group = rows[k].group /\ rows'[k].warned = rows[k].warned
         /\ enrollment!SeatOf(rows'[k]) = enrollment!SeatOf(rows[k])
         /\ rows'[k].status = "ACTIVE" => rows[k].status = "ACTIVE"
  BY <1>2 DEF EnrollmentKept, enrollment!SeatOf
<1>6. EnrollmentSeats'
  <2>1. \A d \in Worker : tx'[d].step = "inserted" => tx'[d] = tx[d]
    BY <1>3 DEF enrollment!Idle
  <2> QED
    BY <1>2, <1>5, <2>1 DEF EnrollmentInv, EnrollmentSeats, EnrollmentTaker, enrollment!Seat, enrollment!SeatOf
<1>7. EnrollmentBilled'
  <2> SUFFICES ASSUME NEW g \in listed, NEW k \in DOMAIN rows, rows'[k].group = g, rows'[k].status = "ACTIVE"
               PROVE  \/ enrollment!SeatOf(rows[k]) \in charges \cup missed
                      \/ run # enrollment!NoRun /\ g \in run.groups /\ enrollment!SeatOf(rows[k]) \in run.todo
    BY <1>1, <1>2, <1>5 DEF EnrollmentBilled, enrollment!Seated, enrollment!SeatOf, enrollment!Seat, enrollment!NoRun
  <2>1. k \in enrollment!Seated(g)
    BY <1>5 DEF enrollment!Seated
  <2> QED
    BY <2>1 DEF EnrollmentInv, EnrollmentBilled
<1>8. EnrollmentFits'
  <2> SUFFICES ASSUME NEW g \in StudyGroup, Capacity[g] # 0
               PROVE  Cardinality(EnrollmentUnwarned(g)') + Cardinality(EnrollmentPending(g)')
                        <= Capacity[g] + Cardinality(Worker) - 1
    BY DEF EnrollmentFits, EnrollmentUnwarned, EnrollmentPending
  <2>1. EnrollmentUnwarned(g)' \in SUBSET EnrollmentUnwarned(g)
    BY <1>2, <1>5 DEF EnrollmentUnwarned
  <2>2. /\ Cardinality(EnrollmentUnwarned(g)') <= Cardinality(EnrollmentUnwarned(g))
        /\ Cardinality(EnrollmentUnwarned(g)') \in Nat /\ Cardinality(EnrollmentUnwarned(g)) \in Nat
    BY <2>1, EnrollmentRows, FS_Subset, FS_CardinalityType
  <2>3. EnrollmentPending(g)' \in SUBSET EnrollmentPending(g)
    BY <1>3
  <2>4. /\ Cardinality(EnrollmentPending(g)') <= Cardinality(EnrollmentPending(g))
        /\ Cardinality(EnrollmentPending(g)') \in Nat /\ Cardinality(EnrollmentPending(g)) \in Nat
        /\ Cardinality(Worker) \in Nat /\ Capacity[g] \in Nat
    BY <2>3, EnrollmentPendings, FS_Subset, FS_CardinalityType DEF enrollment!EnrollmentAssumption
  <2>5. Cardinality(EnrollmentUnwarned(g)) + Cardinality(EnrollmentPending(g))
          <= Capacity[g] + Cardinality(Worker) - 1
    BY DEF EnrollmentInv, EnrollmentFits
  <2> QED
    BY <2>2, <2>4, <2>5
<1> QED
  BY <1>4, <1>3, <1>6, <1>7, <1>8 DEF EnrollmentInv

\* What the commit adds: a row for the seat that was taken.
LEMMA EnrollmentAdds ==
    ASSUME EnrollmentInv, NEW c \in Worker, enrollment!Commit(c)
    PROVE  LET t == tx[c]
               seat == enrollment!Seat(t.student, t.group)
               n == Len(rows) + 1
               entry == rows'[n]
           IN  /\ t.student \in Pupil /\ t.group \in StudyGroup /\ t.old \in Nat /\ t.warned \in BOOLEAN
               /\ t.bills \in BOOLEAN /\ seat \in EnrollmentSeat
               /\ t.old # 0 => t.old \in DOMAIN rows /\ enrollment!SeatOf(rows[t.old]) = seat
               /\ entry.student = t.student /\ entry.group = t.group
               /\ entry.status = "ACTIVE" /\ entry.warned = t.warned
               /\ enrollment!SeatOf(entry) = seat
               /\ rows' \in Seq(enrollment!Assignment)
               /\ DOMAIN rows' = DOMAIN rows \cup {n} /\ n \notin DOMAIN rows
               /\ EnrollmentKept(rows', t.old, "TRANSFERRED")
<1> DEFINE t == tx[c]
           ended == IF t.old = 0 THEN rows ELSE [rows EXCEPT ![t.old].status = "TRANSFERRED"]
           seat == enrollment!Seat(t.student, t.group)
           entry == [student |-> t.student, group |-> t.group, status |-> "ACTIVE", warned |-> t.warned]
           n == Len(rows) + 1
<1>1. /\ t.step = "inserted" /\ rows' = Append(ended, entry)
      /\ charges' = IF t.bills THEN charges \cup {seat} ELSE charges
      /\ missed' = IF ~t.bills /\ t.group \in listed THEN missed \cup {seat} ELSE missed
      /\ tx' = [tx EXCEPT ![c] = enrollment!Idle] /\ UNCHANGED <<run, left, listed>>
  BY DEF enrollment!Commit
<1>2. /\ t.student \in Pupil /\ t.group \in StudyGroup /\ t.old \in Nat /\ t.warned \in BOOLEAN
      /\ t.bills \in BOOLEAN /\ seat \in EnrollmentSeat
  <2>1. t \in EnrollmentJob
    BY DEF EnrollmentInv, EnrollmentTyped
  <2> HIDE DEF t
  <2> QED
    BY <1>1, <2>1, EnrollmentJobs, EnrollmentSeatIs DEF EnrollmentSteps
<1>3. t.old # 0 => t.old \in DOMAIN rows /\ enrollment!SeatOf(rows[t.old]) = seat
  BY <1>1 DEF EnrollmentInv, EnrollmentOld, EnrollmentSteps
<1> HIDE DEF t
<1>4. /\ entry \in enrollment!Assignment /\ entry.student = t.student /\ entry.group = t.group
      /\ entry.status = "ACTIVE" /\ entry.warned = t.warned
      /\ enrollment!SeatOf(entry) = seat
  <2>1. PICK w \in BOOLEAN : w = t.warned
    BY <1>2
  <2>2. entry = [student |-> t.student, group |-> t.group, status |-> "ACTIVE", warned |-> w]
    BY <2>1, Zenon
  <2> HIDE DEF entry
  <2> QED
    BY <1>2, <2>1, <2>2 DEF enrollment!Assignment, enrollment!SeatOf
<1> HIDE DEF entry, seat
<1>5. /\ DOMAIN rows = 1 .. Len(rows) /\ Len(rows) \in Nat /\ 0 \notin DOMAIN rows
      /\ rows \in Seq(enrollment!Assignment)
  BY EnrollmentRows DEF EnrollmentInv, EnrollmentTyped
<1>6. /\ ended \in Seq(enrollment!Assignment) /\ Len(ended) = Len(rows)
      /\ \A k \in DOMAIN rows :
            /\ ended[k].student = rows[k].student /\ ended[k].group = rows[k].group
            /\ ended[k].warned = rows[k].warned
            /\ ended[k].status = IF k = t.old THEN "TRANSFERRED" ELSE rows[k].status
  <2>1. CASE t.old = 0
    BY <1>5, <2>1
  <2>2. CASE t.old # 0
    BY <1>3, <2>2, EnrollmentEnds
  <2> QED
    BY <2>1, <2>2
<1> HIDE DEF ended
<1>7. /\ rows' \in Seq(enrollment!Assignment) /\ Len(rows') = Len(rows) + 1
      /\ \A k \in DOMAIN rows : rows'[k] = ended[k]
      /\ rows'[n] = entry
  BY <1>1, <1>4, <1>5, <1>6, AppendProperties
<1>8. /\ DOMAIN rows' = DOMAIN rows \cup {n} /\ n \notin DOMAIN rows
  <2>1. DOMAIN rows' = 1 .. Len(rows')
    BY <1>7, LenProperties
  <2> QED
    BY <2>1, <1>5, <1>7
<1>9. EnrollmentKept(rows', t.old, "TRANSFERRED")
  <2>1. DOMAIN rows \subseteq DOMAIN rows'
    BY <1>8
  <2> QED
    BY <2>1, <1>6, <1>7, ZenonT(60) DEF EnrollmentKept
<1> QED
  <2> HIDE DEF n
  <2> QED
    BY <1>2, <1>3, <1>4, <1>7, <1>8, <1>9, Zenon DEF t, seat, n

LEMMA EnrollmentCommit ==
    ASSUME enrollment!EnrollmentAssumption, EnrollmentInv, NEW c \in Worker, enrollment!Commit(c)
    PROVE  EnrollmentInv'
<1> DEFINE t == tx[c]
           seat == enrollment!Seat(t.student, t.group)
           n == Len(rows) + 1
           entry == rows'[n]
<1>1. /\ t.step = "inserted"
      /\ charges' = IF t.bills THEN charges \cup {seat} ELSE charges
      /\ missed' = IF ~t.bills /\ t.group \in listed THEN missed \cup {seat} ELSE missed
      /\ tx' = [tx EXCEPT ![c] = enrollment!Idle] /\ UNCHANGED <<run, left, listed>>
  BY DEF enrollment!Commit
<1>2. /\ t.student \in Pupil /\ t.group \in StudyGroup /\ t.old \in Nat /\ t.warned \in BOOLEAN
      /\ t.bills \in BOOLEAN /\ seat \in EnrollmentSeat
  BY EnrollmentAdds, Zenon
<1>4. /\ entry.student = t.student /\ entry.group = t.group
      /\ entry.status = "ACTIVE" /\ entry.warned = t.warned
      /\ enrollment!SeatOf(entry) = seat
  BY EnrollmentAdds, Zenon
<1>7. rows' \in Seq(enrollment!Assignment) /\ rows'[n] = entry
  BY EnrollmentAdds, Zenon
<1>8. /\ DOMAIN rows' = DOMAIN rows \cup {n} /\ n \notin DOMAIN rows
  BY EnrollmentAdds, Zenon
<1>9. EnrollmentKept(rows', t.old, "TRANSFERRED")
  BY EnrollmentAdds, Zenon
<1> HIDE DEF t, seat, entry
<1>10. \A k \in DOMAIN rows :
         /\ rows'[k].group = rows[k].group /\ rows'[k].warned = rows[k].warned
         /\ enrollment!SeatOf(rows'[k]) = enrollment!SeatOf(rows[k])
         /\ rows'[k].status = "ACTIVE" => rows[k].status = "ACTIVE" /\ k # t.old
  BY <1>9 DEF EnrollmentKept, enrollment!SeatOf
<1> HIDE DEF n
<1>11. /\ \A d \in Worker : tx'[d] = IF d = c THEN enrollment!Idle ELSE tx[d]
      /\ tx' \in [Worker -> EnrollmentJob] /\ EnrollmentOld'
      /\ \A g : EnrollmentPending(g)' = EnrollmentPending(g) \ {c}
  BY <1>1, <1>9, EnrollmentIdles
<1>12. EnrollmentTyped'
  <2>1. (EnrollmentJob = EnrollmentJob') /\ (EnrollmentRun = EnrollmentRun') /\ (EnrollmentSeat = EnrollmentSeat')
    BY DEF EnrollmentJob, enrollment!Idle, EnrollmentRun, EnrollmentSeat, enrollment!NoRun, enrollment!Offering
  <2>2. charges' \subseteq EnrollmentSeat /\ missed' \subseteq EnrollmentSeat
    BY <1>1, <1>2 DEF EnrollmentInv, EnrollmentTyped
  <2> QED
    BY <1>1, <1>7, <1>11, <2>1, <2>2 DEF EnrollmentInv, EnrollmentTyped, enrollment!Assignment
<1>13. /\ EnrollmentTaker(c, seat)
       /\ \A k \in DOMAIN rows : rows[k].status = "ACTIVE" /\ enrollment!SeatOf(rows[k]) = seat => k = t.old
       /\ \A d \in Worker : EnrollmentTaker(d, seat) => d = c
  <2>1. EnrollmentTaker(c, seat)
    BY <1>1 DEF EnrollmentTaker, seat, t
  <2>2. ASSUME NEW k \in DOMAIN rows, rows[k].status = "ACTIVE", enrollment!SeatOf(rows[k]) = seat
        PROVE  k = t.old
    BY <2>1, <2>2 DEF EnrollmentInv, EnrollmentSeats, t
  <2>3. ASSUME NEW d \in Worker, EnrollmentTaker(d, seat)
        PROVE  d = c
    BY <1>1, <2>3 DEF EnrollmentInv, EnrollmentSeats, t, seat
  <2> QED
    BY <2>1, <2>2, <2>3
<1>14. EnrollmentSeats'
  <2>1. \A d \in Worker : tx'[d].step = "inserted" => tx'[d] = tx[d] /\ d # c
    BY <1>11 DEF enrollment!Idle
  <2>3. ASSUME NEW i \in DOMAIN rows', NEW k \in DOMAIN rows', rows'[i].status = "ACTIVE", rows'[k].status = "ACTIVE",
               enrollment!SeatOf(rows'[i]) = enrollment!SeatOf(rows'[k])
        PROVE  i = k
    <3>1. CASE i \in DOMAIN rows /\ k \in DOMAIN rows
      BY <1>10, <2>3, <3>1 DEF EnrollmentInv, EnrollmentSeats
    <3>2. CASE i \in DOMAIN rows /\ k = n
      BY <1>4, <1>7, <1>10, <1>13, <2>3, <3>2
    <3>3. CASE i = n /\ k \in DOMAIN rows
      BY <1>4, <1>7, <1>10, <1>13, <2>3, <3>3
    <3> QED
      BY <1>8, <3>1, <3>2, <3>3
  <2>4. ASSUME NEW d \in Worker, NEW i \in DOMAIN rows', rows'[i].status = "ACTIVE",
               EnrollmentTaker(d, enrollment!SeatOf(rows[i]))'
        PROVE  i = tx'[d].old
    <3>1. /\ EnrollmentTaker(d, enrollment!SeatOf(rows'[i])) /\ d # c /\ tx'[d].old = tx[d].old
      <4>1. EnrollmentTaker(d, enrollment!SeatOf(rows[i]))' <=>
              tx'[d].step = "inserted"
                /\ enrollment!Seat(tx'[d].student, tx'[d].group) = enrollment!SeatOf(rows'[i])
        BY DEF EnrollmentTaker, enrollment!Seat, enrollment!SeatOf
      <4> QED
        BY <2>1, <2>4, <4>1 DEF EnrollmentTaker
    <3>2. CASE i = n
      BY <1>4, <1>7, <1>13, <3>1, <3>2
    <3>3. CASE i \in DOMAIN rows
      BY <1>10, <2>4, <3>1, <3>3 DEF EnrollmentInv, EnrollmentSeats
    <3> QED
      BY <1>8, <3>2, <3>3
  <2>5. ASSUME NEW d \in Worker, NEW e \in Worker, tx'[d].step = "inserted",
               EnrollmentTaker(e, enrollment!Seat(tx[d].student, tx[d].group))'
        PROVE  d = e
    <3>1. /\ tx'[d] = tx[d]
          /\ tx[e].step = "inserted" /\ enrollment!Seat(tx[e].student, tx[e].group) = enrollment!Seat(tx[d].student, tx[d].group)
      BY <2>1, <2>5 DEF EnrollmentTaker, enrollment!Seat
    <3> QED
      BY <2>5, <3>1 DEF EnrollmentInv, EnrollmentSeats, EnrollmentTaker
  <2> QED
    BY <2>3, <2>4, <2>5 DEF EnrollmentSeats, enrollment!SeatOf, enrollment!Seat, EnrollmentTaker
<1>15. EnrollmentBilled'
  <2> SUFFICES ASSUME NEW g \in listed, NEW k \in DOMAIN rows', rows'[k].group = g, rows'[k].status = "ACTIVE"
               PROVE  \/ enrollment!SeatOf(rows'[k]) \in charges' \cup missed'
                      \/ run # enrollment!NoRun /\ g \in run.groups /\ enrollment!SeatOf(rows'[k]) \in run.todo
    BY <1>1 DEF EnrollmentBilled, enrollment!Seated, enrollment!SeatOf, enrollment!Seat, enrollment!NoRun
  <2>1. CASE k \in DOMAIN rows
    <3>1. k \in enrollment!Seated(g)
      BY <1>10, <2>1 DEF enrollment!Seated
    <3>2. enrollment!SeatOf(rows'[k]) = enrollment!SeatOf(rows[k])
      BY <1>10, <2>1
    <3> QED
      BY <1>1, <3>1, <3>2 DEF EnrollmentInv, EnrollmentBilled
  <2>2. CASE k = n
    BY <1>1, <1>2, <1>4, <1>7, <2>2
  <2> QED
    BY <1>8, <2>1, <2>2
<1>16. EnrollmentFits'
  <2> SUFFICES ASSUME NEW g \in StudyGroup, Capacity[g] # 0
               PROVE  Cardinality(EnrollmentUnwarned(g)') + Cardinality(EnrollmentPending(g)')
                        <= Capacity[g] + Cardinality(Worker) - 1
    BY DEF EnrollmentFits, EnrollmentUnwarned, EnrollmentPending
  <2>1. /\ IsFiniteSet(EnrollmentUnwarned(g)) /\ Cardinality(EnrollmentUnwarned(g)) \in Nat
        /\ IsFiniteSet(EnrollmentPending(g)) /\ Cardinality(EnrollmentPending(g)) \in Nat
        /\ Cardinality(Worker) \in Nat /\ Capacity[g] \in Nat
        /\ EnrollmentPending(g)' = EnrollmentPending(g) \ {c}
    BY <1>11, EnrollmentRows, EnrollmentPendings DEF enrollment!EnrollmentAssumption
  <2>2. Cardinality(EnrollmentUnwarned(g)) + Cardinality(EnrollmentPending(g))
          <= Capacity[g] + Cardinality(Worker) - 1
    BY DEF EnrollmentInv, EnrollmentFits
  <2>3. /\ Cardinality(EnrollmentPending(g)') \in Nat
        /\ Cardinality(EnrollmentPending(g)')
             = IF c \in EnrollmentPending(g) THEN Cardinality(EnrollmentPending(g)) - 1
               ELSE Cardinality(EnrollmentPending(g))
    BY <2>1, FS_RemoveElement, FS_CardinalityType
  <2>4. CASE t.group = g /\ ~t.warned
    <3>1. c \in EnrollmentPending(g)
      BY <1>1, <2>4 DEF EnrollmentPending, t
    <3>2. EnrollmentUnwarned(g)' \in SUBSET (EnrollmentUnwarned(g) \cup {n})
      BY <1>8, <1>10 DEF EnrollmentUnwarned
    <3>3. /\ IsFiniteSet(EnrollmentUnwarned(g) \cup {n})
          /\ Cardinality(EnrollmentUnwarned(g) \cup {n}) \in Nat
          /\ Cardinality(EnrollmentUnwarned(g) \cup {n}) <= Cardinality(EnrollmentUnwarned(g)) + 1
      <4> HIDE DEF EnrollmentUnwarned
      <4>1. /\ IsFiniteSet(EnrollmentUnwarned(g) \cup {n})
            /\ \/ Cardinality(EnrollmentUnwarned(g) \cup {n}) = Cardinality(EnrollmentUnwarned(g))
               \/ Cardinality(EnrollmentUnwarned(g) \cup {n}) = Cardinality(EnrollmentUnwarned(g)) + 1
        BY <2>1, FS_AddElement, Zenon
      <4> QED
        BY <2>1, <4>1
    <3>4. /\ Cardinality(EnrollmentUnwarned(g)') \in Nat
          /\ Cardinality(EnrollmentUnwarned(g)') <= Cardinality(EnrollmentUnwarned(g) \cup {n})
      BY <3>2, <3>3, FS_Subset, FS_CardinalityType
    <3> QED
      BY <2>1, <2>2, <2>3, <3>1, <3>3, <3>4
  <2>5. CASE ~(t.group = g /\ ~t.warned)
    <3>1. EnrollmentUnwarned(g)' \in SUBSET EnrollmentUnwarned(g)
      <4> SUFFICES ASSUME NEW i \in DOMAIN rows', rows'[i].group = g, rows'[i].status = "ACTIVE", ~rows'[i].warned
                   PROVE  i \in EnrollmentUnwarned(g)
        BY DEF EnrollmentUnwarned
      <4>1. i # n
        BY <1>4, <1>7, <2>5, Zenon
      <4> QED
        BY <4>1, <1>8, <1>10 DEF EnrollmentUnwarned
    <3>2. /\ Cardinality(EnrollmentUnwarned(g)') \in Nat
          /\ Cardinality(EnrollmentUnwarned(g)') <= Cardinality(EnrollmentUnwarned(g))
      BY <2>1, <3>1, FS_Subset, FS_CardinalityType
    <3> QED
      BY <2>1, <2>2, <2>3, <3>2
  <2> QED
    BY <2>4, <2>5
<1> QED
  BY <1>11, <1>12, <1>14, <1>15, <1>16 DEF EnrollmentInv

-----------------------------------------------------------------------------

LEMMA EnrollmentStep ==
    ASSUME enrollment!EnrollmentAssumption, EnrollmentInv, [enrollment!Next]_(enrollment!vars)
    PROVE  EnrollmentInv'
<1>1. CASE UNCHANGED enrollment!vars
  <2>1. EnrollmentTyped'
    BY <1>1 DEF enrollment!vars, enrollment!history, EnrollmentInv, EnrollmentTyped, EnrollmentJob, enrollment!Idle,
                EnrollmentRun, EnrollmentSeat, enrollment!NoRun, enrollment!Offering, enrollment!Assignment
  <2>2. EnrollmentOld' /\ EnrollmentSeats'
    BY <1>1 DEF enrollment!vars, EnrollmentInv, EnrollmentOld, EnrollmentSeats, EnrollmentTaker, EnrollmentSteps,
                enrollment!Seat, enrollment!SeatOf
  <2>3. EnrollmentBilled' /\ EnrollmentFits'
    BY <1>1 DEF enrollment!vars, enrollment!history, EnrollmentInv, EnrollmentBilled, EnrollmentFits,
                EnrollmentUnwarned, EnrollmentPending, enrollment!Seated, enrollment!Seat, enrollment!SeatOf,
                enrollment!NoRun
  <2> QED
    BY <2>1, <2>2, <2>3 DEF EnrollmentInv
<1>2. ASSUME NEW asked \in {{g} : g \in StudyGroup} \cup {StudyGroup}, enrollment!List(asked)
      PROVE  EnrollmentInv'
  <2>1. asked \in SUBSET StudyGroup
    OBVIOUS
  <2> QED
    BY <1>2, <2>1, EnrollmentList
<1> QED
  BY <1>1, <1>2, EnrollmentAssign, EnrollmentReadToEnd, EnrollmentReadToMove, EnrollmentEnd, EnrollmentEndOld,
     EnrollmentAssignNew, EnrollmentInsert, EnrollmentCommit, EnrollmentCharge, EnrollmentRunEnds, Zenon
  DEF enrollment!Next

LEMMA EnrollmentInitially ==
    ASSUME enrollment!EnrollmentAssumption, enrollment!Init
    PROVE  EnrollmentInv
<1>1. /\ rows = <<>> /\ DOMAIN rows = {} /\ charges = {} /\ listed = {} /\ missed = {}
      /\ run = enrollment!NoRun /\ left \in SeatBudgets
      /\ tx = [c \in Worker |-> enrollment!Idle]
  BY DEF enrollment!Init
<1>2. EnrollmentTyped
  <2>1. left \in [requests : Nat, runs : Nat]
    BY <1>1 DEF enrollment!EnrollmentAssumption
  <2>2. rows \in Seq(enrollment!Assignment)
    BY <1>1, EmptySeq
  <2> QED
    BY <1>1, <2>1, <2>2 DEF EnrollmentTyped, EnrollmentJob, EnrollmentRun
<1>3. EnrollmentOld /\ EnrollmentSeats
  BY <1>1 DEF EnrollmentOld, EnrollmentSeats, EnrollmentTaker, EnrollmentSteps, enrollment!Idle
<1>4. EnrollmentBilled
  BY <1>1 DEF EnrollmentBilled
<1>5. EnrollmentFits
  <2> SUFFICES ASSUME NEW g \in StudyGroup, Capacity[g] # 0
               PROVE  Cardinality(EnrollmentUnwarned(g)) + Cardinality(EnrollmentPending(g))
                        <= Capacity[g] + Cardinality(Worker) - 1
    BY DEF EnrollmentFits
  <2>1. EnrollmentUnwarned(g) = {} /\ EnrollmentPending(g) = {}
    BY <1>1 DEF EnrollmentUnwarned, EnrollmentPending, enrollment!Idle
  <2>2. Capacity[g] \in Nat /\ Cardinality(Worker) \in Nat
    BY EnrollmentPendings DEF enrollment!EnrollmentAssumption
  <2> QED
    BY <2>1, <2>2, FS_EmptySet
<1> QED
  BY <1>2, <1>3, <1>4, <1>5 DEF EnrollmentInv

\* Enrollment: a seat whose month was generated is billed, unless it looked
\* for a charge too early, and beyond a group's capacity nobody is seated
\* without a warning but the requests that were served together.
THEOREM Seated ==
    ASSUME enrollment!EnrollmentAssumption
    PROVE  enrollment!Spec => []enrollment!EnrollmentHolds
<1>1. enrollment!Init => EnrollmentInv
  BY EnrollmentInitially
<1>2. EnrollmentInv /\ [enrollment!Next]_(enrollment!vars) => EnrollmentInv'
  BY EnrollmentStep
<1>3. EnrollmentInv => enrollment!EnrollmentHolds
  <2> SUFFICES ASSUME EnrollmentInv PROVE enrollment!EnrollmentHolds
    OBVIOUS
  <2>1. enrollment!TypeOK
    BY DEF EnrollmentInv, EnrollmentTyped, EnrollmentSeat, enrollment!TypeOK
  <2>2. enrollment!BilledOrRaced
    BY DEF EnrollmentInv, EnrollmentBilled, enrollment!BilledOrRaced
  <2>3. enrollment!UnwarnedFit
    <3> SUFFICES ASSUME NEW g \in StudyGroup, Capacity[g] # 0
                 PROVE  Cardinality({i \in enrollment!Seated(g) : ~rows[i].warned})
                          <= Capacity[g] + Cardinality(Worker) - 1
      BY EnrollmentSets, Zenon DEF enrollment!UnwarnedFit
    <3>1. {i \in enrollment!Seated(g) : ~rows[i].warned} = EnrollmentUnwarned(g)
      BY DEF enrollment!Seated, EnrollmentUnwarned
    <3>2. Cardinality(EnrollmentUnwarned(g)) + Cardinality(EnrollmentPending(g))
            <= Capacity[g] + Cardinality(Worker) - 1
      BY DEF EnrollmentInv, EnrollmentFits
    <3>3. /\ Cardinality(EnrollmentUnwarned(g)) \in Nat /\ Cardinality(EnrollmentPending(g)) \in Nat
          /\ Cardinality(Worker) \in Nat /\ Capacity[g] \in Nat
      BY EnrollmentRows, EnrollmentPendings DEF enrollment!EnrollmentAssumption
    <3>4. Cardinality({i \in enrollment!Seated(g) : ~rows[i].warned}) = Cardinality(EnrollmentUnwarned(g))
      BY <3>1, Zenon
    <3> HIDE DEF EnrollmentUnwarned, EnrollmentPending
    <3> QED
      BY <3>2, <3>3, <3>4
  <2> QED
    BY <2>1, <2>2, <2>3 DEF enrollment!EnrollmentHolds
<1> QED
  BY <1>1, <1>2, <1>3, PTL DEF enrollment!Spec

\* The rows a student sits in, of one offering.
EnrollmentHolders(seat) == {i \in DOMAIN rows : rows[i].status = "ACTIVE" /\ enrollment!SeatOf(rows[i]) = seat}

EnrollmentOneEach == \A seat : Cardinality(EnrollmentHolders(seat)) <= 1

LEMMA EnrollmentOneHolder == EnrollmentInv => EnrollmentOneEach
<1> SUFFICES ASSUME EnrollmentInv, NEW seat
             PROVE  Cardinality(EnrollmentHolders(seat)) <= 1
  BY DEF EnrollmentOneEach
<1>1. CASE EnrollmentHolders(seat) = {}
  BY <1>1, FS_EmptySet
<1>2. CASE EnrollmentHolders(seat) # {}
  <2>1. PICK i : i \in EnrollmentHolders(seat)
    BY <1>2
  <2>2. EnrollmentHolders(seat) = {i}
    BY <2>1 DEF EnrollmentHolders, EnrollmentInv, EnrollmentSeats
  <2> QED
    BY <2>2, FS_Singleton
<1> QED
  BY <1>1, <1>2

\* A row's seat goes when the row is ended: a transfer puts another there.
LEMMA EnrollmentLoses ==
    ASSUME EnrollmentInv, [enrollment!Next]_(enrollment!vars), NEW seat,
           EnrollmentHolders(seat) # {}, EnrollmentHolders(seat)' = {}
    PROVE  \E c \in Worker : tx[c].step = "ending" /\ tx[c].old \in EnrollmentHolders(seat)
<1>1. PICK k \in DOMAIN rows : rows[k].status = "ACTIVE" /\ enrollment!SeatOf(rows[k]) = seat
  BY DEF EnrollmentHolders
<1>2. \A k2 \in DOMAIN rows' :
         ~(rows'[k2].status = "ACTIVE" /\ enrollment!Seat(rows'[k2].student, rows'[k2].group) = seat)
  BY DEF EnrollmentHolders, enrollment!SeatOf, enrollment!Seat
<1>3. rows' # rows
  BY <1>1, <1>2 DEF enrollment!SeatOf
<1>4. (\E c \in Worker : enrollment!End(c)) \/ (\E c \in Worker : enrollment!Commit(c))
  BY <1>3 DEF enrollment!Next, enrollment!vars, enrollment!Assign, enrollment!ReadToEnd, enrollment!ReadToMove,
              enrollment!EndOld, enrollment!AssignNew, enrollment!Insert, enrollment!List, enrollment!Charge,
              enrollment!Finish, enrollment!Fail
<1>5. ASSUME NEW c \in Worker, enrollment!End(c)
      PROVE  tx[c].step = "ending" /\ tx[c].old \in EnrollmentHolders(seat)
  <2>1. tx[c].step = "ending" /\ rows' = [rows EXCEPT ![tx[c].old].status = "ENDED"]
    BY <1>5 DEF enrollment!End
  <2>2. CASE tx[c].old = k
    BY <1>1, <2>1, <2>2 DEF EnrollmentHolders
  <2>3. CASE tx[c].old # k
    <3>1. rows'[k] = rows[k] /\ k \in DOMAIN rows'
      BY <1>1, <2>1, <2>3
    <3> QED
      BY <1>1, <1>2, <3>1 DEF enrollment!SeatOf
  <2> QED
    BY <2>2, <2>3
<1>6. ASSUME NEW c \in Worker, enrollment!Commit(c)
      PROVE  FALSE
  <2>1. /\ DOMAIN rows' = DOMAIN rows \cup {Len(rows) + 1}
        /\ rows'[Len(rows) + 1].status = "ACTIVE"
        /\ enrollment!SeatOf(rows'[Len(rows) + 1]) = enrollment!Seat(tx[c].student, tx[c].group)
        /\ tx[c].old # 0 => enrollment!SeatOf(rows[tx[c].old]) = enrollment!Seat(tx[c].student, tx[c].group)
        /\ EnrollmentKept(rows', tx[c].old, "TRANSFERRED")
    BY <1>6, EnrollmentAdds, Zenon
  <2>2. CASE tx[c].old = k
    <3>1. k # 0
      BY <1>1, EnrollmentRows
    <3> QED
      BY <1>1, <1>2, <2>1, <2>2, <3>1 DEF enrollment!SeatOf
  <2>3. CASE tx[c].old # k
    BY <1>1, <1>2, <2>1, <2>3 DEF enrollment!SeatOf, EnrollmentKept
  <2> QED
    BY <2>2, <2>3
<1> QED
  BY <1>4, <1>5, <1>6

\* Enrollment: in every step a student has at most one seat in an offering,
\* and loses it to an ending only, whatever transfers are refused.
THEOREM SeatsDecided ==
    ASSUME enrollment!EnrollmentAssumption
    PROVE  enrollment!Spec => [][enrollment!SeatsAreKept]_(enrollment!vars)
<1>1. enrollment!Init => EnrollmentInv
  BY EnrollmentInitially
<1>2. EnrollmentInv /\ [enrollment!Next]_(enrollment!vars) => EnrollmentInv'
  BY EnrollmentStep
<1>3. EnrollmentInv /\ EnrollmentInv' /\ [enrollment!Next]_(enrollment!vars) => enrollment!SeatsAreKept
  <2> SUFFICES ASSUME EnrollmentInv, EnrollmentInv', [enrollment!Next]_(enrollment!vars)
               PROVE  enrollment!SeatsAreKept
    OBVIOUS
  <2>1. \A seat : Cardinality(EnrollmentHolders(seat)') <= 1
    <3>1. EnrollmentOneEach'
      BY EnrollmentOneHolder, PTL
    <3> QED
      BY <3>1 DEF EnrollmentOneEach
  <2>2. \A seat : EnrollmentHolders(seat)'
                    = {i \in DOMAIN rows' : rows'[i].status = "ACTIVE" /\ enrollment!SeatOf(rows'[i]) = seat}
    BY DEF EnrollmentHolders, enrollment!SeatOf, enrollment!Seat
  <2>3. \A seat : EnrollmentHolders(seat) # {} /\ EnrollmentHolders(seat)' = {} =>
                    \E c \in Worker : tx[c].step = "ending" /\ tx[c].old \in EnrollmentHolders(seat)
    BY EnrollmentLoses
  <2> QED
    BY <2>1, <2>2, <2>3, EnrollmentSets, Zenon DEF enrollment!SeatsAreKept, EnrollmentHolders
<1> QED
  BY <1>1, <1>2, <1>3, PTL DEF enrollment!Spec

-----------------------------------------------------------------------------
(* The center *)

\* In its scene a component does its own steps, and a scene does not end.
LEMMA ScenesLast ==
    CenterSpec => /\ [](scene = "access") \/ [](scene # "access")
                  /\ [](scene = "enrollment") \/ [](scene # "enrollment")
                  /\ [](scene = "accounts") \/ [](scene # "accounts")
                  /\ [](scene = "records") \/ [](scene # "records")
                  /\ [](scene = "academics") \/ [](scene # "academics")
                  /\ [](scene = "settings") \/ [](scene # "settings")
                  /\ [](scene = "gates") \/ [](scene # "gates")
                  /\ [](scene = "scope") \/ [](scene # "scope")
<1>1. [CenterNext]_allVars =>
         /\ scene = "access" <=> (scene = "access")'
         /\ scene = "enrollment" <=> (scene = "enrollment")'
         /\ scene = "accounts" <=> (scene = "accounts")'
         /\ scene = "records" <=> (scene = "records")'
         /\ scene = "academics" <=> (scene = "academics")'
         /\ scene = "settings" <=> (scene = "settings")'
         /\ scene = "gates" <=> (scene = "gates")'
         /\ scene = "scope" <=> (scene = "scope")'
  BY DEF CenterNext, allVars
<1>2. /\ scene # "access" <=> ~(scene = "access")
      /\ scene # "enrollment" <=> ~(scene = "enrollment")
      /\ scene # "accounts" <=> ~(scene = "accounts")
      /\ scene # "records" <=> ~(scene = "records")
      /\ scene # "academics" <=> ~(scene = "academics")
      /\ scene # "settings" <=> ~(scene = "settings")
      /\ scene # "gates" <=> ~(scene = "gates")
      /\ scene # "scope" <=> ~(scene = "scope")
  OBVIOUS
<1> QED
  BY <1>1, <1>2, PTL DEF CenterSpec

LEMMA AccessScene == CenterSpec /\ [](scene = "access") => access!Spec
<1>1. CenterInit /\ scene = "access" => access!Init
  BY DEF CenterInit
<1>2. scene = "access" /\ [CenterNext]_allVars => [access!Next]_(access!vars)
  BY DEF CenterNext, allVars, accessVars, access!vars
<1> QED
  BY <1>1, <1>2, PTL DEF CenterSpec, access!Spec

LEMMA EnrollmentScene == CenterSpec /\ [](scene = "enrollment") => enrollment!Spec
<1>1. CenterInit /\ scene = "enrollment" => enrollment!Init
  BY DEF CenterInit
<1>2. scene = "enrollment" /\ [CenterNext]_allVars => [enrollment!Next]_(enrollment!vars)
  BY DEF CenterNext, allVars, enrollmentVars, enrollment!vars, enrollment!history
<1> QED
  BY <1>1, <1>2, PTL DEF CenterSpec, enrollment!Spec

LEMMA AccountsScene == CenterSpec /\ [](scene = "accounts") => accounts!Spec
<1>1. CenterInit /\ scene = "accounts" => accounts!Init
  BY DEF CenterInit
<1>2. scene = "accounts" /\ [CenterNext]_allVars => [accounts!Next]_(accounts!vars)
  BY DEF CenterNext, allVars, accountsVars, accounts!vars
<1> QED
  BY <1>1, <1>2, PTL DEF CenterSpec, accounts!Spec

LEMMA RecordsScene == CenterSpec /\ [](scene = "records") => records!Spec
<1>1. CenterInit /\ scene = "records" => records!Init
  BY DEF CenterInit
<1>2. scene = "records" /\ [CenterNext]_allVars => [records!Next]_(records!vars)
  BY DEF CenterNext, allVars, recordsVars, records!vars
<1> QED
  BY <1>1, <1>2, PTL DEF CenterSpec, records!Spec

LEMMA AcademicsScene == CenterSpec /\ [](scene = "academics") => academics!Spec
<1>1. CenterInit /\ scene = "academics" => academics!Init
  BY DEF CenterInit
<1>2. scene = "academics" /\ [CenterNext]_allVars => [academics!Next]_(academics!vars)
  BY DEF CenterNext, allVars, academicsVars, academics!vars
<1> QED
  BY <1>1, <1>2, PTL DEF CenterSpec, academics!Spec

LEMMA SettingsScene == CenterSpec /\ [](scene = "settings") => settings!Spec
<1>1. CenterInit /\ scene = "settings" => settings!Init
  BY DEF CenterInit
<1>2. scene = "settings" /\ [CenterNext]_allVars => [settings!Next]_(settings!vars)
  BY DEF CenterNext, allVars, settingsVars, settings!vars
<1> QED
  BY <1>1, <1>2, PTL DEF CenterSpec, settings!Spec

LEMMA GatesScene == CenterSpec /\ [](scene = "gates") => gates!Spec
<1>1. CenterInit /\ scene = "gates" => gates!Init
  BY DEF CenterInit
<1>2. scene = "gates" /\ [CenterNext]_allVars => [gates!Next]_(gates!vars)
  BY DEF CenterNext, allVars, gatesVars, gates!vars
<1> QED
  BY <1>1, <1>2, PTL DEF CenterSpec, gates!Spec

LEMMA ScopeScene == CenterSpec /\ [](scene = "scope") => scope!Spec
<1>1. CenterInit /\ scene = "scope" => scope!Init
  BY DEF CenterInit
<1>2. scene = "scope" /\ [CenterNext]_allVars => [scope!Next]_(scope!vars)
  BY DEF CenterNext, allVars, scopeVars, scope!vars, scope!history
<1> QED
  BY <1>1, <1>2, PTL DEF CenterSpec, scope!Spec

\* What the scanner answers is what it recorded, and what it asks for leads on
\* (ScanGates), for any policies and any window.
THEOREM CenterScans == CenterSpec => []ScansHold
<1>1. gates!ScansHold \/ scene # "gates" => ScansHold
  BY DEF ScansHold
<1> QED
  BY <1>1, CenterAssumption, ScenesLast, GatesScene, Answered, PTL DEF CenterAssumption

\* The group of a user is that of the role (Accounts) and a policy is served as
\* it was saved (Settings), except where somebody was overtaken, for any
\* number of users, policies and requests.
THEOREM CenterServes == CenterSpec => []ServedHold
<1>1. (accounts!AccountsHold \/ scene # "accounts") /\ (settings!SettingsHold \/ scene # "settings") => ServedHold
  BY DEF ServedHold
<1> QED
  BY <1>1, CenterAssumption, ScenesLast, AccountsScene, SettingsScene, Memberships, Served, PTL
  DEF CenterAssumption

\* An operator's record stays with the operator (Access), and what a request
\* reads and saves is of the tenant in whose code it runs (TenantScope), for
\* any clients, threads and nesting of blocks.
THEOREM CenterPlaces == CenterSpec => []PlacesHold
<1>1. (access!AccessHolds \/ scene # "access") /\ (scope!ScopeHolds \/ scene # "scope") => PlacesHold
  BY DEF PlacesHold
<1> QED
  BY <1>1, CenterAssumption, ScenesLast, AccessScene, ScopeScene, Entered, Scoped, PTL
  DEF CenterAssumption

\* Seats are billed and overfull ones warned of (Enrollment), codes have no
\* gap (StudentRecords), and generated lessons are there (Academics), for any
\* number of clerks, students, groups and requests.
THEOREM CenterSeats == CenterSpec => []SeatsHold
<1>1. /\ enrollment!EnrollmentHolds \/ scene # "enrollment"
      /\ records!RecordsHold \/ scene # "records"
      /\ academics!AcademicsHold \/ scene # "academics"
      => SeatsHold
  BY DEF SeatsHold
<1> QED
  BY <1>1, CenterAssumption, ScenesLast, EnrollmentScene, RecordsScene, AcademicsScene, Seated, Codes, LessonsHeld, PTL
  DEF CenterAssumption

\* No step of a center undoes a decision about a seat, an account, a student
\* or a group but a decision, or an instance that was overtaken.
THEOREM CenterDecisions == CenterSpec => DecisionsStand
<1> DEFINE Decided ==
             CASE scene = "enrollment" -> enrollment!SeatsAreKept
               [] scene = "accounts" -> accounts!AccountsAreDecided
               [] scene = "records" -> records!RecordsAreDecided
               [] scene = "academics" -> academics!GroupsAreDecided
               [] OTHER -> TRUE
<1>1. /\ [enrollment!SeatsAreKept]_(enrollment!vars) \/ scene # "enrollment"
      /\ [accounts!AccountsAreDecided]_(accounts!vars) \/ scene # "accounts"
      /\ [records!RecordsAreDecided]_(records!vars) \/ scene # "records"
      /\ [academics!GroupsAreDecided]_(academics!vars) \/ scene # "academics"
      /\ [CenterNext]_allVars
      => [Decided]_allVars
  <2> SUFFICES ASSUME [enrollment!SeatsAreKept]_(enrollment!vars) \/ scene # "enrollment",
                      [accounts!AccountsAreDecided]_(accounts!vars) \/ scene # "accounts",
                      [records!RecordsAreDecided]_(records!vars) \/ scene # "records",
                      [academics!GroupsAreDecided]_(academics!vars) \/ scene # "academics",
                      CenterNext
               PROVE  Decided \/ UNCHANGED allVars
    OBVIOUS
  <2>1. scene \in {"access", "traffic", "enrollment", "accounts", "records", "academics", "settings", "gates",
                   "scope", "reports"} /\ UNCHANGED scene /\ OthersStay
    BY DEF CenterNext
  <2>2. CASE scene = "enrollment"
    <3>1. UNCHANGED enrollment!vars => UNCHANGED allVars
      BY <2>1, <2>2 DEF OthersStay, At, allVars, enrollmentVars, enrollment!vars, enrollment!history
    <3> QED
      BY <2>2, <3>1
  <2>3. CASE scene = "accounts"
    <3>1. UNCHANGED accounts!vars => UNCHANGED allVars
      BY <2>1, <2>3 DEF OthersStay, At, allVars, accountsVars, accounts!vars
    <3> QED
      BY <2>3, <3>1
  <2>4. CASE scene = "records"
    <3>1. UNCHANGED records!vars => UNCHANGED allVars
      BY <2>1, <2>4 DEF OthersStay, At, allVars, recordsVars, records!vars
    <3> QED
      BY <2>4, <3>1
  <2>5. CASE scene = "academics"
    <3>1. UNCHANGED academics!vars => UNCHANGED allVars
      BY <2>1, <2>5 DEF OthersStay, At, allVars, academicsVars, academics!vars
    <3> QED
      BY <2>5, <3>1
  <2> QED
    BY <2>1, <2>2, <2>3, <2>4, <2>5
<1> QED
  BY <1>1, CenterAssumption, ScenesLast, EnrollmentScene, AccountsScene, RecordsScene, AcademicsScene,
     SeatsDecided, AccountsDecided, RecordsDecided, GroupsDecided, PTL
  DEF CenterAssumption, CenterSpec, DecisionsStand
=============================================================================
