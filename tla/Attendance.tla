----------------------------- MODULE Attendance -----------------------------
(***************************************************************************)
(* Attendance in one lesson, on the server: scans, manual entries and      *)
(* corrections (apps/attendance/services.py), the lesson's own lifecycle   *)
(* and the cached snapshot scans consult (apps/lessons/services.py).       *)
(*                                                                         *)
(* A scan reads the lesson's status from the cache, decides, writes the    *)
(* attendance row in one transaction and logs its answer in another, under *)
(* the idempotency key of the request.  Completing a lesson changes its    *)
(* status and sweeps its rows in one transaction, which drops the cached   *)
(* snapshot before it commits.  The API reads lessons and attendance rows  *)
(* with get_object_or_404 before the service opens its transaction, so     *)
(* services decide on instances that may be stale.                         *)
(***************************************************************************)
EXTENDS Integers, FiniteSets, Sequences

CONSTANTS
    Student,
    Roster,          \* students with an active assignment to the lesson's group
    Worker,          \* request handlers
    Key,             \* idempotency keys of scan requests
    ScanStudent,     \* whose card the request with a key carries
    ScanIntent,      \* what it asks for: "AUTO" or "CHECK_OUT"
    Cache,           \* one shared Redis, or one LocMem per process
    CacheOf,         \* the cache each worker talks to
    Operation,       \* which operations this deployment exercises
    LateAfter,       \* lesson.late_after
    MinGap,          \* the larger of the duplicate window and the check-out gap
    PartialMinutes,  \* attendance.partial_min_duration_minutes
    AutoCheckout,    \* attendance.auto_checkout_at_lesson_end
    Materialize,     \* attendance.materialize_absences
    AdjustTime,      \* times a correction may name
    AdjustStatus,    \* statuses a correction may name
    MaxTime,         \* bound: the clock stops here
    MaxRequests      \* bound: requests ever received

RowOperation == {"ADJUST", "CHECKOUT", "CANCEL"}

LessonOperation == {"OPEN", "COMPLETE", "CANCEL_LESSON"}

ASSUME AttendanceAssumption ==
    /\ Roster \subseteq Student
    /\ ScanStudent \in [Key -> Student]
    /\ ScanIntent \in [Key -> {"AUTO", "CHECK_OUT"}]
    /\ CacheOf \in [Worker -> Cache]
    /\ Operation \subseteq {"SCAN", "CRASH", "MANUAL"} \cup RowOperation \cup LessonOperation
    /\ LateAfter \in Nat /\ MinGap \in Nat /\ PartialMinutes \in Nat
    /\ AutoCheckout \in BOOLEAN /\ Materialize \in BOOLEAN
    /\ AdjustTime \subseteq Nat
    /\ AdjustStatus \subseteq {"PRESENT", "LATE", "PARTIAL", "ABSENT"}
    /\ MaxTime \in Nat /\ MaxRequests \in Nat

VARIABLES
    lesson,    \* lesson.status in the table
    cached,    \* the status in each cached snapshot of the lesson
    rows,      \* the table attendance_attendance, one row per student
    answers,   \* the events that carry an idempotency key: what was answered
    pc,        \* where each handler stands
    job,       \* what each handler is doing, with what it has read
    now,       \* the clock
    requests,  \* how many requests were received
    applied    \* history: when the scans of a key that changed a row were admitted

vars == <<lesson, cached, rows, answers, pc, job, now, requests, applied>>

-----------------------------------------------------------------------------
(* Rows *)

LessonStatus == {"SCHEDULED", "OPEN", "COMPLETED", "CANCELLED"}

NoSnapshot == "NO SNAPSHOT"

AttendanceState == {"NOT_ATTENDED", "CHECKED_IN", "CHECKED_OUT", "ABSENT", "CANCELLED"}

AttendanceStatus == {"NONE", "PRESENT", "LATE", "PARTIAL", "ABSENT", "CANCELLED"}

NoTime == -1

Time == Nat \cup {NoTime}

Attendance ==
    [state : AttendanceState, status : AttendanceStatus, check_in : Time, check_out : Time,
     scan_source : {"HID", "MANUAL", "SYSTEM"}]

\* A student without a row.
NoRow ==
    [state |-> "NOT_ATTENDED", status |-> "NONE", check_in |-> NoTime, check_out |-> NoTime,
     scan_source |-> "SYSTEM"]

Recorded(s) == rows[s].state # "NOT_ATTENDED"

\* ck_attendance_time_order and ck_attendance_state_requires_checkin.
SatisfiesChecks(row) ==
    /\ row.check_in # NoTime /\ row.check_out # NoTime => row.check_in <= row.check_out
    /\ row.state \in {"CHECKED_IN", "CHECKED_OUT"} => row.check_in # NoTime

\* The status of a check-in, and of a check-out given the one before.
StatusAt(t) == IF t > LateAfter THEN "LATE" ELSE "PRESENT"

StatusAfter(row, t) == IF t - row.check_in < PartialMinutes THEN "PARTIAL" ELSE row.status

CheckedIn(t, source) ==
    [state |-> "CHECKED_IN", status |-> StatusAt(t), check_in |-> t, check_out |-> NoTime,
     scan_source |-> source]

CheckedOut(row, t, source) ==
    [row EXCEPT !.state = "CHECKED_OUT", !.status = StatusAfter(row, t), !.check_out = t,
                !.scan_source = source]

AbsentRow ==
    [state |-> "ABSENT", status |-> "ABSENT", check_in |-> NoTime, check_out |-> NoTime,
     scan_source |-> "SYSTEM"]

-----------------------------------------------------------------------------
(* Handlers *)

Step ==
    {"idle", "received", "missed", "looked", "admitted", "written",  \* a scan
     "row", "half",                                                  \* a row's service
     "lesson", "saved", "swept"}                                     \* a lesson's service

Answer == {"CHECK_IN", "CHECK_OUT", "DUPLICATE", "CHECKED_OUT"}

NoAnswer == "NO ANSWER"

ScanJob ==
    [op : {"SCAN"}, key : Key, seen : LessonStatus, actual : LessonStatus, now : Nat,
     answer : Answer \cup {NoAnswer}]

RowJob == [op : RowOperation, student : Student, row : Attendance]

LessonJob == [op : LessonOperation, seen : LessonStatus, now : Nat, sweep : SUBSET Student]

NoJob == [op |-> "NONE"]

\* Mutants: the API reads a lesson FOR SHARE in the service's transaction;
\* the sweep selects its rows without FOR UPDATE.
LessonShared(w) == \E v \in Worker \ {w} : pc[v] \in {"lesson", "saved", "swept"}

RowsUnlocked(s) == FALSE

\* An UPDATE of a lesson holds its row, for others, until its transaction
\* ends; the sweep holds the attendance rows it selected FOR UPDATE.
LessonLocked(w) == \E v \in Worker \ {w} : pc[v] \in {"saved", "swept"}

RowLocked(s) == \E w \in Worker : pc[w] = "swept" /\ s \in job[w].sweep

Init ==
    /\ lesson = "SCHEDULED"
    /\ cached = [c \in Cache |-> NoSnapshot]
    /\ rows = [s \in Student |-> NoRow]
    /\ answers = [k \in Key |-> NoAnswer]
    /\ pc = [w \in Worker |-> "idle"]
    /\ job = [w \in Worker |-> NoJob]
    /\ now = 0
    /\ requests = 0
    /\ applied = [k \in Key |-> <<>>]

\* A request arrives at an idle handler, which starts with this job.
Receive(w, step, what) ==
    /\ pc[w] = "idle"
    /\ requests < MaxRequests
    /\ requests' = requests + 1
    /\ pc' = [pc EXCEPT ![w] = step]
    /\ job' = [job EXCEPT ![w] = what]

\* The handler goes on, or answers and forgets its request.
Goto(w, step, what) ==
    /\ pc' = [pc EXCEPT ![w] = step]
    /\ job' = [job EXCEPT ![w] = what]
    /\ UNCHANGED requests

Finish(w) == Goto(w, "idle", NoJob)

-----------------------------------------------------------------------------
(* A scan *)

\* A retry whose key was answered gets that answer again, and nothing else
\* happens.
ScanReplay(k) ==
    /\ "SCAN" \in Operation
    /\ requests < MaxRequests
    /\ answers[k] # NoAnswer
    /\ requests' = requests + 1
    /\ UNCHANGED <<lesson, cached, rows, answers, pc, job, now, applied>>

ScanReceive(w, k) ==
    /\ "SCAN" \in Operation
    /\ answers[k] = NoAnswer
    /\ Receive(w, "received", [op |-> "SCAN", key |-> k, seen |-> "SCHEDULED",
                               actual |-> lesson, now |-> 0, answer |-> NoAnswer])
    /\ UNCHANGED <<lesson, cached, rows, answers, now, applied>>

\* lesson_snapshot: the cached status, or the one in the table.
ReadSnapshot(w) ==
    LET snapshot == cached[CacheOf[w]]
        hit == snapshot # NoSnapshot
        seen == IF hit THEN snapshot ELSE lesson
    IN  /\ pc[w] = "received"
        /\ Goto(w, IF hit THEN "looked" ELSE "missed",
                [job[w] EXCEPT !.seen = seen, !.actual = lesson])
        /\ UNCHANGED <<lesson, cached, rows, answers, now, applied>>

FillCache(w) ==
    /\ pc[w] = "missed"
    /\ cached' = [cached EXCEPT ![CacheOf[w]] = job[w].seen]
    /\ Goto(w, "looked", job[w])
    /\ UNCHANGED <<lesson, rows, answers, now, applied>>

\* The lesson is not open, or another gate (card, student, window,
\* eligibility, payment) refuses: the DENIED event carries no key.
ScanRefused(w) ==
    /\ pc[w] = "looked"
    /\ Finish(w)
    /\ UNCHANGED <<lesson, cached, rows, answers, now, applied>>

ScanAdmit(w) ==
    /\ pc[w] = "looked"
    /\ job[w].seen = "OPEN"
    /\ Goto(w, "admitted", [job[w] EXCEPT !.now = now])
    /\ UNCHANGED <<lesson, cached, rows, answers, now, applied>>

Scanned(w) == ScanStudent[job[w].key]

\* _write_attendance, once get_or_create or SELECT ... FOR UPDATE has the row.
Writing(w) ==
    /\ pc[w] = "admitted"
    /\ ~RowLocked(Scanned(w))
    /\ UNCHANGED <<lesson, cached, answers, now>>

\* The scan commits this row, then has this answer to log.
WriteRow(w, row, answer) ==
    /\ rows' = [rows EXCEPT ![Scanned(w)] = row]
    /\ applied' = [applied EXCEPT ![job[w].key] = Append(@, job[w].now)]
    /\ Goto(w, "written", [job[w] EXCEPT !.answer = answer])

ScanCheckIn(w) ==
    /\ Writing(w)
    /\ ScanIntent[job[w].key] = "AUTO"
    /\ ~Recorded(Scanned(w))
    /\ WriteRow(w, CheckedIn(job[w].now, "HID"), "CHECK_IN")

\* Mutant: the status stays ABSENT.
CorrectStateOnly(w) ==
    LET s == Scanned(w)
    IN  /\ Writing(w)
        /\ ScanIntent[job[w].key] = "AUTO"
        /\ rows[s].state = "ABSENT"
        /\ WriteRow(w, [CheckedIn(job[w].now, "HID") EXCEPT !.status = rows[s].status,
                                                            !.check_out = rows[s].check_out], "CHECK_IN")

\* A materialised absence corrected by a real scan.
ScanCorrectsAbsence(w) ==
    LET s == Scanned(w)
        row == [CheckedIn(job[w].now, "HID") EXCEPT !.check_out = rows[s].check_out]
    IN  /\ Writing(w)
        /\ ScanIntent[job[w].key] = "AUTO"
        /\ rows[s].state = "ABSENT"
        /\ SatisfiesChecks(row)
        /\ WriteRow(w, row, "CHECK_IN")

Elapsed(w) == job[w].now - rows[Scanned(w)].check_in

\* Mutant: any second scan checks out.
NoGap(w) == TRUE

\* Beyond the duplicate window and the least time between in and out.
GapPassed(w) == Elapsed(w) >= MinGap

ScanCheckOut(w) ==
    LET row == rows[Scanned(w)]
    IN  /\ Writing(w)
        /\ row.state = "CHECKED_IN"
        /\ GapPassed(w)
        /\ WriteRow(w, CheckedOut(row, job[w].now, row.scan_source), "CHECK_OUT")

\* WARN_DUPLICATE and WARN_ALREADY_CHECKED_OUT: an answer without a write.
ScanChangesNothing(w) ==
    LET row == rows[Scanned(w)]
        duplicate == row.state = "CHECKED_IN" /\ ~GapPassed(w)
    IN  /\ Writing(w)
        /\ duplicate \/ row.state = "CHECKED_OUT"
        /\ Goto(w, "written", [job[w] EXCEPT !.answer =
                                   IF duplicate THEN "DUPLICATE" ELSE "CHECKED_OUT"])
        /\ UNCHANGED <<rows, applied>>

\* ERR_ATTENDANCE_CANCELLED, ERR_NOT_CHECKED_IN, or a row the CHECKs forbid.
ScanDenied(w) ==
    LET row == rows[Scanned(w)]
        clash == row.check_out # NoTime /\ row.check_out < job[w].now
    IN  /\ Writing(w)
        /\ \/ row.state = "CANCELLED"
           \/ ScanIntent[job[w].key] = "CHECK_OUT" /\ row.state \in {"NOT_ATTENDED", "ABSENT"}
           \/ ScanIntent[job[w].key] = "AUTO" /\ row.state = "ABSENT" /\ clash
        /\ Finish(w)
        /\ UNCHANGED <<rows, applied>>

\* _log_event, after the row's transaction: when another request with this
\* key was logged meanwhile the unique key refuses the event and the request
\* ends in an error.
ScanLog(w) ==
    /\ pc[w] = "written"
    /\ answers' = [answers EXCEPT ![job[w].key] = IF @ = NoAnswer THEN job[w].answer ELSE @]
    /\ Finish(w)
    /\ UNCHANGED <<lesson, cached, rows, now, applied>>

-----------------------------------------------------------------------------
(* Manual entries and corrections *)

\* manual_create: get_or_create in one transaction, whatever the lesson's
\* status.  A row that exists is ERR_ALREADY_RECORDED and stays as it is.
ManualCreate(s) ==
    /\ "MANUAL" \in Operation
    /\ requests < MaxRequests
    /\ ~Recorded(s)
    /\ rows' = [rows EXCEPT ![s] = CheckedIn(now, "MANUAL")]
    /\ requests' = requests + 1
    /\ UNCHANGED <<lesson, cached, answers, pc, job, now, applied>>

\* get_object_or_404(Attendance) before a correction, a check-out by hand
\* (which refuses a row that is not checked in) or a cancellation.
FetchRow(w, op, s) ==
    /\ op \in Operation \cap RowOperation
    /\ Recorded(s)
    /\ op = "CHECKOUT" => rows[s].state = "CHECKED_IN"
    /\ Receive(w, "row", [op |-> op, student |-> s, row |-> rows[s]])
    /\ UNCHANGED <<lesson, cached, rows, answers, now, applied>>

\* A row's service is at this step of this operation and has the row's lock.
Serving(w, step, op) ==
    /\ pc[w] = step
    /\ job[w].op = op
    /\ ~RowLocked(job[w].student)
    /\ UNCHANGED <<lesson, cached, answers, now, applied>>

\* attendance.save() of manual_adjust: every field of the instance.
Saved(w, row, step) ==
    IF SatisfiesChecks(row)
    THEN /\ rows' = [rows EXCEPT ![job[w].student] = row]
         /\ IF step = "idle" THEN Finish(w) ELSE Goto(w, step, job[w])
    ELSE UNCHANGED rows /\ Finish(w)

\* manual_adjust: an absence that is given an arrival becomes a check-in.
Adjust(w, check_in, check_out, status) ==
    LET edited == [job[w].row EXCEPT !.check_in = check_in, !.check_out = check_out, !.status = status]
        arrived == edited.state = "ABSENT" /\ check_in # NoTime
    IN  /\ Serving(w, "row", "ADJUST")
        /\ Saved(w, IF arrived THEN [edited EXCEPT !.state = "CHECKED_IN"] ELSE edited, "idle")

\* checkout: manual_adjust with a check-out time first ...
Checkout(w) ==
    /\ Serving(w, "row", "CHECKOUT")
    /\ Saved(w, [job[w].row EXCEPT !.check_out = now], "half")

\* ... and then, in a save of its own, the state.
CheckoutState(w) ==
    /\ Serving(w, "half", "CHECKOUT")
    /\ Saved(w, [rows[job[w].student] EXCEPT !.state = "CHECKED_OUT"], "idle")

\* cancel_attendance: save(update_fields=["state", "status", ...]).
CancelAttendance(w) ==
    /\ Serving(w, "row", "CANCEL")
    /\ rows' = [rows EXCEPT ![job[w].student].state = "CANCELLED",
                            ![job[w].student].status = "CANCELLED"]
    /\ Finish(w)

-----------------------------------------------------------------------------
(* The lesson *)

\* get_object_or_404(Lesson) before open, complete and cancel.
FetchLesson(w, op) ==
    /\ op \in Operation \cap LessonOperation
    /\ Receive(w, "lesson", [op |-> op, seen |-> lesson, now |-> 0, sweep |-> {}])
    /\ UNCHANGED <<lesson, cached, rows, answers, now, applied>>

\* The checks of open_lesson, complete_lesson and cancel_lesson, on the
\* instance.  Opening an open lesson and completing a completed one are
\* answered without a change.
Allowed(op, seen) ==
    CASE op = "OPEN" -> seen = "SCHEDULED"
      [] op = "COMPLETE" -> seen = "OPEN"
      [] op = "CANCEL_LESSON" -> seen # "COMPLETED"

Target(op) ==
    CASE op = "OPEN" -> "OPEN" [] op = "COMPLETE" -> "COMPLETED" [] op = "CANCEL_LESSON" -> "CANCELLED"

\* lesson.save(update_fields=["status", ...]) and invalidate_lesson_cache:
\* the new status is not visible before the commit, the cache is dropped now.
SaveLesson(w) ==
    /\ pc[w] = "lesson"
    /\ Allowed(job[w].op, job[w].seen)
    /\ ~LessonLocked(w)
    /\ cached' = [cached EXCEPT ![CacheOf[w]] = NoSnapshot]
    /\ Goto(w, "saved", [job[w] EXCEPT !.now = now])
    /\ UNCHANGED <<lesson, rows, answers, now, applied>>

RefuseLesson(w) ==
    /\ pc[w] = "lesson"
    /\ ~Allowed(job[w].op, job[w].seen)
    /\ Finish(w)
    /\ UNCHANGED <<lesson, cached, rows, answers, now, applied>>

Dangling == {s \in Student : AutoCheckout /\ rows[s].state = "CHECKED_IN"}

\* finalize_lesson selects the rows still checked in FOR UPDATE.
SweepRows(w) ==
    /\ pc[w] = "saved"
    /\ job[w].op = "COMPLETE"
    /\ Goto(w, "swept", [job[w] EXCEPT !.sweep = Dangling])
    /\ UNCHANGED <<lesson, cached, rows, answers, now, applied>>

\* Mutant: no absences when nobody had to be checked out.
MissingIfSwept(w) == {s \in Roster : Materialize /\ job[w].sweep # {} /\ ~Recorded(s)}

\* A check-in is closed at the lesson's end, or when it was made if later.
Close(row, end) ==
    CheckedOut(row, IF end < row.check_in THEN row.check_in ELSE end, "SYSTEM")

\* Roster students without a row, at bulk_create(ignore_conflicts).
Missing(w) == {s \in Roster : Materialize /\ ~Recorded(s)}

\* The commit of complete_lesson makes the sweep and the status visible.
CommitCompletion(w) ==
    /\ pc[w] = "swept"
    /\ lesson' = "COMPLETED"
    /\ rows' = [s \in Student |->
           IF s \in job[w].sweep THEN Close(rows[s], job[w].now)
           ELSE IF s \in Missing(w) THEN AbsentRow ELSE rows[s]]
    /\ Finish(w)
    /\ UNCHANGED <<cached, answers, now, applied>>

CommitLesson(w) ==
    /\ pc[w] = "saved"
    /\ job[w].op # "COMPLETE"
    /\ lesson' = Target(job[w].op)
    /\ Finish(w)
    /\ UNCHANGED <<cached, rows, answers, now, applied>>

-----------------------------------------------------------------------------
(* The environment *)

\* The worker dies: what it had not committed is rolled back.
Crash(w) ==
    /\ "CRASH" \in Operation
    /\ pc[w] # "idle"
    /\ Finish(w)
    /\ UNCHANGED <<lesson, cached, rows, answers, now, applied>>

\* Mutant: a snapshot without a time to live.
NeverExpires(c) == FALSE /\ UNCHANGED vars

\* LESSON_CACHE_TTL passes, or an edit of the lesson's notes drops it.
Expire(c) ==
    /\ cached[c] # NoSnapshot
    /\ cached' = [cached EXCEPT ![c] = NoSnapshot]
    /\ UNCHANGED <<lesson, rows, answers, pc, job, now, requests, applied>>

Tick ==
    /\ now < MaxTime
    /\ now' = now + 1
    /\ UNCHANGED <<lesson, cached, rows, answers, pc, job, requests, applied>>

-----------------------------------------------------------------------------
ScanStep(w) ==
    \/ ReadSnapshot(w)
    \/ FillCache(w)
    \/ ScanRefused(w)
    \/ ScanAdmit(w)
    \/ ScanCheckIn(w)
    \/ ScanCorrectsAbsence(w)
    \/ ScanCheckOut(w)
    \/ ScanChangesNothing(w)
    \/ ScanDenied(w)
    \/ ScanLog(w)

AdjustStep(w) ==
    \E check_in \in AdjustTime \cup {job[w].row.check_in},
       check_out \in AdjustTime \cup {job[w].row.check_out},
       status \in AdjustStatus \cup {job[w].row.status} : Adjust(w, check_in, check_out, status)

RowStep(w) ==
    \/ pc[w] = "row" /\ AdjustStep(w)
    \/ Checkout(w)
    \/ CheckoutState(w)
    \/ CancelAttendance(w)

LessonStep(w) ==
    \/ SaveLesson(w)
    \/ RefuseLesson(w)
    \/ SweepRows(w)
    \/ CommitCompletion(w)
    \/ CommitLesson(w)

\* A step of a handler that has received its request.
Serve(w) == ScanStep(w) \/ RowStep(w) \/ LessonStep(w)

Next ==
    \/ \E k \in Key : ScanReplay(k) \/ \E w \in Worker : ScanReceive(w, k)
    \/ \E s \in Student :
          \/ ManualCreate(s)
          \/ \E w \in Worker, op \in Operation : FetchRow(w, op, s)
    \/ \E w \in Worker :
          \/ \E op \in Operation : FetchLesson(w, op)
          \/ Serve(w)
          \/ Crash(w)
    \/ \E c \in Cache : Expire(c)
    \/ Tick

Spec == Init /\ [][Next]_vars

\* Handlers that were started go on, and a snapshot does not outlive its TTL.
Fairness ==
    /\ \A w \in Worker : WF_vars(Serve(w))
    /\ \A c \in Cache : WF_vars(Expire(c))

FairSpec == Spec /\ Fairness

-----------------------------------------------------------------------------
(* Properties *)

\* The tables, caches and handlers hold what their types say, and the rows
\* satisfy the CHECK constraints: neither a scan nor the sweep ever runs into
\* one (apps/attendance/models.py:181).
TypeOK ==
    /\ lesson \in LessonStatus
    /\ cached \in [Cache -> LessonStatus \cup {NoSnapshot}]
    /\ rows \in [Student -> Attendance]
    /\ \A s \in Student : SatisfiesChecks(rows[s])
    /\ answers \in [Key -> Answer \cup {NoAnswer}]
    /\ pc \in [Worker -> Step]
    /\ job \in [Worker -> ScanJob \cup RowJob \cup LessonJob \cup {NoJob}]
    /\ now \in Nat
    /\ requests \in Nat
    /\ applied \in [Key -> Seq(Nat)]

Lifecycle == INSTANCE AttendanceLifecycle WITH state <- [s \in Student |-> rows[s].state]

\* Concurrent scans, manual entries, cancellations and the sweep
\* move every student along the documented lifecycle only, although scans
\* decide on cached lessons and the sweep on rows selected earlier.
FollowsLifecycle == Lifecycle!Spec

\* A check-out that is not the system's own came at least the configured gap
\* after its check-in, whatever the order in which two scanners' requests
\* reached the row (services.py:444).
GapRespected ==
    \A s \in Student :
        rows[s].state = "CHECKED_OUT" /\ rows[s].scan_source # "SYSTEM" =>
            rows[s].check_out - rows[s].check_in >= MinGap

\* State, outcome and times of a row agree, whichever of the services that
\* write parts of it came last: docs/03-attendance-and-cards.md:49 derives
\* the outcome from the times, and a cancellation or an absence is one in
\* both fields.
StatusMatchesState ==
    \A s \in Student :
        LET row == rows[s]
        IN  /\ row.state = "CANCELLED" <=> row.status = "CANCELLED"
            /\ row.state = "ABSENT" <=> row.status = "ABSENT"
            /\ row.state = "CHECKED_IN" => row.status = StatusAt(row.check_in)
            /\ row.state = "CHECKED_OUT" =>
                  row.status = IF row.check_out - row.check_in < PartialMinutes
                               THEN "PARTIAL" ELSE StatusAt(row.check_in)

\* When the lesson shows as completed, every student of its roster has a
\* row: present, absent or cancelled (finalize_lesson materialises absences
\* before the status becomes visible).
EveryoneAccountedFor ==
    lesson = "COMPLETED" /\ Materialize => \A s \in Roster : Recorded(s)

\* However often a scan is retried with its key, at once or after a crash, it
\* changes the student's row once (docs/05-api-and-ui.md:178), unless a retry
\* that was never answered comes after the gap and checks the student out.
RetryAppliesOnce ==
    \A k \in Key : \A i, j \in DOMAIN applied[k] :
        i < j => applied[k][j] - applied[k][i] >= MinGap

\* A scan is not admitted on the snapshot of a lesson that was cancelled
\* when it was read: "a cancelled lesson can never keep accepting scans from
\* a stale cache" (apps/lessons/services.py:233).
CancelledAdmitsNoScan ==
    \A w \in Worker : pc[w] = "admitted" => job[w].actual # "CANCELLED"

\* Every request that was received is answered: scans and corrections that
\* wait for the sweep, and lessons' services that wait for each other.
EveryRequestEnds == \A w \in Worker : pc[w] # "idle" ~> pc[w] = "idle"

\* Once the lesson stops changing, no cache keeps telling another status.
CachesCatchUp == <>[](\A c \in Cache : cached[c] \in {NoSnapshot, lesson})

\* Every row is well formed, and its status is the one its state and its times
\* lead to: whatever the sweep, a scan and an operator wrote over each other.
RowsHold == TypeOK /\ StatusMatchesState
=============================================================================
