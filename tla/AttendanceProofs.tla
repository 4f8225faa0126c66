-------------------------- MODULE AttendanceProofs --------------------------
(***************************************************************************)
(* Theorems about Attendance, for any number of students, handlers, keys,  *)
(* caches and requests, and any settings of the lesson.                    *)
(***************************************************************************)
EXTENDS Attendance, SequenceTheorems, TLAPS

-----------------------------------------------------------------------------
(* Rows *)

\* The row of a new check-in.
LEMMA CheckedInRow ==
    ASSUME NEW t \in Nat, NEW source \in {"HID", "MANUAL"}
    PROVE  /\ CheckedIn(t, source) \in Attendance
           /\ SatisfiesChecks(CheckedIn(t, source))
           /\ CheckedIn(t, source).state = "CHECKED_IN"
           /\ CheckedIn(t, source).status = StatusAt(t)
           /\ CheckedIn(t, source).check_in = t
           /\ CheckedIn(t, source).check_out = NoTime
<1>1. StatusAt(t) \in AttendanceStatus
  BY DEF StatusAt, AttendanceStatus
<1>2. t \in Time /\ NoTime \in Time /\ t # NoTime
  BY DEF Time, NoTime
<1> QED
  BY <1>1, <1>2 DEF CheckedIn, Attendance, AttendanceState, SatisfiesChecks

\* The row of an absence that a scan corrects keeps its check-out.
LEMMA CorrectedRow ==
    ASSUME NEW t \in Nat, NEW check_out \in Time
    PROVE  LET row == [CheckedIn(t, "HID") EXCEPT !.check_out = check_out]
           IN  /\ row \in Attendance
               /\ row.state = "CHECKED_IN"
               /\ row.status = StatusAt(t)
               /\ row.check_in = t
BY CheckedInRow DEF Attendance

\* The row of a check-out that is not before its check-in.
LEMMA CheckedOutRow ==
    ASSUME NEW row \in Attendance, SatisfiesChecks(row), row.state = "CHECKED_IN",
           NEW t \in Nat, row.check_in <= t, NEW source \in {"HID", "MANUAL", "SYSTEM"}
    PROVE  /\ CheckedOut(row, t, source) \in Attendance
           /\ SatisfiesChecks(CheckedOut(row, t, source))
           /\ CheckedOut(row, t, source).state = "CHECKED_OUT"
           /\ CheckedOut(row, t, source).status = StatusAfter(row, t)
           /\ CheckedOut(row, t, source).check_in = row.check_in
           /\ CheckedOut(row, t, source).check_out = t
           /\ CheckedOut(row, t, source).scan_source = source
<1>1. StatusAfter(row, t) \in AttendanceStatus
  BY DEF StatusAfter, AttendanceStatus, Attendance
<1>2. t \in Time /\ row.check_in \in Nat
  BY DEF Time, NoTime, SatisfiesChecks, Attendance
<1> QED
  BY <1>1, <1>2 DEF CheckedOut, Attendance, AttendanceState, SatisfiesChecks

\* The row the sweep leaves of a check-in.
LEMMA ClosedRow ==
    ASSUME NEW row \in Attendance, SatisfiesChecks(row), row.state = "CHECKED_IN", NEW end \in Nat
    PROVE  /\ Close(row, end) \in Attendance
           /\ SatisfiesChecks(Close(row, end))
           /\ Close(row, end).state = "CHECKED_OUT"
           /\ Close(row, end).scan_source = "SYSTEM"
           /\ Close(row, end).check_in = row.check_in
           /\ Close(row, end).status = StatusAfter(row, Close(row, end).check_out)
<1> PICK t : t = IF end < row.check_in THEN row.check_in ELSE end
  OBVIOUS
<1>1. row.check_in \in Nat
  BY DEF Time, NoTime, SatisfiesChecks, Attendance
<1>2. t \in Nat /\ row.check_in <= t
  BY <1>1
<1>3. Close(row, end) = CheckedOut(row, t, "SYSTEM")
  BY DEF Close
<1> QED
  BY <1>2, <1>3, CheckedOutRow

LEMMA AbsentRowIs ==
    /\ AbsentRow \in Attendance
    /\ SatisfiesChecks(AbsentRow)
    /\ AbsentRow.state = "ABSENT" /\ AbsentRow.status = "ABSENT"
BY DEF AbsentRow, Attendance, AttendanceState, AttendanceStatus, Time, NoTime, SatisfiesChecks

-----------------------------------------------------------------------------
(* The invariant of all operations *)

Scanning == {"received", "missed", "looked", "admitted", "written"}

Editing == {"row", "half"}

Sweeping == {"saved", "swept"}

Jobs == ScanJob \cup RowJob \cup LessonJob \cup {NoJob}

\* What a handler may rely on at each step.  The rows it edits are recorded,
\* and nobody else writes the rows it selected for the sweep.
HandlerOK(w) ==
    /\ pc[w] \in Scanning => job[w] \in ScanJob
    /\ pc[w] = "written" => job[w].answer \in Answer
    /\ pc[w] \in Editing =>
          /\ job[w] \in RowJob
          /\ job[w].op \in Operation
          /\ job[w].row.state # "NOT_ATTENDED"
          /\ Recorded(job[w].student)
    /\ pc[w] \in {"lesson"} \cup Sweeping => job[w] \in LessonJob
    /\ pc[w] = "swept" => \A s \in job[w].sweep : rows[s].state = "CHECKED_IN"

\* The lesson's row lock admits one completion at a time.
OneSweep == \A v, w \in Worker : pc[v] \in Sweeping /\ pc[w] \in Sweeping => v = w

AttendanceInv ==
    /\ TypeOK
    /\ \A w \in Worker : HandlerOK(w)
    /\ OneSweep
    /\ EveryoneAccountedFor

LEMMA AttendanceInitially == Init => AttendanceInv
<1> SUFFICES ASSUME Init PROVE AttendanceInv
  OBVIOUS
<1>1. NoRow \in Attendance /\ SatisfiesChecks(NoRow)
  BY DEF NoRow, Attendance, AttendanceState, AttendanceStatus, Time, NoTime, SatisfiesChecks
<1>2. TypeOK
  BY <1>1, EmptySeq DEF Init, TypeOK, LessonStatus, Step
<1>3. \A w \in Worker : HandlerOK(w)
  BY DEF Init, HandlerOK, Scanning, Editing, Sweeping
<1> QED
  BY <1>2, <1>3 DEF Init, AttendanceInv, OneSweep, Sweeping, EveryoneAccountedFor

-----------------------------------------------------------------------------
(* What steps have in common *)

\* The rows after a step: well formed, and none of them vanishes.
RowsKept ==
    /\ rows' \in [Student -> Attendance]
    /\ \A s \in Student : SatisfiesChecks(rows'[s])
    /\ \A s \in Student : Recorded(s) => Recorded(s)'

\* The other columns of the state.
OthersTyped ==
    /\ cached' \in [Cache -> LessonStatus \cup {NoSnapshot}]
    /\ answers' \in [Key -> Answer \cup {NoAnswer}]
    /\ now' \in Nat
    /\ requests' \in Nat
    /\ applied' \in [Key -> Seq(Nat)]

\* A step of one handler that keeps the sweep of every other one.
LEMMA HandlerStep ==
    ASSUME AttendanceInv, NEW w \in Worker, NEW step \in Step, NEW what \in Jobs,
           pc' = [pc EXCEPT ![w] = step], job' = [job EXCEPT ![w] = what],
           HandlerOK(w)', step \in Sweeping => pc[w] \in Sweeping \/ ~LessonLocked(w),
           RowsKept, OthersTyped,
           \A v \in Worker \ {w} : pc[v] = "swept" => \A s \in job[v].sweep : rows'[s] = rows[s],
           lesson' = lesson \/ lesson' \in LessonStatus \ {"COMPLETED"}
             \/ (lesson' = "COMPLETED" /\ (Materialize => \A s \in Roster : Recorded(s)'))
    PROVE  AttendanceInv'
<1>1. /\ pc \in [Worker -> Step] /\ job \in [Worker -> Jobs] /\ lesson \in LessonStatus
      /\ \A v \in Worker : HandlerOK(v)
  BY DEF AttendanceInv, TypeOK, Jobs
<1>2. /\ pc' \in [Worker -> Step] /\ job' \in [Worker -> Jobs]
      /\ pc'[w] = step /\ job'[w] = what
      /\ \A v \in Worker \ {w} : pc'[v] = pc[v] /\ job'[v] = job[v]
  BY <1>1
<1>3. TypeOK'
  <2>1. lesson' \in LessonStatus
    BY <1>1 DEF LessonStatus
  <2> QED
    BY <1>2, <2>1 DEF TypeOK, RowsKept, OthersTyped, Jobs
<1>4. ASSUME NEW v \in Worker
      PROVE  HandlerOK(v)'
  <2>1. CASE v = w
    BY <2>1
  <2>2. CASE v # w
    <3>1. HandlerOK(v) /\ pc'[v] = pc[v] /\ job'[v] = job[v]
      BY <1>1, <1>2, <2>2
    <3>2. pc[v] = "swept" => \A s \in job[v].sweep : rows'[s].state = "CHECKED_IN"
      BY <2>2, <3>1 DEF HandlerOK
    <3>3. pc[v] \in Editing => Recorded(job[v].student)'
      BY <3>1 DEF HandlerOK, RowJob, RowsKept, Recorded
    <3> QED
      BY <3>1, <3>2, <3>3 DEF HandlerOK, Recorded
  <2> QED
    BY <2>1, <2>2
<1>5. OneSweep'
  <2> SUFFICES ASSUME NEW u \in Worker, NEW v \in Worker, pc'[u] \in Sweeping, pc'[v] \in Sweeping
               PROVE  u = v
    BY DEF OneSweep
  <2>1. ASSUME NEW x \in Worker, x # w, pc[x] \in Sweeping, step \in Sweeping
        PROVE  FALSE
    BY <2>1 DEF AttendanceInv, OneSweep, LessonLocked, Sweeping
  <2> QED
    BY <1>2, <2>1 DEF AttendanceInv, OneSweep
<1>6. EveryoneAccountedFor'
  <2>1. ASSUME NEW s \in Roster
        PROVE  s \in Student /\ (Recorded(s) => Recorded(s)')
    BY AttendanceAssumption DEF RowsKept
  <2> QED
    BY <2>1 DEF AttendanceInv, EveryoneAccountedFor
<1> QED
  BY <1>3, <1>4, <1>5, <1>6 DEF AttendanceInv

\* A step of no handler.
LEMMA OutsideStep ==
    ASSUME AttendanceInv, UNCHANGED <<pc, job, lesson>>, RowsKept, OthersTyped,
           \A v \in Worker : pc[v] = "swept" => \A s \in job[v].sweep : rows'[s] = rows[s]
    PROVE  AttendanceInv'
<1>1. TypeOK'
  BY DEF AttendanceInv, TypeOK, RowsKept, OthersTyped
<1>2. ASSUME NEW v \in Worker
      PROVE  HandlerOK(v)'
  <2>1. HandlerOK(v)
    BY DEF AttendanceInv
  <2>2. pc[v] \in Editing => Recorded(job[v].student)'
    BY <2>1 DEF HandlerOK, RowJob, RowsKept, Recorded
  <2>3. pc[v] = "swept" => \A s \in job[v].sweep : rows'[s].state = "CHECKED_IN"
    BY <2>1 DEF HandlerOK
  <2> QED
    BY <2>1, <2>2, <2>3 DEF HandlerOK, Recorded
<1>3. OneSweep'
  BY DEF AttendanceInv, OneSweep
<1>4. EveryoneAccountedFor'
  <2>1. ASSUME NEW s \in Roster
        PROVE  s \in Student /\ (Recorded(s) => Recorded(s)')
    BY AttendanceAssumption DEF RowsKept
  <2> QED
    BY <2>1 DEF AttendanceInv, EveryoneAccountedFor
<1> QED
  BY <1>1, <1>2, <1>3, <1>4 DEF AttendanceInv

\* Nothing is written to the tables.
LEMMA SameRows ==
    ASSUME AttendanceInv, UNCHANGED rows
    PROVE  RowsKept /\ \A v \in Worker : \A s : rows'[s] = rows[s]
BY DEF AttendanceInv, TypeOK, RowsKept, Recorded

LEMMA SameOthers ==
    ASSUME AttendanceInv, UNCHANGED <<cached, answers, now, applied>>, UNCHANGED requests \/ requests' = requests + 1
    PROVE  OthersTyped
BY DEF AttendanceInv, TypeOK, OthersTyped

\* One row is written, which no sweep has selected.
LEMMA OneRow ==
    ASSUME AttendanceInv, NEW s \in Student, NEW row \in Attendance, SatisfiesChecks(row),
           row.state # "NOT_ATTENDED", ~RowLocked(s), rows' = [rows EXCEPT ![s] = row]
    PROVE  /\ RowsKept
           /\ \A v \in Worker : pc[v] = "swept" => \A t \in job[v].sweep : rows'[t] = rows[t]
<1>1. rows \in [Student -> Attendance] /\ \A t \in Student : SatisfiesChecks(rows[t])
  BY DEF AttendanceInv, TypeOK
<1>2. rows'[s] = row /\ \A t \in Student \ {s} : rows'[t] = rows[t]
  BY <1>1
<1>3. RowsKept
  BY <1>1, <1>2 DEF RowsKept, Recorded
<1>4. ASSUME NEW v \in Worker, pc[v] = "swept", NEW t \in job[v].sweep
      PROVE  rows'[t] = rows[t]
  <2>1. job[v].sweep \subseteq Student
    BY <1>4 DEF AttendanceInv, HandlerOK, Sweeping, LessonJob
  <2>2. t # s
    BY <1>4 DEF RowLocked
  <2> QED
    BY <1>2, <2>1, <2>2
<1> QED
  BY <1>3, <1>4

\* A handler that answers and forgets its request.
LEMMA FinishStep ==
    ASSUME AttendanceInv, NEW w \in Worker, Finish(w), RowsKept, OthersTyped,
           \A v \in Worker \ {w} : pc[v] = "swept" => \A s \in job[v].sweep : rows'[s] = rows[s],
           lesson' = lesson \/ lesson' \in LessonStatus \ {"COMPLETED"}
             \/ (lesson' = "COMPLETED" /\ (Materialize => \A s \in Roster : Recorded(s)'))
    PROVE  AttendanceInv'
<1>1. pc' = [pc EXCEPT ![w] = "idle"] /\ job' = [job EXCEPT ![w] = NoJob]
  BY DEF Finish, Goto
<1>2. "idle" \in Step /\ NoJob \in Jobs /\ "idle" \notin Sweeping
  BY DEF Step, Jobs, Sweeping
<1>3. pc'[w] = "idle"
  BY <1>1 DEF AttendanceInv, TypeOK
<1>4. HandlerOK(w)'
  BY <1>3 DEF HandlerOK, Scanning, Editing, Sweeping
<1> QED
  BY <1>1, <1>2, <1>4, HandlerStep

\* A handler that goes on without writing to the tables.
LEMMA QuietStep ==
    ASSUME AttendanceInv, NEW w \in Worker, NEW step \in Step, NEW what \in Jobs,
           pc' = [pc EXCEPT ![w] = step], job' = [job EXCEPT ![w] = what],
           UNCHANGED requests \/ requests' = requests + 1,
           UNCHANGED <<lesson, rows, answers, now, applied>>,
           cached' \in [Cache -> LessonStatus \cup {NoSnapshot}],
           HandlerOK(w)', step \in Sweeping => pc[w] \in Sweeping \/ ~LessonLocked(w)
    PROVE  AttendanceInv'
<1>1. RowsKept /\ \A v \in Worker : \A s : rows'[s] = rows[s]
  BY SameRows
<1>2. OthersTyped
  BY DEF AttendanceInv, TypeOK, OthersTyped
<1> QED
  BY <1>1, <1>2, HandlerStep

-----------------------------------------------------------------------------
(* Scans *)

\* A request that is received, or answered from its key.
LEMMA ReceiveKeeps ==
    ASSUME AttendanceInv, NEW k \in Key, ScanReplay(k) \/ \E w \in Worker : ScanReceive(w, k)
    PROVE  AttendanceInv'
<1>1. CASE ScanReplay(k)
  <2>1. RowsKept /\ \A v \in Worker : \A s : rows'[s] = rows[s]
    BY <1>1, SameRows DEF ScanReplay
  <2>2. OthersTyped
    BY <1>1, SameOthers DEF ScanReplay
  <2> QED
    BY <1>1, <2>1, <2>2, OutsideStep DEF ScanReplay
<1>2. ASSUME NEW w \in Worker, ScanReceive(w, k)
      PROVE  AttendanceInv'
  <2> DEFINE what == [op |-> "SCAN", key |-> k, seen |-> "SCHEDULED", actual |-> lesson,
                      now |-> 0, answer |-> NoAnswer]
  <2>1. what \in ScanJob /\ "received" \in Step
    BY DEF ScanJob, LessonStatus, AttendanceInv, TypeOK, Step
  <2>2. pc' = [pc EXCEPT ![w] = "received"] /\ job' = [job EXCEPT ![w] = what]
    BY <1>2 DEF ScanReceive, Receive
  <2>3. pc'[w] = "received" /\ job'[w] = what
    BY <2>2 DEF AttendanceInv, TypeOK
  <2>4. HandlerOK(w)'
    BY <2>1, <2>3 DEF HandlerOK, Scanning, Editing, Sweeping
  <2>5. what \in Jobs /\ "received" \notin Sweeping
    BY <2>1 DEF Jobs, Sweeping
  <2>6. cached' \in [Cache -> LessonStatus \cup {NoSnapshot}]
    BY <1>2 DEF ScanReceive, AttendanceInv, TypeOK
  <2>7. UNCHANGED <<lesson, rows, answers, now, applied>> /\ requests' = requests + 1
    BY <1>2 DEF ScanReceive, Receive
  <2> HIDE DEF what
  <2> QED
    BY <2>1, <2>2, <2>4, <2>5, <2>6, <2>7, QuietStep
<1> QED
  BY <1>1, <1>2

\* A scan that goes on to a step of its own, with what it read.
LEMMA ScanGoes ==
    ASSUME AttendanceInv, NEW w \in Worker, NEW step \in Scanning, NEW what \in ScanJob,
           Goto(w, step, what), step = "written" => what.answer \in Answer
    PROVE  /\ pc' = [pc EXCEPT ![w] = step] /\ job' = [job EXCEPT ![w] = what]
           /\ step \in Step /\ what \in Jobs /\ step \notin Sweeping
           /\ UNCHANGED requests
           /\ HandlerOK(w)'
<1>1. pc' = [pc EXCEPT ![w] = step] /\ job' = [job EXCEPT ![w] = what]
  BY DEF Goto
<1>2. pc'[w] = step /\ job'[w] = what
  BY <1>1 DEF AttendanceInv, TypeOK
<1>3. HandlerOK(w)'
  BY <1>2 DEF HandlerOK, Scanning, Editing, Sweeping
<1> QED
  BY <1>1, <1>3 DEF Goto, Jobs, Scanning, Sweeping, Step

\* A scan before it has the row, or one that leaves the row as it is.
LEMMA ScanReads ==
    ASSUME AttendanceInv, NEW w \in Worker,
           ReadSnapshot(w) \/ FillCache(w) \/ ScanAdmit(w) \/ ScanChangesNothing(w)
    PROVE  AttendanceInv'
<1>1. pc[w] \in Scanning /\ job[w] \in ScanJob
  BY DEF ReadSnapshot, FillCache, ScanAdmit, ScanChangesNothing, Writing, AttendanceInv,
         HandlerOK, Scanning
<1> PICK j \in ScanJob : j = job[w]
  BY <1>1
<1>2. /\ lesson \in LessonStatus /\ cached \in [Cache -> LessonStatus \cup {NoSnapshot}]
      /\ now \in Nat /\ CacheOf[w] \in Cache
  BY AttendanceAssumption DEF AttendanceInv, TypeOK
<1>3. CASE ReadSnapshot(w)
  <2> DEFINE hit == cached[CacheOf[w]] # NoSnapshot
             seen == IF hit THEN cached[CacheOf[w]] ELSE lesson
             what == [j EXCEPT !.seen = seen, !.actual = lesson]
             step == IF hit THEN "looked" ELSE "missed"
  <2>1. Goto(w, step, what) /\ UNCHANGED <<lesson, cached, rows, answers, now, applied>>
    BY <1>3 DEF ReadSnapshot
  <2>2. seen \in LessonStatus
    BY <1>2
  <2>3. what \in ScanJob /\ step \in Scanning /\ step # "written"
    BY <1>2, <2>2 DEF ScanJob, Scanning
  <2> HIDE DEF step, what
  <2>4. /\ pc' = [pc EXCEPT ![w] = step] /\ job' = [job EXCEPT ![w] = what]
        /\ step \in Step /\ what \in Jobs /\ step \notin Sweeping /\ UNCHANGED requests
        /\ HandlerOK(w)'
    BY <2>1, <2>3, ScanGoes
  <2> QED
    BY <1>2, <2>1, <2>4, QuietStep
<1>4. CASE FillCache(w)
  <2>1. Goto(w, "looked", j) /\ UNCHANGED <<lesson, rows, answers, now, applied>>
    BY <1>4 DEF FillCache
  <2>2. "looked" \in Scanning /\ "looked" # "written"
    BY DEF Scanning
  <2>3. /\ pc' = [pc EXCEPT ![w] = "looked"] /\ job' = [job EXCEPT ![w] = j]
        /\ "looked" \in Step /\ j \in Jobs /\ "looked" \notin Sweeping /\ UNCHANGED requests
        /\ HandlerOK(w)'
    BY <2>1, <2>2, ScanGoes
  <2>4. cached' \in [Cache -> LessonStatus \cup {NoSnapshot}]
    BY <1>2, <1>4 DEF FillCache, ScanJob
  <2> QED
    BY <2>1, <2>3, <2>4, QuietStep
<1>5. CASE ScanAdmit(w)
  <2> DEFINE what == [j EXCEPT !.now = now]
  <2>1. Goto(w, "admitted", what) /\ UNCHANGED <<lesson, cached, rows, answers, now, applied>>
    BY <1>5 DEF ScanAdmit
  <2>2. what \in ScanJob /\ "admitted" \in Scanning /\ "admitted" # "written"
    BY <1>2 DEF ScanJob, Scanning
  <2> HIDE DEF what
  <2>3. /\ pc' = [pc EXCEPT ![w] = "admitted"] /\ job' = [job EXCEPT ![w] = what]
        /\ "admitted" \in Step /\ what \in Jobs /\ "admitted" \notin Sweeping
        /\ UNCHANGED requests /\ HandlerOK(w)'
    BY <2>1, <2>2, ScanGoes
  <2> QED
    BY <1>2, <2>1, <2>3, QuietStep
<1>6. CASE ScanChangesNothing(w)
  <2> DEFINE row == rows[Scanned(w)]
             answer == IF row.state = "CHECKED_IN" /\ ~GapPassed(w) THEN "DUPLICATE" ELSE "CHECKED_OUT"
             what == [j EXCEPT !.answer = answer]
  <2>1. Goto(w, "written", what) /\ UNCHANGED <<lesson, cached, rows, answers, now, applied>>
    BY <1>6 DEF ScanChangesNothing, Writing
  <2>2. answer \in Answer
    BY DEF Answer
  <2> HIDE DEF answer
  <2>3. what \in ScanJob /\ what.answer \in Answer /\ "written" \in Scanning
    BY <2>2 DEF ScanJob, Scanning
  <2> HIDE DEF what
  <2>4. /\ pc' = [pc EXCEPT ![w] = "written"] /\ job' = [job EXCEPT ![w] = what]
        /\ "written" \in Step /\ what \in Jobs /\ "written" \notin Sweeping
        /\ UNCHANGED requests /\ HandlerOK(w)'
    BY <2>1, <2>3, ScanGoes
  <2> QED
    BY <1>2, <2>1, <2>4, QuietStep
<1> QED
  BY <1>3, <1>4, <1>5, <1>6

\* A scan that is refused, or whose answer is logged.
LEMMA ScanEnds ==
    ASSUME AttendanceInv, NEW w \in Worker, ScanRefused(w) \/ ScanDenied(w) \/ ScanLog(w)
    PROVE  AttendanceInv'
<1>1. Finish(w) /\ UNCHANGED <<lesson, cached, rows, now, requests, applied>>
  BY DEF ScanRefused, ScanDenied, ScanLog, Writing, Finish, Goto
<1>2. RowsKept /\ \A v \in Worker : \A s : rows'[s] = rows[s]
  BY <1>1, SameRows
<1>3. answers' \in [Key -> Answer \cup {NoAnswer}]
  <2>1. CASE ScanLog(w)
    <3>1. job[w] \in ScanJob
      BY <2>1 DEF ScanLog, AttendanceInv, HandlerOK, Scanning
    <3>2. job[w].answer \in Answer \cup {NoAnswer}
      BY <3>1 DEF ScanJob
    <3> QED
      BY <2>1, <3>2 DEF ScanLog, AttendanceInv, TypeOK
  <2>2. CASE ScanRefused(w) \/ ScanDenied(w)
    BY <2>2 DEF ScanRefused, ScanDenied, Writing, AttendanceInv, TypeOK
  <2> QED
    BY <2>1, <2>2
<1>4. OthersTyped
  BY <1>1, <1>3 DEF AttendanceInv, TypeOK, OthersTyped
<1> QED
  BY <1>1, <1>2, <1>4, FinishStep

\* What a scan admitted at t makes of a row: an arrival, or a departure after
\* the gap.
Arrival(old, row, t) ==
    /\ old.state \in {"NOT_ATTENDED", "ABSENT"}
    /\ row.state = "CHECKED_IN"
    /\ row.check_in = t
    /\ row.status = StatusAt(t)

Departure(old, row, t) ==
    /\ old.state = "CHECKED_IN"
    /\ t - old.check_in >= MinGap
    /\ row.state = "CHECKED_OUT"
    /\ row.check_in = old.check_in
    /\ row.check_out = t
    /\ row.status = StatusAfter(old, t)

\* What a scan relies on when it has the row.
LEMMA ScanHasRow ==
    ASSUME AttendanceInv, NEW w \in Worker, Writing(w)
    PROVE  /\ job[w] \in ScanJob /\ job[w].key \in Key /\ job[w].now \in Nat
           /\ Scanned(w) \in Student
           /\ rows[Scanned(w)] \in Attendance /\ SatisfiesChecks(rows[Scanned(w)])
<1>1. job[w] \in ScanJob
  BY DEF Writing, AttendanceInv, HandlerOK, Scanning
<1>2. job[w].key \in Key /\ job[w].now \in Nat
  BY <1>1 DEF ScanJob
<1>3. Scanned(w) \in Student
  BY <1>2, AttendanceAssumption DEF Scanned
<1> QED
  BY <1>1, <1>2, <1>3 DEF AttendanceInv, TypeOK

\* Every row a scan commits is well formed, and an arrival or a departure.
LEMMA ScanWrites ==
    ASSUME AttendanceInv, NEW w \in Worker,
           ScanCheckIn(w) \/ ScanCorrectsAbsence(w) \/ ScanCheckOut(w)
    PROVE  /\ Writing(w)
           /\ \E row \in Attendance, answer \in Answer :
                 /\ SatisfiesChecks(row)
                 /\ WriteRow(w, row, answer)
                 /\ \/ Arrival(rows[Scanned(w)], row, job[w].now)
                    \/ Departure(rows[Scanned(w)], row, job[w].now)
<1>1. Writing(w)
  BY DEF ScanCheckIn, ScanCorrectsAbsence, ScanCheckOut
<1>2. /\ job[w] \in ScanJob /\ job[w].key \in Key /\ job[w].now \in Nat
      /\ Scanned(w) \in Student
      /\ rows[Scanned(w)] \in Attendance /\ SatisfiesChecks(rows[Scanned(w)])
  BY <1>1, ScanHasRow
<1> PICK t \in Nat : t = job[w].now
  BY <1>2
<1> PICK old \in Attendance : old = rows[Scanned(w)]
  BY <1>2
<1>3. "CHECK_IN" \in Answer /\ "CHECK_OUT" \in Answer
  BY DEF Answer
<1>4. CASE ScanCheckIn(w)
  <2> DEFINE row == CheckedIn(t, "HID")
  <2>1. row \in Attendance /\ SatisfiesChecks(row) /\ Arrival(old, row, t)
    BY <1>4, CheckedInRow DEF ScanCheckIn, Recorded, Arrival
  <2>2. WriteRow(w, row, "CHECK_IN")
    BY <1>4 DEF ScanCheckIn
  <2> HIDE DEF row
  <2> QED
    BY <1>1, <1>3, <2>1, <2>2
<1>5. CASE ScanCorrectsAbsence(w)
  <2> DEFINE row == [CheckedIn(t, "HID") EXCEPT !.check_out = old.check_out]
  <2>1. old.check_out \in Time
    BY DEF Attendance
  <2>2. row \in Attendance /\ row.state = "CHECKED_IN" /\ row.status = StatusAt(t) /\ row.check_in = t
    BY <2>1, CorrectedRow
  <2>3. SatisfiesChecks(row) /\ WriteRow(w, row, "CHECK_IN") /\ old.state = "ABSENT"
    BY <1>5 DEF ScanCorrectsAbsence
  <2> HIDE DEF row
  <2>4. Arrival(old, row, t)
    BY <2>2, <2>3 DEF Arrival
  <2> QED
    BY <1>1, <1>3, <2>2, <2>3, <2>4
<1>6. CASE ScanCheckOut(w)
  <2> DEFINE row == CheckedOut(old, t, old.scan_source)
  <2>1. old.state = "CHECKED_IN" /\ t - old.check_in >= MinGap /\ WriteRow(w, row, "CHECK_OUT")
    BY <1>6 DEF ScanCheckOut, GapPassed, Elapsed
  <2>2. old.check_in \in Nat /\ old.scan_source \in {"HID", "MANUAL", "SYSTEM"}
    BY <1>2, <2>1 DEF SatisfiesChecks, Attendance, Time, NoTime
  <2>3. old.check_in <= t
    BY <2>1, <2>2, AttendanceAssumption
  <2>4. /\ row \in Attendance /\ SatisfiesChecks(row)
        /\ row.state = "CHECKED_OUT" /\ row.status = StatusAfter(old, t)
        /\ row.check_in = old.check_in /\ row.check_out = t
    BY <1>2, <2>1, <2>2, <2>3, CheckedOutRow
  <2> HIDE DEF row
  <2>5. Departure(old, row, t)
    BY <2>1, <2>4 DEF Departure
  <2> QED
    BY <1>1, <1>3, <2>1, <2>4, <2>5
<1> QED
  BY <1>4, <1>5, <1>6

LEMMA ScanWritesKeep ==
    ASSUME AttendanceInv, NEW w \in Worker,
           ScanCheckIn(w) \/ ScanCorrectsAbsence(w) \/ ScanCheckOut(w)
    PROVE  AttendanceInv'
<1>1. Writing(w)
  BY ScanWrites
<1> PICK row \in Attendance, answer \in Answer :
           /\ SatisfiesChecks(row)
           /\ WriteRow(w, row, answer)
           /\ \/ Arrival(rows[Scanned(w)], row, job[w].now)
              \/ Departure(rows[Scanned(w)], row, job[w].now)
  BY ScanWrites
<1>2. job[w] \in ScanJob /\ job[w].key \in Key /\ job[w].now \in Nat /\ Scanned(w) \in Student
  BY <1>1, ScanHasRow
<1> PICK j \in ScanJob : j = job[w]
  BY <1>2
<1> DEFINE what == [j EXCEPT !.answer = answer]
<1>3. what \in ScanJob /\ what.answer = answer /\ "written" \in Scanning
  BY DEF ScanJob, Scanning
<1>4. Goto(w, "written", what) /\ rows' = [rows EXCEPT ![Scanned(w)] = row]
  BY DEF WriteRow
<1> HIDE DEF what
<1>5. /\ pc' = [pc EXCEPT ![w] = "written"] /\ job' = [job EXCEPT ![w] = what]
      /\ "written" \in Step /\ what \in Jobs /\ "written" \notin Sweeping
      /\ UNCHANGED requests /\ HandlerOK(w)'
  BY <1>3, <1>4, ScanGoes
<1>6. row.state # "NOT_ATTENDED" /\ ~RowLocked(Scanned(w))
  BY <1>1 DEF Arrival, Departure, Writing
<1>7. /\ RowsKept
      /\ \A v \in Worker : pc[v] = "swept" => \A s \in job[v].sweep : rows'[s] = rows[s]
  BY <1>2, <1>4, <1>6, OneRow
<1>8. applied' \in [Key -> Seq(Nat)]
  <2>1. applied' = [applied EXCEPT ![job[w].key] = Append(applied[job[w].key], job[w].now)]
    BY DEF WriteRow
  <2>2. applied \in [Key -> Seq(Nat)]
    BY DEF AttendanceInv, TypeOK
  <2>3. Append(applied[job[w].key], job[w].now) \in Seq(Nat)
    BY <1>2, <2>2, AppendProperties
  <2> QED
    BY <2>1, <2>2, <2>3
<1>9. OthersTyped /\ UNCHANGED lesson
  BY <1>1, <1>5, <1>8 DEF Writing, AttendanceInv, TypeOK, OthersTyped
<1> QED
  BY <1>5, <1>7, <1>9, HandlerStep

-----------------------------------------------------------------------------
(* Manual entries and corrections *)

LEMMA ManualKeeps ==
    ASSUME AttendanceInv, NEW s \in Student, ManualCreate(s)
    PROVE  AttendanceInv'
<1>1. now \in Nat /\ rows \in [Student -> Attendance]
  BY DEF AttendanceInv, TypeOK
<1> DEFINE row == CheckedIn(now, "MANUAL")
<1>2. row \in Attendance /\ SatisfiesChecks(row) /\ row.state = "CHECKED_IN"
  BY <1>1, CheckedInRow
<1>3. rows' = [rows EXCEPT ![s] = row]
  BY DEF ManualCreate
<1> HIDE DEF row
<1>4. ~RowLocked(s)
  BY DEF RowLocked, ManualCreate, Recorded, AttendanceInv, HandlerOK
<1>5. /\ RowsKept
      /\ \A v \in Worker : pc[v] = "swept" => \A t \in job[v].sweep : rows'[t] = rows[t]
  BY <1>2, <1>3, <1>4, OneRow
<1>6. OthersTyped
  BY SameOthers DEF ManualCreate
<1> QED
  BY <1>5, <1>6, OutsideStep DEF ManualCreate

\* The row that a correction starts from is recorded.
LEMMA FetchRowKeeps ==
    ASSUME AttendanceInv, NEW s \in Student, NEW w \in Worker, NEW op \in Operation, FetchRow(w, op, s)
    PROVE  AttendanceInv'
<1> DEFINE what == [op |-> op, student |-> s, row |-> rows[s]]
<1>1. what \in RowJob /\ what.op = op /\ what.student = s /\ what.row = rows[s]
  BY DEF FetchRow, RowJob, AttendanceInv, TypeOK
<1>2. pc' = [pc EXCEPT ![w] = "row"] /\ job' = [job EXCEPT ![w] = what] /\ requests' = requests + 1
  BY DEF FetchRow, Receive
<1> HIDE DEF what
<1>3. pc'[w] = "row" /\ job'[w] = what
  BY <1>2 DEF AttendanceInv, TypeOK
<1>4. UNCHANGED <<lesson, cached, rows, answers, now, applied>> /\ rows[s].state # "NOT_ATTENDED"
  BY DEF FetchRow, Recorded
<1>5. HandlerOK(w)'
  BY <1>1, <1>3, <1>4 DEF HandlerOK, Scanning, Editing, Sweeping, Recorded
<1>6. /\ "row" \in Step /\ what \in Jobs /\ "row" \notin Sweeping
      /\ cached' \in [Cache -> LessonStatus \cup {NoSnapshot}]
  BY <1>1, <1>4 DEF Step, Jobs, Sweeping, AttendanceInv, TypeOK
<1> QED
  BY <1>2, <1>4, <1>5, <1>6, QuietStep

\* A row's service that has the row's lock writes a recorded row, and is done
\* or at half of it.
LEMMA ServiceStep ==
    ASSUME AttendanceInv, NEW w \in Worker, NEW step \in {"idle", "half"}, pc[w] \in Editing,
           ~RowLocked(job[w].student), UNCHANGED <<lesson, cached, answers, now, applied>>,
           NEW row \in Attendance, SatisfiesChecks(row), row.state # "NOT_ATTENDED",
           rows' = [rows EXCEPT ![job[w].student] = row],
           IF step = "idle" THEN Finish(w) ELSE Goto(w, step, job[w])
    PROVE  AttendanceInv'
<1>1. job[w] \in RowJob /\ HandlerOK(w)
  BY DEF AttendanceInv, HandlerOK
<1> PICK j \in RowJob : j = job[w]
  BY <1>1
<1>2. j.student \in Student
  BY DEF RowJob
<1>3. /\ RowsKept
      /\ \A v \in Worker : pc[v] = "swept" => \A s \in job[v].sweep : rows'[s] = rows[s]
  BY <1>2, OneRow
<1>4. UNCHANGED requests
  BY DEF Finish, Goto
<1>5. OthersTyped
  BY <1>4, SameOthers
<1>6. CASE step = "idle"
  BY <1>3, <1>5, <1>6, FinishStep
<1>7. CASE step = "half"
  <2>1. pc' = [pc EXCEPT ![w] = "half"] /\ job' = [job EXCEPT ![w] = j]
    BY <1>7 DEF Goto
  <2>2. pc'[w] = "half" /\ job'[w] = j
    BY <2>1 DEF AttendanceInv, TypeOK
  <2>3. j.op \in Operation /\ j.row.state # "NOT_ATTENDED" /\ Recorded(j.student)'
    BY <1>1, <1>2, <1>3 DEF HandlerOK, RowsKept
  <2>4. HandlerOK(w)'
    BY <2>2, <2>3 DEF HandlerOK, Scanning, Editing, Sweeping, Recorded
  <2>5. "half" \in Step /\ j \in Jobs /\ "half" \notin Sweeping
    BY DEF Step, Jobs, Sweeping
  <2> QED
    BY <1>3, <1>5, <2>1, <2>4, <2>5, HandlerStep
<1> QED
  BY <1>6, <1>7

\* The save of a correction is refused by the CHECKs or keeps them.
LEMMA SavedKeeps ==
    ASSUME AttendanceInv, NEW w \in Worker, NEW step \in {"idle", "half"}, pc[w] \in Editing,
           ~RowLocked(job[w].student), UNCHANGED <<lesson, cached, answers, now, applied>>,
           NEW row \in Attendance, row.state # "NOT_ATTENDED", Saved(w, row, step)
    PROVE  AttendanceInv'
<1>1. CASE SatisfiesChecks(row)
  BY <1>1, ServiceStep DEF Saved
<1>2. CASE ~SatisfiesChecks(row)
  <2>1. Finish(w) /\ UNCHANGED rows
    BY <1>2 DEF Saved
  <2>2. RowsKept /\ \A v \in Worker : \A s : rows'[s] = rows[s]
    BY <2>1, SameRows
  <2>3. OthersTyped
    BY <2>1, SameOthers DEF Finish, Goto
  <2> QED
    BY <2>1, <2>2, <2>3, FinishStep
<1> QED
  BY <1>1, <1>2

\* What a row's service relies on.
LEMMA ServiceHasRow ==
    ASSUME AttendanceInv, NEW w \in Worker, pc[w] \in Editing
    PROVE  /\ job[w] \in RowJob /\ job[w].op \in Operation /\ job[w].student \in Student
           /\ job[w].row \in Attendance /\ job[w].row.state # "NOT_ATTENDED"
           /\ rows[job[w].student] \in Attendance /\ rows[job[w].student].state # "NOT_ATTENDED"
<1>1. HandlerOK(w) /\ rows \in [Student -> Attendance]
  BY DEF AttendanceInv, TypeOK
<1>2. job[w] \in RowJob
  BY <1>1 DEF HandlerOK
<1>3. job[w].student \in Student /\ job[w].row \in Attendance
  BY <1>2 DEF RowJob
<1> QED
  BY <1>1, <1>2, <1>3 DEF HandlerOK, Recorded

LEMMA AdjustKeeps ==
    ASSUME AttendanceInv, NEW w \in Worker, AdjustStep(w)
    PROVE  AttendanceInv'
<1> PICK check_in \in AdjustTime \cup {job[w].row.check_in},
         check_out \in AdjustTime \cup {job[w].row.check_out},
         status \in AdjustStatus \cup {job[w].row.status} : Adjust(w, check_in, check_out, status)
  BY DEF AdjustStep
<1>1. pc[w] = "row" /\ pc[w] \in Editing
  BY DEF Adjust, Serving, Editing
<1>2. job[w].row \in Attendance /\ job[w].row.state # "NOT_ATTENDED"
  BY <1>1, ServiceHasRow
<1> PICK r \in Attendance : r = job[w].row
  BY <1>2
<1>3. check_in \in Time /\ check_out \in Time /\ status \in AttendanceStatus
  BY <1>2, AttendanceAssumption DEF Attendance, Time, AttendanceStatus
<1> DEFINE edited == [r EXCEPT !.check_in = check_in, !.check_out = check_out, !.status = status]
           arrived == edited.state = "ABSENT" /\ check_in # NoTime
           row == IF arrived THEN [edited EXCEPT !.state = "CHECKED_IN"] ELSE edited
<1>4. edited \in Attendance /\ edited.state = r.state
  BY <1>3 DEF Attendance
<1>5. Saved(w, row, "idle")
  BY DEF Adjust
<1> HIDE DEF edited
<1>6. [edited EXCEPT !.state = "CHECKED_IN"] \in Attendance
      /\ [edited EXCEPT !.state = "CHECKED_IN"].state = "CHECKED_IN"
  BY <1>4 DEF Attendance, AttendanceState
<1>7. row \in Attendance /\ row.state # "NOT_ATTENDED"
  BY <1>2, <1>4, <1>6
<1> HIDE DEF row
<1> QED
  BY <1>1, <1>5, <1>7, SavedKeeps DEF Adjust, Serving

\* checkout saves the time first, then the state.
LEMMA CheckoutKeeps ==
    ASSUME AttendanceInv, NEW w \in Worker, Checkout(w) \/ CheckoutState(w)
    PROVE  AttendanceInv'
<1>1. pc[w] \in Editing
  BY DEF Checkout, CheckoutState, Serving, Editing
<1>2. /\ job[w].row \in Attendance /\ job[w].row.state # "NOT_ATTENDED"
      /\ rows[job[w].student] \in Attendance
  BY <1>1, ServiceHasRow
<1>3. CASE Checkout(w)
  <2> PICK r \in Attendance : r = job[w].row
    BY <1>2
  <2> DEFINE row == [r EXCEPT !.check_out = now]
  <2>1. row \in Attendance /\ row.state = r.state
    BY DEF Attendance, AttendanceInv, TypeOK, Time
  <2>2. Saved(w, row, "half")
    BY <1>3 DEF Checkout
  <2> HIDE DEF row
  <2> QED
    BY <1>1, <1>2, <1>3, <2>1, <2>2, SavedKeeps DEF Checkout, Serving
<1>4. CASE CheckoutState(w)
  <2> PICK r \in Attendance : r = rows[job[w].student]
    BY <1>2
  <2> DEFINE row == [r EXCEPT !.state = "CHECKED_OUT"]
  <2>1. row \in Attendance /\ row.state = "CHECKED_OUT"
    BY DEF Attendance, AttendanceState
  <2>2. Saved(w, row, "idle")
    BY <1>4 DEF CheckoutState
  <2> HIDE DEF row
  <2> QED
    BY <1>1, <1>4, <2>1, <2>2, SavedKeeps DEF CheckoutState, Serving
<1> QED
  BY <1>3, <1>4

\* The row of a cancellation.
LEMMA CancelledRow ==
    ASSUME AttendanceInv, NEW w \in Worker, CancelAttendance(w)
    PROVE  \E row \in Attendance :
              /\ SatisfiesChecks(row) /\ row.state = "CANCELLED" /\ row.status = "CANCELLED"
              /\ rows' = [rows EXCEPT ![job[w].student] = row]
<1>1. pc[w] \in Editing
  BY DEF CancelAttendance, Serving, Editing
<1> PICK s \in Student : s = job[w].student
  BY <1>1, ServiceHasRow
<1>2. rows \in [Student -> Attendance] /\ SatisfiesChecks(rows[s])
  BY DEF AttendanceInv, TypeOK
<1> PICK r \in Attendance : r = rows[s]
  BY <1>2
<1> DEFINE row == [r EXCEPT !.state = "CANCELLED", !.status = "CANCELLED"]
<1>3. /\ row \in Attendance /\ row.state = "CANCELLED" /\ row.status = "CANCELLED"
      /\ row.check_in = r.check_in /\ row.check_out = r.check_out
  BY ZenonT(60) DEF Attendance, AttendanceState, AttendanceStatus
<1>4. rows' = [rows EXCEPT ![s].state = "CANCELLED", ![s].status = "CANCELLED"]
  BY DEF CancelAttendance
<1>5. rows' = [rows EXCEPT ![s] = row]
  <2>1. [rows EXCEPT ![s].state = "CANCELLED", ![s].status = "CANCELLED"] = [rows EXCEPT ![s] = row]
    BY <1>2 DEF Attendance
  <2> QED
    BY <1>4, <2>1
<1> HIDE DEF row
<1>6. SatisfiesChecks(row)
  BY <1>2, <1>3 DEF SatisfiesChecks
<1> QED
  BY <1>3, <1>5, <1>6

LEMMA CancelKeeps ==
    ASSUME AttendanceInv, NEW w \in Worker, CancelAttendance(w)
    PROVE  AttendanceInv'
<1> PICK row \in Attendance :
           /\ SatisfiesChecks(row) /\ row.state = "CANCELLED" /\ row.status = "CANCELLED"
           /\ rows' = [rows EXCEPT ![job[w].student] = row]
  BY CancelledRow
<1>1. /\ pc[w] \in Editing /\ ~RowLocked(job[w].student) /\ Finish(w)
      /\ UNCHANGED <<lesson, cached, answers, now, applied>>
  BY DEF CancelAttendance, Serving, Editing
<1> QED
  BY <1>1, ServiceStep

-----------------------------------------------------------------------------
(* The lesson *)

LEMMA FetchLessonKeeps ==
    ASSUME AttendanceInv, NEW w \in Worker, NEW op \in Operation, FetchLesson(w, op)
    PROVE  AttendanceInv'
<1> DEFINE what == [op |-> op, seen |-> lesson, now |-> 0, sweep |-> {}]
<1>1. what \in LessonJob
  BY DEF FetchLesson, LessonJob, AttendanceInv, TypeOK
<1>2. pc' = [pc EXCEPT ![w] = "lesson"] /\ job' = [job EXCEPT ![w] = what] /\ requests' = requests + 1
  BY DEF FetchLesson, Receive
<1> HIDE DEF what
<1>3. pc'[w] = "lesson" /\ job'[w] = what
  BY <1>2 DEF AttendanceInv, TypeOK
<1>4. HandlerOK(w)'
  BY <1>1, <1>3 DEF HandlerOK, Scanning, Editing, Sweeping
<1>5. /\ "lesson" \in Step /\ what \in Jobs /\ "lesson" \notin Sweeping
      /\ UNCHANGED <<lesson, cached, rows, answers, now, applied>>
      /\ cached' \in [Cache -> LessonStatus \cup {NoSnapshot}]
  BY <1>1 DEF FetchLesson, Step, Jobs, Sweeping, AttendanceInv, TypeOK
<1> QED
  BY <1>2, <1>4, <1>5, QuietStep

\* The lesson's service up to its commit.  SaveLesson takes the lesson's lock
\* and SweepRows selects rows that are checked in.
LEMMA LessonGoes ==
    ASSUME AttendanceInv, NEW w \in Worker, SaveLesson(w) \/ RefuseLesson(w) \/ SweepRows(w)
    PROVE  AttendanceInv'
<1>1. job[w] \in LessonJob
  BY DEF SaveLesson, RefuseLesson, SweepRows, AttendanceInv, HandlerOK, Sweeping
<1> PICK j \in LessonJob : j = job[w]
  BY <1>1
<1>2. pc \in [Worker -> Step] /\ job \in [Worker -> Jobs] /\ now \in Nat
  BY DEF AttendanceInv, TypeOK, Jobs
<1>3. CASE SaveLesson(w)
  <2> DEFINE what == [j EXCEPT !.now = now]
  <2>1. pc' = [pc EXCEPT ![w] = "saved"] /\ job' = [job EXCEPT ![w] = what] /\ UNCHANGED requests
    BY <1>3 DEF SaveLesson, Goto
  <2>2. what \in LessonJob
    BY <1>2 DEF LessonJob
  <2> HIDE DEF what
  <2>3. HandlerOK(w)'
    BY <1>2, <2>1, <2>2 DEF HandlerOK, Scanning, Editing, Sweeping
  <2>4. /\ "saved" \in Step /\ what \in Jobs /\ ~LessonLocked(w)
        /\ UNCHANGED <<lesson, rows, answers, now, applied>>
    BY <1>3, <2>2 DEF SaveLesson, Step, Jobs
  <2>5. cached' \in [Cache -> LessonStatus \cup {NoSnapshot}]
    BY <1>3 DEF SaveLesson, AttendanceInv, TypeOK
  <2> QED
    BY <2>1, <2>3, <2>4, <2>5, QuietStep
<1>4. CASE RefuseLesson(w)
  <2>1. Finish(w) /\ UNCHANGED <<lesson, cached, rows, answers, now, requests, applied>>
    BY <1>4 DEF RefuseLesson, Finish, Goto
  <2>2. RowsKept /\ \A v \in Worker : \A s : rows'[s] = rows[s]
    BY <2>1, SameRows
  <2>3. OthersTyped
    BY <2>1, SameOthers
  <2> QED
    BY <2>1, <2>2, <2>3, FinishStep
<1>5. CASE SweepRows(w)
  <2> DEFINE what == [j EXCEPT !.sweep = Dangling]
  <2>1. pc' = [pc EXCEPT ![w] = "swept"] /\ job' = [job EXCEPT ![w] = what] /\ UNCHANGED requests
    BY <1>5 DEF SweepRows, Goto
  <2>2. Dangling \subseteq Student /\ \A s \in Dangling : rows[s].state = "CHECKED_IN"
    BY DEF Dangling
  <2>3. what \in LessonJob /\ what.sweep = Dangling
    BY <2>2 DEF LessonJob
  <2>4. UNCHANGED <<lesson, cached, rows, answers, now, applied>>
    BY <1>5 DEF SweepRows
  <2> HIDE DEF what
  <2>5. HandlerOK(w)'
    <3>1. pc'[w] = "swept" /\ job'[w] = what
      BY <1>2, <2>1
    <3>2. \A s \in what.sweep : rows'[s].state = "CHECKED_IN"
      BY <2>2, <2>3, <2>4
    <3> QED
      BY <2>3, <3>1, <3>2 DEF HandlerOK, Scanning, Editing, Sweeping
  <2>6. "swept" \in Step /\ what \in Jobs /\ pc[w] \in Sweeping
    BY <1>5, <2>3 DEF SweepRows, Step, Jobs, Sweeping
  <2>7. cached' \in [Cache -> LessonStatus \cup {NoSnapshot}]
    BY <2>4 DEF AttendanceInv, TypeOK
  <2> QED
    BY <2>1, <2>4, <2>5, <2>6, <2>7, QuietStep
<1> QED
  BY <1>3, <1>4, <1>5

\* The rows of a completed lesson: check-ins that were selected are closed,
\* the missing are absent, the others are as they were.
LEMMA SweptRows ==
    ASSUME AttendanceInv, NEW w \in Worker, CommitCompletion(w)
    PROVE  /\ job[w].sweep \subseteq Student /\ job[w].now \in Nat
           /\ \A s \in Student :
                 \/ s \in job[w].sweep /\ rows[s].state = "CHECKED_IN"
                       /\ rows'[s] = Close(rows[s], job[w].now)
                 \/ s \in Missing(w) /\ ~Recorded(s) /\ rows'[s] = AbsentRow
                 \/ s \notin job[w].sweep \cup Missing(w) /\ rows'[s] = rows[s]
           /\ rows' = [s \in Student |-> rows'[s]]
<1>1. job[w] \in LessonJob /\ \A s \in job[w].sweep : rows[s].state = "CHECKED_IN"
  BY DEF CommitCompletion, AttendanceInv, HandlerOK, Sweeping
<1>2. job[w].sweep \subseteq Student /\ job[w].now \in Nat
  BY <1>1 DEF LessonJob
<1>3. rows' = [s \in Student |->
           IF s \in job[w].sweep THEN Close(rows[s], job[w].now)
           ELSE IF s \in Missing(w) THEN AbsentRow ELSE rows[s]]
  BY DEF CommitCompletion
<1>4. \A s \in Missing(w) : ~Recorded(s)
  BY DEF Missing
<1> QED
  BY <1>1, <1>2, <1>3, <1>4

LEMMA CompletionKeeps ==
    ASSUME AttendanceInv, NEW w \in Worker, CommitCompletion(w)
    PROVE  AttendanceInv'
<1>1. /\ rows \in [Student -> Attendance] /\ \A s \in Student : SatisfiesChecks(rows[s])
  BY DEF AttendanceInv, TypeOK
<1>2. job[w].now \in Nat /\ rows' = [s \in Student |-> rows'[s]]
  BY SweptRows
<1>3. ASSUME NEW s \in Student
      PROVE  /\ rows'[s] \in Attendance /\ SatisfiesChecks(rows'[s])
             /\ Recorded(s) => Recorded(s)'
             /\ s \in Missing(w) => Recorded(s)'
  <2>1. CASE s \in job[w].sweep /\ rows[s].state = "CHECKED_IN" /\ rows'[s] = Close(rows[s], job[w].now)
    <3>1. /\ rows'[s] \in Attendance /\ SatisfiesChecks(rows'[s])
          /\ rows'[s].state = "CHECKED_OUT"
      BY <1>1, <1>2, <2>1, ClosedRow
    <3> QED
      BY <3>1 DEF Recorded
  <2>2. CASE s \in Missing(w) /\ rows'[s] = AbsentRow
    BY <2>2, AbsentRowIs DEF Recorded
  <2>3. CASE s \notin job[w].sweep \cup Missing(w) /\ rows'[s] = rows[s]
    BY <1>1, <2>3 DEF Recorded
  <2> QED
    BY <2>1, <2>2, <2>3, SweptRows
<1>4. RowsKept
  BY <1>2, <1>3 DEF RowsKept
<1>5. ASSUME Materialize, NEW s \in Roster
      PROVE  Recorded(s)'
  <2>1. s \in Student /\ (Recorded(s) \/ s \in Missing(w))
    BY <1>5, AttendanceAssumption DEF Missing
  <2> QED
    BY <1>3, <2>1
<1>6. \A v \in Worker \ {w} : pc[v] # "swept"
  BY DEF CommitCompletion, AttendanceInv, OneSweep, Sweeping
<1>7. /\ lesson' = "COMPLETED" /\ Finish(w)
      /\ UNCHANGED <<cached, answers, now, requests, applied>>
  BY DEF CommitCompletion, Finish, Goto
<1>8. OthersTyped
  BY <1>7, SameOthers
<1> QED
  BY <1>4, <1>5, <1>6, <1>7, <1>8, FinishStep

LEMMA CommitKeeps ==
    ASSUME AttendanceInv, NEW w \in Worker, CommitLesson(w)
    PROVE  AttendanceInv'
<1>1. job[w] \in LessonJob
  BY DEF CommitLesson, AttendanceInv, HandlerOK, Sweeping
<1>2. job[w].op \in {"OPEN", "CANCEL_LESSON"}
  BY <1>1 DEF CommitLesson, LessonJob, LessonOperation
<1>3. lesson' \in LessonStatus \ {"COMPLETED"}
  BY <1>2 DEF CommitLesson, Target, LessonStatus
<1>4. Finish(w) /\ UNCHANGED <<cached, rows, answers, now, requests, applied>>
  BY DEF CommitLesson, Finish, Goto
<1>5. RowsKept /\ \A v \in Worker : \A s : rows'[s] = rows[s]
  BY <1>4, SameRows
<1>6. OthersTyped
  BY <1>4, SameOthers
<1> QED
  BY <1>3, <1>4, <1>5, <1>6, FinishStep

-----------------------------------------------------------------------------
(* The environment *)

LEMMA CrashKeeps ==
    ASSUME AttendanceInv, NEW w \in Worker, Crash(w)
    PROVE  AttendanceInv'
<1>1. Finish(w) /\ UNCHANGED <<lesson, cached, rows, answers, now, requests, applied>>
  BY DEF Crash, Finish, Goto
<1>2. RowsKept /\ \A v \in Worker : \A s : rows'[s] = rows[s]
  BY <1>1, SameRows
<1>3. OthersTyped
  BY <1>1, SameOthers
<1> QED
  BY <1>1, <1>2, <1>3, FinishStep

LEMMA EnvironmentKeeps ==
    ASSUME AttendanceInv, Tick \/ \E c \in Cache : Expire(c)
    PROVE  AttendanceInv'
<1>1. UNCHANGED <<pc, job, lesson, rows, answers, requests, applied>>
  BY DEF Tick, Expire
<1>2. RowsKept /\ \A v \in Worker : \A s : rows'[s] = rows[s]
  BY <1>1, SameRows
<1>3. cached' \in [Cache -> LessonStatus \cup {NoSnapshot}] /\ now' \in Nat
  BY SMTT(60) DEF Tick, Expire, AttendanceInv, TypeOK
<1>4. OthersTyped
  BY <1>1, <1>3 DEF AttendanceInv, TypeOK, OthersTyped
<1> QED
  BY <1>1, <1>2, <1>4, OutsideStep

LEMMA AttendanceStep ==
    ASSUME AttendanceInv, [Next]_vars
    PROVE  AttendanceInv'
<1>1. CASE UNCHANGED vars
  <2>1. UNCHANGED <<pc, job, lesson, rows, cached, answers, now, requests, applied>>
    BY <1>1 DEF vars
  <2>2. RowsKept /\ \A v \in Worker : \A s : rows'[s] = rows[s]
    BY <2>1, SameRows
  <2>3. OthersTyped
    BY <2>1, SameOthers
  <2> QED
    BY <2>1, <2>2, <2>3, OutsideStep
<1>2. ASSUME NEW k \in Key, ScanReplay(k) \/ \E w \in Worker : ScanReceive(w, k)
      PROVE  AttendanceInv'
  BY <1>2, ReceiveKeeps
<1>3. ASSUME NEW s \in Student, ManualCreate(s)
      PROVE  AttendanceInv'
  BY <1>3, ManualKeeps
<1>4. ASSUME NEW s \in Student, NEW w \in Worker, NEW op \in Operation, FetchRow(w, op, s)
      PROVE  AttendanceInv'
  BY <1>4, FetchRowKeeps
<1>5. ASSUME NEW w \in Worker, NEW op \in Operation, FetchLesson(w, op)
      PROVE  AttendanceInv'
  BY <1>5, FetchLessonKeeps
<1>6. ASSUME NEW w \in Worker, ScanStep(w)
      PROVE  AttendanceInv'
  BY <1>6, ScanReads, ScanEnds, ScanWritesKeep DEF ScanStep
<1>7. ASSUME NEW w \in Worker, RowStep(w)
      PROVE  AttendanceInv'
  BY <1>7, AdjustKeeps, CheckoutKeeps, CancelKeeps DEF RowStep
<1>8. ASSUME NEW w \in Worker, LessonStep(w)
      PROVE  AttendanceInv'
  BY <1>8, LessonGoes, CompletionKeeps, CommitKeeps DEF LessonStep
<1> QED
  BY <1>1, <1>2, <1>3, <1>4, <1>5, <1>6, <1>7, <1>8, CrashKeeps, EnvironmentKeeps DEF Next, Serve

\* The tables, caches and handlers stay well formed, and no commit ever meets
\* a CHECK constraint, whatever operations are deployed: corrections of stale
\* instances (services.py:596) included.
THEOREM Typing == Spec => []TypeOK
<1>1. AttendanceInv /\ [Next]_vars => AttendanceInv'
  BY AttendanceStep
<1>2. AttendanceInv => TypeOK
  BY DEF AttendanceInv
<1> QED
  BY <1>1, <1>2, AttendanceInitially, PTL DEF Spec

\* When a lesson shows as completed, every student of its roster has a row,
\* whatever scans, corrections, cancellations and crashes its completion
\* overlaps (finalize_lesson).
THEOREM EveryoneAccounted == Spec => []EveryoneAccountedFor
<1>1. AttendanceInv /\ [Next]_vars => AttendanceInv'
  BY AttendanceStep
<1>2. AttendanceInv => EveryoneAccountedFor
  BY DEF AttendanceInv
<1> QED
  BY <1>1, <1>2, AttendanceInitially, PTL DEF Spec

-----------------------------------------------------------------------------
(* Rows that nobody edits by hand *)

\* Corrections and check-outs by hand save what they read without a lock
\* (services.py:596, :723): the properties below are about the other services.
NoEdits == Operation \cap {"ADJUST", "CHECKOUT"} = {}

\* What a step may make of a row.
Cancellation(old, row) ==
    /\ old.state # "NOT_ATTENDED"
    /\ row.state = "CANCELLED"
    /\ row.status = "CANCELLED"

Closing(old, row) ==
    /\ old.state = "CHECKED_IN"
    /\ row.state = "CHECKED_OUT"
    /\ row.check_in = old.check_in
    /\ row.status = StatusAfter(old, row.check_out)
    /\ row.scan_source = "SYSTEM"

Absence(old, row) ==
    /\ old.state = "NOT_ATTENDED"
    /\ row.state = "ABSENT"
    /\ row.status = "ABSENT"

Moved(old, row) ==
    \/ row = old
    \/ \E t \in Nat : Arrival(old, row, t) \/ Departure(old, row, t)
    \/ Cancellation(old, row)
    \/ Closing(old, row)
    \/ Absence(old, row)

\* A scan commits a row and the history of its key.
ScanWritten(w, row) ==
    /\ rows' = [rows EXCEPT ![Scanned(w)] = row]
    /\ applied' = [applied EXCEPT ![job[w].key] = Append(applied[job[w].key], job[w].now)]
    /\ \/ Arrival(rows[Scanned(w)], row, job[w].now)
       \/ Departure(rows[Scanned(w)], row, job[w].now)

\* The steps that write rows.
LEMMA WritingSteps ==
    ASSUME NoEdits, AttendanceInv, [Next]_vars
    PROVE  \/ UNCHANGED <<rows, applied>>
           \/ \E w \in Worker, row \in Attendance : Writing(w) /\ ScanWritten(w, row)
           \/ \E s \in Student : ManualCreate(s)
           \/ \E w \in Worker : CancelAttendance(w)
           \/ \E w \in Worker : CommitCompletion(w)
<1> DEFINE Goal == \/ UNCHANGED <<rows, applied>>
                   \/ \E w \in Worker, row \in Attendance : Writing(w) /\ ScanWritten(w, row)
                   \/ \E s \in Student : ManualCreate(s)
                   \/ \E w \in Worker : CancelAttendance(w)
                   \/ \E w \in Worker : CommitCompletion(w)
<1>1. CASE UNCHANGED vars
  BY <1>1 DEF vars
<1>2. ASSUME NEW k \in Key, ScanReplay(k) \/ \E w \in Worker : ScanReceive(w, k)
      PROVE  Goal
  BY <1>2 DEF ScanReplay, ScanReceive
<1>3. ASSUME NEW s \in Student,
             ManualCreate(s) \/ \E w \in Worker, op \in Operation : FetchRow(w, op, s)
      PROVE  Goal
  BY <1>3 DEF FetchRow
<1>4. ASSUME NEW w \in Worker, (\E op \in Operation : FetchLesson(w, op)) \/ Crash(w)
      PROVE  Goal
  BY <1>4 DEF FetchLesson, Crash
<1>5. ASSUME NEW w \in Worker, ScanStep(w)
      PROVE  Goal
  <2>1. CASE ScanCheckIn(w) \/ ScanCorrectsAbsence(w) \/ ScanCheckOut(w)
    <3> PICK row \in Attendance, answer \in Answer :
               /\ SatisfiesChecks(row)
               /\ WriteRow(w, row, answer)
               /\ \/ Arrival(rows[Scanned(w)], row, job[w].now)
                  \/ Departure(rows[Scanned(w)], row, job[w].now)
      BY <2>1, ScanWrites
    <3>1. Writing(w) /\ ScanWritten(w, row)
      BY <2>1, ScanWrites, SMTT(60) DEF ScanWritten, WriteRow
    <3> QED
      BY <3>1
  <2> QED
    BY <1>5, <2>1 DEF ScanStep, ReadSnapshot, FillCache, ScanRefused, ScanAdmit,
                      ScanChangesNothing, ScanDenied, ScanLog
<1>6. ASSUME NEW w \in Worker, RowStep(w)
      PROVE  Goal
  <2>1. pc[w] \in Editing => job[w].op \in Operation
    BY ServiceHasRow
  <2>2. ~(pc[w] = "row" /\ AdjustStep(w)) /\ ~Checkout(w) /\ ~CheckoutState(w)
    BY <2>1 DEF AdjustStep, Adjust, Checkout, CheckoutState, Serving, Editing, NoEdits
  <2> QED
    BY <1>6, <2>2 DEF RowStep
<1>7. ASSUME NEW w \in Worker, LessonStep(w)
      PROVE  Goal
  BY <1>7 DEF LessonStep, SaveLesson, RefuseLesson, SweepRows, CommitLesson
<1>8. ASSUME Tick \/ \E c \in Cache : Expire(c)
      PROVE  Goal
  BY <1>8 DEF Tick, Expire
<1> QED
  BY <1>1, <1>2, <1>3, <1>4, <1>5, <1>6, <1>7, <1>8 DEF Next, Serve

\* Every step moves every row along, or leaves it.
LEMMA RowsMove ==
    ASSUME NoEdits, AttendanceInv, [Next]_vars, NEW s \in Student
    PROVE  Moved(rows[s], rows'[s])
<1>1. rows \in [Student -> Attendance] /\ \A t \in Student : SatisfiesChecks(rows[t])
  BY DEF AttendanceInv, TypeOK
<1>2. CASE UNCHANGED <<rows, applied>>
  BY <1>2 DEF Moved
<1>3. ASSUME NEW w \in Worker, NEW row \in Attendance, Writing(w), ScanWritten(w, row)
      PROVE  Moved(rows[s], rows'[s])
  <2>1. Scanned(w) \in Student /\ job[w].now \in Nat
    BY <1>3, ScanHasRow
  <2> QED
    BY <1>1, <1>3, <2>1 DEF ScanWritten, Moved
<1>4. ASSUME NEW t \in Student, ManualCreate(t)
      PROVE  Moved(rows[s], rows'[s])
  <2>1. rows' = [rows EXCEPT ![t] = CheckedIn(now, "MANUAL")] /\ rows[t].state = "NOT_ATTENDED" /\ now \in Nat
    BY <1>4 DEF ManualCreate, Recorded, AttendanceInv, TypeOK
  <2>2. Arrival(rows[t], CheckedIn(now, "MANUAL"), now)
    BY <2>1, CheckedInRow DEF Arrival
  <2> QED
    BY <1>1, <2>1, <2>2 DEF Moved
<1>5. ASSUME NEW w \in Worker, CancelAttendance(w)
      PROVE  Moved(rows[s], rows'[s])
  <2>1. pc[w] \in Editing
    BY <1>5 DEF CancelAttendance, Serving, Editing
  <2>2. job[w].student \in Student /\ rows[job[w].student].state # "NOT_ATTENDED"
    BY <2>1, ServiceHasRow
  <2> PICK row \in Attendance :
           /\ SatisfiesChecks(row) /\ row.state = "CANCELLED" /\ row.status = "CANCELLED"
           /\ rows' = [rows EXCEPT ![job[w].student] = row]
    BY <1>5, CancelledRow
  <2>3. Cancellation(rows[job[w].student], row)
    BY <2>2 DEF Cancellation
  <2> QED
    BY <1>1, <2>2, <2>3 DEF Moved
<1>6. ASSUME NEW w \in Worker, CommitCompletion(w)
      PROVE  Moved(rows[s], rows'[s])
  <2>1. job[w].now \in Nat
    BY <1>6, SweptRows
  <2>2. CASE rows[s].state = "CHECKED_IN" /\ rows'[s] = Close(rows[s], job[w].now)
    <3>1. Closing(rows[s], rows'[s])
      BY <1>1, <2>1, <2>2, ClosedRow DEF Closing
    <3> QED
      BY <3>1 DEF Moved
  <2>3. CASE ~Recorded(s) /\ rows'[s] = AbsentRow
    BY <2>3, AbsentRowIs DEF Recorded, Absence, Moved
  <2>4. CASE rows'[s] = rows[s]
    BY <2>4 DEF Moved
  <2> QED
    BY <1>6, <2>2, <2>3, <2>4, SweptRows
<1> QED
  BY <1>2, <1>3, <1>4, <1>5, <1>6, WritingSteps

-----------------------------------------------------------------------------
(* Status, gap and retries *)

\* The part of StatusMatchesState and of GapRespected one row has.
RowMatches(row) ==
    /\ row.state = "CANCELLED" <=> row.status = "CANCELLED"
    /\ row.state = "ABSENT" <=> row.status = "ABSENT"
    /\ row.state = "CHECKED_IN" => row.status = StatusAt(row.check_in)
    /\ row.state = "CHECKED_OUT" =>
          row.status = IF row.check_out - row.check_in < PartialMinutes
                       THEN "PARTIAL" ELSE StatusAt(row.check_in)
    /\ row.state = "CHECKED_OUT" /\ row.scan_source # "SYSTEM" =>
          row.check_out - row.check_in >= MinGap

LEMMA MoveMatches ==
    ASSUME NEW old \in Attendance, NEW row \in Attendance, RowMatches(old), Moved(old, row)
    PROVE  RowMatches(row)
<1>1. CASE row = old
  BY <1>1
<1>2. ASSUME NEW t \in Nat, Arrival(old, row, t)
      PROVE  RowMatches(row)
  BY <1>2 DEF Arrival, RowMatches, StatusAt
<1>3. ASSUME NEW t \in Nat, Departure(old, row, t)
      PROVE  RowMatches(row)
  BY <1>3 DEF Departure, RowMatches, StatusAfter, StatusAt
<1>4. CASE Cancellation(old, row)
  BY <1>4 DEF Cancellation, RowMatches
<1>5. CASE Closing(old, row)
  BY <1>5 DEF Closing, RowMatches, StatusAfter, StatusAt
<1>6. CASE Absence(old, row)
  BY <1>6 DEF Absence, RowMatches
<1> QED
  BY <1>1, <1>2, <1>3, <1>4, <1>5, <1>6 DEF Moved

\* What the scans of one key did: nothing, or an arrival that may still be
\* open at the time it was admitted, or all a scan can do.
KeyApplied(k) ==
    LET row == rows[ScanStudent[k]]
    IN  /\ Len(applied[k]) > 0 => row.state \in {"CHECKED_IN", "CHECKED_OUT", "CANCELLED"}
        /\ Len(applied[k]) > 0 /\ row.state = "CHECKED_IN" =>
              Len(applied[k]) = 1 /\ applied[k][1] = row.check_in
        /\ \A i, j \in 1 .. Len(applied[k]) : i < j => applied[k][j] - applied[k][i] >= MinGap

LessonInv ==
    /\ AttendanceInv
    /\ \A s \in Student : RowMatches(rows[s])
    /\ \A k \in Key : KeyApplied(k)

LEMMA LessonInitially == Init => LessonInv
<1> SUFFICES ASSUME Init PROVE LessonInv
  OBVIOUS
<1>1. \A s \in Student : rows[s] = NoRow
  BY DEF Init
<1>2. RowMatches(NoRow)
  BY DEF NoRow, RowMatches
<1>3. \A k \in Key : Len(applied[k]) = 0
  BY DEF Init
<1>4. \A k \in Key : KeyApplied(k)
  BY <1>3 DEF KeyApplied
<1> QED
  BY <1>1, <1>2, <1>4, AttendanceInitially DEF LessonInv

\* A row that the scans of a key wrote goes on without them.
LEMMA KeyKept ==
    ASSUME NoEdits, LessonInv, [Next]_vars, NEW k \in Key, applied'[k] = applied[k]
    PROVE  KeyApplied(k)'
<1> DEFINE s == ScanStudent[k]
<1>1. s \in Student
  BY AttendanceAssumption
<1>2. KeyApplied(k)
  BY DEF LessonInv
<1>3. Moved(rows[s], rows'[s])
  BY <1>1, RowsMove DEF LessonInv
<1>4. ASSUME rows[s].state \in {"CHECKED_IN", "CHECKED_OUT", "CANCELLED"}
      PROVE  /\ rows'[s].state \in {"CHECKED_IN", "CHECKED_OUT", "CANCELLED"}
             /\ rows'[s].state = "CHECKED_IN" => rows'[s] = rows[s]
  BY <1>3, <1>4 DEF Moved, Arrival, Departure, Cancellation, Closing, Absence
<1> QED
  BY <1>2, <1>4 DEF KeyApplied

\* A scan of the key writes the row: its first arrival, or the departure
\* after the gap of the arrival that is open.
LEMMA KeyWritten ==
    ASSUME LessonInv, NEW w \in Worker, NEW row \in Attendance, Writing(w), ScanWritten(w, row),
           NEW k \in Key, k = job[w].key
    PROVE  KeyApplied(k)'
<1>1. job[w].now \in Nat /\ Scanned(w) \in Student /\ rows[Scanned(w)] \in Attendance
  BY ScanHasRow DEF LessonInv
<1> PICK t \in Nat : t = job[w].now
  BY <1>1
<1> PICK s \in Student : s = Scanned(w)
  BY <1>1
<1> PICK old \in Attendance : old = rows[s]
  BY <1>1
<1> PICK q \in Seq(Nat) : q = applied[k]
  BY DEF LessonInv, AttendanceInv, TypeOK
<1>2. s = ScanStudent[k]
  BY DEF Scanned
<1>3. rows'[s] = row /\ applied'[k] = Append(q, t)
  BY DEF ScanWritten, LessonInv, AttendanceInv, TypeOK
<1>4. Arrival(old, row, t) \/ Departure(old, row, t)
  BY DEF ScanWritten
<1>5. /\ Len(q) > 0 => old.state \in {"CHECKED_IN", "CHECKED_OUT", "CANCELLED"}
      /\ Len(q) > 0 /\ old.state = "CHECKED_IN" => Len(q) = 1 /\ q[1] = old.check_in
  BY <1>2 DEF LessonInv, KeyApplied
<1>6. /\ Len(Append(q, t)) = Len(q) + 1 /\ Append(q, t)[Len(q) + 1] = t
      /\ \A i \in 1 .. Len(q) : Append(q, t)[i] = q[i]
      /\ Len(q) \in Nat
  BY AppendProperties, LenProperties
<1>7. CASE Arrival(old, row, t)
  <2>1. Len(q) = 0
    BY <1>5, <1>6, <1>7, SMTT(60) DEF Arrival
  <2>2. row.state = "CHECKED_IN" /\ row.check_in = t
    BY <1>7 DEF Arrival
  <2> QED
    BY <1>2, <1>3, <1>6, <2>1, <2>2 DEF KeyApplied
<1>8. CASE Departure(old, row, t)
  <2>1. old.state = "CHECKED_IN" /\ row.state = "CHECKED_OUT" /\ t - old.check_in >= MinGap
    BY <1>8 DEF Departure
  <2>2. Len(q) = 0 \/ (Len(q) = 1 /\ q[1] = old.check_in)
    <3>1. Len(q) > 0 \/ Len(q) = 0
      BY <1>6
    <3> QED
      BY <1>5, <2>1, <3>1, Zenon
  <2>3. ASSUME NEW i \in 1 .. Len(q) + 1, NEW j \in 1 .. Len(q) + 1, i < j
        PROVE  Append(q, t)[j] - Append(q, t)[i] >= MinGap
    <3> PICK n \in Nat : n = Len(q)
      BY <1>6
    <3>1. n # 0
      BY <2>3
    <3>2. n = 1 /\ q[1] = old.check_in
      BY <2>2, <3>1, Zenon
    <3>3. n = 1 /\ i = 1 /\ j = 2
      BY <2>3, <3>2
    <3>4. Append(q, t)[1] = old.check_in /\ Append(q, t)[2] = t
      BY <1>6, <3>2
    <3> QED
      BY <2>1, <3>3, <3>4
  <2> QED
    BY <1>2, <1>3, <1>6, <2>1, <2>3, SMTT(60) DEF KeyApplied
<1> QED
  BY <1>4, <1>7, <1>8

LEMMA LessonStepKeeps ==
    ASSUME NoEdits, LessonInv, [Next]_vars
    PROVE  LessonInv'
<1>1. AttendanceInv /\ AttendanceInv'
  BY AttendanceStep DEF LessonInv
<1>2. ASSUME NEW s \in Student
      PROVE  RowMatches(rows'[s])
  <2>1. Moved(rows[s], rows'[s])
    BY <1>1, RowsMove
  <2>2. rows[s] \in Attendance /\ rows'[s] \in Attendance /\ RowMatches(rows[s])
    BY <1>1 DEF LessonInv, AttendanceInv, TypeOK
  <2> QED
    BY <2>1, <2>2, MoveMatches
<1>3. ASSUME NEW k \in Key
      PROVE  KeyApplied(k)'
  <2>1. CASE applied'[k] = applied[k]
    BY <2>1, KeyKept
  <2>2. ASSUME NEW w \in Worker, NEW row \in Attendance, Writing(w), ScanWritten(w, row)
        PROVE  KeyApplied(k)'
    <3>1. k = job[w].key => KeyApplied(k)'
      BY <2>2, KeyWritten
    <3>2. k # job[w].key => applied'[k] = applied[k]
      BY <1>1, <2>2 DEF ScanWritten, AttendanceInv, TypeOK
    <3> QED
      BY <2>1, <3>1, <3>2
  <2>3. CASE \/ \E s \in Student : ManualCreate(s)
             \/ \E w \in Worker : CancelAttendance(w) \/ CommitCompletion(w)
    BY <2>1, <2>3 DEF ManualCreate, CancelAttendance, Serving, CommitCompletion
  <2> QED
    BY <1>1, <2>1, <2>2, <2>3, WritingSteps
<1> QED
  BY <1>1, <1>2, <1>3 DEF LessonInv

\* State, outcome and times of every row agree, in whatever order the sweep,
\* scans and cancellations write their parts of it.
THEOREM RowsAgree ==
    ASSUME NoEdits
    PROVE  Spec => []RowsHold
<1>1. LessonInv /\ [Next]_vars => LessonInv'
  BY LessonStepKeeps
<1>2. LessonInv => RowsHold
  BY DEF LessonInv, AttendanceInv, RowMatches, RowsHold, StatusMatchesState
<1> QED
  BY <1>1, <1>2, LessonInitially, PTL DEF Spec

\* Nobody is checked out before the gap has passed, however the requests of
\* two scanners overtake each other (services.py:444).
THEOREM GapKept ==
    ASSUME NoEdits
    PROVE  Spec => []GapRespected
<1>1. LessonInv /\ [Next]_vars => LessonInv'
  BY LessonStepKeeps
<1>2. LessonInv => GapRespected
  BY DEF LessonInv, RowMatches, GapRespected
<1> QED
  BY <1>1, <1>2, LessonInitially, PTL DEF Spec

\* A scan retried with its key, concurrently or after a crash, changes the
\* row once, or checks out after the gap (docs/05-api-and-ui.md:178).
THEOREM RetriesApplyOnce ==
    ASSUME NoEdits
    PROVE  Spec => []RetryAppliesOnce
<1>1. LessonInv /\ [Next]_vars => LessonInv'
  BY LessonStepKeeps
<1>2. LessonInv => RetryAppliesOnce
  <2> SUFFICES ASSUME LessonInv, NEW k \in Key
               PROVE  \A i, j \in DOMAIN applied[k] :
                         i < j => applied[k][j] - applied[k][i] >= MinGap
    BY DEF RetryAppliesOnce
  <2>1. DOMAIN applied[k] = 1 .. Len(applied[k])
    BY LenProperties DEF LessonInv, AttendanceInv, TypeOK
  <2> QED
    BY <2>1 DEF LessonInv, KeyApplied
<1> QED
  BY <1>1, <1>2, LessonInitially, PTL DEF Spec

-----------------------------------------------------------------------------
(* The lifecycle *)

States == [s \in Student |-> rows[s].state]

\* One row is written: its student moves, the others stay.
LEMMA OneMoves ==
    ASSUME AttendanceInv, NEW s \in Student, NEW row \in Attendance, rows' = [rows EXCEPT ![s] = row],
           NEW from, rows[s].state \in from
    PROVE  /\ \A t \in {s} : States[t] \in from
           /\ States' = [t \in Student |-> IF t \in {s} THEN row.state ELSE States[t]]
<1>1. rows \in [Student -> Attendance]
  BY DEF AttendanceInv, TypeOK
<1>2. \A t \in Student : rows'[t].state = IF t \in {s} THEN row.state ELSE rows[t].state
  BY <1>1
<1> QED
  BY <1>2 DEF States

\* Committing a completion closes check-ins and finds the missing absent.
LEMMA CompletionMoves ==
    ASSUME AttendanceInv, NEW w \in Worker, CommitCompletion(w)
    PROVE  \E leavers, missing \in SUBSET Student :
              /\ \A s \in leavers : States[s] = "CHECKED_IN"
              /\ \A s \in missing : States[s] = "NOT_ATTENDED"
              /\ States' = [s \in Student |->
                     IF s \in leavers THEN "CHECKED_OUT"
                     ELSE IF s \in missing THEN "ABSENT" ELSE States[s]]
<1>1. /\ rows \in [Student -> Attendance] /\ \A s \in Student : SatisfiesChecks(rows[s])
  BY DEF AttendanceInv, TypeOK
<1>2. job[w].sweep \subseteq Student /\ job[w].now \in Nat
  BY SweptRows
<1> DEFINE leavers == job[w].sweep
           missing == Missing(w)
<1>3. missing \subseteq Student
  BY AttendanceAssumption DEF Missing
<1>4. ASSUME NEW s \in Student
      PROVE  /\ s \in leavers => rows[s].state = "CHECKED_IN"
             /\ s \in missing => rows[s].state = "NOT_ATTENDED"
             /\ rows'[s].state = IF s \in leavers THEN "CHECKED_OUT"
                                 ELSE IF s \in missing THEN "ABSENT" ELSE rows[s].state
  <2>1. s \in missing => rows[s].state = "NOT_ATTENDED"
    BY DEF Missing, Recorded
  <2>2. CASE s \in job[w].sweep /\ rows[s].state = "CHECKED_IN" /\ rows'[s] = Close(rows[s], job[w].now)
    <3>1. rows'[s].state = "CHECKED_OUT"
      BY <1>1, <1>2, <2>2, ClosedRow
    <3> QED
      BY <2>1, <2>2, <3>1
  <2>3. CASE s \in Missing(w) /\ ~Recorded(s) /\ rows'[s] = AbsentRow
    <3>1. s \notin leavers
      BY <2>3 DEF CommitCompletion, AttendanceInv, HandlerOK, Recorded
    <3> QED
      BY <2>1, <2>3, <3>1, AbsentRowIs
  <2>4. CASE s \notin job[w].sweep \cup Missing(w) /\ rows'[s] = rows[s]
    BY <2>4
  <2> QED
    BY <2>2, <2>3, <2>4, SweptRows
<1> HIDE DEF leavers, missing
<1>5. /\ \A s \in leavers : States[s] = "CHECKED_IN"
      /\ \A s \in missing : States[s] = "NOT_ATTENDED"
  BY <1>2, <1>3, <1>4 DEF States, leavers
<1>6. States' = [s \in Student |->
          IF s \in leavers THEN "CHECKED_OUT" ELSE IF s \in missing THEN "ABSENT" ELSE States[s]]
  BY <1>4 DEF States
<1>7. leavers \in SUBSET Student /\ missing \in SUBSET Student
  BY <1>2, <1>3 DEF leavers
<1> QED
  BY <1>5, <1>6, <1>7

\* Every step of the lesson is a step of the lifecycle, or none.
LEMMA LifecycleStep ==
    ASSUME NoEdits, AttendanceInv, [Next]_vars
    PROVE  Lifecycle!Next \/ UNCHANGED States
<1>1. CASE UNCHANGED <<rows, applied>>
  BY <1>1 DEF States
<1>2. ASSUME NEW w \in Worker, NEW row \in Attendance, Writing(w), ScanWritten(w, row)
      PROVE  Lifecycle!Next
  <2> PICK s \in Student : s = Scanned(w)
    BY <1>2, ScanHasRow
  <2>1. rows' = [rows EXCEPT ![s] = row]
    BY <1>2 DEF ScanWritten
  <2>2. CASE Arrival(rows[s], row, job[w].now)
    <3>1. rows[s].state \in {"NOT_ATTENDED", "ABSENT"} /\ row.state = "CHECKED_IN"
      BY <2>2 DEF Arrival
    <3>2. /\ \A t \in {s} : States[t] \in {"NOT_ATTENDED", "ABSENT"}
          /\ States' = [t \in Student |-> IF t \in {s} THEN row.state ELSE States[t]]
      BY <2>1, <3>1, OneMoves
    <3>3. Lifecycle!CheckIn(s)
      BY <3>1, <3>2 DEF Lifecycle!CheckIn, Lifecycle!Move, States
    <3> QED
      BY <3>3 DEF Lifecycle!Next
  <2>3. CASE Departure(rows[s], row, job[w].now)
    <3>1. rows[s].state \in {"CHECKED_IN"} /\ row.state = "CHECKED_OUT"
      BY <2>3 DEF Departure
    <3>2. /\ \A t \in {s} : States[t] \in {"CHECKED_IN"}
          /\ States' = [t \in Student |-> IF t \in {s} THEN row.state ELSE States[t]]
      BY <2>1, <3>1, OneMoves
    <3>3. Lifecycle!CheckOut(s)
      BY <3>1, <3>2 DEF Lifecycle!CheckOut, Lifecycle!Move, States
    <3> QED
      BY <3>3 DEF Lifecycle!Next
  <2> QED
    BY <1>2, <2>2, <2>3 DEF ScanWritten
<1>3. ASSUME NEW s \in Student, ManualCreate(s)
      PROVE  Lifecycle!Next
  <2> DEFINE row == CheckedIn(now, "MANUAL")
  <2>1. now \in Nat
    BY DEF AttendanceInv, TypeOK
  <2>2. row \in Attendance /\ row.state = "CHECKED_IN"
    BY <2>1, CheckedInRow
  <2>3. rows' = [rows EXCEPT ![s] = row] /\ rows[s].state \in {"NOT_ATTENDED", "ABSENT"}
    BY <1>3 DEF ManualCreate, Recorded
  <2> HIDE DEF row
  <2>4. /\ \A t \in {s} : States[t] \in {"NOT_ATTENDED", "ABSENT"}
        /\ States' = [t \in Student |-> IF t \in {s} THEN row.state ELSE States[t]]
    BY <2>2, <2>3, OneMoves
  <2>5. Lifecycle!CheckIn(s)
    BY <2>2, <2>4 DEF Lifecycle!CheckIn, Lifecycle!Move, States
  <2> QED
    BY <2>5 DEF Lifecycle!Next
<1>4. ASSUME NEW w \in Worker, CancelAttendance(w)
      PROVE  Lifecycle!Next
  <2>1. pc[w] \in Editing
    BY <1>4 DEF CancelAttendance, Serving, Editing
  <2> PICK s \in Student : s = job[w].student
    BY <2>1, ServiceHasRow
  <2>2. rows[s] \in Attendance /\ rows[s].state # "NOT_ATTENDED"
    BY <2>1, ServiceHasRow
  <2>3. rows[s].state \in Lifecycle!AttendanceState \ {"NOT_ATTENDED"}
    BY <2>2 DEF Attendance, AttendanceState, Lifecycle!AttendanceState
  <2> PICK row \in Attendance :
           /\ SatisfiesChecks(row) /\ row.state = "CANCELLED" /\ row.status = "CANCELLED"
           /\ rows' = [rows EXCEPT ![job[w].student] = row]
    BY <1>4, CancelledRow
  <2>4. /\ \A t \in {s} : States[t] \in Lifecycle!AttendanceState \ {"NOT_ATTENDED"}
        /\ States' = [t \in Student |-> IF t \in {s} THEN row.state ELSE States[t]]
    BY <2>3, OneMoves, ZenonT(60)
  <2>5. Lifecycle!Cancel(s)
    BY <2>4 DEF Lifecycle!Cancel, Lifecycle!Move, States
  <2> QED
    BY <2>5 DEF Lifecycle!Next
<1>5. ASSUME NEW w \in Worker, CommitCompletion(w)
      PROVE  Lifecycle!Next
  <2> PICK leavers \in SUBSET Student, missing \in SUBSET Student :
              /\ \A s \in leavers : States[s] = "CHECKED_IN"
              /\ \A s \in missing : States[s] = "NOT_ATTENDED"
              /\ States' = [s \in Student |->
                     IF s \in leavers THEN "CHECKED_OUT"
                     ELSE IF s \in missing THEN "ABSENT" ELSE States[s]]
    BY <1>5, CompletionMoves
  <2>1. Lifecycle!Complete(leavers, missing)
    BY DEF Lifecycle!Complete, States
  <2> QED
    BY <2>1 DEF Lifecycle!Next
<1> QED
  BY <1>1, <1>2, <1>3, <1>4, <1>5, WritingSteps

\* Concurrent scans, manual entries, cancellations and sweeps move each
\* student along the documented lifecycle, and along no other way.
THEOREM LessonFollowsLifecycle ==
    ASSUME NoEdits
    PROVE  Spec => FollowsLifecycle
<1>1. AttendanceInv /\ [Next]_vars => AttendanceInv'
  BY AttendanceStep
<1>2. Init => Lifecycle!Init
  BY DEF Init, Lifecycle!Init, NoRow
<1>3. AttendanceInv /\ [Next]_vars => [Lifecycle!Next]_States
  BY LifecycleStep
<1>4. [Lifecycle!Next]_States <=> [Lifecycle!Next]_[s \in Student |-> rows[s].state]
  BY DEF States
<1> QED
  BY <1>1, <1>2, <1>3, <1>4, AttendanceInitially, PTL DEF Spec, FollowsLifecycle, Lifecycle!Spec
=============================================================================
