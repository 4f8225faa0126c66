------------------------------- MODULE Center --------------------------------
(***************************************************************************)
(* The components a center works with, one of them at work in each         *)
(* behaviour: the scene says which.  The variables of the others rest, so  *)
(* that the components' state spaces add up and are not multiplied; a      *)
(* variable that several of them have under one name is there once.  A     *)
(* property of the center is a family with a member for each scene.        *)
(***************************************************************************)
EXTENDS Naturals, Sequences

CONSTANTS
    Tenant, Metered,                \* clients, and those whose traffic is counted
    Worker,                         \* requests, threads, clerks: whoever works at the same time
    Thread,                         \* threads that carry a context
    Console, Minutes, MaxClock, MaxEntries,
    Process, ProcessOf, Limits, Minute, Hour, Span, History, MaxSeconds, MaxHits, MaxCrashes,
    Pupil, StudyGroup, OfferingOf, Capacity, SeatBudgets,
    Person, MaxUserRequests,
    Attempts, MaxCode, MaxRecordRequests,
    SubjectOffering, Member, Fee, Week, Horizon, MaxClassRequests,
    PolicyKey, PolicyValue, Reader, MaxUpdates,
    Worlds, PolicySets, Opens, Closes, LateAfter, Gap, Partial, MaxTime, MaxChanges,
    MaxDepth, MaxRows,
    Lesson, Attendee, GroupOf, SubjectOf, DayOf, HomeOf, Bill, ChargeOf, Cashier, Method, Due,
    Today, Recent, ReportBudgets,
    NoFilter, None, Unlimited, Off  \* no filter, no tenant, no limit, and a variable at rest

VARIABLES
    scene,
    deployment, open, cached, jar, clock, entries, flushed, last,
    policy, budget, threads, buffers, keys, requests, crashes, passed, lapsed, recorded, lost,
    run, listed, missed,
    users, stale,
    students, next,
    defaults, schedules, seats, promised,
    saved, cache, readers, raced,
    world, policies, row, screen, changes, owed, corrected,
    value, tokens, field, query, shown, blocks, built, unseen,
    ledger, adjusted,
    now, rows, tx, charges, left, groups, received, lessons

access == INSTANCE Access

traffic == INSTANCE Traffic WITH
    Tenant <- Metered, Thread <- Worker, Policies <- Limits, Period <- Span,
    MaxNow <- MaxSeconds, MaxRequests <- MaxHits

enrollment == INSTANCE Enrollment WITH
    Student <- Pupil, Group <- StudyGroup, Clerk <- Worker, Budgets <- SeatBudgets

accounts == INSTANCE Accounts WITH
    User <- Person, Request <- Worker, MaxRequests <- MaxUserRequests

records == INSTANCE StudentRecords WITH Request <- Worker, MaxRequests <- MaxRecordRequests

academics == INSTANCE Academics WITH
    Group <- StudyGroup, Offering <- SubjectOffering, Student <- Member, Request <- Worker,
    MaxRequests <- MaxClassRequests

settings == INSTANCE Settings WITH
    Key <- PolicyKey, Value <- PolicyValue, Updater <- Worker, MaxRequests <- MaxUpdates

gates == INSTANCE ScanGates WITH MaxNow <- MaxTime

scope == INSTANCE TenantScope

reports == INSTANCE Reports WITH Student <- Attendee, Charge <- Bill, Budgets <- ReportBudgets

ASSUME CenterAssumption ==
    /\ access!AccessAssumption /\ traffic!TrafficAssumption /\ enrollment!EnrollmentAssumption
    /\ accounts!AccountsAssumption /\ records!StudentRecordsAssumption
    /\ academics!AcademicsAssumption /\ settings!SettingsAssumption
    /\ gates!ScanGatesAssumption /\ scope!TenantScopeAssumption /\ reports!ReportsAssumption

-----------------------------------------------------------------------------

At(scenes) == scene \in scenes

accessVars == <<deployment, open, cached, jar, clock, entries, flushed, last>>

trafficVars == <<policy, budget, threads, buffers, keys, requests, crashes, passed, lapsed, recorded, lost>>

enrollmentVars == <<run, listed, missed>>

accountsVars == <<users, stale>>

recordsVars == <<students, next>>

academicsVars == <<defaults, schedules, seats, promised>>

settingsVars == <<saved, cache, readers, raced>>

gatesVars == <<world, policies, row, screen, changes, owed, corrected>>

scopeVars == <<value, tokens, field, query, shown, blocks, built, unseen>>

reportsVars == <<ledger, adjusted>>

\* At the beginning, and in every step.
OthersRest ==
    /\ IF At({"access"}) THEN TRUE ELSE
          /\ deployment = Off /\ open = Off /\ cached = Off /\ jar = Off /\ clock = Off
          /\ entries = Off /\ flushed = Off /\ last = Off
    /\ IF At({"traffic"}) THEN TRUE ELSE
          /\ policy = Off /\ budget = Off /\ threads = Off /\ buffers = Off /\ keys = Off
          /\ requests = Off /\ crashes = Off /\ passed = Off /\ lapsed = Off /\ recorded = Off
          /\ lost = Off
    /\ IF At({"enrollment"}) THEN TRUE ELSE
          /\ run = Off /\ listed = Off /\ missed = Off
    /\ IF At({"accounts"}) THEN TRUE ELSE
          /\ users = Off /\ stale = Off
    /\ IF At({"records"}) THEN TRUE ELSE
          /\ students = Off /\ next = Off
    /\ IF At({"academics"}) THEN TRUE ELSE
          /\ defaults = Off /\ schedules = Off /\ seats = Off /\ promised = Off
    /\ IF At({"settings"}) THEN TRUE ELSE
          /\ saved = Off /\ cache = Off /\ readers = Off /\ raced = Off
    /\ IF At({"gates"}) THEN TRUE ELSE
          /\ world = Off /\ policies = Off /\ row = Off /\ screen = Off /\ changes = Off
          /\ owed = Off /\ corrected = Off
    /\ IF At({"scope"}) THEN TRUE ELSE
          /\ value = Off /\ tokens = Off /\ field = Off /\ query = Off /\ shown = Off
          /\ blocks = Off /\ built = Off /\ unseen = Off
    /\ IF At({"reports"}) THEN TRUE ELSE
          /\ ledger = Off /\ adjusted = Off
    /\ IF At({"traffic", "gates"}) THEN TRUE ELSE now = Off
    /\ IF At({"enrollment", "scope", "reports"}) THEN TRUE ELSE rows = Off
    /\ IF At({"enrollment", "accounts", "records", "academics", "settings"}) THEN TRUE ELSE tx = Off
    /\ IF At({"enrollment", "reports"}) THEN TRUE ELSE charges = Off /\ left = Off
    /\ IF At({"accounts", "academics"}) THEN TRUE ELSE groups = Off
    /\ IF At({"accounts", "records", "academics", "settings"}) THEN TRUE ELSE received = Off
    /\ IF At({"academics", "reports"}) THEN TRUE ELSE lessons = Off

OthersStay ==
    /\ IF At({"access"}) THEN TRUE ELSE UNCHANGED accessVars
    /\ IF At({"traffic"}) THEN TRUE ELSE UNCHANGED trafficVars
    /\ IF At({"enrollment"}) THEN TRUE ELSE UNCHANGED enrollmentVars
    /\ IF At({"accounts"}) THEN TRUE ELSE UNCHANGED accountsVars
    /\ IF At({"records"}) THEN TRUE ELSE UNCHANGED recordsVars
    /\ IF At({"academics"}) THEN TRUE ELSE UNCHANGED academicsVars
    /\ IF At({"settings"}) THEN TRUE ELSE UNCHANGED settingsVars
    /\ IF At({"gates"}) THEN TRUE ELSE UNCHANGED gatesVars
    /\ IF At({"scope"}) THEN TRUE ELSE UNCHANGED scopeVars
    /\ IF At({"reports"}) THEN TRUE ELSE UNCHANGED reportsVars
    /\ IF At({"traffic", "gates"}) THEN TRUE ELSE UNCHANGED <<now>>
    /\ IF At({"enrollment", "scope", "reports"}) THEN TRUE ELSE UNCHANGED <<rows>>
    /\ IF At({"enrollment", "accounts", "records", "academics", "settings"}) THEN TRUE ELSE UNCHANGED <<tx>>
    /\ IF At({"enrollment", "reports"}) THEN TRUE ELSE UNCHANGED <<charges, left>>
    /\ IF At({"accounts", "academics"}) THEN TRUE ELSE UNCHANGED <<groups>>
    /\ IF At({"accounts", "records", "academics", "settings"}) THEN TRUE ELSE UNCHANGED <<received>>
    /\ IF At({"academics", "reports"}) THEN TRUE ELSE UNCHANGED <<lessons>>

CenterInit ==
    /\ \/ scene = "access" /\ access!Init
       \/ scene = "traffic" /\ traffic!Init
       \/ scene = "enrollment" /\ enrollment!Init
       \/ scene = "accounts" /\ accounts!Init
       \/ scene = "records" /\ records!Init
       \/ scene = "academics" /\ academics!Init
       \/ scene = "settings" /\ settings!Init
       \/ scene = "gates" /\ gates!Init
       \/ scene = "scope" /\ scope!Init
       \/ scene = "reports" /\ reports!Init
    /\ OthersRest

CenterNext ==
    /\ UNCHANGED scene
    /\ \/ scene = "access" /\ access!Next
       \/ scene = "traffic" /\ traffic!Next
       \/ scene = "enrollment" /\ enrollment!Next
       \/ scene = "accounts" /\ accounts!Next
       \/ scene = "records" /\ records!Next
       \/ scene = "academics" /\ academics!Next
       \/ scene = "settings" /\ settings!Next
       \/ scene = "gates" /\ gates!Next
       \/ scene = "scope" /\ scope!Next
       \/ scene = "reports" /\ reports!Next
    /\ OthersStay

allVars ==
    <<scene, accessVars, trafficVars, enrollmentVars, accountsVars, recordsVars, academicsVars,
      settingsVars, gatesVars, scopeVars, reportsVars,
      now, rows, tx, charges, left, groups, received, lessons>>

CenterSpec == CenterInit /\ [][CenterNext]_allVars

-----------------------------------------------------------------------------
(* Properties *)

\* Who acts where: an operator's record stays with the operator and a
\* suspended client's pages are shut (Access), and what a request reads and
\* saves is of the tenant in whose code it runs (TenantScope).
PlacesHold ==
    CASE scene = "access" -> access!AccessHolds
      [] scene = "scope" -> scope!ScopeHolds
      [] OTHER -> TRUE

\* Numbers on the screens: every request is counted once and within its
\* budget (Traffic), and the reports of the center agree with each other
\* (Reports).
NumbersHold ==
    CASE scene = "traffic" -> traffic!TrafficHolds
      [] scene = "reports" -> reports!ReportsAgree
      [] OTHER -> TRUE

\* What a center keeps of its students and groups: seats are billed and
\* overfull ones warned of (Enrollment), codes have no gap (StudentRecords),
\* generated lessons are there (Academics).
SeatsHold ==
    CASE scene = "enrollment" -> enrollment!EnrollmentHolds
      [] scene = "records" -> records!RecordsHold
      [] scene = "academics" -> academics!AcademicsHold
      [] OTHER -> TRUE

\* What is served follows what is saved: permissions the role (Accounts),
\* policies the settings (Settings), except where somebody was overtaken.
ServedHold ==
    CASE scene = "accounts" -> accounts!AccountsHold
      [] scene = "settings" -> settings!SettingsHold
      [] OTHER -> TRUE

\* ScanGates: an approval that was needed is on the row, the button that asks
\* for one leads on, and the scanner's colours tell what was written, except to
\* a student of another group whom the policy asks for an approval.
ScansHold == scene = "gates" => gates!ScansHold

\* No step undoes a decision but a decision, or an instance that another
\* request had overtaken: seats, accounts, student records and groups.
DecisionsStand ==
    [][CASE scene = "enrollment" -> enrollment!SeatsAreKept
         [] scene = "accounts" -> accounts!AccountsAreDecided
         [] scene = "records" -> records!RecordsAreDecided
         [] scene = "academics" -> academics!GroupsAreDecided
         [] OTHER -> TRUE]_allVars
=============================================================================
