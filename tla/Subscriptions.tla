---------------------------- MODULE Subscriptions ----------------------------
(***************************************************************************)
(* The life of a client: Tenant.transition_to and those who call it.       *)
(*                                                                         *)
(* A console request reads the tenant, decides on that instance, writes    *)
(* the columns that changed, and writes the audit row after that, each in  *)
(* a transaction of its own.  enforce_subscriptions does all its work in   *)
(* one transaction, so what it writes is locked until it commits and seen  *)
(* when it has.  purge_tenants deletes one tenant per transaction, from a  *)
(* list it read at the start.                                              *)
(***************************************************************************)
EXTENDS Integers, FiniteSets

CONSTANTS
    Tenant,          \* primary keys of clients
    Operator,        \* console requests that may run at the same time
    GraceDays,       \* --grace-days
    TrialDays,       \* the trial the wizard grants
    RetentionDays,   \* Plan.retention_days
    SoonDays,        \* how far the console's lists look ahead
    MaxDay,          \* bound: days the model runs for
    MaxRequests,     \* bound: console requests ever received
    MaxCrashes,      \* bound: runs of enforce_subscriptions that die halfway
    Never            \* a date that is not set

SubscriptionsAssumption ==
    /\ {GraceDays, TrialDays, RetentionDays} \subseteq Nat \ {0}
    /\ {SoonDays, MaxDay, MaxRequests, MaxCrashes} \subseteq Nat
    /\ Never \notin Nat

VARIABLES
    today,      \* the day it is
    rows,       \* the table tenancy_tenant
    trail,      \* per tenant and status, audit rows into it less those out of it
    requests,   \* what each console request is doing
    received,   \* how many requests the console received
    job,        \* the run of enforce_subscriptions
    purge,      \* the run of purge_tenants
    ran,        \* the commands that are through for today
    crashes,    \* how many runs of enforce_subscriptions died halfway
    broken      \* history: tenants whose trail a stale write or a crash broke

vars == <<today, rows, trail, requests, received, job, purge, ran, crashes, broken>>

-----------------------------------------------------------------------------
(* Rows *)

TenantStatus == {"TRIAL", "ACTIVE", "PAST_DUE", "SUSPENDED", "ARCHIVED"}

OPERATIONAL_STATUSES == {"TRIAL", "ACTIVE", "PAST_DUE"}

Stopped == {"SUSPENDED", "ARCHIVED"}

Date == Nat \cup {Never}

TenantRow ==
    [status : TenantStatus, trial_ends_at : Date, expires_at : Date, grace_until : Date,
     activated : BOOLEAN, purge_after : Date]

NoTenant == [status |-> "NONE"]

Purged == [status |-> "PURGED"]

Exists(t) == rows[t] \notin {NoTenant, Purged}

Past(date) == date # Never /\ date < today

Within(date, days) == date # Never /\ date <= today + days

\* What transition_to's save leaves in the row: "changed" is decided on the
\* instance, the other columns keep what the table holds.
Transition(row, instance, status) ==
    LET undo == instance.status \in Stopped /\ status \in OPERATIONAL_STATUSES
    IN  [row EXCEPT
           !.status = status,
           !.activated = @ \/ status = "ACTIVE",
           !.purge_after = CASE status = "ARCHIVED" -> today + RetentionDays
                             [] undo -> Never [] OTHER -> @]

\* A move is <<tenant, from, to>>; record writes one audit row for it.
Recorded(moves) ==
    [t \in Tenant |-> [s \in TenantStatus |->
        trail[t][s] + Cardinality({m \in moves : m[1] = t /\ m[3] = s})
                    - Cardinality({m \in moves : m[1] = t /\ m[2] = s})]]

NoRequest == [step |-> "idle"]

Request ==
    [step : {"read", "saved"}, tenant : Tenant, instance : TenantRow, to : TenantStatus]

NoJob == [sweep |-> 0, todo |-> <<>>, draft |-> <<>>, moves |-> {}, touched |-> {}]

\* The command wrote the row and has not committed.
Locked(t) == t \in DOMAIN job.draft

NoPurge == [todo |-> {}, touched |-> {}]

\* Clients from before: at work, suspended, or archived today.
Earlier ==
    {[status |-> status, trial_ends_at |-> Never, expires_at |-> Never, grace_until |-> Never,
      activated |-> TRUE, purge_after |-> IF status = "ARCHIVED" THEN RetentionDays ELSE Never] :
        status \in {"ACTIVE"} \cup Stopped}

Init ==
    /\ today = 0
    /\ rows \in [Tenant -> {NoTenant} \cup Earlier]
    /\ trail = [t \in Tenant |-> [s \in TenantStatus |-> IF rows[t].status = s THEN 1 ELSE 0]]
    /\ requests = [o \in Operator |-> NoRequest]
    /\ received = 0
    /\ job = NoJob
    /\ purge = NoPurge
    /\ ran = {}
    /\ crashes = 0
    /\ broken = {}

\* The console writes a row; a command that runs has it in its "touched",
\* a history.
Write(t, row) ==
    /\ rows' = [rows EXCEPT ![t] = row]
    /\ job' = IF job = NoJob THEN job ELSE [job EXCEPT !.touched = @ \cup {t}]
    /\ purge' = IF purge = NoPurge THEN purge ELSE [purge EXCEPT !.touched = @ \cup {t}]

-----------------------------------------------------------------------------
(* The console *)

\* provision_tenant, one transaction: a trial, or an active client.  The
\* row TENANT_CREATED leads to the first status.
ProvisionTenant(t, trial) ==
    LET status == IF trial THEN "TRIAL" ELSE "ACTIVE"
    IN  /\ rows[t] = NoTenant
        /\ received < MaxRequests
        /\ received' = received + 1
        /\ Write(t, [status |-> status, expires_at |-> Never, grace_until |-> Never,
                     trial_ends_at |-> IF trial THEN today + TrialDays ELSE Never,
                     activated |-> ~trial, purge_after |-> Never])
        /\ trail' = [trail EXCEPT ![t][status] = 1]
        /\ UNCHANGED <<today, requests, ran, crashes, broken>>

\* No screen sets the end of a subscription: it is written in the database.
SetExpiry(t) ==
    /\ Exists(t)
    /\ ~Locked(t)
    /\ received < MaxRequests
    /\ received' = received + 1
    /\ Write(t, [rows[t] EXCEPT !.expires_at = today + TrialDays])
    /\ UNCHANGED <<today, trail, requests, ran, crashes, broken>>

\* The status an operation asks for: suspend, resume or archive.
Target(op, instance) ==
    CASE op = "suspend" -> "SUSPENDED"
      [] op = "archive" -> "ARCHIVED"
      [] op = "resume" -> IF instance.activated THEN "ACTIVE" ELSE "TRIAL"

\* tenant_status and tenant_delete read the tenant.  A tenant that has the
\* status already is answered without a write.
ReadTenant(o, t, op) ==
    /\ requests[o] = NoRequest
    /\ received < MaxRequests
    /\ Exists(t)
    /\ Target(op, rows[t]) # rows[t].status
    /\ received' = received + 1
    /\ requests' = [requests EXCEPT ![o] =
           [step |-> "read", tenant |-> t, instance |-> rows[t], to |-> Target(op, rows[t])]]
    /\ UNCHANGED <<today, rows, trail, job, purge, ran, crashes, broken>>

\* The UPDATE waits for the command's lock.
SaveTransition(o) ==
    LET r == requests[o]
        t == r.tenant
    IN  /\ r.step = "read"
        /\ Exists(t)
        /\ ~Locked(t)
        /\ Write(t, Transition(rows[t], r.instance, r.to))
        /\ requests' = [requests EXCEPT ![o].step = "saved"]
        /\ broken' = IF rows[t].status # r.instance.status THEN broken \cup {t} ELSE broken
        /\ UNCHANGED <<today, trail, received, ran, crashes>>

\* record_platform, after the save.
RecordTransition(o) ==
    LET r == requests[o]
    IN  /\ r.step = "saved"
        /\ trail' = IF Exists(r.tenant) THEN Recorded({<<r.tenant, r.instance.status, r.to>>}) ELSE trail
        /\ requests' = [requests EXCEPT ![o] = NoRequest]
        /\ UNCHANGED <<today, rows, received, job, purge, ran, crashes, broken>>

\* The tenant was purged meanwhile: the UPDATE finds no row, and raises.
SaveFails(o) ==
    /\ requests[o].step = "read"
    /\ ~Exists(requests[o].tenant)
    /\ requests' = [requests EXCEPT ![o] = NoRequest]
    /\ UNCHANGED <<today, rows, trail, received, job, purge, ran, crashes, broken>>

\* The worker dies between two statements.
RequestDies(o) ==
    /\ requests[o].step = "saved"
    /\ broken' = broken \cup {requests[o].tenant}
    /\ requests' = [requests EXCEPT ![o] = NoRequest]
    /\ UNCHANGED <<today, rows, trail, received, job, purge, ran, crashes>>

-----------------------------------------------------------------------------
(* enforce_subscriptions *)

\* The three queries, on a row as the command sees it.
Matches(sweep, row) ==
    \/ sweep = 1 /\ row.status = "TRIAL" /\ Past(row.trial_ends_at)
    \/ sweep = 2 /\ row.status = "ACTIVE" /\ Past(row.expires_at)
    \/ sweep = 3 /\ row.status = "PAST_DUE" /\ Past(row.grace_until)

OwnRow(t) == IF Locked(t) THEN job.draft[t] ELSE rows[t]

\* The query of a sweep reads its tenants at once.
Selected(sweep) ==
    [t \in {u \in Tenant : Matches(sweep, OwnRow(u))} |-> OwnRow(t)]

BeginEnforcement ==
    /\ job = NoJob
    /\ "enforce" \notin ran
    /\ job' = [NoJob EXCEPT !.sweep = 1, !.todo = Selected(1)]
    /\ UNCHANGED <<today, rows, trail, requests, received, purge, ran, crashes, broken>>

NextSweep ==
    /\ job.sweep \in {1, 2}
    /\ DOMAIN job.todo = {}
    /\ job' = [job EXCEPT !.sweep = @ + 1, !.todo = Selected(job.sweep + 1)]
    /\ UNCHANGED <<today, rows, trail, requests, received, purge, ran, crashes, broken>>

\* Mutant: the command keeps no grace period.
GraceForgotten(row, instance) == row.grace_until

\* grace_until is set once, and kept ever after.
Grace(row, instance) ==
    IF job.sweep \in {1, 2} /\ instance.grace_until = Never THEN today + GraceDays ELSE row.grace_until

\* _move: the instance is the one its sweep read.
Move(t) ==
    LET instance == job.todo[t]
        to == IF job.sweep = 3 THEN "SUSPENDED" ELSE "PAST_DUE"
        row == [OwnRow(t) EXCEPT !.grace_until = Grace(OwnRow(t), instance)]
    IN  /\ t \in DOMAIN job.todo
        /\ Exists(t)
        /\ job' = [job EXCEPT
              !.todo = [u \in DOMAIN job.todo \ {t} |-> job.todo[u]],
              !.draft = [u \in DOMAIN job.draft \cup {t} |->
                           IF u = t THEN Transition(row, instance, to) ELSE job.draft[u]],
              !.moves = @ \cup {<<t, instance.status, to>>}]
        /\ broken' = IF OwnRow(t).status # instance.status THEN broken \cup {t} ELSE broken
        /\ UNCHANGED <<today, rows, trail, requests, received, purge, ran, crashes>>

\* Mutant: the moves of the command leave no audit row.
CommitUnaudited ==
    /\ job.sweep = 3
    /\ DOMAIN job.todo = {}
    /\ rows' = [t \in Tenant |-> OwnRow(t)]
    /\ job' = NoJob
    /\ ran' = ran \cup {"enforce"}
    /\ UNCHANGED <<today, trail, requests, received, purge, crashes, broken>>

CommitEnforcement ==
    /\ job.sweep = 3
    /\ DOMAIN job.todo = {}
    /\ rows' = [t \in Tenant |-> OwnRow(t)]
    /\ trail' = Recorded(job.moves)
    /\ purge' = IF purge = NoPurge THEN purge
                ELSE [purge EXCEPT !.touched = @ \cup DOMAIN job.draft]
    /\ job' = NoJob
    /\ ran' = ran \cup {"enforce"}
    /\ UNCHANGED <<today, requests, received, crashes, broken>>

\* The command dies, or a tenant it is to move was purged: all is rolled
\* back, and the next run is tomorrow's.
EnforcementFails ==
    /\ job.sweep # 0
    /\ \/ (\E t \in DOMAIN job.todo : ~Exists(t)) /\ UNCHANGED crashes
       \/ crashes < MaxCrashes /\ crashes' = crashes + 1
    /\ job' = NoJob
    /\ ran' = ran \cup {"enforce"}
    /\ UNCHANGED <<today, rows, trail, requests, received, purge, broken>>

-----------------------------------------------------------------------------
(* purge_tenants *)

PurgeDue(row) == row.status = "ARCHIVED" /\ Past(row.purge_after)

BeginPurge ==
    /\ purge.todo = {}
    /\ "purge" \notin ran
    /\ LET due == {t \in Tenant : Exists(t) /\ PurgeDue(rows[t])}
       IN  /\ purge' = [todo |-> due, touched |-> {}]
           /\ ran' = IF due = {} THEN ran \cup {"purge"} ELSE ran
    /\ UNCHANGED <<today, rows, trail, requests, received, job, crashes, broken>>

\* _purge deletes every row of the tenant, whatever its status is by now.
PurgeTenant(t) ==
    /\ t \in purge.todo
    /\ ~Locked(t)
    /\ rows' = [rows EXCEPT ![t] = Purged]
    /\ trail' = [trail EXCEPT ![t] = [s \in TenantStatus |-> 0]]     \* on_delete=SET_NULL
    /\ purge' = IF purge.todo = {t} THEN NoPurge ELSE [purge EXCEPT !.todo = @ \ {t}]
    /\ ran' = IF purge.todo = {t} THEN ran \cup {"purge"} ELSE ran
    /\ UNCHANGED <<today, requests, received, job, crashes, broken>>

PurgeDies ==
    /\ purge.todo # {}
    /\ purge' = NoPurge
    /\ ran' = ran \cup {"purge"}
    /\ UNCHANGED <<today, rows, trail, requests, received, job, crashes, broken>>

\* Both commands run daily.
NextDay ==
    /\ today < MaxDay
    /\ ran = {"enforce", "purge"}
    /\ today' = today + 1
    /\ ran' = {}
    /\ UNCHANGED <<rows, trail, requests, received, job, purge, crashes, broken>>

-----------------------------------------------------------------------------
(* The console's lists *)

\* Mutant: the trial's end counts whatever became of the trial.
AnyTrialEnds(t) == Exists(t) /\ Within(rows[t].trial_ends_at, SoonDays)

TrialEnds(t) == rows[t].status = "TRIAL" /\ Within(rows[t].trial_ends_at, SoonDays)

SubscriptionEnds(t) == Exists(t) /\ Within(rows[t].expires_at, SoonDays)

\* tenants?expiring=1 lists whoever has an end soon, stopped or not.
ListedExpiring == {t \in Tenant : SubscriptionEnds(t) \/ TrialEnds(t)}

OverviewExpiring == {t \in ListedExpiring : rows[t].status \in OPERATIONAL_STATUSES}

\* The dashboard page has two lists, and the list page one without trials.
DashboardExpiring == {t \in Tenant : SubscriptionEnds(t) /\ rows[t].status \in OPERATIONAL_STATUSES}

DashboardTrials == {t \in Tenant : TrialEnds(t)}

PageExpiring == {t \in Tenant : SubscriptionEnds(t)}

-----------------------------------------------------------------------------

Next ==
    \/ \E t \in Tenant, trial \in BOOLEAN : ProvisionTenant(t, trial)
    \/ \E t \in Tenant : SetExpiry(t)
    \/ \E o \in Operator, t \in Tenant, op \in {"suspend", "resume", "archive"} : ReadTenant(o, t, op)
    \/ \E o \in Operator : SaveTransition(o) \/ RecordTransition(o) \/ SaveFails(o) \/ RequestDies(o)
    \/ BeginEnforcement \/ NextSweep \/ CommitEnforcement \/ EnforcementFails
    \/ \E t \in DOMAIN job.todo : Move(t)
    \/ BeginPurge \/ PurgeDies
    \/ \E t \in purge.todo : PurgeTenant(t)
    \/ NextDay

Spec == Init /\ [][Next]_vars

\* The commands are run daily from cron; a process that runs goes on.
Fairness ==
    /\ WF_vars(BeginEnforcement) /\ WF_vars(NextSweep) /\ WF_vars(CommitEnforcement)
    /\ WF_vars(EnforcementFails /\ UNCHANGED crashes)
    /\ WF_vars(\E t \in DOMAIN job.todo : Move(t))
    /\ WF_vars(BeginPurge) /\ WF_vars(\E t \in purge.todo : PurgeTenant(t))
    /\ WF_vars(NextDay)

FairSpec == Spec /\ Fairness
-----------------------------------------------------------------------------
(* Properties *)

TypeOK ==
    /\ today \in 0 .. MaxDay
    /\ rows \in [Tenant -> TenantRow \cup {NoTenant, Purged}]
    /\ trail \in [Tenant -> [TenantStatus -> Int]]
    /\ requests \in [Operator -> Request \cup {NoRequest}]
    /\ received \in 0 .. MaxRequests
    /\ job.sweep \in 0 .. 3
    /\ ran \subseteq {"enforce", "purge"}
    /\ crashes \in 0 .. MaxCrashes
    /\ broken \subseteq Tenant

\* An archived client always has the date it is purged after, however stale
\* the instances were that wrote it: the screen prints the date, and without
\* one purge_tenants never sees the client.
ArchivedIsDated ==
    \A t \in Tenant : rows[t].status = "ARCHIVED" => rows[t].purge_after # Never

\* The audit rows of a client lead from its first status to the one it has,
\* unless a write overtook an instance or a process died before recording.
AuditExplainsStatus ==
    \A t \in Tenant \ broken :
        Exists(t) /\ (\A o \in Operator : requests[o].step = "saved" => requests[o].tenant # t) =>
            \A s \in TenantStatus : trail[t][s] = (IF s = rows[t].status THEN 1 ELSE 0)

\* Run again at once, the command changes nothing, but for the tenants the
\* console wrote while it ran.
RunAgainIsIdle ==
    [][\A t \in Tenant \ job.touched :
          job.sweep = 3 /\ job.todo = <<>> /\ job' = NoJob /\ (rows' # rows \/ job.moves = {})
              => ~(\E sweep \in 1 .. 3 : Matches(sweep, rows'[t]))]_vars

Resuming(t) ==
    \E o \in Operator :
        /\ requests[o].step = "read" /\ requests'[o].step = "saved"
        /\ requests[o].tenant = t /\ requests[o].to \in OPERATIONAL_STATUSES

\* A stopped client works again because an operator resumed it, or because
\* the command held the row it read before the client was stopped.
RevivedByDecisionOrRace ==
    [][\A t \in Tenant :
          rows[t].status \in Stopped /\ rows'[t].status \in OPERATIONAL_STATUSES
              => Resuming(t) \/ t \in broken]_vars

\* Who is purged is archived and past its date, unless it was written after
\* the command listed it.
PurgedWasDue ==
    [][\A t \in Tenant :
          Exists(t) /\ rows'[t] = Purged =>
              \/ rows[t].status = "ARCHIVED" /\ Past(rows[t].purge_after)
              \/ t \in purge.touched]_vars

Lapsed(t) == \E sweep \in {1, 2} : Matches(sweep, rows[t])

\* Whoever the next run moves towards suspension is on the overview, and the
\* dashboard page and the list page say the same.
LapseIsForeseen ==
    /\ \A t \in Tenant : Lapsed(t) => t \in OverviewExpiring
    /\ OverviewExpiring = DashboardExpiring \cup DashboardTrials
    /\ ListedExpiring \ OverviewExpiring = PageExpiring \ DashboardExpiring

\* The console received its last request, and answered.
Quiet == received = MaxRequests /\ \A o \in Operator : requests[o] = NoRequest

\* The runs before the last day, but for those that may die, suffice to see
\* a lapse and the end of the grace period.
DaysSuffice ==
    /\ job = NoJob
    /\ "enforce" \notin ran
    /\ today + GraceDays + 1 + MaxCrashes - crashes <= MaxDay

\* A client past its date that nobody renews or resumes is stopped.
LapsedIsStopped ==
    \A t \in Tenant :
        Quiet /\ Lapsed(t) /\ DaysSuffice ~> rows[t].status \notin OPERATIONAL_STATUSES

\* What the console may rely on in a client's row: its dates, and an audit
\* trail that leads to its status.
ClientsHold == TypeOK /\ ArchivedIsDated /\ AuditExplainsStatus

\* What the two commands may never do: move again what they just moved,
\* revive who was stopped, purge who was not due.
CommandsKeepDecisions == RunAgainIsIdle /\ RevivedByDecisionOrRace /\ PurgedWasDue
=============================================================================
