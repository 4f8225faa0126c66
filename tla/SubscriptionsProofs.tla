------------------------- MODULE SubscriptionsProofs -------------------------
(***************************************************************************)
(* Theorems about the Subscriptions of Platform, for any number of         *)
(* clients, console requests, days and crashes.                            *)
(***************************************************************************)
EXTENDS Platform, FiniteSetTheorems, TLAPS

Moves == Tenant \X Sub!TenantStatus \X Sub!TenantStatus

RowsOf == UNION {[some -> Sub!TenantRow] : some \in SUBSET Tenant}

SweepJob ==
    [sweep : 0 .. 3, todo : RowsOf, draft : RowsOf, moves : SUBSET Moves, touched : SUBSET Tenant]

SubTyped ==
    /\ Sub!TypeOK
    /\ job \in SweepJob /\ IsFiniteSet(job.moves)
    /\ purge \in [todo : SUBSET Tenant, touched : SUBSET Tenant]
    /\ IsFiniteSet({o \in Operator : calls[o] # Sub!NoRequest})

\* A sweep reads what it is to move, and what it moved stays locked.
JobOK ==
    /\ \A t \in DOMAIN job.todo :
          job.todo[t].status \in (IF job.sweep = 3 THEN {"PAST_DUE"} ELSE {"TRIAL", "ACTIVE"})
    /\ \A t \in DOMAIN job.draft : Sub!Exists(t) /\ job.draft[t].status \in {"PAST_DUE", "SUSPENDED"}
    /\ \A m \in job.moves : m[1] \in DOMAIN job.draft

\* Before it is provisioned, a client has neither audit rows nor requests.
Untouched(t) ==
    /\ \A s \in Sub!TenantStatus : trail[t][s] = 0
    /\ \A o \in Operator : calls[o] # Sub!NoRequest => calls[o].tenant # t

SavedOn(t) == {o \in Operator : calls[o].step = "saved" /\ calls[o].tenant = t}

Into(t, s) == {o \in SavedOn(t) : calls[o].to = s}

OutOf(t, s) == {o \in SavedOn(t) : calls[o].instance.status = s}

MovesOf(t) == {m \in job.moves : m[1] = t}

Is(initial, s) == IF initial = s THEN 1 ELSE 0

\* The trail and the audit rows that saved requests still owe lead to the
\* status of the client.
Balanced(t) ==
    \A s \in Sub!TenantStatus :
        trail[t][s] + Cardinality(Into(t, s)) - Cardinality(OutOf(t, s)) = Is(rows[t].status, s)

\* The moves of the command lead from the row to its draft.
Path(t) ==
    \/ t \notin DOMAIN job.draft /\ MovesOf(t) = {}
    \/ /\ t \in DOMAIN job.draft /\ job.draft[t].status = "PAST_DUE"
       /\ rows[t].status \in {"TRIAL", "ACTIVE"} /\ MovesOf(t) = {<<t, rows[t].status, "PAST_DUE">>}
    \/ /\ t \in DOMAIN job.draft /\ job.draft[t].status = "SUSPENDED"
       /\ rows[t].status = "PAST_DUE" /\ MovesOf(t) = {<<t, "PAST_DUE", "SUSPENDED">>}
    \/ /\ t \in DOMAIN job.draft /\ job.draft[t].status = "SUSPENDED"
       /\ rows[t].status \in {"TRIAL", "ACTIVE"}
       /\ MovesOf(t) = {<<t, rows[t].status, "PAST_DUE">>, <<t, "PAST_DUE", "SUSPENDED">>}

Audited(t) == Path(t) /\ (Sub!Exists(t) => Balanced(t))

SubInv ==
    /\ SubTyped
    /\ JobOK
    /\ Sub!ArchivedIsDated
    /\ \A t \in Tenant : rows[t] = Sub!NoTenant => Untouched(t)
    /\ \A t \in Tenant \ broken : Audited(t)

-----------------------------------------------------------------------------
(* Rows, requests and the job *)

LEMMA RowIs ==
    ASSUME Sub!TypeOK, NEW t \in Tenant
    PROVE  /\ Sub!Exists(t) <=> rows[t] \in Sub!TenantRow
           /\ Sub!Exists(t) <=> rows[t].status \in Sub!TenantStatus
           /\ ~Sub!Exists(t) => rows[t].status # "ARCHIVED"
<1>1. rows[t] \in Sub!TenantRow \cup {Sub!NoTenant, Sub!Purged}
  BY DEF Sub!TypeOK
<1>2. \A row \in Sub!TenantRow : row.status \in Sub!TenantStatus
  BY DEF Sub!TenantRow
<1>3. Sub!NoTenant.status \notin Sub!TenantStatus /\ Sub!Purged.status \notin Sub!TenantStatus
  BY DEF Sub!NoTenant, Sub!Purged, Sub!TenantStatus
<1>4. "ARCHIVED" \in Sub!TenantStatus
  BY DEF Sub!TenantStatus
<1> QED
  BY <1>1, <1>2, <1>3, <1>4 DEF Sub!Exists

LEMMA ClientIs ==
    ASSUME NEW row \in Sub!TenantRow
    PROVE  row.status \in Sub!TenantStatus /\ row \notin {Sub!NoTenant, Sub!Purged}
BY DEF Sub!TenantRow, Sub!NoTenant, Sub!Purged, Sub!TenantStatus

LEMMA TransitionIs ==
    ASSUME Sub!SubscriptionsAssumption, today \in Nat, NEW row \in Sub!TenantRow, NEW instance,
           NEW to \in Sub!TenantStatus
    PROVE  LET new == Sub!Transition(row, instance, to)
           IN  new \in Sub!TenantRow /\ new.status = to /\ (to = "ARCHIVED" => new.purge_after # Never)
<1> DEFINE undo == instance.status \in Sub!Stopped /\ to \in Sub!OPERATIONAL_STATUSES
           activated == row.activated \/ to = "ACTIVE"
           purge_after == CASE to = "ARCHIVED" -> today + RetentionDays [] undo -> Never
                            [] OTHER -> row.purge_after
           new == [row EXCEPT !.status = to, !.activated = activated, !.purge_after = purge_after]
<1>1. Sub!Transition(row, instance, to) = new
  BY DEF Sub!Transition
<1>2. activated \in BOOLEAN
  OBVIOUS
<1>3. row.purge_after \in Sub!Date
  BY DEF Sub!TenantRow
<1>4. today + RetentionDays \in Nat /\ Never \notin Nat
  BY DEF Sub!SubscriptionsAssumption
<1>5. to = "ARCHIVED" => ~undo /\ purge_after = today + RetentionDays
  BY DEF Sub!OPERATIONAL_STATUSES
<1>6. purge_after \in Sub!Date
  BY <1>3, <1>4 DEF Sub!Date
<1> HIDE DEF activated, purge_after, undo
<1>7. new \in Sub!TenantRow /\ new.status = to /\ new.purge_after = purge_after
  BY <1>2, <1>6 DEF Sub!TenantRow
<1> QED
  BY <1>1, <1>4, <1>5, <1>7

LEMMA NoJobIs ==
    /\ Sub!NoJob \in SweepJob /\ Sub!NoJob.sweep = 0 /\ Sub!NoJob.todo = <<>> /\ Sub!NoJob.draft = <<>>
    /\ Sub!NoJob.moves = {} /\ DOMAIN <<>> = {}
<1>1. <<>> \in [{} -> Sub!TenantRow] /\ DOMAIN <<>> = {}
  OBVIOUS
<1>2. {} \in SUBSET Tenant
  OBVIOUS
<1>3. <<>> \in RowsOf
  BY <1>1, <1>2 DEF RowsOf
<1> QED
  BY <1>1, <1>3 DEF Sub!NoJob, SweepJob

LEMMA RowsOfIs ==
    ASSUME NEW f
    PROVE  /\ f \in RowsOf => DOMAIN f \subseteq Tenant /\ \A t \in DOMAIN f : f[t] \in Sub!TenantRow
           /\ \A some \in SUBSET Tenant : f \in [some -> Sub!TenantRow] => f \in RowsOf
BY DEF RowsOf

\* The sweeps, drafts and moves of the command do not change when the console
\* writes a row.
LEMMA WriteIs ==
    ASSUME SubTyped, NEW t \in Tenant, NEW row, Sub!Write(t, row)
    PROVE  /\ \A u \in Tenant : rows'[u] = IF u = t THEN row ELSE rows[u]
           /\ job' \in SweepJob /\ job'.sweep = job.sweep /\ job'.todo = job.todo
           /\ job'.draft = job.draft /\ job'.moves = job.moves
           /\ purge' \in [todo : SUBSET Tenant, touched : SUBSET Tenant]
           /\ row \in Sub!TenantRow => rows' \in [Tenant -> Sub!TenantRow \cup {Sub!NoTenant, Sub!Purged}]
<1>1. /\ rows' = [rows EXCEPT ![t] = row]
      /\ job' = IF job = Sub!NoJob THEN job ELSE [job EXCEPT !.touched = @ \cup {t}]
      /\ purge' = IF purge = Sub!NoPurge THEN purge ELSE [purge EXCEPT !.touched = @ \cup {t}]
  BY DEF Sub!Write
<1>2. job \in SweepJob /\ purge \in [todo : SUBSET Tenant, touched : SUBSET Tenant]
      /\ rows \in [Tenant -> Sub!TenantRow \cup {Sub!NoTenant, Sub!Purged}]
  BY DEF SubTyped, Sub!TypeOK
<1>3. /\ job' \in SweepJob /\ job'.sweep = job.sweep /\ job'.todo = job.todo
      /\ job'.draft = job.draft /\ job'.moves = job.moves
  <2>1. ASSUME NEW j \in SweepJob
        PROVE  LET new == [j EXCEPT !.touched = @ \cup {t}]
               IN  /\ new \in SweepJob /\ new.sweep = j.sweep /\ new.todo = j.todo
                   /\ new.draft = j.draft /\ new.moves = j.moves
    BY DEF SweepJob
  <2> QED
    BY <1>1, <1>2, <2>1
<1>4. purge' \in [todo : SUBSET Tenant, touched : SUBSET Tenant]
  BY <1>1, <1>2
<1> QED
  BY <1>1, <1>2, <1>3, <1>4

LEMMA RequestIs ==
    ASSUME Sub!TypeOK, NEW o \in Operator
    PROVE  /\ calls[o] # Sub!NoRequest => calls[o] \in Sub!Request /\ calls[o].tenant \in Tenant
           /\ calls[o].step \in {"idle", "read", "saved"}
           /\ calls[o].step # "idle" <=> calls[o] # Sub!NoRequest
           /\ Sub!NoRequest.step = "idle"
<1>1. calls[o] \in Sub!Request \cup {Sub!NoRequest}
  BY DEF Sub!TypeOK
<1>2. \A r \in Sub!Request : r.step \in {"read", "saved"} /\ r.tenant \in Tenant
  BY DEF Sub!Request
<1>3. Sub!NoRequest.step = "idle"
  BY DEF Sub!NoRequest
<1> QED
  BY <1>1, <1>2, <1>3

LEMMA SavedFinite ==
    ASSUME SubTyped, NEW t, NEW s
    PROVE  /\ IsFiniteSet(Into(t, s)) /\ Cardinality(Into(t, s)) \in Nat
           /\ IsFiniteSet(OutOf(t, s)) /\ Cardinality(OutOf(t, s)) \in Nat
<1> DEFINE busy == {o \in Operator : calls[o] # Sub!NoRequest}
<1>1. IsFiniteSet(busy)
  BY DEF SubTyped
<1>2. \A o \in Operator : calls[o].step = "saved" => calls[o] # Sub!NoRequest
  BY DEF Sub!NoRequest
<1>3. Into(t, s) \in SUBSET busy /\ OutOf(t, s) \in SUBSET busy
  BY <1>2 DEF Into, OutOf, SavedOn
<1> HIDE DEF busy
<1> QED
  BY <1>1, <1>3, FS_Subset, FS_CardinalityType

\* A client whose saved requests stay as they are.
SameSaved(t) ==
    \A o \in Operator :
        \/ calls'[o] = calls[o]
        \/ /\ calls[o].step = "saved" => calls[o].tenant # t
           /\ calls'[o].step = "saved" => calls'[o].tenant # t

LEMMA SavedKept ==
    ASSUME NEW t, SameSaved(t), NEW s
    PROVE  Into(t, s)' = Into(t, s) /\ OutOf(t, s)' = OutOf(t, s)
BY DEF SameSaved, Into, OutOf, SavedOn

\* A client that a step does not move.
LEMMA AuditKept ==
    ASSUME NEW t \in Tenant, Audited(t), Sub!Exists(t)' => Sub!Exists(t),
           Sub!Exists(t)' \/ t \in DOMAIN job.draft => rows'[t].status = rows[t].status,
           trail'[t] = trail[t], job'.draft = job.draft, job'.moves = job.moves, SameSaved(t)
    PROVE  Audited(t)'
<1>1. MovesOf(t)' = MovesOf(t)
  BY DEF MovesOf
<1>2. Path(t)'
  BY <1>1 DEF Audited, Path
<1>3. ASSUME Sub!Exists(t)'
      PROVE  Balanced(t)'
  <2>1. Balanced(t) /\ rows'[t].status = rows[t].status
    BY <1>3 DEF Audited
  <2>2. \A s \in Sub!TenantStatus : Into(t, s)' = Into(t, s) /\ OutOf(t, s)' = OutOf(t, s)
    BY SavedKept
  <2> QED
    BY <2>1, <2>2 DEF Balanced
<1> QED
  BY <1>2, <1>3 DEF Audited

LEMMA JobKept ==
    ASSUME JobOK, job'.sweep = job.sweep, job'.todo = job.todo, job'.draft = job.draft,
           job'.moves = job.moves, \A t \in DOMAIN job.draft : Sub!Exists(t)'
    PROVE  JobOK'
BY DEF JobOK

LEMMA SubInitially ==
    ASSUME Sub!SubscriptionsAssumption, Sub!Init
    PROVE  SubInv
<1>1. job = Sub!NoJob /\ DOMAIN job.todo = {} /\ DOMAIN job.draft = {} /\ job.moves = {} /\ job.sweep = 0
  BY NoJobIs DEF Sub!Init
<1>2. Sub!Earlier \subseteq Sub!TenantRow
  <2>1. Never \in Sub!Date /\ RetentionDays \in Sub!Date /\ TRUE \in BOOLEAN
    BY DEF Sub!SubscriptionsAssumption, Sub!Date
  <2>2. {"ACTIVE"} \cup Sub!Stopped \subseteq Sub!TenantStatus
    BY DEF Sub!Stopped, Sub!TenantStatus
  <2>3. ASSUME NEW initial \in {"ACTIVE"} \cup Sub!Stopped
        PROVE  [status |-> initial, trial_ends_at |-> Never, expires_at |-> Never, grace_until |-> Never,
                activated |-> TRUE, purge_after |-> IF initial = "ARCHIVED" THEN RetentionDays ELSE Never]
                  \in Sub!TenantRow
    <3> DEFINE date == IF initial = "ARCHIVED" THEN RetentionDays ELSE Never
    <3>1. date \in Sub!Date
      BY <2>1
    <3> HIDE DEF date
    <3>2. [status |-> initial, trial_ends_at |-> Never, expires_at |-> Never, grace_until |-> Never,
           activated |-> TRUE, purge_after |-> date] \in Sub!TenantRow
      BY <2>1, <2>2, <3>1 DEF Sub!TenantRow
    <3> QED
      BY <3>2 DEF date
  <2> QED
    BY <2>3 DEF Sub!Earlier
<1>3. Sub!TypeOK
  <2>1. rows \in [Tenant -> Sub!TenantRow \cup {Sub!NoTenant, Sub!Purged}]
    BY <1>2 DEF Sub!Init
  <2>2. trail \in [Tenant -> [Sub!TenantStatus -> Int]]
    BY DEF Sub!Init
  <2>3. calls \in [Operator -> Sub!Request \cup {Sub!NoRequest}]
    BY DEF Sub!Init
  <2>4. today \in 0 .. MaxDay /\ received \in 0 .. MaxCalls /\ crashes \in 0 .. MaxCrashes
    BY DEF Sub!Init, Sub!SubscriptionsAssumption
  <2> QED
    BY <1>1, <2>1, <2>2, <2>3, <2>4 DEF Sub!Init, Sub!TypeOK
<1>4. \A o \in Operator : calls[o] = Sub!NoRequest /\ calls[o].step = "idle"
  BY DEF Sub!Init, Sub!NoRequest
<1>5. SubTyped
  <2>1. purge \in [todo : SUBSET Tenant, touched : SUBSET Tenant]
    BY DEF Sub!Init, Sub!NoPurge
  <2>2. {o \in Operator : calls[o] # Sub!NoRequest} = {}
    BY <1>4
  <2>3. IsFiniteSet({o \in Operator : calls[o] # Sub!NoRequest}) /\ IsFiniteSet(job.moves)
    BY <1>1, <2>2, FS_EmptySet
  <2> QED
    BY <1>1, <1>3, <2>1, <2>3, NoJobIs DEF SubTyped
<1>6. \A t \in Tenant, s \in Sub!TenantStatus : trail[t][s] = Is(rows[t].status, s)
  BY DEF Sub!Init, Is
<1>7. JobOK
  BY <1>1 DEF JobOK
<1>8. Sub!ArchivedIsDated
  <2>1. \A t \in Tenant : rows[t] = Sub!NoTenant \/ rows[t] \in Sub!Earlier
    BY DEF Sub!Init
  <2>2. \A row \in Sub!Earlier : row.status = "ARCHIVED" => row.purge_after = RetentionDays
    BY DEF Sub!Earlier
  <2>3. Sub!NoTenant.status # "ARCHIVED" /\ RetentionDays # Never
    BY DEF Sub!NoTenant, Sub!SubscriptionsAssumption
  <2> QED
    BY <2>1, <2>2, <2>3 DEF Sub!ArchivedIsDated
<1>9. \A t \in Tenant : rows[t] = Sub!NoTenant => Untouched(t)
  BY <1>4, <1>6 DEF Untouched, Is, Sub!NoTenant, Sub!TenantStatus
<1>10. ASSUME NEW t \in Tenant
       PROVE  Audited(t)
  <2>1. Path(t)
    BY <1>1 DEF Path, MovesOf
  <2>2. \A s : Into(t, s) = {} /\ OutOf(t, s) = {}
    BY <1>4 DEF Into, OutOf, SavedOn
  <2>3. Balanced(t)
    <3> SUFFICES ASSUME NEW s \in Sub!TenantStatus
                 PROVE  trail[t][s] + Cardinality(Into(t, s)) - Cardinality(OutOf(t, s)) = Is(rows[t].status, s)
      BY DEF Balanced
    <3>1. Cardinality(Into(t, s)) = 0 /\ Cardinality(OutOf(t, s)) = 0
      BY <2>2, FS_EmptySet
    <3>2. Is(rows[t].status, s) \in Int
      BY DEF Is
    <3> QED
      BY <1>6, <3>1, <3>2
  <2> QED
    BY <2>1, <2>3 DEF Audited
<1> QED
  BY <1>5, <1>7, <1>8, <1>9, <1>10 DEF SubInv

-----------------------------------------------------------------------------
(* The console *)

LEMMA ProvisionKeeps ==
    ASSUME Sub!SubscriptionsAssumption, SubInv, NEW t \in Tenant, NEW trial \in BOOLEAN, Sub!ProvisionTenant(t, trial)
    PROVE  SubInv'
<1> DEFINE initial == IF trial THEN "TRIAL" ELSE "ACTIVE"
           end == IF trial THEN today + TrialDays ELSE Never
           row == [status |-> initial, expires_at |-> Never, grace_until |-> Never,
                   trial_ends_at |-> end, activated |-> ~trial, purge_after |-> Never]
<1>1. /\ rows[t] = Sub!NoTenant /\ Sub!Write(t, row) /\ trail' = [trail EXCEPT ![t][initial] = 1]
      /\ received' = received + 1 /\ received < MaxCalls
      /\ UNCHANGED <<today, calls, ran, crashes, broken>>
  BY DEF Sub!ProvisionTenant
<1>2. initial \in {"TRIAL", "ACTIVE"} /\ initial \in Sub!TenantStatus
  BY DEF Sub!TenantStatus
<1>3. end \in Sub!Date /\ Never \in Sub!Date /\ (~trial) \in BOOLEAN
  BY DEF SubInv, SubTyped, Sub!TypeOK, Sub!SubscriptionsAssumption, Sub!Date
<1> HIDE DEF initial, end
<1>4. row \in Sub!TenantRow /\ row.status = initial
  BY <1>2, <1>3 DEF Sub!TenantRow
<1> HIDE DEF row
<1>5. /\ \A u \in Tenant : rows'[u] = IF u = t THEN row ELSE rows[u]
      /\ job' \in SweepJob /\ job'.sweep = job.sweep /\ job'.todo = job.todo
      /\ job'.draft = job.draft /\ job'.moves = job.moves
      /\ purge' \in [todo : SUBSET Tenant, touched : SUBSET Tenant]
      /\ rows' \in [Tenant -> Sub!TenantRow \cup {Sub!NoTenant, Sub!Purged}]
  BY <1>1, <1>4, WriteIs DEF SubInv
<1>6. /\ trail' \in [Tenant -> [Sub!TenantStatus -> Int]]
      /\ \A u \in Tenant \ {t} : trail'[u] = trail[u]
      /\ \A s \in Sub!TenantStatus : trail'[t][s] = IF s = initial THEN 1 ELSE trail[t][s]
  <2>1. [trail EXCEPT ![t][initial] = 1] = [trail EXCEPT ![t] = [trail[t] EXCEPT ![initial] = 1]]
    OBVIOUS
  <2>2. [trail[t] EXCEPT ![initial] = 1] \in [Sub!TenantStatus -> Int]
    BY <1>2 DEF SubInv, SubTyped, Sub!TypeOK
  <2> QED
    BY <1>1, <1>2, <2>1, <2>2 DEF SubInv, SubTyped, Sub!TypeOK
<1>7. SubTyped'
  <2>1. received' \in 0 .. MaxCalls
    BY <1>1 DEF SubInv, SubTyped, Sub!TypeOK, Sub!SubscriptionsAssumption
  <2>2. job'.sweep \in 0 .. 3
    BY <1>5 DEF SubInv, SubTyped, Sub!TypeOK
  <2>3. Sub!TypeOK'
    BY <1>1, <1>5, <1>6, <2>1, <2>2 DEF SubInv, SubTyped, Sub!TypeOK
  <2> QED
    BY <1>1, <1>5, <2>3 DEF SubInv, SubTyped
<1>8. \A u \in Tenant : Sub!Exists(u)' => u = t \/ Sub!Exists(u)
  BY <1>5 DEF Sub!Exists
<1>9. ~Sub!Exists(t) /\ t \notin DOMAIN job.draft /\ MovesOf(t) = {}
  <2>1. ~Sub!Exists(t)
    BY <1>1 DEF Sub!Exists
  <2> QED
    BY <2>1 DEF SubInv, JobOK, MovesOf
<1>10. JobOK'
  <2>1. ASSUME NEW u \in DOMAIN job.draft
        PROVE  Sub!Exists(u)'
    <3>1. Sub!Exists(u) /\ u # t /\ u \in Tenant
      BY <1>9, <2>1, RowsOfIs DEF SubInv, JobOK, SubTyped, SweepJob
    <3> QED
      BY <1>5, <3>1 DEF Sub!Exists
  <2> QED
    BY <1>5, <2>1, JobKept DEF SubInv
<1>11. Sub!ArchivedIsDated'
  BY <1>2, <1>4, <1>5 DEF SubInv, Sub!ArchivedIsDated
<1>12. ASSUME NEW u \in Tenant, rows'[u] = Sub!NoTenant
       PROVE  Untouched(u)'
  <2>1. u # t
    BY <1>2, <1>4, <1>5, <1>12 DEF Sub!NoTenant
  <2>2. rows[u] = Sub!NoTenant
    BY <1>5, <1>12, <2>1
  <2> QED
    BY <1>1, <1>6, <2>1, <2>2 DEF SubInv, Untouched
<1>13. ASSUME NEW u \in Tenant \ broken'
       PROVE  Audited(u)'
  <2>1. Audited(u)
    BY <1>1, <1>13 DEF SubInv
  <2>2. CASE u # t
    <3>1. SameSaved(u)
      BY <1>1 DEF SameSaved
    <3>2. rows'[u].status = rows[u].status /\ trail'[u] = trail[u] /\ (Sub!Exists(u)' => Sub!Exists(u))
      BY <1>5, <1>6, <1>8, <2>2
    <3> QED
      BY <1>5, <2>1, <3>1, <3>2, AuditKept
  <2>3. CASE u = t
    <3>1. Path(t)'
      BY <1>5, <1>9 DEF Path, MovesOf
    <3>2. Untouched(t)
      BY <1>1 DEF SubInv
    <3>3. \A s : Into(t, s)' = {} /\ OutOf(t, s)' = {}
      BY <1>1, <3>2 DEF Untouched, Into, OutOf, SavedOn, Sub!NoRequest
    <3>4. \A s \in Sub!TenantStatus : Cardinality(Into(t, s)') = 0 /\ Cardinality(OutOf(t, s)') = 0
      BY <3>3, FS_EmptySet
    <3>5. \A s \in Sub!TenantStatus : trail'[t][s] = Is(rows'[t].status, s) /\ trail'[t][s] \in Int
      BY <1>2, <1>4, <1>5, <1>6, <3>2 DEF Untouched, Is
    <3>6. Balanced(t)'
      <4> SUFFICES ASSUME NEW s \in Sub!TenantStatus
                   PROVE  trail'[t][s] + Cardinality(Into(t, s)') - Cardinality(OutOf(t, s)')
                             = Is(rows'[t].status, s)
        BY DEF Balanced
      <4> QED
        BY <3>4, <3>5
    <3> QED
      BY <2>3, <3>1, <3>6 DEF Audited
  <2> QED
    BY <2>2, <2>3
<1> QED
  BY <1>7, <1>10, <1>11, <1>12, <1>13 DEF SubInv

LEMMA ExpiryKeeps ==
    ASSUME Sub!SubscriptionsAssumption, SubInv, NEW t \in Tenant, Sub!SetExpiry(t)
    PROVE  SubInv'
<1> DEFINE end == today + TrialDays
           row == [rows[t] EXCEPT !.expires_at = end]
<1>1. /\ Sub!Exists(t) /\ Sub!Write(t, row) /\ received' = received + 1 /\ received < MaxCalls
      /\ UNCHANGED <<today, trail, calls, ran, crashes, broken>>
  BY DEF Sub!SetExpiry
<1>2. end \in Sub!Date
  BY DEF SubInv, SubTyped, Sub!TypeOK, Sub!SubscriptionsAssumption, Sub!Date
<1>3. rows[t] \in Sub!TenantRow
  BY <1>1, RowIs DEF SubInv, SubTyped
<1> HIDE DEF end
<1>4. row \in Sub!TenantRow /\ row.status = rows[t].status /\ row.purge_after = rows[t].purge_after
  <2>1. \A old \in Sub!TenantRow : LET new == [old EXCEPT !.expires_at = end]
           IN  new \in Sub!TenantRow /\ new.status = old.status /\ new.purge_after = old.purge_after
    BY <1>2 DEF Sub!TenantRow
  <2> QED
    BY <1>3, <2>1
<1> HIDE DEF row
<1>5. /\ \A u \in Tenant : rows'[u] = IF u = t THEN row ELSE rows[u]
      /\ job' \in SweepJob /\ job'.sweep = job.sweep /\ job'.todo = job.todo
      /\ job'.draft = job.draft /\ job'.moves = job.moves
      /\ purge' \in [todo : SUBSET Tenant, touched : SUBSET Tenant]
      /\ rows' \in [Tenant -> Sub!TenantRow \cup {Sub!NoTenant, Sub!Purged}]
  BY <1>1, <1>4, WriteIs DEF SubInv
<1>6. SubTyped'
  <2>1. received' \in 0 .. MaxCalls
    BY <1>1 DEF SubInv, SubTyped, Sub!TypeOK, Sub!SubscriptionsAssumption
  <2>2. job'.sweep \in 0 .. 3
    BY <1>5 DEF SubInv, SubTyped, Sub!TypeOK
  <2>3. Sub!TypeOK'
    BY <1>1, <1>5, <2>1, <2>2 DEF SubInv, SubTyped, Sub!TypeOK
  <2> QED
    BY <1>1, <1>5, <2>3 DEF SubInv, SubTyped
<1>7. \A u \in Tenant : (Sub!Exists(u)' <=> Sub!Exists(u)) /\ rows'[u].status = rows[u].status
                         /\ rows'[u].purge_after = rows[u].purge_after
  BY <1>1, <1>4, <1>5, ClientIs DEF Sub!Exists
<1>8. JobOK'
  BY <1>5, <1>7, JobKept, RowsOfIs DEF SubInv, SubTyped, SweepJob, JobOK
<1>9. Sub!ArchivedIsDated'
  BY <1>7 DEF SubInv, Sub!ArchivedIsDated
<1>10. ASSUME NEW u \in Tenant, rows'[u] = Sub!NoTenant
       PROVE  Untouched(u)'
  <2>1. rows[u] = Sub!NoTenant
    BY <1>1, <1>5, <1>7, <1>10 DEF Sub!Exists
  <2> QED
    BY <1>1, <2>1 DEF SubInv, Untouched
<1>11. ASSUME NEW u \in Tenant \ broken'
       PROVE  Audited(u)'
  <2>1. Audited(u) /\ SameSaved(u) /\ trail'[u] = trail[u]
    BY <1>1, <1>11 DEF SubInv, SameSaved
  <2> QED
    BY <1>5, <1>7, <2>1, AuditKept
<1> QED
  BY <1>6, <1>8, <1>9, <1>10, <1>11 DEF SubInv

\* A step of a request that leaves the tables alone, the command and the
\* other requests too.
LEMMA RequestKeeps ==
    ASSUME Sub!SubscriptionsAssumption, SubInv, NEW o \in Operator, NEW r \in Sub!Request \cup {Sub!NoRequest},
           calls' = [calls EXCEPT ![o] = r],
           r # Sub!NoRequest => Sub!Exists(r.tenant),
           \A t \in Tenant \ broken' : SameSaved(t),
           broken \subseteq broken', broken' \subseteq Tenant, received' \in 0 .. MaxCalls,
           UNCHANGED <<today, rows, trail, job, purge, ran, crashes>>
    PROVE  SubInv'
<1>1. \A p \in Operator : calls'[p] = IF p = o THEN r ELSE calls[p]
  BY DEF SubInv, SubTyped, Sub!TypeOK
<1>2. SubTyped'
  <2>1. calls' \in [Operator -> Sub!Request \cup {Sub!NoRequest}]
    BY DEF SubInv, SubTyped, Sub!TypeOK
  <2>2. Sub!TypeOK'
    BY <2>1 DEF SubInv, SubTyped, Sub!TypeOK
  <2> DEFINE busy == {p \in Operator : calls[p] # Sub!NoRequest}
  <2>3. {p \in Operator : calls'[p] # Sub!NoRequest} \in SUBSET (busy \cup {o}) /\ IsFiniteSet(busy)
    BY <1>1 DEF SubInv, SubTyped
  <2> HIDE DEF busy
  <2>4. IsFiniteSet(busy \cup {o})
    BY <2>3, FS_AddElement
  <2>5. IsFiniteSet({p \in Operator : calls'[p] # Sub!NoRequest})
    BY <2>3, <2>4, FS_Subset
  <2> QED
    BY <2>2, <2>5 DEF SubInv, SubTyped
<1>3. \A t \in Tenant : Sub!Exists(t)' <=> Sub!Exists(t)
  BY DEF Sub!Exists
<1>4. JobOK' /\ Sub!ArchivedIsDated'
  BY DEF SubInv, JobOK, Sub!ArchivedIsDated, Sub!Exists
<1>5. ASSUME NEW t \in Tenant, rows'[t] = Sub!NoTenant
      PROVE  Untouched(t)'
  <2>1. Untouched(t) /\ ~Sub!Exists(t)
    BY <1>5 DEF SubInv, Sub!Exists
  <2> QED
    BY <1>1, <2>1 DEF Untouched
<1>6. ASSUME NEW t \in Tenant \ broken'
      PROVE  Audited(t)'
  <2>1. Audited(t) /\ SameSaved(t)
    BY <1>6 DEF SubInv
  <2> QED
    BY <1>3, <2>1, AuditKept
<1> QED
  BY <1>2, <1>4, <1>5, <1>6 DEF SubInv

LEMMA ReadKeeps ==
    ASSUME Sub!SubscriptionsAssumption, SubInv, NEW o \in Operator, NEW t \in Tenant,
           NEW op \in {"suspend", "resume", "archive"}, Sub!ReadTenant(o, t, op)
    PROVE  SubInv'
<1> DEFINE to == Sub!Target(op, rows[t])
           r == [step |-> "read", tenant |-> t, instance |-> rows[t], to |-> to]
<1>1. /\ calls' = [calls EXCEPT ![o] = r] /\ calls[o] = Sub!NoRequest /\ Sub!Exists(t)
      /\ received' = received + 1 /\ received < MaxCalls
      /\ UNCHANGED <<today, rows, trail, job, purge, ran, crashes, broken>>
  BY DEF Sub!ReadTenant
<1>2. to \in Sub!TenantStatus
  BY DEF Sub!Target, Sub!TenantStatus
<1> HIDE DEF to
<1>3. rows[t] \in Sub!TenantRow
  BY <1>1, RowIs DEF SubInv, SubTyped
<1>4. r \in Sub!Request /\ r.step = "read" /\ r.tenant = t
  BY <1>2, <1>3 DEF Sub!Request
<1> HIDE DEF r
<1>5. \A p \in Operator : calls'[p] = IF p = o THEN r ELSE calls[p]
  BY <1>1 DEF SubInv, SubTyped, Sub!TypeOK
<1>6. \A u \in Tenant : SameSaved(u)
  BY <1>1, <1>4, <1>5 DEF SameSaved, Sub!NoRequest
<1>7. received' \in 0 .. MaxCalls /\ broken' \subseteq Tenant
  BY <1>1 DEF SubInv, SubTyped, Sub!TypeOK, Sub!SubscriptionsAssumption
<1> QED
  BY <1>1, <1>4, <1>6, <1>7, RequestKeeps

\* A request that ends without a word: it saved nothing, or its client's
\* trail is broken.
LEMMA EndKeeps ==
    ASSUME Sub!SubscriptionsAssumption, SubInv, NEW o \in Operator, Sub!SaveFails(o) \/ Sub!RequestDies(o)
    PROVE  SubInv'
<1>1. /\ calls' = [calls EXCEPT ![o] = Sub!NoRequest]
      /\ UNCHANGED <<today, rows, trail, received, job, purge, ran, crashes>>
  BY DEF Sub!SaveFails, Sub!RequestDies
<1>2. \A p \in Operator : calls'[p] = IF p = o THEN Sub!NoRequest ELSE calls[p]
  BY <1>1 DEF SubInv, SubTyped, Sub!TypeOK
<1>3. /\ broken \subseteq broken' /\ broken' \subseteq Tenant
      /\ calls[o].step = "saved" => calls[o].tenant \in broken'
  <2>1. CASE Sub!SaveFails(o)
    BY <2>1 DEF Sub!SaveFails, SubInv, SubTyped, Sub!TypeOK
  <2>2. CASE Sub!RequestDies(o)
    <3>1. calls[o] # Sub!NoRequest /\ calls[o].tenant \in Tenant /\ broken' = broken \cup {calls[o].tenant}
      BY <2>2, RequestIs DEF Sub!RequestDies, SubInv, SubTyped
    <3> QED
      BY <3>1 DEF SubInv, SubTyped, Sub!TypeOK
  <2> QED
    BY <2>1, <2>2
<1>4. \A t \in Tenant \ broken' : SameSaved(t)
  BY <1>2, <1>3 DEF SameSaved, Sub!NoRequest
<1>5. received' \in 0 .. MaxCalls
  BY <1>1 DEF SubInv, SubTyped, Sub!TypeOK
<1> QED
  BY <1>1, <1>3, <1>4, <1>5, RequestKeeps

\* A request comes among those that are counted, and goes.
LEMMA OneMore ==
    ASSUME NEW S, IsFiniteSet(S), NEW x, x \notin S, NEW a, NEW b, NEW T,
           T = IF a = b THEN S \cup {x} ELSE S
    PROVE  Cardinality(T) = Cardinality(S) + Is(a, b)
<1>1. Cardinality(S) \in Nat
  BY FS_CardinalityType
<1>2. CASE a = b
  <2>1. Cardinality(S \cup {x}) = Cardinality(S) + 1
    BY FS_AddElement
  <2> QED
    BY <1>2, <2>1 DEF Is
<1>3. CASE a # b
  BY <1>1, <1>3 DEF Is
<1> QED
  BY <1>2, <1>3

LEMMA OneLess ==
    ASSUME NEW S, IsFiniteSet(S), NEW x, NEW a, NEW b, x \in S <=> a = b, NEW T, T = S \ {x}
    PROVE  Cardinality(T) = Cardinality(S) - Is(a, b)
<1>1. Cardinality(S) \in Nat
  BY FS_CardinalityType
<1>2. CASE a = b
  <2>1. Cardinality(S \ {x}) = Cardinality(S) - 1
    BY <1>2, FS_RemoveElement
  <2> QED
    BY <1>2, <2>1 DEF Is
<1>3. CASE a # b
  <2>1. T = S
    BY <1>3
  <2>2. Is(a, b) = 0
    BY <1>3 DEF Is
  <2> HIDE DEF Is
  <2>3. Cardinality(S) = Cardinality(S) - 0
    BY <1>1
  <2> QED
    BY <2>1, <2>2, <2>3, Zenon
<1> QED
  BY <1>2, <1>3

\* The instance of a request was read when the client had that status, or
\* its trail is broken from here on.
LEMMA SaveTransitionKeeps ==
    ASSUME Sub!SubscriptionsAssumption, SubInv, NEW o \in Operator, Sub!SaveTransition(o)
    PROVE  SubInv'
<1>1. calls[o].step = "read" /\ calls[o] \in Sub!Request
  BY RequestIs DEF Sub!SaveTransition, SubInv, SubTyped
<1> PICK r \in Sub!Request : r = calls[o]
  BY <1>1
<1> PICK t \in Tenant : t = r.tenant
  BY DEF Sub!Request
<1> DEFINE row == Sub!Transition(rows[t], r.instance, r.to)
           saved == [r EXCEPT !.step = "saved"]
<1>2. /\ Sub!Exists(t) /\ t \notin DOMAIN job.draft /\ Sub!Write(t, row)
      /\ broken' = IF rows[t].status # r.instance.status THEN broken \cup {t} ELSE broken
      /\ UNCHANGED <<today, trail, received, ran, crashes>>
  BY DEF Sub!SaveTransition, Sub!Locked
<1>3. calls' = [calls EXCEPT ![o] = saved]
  <2>1. calls' = [calls EXCEPT ![o].step = "saved"]
    BY DEF Sub!SaveTransition
  <2>2. [calls EXCEPT ![o].step = "saved"] = [calls EXCEPT ![o] = [calls[o] EXCEPT !.step = "saved"]]
    OBVIOUS
  <2> QED
    BY <2>1, <2>2
<1>4. /\ saved \in Sub!Request /\ saved.step = "saved" /\ saved.tenant = t
      /\ saved.instance = r.instance /\ saved.to = r.to
      /\ r.instance \in Sub!TenantRow /\ r.to \in Sub!TenantStatus
  BY DEF Sub!Request
<1>5. row \in Sub!TenantRow /\ row.status = r.to /\ (r.to = "ARCHIVED" => row.purge_after # Never)
  <2>1. rows[t] \in Sub!TenantRow /\ today \in Nat
    BY <1>2, RowIs DEF SubInv, SubTyped, Sub!TypeOK, Sub!SubscriptionsAssumption
  <2> QED
    BY <1>4, <2>1, TransitionIs
<1> HIDE DEF row, saved
<1>6. /\ \A u \in Tenant : rows'[u] = IF u = t THEN row ELSE rows[u]
      /\ job' \in SweepJob /\ job'.sweep = job.sweep /\ job'.todo = job.todo
      /\ job'.draft = job.draft /\ job'.moves = job.moves
      /\ purge' \in [todo : SUBSET Tenant, touched : SUBSET Tenant]
      /\ rows' \in [Tenant -> Sub!TenantRow \cup {Sub!NoTenant, Sub!Purged}]
  BY <1>2, <1>5, WriteIs DEF SubInv
<1>7. \A p \in Operator : calls'[p] = IF p = o THEN saved ELSE calls[p]
  BY <1>3 DEF SubInv, SubTyped, Sub!TypeOK
<1>8. r # Sub!NoRequest /\ saved # Sub!NoRequest
  BY <1>1, <1>4 DEF Sub!NoRequest
<1>9. SubTyped'
  <2>1. job'.sweep \in 0 .. 3 /\ broken' \subseteq Tenant
    BY <1>2, <1>6 DEF SubInv, SubTyped, Sub!TypeOK
  <2>2. calls' \in [Operator -> Sub!Request \cup {Sub!NoRequest}]
    BY <1>3, <1>4 DEF SubInv, SubTyped, Sub!TypeOK
  <2>3. Sub!TypeOK'
    BY <1>2, <1>6, <2>1, <2>2 DEF SubInv, SubTyped, Sub!TypeOK
  <2>4. {p \in Operator : calls'[p] # Sub!NoRequest} = {p \in Operator : calls[p] # Sub!NoRequest}
    BY <1>7, <1>8
  <2> QED
    BY <1>6, <2>3, <2>4 DEF SubInv, SubTyped
<1>10. \A u \in Tenant : (Sub!Exists(u)' <=> Sub!Exists(u)) /\ (u # t => rows'[u] = rows[u])
  BY <1>2, <1>5, <1>6, ClientIs DEF Sub!Exists
<1>11. JobOK'
  BY <1>6, <1>10, JobKept, RowsOfIs DEF SubInv, SubTyped, SweepJob, JobOK
<1>12. Sub!ArchivedIsDated'
  BY <1>5, <1>6 DEF SubInv, Sub!ArchivedIsDated
<1>13. ASSUME NEW u \in Tenant, rows'[u] = Sub!NoTenant
       PROVE  Untouched(u)'
  <2>1. rows[u] = Sub!NoTenant /\ u # t
    BY <1>2, <1>6, <1>10, <1>13 DEF Sub!Exists
  <2> QED
    BY <1>2, <1>4, <1>7, <2>1 DEF SubInv, Untouched
<1>14. ASSUME NEW u \in Tenant \ broken'
       PROVE  Audited(u)'
  <2>1. Audited(u)
    BY <1>2, <1>14 DEF SubInv
  <2>2. CASE u # t
    <3>1. SameSaved(u)
      BY <1>1, <1>4, <1>7, <2>2 DEF SameSaved
    <3> QED
      BY <1>2, <1>6, <1>10, <2>1, <2>2, <3>1, AuditKept
  <2>3. CASE u = t
    <3> DEFINE from == r.instance.status
    <3>1. rows[t].status = from /\ from \in Sub!TenantStatus
      BY <1>2, <1>4, <1>14, <2>3, ClientIs, SMTT(60)
    <3>2. Path(t)'
      BY <1>2, <1>6, <2>1, <2>3 DEF Audited, Path, MovesOf
    <3>3. Balanced(t)'
      <4> SUFFICES ASSUME NEW s \in Sub!TenantStatus
                   PROVE  trail'[t][s] + Cardinality(Into(t, s)') - Cardinality(OutOf(t, s)')
                             = Is(rows'[t].status, s)
        BY DEF Balanced
      <4>1. o \notin SavedOn(t)
        BY <1>1 DEF SavedOn
      <4>2. Into(t, s)' = IF r.to = s THEN Into(t, s) \cup {o} ELSE Into(t, s)
        BY <1>4, <1>7, <4>1 DEF Into, SavedOn
      <4>3. OutOf(t, s)' = IF from = s THEN OutOf(t, s) \cup {o} ELSE OutOf(t, s)
        BY <1>4, <1>7, <4>1 DEF OutOf, SavedOn
      <4>4. o \notin Into(t, s) /\ o \notin OutOf(t, s)
        BY <4>1 DEF Into, OutOf
      <4>5. Cardinality(Into(t, s)') = Cardinality(Into(t, s)) + Is(r.to, s)
        <5>1. IsFiniteSet(Into(t, s))
          BY SavedFinite DEF SubInv
        <5> QED
          BY <4>2, <4>4, <5>1, OneMore
      <4>6. Cardinality(OutOf(t, s)') = Cardinality(OutOf(t, s)) + Is(from, s)
        <5>1. IsFiniteSet(OutOf(t, s))
          BY SavedFinite DEF SubInv
        <5> QED
          BY <4>3, <4>4, <5>1, OneMore
      <4>7. trail[t][s] + Cardinality(Into(t, s)) - Cardinality(OutOf(t, s)) = Is(from, s)
        BY <1>2, <2>1, <2>3, <3>1 DEF Audited, Balanced
      <4>8. trail[t][s] \in Int /\ Cardinality(Into(t, s)) \in Nat /\ Cardinality(OutOf(t, s)) \in Nat
        BY SavedFinite DEF SubInv, SubTyped, Sub!TypeOK
      <4>9. Is(r.to, s) \in Int /\ Is(from, s) \in Int /\ rows'[t].status = r.to /\ trail' = trail
        BY <1>2, <1>5, <1>6 DEF Is
      <4> QED
        BY <4>5, <4>6, <4>7, <4>8, <4>9
    <3> QED
      BY <2>3, <3>2, <3>3 DEF Audited
  <2> QED
    BY <2>2, <2>3
<1> QED
  BY <1>9, <1>11, <1>12, <1>13, <1>14 DEF SubInv

\* The audit rows of some moves.
LEMMA RecordedIs ==
    ASSUME SubTyped, NEW moves, IsFiniteSet(moves)
    PROVE  /\ Sub!Recorded(moves) \in [Tenant -> [Sub!TenantStatus -> Int]]
           /\ \A t \in Tenant, s \in Sub!TenantStatus :
                 Sub!Recorded(moves)[t][s] =
                    trail[t][s] + Cardinality({m \in moves : m[1] = t /\ m[3] = s})
                                - Cardinality({m \in moves : m[1] = t /\ m[2] = s})
<1>1. ASSUME NEW t \in Tenant, NEW s \in Sub!TenantStatus
      PROVE  trail[t][s] + Cardinality({m \in moves : m[1] = t /\ m[3] = s})
                         - Cardinality({m \in moves : m[1] = t /\ m[2] = s}) \in Int
  <2> DEFINE to == {m \in moves : m[1] = t /\ m[3] = s}
             from == {m \in moves : m[1] = t /\ m[2] = s}
  <2>1. to \in SUBSET moves /\ from \in SUBSET moves
    OBVIOUS
  <2> HIDE DEF to, from
  <2>2. Cardinality(to) \in Nat /\ Cardinality(from) \in Nat
    BY <2>1, FS_Subset, FS_CardinalityType
  <2>3. trail[t][s] \in Int
    BY DEF SubTyped, Sub!TypeOK
  <2>4. trail[t][s] + Cardinality(to) - Cardinality(from) \in Int
    BY <2>2, <2>3
  <2> QED
    BY <2>4 DEF to, from
<1> DEFINE value(t, s) ==
      trail[t][s] + Cardinality({m \in moves : m[1] = t /\ m[3] = s})
                  - Cardinality({m \in moves : m[1] = t /\ m[2] = s})
<1>2. Sub!Recorded(moves) = [t \in Tenant |-> [s \in Sub!TenantStatus |-> value(t, s)]]
  BY Zenon DEF Sub!Recorded, Sub!Cardinality, Cardinality
<1>3. \A t \in Tenant, s \in Sub!TenantStatus : value(t, s) \in Int
  BY <1>1
<1>4. \A t \in Tenant, s \in Sub!TenantStatus : Sub!Recorded(moves)[t][s] = value(t, s)
  BY <1>2
<1> HIDE DEF value
<1>5. Sub!Recorded(moves) \in [Tenant -> [Sub!TenantStatus -> Int]]
  <2> DEFINE row(t) == [s \in Sub!TenantStatus |-> value(t, s)]
  <2>1. \A t \in Tenant : row(t) \in [Sub!TenantStatus -> Int]
    BY <1>3
  <2> HIDE DEF row
  <2>2. [t \in Tenant |-> row(t)] \in [Tenant -> [Sub!TenantStatus -> Int]]
    BY <2>1
  <2> QED
    BY <1>2, <2>2, Zenon DEF row
<1> QED
  BY <1>4, <1>5 DEF value

\* Who has no move among them keeps its trail.
LEMMA RecordedKeeps ==
    ASSUME SubTyped, NEW moves, IsFiniteSet(moves), NEW t \in Tenant, \A m \in moves : m[1] # t
    PROVE  Sub!Recorded(moves)[t] = trail[t]
<1>1. ASSUME NEW s \in Sub!TenantStatus
      PROVE  Sub!Recorded(moves)[t][s] = trail[t][s] + 0 - 0
  <2>1. /\ {m \in moves : m[1] = t /\ m[3] = s} = {}
        /\ {m \in moves : m[1] = t /\ m[2] = s} = {}
    OBVIOUS
  <2>2. Sub!Recorded(moves)[t][s] = trail[t][s] + Cardinality({}) - Cardinality({})
    BY <2>1, RecordedIs
  <2> QED
    BY <2>2, FS_EmptySet
<1>2. trail[t] \in [Sub!TenantStatus -> Int] /\ Sub!Recorded(moves)[t] \in [Sub!TenantStatus -> Int]
  BY RecordedIs DEF SubTyped, Sub!TypeOK
<1>3. \A s \in Sub!TenantStatus : Sub!Recorded(moves)[t][s] = trail[t][s]
  BY <1>1, <1>2
<1> QED
  BY <1>2, <1>3

\* record_platform writes the row that a saved request owed.
LEMMA RecordKeeps ==
    ASSUME Sub!SubscriptionsAssumption, SubInv, NEW o \in Operator, Sub!RecordTransition(o)
    PROVE  SubInv'
<1>1. calls[o].step = "saved" /\ calls[o] \in Sub!Request
  BY RequestIs DEF Sub!RecordTransition, SubInv, SubTyped
<1> PICK r \in Sub!Request : r = calls[o]
  BY <1>1
<1> PICK t \in Tenant : t = r.tenant
  BY DEF Sub!Request
<1> DEFINE from == r.instance.status
           to == r.to
           move == <<t, from, to>>
<1>2. /\ trail' = IF Sub!Exists(t) THEN Sub!Recorded({move}) ELSE trail
      /\ calls' = [calls EXCEPT ![o] = Sub!NoRequest]
      /\ UNCHANGED <<today, rows, received, job, purge, ran, crashes, broken>>
  BY DEF Sub!RecordTransition
<1>3. move[1] = t /\ move[2] = from /\ move[3] = to
  OBVIOUS
<1> HIDE DEF move
<1>4. IsFiniteSet({move})
  BY FS_Singleton
<1>5. \A p \in Operator : calls'[p] = IF p = o THEN Sub!NoRequest ELSE calls[p]
  BY <1>2 DEF SubInv, SubTyped, Sub!TypeOK
<1>6. \A u \in Tenant \ {t} : trail'[u] = trail[u]
  <2>1. \A u \in Tenant \ {t} : Sub!Recorded({move})[u] = trail[u]
    BY <1>3, <1>4, RecordedKeeps DEF SubInv
  <2> QED
    BY <1>2, <2>1
<1>7. SubTyped'
  <2>1. trail' \in [Tenant -> [Sub!TenantStatus -> Int]]
    BY <1>2, <1>4, RecordedIs DEF SubInv, SubTyped, Sub!TypeOK
  <2>2. calls' \in [Operator -> Sub!Request \cup {Sub!NoRequest}]
    BY <1>2 DEF SubInv, SubTyped, Sub!TypeOK
  <2>3. Sub!TypeOK'
    BY <1>2, <2>1, <2>2 DEF SubInv, SubTyped, Sub!TypeOK
  <2> DEFINE busy == {p \in Operator : calls[p] # Sub!NoRequest}
  <2>4. {p \in Operator : calls'[p] # Sub!NoRequest} \in SUBSET busy /\ IsFiniteSet(busy)
    BY <1>5 DEF SubInv, SubTyped
  <2> HIDE DEF busy
  <2>5. IsFiniteSet({p \in Operator : calls'[p] # Sub!NoRequest})
    BY <2>4, FS_Subset
  <2> QED
    BY <1>2, <2>3, <2>5 DEF SubInv, SubTyped
<1>8. JobOK' /\ Sub!ArchivedIsDated' /\ \A u \in Tenant : Sub!Exists(u)' <=> Sub!Exists(u)
  BY <1>2 DEF SubInv, JobOK, Sub!ArchivedIsDated, Sub!Exists
<1>9. Sub!NoRequest.step = "idle" /\ r # Sub!NoRequest
  BY <1>1 DEF Sub!NoRequest
<1>10. ASSUME NEW u \in Tenant, rows'[u] = Sub!NoTenant
       PROVE  Untouched(u)'
  <2>1. Untouched(u)
    BY <1>2, <1>10 DEF SubInv
  <2>2. u # t
    BY <1>9, <2>1 DEF Untouched
  <2> QED
    BY <1>5, <1>6, <2>1, <2>2 DEF Untouched
<1>11. ASSUME NEW u \in Tenant \ broken'
       PROVE  Audited(u)'
  <2>1. Audited(u)
    BY <1>2, <1>11 DEF SubInv
  <2>2. CASE u # t
    <3>1. SameSaved(u)
      BY <1>5, <1>9, <2>2 DEF SameSaved
    <3> QED
      BY <1>2, <1>6, <1>8, <2>1, <2>2, <3>1, AuditKept
  <2>3. CASE u = t
    <3>1. Path(t)'
      BY <1>2, <2>1, <2>3 DEF Audited, Path, MovesOf
    <3>2. ASSUME Sub!Exists(t), NEW s \in Sub!TenantStatus
          PROVE  trail'[t][s] + Cardinality(Into(t, s)') - Cardinality(OutOf(t, s)')
                    = Is(rows'[t].status, s)
      <4> DEFINE gained == {m \in {move} : m[1] = t /\ m[3] = s}
                 lost == {m \in {move} : m[1] = t /\ m[2] = s}
      <4>1. trail'[t][s] = trail[t][s] + Cardinality(gained) - Cardinality(lost)
        BY <1>2, <1>4, <3>2, RecordedIs DEF SubInv
      <4>2. /\ gained = IF to = s THEN {} \cup {move} ELSE {}
            /\ lost = IF from = s THEN {} \cup {move} ELSE {}
        BY <1>3
      <4> HIDE DEF gained, lost
      <4> HIDE DEF from, to
      <4>3. Cardinality(gained) = Cardinality({}) + Is(to, s)
        BY <4>2, FS_EmptySet, OneMore
      <4>4. Cardinality(lost) = Cardinality({}) + Is(from, s)
        BY <4>2, FS_EmptySet, OneMore
      <4> USE DEF from, to
      <4>5. /\ Into(t, s)' = Into(t, s) \ {o} /\ OutOf(t, s)' = OutOf(t, s) \ {o}
            /\ o \in Into(t, s) <=> to = s
            /\ o \in OutOf(t, s) <=> from = s
        BY <1>1, <1>5, <1>9 DEF Into, OutOf, SavedOn
      <4>6. IsFiniteSet(Into(t, s)) /\ IsFiniteSet(OutOf(t, s))
            /\ Cardinality(Into(t, s)) \in Nat /\ Cardinality(OutOf(t, s)) \in Nat
        BY SavedFinite DEF SubInv
      <4>7. Cardinality(Into(t, s)') = Cardinality(Into(t, s)) - Is(to, s)
        BY <4>5, <4>6, OneLess
      <4>8. Cardinality(OutOf(t, s)') = Cardinality(OutOf(t, s)) - Is(from, s)
        BY <4>5, <4>6, OneLess
      <4>9. trail[t][s] + Cardinality(Into(t, s)) - Cardinality(OutOf(t, s)) = Is(rows[t].status, s)
        BY <2>1, <2>3, <3>2 DEF Audited, Balanced
      <4>10. trail[t][s] \in Int /\ Is(to, s) \in Int /\ Is(from, s) \in Int /\ Cardinality({}) = 0
        BY FS_EmptySet DEF SubInv, SubTyped, Sub!TypeOK, Is
      <4>11. rows' = rows
        BY <1>2
      <4> QED
        BY <4>1, <4>3, <4>4, <4>6, <4>7, <4>8, <4>9, <4>10, <4>11
    <3>3. Sub!Exists(t)' => Balanced(t)'
      BY <1>8, <3>2 DEF Balanced
    <3> QED
      BY <2>3, <3>1, <3>3, SMTT(60) DEF Audited
  <2> QED
    BY <2>2, <2>3
<1> QED
  BY <1>7, <1>8, <1>10, <1>11 DEF SubInv

-----------------------------------------------------------------------------
(* enforce_subscriptions *)

\* A step of the command before its commit touches no table.
LEMMA JobStep ==
    ASSUME SubInv, job' \in SweepJob, IsFiniteSet(job'.moves), JobOK', crashes' \in 0 .. MaxCrashes,
           ran' \subseteq {"enforce", "purge"}, broken \subseteq broken', broken' \subseteq Tenant,
           \A t \in Tenant \ broken' : Path(t)',
           UNCHANGED <<today, rows, trail, calls, received, purge>>
    PROVE  SubInv'
<1>1. SubTyped'
  <2>1. job'.sweep \in 0 .. 3
    BY DEF SweepJob
  <2>2. Sub!TypeOK'
    BY <2>1 DEF SubInv, SubTyped, Sub!TypeOK
  <2> QED
    BY <2>2 DEF SubInv, SubTyped
<1>2. Sub!ArchivedIsDated' /\ \A t \in Tenant : rows'[t] = Sub!NoTenant => Untouched(t)'
  BY DEF SubInv, Sub!ArchivedIsDated, Untouched
<1>3. ASSUME NEW t \in Tenant \ broken'
      PROVE  Audited(t)'
  <2>1. (Sub!Exists(t)' <=> Sub!Exists(t)) /\ (Balanced(t)' <=> Balanced(t)) /\ Audited(t)
    BY <1>3 DEF SubInv, Sub!Exists, Balanced, Into, OutOf, SavedOn
  <2> QED
    BY <1>3, <2>1 DEF Audited
<1> QED
  BY <1>1, <1>2, <1>3 DEF SubInv

LEMMA OwnRowIs ==
    ASSUME SubTyped, NEW t \in Tenant, Sub!Exists(t) \/ Sub!OwnRow(t).status \in Sub!TenantStatus
    PROVE  Sub!OwnRow(t) \in Sub!TenantRow
<1>1. Sub!Locked(t) => job.draft[t] \in Sub!TenantRow
  BY RowsOfIs DEF SubTyped, SweepJob, Sub!Locked
<1>2. Sub!Exists(t) \/ rows[t].status \in Sub!TenantStatus => rows[t] \in Sub!TenantRow
  BY RowIs DEF SubTyped
<1> QED
  BY <1>1, <1>2 DEF Sub!OwnRow

LEMMA SelectedIs ==
    ASSUME SubTyped, NEW sweep \in 1 .. 3
    PROVE  /\ Sub!Selected(sweep) \in RowsOf
           /\ \A t \in DOMAIN Sub!Selected(sweep) :
                 Sub!Selected(sweep)[t].status \in (IF sweep = 3 THEN {"PAST_DUE"} ELSE {"TRIAL", "ACTIVE"})
<1> DEFINE chosen == {u \in Tenant : Sub!Matches(sweep, Sub!OwnRow(u))}
<1>1. \A t \in chosen : Sub!OwnRow(t).status \in (IF sweep = 3 THEN {"PAST_DUE"} ELSE {"TRIAL", "ACTIVE"})
  BY DEF Sub!Matches
<1>2. \A t \in chosen : Sub!OwnRow(t).status \in Sub!TenantStatus
  BY <1>1 DEF Sub!TenantStatus
<1>3. \A t \in chosen : Sub!OwnRow(t) \in Sub!TenantRow
  BY <1>2, OwnRowIs
<1>4. Sub!Selected(sweep) = [t \in chosen |-> Sub!OwnRow(t)] /\ chosen \in SUBSET Tenant
  BY DEF Sub!Selected
<1> HIDE DEF chosen
<1>5. Sub!Selected(sweep) \in [chosen -> Sub!TenantRow]
  BY <1>3, <1>4
<1> QED
  BY <1>1, <1>4, <1>5, RowsOfIs

LEMMA SweepKeeps ==
    ASSUME SubInv, Sub!BeginEnforcement \/ Sub!NextSweep
    PROVE  SubInv'
<1>1. UNCHANGED <<today, rows, trail, calls, received, purge, ran, crashes, broken>>
  BY DEF Sub!BeginEnforcement, Sub!NextSweep
<1>2. job \in SweepJob /\ IsFiniteSet(job.moves)
  BY DEF SubInv, SubTyped
<1>3. PICK sweep \in 1 .. 3 : job' = [job EXCEPT !.sweep = sweep, !.todo = Sub!Selected(sweep)]
  <2>1. CASE Sub!BeginEnforcement
    BY <2>1 DEF Sub!BeginEnforcement
  <2>2. CASE Sub!NextSweep
    <3>1. job.sweep + 1 \in 1 .. 3
      BY <2>2 DEF Sub!NextSweep
    <3>2. job' = [job EXCEPT !.sweep = job.sweep + 1, !.todo = Sub!Selected(job.sweep + 1)]
      BY <1>2, <2>2 DEF Sub!NextSweep, SweepJob
    <3> QED
      BY <3>1, <3>2
  <2> QED
    BY <2>1, <2>2
<1> DEFINE todo == Sub!Selected(sweep)
<1>4. /\ todo \in RowsOf
      /\ \A t \in DOMAIN todo : todo[t].status \in (IF sweep = 3 THEN {"PAST_DUE"} ELSE {"TRIAL", "ACTIVE"})
  BY SelectedIs DEF SubInv
<1> HIDE DEF todo
<1>5. /\ job' \in SweepJob /\ job'.sweep = sweep /\ job'.todo = todo
      /\ job'.draft = job.draft /\ job'.moves = job.moves
  <2>1. job' = [job EXCEPT !.sweep = sweep, !.todo = todo] /\ sweep \in 0 .. 3
    BY <1>3 DEF todo
  <2> PICK j \in SweepJob : j = job
    BY <1>2
  <2>2. job' = [j EXCEPT !.sweep = sweep, !.todo = todo]
    BY <2>1
  <2> QED
    BY <1>4, <2>1, <2>2 DEF SweepJob
<1>6. JobOK'
  BY <1>1, <1>4, <1>5 DEF SubInv, JobOK, Sub!Exists
<1>7. \A t \in Tenant \ broken' : Path(t)'
  BY <1>1, <1>5 DEF SubInv, Audited, Path, MovesOf
<1>8. crashes' \in 0 .. MaxCrashes /\ ran' \subseteq {"enforce", "purge"} /\ broken' \subseteq Tenant
  BY <1>1 DEF SubInv, SubTyped, Sub!TypeOK
<1> QED
  BY <1>1, <1>2, <1>5, <1>6, <1>7, <1>8, JobStep

\* All is rolled back.
LEMMA FailureKeeps ==
    ASSUME Sub!SubscriptionsAssumption, SubInv, Sub!EnforcementFails
    PROVE  SubInv'
<1>1. /\ job' = Sub!NoJob /\ ran' = ran \cup {"enforce"} /\ (crashes' = crashes \/ (crashes' = crashes + 1 /\ crashes < MaxCrashes))
      /\ UNCHANGED <<today, rows, trail, calls, received, purge, broken>>
  BY DEF Sub!EnforcementFails
<1>2. /\ job' \in SweepJob /\ DOMAIN job'.todo = {} /\ DOMAIN job'.draft = {} /\ job'.moves = {}
  BY <1>1, NoJobIs
<1>3. JobOK' /\ IsFiniteSet(job'.moves) /\ \A t \in Tenant : Path(t)'
  BY <1>2, FS_EmptySet DEF JobOK, Path, MovesOf
<1>4. crashes' \in 0 .. MaxCrashes /\ ran' \subseteq {"enforce", "purge"} /\ broken' \subseteq Tenant
  BY <1>1 DEF SubInv, SubTyped, Sub!TypeOK, Sub!SubscriptionsAssumption
<1> QED
  BY <1>1, <1>2, <1>3, <1>4, JobStep

\* _move: a client that still has the status its sweep read is moved along
\* its path; one that was overtaken has a broken trail.
LEMMA MoveKeeps ==
    ASSUME Sub!SubscriptionsAssumption, SubInv, NEW t \in DOMAIN job.todo, Sub!Move(t)
    PROVE  SubInv'
<1> PICK j \in SweepJob : j = job
  BY DEF SubInv, SubTyped
<1>1. t \in Tenant /\ j.todo[t] \in Sub!TenantRow
  BY RowsOfIs DEF SweepJob
<1> DEFINE instance == j.todo[t]
           from == instance.status
           own == Sub!OwnRow(t)
           to == IF j.sweep = 3 THEN "SUSPENDED" ELSE "PAST_DUE"
           grace == Sub!Grace(own, instance)
           row == [own EXCEPT !.grace_until = grace]
           new == Sub!Transition(row, instance, to)
           move == <<t, from, to>>
           todo == [u \in DOMAIN j.todo \ {t} |-> j.todo[u]]
           draft == [u \in DOMAIN j.draft \cup {t} |-> IF u = t THEN new ELSE j.draft[u]]
<1>2. /\ Sub!Exists(t)
      /\ job' = [j EXCEPT !.todo = todo, !.draft = draft, !.moves = @ \cup {move}]
      /\ broken' = IF own.status # from THEN broken \cup {t} ELSE broken
      /\ UNCHANGED <<today, rows, trail, calls, received, purge, ran, crashes>>
  BY DEF Sub!Move
<1>3. /\ from \in (IF job.sweep = 3 THEN {"PAST_DUE"} ELSE {"TRIAL", "ACTIVE"})
      /\ from \in Sub!TenantStatus /\ to \in Sub!TenantStatus /\ to \in {"SUSPENDED", "PAST_DUE"}
  BY <1>1, ClientIs DEF SubInv, JobOK, Sub!TenantStatus
<1>4. new \in Sub!TenantRow /\ new.status = to
  <2>1. own \in Sub!TenantRow
    BY <1>1, <1>2, OwnRowIs DEF SubInv
  <2>2. grace \in Sub!Date
    <3>1. today + GraceDays \in Sub!Date
      BY DEF SubInv, SubTyped, Sub!TypeOK, Sub!SubscriptionsAssumption, Sub!Date
    <3>2. own.grace_until \in Sub!Date
      BY <2>1 DEF Sub!TenantRow
    <3> QED
      BY <3>1, <3>2 DEF Sub!Grace
  <2> HIDE DEF grace, own
  <2>3. row \in Sub!TenantRow
    BY <2>1, <2>2 DEF Sub!TenantRow
  <2>4. today \in Nat
    BY DEF SubInv, SubTyped, Sub!TypeOK, Sub!SubscriptionsAssumption
  <2> HIDE DEF row, to, instance
  <2> QED
    BY <1>3, <2>3, <2>4, TransitionIs
<1> HIDE DEF new
<1>5. move \in Moves /\ move[1] = t
  BY <1>1, <1>3 DEF Moves
<1>6. todo \in RowsOf /\ draft \in RowsOf
  <2>1. DOMAIN j.todo \subseteq Tenant /\ DOMAIN j.draft \subseteq Tenant
        /\ (\A u \in DOMAIN j.todo : j.todo[u] \in Sub!TenantRow) /\ (\A u \in DOMAIN j.draft : j.draft[u] \in Sub!TenantRow)
    BY RowsOfIs DEF SweepJob
  <2>2. todo \in [DOMAIN j.todo \ {t} -> Sub!TenantRow]
    BY <2>1
  <2>3. draft \in [DOMAIN j.draft \cup {t} -> Sub!TenantRow]
    BY <1>4, <2>1
  <2>4. DOMAIN j.todo \ {t} \in SUBSET Tenant /\ DOMAIN j.draft \cup {t} \in SUBSET Tenant
    BY <1>1, <2>1
  <2> HIDE DEF todo, draft
  <2> QED
    BY <2>2, <2>3, <2>4, RowsOfIs
<1>7. /\ DOMAIN todo \subseteq DOMAIN j.todo /\ \A u \in DOMAIN todo : todo[u] = j.todo[u]
      /\ DOMAIN draft = DOMAIN j.draft \cup {t} /\ draft[t] = new
      /\ \A u \in DOMAIN j.draft : u # t => draft[u] = j.draft[u]
  OBVIOUS
<1> HIDE DEF todo, draft, move
<1>8. /\ job' \in SweepJob /\ job'.sweep = j.sweep /\ job'.todo = todo
      /\ job'.draft = draft /\ job'.moves = j.moves \cup {move}
  <2>1. j.moves \cup {move} \in SUBSET Moves
    BY <1>5 DEF SweepJob
  <2> QED
    BY <1>2, <1>6, <2>1 DEF SweepJob
<1>9. IsFiniteSet(job'.moves)
  BY <1>8, FS_AddElement DEF SubInv, SubTyped
<1>10. JobOK'
  <2>1. \A u \in DOMAIN todo : todo[u].status \in (IF j.sweep = 3 THEN {"PAST_DUE"} ELSE {"TRIAL", "ACTIVE"})
    BY <1>7 DEF SubInv, JobOK
  <2>2. \A u \in DOMAIN draft : Sub!Exists(u)' /\ draft[u].status \in {"PAST_DUE", "SUSPENDED"}
    BY <1>2, <1>3, <1>4, <1>7 DEF SubInv, JobOK, Sub!Exists
  <2>3. \A m \in j.moves \cup {move} : m[1] \in DOMAIN draft
    BY <1>5, <1>7 DEF SubInv, JobOK
  <2> QED
    BY <1>8, <2>1, <2>2, <2>3 DEF JobOK
<1>11. ASSUME NEW u \in Tenant \ broken'
       PROVE  Path(u)'
  <2>1. Path(u) /\ (u = t => own.status = from)
    BY <1>2, <1>11 DEF SubInv, Audited
  <2>2. rows' = rows
    BY <1>2
  <2>3. CASE u # t
    <3>1. MovesOf(u)' = MovesOf(u)
      BY <1>5, <1>8, <2>3 DEF MovesOf
    <3> QED
      BY <1>7, <1>8, <2>1, <2>2, <2>3, <3>1 DEF Path
  <2>4. CASE u = t
    <3>1. MovesOf(t)' = MovesOf(t) \cup {move} /\ t \in DOMAIN job'.draft /\ job'.draft[t].status = to
      BY <1>4, <1>5, <1>7, <1>8 DEF MovesOf
    <3>2. CASE j.sweep # 3
      <4>1. from \in {"TRIAL", "ACTIVE"} /\ to = "PAST_DUE"
        BY <1>3, <3>2
      <4>2. t \notin DOMAIN job.draft /\ rows[t].status = from
        BY <2>1, <2>4, <4>1 DEF Sub!OwnRow, Sub!Locked, SubInv, JobOK
      <4>3. MovesOf(t)' = {<<t, from, "PAST_DUE">>}
        BY <2>1, <2>4, <3>1, <4>1, <4>2 DEF Path, move
      <4> QED
        BY <2>2, <2>4, <3>1, <4>1, <4>2, <4>3 DEF Path
    <3>3. CASE j.sweep = 3
      <4>1. from = "PAST_DUE" /\ to = "SUSPENDED" /\ move = <<t, "PAST_DUE", "SUSPENDED">>
        BY <1>3, <3>3 DEF move
      <4>2. CASE t \notin DOMAIN job.draft
        <5>1. rows[t].status = "PAST_DUE" /\ MovesOf(t) = {}
          BY <2>1, <2>4, <4>1, <4>2 DEF Sub!OwnRow, Sub!Locked, Path
        <5> QED
          BY <2>2, <2>4, <3>1, <4>1, <5>1 DEF Path
      <4>3. CASE t \in DOMAIN job.draft
        <5>1. job.draft[t].status = "PAST_DUE"
          BY <2>1, <2>4, <4>1, <4>3 DEF Sub!OwnRow, Sub!Locked
        <5>2. rows[t].status \in {"TRIAL", "ACTIVE"} /\ MovesOf(t) = {<<t, rows[t].status, "PAST_DUE">>}
          BY <2>1, <2>4, <4>3, <5>1 DEF Path
        <5>3. MovesOf(t)' = {<<t, rows[t].status, "PAST_DUE">>, <<t, "PAST_DUE", "SUSPENDED">>}
          BY <3>1, <4>1, <5>2
        <5> QED
          BY <2>2, <2>4, <3>1, <4>1, <5>2, <5>3 DEF Path
      <4> QED
        BY <4>2, <4>3
    <3> QED
      BY <3>2, <3>3
  <2> QED
    BY <2>3, <2>4
<1>12. /\ crashes' \in 0 .. MaxCrashes /\ ran' \subseteq {"enforce", "purge"}
       /\ broken \subseteq broken' /\ broken' \subseteq Tenant
  BY <1>1, <1>2 DEF SubInv, SubTyped, Sub!TypeOK
<1> QED
  BY <1>2, <1>8, <1>9, <1>10, <1>11, <1>12, JobStep

\* The audit rows of a path lead from the row to what is committed.
LEMMA PathCounts ==
    ASSUME SubInv, NEW t \in Tenant, Path(t), NEW s
    PROVE  Cardinality({m \in job.moves : m[1] = t /\ m[3] = s})
              - Cardinality({m \in job.moves : m[1] = t /\ m[2] = s})
              = Is(Sub!OwnRow(t).status, s) - Is(rows[t].status, s)
<1> DEFINE to == {m \in MovesOf(t) : m[3] = s}
           from == {m \in MovesOf(t) : m[2] = s}
<1>1. /\ {m \in job.moves : m[1] = t /\ m[3] = s} = to
      /\ {m \in job.moves : m[1] = t /\ m[2] = s} = from
  BY DEF MovesOf
<1>2. \A a : Is(a, s) \in Int
  BY DEF Is
<1>3. Cardinality({}) = 0 /\ IsFiniteSet({})
  BY FS_EmptySet
\* One move.
<1>4. ASSUME NEW a, NEW b, MovesOf(t) = {<<t, a, b>>}
      PROVE  Cardinality(to) - Cardinality(from) = Is(b, s) - Is(a, s)
  <2> DEFINE move == <<t, a, b>>
  <2>1. move[2] = a /\ move[3] = b /\ MovesOf(t) = {move}
    BY <1>4
  <2> HIDE DEF move
  <2>2. /\ to = IF b = s THEN {} \cup {move} ELSE {}
        /\ from = IF a = s THEN {} \cup {move} ELSE {}
    BY <2>1
  <2> HIDE DEF to, from
  <2>3. move \notin {}
    OBVIOUS
  <2>4. Cardinality(to) = Cardinality({}) + Is(b, s)
    BY <1>3, <2>2, <2>3, OneMore
  <2>5. Cardinality(from) = Cardinality({}) + Is(a, s)
    BY <1>3, <2>2, <2>3, OneMore
  <2> QED
    BY <1>2, <1>3, <2>4, <2>5
\* Two, one after the other.
<1>5. ASSUME NEW a, NEW b, NEW c, a # b, MovesOf(t) = {<<t, a, b>>, <<t, b, c>>}
      PROVE  Cardinality(to) - Cardinality(from) = Is(c, s) - Is(a, s)
  <2> DEFINE first == <<t, a, b>>
             second == <<t, b, c>>
             to1 == IF b = s THEN {} \cup {first} ELSE {}
             from1 == IF a = s THEN {} \cup {first} ELSE {}
  <2>1. first # second /\ first[2] = a /\ first[3] = b /\ second[2] = b /\ second[3] = c
    BY <1>5
  <2>2. /\ to = IF c = s THEN to1 \cup {second} ELSE to1
        /\ from = IF b = s THEN from1 \cup {second} ELSE from1
    BY <1>5
  <2> HIDE DEF to, from, first, second
  <2>3. /\ IsFiniteSet(to1) /\ IsFiniteSet(from1) /\ second \notin to1 /\ second \notin from1
    <3>1. {} \cup {first} = {first} /\ IsFiniteSet({first})
      BY FS_Singleton
    <3>2. to1 \in {{}, {first}} /\ from1 \in {{}, {first}}
      BY <3>1
    <3> HIDE DEF to1, from1
    <3> QED
      BY <1>3, <2>1, <3>1, <3>2
  <2>4. Cardinality(to1) = Cardinality({}) + Is(b, s)
    BY <1>3, OneMore
  <2>5. Cardinality(from1) = Cardinality({}) + Is(a, s)
    BY <1>3, OneMore
  <2> HIDE DEF to1, from1
  <2>6. Cardinality(to) = Cardinality(to1) + Is(c, s)
    BY <2>2, <2>3, OneMore
  <2>7. Cardinality(from) = Cardinality(from1) + Is(b, s)
    BY <2>2, <2>3, OneMore
  <2> QED
    BY <1>2, <1>3, <2>4, <2>5, <2>6, <2>7
<1>6. Cardinality(to) - Cardinality(from) = Is(Sub!OwnRow(t).status, s) - Is(rows[t].status, s)
  <2>1. CASE t \notin DOMAIN job.draft /\ MovesOf(t) = {}
    <3>1. to = {} /\ from = {} /\ Sub!OwnRow(t) = rows[t]
      BY <2>1 DEF Sub!OwnRow, Sub!Locked
    <3> HIDE DEF to, from
    <3> QED
      BY <1>2, <1>3, <3>1
  <2>2. ASSUME t \in DOMAIN job.draft
        PROVE  Sub!OwnRow(t).status = job.draft[t].status
    BY <2>2 DEF Sub!OwnRow, Sub!Locked
  <2>3. CASE /\ t \in DOMAIN job.draft /\ job.draft[t].status = "PAST_DUE"
             /\ rows[t].status \in {"TRIAL", "ACTIVE"} /\ MovesOf(t) = {<<t, rows[t].status, "PAST_DUE">>}
    BY <1>4, <2>2, <2>3
  <2>4. CASE /\ t \in DOMAIN job.draft /\ job.draft[t].status = "SUSPENDED"
             /\ rows[t].status = "PAST_DUE" /\ MovesOf(t) = {<<t, "PAST_DUE", "SUSPENDED">>}
    BY <1>4, <2>2, <2>4
  <2>5. CASE /\ t \in DOMAIN job.draft /\ job.draft[t].status = "SUSPENDED"
             /\ rows[t].status \in {"TRIAL", "ACTIVE"}
             /\ MovesOf(t) = {<<t, rows[t].status, "PAST_DUE">>, <<t, "PAST_DUE", "SUSPENDED">>}
    <3>1. rows[t].status # "PAST_DUE"
      BY <2>5
    <3> QED
      BY <1>5, <2>2, <2>5, <3>1
  <2> QED
    BY <2>1, <2>3, <2>4, <2>5 DEF Path
<1> QED
  BY <1>1, <1>6

\* The commit writes the drafts and the audit rows of their moves at once.
LEMMA CommitEnforcementKeeps ==
    ASSUME Sub!SubscriptionsAssumption, SubInv, Sub!CommitEnforcement
    PROVE  SubInv'
<1> PICK j \in SweepJob : j = job
  BY DEF SubInv, SubTyped
<1> DEFINE moves == job.moves
<1>1. /\ rows' = [t \in Tenant |-> Sub!OwnRow(t)] /\ trail' = Sub!Recorded(moves) /\ job' = Sub!NoJob
      /\ purge' = IF purge = Sub!NoPurge THEN purge ELSE [purge EXCEPT !.touched = @ \cup DOMAIN job.draft]
      /\ ran' = ran \cup {"enforce"}
      /\ UNCHANGED <<today, calls, received, crashes, broken>>
  BY DEF Sub!CommitEnforcement
<1>2. /\ DOMAIN job.draft \subseteq Tenant
      /\ \A t \in DOMAIN job.draft : /\ job.draft[t] \in Sub!TenantRow /\ Sub!Exists(t)
                                     /\ job.draft[t].status \in {"PAST_DUE", "SUSPENDED"}
  BY RowsOfIs DEF SubInv, JobOK, SweepJob
<1>3. IsFiniteSet(moves) /\ \A m \in moves : m[1] \in DOMAIN job.draft
  BY DEF SubInv, SubTyped, JobOK
<1> HIDE DEF moves
<1>4. /\ \A t \in DOMAIN job.draft : rows'[t] = job.draft[t]
      /\ \A t \in Tenant \ DOMAIN job.draft : rows'[t] = rows[t]
  BY <1>1, <1>2 DEF Sub!OwnRow, Sub!Locked
<1>5. /\ job' \in SweepJob /\ job'.sweep = 0 /\ DOMAIN job'.todo = {} /\ DOMAIN job'.draft = {}
      /\ job'.moves = {}
  BY <1>1, NoJobIs
<1>6. \A t \in Tenant : Sub!Exists(t)' <=> Sub!Exists(t)
  <2>1. \A t \in DOMAIN job.draft : Sub!Exists(t)' /\ Sub!Exists(t)
    BY <1>2, <1>4, ClientIs DEF Sub!Exists
  <2>2. \A t \in Tenant \ DOMAIN job.draft : Sub!Exists(t)' <=> Sub!Exists(t)
    BY <1>4 DEF Sub!Exists
  <2> QED
    BY <2>1, <2>2
<1>7. SubTyped'
  <2>1. rows' \in [Tenant -> Sub!TenantRow \cup {Sub!NoTenant, Sub!Purged}]
    <3>1. \A t \in Tenant : Sub!OwnRow(t) \in Sub!TenantRow \cup {Sub!NoTenant, Sub!Purged}
      BY <1>2 DEF Sub!OwnRow, Sub!Locked, SubInv, SubTyped, Sub!TypeOK
    <3> QED
      BY <1>1, <3>1
  <2>2. trail' \in [Tenant -> [Sub!TenantStatus -> Int]]
    BY <1>1, <1>3, RecordedIs DEF SubInv
  <2>3. ran' \subseteq {"enforce", "purge"}
    BY <1>1 DEF SubInv, SubTyped, Sub!TypeOK
  <2>4. Sub!TypeOK'
    BY <1>1, <1>5, <2>1, <2>2, <2>3 DEF SubInv, SubTyped, Sub!TypeOK
  <2>5. purge' \in [todo : SUBSET Tenant, touched : SUBSET Tenant]
    <3> PICK p \in [todo : SUBSET Tenant, touched : SUBSET Tenant] : p = purge
      BY DEF SubInv, SubTyped
    <3>1. p.touched \cup DOMAIN job.draft \in SUBSET Tenant
      BY <1>2
    <3>2. purge' = p \/ purge' = [p EXCEPT !.touched = p.touched \cup DOMAIN job.draft]
      BY <1>1
    <3> QED
      BY <3>1, <3>2
  <2> QED
    BY <1>1, <1>5, <2>4, <2>5, FS_EmptySet DEF SubInv, SubTyped
<1>8. JobOK'
  BY <1>5 DEF JobOK
<1>9. Sub!ArchivedIsDated'
  BY <1>2, <1>4 DEF SubInv, Sub!ArchivedIsDated
<1>10. ASSUME NEW t \in Tenant, rows'[t] = Sub!NoTenant
       PROVE  Untouched(t)'
  <2>1. ~Sub!Exists(t)
    BY <1>6, <1>10 DEF Sub!Exists
  <2>2. t \notin DOMAIN job.draft /\ rows[t] = Sub!NoTenant
    BY <1>2, <1>4, <1>10, <2>1
  <2>3. Sub!Recorded(moves)[t] = trail[t]
    BY <1>3, <2>2, RecordedKeeps DEF SubInv
  <2> QED
    BY <1>1, <2>2, <2>3 DEF SubInv, Untouched
<1>11. ASSUME NEW t \in Tenant \ broken'
       PROVE  Audited(t)'
  <2>1. Audited(t)
    BY <1>1, <1>11 DEF SubInv
  <2>2. Path(t)'
    BY <1>5 DEF Path, MovesOf
  <2>3. ASSUME Sub!Exists(t), NEW s \in Sub!TenantStatus
        PROVE  trail'[t][s] + Cardinality(Into(t, s)') - Cardinality(OutOf(t, s)')
                  = Is(rows'[t].status, s)
    <3> DEFINE to == {m \in moves : m[1] = t /\ m[3] = s}
               from == {m \in moves : m[1] = t /\ m[2] = s}
    <3>1. trail'[t][s] = trail[t][s] + Cardinality(to) - Cardinality(from)
      BY <1>1, <1>3, RecordedIs DEF SubInv
    <3>2. Cardinality(to) - Cardinality(from) = Is(Sub!OwnRow(t).status, s) - Is(rows[t].status, s)
      BY <2>1, PathCounts DEF Audited, moves
    <3>3. to \in SUBSET moves /\ from \in SUBSET moves
      OBVIOUS
    <3> HIDE DEF to, from
    <3>4. Cardinality(to) \in Nat /\ Cardinality(from) \in Nat
      BY <1>3, <3>3, FS_Subset, FS_CardinalityType
    <3>5. Into(t, s)' = Into(t, s) /\ OutOf(t, s)' = OutOf(t, s) /\ rows'[t] = Sub!OwnRow(t)
      BY <1>1 DEF Into, OutOf, SavedOn
    <3>6. Cardinality(Into(t, s)) \in Nat /\ Cardinality(OutOf(t, s)) \in Nat
      BY SavedFinite DEF SubInv
    <3>7. trail[t][s] + Cardinality(Into(t, s)) - Cardinality(OutOf(t, s)) = Is(rows[t].status, s)
      BY <2>1, <2>3 DEF Audited, Balanced
    <3>8. trail[t][s] \in Int /\ Is(Sub!OwnRow(t).status, s) \in Int /\ Is(rows[t].status, s) \in Int
      BY DEF SubInv, SubTyped, Sub!TypeOK, Is
    <3> QED
      BY <3>1, <3>2, <3>4, <3>5, <3>6, <3>7, <3>8
  <2> QED
    BY <1>6, <2>2, <2>3 DEF Audited, Balanced
<1> QED
  BY <1>7, <1>8, <1>9, <1>10, <1>11 DEF SubInv

-----------------------------------------------------------------------------
(* purge_tenants *)

\* Every row of a client goes, its audit rows with it.
LEMMA PurgeKeeps ==
    ASSUME Sub!SubscriptionsAssumption, SubInv, NEW t \in purge.todo, Sub!PurgeTenant(t)
    PROVE  SubInv'
<1> PICK p \in [todo : SUBSET Tenant, touched : SUBSET Tenant] : p = purge
  BY DEF SubInv, SubTyped
<1> DEFINE none == [s \in Sub!TenantStatus |-> 0]
<1>1. /\ t \in Tenant /\ t \notin DOMAIN job.draft
      /\ rows' = [rows EXCEPT ![t] = Sub!Purged] /\ trail' = [trail EXCEPT ![t] = none]
      /\ purge' = IF p.todo = {t} THEN Sub!NoPurge ELSE [p EXCEPT !.todo = p.todo \ {t}]
      /\ ran' = IF p.todo = {t} THEN ran \cup {"purge"} ELSE ran
      /\ UNCHANGED <<today, calls, received, job, crashes, broken>>
  BY DEF Sub!PurgeTenant, Sub!Locked
<1>2. none \in [Sub!TenantStatus -> Int]
  OBVIOUS
<1> HIDE DEF none
<1>3. \A u \in Tenant : /\ rows'[u] = IF u = t THEN Sub!Purged ELSE rows[u]
                        /\ u # t => trail'[u] = trail[u]
  BY <1>1 DEF SubInv, SubTyped, Sub!TypeOK
<1>4. Sub!Purged # Sub!NoTenant /\ Sub!Purged.status = "PURGED"
  <2>1. Sub!Purged.status = "PURGED" /\ Sub!NoTenant.status = "NONE"
    BY DEF Sub!Purged, Sub!NoTenant
  <2> QED
    BY <2>1
<1>5. \A u \in Tenant : u # t => (Sub!Exists(u)' <=> Sub!Exists(u))
  BY <1>3 DEF Sub!Exists
<1>6. ~Sub!Exists(t)'
  BY <1>1, <1>3 DEF Sub!Exists
<1>7. SubTyped'
  <2>1. rows' \in [Tenant -> Sub!TenantRow \cup {Sub!NoTenant, Sub!Purged}]
        /\ trail' \in [Tenant -> [Sub!TenantStatus -> Int]]
    BY <1>1, <1>2 DEF SubInv, SubTyped, Sub!TypeOK
  <2>2. ran' \subseteq {"enforce", "purge"}
    BY <1>1 DEF SubInv, SubTyped, Sub!TypeOK
  <2>3. Sub!TypeOK'
    BY <1>1, <2>1, <2>2 DEF SubInv, SubTyped, Sub!TypeOK
  <2>4. purge' \in [todo : SUBSET Tenant, touched : SUBSET Tenant]
    BY <1>1 DEF Sub!NoPurge
  <2> QED
    BY <1>1, <2>3, <2>4 DEF SubInv, SubTyped
<1>8. JobOK'
  <2>1. \A u \in DOMAIN job.draft : u \in Tenant /\ u # t /\ Sub!Exists(u)
    BY <1>1, RowsOfIs DEF SubInv, SubTyped, JobOK, SweepJob
  <2> QED
    BY <1>1, <1>5, <2>1, JobKept DEF SubInv
<1>9. Sub!ArchivedIsDated'
  BY <1>3, <1>4 DEF SubInv, Sub!ArchivedIsDated
<1>10. ASSUME NEW u \in Tenant, rows'[u] = Sub!NoTenant
       PROVE  Untouched(u)'
  <2>1. u # t /\ rows[u] = Sub!NoTenant
    BY <1>3, <1>4, <1>10
  <2> QED
    BY <1>1, <1>3, <2>1 DEF SubInv, Untouched
<1>11. ASSUME NEW u \in Tenant \ broken'
       PROVE  Audited(u)'
  <2>1. Audited(u)
    BY <1>1, <1>11 DEF SubInv
  <2>2. CASE u # t
    <3>1. SameSaved(u)
      BY <1>1 DEF SameSaved
    <3> QED
      BY <1>1, <1>3, <1>5, <2>1, <2>2, <3>1, AuditKept
  <2>3. CASE u = t
    BY <1>1, <1>6, <2>1, <2>3 DEF Audited, Path, MovesOf
  <2> QED
    BY <2>2, <2>3
<1> QED
  BY <1>7, <1>8, <1>9, <1>10, <1>11 DEF SubInv

\* A step that leaves the clients, their trails and their requests alone.
LEMMA IdleKeeps ==
    ASSUME SubInv, UNCHANGED <<rows, trail, calls, received, job, crashes, broken>>,
           today' \in 0 .. MaxDay, ran' \subseteq {"enforce", "purge"},
           purge' \in [todo : SUBSET Tenant, touched : SUBSET Tenant]
    PROVE  SubInv'
<1>1. SubTyped'
  BY DEF SubInv, SubTyped, Sub!TypeOK
<1>2. JobOK' /\ Sub!ArchivedIsDated' /\ (\A t \in Tenant : rows'[t] = Sub!NoTenant => Untouched(t)')
  BY DEF SubInv, JobOK, Sub!ArchivedIsDated, Untouched, Sub!Exists
<1>3. \A t \in Tenant : Audited(t)' <=> Audited(t)
  BY DEF Audited, Path, MovesOf, Sub!Exists, Balanced, Into, OutOf, SavedOn
<1> QED
  BY <1>1, <1>2, <1>3 DEF SubInv

LEMMA ClockKeeps ==
    ASSUME Sub!SubscriptionsAssumption, SubInv,
           Sub!BeginPurge \/ Sub!PurgeDies \/ Sub!NextDay \/ UNCHANGED Sub!vars
    PROVE  SubInv'
<1>1. /\ today \in 0 .. MaxDay /\ ran \subseteq {"enforce", "purge"}
      /\ purge \in [todo : SUBSET Tenant, touched : SUBSET Tenant] /\ MaxDay \in Nat
  BY DEF SubInv, SubTyped, Sub!TypeOK, Sub!SubscriptionsAssumption
<1>2. CASE Sub!BeginPurge
  <2>1. purge' \in [todo : SUBSET Tenant, touched : SUBSET Tenant]
    BY <1>2 DEF Sub!BeginPurge
  <2> QED
    BY <1>1, <1>2, <2>1, IdleKeeps DEF Sub!BeginPurge
<1>3. CASE Sub!PurgeDies
  BY <1>1, <1>3, IdleKeeps DEF Sub!PurgeDies, Sub!NoPurge
<1>4. CASE Sub!NextDay
  <2>1. today' \in 0 .. MaxDay
    BY <1>1, <1>4 DEF Sub!NextDay
  <2> QED
    BY <1>1, <1>4, <2>1, IdleKeeps DEF Sub!NextDay
<1>5. CASE UNCHANGED Sub!vars
  BY <1>1, <1>5, IdleKeeps DEF Sub!vars
<1> QED
  BY <1>2, <1>3, <1>4, <1>5

LEMMA SubStep ==
    ASSUME Sub!SubscriptionsAssumption, SubInv, [Sub!Next]_(Sub!vars)
    PROVE  SubInv'
<1>1. CASE \E t \in Tenant, trial \in BOOLEAN : Sub!ProvisionTenant(t, trial)
  BY <1>1, ProvisionKeeps
<1>2. CASE \E t \in Tenant : Sub!SetExpiry(t)
  BY <1>2, ExpiryKeeps
<1>3. CASE \E o \in Operator, t \in Tenant, op \in {"suspend", "resume", "archive"} : Sub!ReadTenant(o, t, op)
  BY <1>3, ReadKeeps
<1>4. CASE \E o \in Operator : Sub!SaveTransition(o) \/ Sub!RecordTransition(o) \/ Sub!SaveFails(o) \/ Sub!RequestDies(o)
  BY <1>4, SaveTransitionKeeps, RecordKeeps, EndKeeps
<1>5. CASE Sub!BeginEnforcement \/ Sub!NextSweep
  BY <1>5, SweepKeeps
<1>6. CASE Sub!CommitEnforcement \/ Sub!EnforcementFails
  BY <1>6, CommitEnforcementKeeps, FailureKeeps
<1>7. CASE \E t \in DOMAIN job.todo : Sub!Move(t)
  BY <1>7, MoveKeeps
<1>8. CASE \E t \in purge.todo : Sub!PurgeTenant(t)
  BY <1>8, PurgeKeeps
<1>9. CASE Sub!BeginPurge \/ Sub!PurgeDies \/ Sub!NextDay \/ UNCHANGED Sub!vars
  BY <1>9, ClockKeeps
<1> QED
  BY <1>1, <1>2, <1>3, <1>4, <1>5, <1>6, <1>7, <1>8, <1>9 DEF Sub!Next

\* Whatever the console and the two commands do to the clients, at the same
\* time or one dying in the middle: an archived client is dated, and a trail
\* that no stale write or crash broke leads to the client's status.
THEOREM Clients ==
    ASSUME Sub!SubscriptionsAssumption
    PROVE  Sub!Spec => []Sub!ClientsHold
<1>1. Sub!Init => SubInv
  BY SubInitially
<1>2. SubInv /\ [Sub!Next]_(Sub!vars) => SubInv'
  BY SubStep
<1>3. SubInv => Sub!ClientsHold
  <2> SUFFICES ASSUME SubInv
               PROVE  Sub!ClientsHold
    OBVIOUS
  <2>1. ASSUME NEW t \in Tenant \ broken, Sub!Exists(t), NEW s \in Sub!TenantStatus,
               \A o \in Operator : calls[o].step = "saved" => calls[o].tenant # t
        PROVE  trail[t][s] = Is(rows[t].status, s)
    <3>1. Into(t, s) = {} /\ OutOf(t, s) = {}
      BY <2>1 DEF Into, OutOf, SavedOn
    <3>2. trail[t][s] + Cardinality(Into(t, s)) - Cardinality(OutOf(t, s)) = Is(rows[t].status, s)
      BY <2>1 DEF SubInv, Audited, Balanced
    <3>3. Cardinality(Into(t, s)) = 0 /\ Cardinality(OutOf(t, s)) = 0
      BY <3>1, FS_EmptySet
    <3>4. trail[t][s] \in Int
      BY DEF SubInv, SubTyped, Sub!TypeOK
    <3> QED
      BY <3>2, <3>3, <3>4
  <2>2. Sub!AuditExplainsStatus
    BY <2>1 DEF Sub!AuditExplainsStatus, Is
  <2> QED
    BY <2>2 DEF SubInv, SubTyped, Sub!ClientsHold
<1> QED
  BY <1>1, <1>2, <1>3, PTL DEF Sub!Spec

-----------------------------------------------------------------------------
(* What the two commands may never do *)

\* What a sweep is through with does not match it again, but for the clients
\* that the console wrote while the command ran.
Settled(t) ==
    \A sweep \in 1 .. job.sweep :
        sweep < job.sweep \/ t \notin DOMAIN job.todo => ~Sub!Matches(sweep, Sub!OwnRow(t))

\* What is on the list of purge_tenants is due, unless it was written since.
Listed == \A t \in purge.todo : t \in purge.touched \/ Sub!PurgeDue(rows[t])

KeptInv ==
    /\ SubInv
    /\ job.sweep # 0 => "enforce" \notin ran
    /\ \A t \in DOMAIN job.draft : \E m \in job.moves : m[1] = t
    /\ \A t \in Tenant \ job.touched : Settled(t)
    /\ Listed

\* Who writes a client leaves its name with the commands that run.
LEMMA Touches ==
    ASSUME SubTyped, NEW t \in Tenant, NEW row, Sub!Write(t, row)
    PROVE  /\ job.sweep # 0 => job'.touched = job.touched \cup {t}
           /\ purge'.todo = purge.todo
           /\ purge.todo # {} => purge'.touched = purge.touched \cup {t}
<1> PICK j \in SweepJob, p \in [todo : SUBSET Tenant, touched : SUBSET Tenant] : j = job /\ p = purge
  BY DEF SubTyped
<1>1. /\ job' = IF j = Sub!NoJob THEN j ELSE [j EXCEPT !.touched = j.touched \cup {t}]
      /\ purge' = IF p = Sub!NoPurge THEN p ELSE [p EXCEPT !.touched = p.touched \cup {t}]
  BY DEF Sub!Write
<1>2. Sub!NoJob.sweep = 0 /\ Sub!NoPurge.todo = {}
  BY NoJobIs DEF Sub!NoPurge
<1> QED
  BY <1>1, <1>2 DEF SweepJob

LEMMA WrittenKept ==
    ASSUME KeptInv, NEW t \in Tenant, NEW row, Sub!Write(t, row), UNCHANGED <<today, ran>>
    PROVE  /\ job'.sweep # 0 => "enforce" \notin ran'
           /\ \A u \in DOMAIN job'.draft : \E m \in job'.moves : m[1] = u
           /\ \A u \in Tenant \ job'.touched : Settled(u)'
           /\ Listed'
<1>1. /\ \A u \in Tenant : rows'[u] = IF u = t THEN row ELSE rows[u]
      /\ job'.sweep = job.sweep /\ job'.todo = job.todo
      /\ job'.draft = job.draft /\ job'.moves = job.moves
  BY WriteIs DEF KeptInv, SubInv
<1>2. /\ job.sweep # 0 => job'.touched = job.touched \cup {t}
      /\ purge'.todo = purge.todo
      /\ purge.todo # {} => purge'.touched = purge.touched \cup {t}
  BY Touches DEF KeptInv, SubInv
<1>3. ASSUME NEW u \in Tenant \ job'.touched
      PROVE  Settled(u)'
  <2>1. CASE job.sweep = 0
    BY <1>1, <2>1 DEF Settled
  <2>2. CASE job.sweep # 0
    <3>1. u # t /\ Settled(u)
      BY <1>2, <1>3, <2>2 DEF KeptInv
    <3> QED
      BY <1>1, <3>1 DEF Settled, Sub!OwnRow, Sub!Locked, Sub!Matches, Sub!Past
  <2> QED
    BY <2>1, <2>2
<1>4. Listed'
  <2> SUFFICES ASSUME NEW u \in purge'.todo
               PROVE  u \in purge'.touched \/ Sub!PurgeDue(rows[u])'
    BY DEF Listed
  <2>1. u \in Tenant /\ u \in purge.todo /\ (u \in purge.touched \/ Sub!PurgeDue(rows[u]))
    BY <1>2 DEF KeptInv, Listed, SubInv, SubTyped
  <2>2. u # t => rows'[u] = rows[u]
    BY <1>1, <2>1
  <2> QED
    BY <1>2, <2>1, <2>2 DEF Sub!PurgeDue, Sub!Past
<1> QED
  BY <1>1, <1>3, <1>4 DEF KeptInv

LEMMA ConsoleKept ==
    ASSUME KeptInv,
           \/ \E t \in Tenant, trial \in BOOLEAN : Sub!ProvisionTenant(t, trial)
           \/ \E t \in Tenant : Sub!SetExpiry(t)
           \/ \E o \in Operator : Sub!SaveTransition(o)
    PROVE  /\ job'.sweep # 0 => "enforce" \notin ran'
           /\ \A u \in DOMAIN job'.draft : \E m \in job'.moves : m[1] = u
           /\ \A u \in Tenant \ job'.touched : Settled(u)'
           /\ Listed'
<1>1. UNCHANGED <<today, ran>>
  BY DEF Sub!ProvisionTenant, Sub!SetExpiry, Sub!SaveTransition
<1>2. \E t \in Tenant : \E row : Sub!Write(t, row)
  <2>1. CASE \E t \in Tenant, trial \in BOOLEAN : Sub!ProvisionTenant(t, trial)
    BY <2>1, Zenon DEF Sub!ProvisionTenant
  <2>2. CASE \E t \in Tenant : Sub!SetExpiry(t)
    BY <2>2, Zenon DEF Sub!SetExpiry
  <2>3. ASSUME NEW o \in Operator, Sub!SaveTransition(o)
        PROVE  \E t \in Tenant : \E row : Sub!Write(t, row)
    <3>1. calls[o].step = "read"
      BY <2>3 DEF Sub!SaveTransition
    <3>2. calls[o].tenant \in Tenant
      BY <3>1, RequestIs DEF KeptInv, SubInv, SubTyped
    <3> QED
      BY <2>3, <3>2, Zenon DEF Sub!SaveTransition
  <2> QED
    BY <2>1, <2>2, <2>3
<1> QED
  BY <1>1, <1>2, WrittenKept

\* A step that leaves the two commands and the table alone.
LEMMA RestKept ==
    ASSUME KeptInv, UNCHANGED <<rows, job, today>>, "enforce" \in ran' => "enforce" \in ran,
           \/ purge' = purge
           \/ purge'.todo = {t \in Tenant : Sub!Exists(t) /\ Sub!PurgeDue(rows[t])}
           \/ purge'.todo = {}
    PROVE  /\ job'.sweep # 0 => "enforce" \notin ran'
           /\ \A u \in DOMAIN job'.draft : \E m \in job'.moves : m[1] = u
           /\ \A u \in Tenant \ job'.touched : Settled(u)'
           /\ Listed'
<1>1. \A u \in Tenant \ job'.touched : Settled(u)'
  BY DEF KeptInv, Settled, Sub!OwnRow, Sub!Locked, Sub!Matches, Sub!Past
<1>2. Listed'
  BY DEF KeptInv, Listed, Sub!PurgeDue, Sub!Past
<1> QED
  BY <1>1, <1>2 DEF KeptInv

\* The steps of enforce_subscriptions.
LEMMA SweepsKept ==
    ASSUME KeptInv, Sub!BeginEnforcement \/ Sub!NextSweep
    PROVE  /\ job'.sweep # 0 /\ "enforce" \notin ran'
           /\ \A u \in DOMAIN job'.draft : \E m \in job'.moves : m[1] = u
           /\ \A u \in Tenant : u \in job'.touched \/ Settled(u)'
           /\ Listed'
<1> PICK j \in SweepJob : j = job
  BY DEF KeptInv, SubInv, SubTyped
<1>1. UNCHANGED <<today, rows, purge, ran>>
  BY DEF Sub!BeginEnforcement, Sub!NextSweep
<1>2. PICK sweep \in 1 .. 3 :
        /\ job' = [j EXCEPT !.sweep = sweep, !.todo = Sub!Selected(sweep)]
        /\ sweep = j.sweep + 1 /\ DOMAIN j.todo = {} /\ "enforce" \notin ran
        /\ \A u \in Tenant \ j.touched : Settled(u)
  <2>1. CASE Sub!BeginEnforcement
    <3>1. /\ job' = [j EXCEPT !.sweep = 1, !.todo = Sub!Selected(1)] /\ j.sweep = 0
          /\ DOMAIN j.todo = {} /\ "enforce" \notin ran
      BY <2>1, NoJobIs DEF Sub!BeginEnforcement
    <3> QED
      BY <3>1 DEF KeptInv
  <2>2. CASE Sub!NextSweep
    <3>1. job' = [j EXCEPT !.sweep = j.sweep + 1, !.todo = Sub!Selected(j.sweep + 1)]
      BY <2>2 DEF Sub!NextSweep, SweepJob
    <3>2. j.sweep + 1 \in 1 .. 3 /\ DOMAIN j.todo = {} /\ j.sweep # 0
      BY <2>2 DEF Sub!NextSweep
    <3> QED
      BY <3>1, <3>2 DEF KeptInv
  <2> QED
    BY <2>1, <2>2
<1> DEFINE todo == Sub!Selected(sweep)
<1>3. DOMAIN todo = {u \in Tenant : Sub!Matches(sweep, Sub!OwnRow(u))}
  BY DEF Sub!Selected
<1> HIDE DEF todo
<1>4. /\ job'.sweep = sweep /\ job'.todo = todo /\ job'.draft = j.draft /\ job'.moves = j.moves
      /\ job'.touched = j.touched
  <2>1. job' = [j EXCEPT !.sweep = sweep, !.todo = todo]
    BY <1>2 DEF todo
  <2> QED
    BY <2>1 DEF SweepJob
<1>5. ASSUME NEW u \in Tenant \ j.touched
      PROVE  Settled(u)'
  <2> SUFFICES ASSUME NEW old \in 1 .. sweep, old < sweep \/ u \notin DOMAIN todo
               PROVE  ~Sub!Matches(old, Sub!OwnRow(u))'
    BY <1>4 DEF Settled
  <2>1. Sub!OwnRow(u)' = Sub!OwnRow(u) /\ today' = today
    BY <1>1, <1>4 DEF Sub!OwnRow, Sub!Locked
  <2>2. CASE old = sweep
    <3>1. ~Sub!Matches(old, Sub!OwnRow(u))
      BY <1>3, <1>5, <2>2
    <3> QED
      BY <2>1, <3>1 DEF Sub!Matches, Sub!Past
  <2>3. CASE old # sweep
    <3>1. old \in 1 .. j.sweep
      BY <1>2, <2>3 DEF SweepJob
    <3>2. Settled(u) /\ j.sweep \in Nat
      BY <1>2, <1>5 DEF SweepJob
    <3>3. ~Sub!Matches(old, Sub!OwnRow(u))
      BY <1>2, <3>1, <3>2 DEF Settled
    <3> QED
      BY <2>1, <3>3 DEF Sub!Matches, Sub!Past
  <2> QED
    BY <2>2, <2>3
<1>6. Listed'
  BY <1>1 DEF KeptInv, Listed, Sub!PurgeDue, Sub!Past
<1> QED
  BY <1>1, <1>2, <1>4, <1>5, <1>6 DEF KeptInv

\* Where a move leads, no query of this sweep or of those before finds it.
LEMMA MoveKept ==
    ASSUME Sub!SubscriptionsAssumption, KeptInv, NEW t \in DOMAIN job.todo, Sub!Move(t)
    PROVE  /\ job'.sweep = job.sweep /\ ("enforce" \in ran' <=> "enforce" \in ran)
           /\ job'.touched = job.touched
           /\ \A u \in DOMAIN job'.draft : \E m \in job'.moves : m[1] = u
           /\ \A u \in Tenant \ job'.touched : Settled(u)'
           /\ Listed'
<1> PICK j \in SweepJob : j = job
  BY DEF KeptInv, SubInv, SubTyped
<1> DEFINE instance == j.todo[t]
           to == IF j.sweep = 3 THEN "SUSPENDED" ELSE "PAST_DUE"
           row == [Sub!OwnRow(t) EXCEPT !.grace_until = Sub!Grace(Sub!OwnRow(t), instance)]
           new == Sub!Transition(row, instance, to)
           move == <<t, instance.status, to>>
           todo == [u \in DOMAIN j.todo \ {t} |-> j.todo[u]]
           draft == [u \in DOMAIN j.draft \cup {t} |-> IF u = t THEN new ELSE j.draft[u]]
<1>1. /\ Sub!Exists(t) /\ t \in Tenant
      /\ job' = [j EXCEPT !.todo = todo, !.draft = draft, !.moves = j.moves \cup {move}]
      /\ UNCHANGED <<today, rows, purge, ran>>
  BY RowsOfIs DEF Sub!Move, SweepJob
<1>2. new.status = to
  <2>1. Sub!OwnRow(t) \in Sub!TenantRow
    BY <1>1, OwnRowIs DEF KeptInv, SubInv
  <2>2. PICK own \in Sub!TenantRow : own = Sub!OwnRow(t)
    BY <2>1
  <2> DEFINE grace == Sub!Grace(own, instance)
             activated == own.activated \/ to = "ACTIVE"
             undo == instance.status \in Sub!Stopped /\ to \in Sub!OPERATIONAL_STATUSES
             purge_after == CASE to = "ARCHIVED" -> today + RetentionDays [] undo -> Never
                              [] OTHER -> [own EXCEPT !.grace_until = grace].purge_after
             changed == [own EXCEPT !.grace_until = grace]
  <2>3. new = [changed EXCEPT !.status = to, !.activated = changed.activated \/ to = "ACTIVE",
                              !.purge_after = purge_after]
    BY <2>2 DEF Sub!Transition
  <2> HIDE DEF grace, purge_after, to
  <2> QED
    BY <2>3 DEF Sub!TenantRow
<1>3. move[1] = t /\ DOMAIN todo = DOMAIN j.todo \ {t} /\ DOMAIN draft = DOMAIN j.draft \cup {t}
      /\ draft[t] = new /\ \A u \in DOMAIN j.draft : u # t => draft[u] = j.draft[u]
  OBVIOUS
<1>4. to \in {"SUSPENDED", "PAST_DUE"} /\ (j.sweep = 3 => to = "SUSPENDED")
  OBVIOUS
<1> HIDE DEF move, todo, draft, new, to
<1>5. /\ job'.sweep = j.sweep /\ job'.todo = todo /\ job'.draft = draft
      /\ job'.moves = j.moves \cup {move} /\ job'.touched = j.touched
  BY <1>1 DEF SweepJob
<1>6. \A u \in DOMAIN job'.draft : \E m \in job'.moves : m[1] = u
  BY <1>3, <1>5 DEF KeptInv
<1>7. ASSUME NEW u \in Tenant \ j.touched
      PROVE  Settled(u)'
  <2>1. Settled(u) /\ today' = today /\ rows' = rows
    BY <1>1, <1>7 DEF KeptInv
  <2>2. CASE u # t
    <3>1. Sub!OwnRow(u)' = Sub!OwnRow(u) /\ (u \in DOMAIN todo <=> u \in DOMAIN j.todo)
      BY <1>3, <1>5, <2>1, <2>2 DEF Sub!OwnRow, Sub!Locked
    <3> QED
      BY <1>5, <2>1, <3>1 DEF Settled, Sub!Matches, Sub!Past
  <2>3. CASE u = t
    <3>1. Sub!OwnRow(t)'.status = to
      BY <1>2, <1>3, <1>5 DEF Sub!OwnRow, Sub!Locked
    <3>2. \A sweep \in 1 .. j.sweep : ~Sub!Matches(sweep, Sub!OwnRow(t))'
      BY <1>4, <3>1 DEF Sub!Matches, SweepJob
    <3> QED
      BY <1>5, <2>3, <3>2 DEF Settled
  <2> QED
    BY <2>2, <2>3
<1>8. Listed'
  BY <1>1 DEF KeptInv, Listed, Sub!PurgeDue, Sub!Past
<1> QED
  BY <1>1, <1>5, <1>6, <1>7, <1>8

\* The command is over.
LEMMA OverKept ==
    ASSUME KeptInv, Sub!CommitEnforcement \/ Sub!EnforcementFails
    PROVE  /\ job'.sweep = 0 /\ DOMAIN job'.draft = {}
           /\ \A u \in Tenant : Settled(u)'
           /\ Listed'
<1>1. job'.sweep = 0 /\ DOMAIN job'.draft = {} /\ today' = today
  BY NoJobIs DEF Sub!CommitEnforcement, Sub!EnforcementFails
<1>2. \A u \in Tenant : Settled(u)'
  BY <1>1 DEF Settled
<1>3. CASE Sub!EnforcementFails
  <2>1. Listed'
    BY <1>3 DEF Sub!EnforcementFails, KeptInv, Listed, Sub!PurgeDue, Sub!Past
  <2> QED
    BY <1>1, <1>2, <2>1
<1>4. CASE Sub!CommitEnforcement
  <2> PICK p \in [todo : SUBSET Tenant, touched : SUBSET Tenant] : p = purge
    BY DEF KeptInv, SubInv, SubTyped
  <2>1. purge' = IF p = Sub!NoPurge THEN p ELSE [p EXCEPT !.touched = p.touched \cup DOMAIN job.draft]
    BY <1>4 DEF Sub!CommitEnforcement
  <2>2. purge'.todo = p.todo /\ (p.todo # {} => purge'.touched = p.touched \cup DOMAIN job.draft)
    BY <2>1 DEF Sub!NoPurge
  <2>3. \A u \in Tenant \ DOMAIN job.draft : rows'[u] = rows[u]
    BY <1>4 DEF Sub!CommitEnforcement, Sub!OwnRow, Sub!Locked
  <2>4. Listed'
    BY <1>1, <2>2, <2>3 DEF KeptInv, Listed, Sub!PurgeDue, Sub!Past
  <2> QED
    BY <1>1, <1>2, <2>4
<1> QED
  BY <1>3, <1>4

LEMMA PurgedKept ==
    ASSUME KeptInv, NEW t \in purge.todo, Sub!PurgeTenant(t)
    PROVE  /\ UNCHANGED job /\ ("enforce" \in ran' <=> "enforce" \in ran)
           /\ \A u \in Tenant \ job'.touched : Settled(u)'
           /\ Listed'
<1> PICK p \in [todo : SUBSET Tenant, touched : SUBSET Tenant] : p = purge
  BY DEF KeptInv, SubInv, SubTyped
<1>1. /\ t \in Tenant /\ rows' = [rows EXCEPT ![t] = Sub!Purged] /\ t \notin DOMAIN job.draft
      /\ purge' = IF p.todo = {t} THEN Sub!NoPurge ELSE [p EXCEPT !.todo = p.todo \ {t}]
      /\ UNCHANGED <<today, job>> /\ ("enforce" \in ran' <=> "enforce" \in ran)
  BY DEF Sub!PurgeTenant, Sub!Locked
<1>2. \A u \in Tenant : rows'[u] = IF u = t THEN Sub!Purged ELSE rows[u]
  BY <1>1 DEF KeptInv, SubInv, SubTyped, Sub!TypeOK
<1>3. purge'.todo \subseteq p.todo \ {t} /\ (purge'.todo # {} => purge'.touched = p.touched)
  BY <1>1 DEF Sub!NoPurge
<1>4. ASSUME NEW u \in Tenant \ job.touched
      PROVE  Settled(u)'
  <2>1. Settled(u)
    BY <1>4 DEF KeptInv
  <2>2. CASE u # t
    BY <1>1, <1>2, <2>1, <2>2 DEF Settled, Sub!OwnRow, Sub!Locked, Sub!Matches, Sub!Past
  <2>3. CASE u = t
    <3>1. Sub!OwnRow(t)' = Sub!Purged /\ Sub!Purged.status = "PURGED"
      BY <1>1, <1>2 DEF Sub!OwnRow, Sub!Locked, Sub!Purged
    <3> QED
      BY <2>3, <3>1 DEF Settled, Sub!Matches
  <2> QED
    BY <2>2, <2>3
<1>5. Listed'
  BY <1>1, <1>2, <1>3 DEF KeptInv, Listed, Sub!PurgeDue, Sub!Past
<1> QED
  BY <1>1, <1>4, <1>5

\* No day ends while the command runs.
LEMMA DayKept ==
    ASSUME Sub!SubscriptionsAssumption, KeptInv, Sub!NextDay
    PROVE  /\ UNCHANGED job /\ job.sweep = 0
           /\ \A u \in Tenant : Settled(u)'
           /\ Listed'
<1>1. UNCHANGED <<rows, job, purge>> /\ today' = today + 1 /\ job.sweep = 0 /\ today \in Nat
  BY DEF Sub!NextDay, KeptInv, SubInv, SubTyped, Sub!TypeOK, Sub!SubscriptionsAssumption
<1>2. \A u \in Tenant : Settled(u)'
  BY <1>1 DEF Settled
<1>3. ASSUME NEW u \in purge.todo, u \notin purge.touched
      PROVE  Sub!PurgeDue(rows[u])'
  <2>1. Sub!PurgeDue(rows[u]) /\ u \in Tenant
    BY <1>3 DEF KeptInv, Listed, SubInv, SubTyped
  <2>2. rows[u] \in Sub!TenantRow
    BY <2>1, RowIs DEF KeptInv, SubInv, SubTyped, Sub!PurgeDue, Sub!TenantStatus
  <2>3. rows[u].purge_after \in Nat \cup {Never}
    BY <2>2 DEF Sub!TenantRow, Sub!Date
  <2> QED
    BY <1>1, <2>1, <2>3 DEF Sub!PurgeDue, Sub!Past
<1> QED
  BY <1>1, <1>2, <1>3 DEF Listed

LEMMA KeptStep ==
    ASSUME Sub!SubscriptionsAssumption, KeptInv, [Sub!Next]_(Sub!vars)
    PROVE  KeptInv'
<1>1. SubInv'
  BY SubStep DEF KeptInv
<1>2. CASE \/ \E t \in Tenant, trial \in BOOLEAN : Sub!ProvisionTenant(t, trial)
           \/ \E t \in Tenant : Sub!SetExpiry(t)
           \/ \E o \in Operator : Sub!SaveTransition(o)
  BY <1>1, <1>2, ConsoleKept DEF KeptInv
<1>3. CASE \/ \E o \in Operator, t \in Tenant, op \in {"suspend", "resume", "archive"} : Sub!ReadTenant(o, t, op)
           \/ \E o \in Operator : Sub!RecordTransition(o) \/ Sub!SaveFails(o) \/ Sub!RequestDies(o)
           \/ UNCHANGED Sub!vars
  <2>1. UNCHANGED <<rows, job, today, ran, purge>>
    BY <1>3 DEF Sub!ReadTenant, Sub!RecordTransition, Sub!SaveFails, Sub!RequestDies, Sub!vars
  <2> QED
    BY <1>1, <2>1, RestKept DEF KeptInv
<1>4. CASE Sub!BeginPurge \/ Sub!PurgeDies
  <2>1. UNCHANGED <<rows, job, today>> /\ ("enforce" \in ran' => "enforce" \in ran)
    BY <1>4 DEF Sub!BeginPurge, Sub!PurgeDies
  <2>2. purge'.todo = {t \in Tenant : Sub!Exists(t) /\ Sub!PurgeDue(rows[t])} \/ purge'.todo = {}
    BY <1>4 DEF Sub!BeginPurge, Sub!PurgeDies, Sub!NoPurge
  <2> QED
    BY <1>1, <2>1, <2>2, RestKept DEF KeptInv
<1>5. CASE Sub!BeginEnforcement \/ Sub!NextSweep
  BY <1>1, <1>5, SweepsKept DEF KeptInv
<1>6. CASE Sub!CommitEnforcement \/ Sub!EnforcementFails
  <2>1. /\ job'.sweep = 0 /\ DOMAIN job'.draft = {}
        /\ (\A u \in Tenant : Settled(u)') /\ Listed'
    BY <1>6, OverKept
  <2>2. /\ job'.sweep # 0 => "enforce" \notin ran'
        /\ \A u \in DOMAIN job'.draft : \E m \in job'.moves : m[1] = u
    BY <2>1
  <2> QED
    BY <1>1, <2>1, <2>2 DEF KeptInv
<1>7. CASE \E t \in DOMAIN job.todo : Sub!Move(t)
  BY <1>1, <1>7, MoveKept DEF KeptInv
<1>8. CASE \E t \in purge.todo : Sub!PurgeTenant(t)
  BY <1>1, <1>8, PurgedKept DEF KeptInv
<1>9. CASE Sub!NextDay
  BY <1>1, <1>9, DayKept DEF KeptInv
<1> QED
  BY <1>2, <1>3, <1>4, <1>5, <1>6, <1>7, <1>8, <1>9 DEF Sub!Next

LEMMA KeptInitially ==
    ASSUME Sub!SubscriptionsAssumption, Sub!Init
    PROVE  KeptInv
<1>1. job.sweep = 0 /\ DOMAIN job.draft = {} /\ purge.todo = {}
  BY NoJobIs DEF Sub!Init, Sub!NoPurge
<1> QED
  BY <1>1, SubInitially DEF KeptInv, Settled, Listed

\* How the row of a client may change: it is provisioned, keeps its status, is
\* moved by the operator who asked or by the command, or is purged.
LEMMA RowsChange ==
    ASSUME Sub!SubscriptionsAssumption, KeptInv, Sub!Next, NEW t \in Tenant, rows'[t] # rows[t]
    PROVE  \/ rows[t] = Sub!NoTenant /\ rows'[t] \in Sub!TenantRow
           \/ rows'[t] \in Sub!TenantRow /\ rows'[t].status = rows[t].status
           \/ /\ rows'[t] \in Sub!TenantRow
              /\ \E o \in Operator :
                    /\ calls[o].step = "read" /\ calls'[o].step = "saved"
                    /\ calls[o].tenant = t /\ calls[o].to = rows'[t].status
           \/ Sub!CommitEnforcement /\ t \in DOMAIN job.draft /\ rows'[t] = job.draft[t]
                /\ rows'[t] \in Sub!TenantRow
           \/ t \in purge.todo /\ rows'[t] = Sub!Purged
<1>1. ASSUME NEW u \in Tenant, NEW row, Sub!Write(u, row)
      PROVE  t = u /\ rows'[t] = row
  BY <1>1, WriteIs DEF KeptInv, SubInv
<1>2. Sub!TypeOK' /\ today \in Nat
  BY SubStep DEF KeptInv, SubInv, SubTyped, Sub!TypeOK, Sub!SubscriptionsAssumption
<1>3. rows'[t] \in Sub!TenantRow \cup {Sub!NoTenant, Sub!Purged}
  BY <1>2 DEF Sub!TypeOK
<1>4. ASSUME NEW u \in Tenant, NEW trial \in BOOLEAN, Sub!ProvisionTenant(u, trial)
      PROVE  rows[t] = Sub!NoTenant /\ rows'[t] \in Sub!TenantRow
  <2> DEFINE initial == IF trial THEN "TRIAL" ELSE "ACTIVE"
             row == [status |-> initial, expires_at |-> Never, grace_until |-> Never,
                     trial_ends_at |-> IF trial THEN today + TrialDays ELSE Never,
                     activated |-> ~trial, purge_after |-> Never]
  <2>1. rows[u] = Sub!NoTenant /\ Sub!Write(u, row)
    BY <1>4 DEF Sub!ProvisionTenant
  <2>2. row.status = initial /\ initial \in {"TRIAL", "ACTIVE"}
    OBVIOUS
  <2> HIDE DEF row
  <2>3. t = u /\ rows'[t] = row
    BY <1>1, <2>1
  <2>4. rows'[t] \notin {Sub!NoTenant, Sub!Purged}
    BY <2>2, <2>3 DEF Sub!NoTenant, Sub!Purged
  <2> QED
    BY <1>3, <2>1, <2>3, <2>4
<1>5. ASSUME NEW u \in Tenant, Sub!SetExpiry(u)
      PROVE  rows'[t] \in Sub!TenantRow /\ rows'[t].status = rows[t].status
  <2> DEFINE end == today + TrialDays
             row == [rows[u] EXCEPT !.expires_at = end]
  <2>1. Sub!Exists(u) /\ Sub!Write(u, row)
    BY <1>5 DEF Sub!SetExpiry
  <2>2. rows[u] \in Sub!TenantRow /\ end \in Sub!Date
    BY <1>2, <2>1, RowIs DEF KeptInv, SubInv, SubTyped, Sub!Date, Sub!SubscriptionsAssumption
  <2> HIDE DEF end
  <2>3. row \in Sub!TenantRow /\ row.status = rows[u].status
    <3>1. \A old \in Sub!TenantRow : LET new == [old EXCEPT !.expires_at = end]
             IN  new \in Sub!TenantRow /\ new.status = old.status
      BY <2>2 DEF Sub!TenantRow
    <3> QED
      BY <2>2, <3>1
  <2> HIDE DEF row
  <2> QED
    BY <1>1, <2>1, <2>3
<1>6. ASSUME NEW o \in Operator, Sub!SaveTransition(o)
      PROVE  /\ rows'[t] \in Sub!TenantRow
             /\ calls[o].step = "read" /\ calls'[o].step = "saved"
             /\ calls[o].tenant = t /\ calls[o].to = rows'[t].status
  <2>1. calls[o].step = "read" /\ Sub!Exists(calls[o].tenant)
    BY <1>6 DEF Sub!SaveTransition
  <2>2. calls[o] \in Sub!Request /\ calls[o].tenant \in Tenant
    BY <2>1, RequestIs DEF KeptInv, SubInv, SubTyped
  <2> PICK r \in Sub!Request : r = calls[o]
    BY <2>2
  <2> DEFINE row == Sub!Transition(rows[r.tenant], r.instance, r.to)
  <2>3. Sub!Write(r.tenant, row) /\ calls' = [calls EXCEPT ![o].step = "saved"]
    BY <1>6 DEF Sub!SaveTransition
  <2>4. row \in Sub!TenantRow /\ row.status = r.to
    <3>1. rows[r.tenant] \in Sub!TenantRow /\ r.to \in Sub!TenantStatus
      BY <2>1, <2>2, RowIs DEF KeptInv, SubInv, SubTyped, Sub!Request
    <3> QED
      BY <1>2, <3>1, TransitionIs
  <2> HIDE DEF row
  <2>5. t = r.tenant /\ rows'[t] = row
    BY <1>1, <2>2, <2>3
  <2>6. calls'[o].step = "saved"
    <3>1. calls'[o] = [r EXCEPT !.step = "saved"]
      BY <2>3 DEF KeptInv, SubInv, SubTyped, Sub!TypeOK
    <3> QED
      BY <3>1 DEF Sub!Request
  <2> QED
    BY <2>1, <2>4, <2>5, <2>6
<1>7. ASSUME Sub!CommitEnforcement
      PROVE  t \in DOMAIN job.draft /\ rows'[t] = job.draft[t] /\ rows'[t] \in Sub!TenantRow
  <2>1. rows'[t] = Sub!OwnRow(t)
    BY <1>7 DEF Sub!CommitEnforcement
  <2>2. t \in DOMAIN job.draft /\ rows'[t] = job.draft[t]
    BY <2>1 DEF Sub!OwnRow, Sub!Locked
  <2> QED
    BY <2>2, RowsOfIs DEF KeptInv, SubInv, SubTyped, SweepJob
<1>8. ASSUME NEW u \in purge.todo, Sub!PurgeTenant(u)
      PROVE  t \in purge.todo /\ rows'[t] = Sub!Purged
  BY <1>8, SMTT(60) DEF Sub!PurgeTenant, KeptInv, SubInv, SubTyped, Sub!TypeOK
<1>9. /\ ~\E o \in Operator, u \in Tenant, op \in {"suspend", "resume", "archive"} : Sub!ReadTenant(o, u, op)
      /\ ~\E o \in Operator : Sub!RecordTransition(o) \/ Sub!SaveFails(o) \/ Sub!RequestDies(o)
      /\ ~(Sub!BeginEnforcement \/ Sub!NextSweep \/ Sub!EnforcementFails \/ Sub!BeginPurge \/ Sub!PurgeDies \/ Sub!NextDay)
      /\ ~\E u \in DOMAIN job.todo : Sub!Move(u)
  BY DEF Sub!ReadTenant, Sub!RecordTransition, Sub!SaveFails, Sub!RequestDies, Sub!BeginEnforcement, Sub!NextSweep,
         Sub!EnforcementFails, Sub!BeginPurge, Sub!PurgeDies, Sub!NextDay, Sub!Move
<1> QED
  BY <1>4, <1>5, <1>6, <1>7, <1>8, <1>9 DEF Sub!Next

\* The command is over by its commit or by its failure.
LEMMA OverIs ==
    ASSUME Sub!SubscriptionsAssumption, KeptInv, Sub!Next, job.sweep # 0, job' = Sub!NoJob
    PROVE  Sub!CommitEnforcement \/ Sub!EnforcementFails
<1>1. job'.sweep = 0 /\ job # Sub!NoJob
  BY NoJobIs
<1>2. ~\E t \in Tenant : \E row : Sub!Write(t, row)
  BY <1>1, WriteIs DEF KeptInv, SubInv
<1>3. /\ ~\E t \in Tenant, trial \in BOOLEAN : Sub!ProvisionTenant(t, trial)
      /\ ~\E t \in Tenant : Sub!SetExpiry(t)
  BY <1>2, Zenon DEF Sub!ProvisionTenant, Sub!SetExpiry
<1>4. ASSUME NEW o \in Operator, Sub!SaveTransition(o)
      PROVE  FALSE
  <2>1. calls[o].step = "read"
    BY <1>4 DEF Sub!SaveTransition
  <2>2. calls[o].tenant \in Tenant
    BY <2>1, RequestIs DEF KeptInv, SubInv, SubTyped
  <2> QED
    BY <1>2, <1>4, <2>2, Zenon DEF Sub!SaveTransition
<1>5. ~(Sub!BeginEnforcement \/ Sub!NextSweep) /\ ~\E t \in DOMAIN job.todo : Sub!Move(t)
  <2>1. ASSUME Sub!BeginEnforcement \/ Sub!NextSweep
        PROVE  FALSE
    BY <1>1, <2>1, SweepsKept
  <2>2. ASSUME NEW t \in DOMAIN job.todo, Sub!Move(t)
        PROVE  FALSE
    <3>1. job'.sweep = job.sweep
      BY <2>2, MoveKept
    <3> QED
      BY <1>1, <3>1
  <2> QED
    BY <2>1, <2>2
<1>6. /\ ~\E o \in Operator, t \in Tenant, op \in {"suspend", "resume", "archive"} : Sub!ReadTenant(o, t, op)
      /\ ~\E o \in Operator : Sub!RecordTransition(o) \/ Sub!SaveFails(o) \/ Sub!RequestDies(o)
      /\ ~(Sub!BeginPurge \/ Sub!PurgeDies \/ Sub!NextDay) /\ ~\E t \in purge.todo : Sub!PurgeTenant(t)
  BY <1>1 DEF Sub!ReadTenant, Sub!RecordTransition, Sub!SaveFails, Sub!RequestDies, Sub!BeginPurge, Sub!PurgeDies, Sub!NextDay,
              Sub!PurgeTenant
<1> QED
  BY <1>3, <1>4, <1>5, <1>6 DEF Sub!Next

\* However the console and the two commands overlap or die: what the command
\* is through with it would not move again, who was stopped works again by an
\* operator's decision or by a row that was stale, and who is purged was due
\* or written after it was listed.
THEOREM Decisions ==
    ASSUME Sub!SubscriptionsAssumption
    PROVE  Sub!Spec => Sub!CommandsKeepDecisions
<1>1. Sub!Init => KeptInv
  BY KeptInitially
<1>2. KeptInv /\ [Sub!Next]_(Sub!vars) => KeptInv'
  BY KeptStep
<1>3. ASSUME KeptInv, Sub!Next, NEW t \in Tenant \ job.touched, job.sweep = 3, job.todo = <<>>,
             job' = Sub!NoJob, rows' # rows \/ job.moves = {}, NEW sweep \in 1 .. 3
      PROVE  ~Sub!Matches(sweep, rows'[t])
  <2>1. DOMAIN job.todo = {} /\ ~Sub!Matches(sweep, Sub!OwnRow(t))
    BY <1>3, NoJobIs DEF KeptInv, Settled
  <2>2. CASE Sub!CommitEnforcement
    <3>1. rows'[t] = Sub!OwnRow(t)
      BY <2>2 DEF Sub!CommitEnforcement
    <3> QED
      BY <2>1, <3>1
  <2>3. CASE Sub!EnforcementFails
    <3>1. rows' = rows /\ DOMAIN job.draft = {}
      BY <1>3, <2>3 DEF Sub!EnforcementFails, KeptInv
    <3> QED
      BY <2>1, <3>1 DEF Sub!OwnRow, Sub!Locked
  <2> QED
    BY <1>3, <2>2, <2>3, OverIs
<1>4. ASSUME KeptInv, Sub!Next, NEW t \in Tenant, rows[t].status \in Sub!Stopped,
             rows'[t].status \in Sub!OPERATIONAL_STATUSES
      PROVE  Sub!Resuming(t) \/ t \in broken
  <2>1. rows'[t] # rows[t] /\ rows[t].status \notin Sub!OPERATIONAL_STATUSES
    BY <1>4 DEF Sub!Stopped, Sub!OPERATIONAL_STATUSES
  <2>2. rows[t] # Sub!NoTenant /\ rows'[t] # Sub!Purged
    BY <1>4 DEF Sub!Stopped, Sub!OPERATIONAL_STATUSES, Sub!NoTenant, Sub!Purged
  <2>3. ASSUME t \in DOMAIN job.draft, t \notin broken
        PROVE  FALSE
    BY <1>4, <2>3 DEF KeptInv, SubInv, Audited, Path, Sub!Stopped
  <2> QED
    BY <1>4, <2>1, <2>2, <2>3, RowsChange DEF Sub!Resuming
<1>5. ASSUME KeptInv, Sub!Next, NEW t \in Tenant, Sub!Exists(t), rows'[t] = Sub!Purged
      PROVE  (rows[t].status = "ARCHIVED" /\ Sub!Past(rows[t].purge_after)) \/ t \in purge.touched
  <2>1. rows'[t] # rows[t] /\ rows'[t] \notin Sub!TenantRow
    BY <1>5, ClientIs DEF Sub!Exists
  <2>2. t \in purge.todo
    BY <1>5, <2>1, RowsChange
  <2> QED
    BY <1>5, <2>2 DEF KeptInv, Listed, Sub!PurgeDue
<1>6. KeptInv /\ Sub!Next => /\ \A t \in Tenant \ job.touched :
                                   job.sweep = 3 /\ job.todo = <<>> /\ job' = Sub!NoJob /\ (rows' # rows \/ job.moves = {})
                                     => ~(\E sweep \in 1 .. 3 : Sub!Matches(sweep, rows'[t]))
                             /\ \A t \in Tenant :
                                   rows[t].status \in Sub!Stopped /\ rows'[t].status \in Sub!OPERATIONAL_STATUSES
                                     => Sub!Resuming(t) \/ t \in broken
                             /\ \A t \in Tenant :
                                   Sub!Exists(t) /\ rows'[t] = Sub!Purged =>
                                     \/ rows[t].status = "ARCHIVED" /\ Sub!Past(rows[t].purge_after)
                                     \/ t \in purge.touched
  BY <1>3, <1>4, <1>5
<1> QED
  BY <1>1, <1>2, <1>6, PTL DEF Sub!Spec, Sub!CommandsKeepDecisions, Sub!RunAgainIsIdle, Sub!RevivedByDecisionOrRace,
                              Sub!PurgedWasDue

\* The console's lists agree, and whoever the command is about to move is on
\* the overview.
THEOREM Foreseen ==
    ASSUME Sub!SubscriptionsAssumption
    PROVE  Sub!Spec => []Sub!LapseIsForeseen
<1>1. Sub!Spec => []SubInv
  BY SubInitially, SubStep, PTL DEF Sub!Spec
<1>2. SubInv => Sub!LapseIsForeseen
  <2> SUFFICES ASSUME SubInv
               PROVE  Sub!LapseIsForeseen
    OBVIOUS
  <2>1. today \in Nat /\ SoonDays \in Nat
    BY DEF SubInv, SubTyped, Sub!TypeOK, Sub!SubscriptionsAssumption
  <2>2. ASSUME NEW t \in Tenant, rows[t].status \in Sub!OPERATIONAL_STATUSES
        PROVE  Sub!Exists(t) /\ \A date \in Sub!Date : Sub!Past(date) => Sub!Within(date, SoonDays)
    <3>1. Sub!Exists(t)
      BY <2>2, RowIs DEF SubInv, SubTyped, Sub!OPERATIONAL_STATUSES, Sub!TenantStatus
    <3> QED
      BY <2>1, <3>1 DEF Sub!Date, Sub!Past, Sub!Within
  <2>3. ASSUME NEW t \in Tenant, Sub!Lapsed(t)
        PROVE  t \in Sub!OverviewExpiring
    <3>1. rows[t].status \in Sub!OPERATIONAL_STATUSES
      BY <2>3 DEF Sub!Lapsed, Sub!Matches, Sub!OPERATIONAL_STATUSES
    <3>2. rows[t] \in Sub!TenantRow
      BY <2>2, <3>1, RowIs DEF SubInv, SubTyped
    <3>3. rows[t].trial_ends_at \in Sub!Date /\ rows[t].expires_at \in Sub!Date
      BY <3>2 DEF Sub!TenantRow
    <3> QED
      BY <2>2, <2>3, <3>1, <3>3 DEF Sub!Lapsed, Sub!Matches, Sub!OverviewExpiring, Sub!ListedExpiring,
                                     Sub!SubscriptionEnds, Sub!TrialEnds
  <2>4. Sub!OverviewExpiring = Sub!DashboardExpiring \cup Sub!DashboardTrials
    BY DEF Sub!OverviewExpiring, Sub!ListedExpiring, Sub!DashboardExpiring, Sub!DashboardTrials, Sub!TrialEnds,
           Sub!OPERATIONAL_STATUSES
  <2>5. Sub!ListedExpiring \ Sub!OverviewExpiring = Sub!PageExpiring \ Sub!DashboardExpiring
    BY DEF Sub!OverviewExpiring, Sub!ListedExpiring, Sub!DashboardExpiring, Sub!PageExpiring, Sub!TrialEnds,
           Sub!OPERATIONAL_STATUSES
  <2> QED
    BY <2>3, <2>4, <2>5 DEF Sub!LapseIsForeseen
<1> QED
  BY <1>1, <1>2, PTL
=============================================================================
