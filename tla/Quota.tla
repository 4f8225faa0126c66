-------------------------------- MODULE Quota --------------------------------
(***************************************************************************)
(* The limits of a plan (apps/tenancy/quota.py) and the usage row that     *)
(* the console shows.                                                      *)
(*                                                                         *)
(* quota.check counts the rows, saves the whole usage row with the count,  *)
(* and returns; the caller inserts after that.  create_student and the     *)
(* imports of cards do it all in one transaction, which holds the lock of  *)
(* the usage row until it commits.  Users and groups are checked outside.  *)
(***************************************************************************)
EXTENDS Naturals, FiniteSets, FiniteSetsExt

CONSTANTS
    Resource,       \* RESOURCES
    Atomic,         \* those whose check is part of the creating transaction
    Worker,         \* requests that may run at the same time
    Cap,            \* limits a plan may have
    MaxBatch,       \* rows one request may create
    MaxRequests,    \* bound: requests ever received
    Nobody,         \* no transaction holds the usage row
    Unlimited       \* a limit that is not set

ASSUME QuotaAssumption ==
    /\ IsFiniteSet(Resource) /\ Atomic \subseteq Resource
    /\ Cap \subseteq Nat
    /\ MaxBatch \in Nat \ {0}
    /\ MaxRequests \in Nat
    /\ IsFiniteSet(Worker) /\ Worker # {} /\ Nobody \notin Worker
    /\ Unlimited \notin Nat

VARIABLES
    live,       \* rows of each resource
    cap,        \* max_<resource> of the client's plan
    usage,      \* the row of TenantUsage
    fresh,      \* its computed_at is recent
    lock,       \* the transaction that holds the usage row
    work,       \* what each request is doing
    requests,   \* how many requests were received
    high        \* history: the highest limit the client has had

vars == <<live, cap, usage, fresh, lock, work, requests, high>>

Idle == [step |-> "idle"]

Counter == [Resource -> Nat]

Init ==
    /\ cap \in [Resource -> Cap \cup {Unlimited}]
    /\ live = [res \in Resource |-> 0]
    /\ usage = live
    /\ fresh = FALSE
    /\ lock = Nobody
    /\ work = [w \in Worker |-> Idle]
    /\ requests = 0
    /\ high = [res \in Resource |-> IF cap[res] = Unlimited THEN 0 ELSE cap[res]]

-----------------------------------------------------------------------------
(* check *)

\* Mutant: a full plan still takes a batch that starts below its limit.
FitsLoosely(w, count) == live[work[w].res] < work[w].cap

Fits(w, count) == live[work[w].res] + count <= work[w].cap

\* The request has its tenant, and with it the plan, before it checks.
Start(w, res) ==
    /\ work[w] = Idle
    /\ requests < MaxRequests
    /\ cap[res] # Unlimited
    /\ requests' = requests + 1
    /\ work' = [work EXCEPT ![w] = [step |-> "started", res |-> res, cap |-> cap[res]]]
    /\ UNCHANGED <<live, cap, usage, fresh, lock, high>>

\* _live_count, and what the comparison will say of it.
Count(w, count) ==
    LET res == work[w].res
    IN  /\ work[w].step = "started"
        /\ work' = [work EXCEPT ![w] =
               [step |-> "counted", res |-> res, current |-> live[res], row |-> usage,
                count |-> IF Fits(w, count) THEN count ELSE 0]]
        /\ UNCHANGED <<live, cap, usage, fresh, lock, requests, high>>

Admitted(w) == work[w].step \in {"counted", "refreshed"} /\ work[w].count > 0

\* The whole row is saved as it was read, but for the counter: it waits for
\* a transaction that wrote it.
Counted(w) == [work[w].row EXCEPT ![work[w].res] = work[w].current]

\* _refresh outside a transaction.
Refresh(w) ==
    /\ work[w].step = "counted"
    /\ work[w].res \notin Atomic
    /\ lock = Nobody
    /\ usage' = Counted(w)
    /\ fresh' = TRUE
    /\ work' = [work EXCEPT ![w] = IF Admitted(w) THEN [work[w] EXCEPT !.step = "refreshed"] ELSE Idle]
    /\ UNCHANGED <<live, cap, lock, requests, high>>

\* _refresh in the transaction that creates the rows.
RefreshInside(w) ==
    /\ work[w].step = "counted"
    /\ work[w].res \in Atomic
    /\ Admitted(w)
    /\ lock = Nobody
    /\ lock' = w
    /\ work' = [work EXCEPT ![w].step = "refreshed"]
    /\ UNCHANGED <<live, cap, usage, fresh, requests, high>>

\* ERR_QUOTA_EXCEEDED rolls the transaction back.
RefuseInside(w) ==
    /\ work[w].step = "counted"
    /\ work[w].res \in Atomic
    /\ ~Admitted(w)
    /\ lock = Nobody
    /\ work' = [work EXCEPT ![w] = Idle]
    /\ UNCHANGED <<live, cap, usage, fresh, lock, requests, high>>

\* The rows are inserted; a transaction commits its usage row with them.
Insert(w) ==
    LET res == work[w].res
    IN  /\ work[w].step = "refreshed"
        /\ live' = [live EXCEPT ![res] = @ + work[w].count]
        /\ IF res \in Atomic
             THEN usage' = Counted(w) /\ fresh' = TRUE /\ lock' = Nobody
             ELSE UNCHANGED <<usage, fresh, lock>>
        /\ work' = [work EXCEPT ![w] = Idle]
        /\ UNCHANGED <<cap, requests, high>>

\* The request is refused for another reason, or dies.
Fail(w) ==
    /\ work[w].step = "refreshed"
    /\ lock' = IF lock = w THEN Nobody ELSE lock
    /\ work' = [work EXCEPT ![w] = Idle]
    /\ UNCHANGED <<live, cap, usage, fresh, requests, high>>

-----------------------------------------------------------------------------
(* The console *)

\* change_plan, or a plan saved with other limits; then quota.invalidate.
ChangeLimit(res, limit) ==
    /\ requests < MaxRequests
    /\ cap[res] # limit
    /\ lock = Nobody
    /\ requests' = requests + 1
    /\ cap' = [cap EXCEPT ![res] = limit]
    /\ high' = [high EXCEPT ![res] = IF limit # Unlimited /\ limit > @ THEN limit ELSE @]
    /\ fresh' = FALSE
    /\ UNCHANGED <<live, usage, lock, work>>

\* refresh_usage counts everything again.
Recount ==
    /\ lock = Nobody
    /\ usage' = live
    /\ fresh' = TRUE
    /\ UNCHANGED <<live, cap, lock, work, requests, high>>

Percent(used, limit) == (used * 100) \div limit

\* quota_pressure: the worst of the limits, one of zero not counted.
QuotaPressure ==
    Max({0} \cup {Percent(usage[res], cap[res]) : res \in {r \in Resource : cap[r] \notin {0, Unlimited}}})

-----------------------------------------------------------------------------

Next ==
    \/ \E w \in Worker, res \in Resource : Start(w, res)
    \/ \E w \in Worker, count \in 1 .. MaxBatch : Count(w, count)
    \/ \E w \in Worker : Refresh(w) \/ RefreshInside(w) \/ RefuseInside(w) \/ Insert(w) \/ Fail(w)
    \/ \E res \in Resource, limit \in Cap : ChangeLimit(res, limit)
    \/ Recount

Spec == Init /\ [][Next]_vars

-----------------------------------------------------------------------------
(* Properties *)

TypeOK ==
    /\ {live, usage, high} \subseteq Counter
    /\ cap \in [Resource -> Cap \cup {Unlimited}]
    /\ fresh \in BOOLEAN
    /\ lock \in Worker \cup {Nobody}
    /\ work \in [Worker -> {Idle}
          \cup [step : {"started"}, res : Resource, cap : Cap]
          \cup [step : {"counted", "refreshed"}, res : Resource, current : Nat, row : Counter,
                count : 0 .. MaxBatch]]
    /\ requests \in 0 .. MaxRequests

\* The rows that requests were admitted for and have not inserted.
Promised(res) ==
    {row \in Worker \X (1 .. MaxBatch) :
        Admitted(row[1]) /\ work[row[1]].res = res /\ row[2] <= work[row[1]].count}

\* Requests that count at the same time may pass a limit, by one batch for
\* each request but one; with a single request it is kept.
OvershootBounded ==
    \A res \in Resource :
        live[res] + Cardinality(Promised(res)) <= high[res] + (Cardinality(Worker) - 1) * MaxBatch

\* When the usage row is right, a plan that refuses the next row shows a
\* pressure of at least 100, so the client is on the lists for 80 and 90.
FullIsShown ==
    \A res \in Resource :
        cap[res] \notin {0, Unlimited} /\ usage[res] = live[res] /\ live[res] + 1 > cap[res]
            => QuotaPressure >= 100

\* The counters have their types, and a limit is passed by no more than the
\* requests that overlapped.
UsageHolds == TypeOK /\ OvershootBounded
=============================================================================
