------------------------------ MODULE Features ------------------------------
(***************************************************************************)
(* What a client bought: the resolver of apps/tenancy/resolver.py, its     *)
(* cache, and the console's services that change the answer.               *)
(*                                                                         *)
(* A reader that misses the cache computes the answer from the tables and  *)
(* stores it later.  The signals that empty the cache are sent inside the  *)
(* transactions of update_or_create, delete and save_plan, before they     *)
(* commit; only Tenant.save sends them after.                              *)
(***************************************************************************)
EXTENDS Naturals, FiniteSets

CONSTANTS
    Feature,          \* keys of the catalogue
    Core,             \* CORE_KEYS
    Method,           \* METHOD_KEYS: ways to record attendance
    Built,            \* IMPLEMENTED_METHOD_KEYS
    Default,          \* DEFAULT_ON_KEYS
    DependsOn,        \* FeatureSpec.depends_on of each key
    Plan,
    Tenant,
    GrantLists,       \* feature lists an operator saves on a plan
    Operator,         \* console requests that may run at the same time
    Reader,           \* requests of the centers' users that run at the same time
    MaxRequests,      \* bound: changes ever asked for
    Missing           \* no cached answer

FeaturesAssumption ==
    /\ Core \cup Method \cup Default \subseteq Feature
    /\ Built \subseteq Method
    /\ DependsOn \in [Feature -> SUBSET Feature]
    \* The catalogue: options depend on methods that are built, and no method
    \* on anything.
    /\ \A key \in Built : DependsOn[key] = {}
    /\ \A key \in Feature : DependsOn[key] \cap (Method \ Built) = {}
    \* PlanForm: keys of the catalogue, with a way to take attendance, and
    \* the core keys.
    /\ \A list \in GrantLists : Core \subseteq list /\ list \subseteq Feature /\ list \cap Built # {}
    /\ MaxRequests \in Nat

VARIABLES
    grants,     \* the table tenancy_planfeature, by plan
    plan_of,    \* Tenant.plan
    overrides,  \* the table tenancy_tenantfeature, by tenant and key
    cache,      \* the cached answer of each tenant
    readers,    \* what each reader is doing
    changes,    \* what each console request is doing
    requests,   \* how many changes were asked for
    exposed,    \* history: tenants read while a change of theirs was under way
    unchecked   \* history: tenants changed in ways that check no method

history == <<exposed, unchecked>>

vars == <<grants, plan_of, overrides, cache, readers, changes, requests, history>>

-----------------------------------------------------------------------------
(* _resolve *)

FeatureState == {"INHERIT", "ON", "OFF"}

Closed(keys) == \A key \in keys : DependsOn[key] \subseteq keys

\* The loop to a fixed point: the largest part whose dependencies are in it.
LargestClosed(keys) == UNION {part \in SUBSET keys : Closed(part)}

Asked(plan_keys, states) ==
    {key \in Feature :
        \/ states[key] = "ON"
        \/ states[key] = "INHERIT" /\ key \in (IF plan_keys = {} THEN Default ELSE plan_keys)}

Resolve(plan_keys, states) ==
    (LargestClosed(Asked(plan_keys, states)) \ (Method \ Built)) \cup Core

Now(t) == Resolve(grants[plan_of[t]], overrides[t])

\* enabled_features as somebody sees it who reads at once.
Enabled(t) == IF cache[t] = Missing THEN Now(t) ELSE cache[t]

RemainingMethods(t, without) == (Enabled(t) \cap Built) \ {without}

-----------------------------------------------------------------------------

Idle == [step |-> "idle"]

Init ==
    /\ grants \in [Plan -> GrantLists]
    /\ plan_of \in [Tenant -> Plan]
    /\ overrides = [t \in Tenant |-> [key \in Feature |-> "INHERIT"]]
    /\ cache = [t \in Tenant |-> Missing]
    /\ readers = [r \in Reader |-> Idle]
    /\ changes = [o \in Operator |-> Idle]
    /\ requests = 0
    /\ exposed = {}
    /\ unchecked = {}

\* A change is under way from its first signal to its commit.
UnderWay(t) == \E o \in Operator : changes[o].step = "writing" /\ t \in changes[o].tenants

Reading(t) == \E r \in Reader : readers[r].step # "idle" /\ readers[r].tenant = t

-----------------------------------------------------------------------------
(* enabled_features *)

\* The tenant of the request is in hand before the features are asked for.
Enter(r, t) ==
    /\ readers[r] = Idle
    /\ cache[t] = Missing
    /\ readers' = [readers EXCEPT ![r] = [step |-> "entered", tenant |-> t, plan |-> plan_of[t]]]
    /\ exposed' = IF UnderWay(t) THEN exposed \cup {t} ELSE exposed
    /\ UNCHANGED <<grants, plan_of, overrides, cache, changes, requests, unchecked>>

Compute(r) ==
    LET t == readers[r].tenant
    IN  /\ readers[r].step = "entered"
        /\ readers' = [readers EXCEPT ![r] =
               [step |-> "computed", tenant |-> t,
                answer |-> Resolve(grants[readers[r].plan], overrides[t])]]
        /\ exposed' = IF UnderWay(t) THEN exposed \cup {t} ELSE exposed
        /\ UNCHANGED <<grants, plan_of, overrides, cache, changes, requests, unchecked>>

Fill(r) ==
    /\ readers[r].step = "computed"
    /\ cache' = [cache EXCEPT ![readers[r].tenant] = readers[r].answer]
    /\ readers' = [readers EXCEPT ![r] = Idle]
    /\ UNCHANGED <<grants, plan_of, overrides, changes, requests, history>>

\* CACHE_TTL
Expire(t) ==
    /\ cache[t] # Missing
    /\ cache' = [cache EXCEPT ![t] = Missing]
    /\ UNCHANGED <<grants, plan_of, overrides, readers, changes, requests, history>>

-----------------------------------------------------------------------------
(* The console *)

Ask(o, change) ==
    /\ changes[o] = Idle
    /\ requests < MaxRequests
    /\ requests' = requests + 1
    /\ changes' = [changes EXCEPT ![o] = change]

\* ERR_LAST_METHOD guards only a method that is switched off.
MethodLeft(t, key, state) == key \in Method /\ state = "OFF" => RemainingMethods(t, key) # {}

\* set_feature up to its checks: the answer may come from the cache.
AskToggle(o, t, key, state) ==
    /\ key \notin Core                                      \* ERR_CORE_FEATURE
    /\ overrides[t][key] # state
    /\ MethodLeft(t, key, state)                            \* ERR_LAST_METHOD
    /\ Ask(o, [step |-> "checked", tenants |-> {t}, key |-> key, state |-> state])
    /\ unchecked' = IF state = "INHERIT" \/ \E p \in Operator : changes[p] # Idle
                      THEN unchecked \cup {t} ELSE unchecked
    /\ UNCHANGED <<grants, plan_of, overrides, cache, readers, exposed>>

\* save_plan, with the clients that are on the plan when it is saved.
AskSavePlan(o, p, list) ==
    /\ grants[p] # list
    /\ Ask(o, [step |-> "checked", tenants |-> {t \in Tenant : plan_of[t] = p}, plan |-> p, list |-> list])
    /\ unchecked' = Tenant
    /\ UNCHANGED <<grants, plan_of, overrides, cache, readers, exposed>>

\* Mutant: bulk_create sends no signal, and nobody invalidates the plan.
WriteQuietly(o) ==
    /\ changes[o].step = "checked"
    /\ cache' = IF "list" \in DOMAIN changes[o] THEN cache
                ELSE [t \in Tenant |-> IF t \in changes[o].tenants THEN Missing ELSE cache[t]]
    /\ changes' = [changes EXCEPT ![o].step = "writing"]
    /\ exposed' = exposed \cup {t \in changes[o].tenants : Reading(t)}
    /\ UNCHANGED <<grants, plan_of, overrides, readers, requests, unchecked>>

\* The rows are written and the signals sent, inside the transaction.
Write(o) ==
    /\ changes[o].step = "checked"
    /\ cache' = [t \in Tenant |-> IF t \in changes[o].tenants THEN Missing ELSE cache[t]]
    /\ changes' = [changes EXCEPT ![o].step = "writing"]
    /\ exposed' = exposed \cup {t \in changes[o].tenants : Reading(t)}
    /\ UNCHANGED <<grants, plan_of, overrides, readers, requests, unchecked>>

Commit(o) ==
    LET c == changes[o]
    IN  /\ c.step = "writing"
        /\ IF "list" \in DOMAIN c
             THEN grants' = [grants EXCEPT ![c.plan] = c.list] /\ UNCHANGED overrides
             ELSE /\ overrides' = [t \in Tenant |->
                         IF t \in c.tenants THEN [overrides[t] EXCEPT ![c.key] = c.state] ELSE overrides[t]]
                  /\ UNCHANGED grants
        /\ changes' = [changes EXCEPT ![o] = Idle]
        /\ UNCHANGED <<plan_of, cache, readers, requests, history>>

\* change_plan: Tenant.save commits on its own ...
ChangePlan(o, t, p) ==
    /\ plan_of[t] # p
    /\ Ask(o, [step |-> "saved", tenants |-> {t}])
    /\ plan_of' = [plan_of EXCEPT ![t] = p]
    /\ exposed' = IF Reading(t) \/ \E q \in Operator : changes[q] # Idle THEN exposed \cup {t} ELSE exposed
    /\ unchecked' = unchecked \cup {t}
    /\ UNCHANGED <<grants, overrides, cache, readers>>

\* ... and post_save invalidates after that.
SignalTenant(o) ==
    /\ changes[o].step = "saved"
    /\ cache' = [t \in Tenant |-> IF t \in changes[o].tenants THEN Missing ELSE cache[t]]
    /\ changes' = [changes EXCEPT ![o] = Idle]
    /\ UNCHANGED <<grants, plan_of, overrides, readers, requests, history>>

-----------------------------------------------------------------------------

Next ==
    \/ \E r \in Reader, t \in Tenant : Enter(r, t)
    \/ \E r \in Reader : Compute(r) \/ Fill(r)
    \/ \E t \in Tenant : Expire(t)
    \/ \E o \in Operator, t \in Tenant, key \in Feature, state \in FeatureState :
          AskToggle(o, t, key, state)
    \/ \E o \in Operator, p \in Plan, list \in GrantLists : AskSavePlan(o, p, list)
    \/ \E o \in Operator, t \in Tenant, p \in Plan : ChangePlan(o, t, p)
    \/ \E o \in Operator : Write(o) \/ Commit(o) \/ SignalTenant(o)

Spec == Init /\ [][Next]_vars

\* Requests end, and a cached answer reaches its time to live.
Fairness ==
    /\ \A r \in Reader : WF_vars(Compute(r)) /\ WF_vars(Fill(r))
    /\ \A o \in Operator : WF_vars(Write(o)) /\ WF_vars(Commit(o)) /\ WF_vars(SignalTenant(o))
    /\ \A t \in Tenant : WF_vars(Expire(t))

FairSpec == Spec /\ Fairness

-----------------------------------------------------------------------------
(* Properties *)

TypeOK ==
    /\ grants \in [Plan -> SUBSET Feature]
    /\ plan_of \in [Tenant -> Plan]
    /\ overrides \in [Tenant -> [Feature -> FeatureState]]
    /\ cache \in [Tenant -> (SUBSET Feature) \cup {Missing}]
    /\ requests \in 0 .. MaxRequests
    /\ exposed \subseteq Tenant /\ unchecked \subseteq Tenant

\* The cached answer differs from the tables only when a request read them
\* while a change was under way, or for the moment before a signal: saving a
\* plan invalidates every client on it although bulk_create sends no signal.
StaleNeedsOverlap ==
    \A t \in Tenant \ exposed :
        \/ cache[t] \in {Missing, Now(t)}
        \/ \E o \in Operator : changes[o].step = "saved" /\ t \in changes[o].tenants

\* A toggle bites in the end, whatever was read meanwhile.
ToggleBites == <>[](\A t \in Tenant : cache[t] \in {Missing, Now(t)})

\* A center that only had its toggles moved to ON and OFF, one at a time and
\* by an operator who was not misled by a stale answer, can take attendance.
ToggledKeepsAMethod ==
    \A t \in Tenant \ (unchecked \cup exposed) : Now(t) \cap Built # {}

\* plan_change_warnings: what the client has and the plan does not grant.
Losing(t, p) == (Enabled(t) \ grants[p]) \ Core

Needs(key) == {need \in Feature : \A keys \in SUBSET Feature : key \in keys /\ Closed(keys) => need \in keys}

\* Whatever a change of plan takes away, the warnings named it or something
\* it needs, when the answer they were computed from was not stale.
EveryLossIsWarned ==
    \A t \in Tenant, p \in Plan :
        Enabled(t) = Now(t) =>
            \A key \in Now(t) \ Resolve(grants[p], overrides[t]) : Needs(key) \cap Losing(t, p) # {}

\* The answers: wrong only by an overlap, and never without a way to take
\* attendance where the last one was guarded.
AnswersHold == TypeOK /\ StaleNeedsOverlap /\ ToggledKeepsAMethod
=============================================================================
