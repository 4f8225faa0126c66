------------------------------ MODULE Platform -------------------------------
(***************************************************************************)
(* The platform's components, one of them at work in each behaviour: the   *)
(* scene says which, and the others rest.  A property of the platform is a *)
(* family with a member for each scene.                                    *)
(***************************************************************************)
EXTENDS Quota

CONSTANTS
    Tenant, Plan,
    Operator,       \* console requests that may run at the same time
    Reader,         \* requests of the centers that run at the same time
    GraceDays, TrialDays, RetentionDays, SoonDays,
    Feature, Core, Method, Built, Default, DependsOn, GrantLists,
    Window, PerSecond,
    MaxDay, MaxCalls, MaxCrashes, MaxToggles, MaxLimits,
    Missing, Never

VARIABLES
    scene,
    today, rows, trail, calls, received, job, purge, ran, crashes, broken,
    grants, plan_of, overrides, answers, askers, toggles, toggled, exposed, unchecked,
    status, table, hosts, readers, changes, wanted, seen, overtaken

Sub == INSTANCE Subscriptions WITH MaxRequests <- MaxCalls, requests <- calls

Feat == INSTANCE Features WITH
    MaxRequests <- MaxToggles,
    cache <- answers, readers <- askers, changes <- toggles, requests <- toggled

Pol == INSTANCE RatePolicy WITH
    MaxRequests <- MaxLimits, cache <- hosts, received <- wanted, exposed <- seen

ASSUME PlatformAssumption ==
    /\ Sub!SubscriptionsAssumption /\ Feat!FeaturesAssumption
    /\ Pol!RatePolicyAssumption

subVars == <<today, rows, trail, calls, received, job, purge, ran, crashes, broken>>
featVars == <<grants, plan_of, overrides, answers, askers, toggles, toggled, exposed, unchecked>>
polVars == <<status, table, hosts, readers, changes, wanted, seen, overtaken>>

allVars == <<scene, vars, subVars, featVars, polVars>>

PlatformInit ==
    /\ scene \in {"subscriptions", "features", "quota", "policy"}
    /\ Sub!Init /\ Feat!Init /\ Init /\ Pol!Init

PlatformNext ==
    \/ /\ scene = "subscriptions" /\ Sub!Next
       /\ UNCHANGED <<scene, vars, featVars, polVars>>
    \/ /\ scene = "features" /\ Feat!Next
       /\ UNCHANGED <<scene, vars, subVars, polVars>>
    \/ /\ scene = "quota" /\ Next
       /\ UNCHANGED <<scene, subVars, featVars, polVars>>
    \/ /\ scene = "policy" /\ Pol!Next
       /\ UNCHANGED <<scene, vars, subVars, featVars>>

PlatformSpec == PlatformInit /\ [][PlatformNext]_allVars

Daily == scene = "subscriptions"

Toggling == scene = "features"

\* Fairness of Subscriptions and of Features, for the one that is at work.
PlatformFairness ==
    /\ WF_subVars(Daily /\ Sub!BeginEnforcement) /\ WF_subVars(Daily /\ Sub!NextSweep)
    /\ WF_subVars(Daily /\ Sub!CommitEnforcement)
    /\ WF_subVars(Daily /\ Sub!EnforcementFails /\ UNCHANGED crashes)
    /\ WF_subVars(Daily /\ \E t \in DOMAIN job.todo : Sub!Move(t))
    /\ WF_subVars(Daily /\ Sub!BeginPurge)
    /\ WF_subVars(Daily /\ \E t \in purge.todo : Sub!PurgeTenant(t))
    /\ WF_subVars(Daily /\ Sub!NextDay)
    /\ \A r \in Reader :
          WF_featVars(Toggling /\ Feat!Compute(r)) /\ WF_featVars(Toggling /\ Feat!Fill(r))
    /\ \A o \in Operator :
          /\ WF_featVars(Toggling /\ Feat!Write(o)) /\ WF_featVars(Toggling /\ Feat!Commit(o))
          /\ WF_featVars(Toggling /\ Feat!SignalTenant(o))
    /\ \A t \in Tenant : WF_featVars(Toggling /\ Feat!Expire(t))

-----------------------------------------------------------------------------
(* Properties *)

\* Subscriptions: an archived client has the date it is purged after, and the
\* audit rows lead to the status a client has.
ClientsHold == scene = "subscriptions" => Sub!ClientsHold

\* Features: a cached answer is wrong only when its computation overlapped the
\* write it misses, and a checked toggle leaves a way to take attendance.
AnswersHold == scene = "features" => Feat!AnswersHold

\* RatePolicy: no committed row says what having no row says, and a host's
\* entry is current unless a reader overlapped the write.
HostsHold == scene = "policy" => Pol!HostsHold

\* What an operator sees before it happens: clients about to lapse are on the
\* lists, a full plan shows its pressure, and what a change of plan takes
\* away is in the warnings.
ScreensForesee ==
    CASE scene = "subscriptions" -> Sub!LapseIsForeseen
      [] scene = "features" -> Feat!EveryLossIsWarned
      [] scene = "quota" -> FullIsShown
      [] OTHER -> TRUE

\* An operator's decision is undone by an operator or by a stale row, never by
\* a command that runs again or by another field's form: suspensions, what
\* purge_tenants deletes, and blocks.
DecisionsAreKept == Sub!CommandsKeepDecisions /\ Pol!UnblockedByDecisionOrRace

\* What was decided bites in the end: a lapsed client is stopped, a toggle
\* reaches the cached answers.
DecisionsBite == Sub!LapsedIsStopped /\ Feat!ToggleBites
=============================================================================
