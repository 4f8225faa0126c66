----------------------------- MODULE MCPlatform -----------------------------
(***************************************************************************)
(* Platform with one client, whose other components begin at rest.         *)
(***************************************************************************)
EXTENDS Platform, TLC

CONSTANTS t1, p1, p2

CameraNeedsQr == [key \in Feature |-> IF key = "camera" THEN {"qr"} ELSE {}]

TwoLists == {{"students", "qr", "camera"}, {"students", "manual", "camera"}}

\* Initial states that only the component at work tells apart are there once.
MCInit ==
    /\ PlatformInit
    /\ scene # "subscriptions" => rows[t1] = Sub!NoTenant
    /\ scene # "features" => plan_of[t1] = p1 /\ grants[p1] = grants[p2] /\ "qr" \in grants[p1]
    /\ scene # "quota" => \A res \in Resource : cap[res] = Unlimited
    /\ scene # "policy" => status[t1] = "absent"

MCSpec == MCInit /\ [][PlatformNext]_allVars /\ PlatformFairness
=============================================================================
