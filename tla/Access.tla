------------------------------- MODULE Access -------------------------------
(***************************************************************************)
(* Who a request is answered for: the middlewares of apps/tenancy, the     *)
(* scoped lookup of users, signing in and out, and an operator's entry     *)
(* into a client's account.                                                *)
(*                                                                         *)
(* A request runs the whole chain in one step: resolution, session, user,  *)
(* session guard, impersonation guard, status gate, view.  What it sees of *)
(* a client's status comes from the host cache and may be out of date; the *)
(* user and the user's own client are read from the database.              *)
(***************************************************************************)
EXTENDS Naturals, FiniteSets

CONSTANTS
    Tenant,         \* clients, each with a host of its own
    Console,        \* the console's host
    Minutes,        \* IMPERSONATION_MINUTES
    MaxClock,       \* bound: minutes the model runs for
    MaxEntries      \* bound: entries into one client that are not left

Nobody == "anonymous"

Operator == "operator"

\* A center's user is named by the client.
AccessAssumption ==
    /\ IsFiniteSet(Tenant) /\ {Nobody, Operator} \cap Tenant = {}
    /\ Console \notin Tenant
    /\ Minutes \in Nat \ {0} /\ {MaxClock, MaxEntries} \subseteq Nat

VARIABLES
    deployment, \* "hosts", "path": CONSOLE_PATH_PREFIX, or "shared": a cookie domain set by mistake
    open,       \* clients whose status is operational
    cached,     \* the same, in the entries of the host cache
    jar,        \* the session behind each cookie of one browser
    clock,      \* minutes
    entries,    \* audit rows IMPERSONATION_STARTED less IMPERSONATION_ENDED, of each client
    flushed,    \* history: the session guard found a mismatch
    last        \* history: the last view that ran, and whom for

vars == <<deployment, open, cached, jar, clock, entries, flushed, last>>

-----------------------------------------------------------------------------
(* Sessions *)

NoRecord == [mode |-> "none"]

Records == [mode : {"read", "write"}, tenant : Tenant, until : Nat]

Session == [user : Tenant \cup {Nobody, Operator}, record : Records \cup {NoRecord}]

NoSession == [user |-> Nobody, record |-> NoRecord]

\* A place is a host, and whether the console is meant.
Place ==
    IF deployment = "path" THEN Tenant \X BOOLEAN
    ELSE (Tenant \X {FALSE}) \cup {<<Console, TRUE>>}

Host(place) == place[1]

IsConsole(place) == place[2]

\* SESSION_COOKIE_DOMAIN is unset: a cookie belongs to its host.
Cookie(place) == IF deployment = "shared" THEN Console ELSE Host(place)

SessionAt(place) == jar[Cookie(place)]

Init ==
    /\ deployment \in {"hosts", "path", "shared"}
    /\ open = Tenant
    /\ cached = Tenant
    /\ jar = [cookie \in Tenant \cup {Console} |-> NoSession]
    /\ clock = 0
    /\ entries = [t \in Tenant |-> 0]
    /\ flushed = FALSE
    /\ last = [view |-> "none"]

-----------------------------------------------------------------------------
(* The middlewares *)

\* TenantUserManager finds the users of the client in context, or those
\* without one.
Scoped(user, place) ==
    \/ user = Operator /\ IsConsole(place)
    \/ user \in Tenant /\ ~IsConsole(place) /\ user = Host(place)

\* TenantModelBackend.get_user also refuses the users of a stopped client.
Loaded(place) ==
    LET user == SessionAt(place).user
    IN  IF Scoped(user, place) /\ user \in open \cup {Operator} THEN user ELSE Nobody

Live(record) == record # NoRecord /\ record.until > clock

\* impersonation.current drops a record that is over.
Current(session) ==
    IF Live(session.record) THEN session ELSE [session EXCEPT !.record = NoRecord]

\* TenantSessionGuardMiddleware._mismatch
Mismatch(place) ==
    LET user == Loaded(place)
        record == Current(SessionAt(place)).record
    IN  \/ IsConsole(place) /\ user \in Tenant /\ deployment # "path"
        \/ ~IsConsole(place) /\ user = Operator
             /\ ~(record # NoRecord /\ record.tenant = Host(place))
        \/ ~IsConsole(place) /\ user \in Tenant /\ user # Host(place)

\* The session as the guards leave it, and the user they leave.
Guarded(place) == IF Mismatch(place) THEN NoSession ELSE Current(SessionAt(place))

User(place) == IF Mismatch(place) THEN Nobody ELSE Loaded(place)

\* FORBIDDEN_NAMES are the money and the credentials.  The login's AJAX form
\* and the logout are posted too, and are refused to a record that reads.
ForbiddenViews == {"money", "credentials"}

PostedViews == {"edit", "money", "credentials", "login", "logout"}

\* ImpersonationGuardMiddleware.  It does not ask for the place: a record in
\* a session that the console shares stops the console's own posts.
Refused(place, view, post) ==
    LET record == Guarded(place).record
    IN  record # NoRecord /\ post /\ (view \in ForbiddenViews \/ record.mode # "write")

\* TenantStatusMiddleware
Gated(place, view) == ~IsConsole(place) /\ Host(place) \notin cached /\ view # "logout"

Saved(place, session) == jar' = [jar EXCEPT ![Cookie(place)] = session]

Ran(place, view, user) ==
    last' = [view |-> view, host |-> Host(place), user |-> user, console |-> IsConsole(place)]

\* What every request leaves alone.
Request(place) ==
    /\ flushed' = (flushed \/ Mismatch(place))
    /\ UNCHANGED <<deployment, open, cached, clock>>

Reaches(place, view, post) ==
    /\ ~Refused(place, view, post)
    /\ ~Gated(place, view)

\* A guard answers: the gate also signs the user out.
Stopped(place, view, post) ==
    /\ Request(place)
    /\ ~Reaches(place, view, post)
    /\ Saved(place, IF ~Refused(place, view, post) /\ User(place) # Nobody
                      THEN NoSession ELSE Guarded(place))
    /\ last' = [view |-> "none"]
    /\ UNCHANGED entries

-----------------------------------------------------------------------------
(* A center's pages *)

\* A page or an endpoint of the center; one that asks for a user sends the
\* anonymous to the login page.
CenterView(place, view, post) ==
    /\ ~IsConsole(place)
    /\ Reaches(place, view, post)
    /\ Request(place)
    /\ Saved(place, Guarded(place))
    /\ IF User(place) = Nobody THEN last' = [view |-> "none"] ELSE Ran(place, view, User(place))
    /\ UNCHANGED entries

\* Mutant: the data of the session before is kept.
SignedInKeeping(place, user) == [Guarded(place) EXCEPT !.user = user]

\* django.contrib.auth.login: another user's session is flushed first.
SignedIn(place, user) ==
    IF Guarded(place).user \in {Nobody, user} THEN [Guarded(place) EXCEPT !.user = user]
    ELSE [NoSession EXCEPT !.user = user]

\* The lookup by name is scoped like the one by key.
CenterLogin(place) ==
    /\ ~IsConsole(place)
    /\ Host(place) \in open                     \* user_can_authenticate
    /\ Reaches(place, "login", TRUE)
    /\ Request(place)
    /\ Saved(place, SignedIn(place, Host(place)))
    /\ Ran(place, "login", Host(place))
    /\ UNCHANGED entries

Logout(place) ==
    /\ Reaches(place, "logout", ~IsConsole(place))      \* the console's is a link
    /\ Request(place)
    /\ Saved(place, NoSession)
    /\ last' = [view |-> "none"]
    /\ UNCHANGED entries

-----------------------------------------------------------------------------
(* The console *)

ConsoleLogin(place) ==
    /\ IsConsole(place)
    /\ Reaches(place, "login", TRUE)
    /\ Request(place)
    /\ Saved(place, SignedIn(place, Operator))
    /\ Ran(place, "login", Operator)
    /\ UNCHANGED entries

\* platform_staff_required
Staff(place) == IsConsole(place) /\ User(place) = Operator

\* tenant_enter: the record goes into the session of the console's cookie.
Enter(place, t, mode) ==
    /\ Staff(place)
    /\ t \in open
    /\ entries[t] < MaxEntries
    /\ Reaches(place, "enter", TRUE)
    /\ Request(place)
    /\ Saved(place, [Guarded(place) EXCEPT
           !.record = [mode |-> mode, tenant |-> t, until |-> clock + Minutes]])
    /\ entries' = [entries EXCEPT ![t] = @ + 1]
    /\ Ran(place, "enter", Operator)

\* tenant_leave, a link; record_impersonation_end finds nothing in a record
\* that is over, which the guard has dropped without a row.
Leave(place) ==
    /\ Staff(place)
    /\ Request(place)
    /\ Saved(place, [Guarded(place) EXCEPT !.record = NoRecord])
    /\ entries' = IF Guarded(place).record = NoRecord THEN entries
                  ELSE [entries EXCEPT ![Guarded(place).record.tenant] = @ - 1]
    /\ Ran(place, "leave", Operator)

\* Whoever is not staff gets the login page or a 404.
TurnedAway(place) ==
    /\ IsConsole(place) /\ ~Staff(place)
    /\ Request(place)
    /\ Saved(place, Guarded(place))
    /\ last' = [view |-> "none"]
    /\ UNCHANGED entries

-----------------------------------------------------------------------------
(* The rest of the world *)

\* transition_to, by another operator.
SetStatus(t) ==
    /\ open' = IF t \in open THEN open \ {t} ELSE open \cup {t}
    /\ last' = [view |-> "none"]
    /\ UNCHANGED <<deployment, cached, jar, clock, entries, flushed>>

\* The host cache follows, at the latest when its entry expires.
CacheFollows(t) ==
    /\ (t \in open) # (t \in cached)
    /\ cached' = IF t \in open THEN cached \cup {t} ELSE cached \ {t}
    /\ last' = [view |-> "none"]
    /\ UNCHANGED <<deployment, open, jar, clock, entries, flushed>>

Tick ==
    /\ clock < MaxClock
    /\ clock' = clock + 1
    /\ last' = [view |-> "none"]
    /\ UNCHANGED <<deployment, open, cached, jar, entries, flushed>>

-----------------------------------------------------------------------------

Views == {"page", "edit", "money", "credentials"}

Next ==
    \/ \E place \in Place, view \in Views : CenterView(place, view, view \in PostedViews)
    \/ \E place \in Place, view \in Views : Stopped(place, view, view \in PostedViews)
    \/ \E place \in Place : CenterLogin(place) \/ ConsoleLogin(place) \/ Logout(place)
    \/ \E place \in Place : Leave(place) \/ TurnedAway(place)
    \/ \E place \in Place, t \in Tenant, mode \in {"read", "write"} : Enter(place, t, mode)
    \/ \E t \in Tenant : SetStatus(t) \/ CacheFollows(t)
    \/ Tick

Spec == Init /\ [][Next]_vars

-----------------------------------------------------------------------------
(* Properties *)

TypeOK ==
    /\ deployment \in {"hosts", "path", "shared"}
    /\ open \subseteq Tenant /\ cached \subseteq Tenant
    /\ jar \in [Tenant \cup {Console} -> Session]
    /\ clock \in 0 .. MaxClock
    /\ entries \in [Tenant -> 0 .. MaxEntries]
    /\ flushed \in BOOLEAN

\* No session of a center's user, or of nobody, carries an operator's record,
\* whatever order of signing in, entering and signing out led to it.
RecordBelongsToOperator ==
    \A cookie \in DOMAIN jar : jar[cookie].record # NoRecord => jar[cookie].user = Operator

\* Once a suspension is committed no view runs for the client's users, even
\* while the host cache still says that the client works.
SuspendedIsShut == last.view # "none" /\ last.user \in Tenant => last.user \in open

\* "This should never fire": with cookies that the hosts share by mistake,
\* the scoped lookup alone keeps a session to its place.
GuardNeverFires == ~flushed

\* An open entry has an audit row that opened it: leaving twice, or leaving
\* what another entry replaced, closes no entry that nobody opened.
OpenEntriesAreAudited ==
    \A t \in Tenant :
        Cardinality({cookie \in DOMAIN jar : jar[cookie].record # NoRecord
                                               /\ jar[cookie].record.tenant = t}) <= entries[t]

AccessHolds ==
    /\ TypeOK /\ RecordBelongsToOperator /\ SuspendedIsShut /\ GuardNeverFires
    /\ OpenEntriesAreAudited
=============================================================================
