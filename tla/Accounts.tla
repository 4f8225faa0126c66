------------------------------ MODULE Accounts ------------------------------
(***************************************************************************)
(* The users of one center: apps/accounts/api.py, signing in, changing a   *)
(* password, and the auth.Group that follows the role (signals.py).        *)
(*                                                                         *)
(* Every request loads a user, decides, and saves the instance later; a    *)
(* PATCH and a change of the password save all of its fields.  Any save of *)
(* a user, of whatever fields, sets the membership to the instance's role. *)
(***************************************************************************)
EXTENDS Naturals, FiniteSets

CONSTANTS
    User,
    Request,        \* requests served at the same time
    MaxRequests     \* bound: requests in a behaviour

AccountsAssumption == MaxRequests \in Nat

VARIABLES
    users,      \* accounts_user
    groups,     \* the role whose auth.Group each user is a member of
    tx,         \* what each request is doing
    received,   \* how many requests were received
    stale       \* history: users last saved or synced from an instance that was overtaken

vars == <<users, groups, tx, received, stale>>

-----------------------------------------------------------------------------

Role == {"SUPER_ADMIN", "CENTER_ADMIN", "CASHIER"}

NoUser == [role |-> "none"]

Account == [role : Role, active : BOOLEAN, password : {"own", "given"}]

\* ROLE_PERMISSIONS: who holds accounts.add_user and accounts.change_user.
Managers == {"SUPER_ADMIN", "CENTER_ADMIN"}

\* What a PATCH carries; "same" is a field that is not sent.
Data == [role : Role \cup {"same"}, active : {"on", "off", "same"}, reset : BOOLEAN]

Idle == [step |-> "idle"]

\* A center begins with an owner; others are made later.
Init ==
    /\ \E owner \in User :
          users = [u \in User |->
              IF u = owner THEN [role |-> "SUPER_ADMIN", active |-> TRUE, password |-> "own"] ELSE NoUser]
    /\ groups = [u \in User |-> users[u].role]
    /\ tx = [r \in Request |-> Idle]
    /\ received = 0
    /\ stale = {}

\* What the middleware loads and the permission check finds.
MayManage(u) == users[u] # NoUser /\ users[u].active /\ groups[u] \in Managers

ActiveSupers == {u \in User : users[u] # NoUser /\ users[u].role = "SUPER_ADMIN" /\ users[u].active}

Receives(r) ==
    /\ tx[r] = Idle
    /\ received < MaxRequests
    /\ received' = received + 1

\* _guard_role_grant
MayGrant(actor, role) == role = "SUPER_ADMIN" => users[actor].role = "SUPER_ADMIN"

\* _guard_deactivation: of the role the PATCH has already set on the instance.
MayDeactivate(actor, target, role) ==
    /\ target # actor
    /\ role = "SUPER_ADMIN" => ActiveSupers \ {target} # {}

\* The instance with what the PATCH carries.
Patched(account, data) ==
    [role |-> IF data.role = "same" THEN account.role ELSE data.role,
     active |-> IF data.active = "same" THEN account.active ELSE data.active = "on",
     password |-> IF data.reset THEN "given" ELSE account.password]

Working(step, u, account, data, actor) ==
    [step |-> step, user |-> u, read |-> users[u], account |-> account, data |-> data,
     actor |-> actor, super |-> users[actor].role = "SUPER_ADMIN", overtaken |-> FALSE]

\* Whoever works on an instance of u is overtaken by a save of u; whoever
\* counted the owners, by a save of an owner.
Overtaken(r, u, next) ==
    [q \in Request |->
        IF q = r THEN next
        ELSE IF tx[q] # Idle /\ (tx[q].user = u \/ u \in ActiveSupers)
               THEN [tx[q] EXCEPT !.overtaken = TRUE] ELSE tx[q]]

-----------------------------------------------------------------------------
(* users, POST *)

Create(r, actor, u, role) ==
    /\ Receives(r)
    /\ MayManage(actor) /\ MayGrant(actor, role)
    /\ users[u] = NoUser
    /\ users' = [users EXCEPT ![u] = [role |-> role, active |-> TRUE, password |-> "given"]]
    /\ groups' = [groups EXCEPT ![u] = role]
    /\ UNCHANGED <<tx, stale>>

(* user_detail, PATCH *)

Patch(r, actor, u, data) ==
    LET account == Patched(users[u], data)
    IN  /\ Receives(r)
        /\ MayManage(actor) /\ users[u] # NoUser
        /\ data.role # "same" => MayGrant(actor, data.role)
        /\ data.active = "off" /\ users[u].active => MayDeactivate(actor, u, account.role)
        /\ tx' = [tx EXCEPT ![r] = Working("patching", u, account, data, actor)]
        /\ UNCHANGED <<users, groups, stale>>

\* Mutant: the membership is left as it was.
SaveUnsynced(r) ==
    /\ tx[r].step = "patching"
    /\ users' = [users EXCEPT ![tx[r].user] = tx[r].account]
    /\ stale' = IF tx[r].overtaken THEN stale \cup {tx[r].user} ELSE stale \ {tx[r].user}
    /\ tx' = Overtaken(r, tx[r].user, Idle)
    /\ UNCHANGED <<groups, received>>

\* target.save() and post_save, in one transaction.
Save(r) ==
    /\ tx[r].step = "patching"
    /\ users' = [users EXCEPT ![tx[r].user] = tx[r].account]
    /\ groups' = [groups EXCEPT ![tx[r].user] = tx[r].account.role]
    /\ stale' = IF tx[r].overtaken THEN stale \cup {tx[r].user} ELSE stale \ {tx[r].user}
    /\ tx' = Overtaken(r, tx[r].user, Idle)
    /\ UNCHANGED received

(* A user's own requests *)

NoData == [role |-> "same", active |-> "same", reset |-> FALSE]

\* login: authenticate loads the user.
Login(r, u) ==
    /\ Receives(r)
    /\ users[u] # NoUser /\ users[u].active
    /\ tx' = [tx EXCEPT ![r] = Working("syncing", u, users[u], NoData, u)]
    /\ UNCHANGED <<users, groups, stale>>

\* CenterPasswordChangeView: request.user is saved with all its fields, and
\* then the flag.
ChangePassword(r, u) ==
    /\ Receives(r)
    /\ users[u] # NoUser /\ users[u].active
    /\ tx' = [tx EXCEPT ![r] =
           Working("changing", u, [users[u] EXCEPT !.password = "own"], NoData, u)]
    /\ UNCHANGED <<users, groups, stale>>

SavePassword(r) ==
    /\ tx[r].step = "changing"
    /\ users' = [users EXCEPT ![tx[r].user] = tx[r].account]
    /\ stale' = IF tx[r].overtaken THEN stale \cup {tx[r].user} ELSE stale
    /\ tx' = Overtaken(r, tx[r].user, [tx[r] EXCEPT !.step = "syncing"])
    /\ UNCHANGED <<groups, received>>

\* sync_role_group after a save of last_login, of the address or of the flag.
Sync(r) ==
    /\ tx[r].step = "syncing"
    /\ groups' = [groups EXCEPT ![tx[r].user] = tx[r].account.role]
    /\ stale' = IF tx[r].overtaken THEN stale \cup {tx[r].user} ELSE stale
    /\ tx' = [tx EXCEPT ![r] = Idle]
    /\ UNCHANGED <<users, received>>

-----------------------------------------------------------------------------

Next ==
    \/ \E r \in Request, actor, u \in User :
          \/ \E role \in Role : Create(r, actor, u, role)
          \/ \E data \in Data : Patch(r, actor, u, data)
    \/ \E r \in Request, u \in User : Login(r, u) \/ ChangePassword(r, u)
    \/ \E r \in Request : Save(r) \/ SavePassword(r) \/ Sync(r)

Spec == Init /\ [][Next]_vars

-----------------------------------------------------------------------------
(* Properties *)

TypeOK ==
    /\ users \in [User -> Account \cup {NoUser}]
    /\ groups \in [User -> Role \cup {"none"}]
    /\ received \in 0 .. MaxRequests
    /\ stale \subseteq User

\* "Keep auth.Group membership aligned with User.role": the permissions that
\* are checked are those of the role, except after a save or a sync of an
\* instance that another save had overtaken.
GroupFollowsRole ==
    \A u \in User \ stale :
        (\A r \in Request : tx[r].step = "syncing" => tx[r].user # u) => groups[u] = users[u].role

AccountsHold == TypeOK /\ GroupFollowsRole

Reactivated(u) == users[u] # NoUser /\ ~users[u].active /\ users'[u].active

BecomesSuper(u) == users[u].role # "SUPER_ADMIN" /\ users'[u].role = "SUPER_ADMIN"

ForgetsReset(u) == users[u] # NoUser /\ users[u].password = "given" /\ users'[u].password = "own"

\* Who saves the row in this step.
Saves(r, u) == tx[r].step \in {"patching", "changing"} /\ tx'[r] # tx[r] /\ tx[r].user = u

\* In every step: a grant, a reactivation and a reset are what somebody with the right to it
\* asked for, or the work of an instance that another save had overtaken; and
\* the last owner goes only so, or by a request that also takes his role.
AccountsAreDecided ==
    /\ \A u \in User : BecomesSuper(u) =>
          \/ users[u] = NoUser /\ \E actor \in User : users[actor].role = "SUPER_ADMIN"
          \/ \E r \in Request :
                /\ Saves(r, u)
                /\ tx[r].overtaken \/ (tx[r].super /\ tx[r].data.role = "SUPER_ADMIN")
    /\ \A u \in User : Reactivated(u) =>
          \E r \in Request : Saves(r, u) /\ (tx[r].overtaken \/ tx[r].data.active = "on")
    /\ \A u \in User : ForgetsReset(u) =>
          \E r \in Request : Saves(r, u) /\ (tx[r].overtaken \/ tx[r].step = "changing")
    /\ ActiveSupers # {} /\ ActiveSupers' = {} =>
          \E u \in User, r \in Request : Saves(r, u) /\ (tx[r].overtaken \/ tx[r].data.role # "same")
=============================================================================
