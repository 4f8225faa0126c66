----------------------------- MODULE RatePolicy -----------------------------
(***************************************************************************)
(* The host cache of apps/tenancy/resolution.py, and the operator's limits *)
(* and blocks that ride in it.                                             *)
(*                                                                         *)
(* Each service of the console reads the policy row, decides on that       *)
(* instance and writes all of it, in a transaction that takes no lock      *)
(* before the write.  The signals of that write empty the cache before it  *)
(* commits; those of Tenant.save come after its commit.                    *)
(***************************************************************************)
EXTENDS Naturals, FiniteSets

CONSTANTS
    Tenant,         \* clients, each with one host
    Window,         \* limits that may be set
    PerSecond,      \* the window that burst belongs to
    Operator,       \* console requests that may run at the same time
    Reader,         \* requests of the centers that run at the same time
    MaxRequests,    \* bound: requests the console ever receives
    Missing         \* no cache entry

RatePolicyAssumption ==
    /\ PerSecond \in Window
    /\ MaxRequests \in Nat

VARIABLES
    status,     \* "absent", "open" or "stopped", of each client
    table,      \* the table tenancy_tenantratepolicy, by client
    cache,      \* the entry of each host
    readers,    \* what each center request is doing
    changes,    \* what each console request is doing
    received,   \* how many requests the console received
    exposed,    \* history: hosts read while a change of theirs was under way
    overtaken   \* history: clients whose row was written from an old instance

vars == <<status, table, cache, readers, changes, received, exposed, overtaken>>

-----------------------------------------------------------------------------
(* Rows *)

NoRow == [pk |-> 0, windows |-> {}, burst |-> FALSE, blocked |-> FALSE]

\* parse_limits and clean: a burst needs a limit per second.
Limits == {limits \in [windows : SUBSET Window, burst : BOOLEAN] :
              limits.burst => PerSecond \in limits.windows}

IsDefault(row) == ~row.blocked /\ row.windows = {} /\ ~row.burst

\* What a host resolves to: nothing, or the client with its policy.
Lookup(t) ==
    IF status[t] = "absent" THEN [found |-> FALSE]
    ELSE [found |-> TRUE, open |-> status[t] = "open", policy |-> table[t]]

\* A row from before: its client is limited and blocked.
Earlier == [pk |-> MaxRequests + 1, windows |-> {PerSecond}, burst |-> FALSE, blocked |-> TRUE]

Idle == [step |-> "idle"]

Init ==
    /\ status \in [Tenant -> {"absent", "open"}]
    /\ table \in [Tenant -> {NoRow, Earlier}]
    /\ \A t \in Tenant : status[t] = "absent" => table[t] = NoRow
    /\ cache = [t \in Tenant |-> Missing]
    /\ readers = [r \in Reader |-> Idle]
    /\ changes = [o \in Operator |-> Idle]
    /\ received = 0
    /\ exposed = {}
    /\ overtaken = {}

Changing(t) == {o \in Operator : changes[o].step \in {"written", "saved"} /\ changes[o].tenant = t}

Reading(t) == \E r \in Reader : readers[r] # Idle /\ readers[r].tenant = t

-----------------------------------------------------------------------------
(* resolve_host *)

Miss(r, t) ==
    /\ readers[r] = Idle
    /\ cache[t] = Missing
    /\ readers' = [readers EXCEPT ![r] = [step |-> "read", tenant |-> t, entry |-> Lookup(t)]]
    /\ exposed' = IF Changing(t) # {} THEN exposed \cup {t} ELSE exposed
    /\ UNCHANGED <<status, table, cache, changes, received, overtaken>>

\* The client, or that there is none: both are cached.
Fill(r) ==
    /\ readers[r].step = "read"
    /\ cache' = [cache EXCEPT ![readers[r].tenant] = readers[r].entry]
    /\ readers' = [readers EXCEPT ![r] = Idle]
    /\ UNCHANGED <<status, table, changes, received, exposed, overtaken>>

\* CACHE_TTL, NEGATIVE_CACHE_TTL
Expire(t) ==
    /\ cache[t] # Missing
    /\ cache' = [cache EXCEPT ![t] = Missing]
    /\ UNCHANGED <<status, table, readers, changes, received, exposed, overtaken>>

-----------------------------------------------------------------------------
(* The services *)

Receive(o, change) ==
    /\ changes[o] = Idle
    /\ received < MaxRequests
    /\ received' = received + 1
    /\ changes' = [changes EXCEPT ![o] = change]
    /\ UNCHANGED <<status, table, cache, readers, exposed, overtaken>>

Decide(o, t, op, row) ==
    /\ status[t] # "absent"
    /\ Receive(o, [step |-> "decided", tenant |-> t, op |-> op, instance |-> table[t], row |-> row])

\* Mutant: a new instance takes the place of the one that was read.
LimitsAnew(row, limits) ==
    [pk |-> row.pk, windows |-> limits.windows, burst |-> limits.burst, blocked |-> FALSE]

Limited(row, limits) == [row EXCEPT !.windows = limits.windows, !.burst = limits.burst]

\* A row that says nothing is not created.
SetRateLimits(o, t, limits) ==
    LET row == Limited(table[t], limits)
    IN  /\ row.pk # 0 \/ ~IsDefault(row)
        /\ Decide(o, t, "limits", row)

BlockTraffic(o, t) ==
    /\ ~table[t].blocked
    /\ Decide(o, t, "block", [table[t] EXCEPT !.blocked = TRUE])

UnblockTraffic(o, t) ==
    /\ table[t].blocked
    /\ Decide(o, t, "unblock", [table[t] EXCEPT !.blocked = FALSE])

\* Mutant: only the columns that changed are written.
WrittenInPart(there, instance, row) ==
    CASE IsDefault(row) -> IF row.pk = there.pk THEN NoRow ELSE there
      [] row.pk = 0 -> [row EXCEPT !.pk = received]
      [] row.pk = there.pk ->
            [pk |-> row.pk,
             windows |-> IF row.windows = instance.windows THEN there.windows ELSE row.windows,
             burst |-> IF row.burst = instance.burst THEN there.burst ELSE row.burst,
             blocked |-> IF row.blocked = instance.blocked THEN there.blocked ELSE row.blocked]
      [] OTHER -> row

\* What the write makes of the row that is there: a default row is deleted
\* by its key, another is updated, or inserted when the key has no row.
Written(there, instance, row) ==
    CASE IsDefault(row) -> IF row.pk = there.pk THEN NoRow ELSE there
      [] OTHER -> IF row.pk = 0 THEN [row EXCEPT !.pk = received] ELSE row

\* A second row of the client is refused by the database.
Duplicate(there, row) == ~IsDefault(row) /\ there.pk \notin {0, row.pk}

Writes(t) == \E o \in Operator : changes[o].step = "written" /\ changes[o].tenant = t

\* The write waits for another transaction on the row; its signal empties
\* the cache, and the transaction goes on.
Write(o) ==
    LET c == changes[o]
    IN  /\ c.step = "decided"
        /\ ~Writes(c.tenant)
        /\ ~Duplicate(table[c.tenant], c.row)
        /\ changes' = [changes EXCEPT ![o].step = "written"]
        /\ cache' = [cache EXCEPT ![c.tenant] = Missing]
        /\ exposed' = IF Reading(c.tenant) THEN exposed \cup {c.tenant} ELSE exposed
        /\ overtaken' = IF table[c.tenant] = c.instance THEN overtaken ELSE overtaken \cup {c.tenant}
        /\ UNCHANGED <<status, table, readers, received>>

WriteFails(o) ==
    /\ changes[o].step = "decided"
    /\ ~Writes(changes[o].tenant)
    /\ Duplicate(table[changes[o].tenant], changes[o].row)
    /\ changes' = [changes EXCEPT ![o] = Idle]
    /\ UNCHANGED <<status, table, cache, readers, received, exposed, overtaken>>

Commit(o) ==
    LET c == changes[o]
    IN  /\ c.step = "written"
        /\ IF c.op = "create"
             THEN status' = [status EXCEPT ![c.tenant] = "open"] /\ UNCHANGED table
             ELSE table' = [table EXCEPT ![c.tenant] = Written(@, c.instance, c.row)] /\ UNCHANGED status
        /\ changes' = [changes EXCEPT ![o] = Idle]
        /\ UNCHANGED <<cache, readers, received, exposed, overtaken>>

\* provision_tenant up to Domain.save and its signal, as far as a request
\* for the new host can tell.
CreateDomain(o, t) ==
    /\ status[t] = "absent" /\ ~Writes(t)
    /\ changes[o] = Idle
    /\ received < MaxRequests
    /\ received' = received + 1
    /\ changes' = [changes EXCEPT ![o] = [step |-> "written", tenant |-> t, op |-> "create"]]
    /\ cache' = [cache EXCEPT ![t] = Missing]
    /\ exposed' = IF Reading(t) THEN exposed \cup {t} ELSE exposed
    /\ UNCHANGED <<status, table, readers, overtaken>>

\* transition_to: Tenant.save commits ...
SaveTenant(o, t) ==
    /\ status[t] # "absent"
    /\ changes[o] = Idle
    /\ received < MaxRequests
    /\ received' = received + 1
    /\ status' = [status EXCEPT ![t] = IF @ = "open" THEN "stopped" ELSE "open"]
    /\ changes' = [changes EXCEPT ![o] = [step |-> "saved", tenant |-> t]]
    /\ exposed' = IF Reading(t) THEN exposed \cup {t} ELSE exposed
    /\ UNCHANGED <<table, cache, readers, overtaken>>

\* ... and invalidate_tenant follows.
SignalTenant(o) ==
    /\ changes[o].step = "saved"
    /\ cache' = [cache EXCEPT ![changes[o].tenant] = Missing]
    /\ changes' = [changes EXCEPT ![o] = Idle]
    /\ UNCHANGED <<status, table, readers, received, exposed, overtaken>>

-----------------------------------------------------------------------------

Next ==
    \/ \E r \in Reader, t \in Tenant : Miss(r, t)
    \/ \E r \in Reader : Fill(r)
    \/ \E t \in Tenant : Expire(t)
    \/ \E o \in Operator, t \in Tenant, limits \in Limits : SetRateLimits(o, t, limits)
    \/ \E o \in Operator, t \in Tenant :
          BlockTraffic(o, t) \/ UnblockTraffic(o, t) \/ CreateDomain(o, t) \/ SaveTenant(o, t)
    \/ \E o \in Operator : Write(o) \/ WriteFails(o) \/ Commit(o) \/ SignalTenant(o)

Spec == Init /\ [][Next]_vars

-----------------------------------------------------------------------------
(* Properties *)

Row == [pk : 0 .. MaxRequests + 1, windows : SUBSET Window, burst : BOOLEAN, blocked : BOOLEAN]

TypeOK ==
    /\ status \in [Tenant -> {"absent", "open", "stopped"}]
    /\ table \in [Tenant -> Row]
    /\ received \in 0 .. MaxRequests
    /\ exposed \subseteq Tenant /\ overtaken \subseteq Tenant
    /\ \A t \in Tenant : cache[t] # Missing /\ cache[t].found => cache[t].policy \in Row

\* "No limits" has one representation, no row, however the services overlap.
NoDefaultRow == \A t \in Tenant : table[t].pk # 0 => ~IsDefault(table[t])

\* The entry of a host is what the tables say, unless it was read while a
\* change of the client was under way, or the signal of a save is to come.
EntryIsCurrent ==
    \A t \in Tenant \ exposed :
        cache[t] \in {Missing, Lookup(t)} \/ \E o \in Changing(t) : changes[o].step = "saved"

\* A block is lifted by an operator who asked for that, or by a service whose
\* instance another had overtaken.
UnblockedByDecisionOrRace ==
    [][\A t \in Tenant :
          table[t].blocked /\ ~table'[t].blocked =>
              \/ t \in overtaken
              \/ \E o \in Operator : changes[o].step = "written" /\ changes'[o] = Idle
                                       /\ changes[o].op = "unblock"]_vars

\* The policy rows and the host cache: one representation of no limits, and
\* entries as current as the signals can make them.
HostsHold == TypeOK /\ NoDefaultRow /\ EntryIsCurrent
=============================================================================
