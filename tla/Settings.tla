------------------------------ MODULE Settings ------------------------------
(***************************************************************************)
(* The policies of one center: apps/core/registry.py and the endpoint that *)
(* saves several of them in one transaction (api.py).                      *)
(*                                                                         *)
(* All overrides are cached in one entry.  A write deletes the entry       *)
(* before its transaction commits, and the transaction itself reads        *)
(* through the entry, and fills it with what only it can see.              *)
(***************************************************************************)
EXTENDS Naturals, Sequences, FiniteSets

CONSTANTS
    Key,            \* policies
    Value,          \* valid values
    Updater, Reader,
    MaxRequests     \* bound: updates in a behaviour

SettingsAssumption == MaxRequests \in Nat

VARIABLES
    saved,      \* core_setting, committed
    cache,      \* the entry
    tx,         \* what each update is doing
    readers,    \* overrides that a reader has loaded and not yet cached
    received,   \* how many updates were received
    raced       \* history: the entry was filled while an update was open, or from a load
                \* that an update has overtaken

vars == <<saved, cache, tx, readers, received, raced>>

-----------------------------------------------------------------------------

Unset == "unset"

Missing == << >>

Invalid == "invalid"

Overrides == [Key -> Value \cup {Unset}]

Idle == [step |-> "idle"]

Nothing == [loaded |-> FALSE]

Init ==
    /\ saved = [key \in Key |-> Unset]
    /\ cache = Missing
    /\ tx = [u \in Updater |-> Idle]
    /\ readers = [r \in Reader |-> Nothing]
    /\ received = 0
    /\ raced = FALSE

Open(u) == tx[u] # Idle

\* The rows as the transaction of u sees them.
Seen(u) == [key \in Key |-> IF key \in DOMAIN tx[u].own THEN tx[u].own[key] ELSE saved[key]]

\* update_or_create locks the row it finds.
Locked(u, key) == \E v \in Updater \ {u} : Open(v) /\ key \in DOMAIN tx[v].own

\* The items of a form, in its order.
Form == {<<[key |-> k, value |-> v]>> : k \in Key, v \in Value \cup {Invalid, Unset}}
          \cup {<<[key |-> k, value |-> v], [key |-> l, value |-> w]>> :
                  k \in Key, l \in Key, v \in Value \cup {Invalid}, w \in Value \cup {Invalid}}

\* settings_update; a form of one item with no value is SettingsRegistry.reset.
Begin(u, form) ==
    /\ tx[u] = Idle
    /\ received < MaxRequests
    /\ received' = received + 1
    /\ tx' = [tx EXCEPT ![u] = [step |-> "get", todo |-> form, own |-> << >>, failed |-> FALSE]]
    /\ UNCHANGED <<saved, cache, readers, raced>>

\* settings_registry.get, for the audit row: a miss fills the entry with the
\* transaction's view of the table.
Get(u) ==
    /\ tx[u].step = "get"
    /\ IF cache = Missing THEN cache' = Seen(u) /\ raced' = TRUE ELSE UNCHANGED <<cache, raced>>
    /\ tx' = [tx EXCEPT ![u].step = "set"]
    /\ UNCHANGED <<saved, readers, received>>

Next1(t) == [t EXCEPT !.todo = Tail(@), !.step = IF Len(t.todo) = 1 THEN "end" ELSE "get"]

\* PolicySpec.validate refuses the item, and the others go on.
Refuse(u) ==
    /\ tx[u].step = "set"
    /\ Head(tx[u].todo).value = Invalid
    /\ tx' = [tx EXCEPT ![u] = [Next1(tx[u]) EXCEPT !.failed = TRUE]]
    /\ UNCHANGED <<saved, cache, readers, received, raced>>

Put(own, key, value) ==
    [k \in DOMAIN own \cup {key} |-> IF k = key THEN value ELSE own[k]]

\* SettingsRegistry.set and reset: the row, and then the entry is deleted.
Set(u) ==
    LET item == Head(tx[u].todo)
    IN  /\ tx[u].step = "set"
        /\ item.value # Invalid
        /\ ~Locked(u, item.key)
        /\ tx' = [tx EXCEPT ![u] = [Next1(tx[u]) EXCEPT !.own = Put(@, item.key, item.value)]]
        /\ cache' = Missing
        /\ raced' = FALSE
        /\ UNCHANGED <<saved, readers, received>>

\* One item refused, none is saved.
End(u) ==
    /\ tx[u].step = "end"
    /\ saved' = IF tx[u].failed THEN saved ELSE Seen(u)
    /\ tx' = [tx EXCEPT ![u] = Idle]
    /\ readers' = [r \in Reader |->
           IF readers[r] # Nothing THEN [readers[r] EXCEPT !.overtaken = TRUE] ELSE Nothing]
    /\ UNCHANGED <<cache, received, raced>>

-----------------------------------------------------------------------------
(* Everybody else *)

\* _overrides: a miss reads the committed rows ...
Load(r) ==
    /\ readers[r] = Nothing
    /\ cache = Missing
    /\ readers' = [readers EXCEPT ![r] = [loaded |-> TRUE, overrides |-> saved, overtaken |-> FALSE]]
    /\ UNCHANGED <<saved, cache, tx, received, raced>>

\* ... and fills the entry.
Fill(r) ==
    /\ readers[r] # Nothing
    /\ cache' = readers[r].overrides
    /\ raced' = (readers[r].overtaken \/ \E u \in Updater : Open(u))
    /\ readers' = [readers EXCEPT ![r] = Nothing]
    /\ UNCHANGED <<saved, tx, received>>

\* After CACHE_TTL.
Expire ==
    /\ cache # Missing
    /\ cache' = Missing
    /\ raced' = FALSE
    /\ UNCHANGED <<saved, tx, readers, received>>

-----------------------------------------------------------------------------

Next ==
    \/ \E u \in Updater : (\E form \in Form : Begin(u, form)) \/ Get(u) \/ Refuse(u) \/ Set(u) \/ End(u)
    \/ \E r \in Reader : Load(r) \/ Fill(r)
    \/ Expire

Spec == Init /\ [][Next]_vars

-----------------------------------------------------------------------------
(* Properties *)

TypeOK ==
    /\ saved \in Overrides
    /\ cache \in Overrides \cup {Missing}
    /\ \A r \in Reader : readers[r] # Nothing => readers[r].overrides \in Overrides
    /\ received \in 0 .. MaxRequests
    /\ raced \in BOOLEAN

\* "Applies immediately": what every worker is served is what is saved, unless
\* the entry was filled while an update was open or by a reader that an
\* update overtook; this also is where values come from that were never saved.
ServedIsSavedOrRaced ==
    cache # Missing /\ ~raced /\ (\A u \in Updater : ~Open(u)) => cache = saved

SettingsHold == TypeOK /\ ServedIsSavedOrRaced
=============================================================================
