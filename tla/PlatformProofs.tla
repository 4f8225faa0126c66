--------------------------- MODULE PlatformProofs ---------------------------
(***************************************************************************)
(* Theorems about the two cached resolvers of a request: RatePolicy, which *)
(* finds the client of a host with its limits, and Features, which says    *)
(* what the client bought, for any number of clients, operators, readers   *)
(* and requests.  Then, that the limits of a plan are passed by no more    *)
(* than the requests that overlap, for any number of resources, requests,  *)
(* limits and batches; and that what is proved of each component holds of  *)
(* the platform.                                                           *)
(***************************************************************************)
EXTENDS SubscriptionsProofs

-----------------------------------------------------------------------------
(* Policy rows *)

LEMMA NoRowIs ==
    ASSUME Pol!RatePolicyAssumption
    PROVE  Pol!NoRow \in Pol!Row /\ Pol!NoRow.pk = 0
<1>1. 0 \in 0 .. MaxLimits + 1
  BY DEF Pol!RatePolicyAssumption
<1>2. {} \in SUBSET Window /\ FALSE \in BOOLEAN
  OBVIOUS
<1> PICK pk \in 0 .. MaxLimits + 1, windows \in SUBSET Window, burst \in BOOLEAN, blocked \in BOOLEAN :
       pk = 0 /\ windows = {} /\ burst = FALSE /\ blocked = FALSE
  BY <1>1, <1>2
<1>3. Pol!NoRow = [pk |-> pk, windows |-> windows, burst |-> burst, blocked |-> blocked]
  BY Zenon DEF Pol!NoRow
<1> QED
  BY <1>3 DEF Pol!Row

LEMMA EarlierIs ==
    ASSUME Pol!RatePolicyAssumption
    PROVE  Pol!Earlier \in Pol!Row /\ ~Pol!IsDefault(Pol!Earlier)
<1>1. MaxLimits + 1 \in 0 .. MaxLimits + 1 /\ {PerSecond} \in SUBSET Window
  BY DEF Pol!RatePolicyAssumption
<1> PICK pk \in 0 .. MaxLimits + 1, windows \in SUBSET Window, burst \in BOOLEAN, blocked \in BOOLEAN :
       pk = MaxLimits + 1 /\ windows = {PerSecond} /\ burst = FALSE /\ blocked = TRUE
  BY <1>1
<1>2. Pol!Earlier = [pk |-> pk, windows |-> windows, burst |-> burst, blocked |-> blocked]
  BY Zenon DEF Pol!Earlier
<1>3. Pol!Earlier \in Pol!Row
  BY <1>2 DEF Pol!Row
<1>4. Pol!Earlier.blocked
  BY <1>2, Zenon
<1> QED
  BY <1>3, <1>4, Zenon DEF Pol!IsDefault

\* The rows that the services decide on.
LEMMA DecidedRows ==
    ASSUME NEW row \in Pol!Row, NEW limits \in Pol!Limits
    PROVE  /\ Pol!Limited(row, limits) \in Pol!Row
           /\ [row EXCEPT !.blocked = TRUE] \in Pol!Row
           /\ [row EXCEPT !.blocked = FALSE] \in Pol!Row
<1>1. limits.windows \in SUBSET Window /\ limits.burst \in BOOLEAN
  BY DEF Pol!Limits
<1> PICK yes \in BOOLEAN, no \in BOOLEAN : yes = TRUE /\ no = FALSE
  OBVIOUS
<1>2. [row EXCEPT !.blocked = yes] \in Pol!Row /\ [row EXCEPT !.blocked = no] \in Pol!Row
  BY DEF Pol!Row
<1> PICK windows \in SUBSET Window, burst \in BOOLEAN : windows = limits.windows /\ burst = limits.burst
  BY <1>1
<1>3. [row EXCEPT !.windows = windows, !.burst = burst] \in Pol!Row
  BY DEF Pol!Row
<1> QED
  BY <1>2, <1>3, Zenon DEF Pol!Limited

\* What a write leaves is a row, and never one that says nothing.
LEMMA WrittenRow ==
    ASSUME Pol!RatePolicyAssumption, NEW there \in Pol!Row, NEW instance, NEW row \in Pol!Row,
           there.pk # 0 => ~Pol!IsDefault(there), wanted \in 0 .. MaxLimits
    PROVE  LET written == Pol!Written(there, instance, row)
           IN  written \in Pol!Row /\ (written.pk # 0 => ~Pol!IsDefault(written))
<1>1. CASE Pol!IsDefault(row)
  <2>1. Pol!Written(there, instance, row) = IF row.pk = there.pk THEN Pol!NoRow ELSE there
    BY <1>1 DEF Pol!Written
  <2> QED
    BY <2>1, NoRowIs
<1>2. CASE ~Pol!IsDefault(row)
  <2> DEFINE new == [row EXCEPT !.pk = wanted]
  <2>1. Pol!Written(there, instance, row) = IF row.pk = 0 THEN new ELSE row
    BY <1>2 DEF Pol!Written
  <2>2. wanted \in 0 .. MaxLimits + 1
    BY DEF Pol!RatePolicyAssumption
  <2>3. /\ new \in Pol!Row /\ new.windows = row.windows /\ new.burst = row.burst
        /\ new.blocked = row.blocked
    BY <2>2 DEF Pol!Row
  <2> HIDE DEF new
  <2>4. ~Pol!IsDefault(new)
    BY <1>2, <2>3, Zenon DEF Pol!IsDefault
  <2> QED
    BY <1>2, <2>1, <2>3, <2>4, Zenon
<1> QED
  BY <1>1, <1>2

-----------------------------------------------------------------------------
(* The host cache *)

EntryOK(entry) == entry.found => entry.policy \in Pol!Row

Decision ==
    [step : {"decided", "written"}, tenant : Tenant, op : {"limits", "block", "unblock"},
     instance : Pol!Row, row : Pol!Row]

Creation == [step : {"written"}, tenant : Tenant, op : {"create"}]

Saving == [step : {"saved"}, tenant : Tenant]

SavedOf(t) == \E o \in Operator : changes[o].step = "saved" /\ changes[o].tenant = t

\* Readers of a host are as current as its entry.  From the signal of a write
\* to its commit there is neither, or the host is marked as seen.
Current(t) ==
    /\ \A r \in Reader : readers[r] # Pol!Idle /\ readers[r].tenant = t => readers[r].entry = Pol!Lookup(t)
    /\ Pol!Writes(t) => hosts[t] = Missing /\ ~Pol!Reading(t)
    /\ hosts[t] \in {Missing, Pol!Lookup(t)} \/ SavedOf(t)

PolTyped ==
    /\ Pol!TypeOK
    /\ Pol!NoDefaultRow
    /\ DOMAIN hosts = Tenant
    /\ DOMAIN readers = Reader
    /\ \A r \in Reader : readers[r] = Pol!Idle
          \/ (readers[r].step = "read" /\ readers[r].tenant \in Tenant /\ EntryOK(readers[r].entry))
    /\ changes \in [Operator -> {Pol!Idle} \cup Decision \cup Creation \cup Saving]

PolInv == PolTyped /\ \A t \in Tenant \ seen : Current(t)

\* An entry that is looked up has a policy row.
LEMMA LookupOK ==
    ASSUME PolTyped, NEW t \in Tenant
    PROVE  EntryOK(Pol!Lookup(t))
BY DEF PolTyped, Pol!TypeOK, EntryOK, Pol!Lookup

LEMMA PolInitially ==
    ASSUME Pol!RatePolicyAssumption, Pol!Init
    PROVE  PolInv
<1>1. \A t \in Tenant : table[t] \in Pol!Row /\ (table[t].pk # 0 => ~Pol!IsDefault(table[t]))
  BY NoRowIs, EarlierIs DEF Pol!Init
<1>2. PolTyped
  BY <1>1 DEF Pol!Init, PolTyped, Pol!TypeOK, Pol!NoDefaultRow, Pol!RatePolicyAssumption
<1>3. \A o \in Operator : changes[o].step = "idle"
  BY DEF Pol!Init, Pol!Idle
<1>4. \A t \in Tenant : Current(t)
  BY <1>3 DEF Pol!Init, Current, Pol!Writes
<1> QED
  BY <1>2, <1>4 DEF PolInv

\* What a service is doing at each step.
LEMMA Services ==
    ASSUME PolTyped, NEW o \in Operator
    PROVE  /\ changes[o].step \in {"idle", "decided", "written", "saved"}
           /\ changes[o].step = "idle" <=> changes[o] = Pol!Idle
           /\ changes[o].step # "idle" => changes[o].tenant \in Tenant
           /\ changes[o].step = "decided" => changes[o] \in Decision
           /\ changes[o].step = "written" => changes[o] \in Decision \cup Creation
           /\ changes[o].step = "saved" => changes[o] \in Saving
<1>1. changes[o] \in {Pol!Idle} \cup Decision \cup Creation \cup Saving
  BY DEF PolTyped
<1>2. CASE changes[o] = Pol!Idle
  BY <1>2 DEF Pol!Idle
<1>3. ASSUME NEW c \in Decision, changes[o] = c
      PROVE  c.step \in {"decided", "written"} /\ c.tenant \in Tenant /\ c.step # Pol!Idle.step
  BY DEF Decision, Pol!Idle
<1>4. ASSUME NEW c \in Creation, changes[o] = c
      PROVE  c.step = "written" /\ c.tenant \in Tenant /\ c.step # Pol!Idle.step
  BY DEF Creation, Pol!Idle
<1>5. ASSUME NEW c \in Saving, changes[o] = c
      PROVE  c.step = "saved" /\ c.tenant \in Tenant /\ c.step # Pol!Idle.step
  BY DEF Saving, Pol!Idle
<1> QED
  BY <1>1, <1>2, <1>3, <1>4, <1>5

\* A host that a step does not concern stays as current as it was.
LEMMA CurrentKept ==
    ASSUME NEW t \in Tenant, Current(t), Pol!Lookup(t)' = Pol!Lookup(t), hosts'[t] = hosts[t],
           \A r \in Reader : readers'[r] # Pol!Idle /\ readers'[r].tenant = t => readers'[r] = readers[r],
           Pol!Writes(t)' => Pol!Writes(t), SavedOf(t) => SavedOf(t)'
    PROVE  Current(t)'
<1>1. Pol!Reading(t)' => Pol!Reading(t)
  BY DEF Pol!Reading
<1> QED
  BY <1>1 DEF Current

\* The same when one service takes a step that is not on this host.
LEMMA OtherHost ==
    ASSUME PolTyped, NEW t \in Tenant, Current(t), NEW o \in Operator, NEW c,
           changes' = [changes EXCEPT ![o] = c],
           c.step \in {"written", "saved"} => c.tenant # t,
           changes[o].step \in {"written", "saved"} => changes[o].tenant # t,
           UNCHANGED readers, hosts'[t] = hosts[t], Pol!Lookup(t)' = Pol!Lookup(t)
    PROVE  Current(t)'
<1>1. \A p \in Operator : changes'[p] = IF p = o THEN c ELSE changes[p]
  BY DEF PolTyped
<1>2. Pol!Writes(t)' => Pol!Writes(t)
  BY <1>1 DEF Pol!Writes
<1>3. SavedOf(t) => SavedOf(t)'
  BY <1>1 DEF SavedOf
<1> QED
  BY <1>2, <1>3, CurrentKept

\* A reader of another host, or of this one where nobody changes it.
LEMMA MissKeeps ==
    ASSUME PolInv, NEW r \in Reader, NEW t \in Tenant, Pol!Miss(r, t)
    PROVE  PolInv'
<1> DEFINE new == [step |-> "read", tenant |-> t, entry |-> Pol!Lookup(t)]
<1>1. /\ readers' = [readers EXCEPT ![r] = new] /\ readers[r] = Pol!Idle
      /\ seen' = IF Pol!Changing(t) # {} THEN seen \cup {t} ELSE seen
      /\ UNCHANGED <<status, table, hosts, changes, wanted, overtaken>>
  BY DEF Pol!Miss
<1>2. new.step = "read" /\ new.tenant = t /\ new.entry = Pol!Lookup(t)
  OBVIOUS
<1> HIDE DEF new
<1>3. \A q \in Reader : readers'[q] = IF q = r THEN new ELSE readers[q]
  BY <1>1 DEF PolInv, PolTyped
<1>4. PolTyped'
  <2>1. EntryOK(Pol!Lookup(t))
    BY LookupOK DEF PolInv
  <2>2. Pol!TypeOK' /\ Pol!NoDefaultRow'
    BY <1>1 DEF PolInv, PolTyped, Pol!TypeOK, Pol!NoDefaultRow
  <2>3. /\ DOMAIN hosts' = Tenant /\ DOMAIN readers' = Reader
        /\ changes' \in [Operator -> {Pol!Idle} \cup Decision \cup Creation \cup Saving]
    BY <1>1 DEF PolInv, PolTyped
  <2>4. \A q \in Reader : readers'[q] = Pol!Idle
          \/ (readers'[q].step = "read" /\ readers'[q].tenant \in Tenant /\ EntryOK(readers'[q].entry))
    BY <1>2, <1>3, <2>1 DEF PolInv, PolTyped
  <2> QED
    BY <2>2, <2>3, <2>4 DEF PolTyped, EntryOK
<1>5. ASSUME NEW u \in Tenant \ seen'
      PROVE  Current(u)'
  <2>1. Current(u) /\ u \notin seen
    BY <1>1, <1>5 DEF PolInv
  <2>2. Pol!Lookup(u)' = Pol!Lookup(u) /\ hosts'[u] = hosts[u] /\ (Pol!Writes(u)' <=> Pol!Writes(u))
        /\ (SavedOf(u) <=> SavedOf(u)')
    BY <1>1 DEF Pol!Lookup, Pol!Writes, SavedOf
  <2>3. CASE u # t
    <3>1. \A q \in Reader : readers'[q] # Pol!Idle /\ readers'[q].tenant = u => readers'[q] = readers[q]
      BY <1>2, <1>3, <2>3
    <3> QED
      BY <2>1, <2>2, <3>1, CurrentKept
  <2>4. CASE u = t
    <3>1. ~Pol!Writes(t)
      BY <1>1, <1>5, <2>4 DEF Pol!Changing, Pol!Writes
    <3>2. \A q \in Reader : readers'[q] # Pol!Idle /\ readers'[q].tenant = u => readers'[q].entry = Pol!Lookup(u)
      BY <1>2, <1>3, <2>1, <2>4 DEF Current
    <3> QED
      BY <2>1, <2>2, <2>4, <3>1, <3>2 DEF Current
  <2> QED
    BY <2>3, <2>4
<1> QED
  BY <1>4, <1>5 DEF PolInv

\* What was looked up is stored, and what was stored expires.
LEMMA CacheKeeps ==
    ASSUME PolInv, (\E r \in Reader : Pol!Fill(r)) \/ \E t \in Tenant : Pol!Expire(t)
    PROVE  PolInv'
<1>1. UNCHANGED <<status, table, changes, wanted, seen, overtaken>>
  BY DEF Pol!Fill, Pol!Expire
<1>2. \A u \in Tenant : Pol!Lookup(u)' = Pol!Lookup(u) /\ (Pol!Writes(u)' <=> Pol!Writes(u))
                         /\ (SavedOf(u) <=> SavedOf(u)')
  BY <1>1 DEF Pol!Lookup, Pol!Writes, SavedOf
<1>3. ASSUME NEW r \in Reader, Pol!Fill(r)
      PROVE  PolInv'
  <2>1. /\ readers[r] # Pol!Idle /\ readers[r].tenant \in Tenant /\ EntryOK(readers[r].entry)
    BY <1>3 DEF Pol!Fill, Pol!Idle, PolInv, PolTyped
  <2> PICK t \in Tenant : t = readers[r].tenant
    BY <2>1
  <2> DEFINE entry == readers[r].entry
  <2>2. hosts' = [hosts EXCEPT ![t] = entry] /\ readers' = [readers EXCEPT ![r] = Pol!Idle]
    BY <1>3 DEF Pol!Fill
  <2>3. /\ \A u \in Tenant : hosts'[u] = IF u = t THEN entry ELSE hosts[u]
        /\ \A q \in Reader : readers'[q] = IF q = r THEN Pol!Idle ELSE readers[q]
    BY <2>2 DEF PolInv, PolTyped
  <2>4. PolTyped'
    <3>1. Pol!TypeOK'
      BY <1>1, <2>1, <2>3 DEF PolInv, PolTyped, Pol!TypeOK, EntryOK
    <3>2. Pol!NoDefaultRow' /\ DOMAIN hosts' = Tenant /\ DOMAIN readers' = Reader
      BY <1>1, <2>2 DEF PolInv, PolTyped, Pol!NoDefaultRow
    <3>3. \A q \in Reader : readers'[q] = Pol!Idle
            \/ (readers'[q].step = "read" /\ readers'[q].tenant \in Tenant /\ EntryOK(readers'[q].entry))
      BY <2>3 DEF PolInv, PolTyped
    <3> QED
      BY <1>1, <3>1, <3>2, <3>3 DEF PolInv, PolTyped, EntryOK
  <2>5. ASSUME NEW u \in Tenant \ seen'
        PROVE  Current(u)'
    <3>1. Current(u)
      BY <1>1, <2>5 DEF PolInv
    <3>2. CASE u # t
      <4>1. hosts'[u] = hosts[u]
        BY <2>3, <3>2
      <4>2. \A q \in Reader : readers'[q] # Pol!Idle /\ readers'[q].tenant = u => readers'[q] = readers[q]
        BY <2>3
      <4> QED
        BY <1>2, <3>1, <4>1, <4>2, CurrentKept
    <3>3. CASE u = t
      <4>1. entry = Pol!Lookup(t) /\ ~Pol!Writes(t)
        BY <2>1, <3>1, <3>3 DEF Current, Pol!Reading
      <4>2. \A q \in Reader : readers'[q] # Pol!Idle /\ readers'[q].tenant = t => readers'[q].entry = Pol!Lookup(t)
        BY <2>3, <3>1, <3>3 DEF Current
      <4>3. hosts'[t] = Pol!Lookup(t)
        BY <2>3, <4>1
      <4> QED
        BY <1>2, <3>3, <4>1, <4>2, <4>3 DEF Current
    <3> QED
      BY <3>2, <3>3
  <2> QED
    BY <2>4, <2>5 DEF PolInv
<1>4. ASSUME NEW t \in Tenant, Pol!Expire(t)
      PROVE  PolInv'
  <2>1. hosts' = [hosts EXCEPT ![t] = Missing] /\ UNCHANGED readers
    BY <1>4 DEF Pol!Expire
  <2>2. \A u \in Tenant : hosts'[u] = IF u = t THEN Missing ELSE hosts[u]
    BY <2>1 DEF PolInv, PolTyped
  <2>3. PolTyped'
    BY <1>1, <2>1, <2>2 DEF PolInv, PolTyped, Pol!TypeOK, Pol!NoDefaultRow, EntryOK
  <2>4. ASSUME NEW u \in Tenant \ seen'
        PROVE  Current(u)'
    <3>1. Current(u)
      BY <1>1, <2>4 DEF PolInv
    <3>2. Pol!Reading(u)' <=> Pol!Reading(u)
      BY <2>1 DEF Pol!Reading
    <3> QED
      BY <1>2, <2>1, <2>2, <3>1, <3>2 DEF Current
  <2> QED
    BY <2>3, <2>4 DEF PolInv
<1> QED
  BY <1>3, <1>4

\* A service that decides on the row it reads.
LEMMA DecideKeeps ==
    ASSUME Pol!RatePolicyAssumption, PolInv, NEW o \in Operator, NEW t \in Tenant, NEW op \in {"limits", "block", "unblock"},
           NEW row \in Pol!Row, Pol!Decide(o, t, op, row)
    PROVE  PolInv'
<1> DEFINE c == [step |-> "decided", tenant |-> t, op |-> op, instance |-> table[t], row |-> row]
<1>1. /\ changes' = [changes EXCEPT ![o] = c] /\ changes[o] = Pol!Idle
      /\ wanted' = wanted + 1 /\ wanted < MaxLimits
      /\ UNCHANGED <<status, table, hosts, readers, seen, overtaken>>
  BY DEF Pol!Decide, Pol!Receive
<1>2. c \in Decision /\ c.step = "decided"
  BY DEF Decision, PolInv, PolTyped, Pol!TypeOK
<1> HIDE DEF c
<1>3. PolTyped'
  <2>1. wanted' \in 0 .. MaxLimits
    BY <1>1 DEF PolInv, PolTyped, Pol!TypeOK, Pol!RatePolicyAssumption
  <2>2. Pol!TypeOK'
    <3>1. UNCHANGED <<status, table, hosts, seen, overtaken>>
      BY <1>1
    <3> QED
      BY <2>1, <3>1 DEF PolInv, PolTyped, Pol!TypeOK
  <2>3. changes' \in [Operator -> {Pol!Idle} \cup Decision \cup Creation \cup Saving]
    BY <1>1, <1>2 DEF PolInv, PolTyped
  <2>4. Pol!NoDefaultRow'
    BY <1>1 DEF PolInv, PolTyped, Pol!NoDefaultRow
  <2> QED
    BY <1>1, <2>2, <2>3, <2>4 DEF PolInv, PolTyped, EntryOK
<1>4. ASSUME NEW u \in Tenant \ seen'
      PROVE  Current(u)'
  <2>1. Current(u) /\ Pol!Lookup(u)' = Pol!Lookup(u) /\ hosts'[u] = hosts[u] /\ changes[o].step = "idle"
    BY <1>1, <1>4 DEF PolInv, Pol!Lookup, Pol!Idle
  <2> QED
    BY <1>1, <1>2, <2>1, OtherHost DEF PolInv
<1> QED
  BY <1>3, <1>4 DEF PolInv

\* The write of a row: the cache is emptied before the commit.
LEMMA WriteKeeps ==
    ASSUME PolInv, NEW o \in Operator, Pol!Write(o) \/ Pol!WriteFails(o)
    PROVE  PolInv'
<1>1. changes[o].step = "decided" /\ changes[o] \in Decision
  BY Services DEF PolInv, Pol!Write, Pol!WriteFails
<1> PICK c \in Decision : c = changes[o]
  BY <1>1
<1> PICK t \in Tenant : t = c.tenant
  BY DEF Decision
<1>2. UNCHANGED <<status, table, readers, wanted>>
  BY DEF Pol!Write, Pol!WriteFails
<1>3. Pol!NoDefaultRow'
  BY <1>2 DEF PolInv, PolTyped, Pol!NoDefaultRow
<1>4. \A u \in Tenant : Pol!Lookup(u)' = Pol!Lookup(u)
  BY <1>2 DEF Pol!Lookup
<1>5. CASE Pol!Write(o)
  <2> DEFINE new == [c EXCEPT !.step = "written"]
  <2>1. new \in Decision /\ new.step = "written" /\ new.tenant = t
    BY DEF Decision
  <2>2. changes' = [changes EXCEPT ![o] = new]
    <3>1. changes' = [changes EXCEPT ![o].step = "written"]
      BY <1>5 DEF Pol!Write
    <3>2. [changes EXCEPT ![o].step = "written"] = [changes EXCEPT ![o] = [changes[o] EXCEPT !.step = "written"]]
      OBVIOUS
    <3> QED
      BY <3>1, <3>2
  <2>3. /\ hosts' = [hosts EXCEPT ![t] = Missing]
        /\ seen' = IF Pol!Reading(t) THEN seen \cup {t} ELSE seen
        /\ overtaken' \subseteq Tenant
    BY <1>5 DEF Pol!Write, PolInv, PolTyped, Pol!TypeOK
  <2> HIDE DEF new
  <2>4. \A u \in Tenant : hosts'[u] = IF u = t THEN Missing ELSE hosts[u]
    BY <2>3 DEF PolInv, PolTyped
  <2>5. Pol!TypeOK'
    BY <1>2, <2>3, <2>4 DEF PolInv, PolTyped, Pol!TypeOK
  <2>6. changes' \in [Operator -> {Pol!Idle} \cup Decision \cup Creation \cup Saving]
    BY <2>1, <2>2 DEF PolInv, PolTyped
  <2>7. PolTyped'
    BY <1>2, <1>3, <2>3, <2>5, <2>6 DEF PolInv, PolTyped, EntryOK
  <2>8. ASSUME NEW u \in Tenant \ seen'
        PROVE  Current(u)'
    <3>1. Current(u) /\ u \notin seen
      BY <2>3, <2>8 DEF PolInv
    <3>2. CASE u # t
      <4>1. hosts'[u] = hosts[u]
        BY <2>4, <3>2
      <4> QED
        BY <1>1, <1>2, <1>4, <2>1, <2>2, <3>1, <3>2, <4>1, OtherHost DEF PolInv
    <3>3. CASE u = t
      <4>1. ~Pol!Reading(u) /\ hosts'[u] = Missing
        BY <2>3, <2>4, <2>8, <3>3
      <4>2. ~Pol!Reading(u)'
        BY <1>2, <4>1 DEF Pol!Reading
      <4> QED
        BY <4>1, <4>2 DEF Current, Pol!Reading
    <3> QED
      BY <3>2, <3>3
  <2> QED
    BY <2>7, <2>8 DEF PolInv
<1>6. CASE Pol!WriteFails(o)
  <2>1. changes' = [changes EXCEPT ![o] = Pol!Idle] /\ UNCHANGED <<hosts, seen, overtaken>>
    BY <1>6 DEF Pol!WriteFails
  <2>2. Pol!TypeOK'
    BY <1>2, <2>1 DEF PolInv, PolTyped, Pol!TypeOK
  <2>3. changes' \in [Operator -> {Pol!Idle} \cup Decision \cup Creation \cup Saving]
    BY <2>1 DEF PolInv, PolTyped
  <2>4. PolTyped'
    BY <1>2, <1>3, <2>1, <2>2, <2>3 DEF PolInv, PolTyped, EntryOK
  <2>5. ASSUME NEW u \in Tenant \ seen'
        PROVE  Current(u)'
    <3>1. Current(u) /\ hosts'[u] = hosts[u] /\ Pol!Idle.step = "idle"
      BY <2>1, <2>5 DEF PolInv, Pol!Idle
    <3> QED
      BY <1>1, <1>2, <1>4, <2>1, <3>1, OtherHost DEF PolInv
  <2> QED
    BY <2>4, <2>5 DEF PolInv
<1> QED
  BY <1>5, <1>6

\* The commit: nobody has read the host since the signal, or it is seen.
LEMMA CommitKeeps ==
    ASSUME Pol!RatePolicyAssumption, PolInv, NEW o \in Operator, Pol!Commit(o)
    PROVE  PolInv'
<1>1. changes[o].step = "written" /\ changes[o] \in Decision \cup Creation
      /\ changes[o].tenant \in Tenant
  BY Services DEF PolInv, Pol!Commit
<1> PICK t \in Tenant : t = changes[o].tenant
  BY <1>1
<1> DEFINE c == changes[o]
<1>2. /\ changes' = [changes EXCEPT ![o] = Pol!Idle]
      /\ UNCHANGED <<hosts, readers, wanted, seen, overtaken>>
  BY DEF Pol!Commit
<1>3. \/ status' = [status EXCEPT ![t] = "open"] /\ UNCHANGED table
      \/ /\ c \in Decision
         /\ table' = [table EXCEPT ![t] = Pol!Written(table[t], c.instance, c.row)] /\ UNCHANGED status
  <2>1. CASE c.op = "create"
    BY <2>1 DEF Pol!Commit
  <2>2. CASE c.op # "create"
    <3>1. c \notin Creation
      BY <2>2 DEF Creation
    <3> QED
      BY <1>1, <2>2, <3>1 DEF Pol!Commit
  <2> QED
    BY <2>1, <2>2
<1>4. Pol!TypeOK' /\ Pol!NoDefaultRow'
  <2>1. CASE status' = [status EXCEPT ![t] = "open"] /\ UNCHANGED table
    <3>1. Pol!TypeOK'
      BY <1>2, <2>1 DEF PolInv, PolTyped, Pol!TypeOK
    <3> QED
      BY <2>1, <3>1 DEF PolInv, PolTyped, Pol!NoDefaultRow
  <2>2. CASE /\ c \in Decision
             /\ table' = [table EXCEPT ![t] = Pol!Written(table[t], c.instance, c.row)] /\ UNCHANGED status
    <3>1. c.row \in Pol!Row
      BY <2>2 DEF Decision
    <3> DEFINE new == Pol!Written(table[t], c.instance, c.row)
    <3>2. new \in Pol!Row /\ (new.pk # 0 => ~Pol!IsDefault(new))
      BY <3>1, WrittenRow DEF PolInv, PolTyped, Pol!TypeOK, Pol!NoDefaultRow
    <3>3. table' = [table EXCEPT ![t] = new]
      BY <2>2
    <3> HIDE DEF new
    <3>4. \A u \in Tenant : table'[u] = IF u = t THEN new ELSE table[u]
      BY <3>3 DEF PolInv, PolTyped, Pol!TypeOK
    <3>5. Pol!TypeOK'
      BY <1>2, <2>2, <3>2, <3>3 DEF PolInv, PolTyped, Pol!TypeOK
    <3> QED
      BY <3>2, <3>4, <3>5 DEF PolInv, PolTyped, Pol!NoDefaultRow
  <2> QED
    BY <1>3, <2>1, <2>2
<1>5. PolTyped'
  <2>1. changes' \in [Operator -> {Pol!Idle} \cup Decision \cup Creation \cup Saving]
    BY <1>2 DEF PolInv, PolTyped
  <2> QED
    BY <1>2, <1>4, <2>1 DEF PolInv, PolTyped, EntryOK
<1>6. ASSUME NEW u \in Tenant \ seen'
      PROVE  Current(u)'
  <2>1. Current(u) /\ hosts'[u] = hosts[u]
    BY <1>2, <1>6 DEF PolInv
  <2>2. CASE u # t
    <3>1. Pol!Lookup(u)' = Pol!Lookup(u)
      BY <1>3, <2>2 DEF Pol!Lookup, PolInv, PolTyped, Pol!TypeOK
    <3>2. Pol!Idle.step = "idle"
      BY DEF Pol!Idle
    <3> QED
      BY <1>1, <1>2, <2>1, <2>2, <3>1, <3>2, OtherHost DEF PolInv
  <2>3. CASE u = t
    <3>1. Pol!Writes(u)
      BY <1>1, <2>3 DEF Pol!Writes
    <3>2. hosts[u] = Missing /\ ~Pol!Reading(u)
      BY <2>1, <3>1 DEF Current
    <3>3. hosts'[u] = Missing /\ ~Pol!Reading(u)'
      BY <1>2, <2>1, <3>2 DEF Pol!Reading
    <3> QED
      BY <3>3 DEF Current, Pol!Reading
  <2> QED
    BY <2>2, <2>3
<1> QED
  BY <1>5, <1>6 DEF PolInv

\* provision_tenant, up to the signal of its domain: Domain.save is inside
\* the transaction, so the host is empty until the commit, or seen.
LEMMA CreateKeeps ==
    ASSUME Pol!RatePolicyAssumption, PolInv, NEW o \in Operator, NEW t \in Tenant, Pol!CreateDomain(o, t)
    PROVE  PolInv'
<1> DEFINE c == [step |-> "written", tenant |-> t, op |-> "create"]
<1>1. /\ changes' = [changes EXCEPT ![o] = c] /\ changes[o] = Pol!Idle
      /\ hosts' = [hosts EXCEPT ![t] = Missing]
      /\ wanted' = wanted + 1 /\ wanted < MaxLimits
      /\ seen' = IF Pol!Reading(t) THEN seen \cup {t} ELSE seen
      /\ UNCHANGED <<status, table, readers, overtaken>>
  BY DEF Pol!CreateDomain
<1>2. c \in Creation /\ c.step = "written" /\ c.tenant = t
  BY DEF Creation
<1> HIDE DEF c
<1>3. /\ \A u \in Tenant : hosts'[u] = IF u = t THEN Missing ELSE hosts[u]
      /\ \A u \in Tenant : Pol!Lookup(u)' = Pol!Lookup(u) /\ (Pol!Reading(u)' <=> Pol!Reading(u))
      /\ changes[o].step = "idle"
  BY <1>1 DEF PolInv, PolTyped, Pol!Lookup, Pol!Reading, Pol!Idle
<1>4. PolTyped'
  <2>1. wanted' \in 0 .. MaxLimits
    BY <1>1 DEF PolInv, PolTyped, Pol!TypeOK, Pol!RatePolicyAssumption
  <2>2. seen' \subseteq Tenant
    BY <1>1 DEF PolInv, PolTyped, Pol!TypeOK
  <2>3. Pol!TypeOK'
    BY <1>1, <1>3, <2>1, <2>2 DEF PolInv, PolTyped, Pol!TypeOK
  <2>4. changes' \in [Operator -> {Pol!Idle} \cup Decision \cup Creation \cup Saving]
    BY <1>1, <1>2 DEF PolInv, PolTyped
  <2>5. Pol!NoDefaultRow' /\ DOMAIN hosts' = Tenant
    BY <1>1 DEF PolInv, PolTyped, Pol!NoDefaultRow
  <2> QED
    BY <1>1, <2>3, <2>4, <2>5 DEF PolInv, PolTyped, EntryOK
<1>5. ASSUME NEW u \in Tenant \ seen'
      PROVE  Current(u)'
  <2>1. Current(u)
    BY <1>1, <1>5 DEF PolInv
  <2>2. CASE u # t
    <3>1. hosts'[u] = hosts[u]
      BY <1>3, <2>2
    <3> QED
      BY <1>1, <1>2, <1>3, <2>1, <2>2, <3>1, OtherHost DEF PolInv
  <2>3. CASE u = t
    <3>1. ~Pol!Reading(t)' /\ hosts'[t] = Missing
      BY <1>1, <1>3, <1>5, <2>3
    <3> QED
      BY <2>3, <3>1 DEF Current, Pol!Reading
  <2> QED
    BY <2>2, <2>3
<1> QED
  BY <1>4, <1>5 DEF PolInv

\* Tenant.save: from its commit to its signal the entry is old.
LEMMA SaveKeeps ==
    ASSUME Pol!RatePolicyAssumption, PolInv, NEW o \in Operator, NEW t \in Tenant, Pol!SaveTenant(o, t)
    PROVE  PolInv'
<1> DEFINE c == [step |-> "saved", tenant |-> t]
           s == IF status[t] = "open" THEN "stopped" ELSE "open"
<1>1. /\ changes' = [changes EXCEPT ![o] = c] /\ changes[o] = Pol!Idle
      /\ status' = [status EXCEPT ![t] = s]
      /\ wanted' = wanted + 1 /\ wanted < MaxLimits
      /\ seen' = IF Pol!Reading(t) THEN seen \cup {t} ELSE seen
      /\ UNCHANGED <<table, hosts, readers, overtaken>>
  BY DEF Pol!SaveTenant
<1>2. c \in Saving /\ c.step = "saved" /\ c.tenant = t /\ s \in {"open", "stopped"}
  BY DEF Saving
<1> HIDE DEF c, s
<1>3. /\ \A u \in Tenant : status'[u] = IF u = t THEN s ELSE status[u]
      /\ \A u \in Tenant : Pol!Reading(u)' <=> Pol!Reading(u)
      /\ \A p \in Operator : changes'[p] = IF p = o THEN c ELSE changes[p]
      /\ changes[o].step = "idle"
  BY <1>1 DEF PolInv, PolTyped, Pol!TypeOK, Pol!Reading, Pol!Idle
<1>4. PolTyped'
  <2>1. wanted' \in 0 .. MaxLimits
    BY <1>1 DEF PolInv, PolTyped, Pol!TypeOK, Pol!RatePolicyAssumption
  <2>2. seen' \subseteq Tenant
    BY <1>1 DEF PolInv, PolTyped, Pol!TypeOK
  <2>3. status' \in [Tenant -> {"absent", "open", "stopped"}]
    BY <1>1, <1>2 DEF PolInv, PolTyped, Pol!TypeOK
  <2>4. Pol!TypeOK'
    BY <1>1, <2>1, <2>2, <2>3 DEF PolInv, PolTyped, Pol!TypeOK
  <2>5. changes' \in [Operator -> {Pol!Idle} \cup Decision \cup Creation \cup Saving]
    BY <1>1, <1>2 DEF PolInv, PolTyped
  <2>6. Pol!NoDefaultRow'
    BY <1>1 DEF PolInv, PolTyped, Pol!NoDefaultRow
  <2> QED
    BY <1>1, <2>4, <2>5, <2>6 DEF PolInv, PolTyped, EntryOK
<1>5. ASSUME NEW u \in Tenant \ seen'
      PROVE  Current(u)'
  <2>1. Current(u)
    BY <1>1, <1>5 DEF PolInv
  <2>2. CASE u # t
    <3>1. Pol!Lookup(u)' = Pol!Lookup(u) /\ hosts'[u] = hosts[u]
      BY <1>1, <1>3, <2>2 DEF Pol!Lookup
    <3> QED
      BY <1>1, <1>2, <1>3, <2>1, <2>2, <3>1, OtherHost DEF PolInv
  <2>3. CASE u = t
    <3>1. ~Pol!Reading(t)'
      BY <1>1, <1>3, <1>5, <2>3
    <3>2. SavedOf(t)'
      BY <1>2, <1>3 DEF SavedOf
    <3>3. Pol!Writes(t)' => Pol!Writes(t)
      BY <1>2, <1>3 DEF Pol!Writes
    <3>4. Pol!Writes(t)' => hosts'[t] = Missing
      BY <1>1, <2>1, <2>3, <3>3 DEF Current
    <3> QED
      BY <2>3, <3>1, <3>2, <3>4 DEF Current, Pol!Reading
  <2> QED
    BY <2>2, <2>3
<1> QED
  BY <1>4, <1>5 DEF PolInv

\* invalidate_tenant ends what the save began.
LEMMA SignalKeeps ==
    ASSUME PolInv, NEW o \in Operator, Pol!SignalTenant(o)
    PROVE  PolInv'
<1>1. changes[o].step = "saved" /\ changes[o].tenant \in Tenant
  BY Services DEF PolInv, Pol!SignalTenant
<1> PICK t \in Tenant : t = changes[o].tenant
  BY <1>1
<1>2. /\ changes' = [changes EXCEPT ![o] = Pol!Idle]
      /\ hosts' = [hosts EXCEPT ![t] = Missing]
      /\ UNCHANGED <<status, table, readers, wanted, seen, overtaken>>
  BY DEF Pol!SignalTenant
<1>3. /\ \A u \in Tenant : hosts'[u] = IF u = t THEN Missing ELSE hosts[u]
      /\ \A u \in Tenant : Pol!Lookup(u)' = Pol!Lookup(u) /\ (Pol!Reading(u)' <=> Pol!Reading(u))
      /\ \A p \in Operator : changes'[p] = IF p = o THEN Pol!Idle ELSE changes[p]
      /\ Pol!Idle.step = "idle"
  BY <1>2 DEF PolInv, PolTyped, Pol!Lookup, Pol!Reading, Pol!Idle
<1>4. PolTyped'
  <2>1. Pol!TypeOK'
    BY <1>2, <1>3 DEF PolInv, PolTyped, Pol!TypeOK
  <2>2. changes' \in [Operator -> {Pol!Idle} \cup Decision \cup Creation \cup Saving]
    BY <1>2 DEF PolInv, PolTyped
  <2>3. Pol!NoDefaultRow' /\ DOMAIN hosts' = Tenant
    BY <1>2 DEF PolInv, PolTyped, Pol!NoDefaultRow
  <2> QED
    BY <1>2, <2>1, <2>2, <2>3 DEF PolInv, PolTyped, EntryOK
<1>5. ASSUME NEW u \in Tenant \ seen'
      PROVE  Current(u)'
  <2>1. Current(u)
    BY <1>2, <1>5 DEF PolInv
  <2>2. CASE u # t
    <3>1. hosts'[u] = hosts[u]
      BY <1>3, <2>2
    <3> QED
      BY <1>1, <1>2, <1>3, <2>1, <2>2, <3>1, OtherHost DEF PolInv
  <2>3. CASE u = t
    <3>1. Pol!Writes(t)' => Pol!Writes(t)
      BY <1>1, <1>3 DEF Pol!Writes
    <3>2. hosts'[t] = Missing
      BY <1>3
    <3>3. \A r \in Reader : readers'[r] # Pol!Idle /\ readers'[r].tenant = t => readers'[r].entry = Pol!Lookup(t)'
      BY <1>2, <1>3, <2>1, <2>3 DEF Current
    <3>4. Pol!Writes(t)' => ~Pol!Reading(t)'
      BY <1>3, <2>1, <2>3, <3>1 DEF Current
    <3> QED
      BY <2>3, <3>2, <3>3, <3>4 DEF Current
  <2> QED
    BY <2>2, <2>3
<1> QED
  BY <1>4, <1>5 DEF PolInv

LEMMA PolStep ==
    ASSUME Pol!RatePolicyAssumption, PolInv, [Pol!Next]_(Pol!vars)
    PROVE  PolInv'
<1>1. ASSUME NEW r \in Reader, NEW t \in Tenant, Pol!Miss(r, t)
      PROVE  PolInv'
  BY <1>1, MissKeeps
<1>2. ASSUME NEW r \in Reader, Pol!Fill(r)
      PROVE  PolInv'
  BY <1>2, CacheKeeps
<1>3. ASSUME NEW t \in Tenant, Pol!Expire(t)
      PROVE  PolInv'
  BY <1>3, CacheKeeps
<1>4. ASSUME NEW o \in Operator, NEW t \in Tenant, NEW limits \in Pol!Limits, Pol!SetRateLimits(o, t, limits)
      PROVE  PolInv'
  <2>1. table[t] \in Pol!Row
    BY DEF PolInv, PolTyped, Pol!TypeOK
  <2>2. Pol!Limited(table[t], limits) \in Pol!Row
    BY <2>1, DecidedRows
  <2>3. Pol!Decide(o, t, "limits", Pol!Limited(table[t], limits))
    BY <1>4 DEF Pol!SetRateLimits
  <2> QED
    BY <2>2, <2>3, DecideKeeps
<1>5. ASSUME NEW o \in Operator, NEW t \in Tenant, Pol!BlockTraffic(o, t) \/ Pol!UnblockTraffic(o, t)
      PROVE  PolInv'
  <2> DEFINE blocked == [table[t] EXCEPT !.blocked = TRUE]
             unblocked == [table[t] EXCEPT !.blocked = FALSE]
  <2>1. table[t] \in Pol!Row /\ [windows |-> {}, burst |-> FALSE] \in Pol!Limits
    BY DEF PolInv, PolTyped, Pol!TypeOK, Pol!Limits
  <2>2. blocked \in Pol!Row /\ unblocked \in Pol!Row
    BY <2>1, DecidedRows
  <2>3. Pol!Decide(o, t, "block", blocked) \/ Pol!Decide(o, t, "unblock", unblocked)
    BY <1>5 DEF Pol!BlockTraffic, Pol!UnblockTraffic
  <2> HIDE DEF blocked, unblocked
  <2> QED
    BY <2>2, <2>3, DecideKeeps
<1>6. ASSUME NEW o \in Operator, NEW t \in Tenant, Pol!CreateDomain(o, t) \/ Pol!SaveTenant(o, t)
      PROVE  PolInv'
  BY <1>6, CreateKeeps, SaveKeeps
<1>7. ASSUME NEW o \in Operator, Pol!Write(o) \/ Pol!WriteFails(o)
      PROVE  PolInv'
  BY <1>7, WriteKeeps
<1>8. ASSUME NEW o \in Operator, Pol!Commit(o) \/ Pol!SignalTenant(o)
      PROVE  PolInv'
  BY <1>8, CommitKeeps, SignalKeeps
<1>9. CASE UNCHANGED Pol!vars
  <2>1. UNCHANGED <<status, table, hosts, readers, changes, wanted, seen, overtaken>>
    BY <1>9 DEF Pol!vars
  <2>2. PolTyped'
    BY <2>1 DEF PolInv, PolTyped, Pol!TypeOK, Pol!NoDefaultRow, EntryOK
  <2>3. \A u \in Tenant : Current(u) => Current(u)'
    BY <2>1 DEF Current, Pol!Writes, Pol!Reading, Pol!Lookup, SavedOf
  <2> QED
    BY <2>1, <2>2, <2>3 DEF PolInv
<1> QED
  BY <1>1, <1>2, <1>3, <1>4, <1>5, <1>6, <1>7, <1>8, <1>9 DEF Pol!Next

\* The policy rows and the host cache of any number of clients and console
\* requests: no row that says nothing, and no host that answers from before
\* a change, but for one that was read during it or a save's signal to come.
THEOREM Hosts ==
    ASSUME Pol!RatePolicyAssumption
    PROVE  Pol!Spec => []Pol!HostsHold
<1>1. Pol!Init => PolInv
  BY PolInitially
<1>2. PolInv /\ [Pol!Next]_(Pol!vars) => PolInv'
  BY PolStep
<1>3. PolInv => Pol!HostsHold
  <2> SUFFICES ASSUME PolInv PROVE Pol!HostsHold
    OBVIOUS
  <2>1. \A t \in Tenant \ seen : hosts[t] \in {Missing, Pol!Lookup(t)} \/ SavedOf(t)
    BY DEF PolInv, Current
  <2>2. \A t \in Tenant : SavedOf(t) => \E o \in Pol!Changing(t) : changes[o].step = "saved"
    BY DEF SavedOf, Pol!Changing
  <2> QED
    BY <2>1, <2>2 DEF Pol!HostsHold, Pol!EntryIsCurrent, PolInv, PolTyped
<1> QED
  BY <1>1, <1>2, <1>3, PTL DEF Pol!Spec

-----------------------------------------------------------------------------
(* What a plan and the overrides resolve to *)

\* The rows say of each key whether it is asked for, and the plan's grants
\* have a method.
LEMMA WhoAsks ==
    ASSUME NEW plan_keys, plan_keys # {}, NEW states, NEW m \in Feature
    PROVE  m \in Feat!Asked(plan_keys, states)
              <=> states[m] = "ON" \/ (states[m] = "INHERIT" /\ m \in plan_keys)
BY DEF Feat!Asked

\* A method that stands alone is resolved when it is asked for, or core.
LEMMA MethodResolves ==
    ASSUME Feat!FeaturesAssumption, NEW plan_keys, NEW states, NEW m \in Built
    PROVE  m \in Feat!Resolve(plan_keys, states) <=> m \in Core \/ m \in Feat!Asked(plan_keys, states)
<1> DEFINE asked == Feat!Asked(plan_keys, states)
<1>1. asked \subseteq Feature
  BY DEF Feat!Asked
<1> HIDE DEF asked
<1>2. m \in Feat!LargestClosed(asked) => m \in asked
  BY DEF Feat!LargestClosed
<1>3. ASSUME m \in asked
      PROVE  m \in Feat!LargestClosed(asked)
  <2>1. {m} \in SUBSET asked /\ Feat!Closed({m})
    BY <1>3 DEF Feat!FeaturesAssumption, Feat!Closed
  <2> QED
    BY <2>1 DEF Feat!LargestClosed
<1> QED
  BY <1>2, <1>3 DEF Feat!Resolve, asked

\* One override moved to ON or OFF keeps a method, if there was another than
\* the one it switches off.
LEMMA ToggleLeavesMethod ==
    ASSUME Feat!FeaturesAssumption, NEW list \in GrantLists,
           NEW states \in [Feature -> Feat!FeatureState], NEW key \in Feature, NEW state \in {"ON", "OFF"},
           Feat!Resolve(list, states) \cap Built # {},
           key \in Method /\ state = "OFF" => (Feat!Resolve(list, states) \cap Built) \ {key} # {}
    PROVE  Feat!Resolve(list, [states EXCEPT ![key] = state]) \cap Built # {}
<1> DEFINE later == [states EXCEPT ![key] = state]
<1>1. list # {} /\ Built \subseteq Method /\ Built \subseteq Feature
  BY DEF Feat!FeaturesAssumption
<1>2. PICK m \in Built : m \in Feat!Resolve(list, states) /\ (m = key => state = "ON")
  BY <1>1
<1>3. m \in Core \/ m \in Feat!Asked(list, states)
  BY <1>2, MethodResolves
<1>4. later[m] = IF m = key THEN state ELSE states[m]
  BY <1>1
<1> HIDE DEF later
<1>5. m \in Feat!Asked(list, states) => m \in Feat!Asked(list, later)
  BY <1>1, <1>2, <1>4, WhoAsks
<1>6. m \in Feat!Resolve(list, later)
  BY <1>3, <1>5, MethodResolves
<1> QED
  BY <1>6 DEF later

\* A plan alone gives a method.
LEMMA PlanGivesMethod ==
    ASSUME Feat!FeaturesAssumption, NEW list \in GrantLists, NEW states,
           \A key \in Feature : states[key] = "INHERIT"
    PROVE  Feat!Resolve(list, states) \cap Built # {}
<1>1. PICK m \in Built : m \in list
  BY DEF Feat!FeaturesAssumption
<1>2. m \in Feature /\ list # {}
  BY <1>1 DEF Feat!FeaturesAssumption
<1>3. m \in Feat!Asked(list, states)
  BY <1>1, <1>2, WhoAsks
<1> QED
  BY <1>3, MethodResolves

-----------------------------------------------------------------------------
(* The resolver's cache *)

Toggle ==
    [step : {"checked", "writing"}, tenants : SUBSET Tenant, key : Feature, state : Feat!FeatureState]

SavedPlan ==
    [step : {"checked", "writing"}, tenants : SUBSET Tenant, plan : Plan, list : GrantLists]

Replan == [step : {"saved"}, tenants : SUBSET Tenant]

FeatTyped ==
    /\ Feat!TypeOK
    /\ grants \in [Plan -> GrantLists]
    /\ DOMAIN askers = Reader
    /\ \A r \in Reader :
          \/ askers[r] = Feat!Idle
          \/ /\ askers[r].step = "entered"
             /\ askers[r].tenant \in Tenant /\ askers[r].plan \in Plan
          \/ /\ askers[r].step = "computed"
             /\ askers[r].tenant \in Tenant /\ askers[r].answer \subseteq Feature
    /\ toggles \in [Operator -> {Feat!Idle} \cup Toggle \cup SavedPlan \cup Replan]
    /\ (\E o \in Operator : toggles[o] \in SavedPlan) => unchecked = Tenant

Replanned(t) == \E o \in Operator : toggles[o].step = "saved" /\ t \in toggles[o].tenants

\* What a reader holds and what the cache holds is what the tables say.  From
\* the signal of a write to its commit neither holds anything, and a plan is
\* saved for whoever is on it.
Fresh(t) ==
    /\ \A r \in Reader :
          /\ askers[r].step = "entered" /\ askers[r].tenant = t => askers[r].plan = plan_of[t]
          /\ askers[r].step = "computed" /\ askers[r].tenant = t => askers[r].answer = Feat!Now(t)
    /\ Feat!UnderWay(t) => answers[t] = Missing /\ ~Feat!Reading(t)
    /\ answers[t] \in {Missing, Feat!Now(t)} \/ Replanned(t)
    /\ \A o \in Operator :
          toggles[o] \in SavedPlan /\ toggles[o].plan = plan_of[t] => t \in toggles[o].tenants

LeavesMethod(t, c) ==
    c.key \in Method /\ c.state = "OFF" => (Feat!Now(t) \cap Built) \ {c.key} # {}

\* One toggle at a time, and it was checked against what still holds.
Guarded(t) ==
    /\ Feat!Now(t) \cap Built # {}
    /\ \A o \in Operator : toggles[o] # Feat!Idle /\ t \in toggles[o].tenants =>
          /\ toggles[o] \in Toggle /\ toggles[o].state # "INHERIT" /\ LeavesMethod(t, toggles[o])
          /\ \A p \in Operator \ {o} : toggles[p] # Feat!Idle => t \notin toggles[p].tenants

FeatInv ==
    /\ FeatTyped
    /\ \A t \in Tenant \ exposed : Fresh(t)
    /\ \A t \in Tenant \ (unchecked \cup exposed) : Guarded(t)

\* What a console request is doing at each step.
LEMMA ConsoleRequests ==
    ASSUME FeatTyped, NEW o \in Operator
    PROVE  /\ toggles[o].step \in {"idle", "checked", "writing", "saved"}
           /\ toggles[o].step = "idle" <=> toggles[o] = Feat!Idle
           /\ toggles[o].step # "idle" => toggles[o].tenants \subseteq Tenant
           /\ toggles[o].step \in {"checked", "writing"} => toggles[o] \in Toggle \cup SavedPlan
           /\ toggles[o].step = "saved" => toggles[o] \in Replan
<1>1. toggles[o] \in {Feat!Idle} \cup Toggle \cup SavedPlan \cup Replan
  BY DEF FeatTyped
<1>2. CASE toggles[o] = Feat!Idle
  BY <1>2 DEF Feat!Idle
<1>3. ASSUME NEW c \in Toggle, toggles[o] = c
      PROVE  c.step \in {"checked", "writing"} /\ c.tenants \subseteq Tenant /\ c.step # Feat!Idle.step
  BY DEF Toggle, Feat!Idle
<1>4. ASSUME NEW c \in SavedPlan, toggles[o] = c
      PROVE  c.step \in {"checked", "writing"} /\ c.tenants \subseteq Tenant /\ c.step # Feat!Idle.step
  BY DEF SavedPlan, Feat!Idle
<1>5. ASSUME NEW c \in Replan, toggles[o] = c
      PROVE  c.step = "saved" /\ c.tenants \subseteq Tenant /\ c.step # Feat!Idle.step
  BY DEF Replan, Feat!Idle
<1> QED
  BY <1>1, <1>2, <1>3, <1>4, <1>5

\* A plan's change has a list and a toggle has none.
LEMMA HasList ==
    /\ \A c \in Toggle : "list" \notin DOMAIN c
    /\ \A c \in SavedPlan : "list" \in DOMAIN c
BY DEF Toggle, SavedPlan

LEMMA ToggleIsNoPlan ==
    ASSUME NEW c \in Toggle
    PROVE  c \notin SavedPlan
BY HasList, Zenon

LEMMA FeatInitially ==
    ASSUME Feat!FeaturesAssumption, Feat!Init
    PROVE  FeatInv
<1>1. FeatTyped
  <2>1. \A o \in Operator : toggles[o] = Feat!Idle /\ Feat!Idle \notin SavedPlan
    BY DEF Feat!Init, Feat!Idle, SavedPlan
  <2>2. grants \in [Plan -> SUBSET Feature]
    BY DEF Feat!Init, Feat!FeaturesAssumption
  <2>3. overrides \in [Tenant -> [Feature -> Feat!FeatureState]]
    BY DEF Feat!Init, Feat!FeatureState
  <2>4. answers \in [Tenant -> (SUBSET Feature) \cup {Missing}]
    BY DEF Feat!Init
  <2>5. toggled = 0 /\ exposed = {} /\ unchecked = {} /\ plan_of \in [Tenant -> Plan]
    BY DEF Feat!Init
  <2>6. toggled \in 0 .. MaxToggles
    BY <2>5 DEF Feat!FeaturesAssumption
  <2>7. Feat!TypeOK
    BY <2>2, <2>3, <2>4, <2>5, <2>6 DEF Feat!TypeOK
  <2>8. grants \in [Plan -> GrantLists] /\ DOMAIN askers = Reader /\ \A r \in Reader : askers[r] = Feat!Idle
    BY DEF Feat!Init
  <2>9. toggles \in [Operator -> {Feat!Idle} \cup Toggle \cup SavedPlan \cup Replan]
    BY DEF Feat!Init
  <2> QED
    BY <2>1, <2>7, <2>8, <2>9 DEF FeatTyped
<1>2. (\A o \in Operator : toggles[o].step = "idle") /\ (\A r \in Reader : askers[r].step = "idle")
  BY DEF Feat!Init, Feat!Idle
<1>3. \A o \in Operator : toggles[o] = Feat!Idle /\ Feat!Idle \notin SavedPlan
  BY DEF Feat!Init, Feat!Idle, SavedPlan
<1>4. \A t \in Tenant : Fresh(t)
  BY <1>2, <1>3 DEF Feat!Init, Fresh, Feat!UnderWay
<1>5. ASSUME NEW t \in Tenant
      PROVE  Guarded(t)
  <2>1. grants[plan_of[t]] \in GrantLists /\ \A key \in Feature : overrides[t][key] = "INHERIT"
    BY DEF Feat!Init
  <2>2. Feat!Now(t) \cap Built # {}
    BY <2>1, PlanGivesMethod DEF Feat!Now
  <2> QED
    BY <1>3, <2>2 DEF Guarded
<1> QED
  BY <1>1, <1>4, <1>5 DEF FeatInv

\* A client that a step does not concern stays as fresh as it was.
LEMMA FreshKept ==
    ASSUME NEW t \in Tenant, Fresh(t), Feat!Now(t)' = Feat!Now(t), plan_of'[t] = plan_of[t],
           answers'[t] = answers[t],
           \A r \in Reader : askers'[r].step # "idle" /\ askers'[r].tenant = t => askers'[r] = askers[r],
           Feat!UnderWay(t)' => Feat!UnderWay(t), Replanned(t) => Replanned(t)',
           \A o \in Operator : toggles'[o] \in SavedPlan /\ toggles'[o].plan = plan_of[t]
                                  => t \in toggles'[o].tenants
    PROVE  Fresh(t)'
<1>1. Feat!Reading(t)' => Feat!Reading(t)
  BY DEF Feat!Reading
<1> QED
  BY <1>1 DEF Fresh

LEMMA GuardedKept ==
    ASSUME NEW t \in Tenant, Guarded(t), Feat!Now(t)' = Feat!Now(t),
           \A o \in Operator : toggles'[o] # Feat!Idle /\ t \in toggles'[o].tenants =>
              /\ toggles[o] # Feat!Idle /\ toggles[o].tenants = toggles'[o].tenants
              /\ toggles[o] \in Toggle => /\ toggles'[o] \in Toggle
                                          /\ toggles'[o].key = toggles[o].key
                                          /\ toggles'[o].state = toggles[o].state
    PROVE  Guarded(t)'
<1>1. Feat!Now(t)' \cap Built # {}
  BY DEF Guarded
<1>2. ASSUME NEW o \in Operator, toggles'[o] # Feat!Idle, t \in toggles'[o].tenants
      PROVE  /\ toggles'[o] \in Toggle /\ toggles'[o].state # "INHERIT"
             /\ LeavesMethod(t, toggles[o]) /\ toggles[o].key = toggles'[o].key
             /\ toggles[o].state = toggles'[o].state
             /\ \A p \in Operator \ {o} : toggles'[p] # Feat!Idle => t \notin toggles'[p].tenants
  BY <1>2 DEF Guarded
<1> QED
  BY <1>1, <1>2 DEF Guarded, LeavesMethod

\* Steps of readers leave the tables and the changes alone.
LEMMA GuardedByReaders ==
    ASSUME NEW t \in Tenant, Guarded(t), UNCHANGED <<grants, plan_of, overrides, toggles>>
    PROVE  Guarded(t)'
<1>1. Feat!Now(t)' = Feat!Now(t)
  BY DEF Feat!Now
<1> QED
  BY <1>1, GuardedKept

LEMMA ReaderKeeps ==
    ASSUME FeatInv, NEW r \in Reader, NEW t \in Tenant, NEW new,
           new.step # "idle", new.tenant = t,
           \/ new.step = "entered" /\ new.plan \in Plan
           \/ new.step = "computed" /\ new.answer \subseteq Feature,
           askers' = [askers EXCEPT ![r] = new],
           exposed' = IF Feat!UnderWay(t) THEN exposed \cup {t} ELSE exposed,
           UNCHANGED <<grants, plan_of, overrides, answers, toggles, toggled, unchecked>>,
           t \notin exposed => /\ new.step = "entered" => new.plan = plan_of[t]
                               /\ new.step = "computed" => new.answer = Feat!Now(t)
    PROVE  FeatInv'
<1>1. \A q \in Reader : askers'[q] = IF q = r THEN new ELSE askers[q]
  BY DEF FeatInv, FeatTyped
<1>2. FeatTyped'
  <2>1. Feat!TypeOK'
    BY DEF FeatInv, FeatTyped, Feat!TypeOK
  <2>2. \A q \in Reader :
          \/ askers'[q] = Feat!Idle
          \/ /\ askers'[q].step = "entered"
             /\ askers'[q].tenant \in Tenant /\ askers'[q].plan \in Plan
          \/ /\ askers'[q].step = "computed"
             /\ askers'[q].tenant \in Tenant /\ askers'[q].answer \subseteq Feature
    BY <1>1 DEF FeatInv, FeatTyped
  <2> QED
    BY <2>1, <2>2 DEF FeatInv, FeatTyped
<1>3. \A u \in Tenant : /\ Feat!Now(u)' = Feat!Now(u) /\ (Feat!UnderWay(u)' <=> Feat!UnderWay(u))
                        /\ (Replanned(u)' <=> Replanned(u))
  BY DEF Feat!Now, Feat!UnderWay, Replanned
<1>4. ASSUME NEW u \in Tenant \ exposed'
      PROVE  Fresh(u)'
  <2>1. Fresh(u) /\ u \notin exposed
    BY <1>4 DEF FeatInv
  <2>2. CASE u # t
    <3>1. \A q \in Reader : askers'[q].step # "idle" /\ askers'[q].tenant = u => askers'[q] = askers[q]
      BY <1>1, <2>2
    <3>2. \A o \in Operator : toggles'[o] \in SavedPlan /\ toggles'[o].plan = plan_of[u]
                                  => u \in toggles'[o].tenants
      BY <2>1 DEF Fresh
    <3> QED
      BY <1>3, <2>1, <3>1, <3>2, FreshKept
  <2>3. CASE u = t
    <3>1. ~Feat!UnderWay(t)
      BY <1>4, <2>3
    <3> QED
      BY <1>1, <1>3, <2>1, <2>3, <3>1 DEF Fresh
  <2> QED
    BY <2>2, <2>3
<1>5. ASSUME NEW u \in Tenant \ (unchecked' \cup exposed')
      PROVE  Guarded(u)'
  BY <1>5, GuardedByReaders DEF FeatInv
<1> QED
  BY <1>2, <1>4, <1>5 DEF FeatInv

\* A reader has the client in hand ...
LEMMA EnterKeeps ==
    ASSUME FeatInv, NEW r \in Reader, NEW t \in Tenant, Feat!Enter(r, t)
    PROVE  FeatInv'
<1> DEFINE new == [step |-> "entered", tenant |-> t, plan |-> plan_of[t]]
<1>1. /\ askers' = [askers EXCEPT ![r] = new]
      /\ exposed' = IF Feat!UnderWay(t) THEN exposed \cup {t} ELSE exposed
      /\ UNCHANGED <<grants, plan_of, overrides, answers, toggles, toggled, unchecked>>
  BY DEF Feat!Enter
<1>2. new.step = "entered" /\ new.tenant = t /\ new.plan = plan_of[t] /\ new.plan \in Plan
  BY DEF FeatInv, FeatTyped, Feat!TypeOK
<1> HIDE DEF new
<1> QED
  BY <1>1, <1>2, ReaderKeeps

\* ... and computes the answer with the plan it had then.
LEMMA ComputeKeeps ==
    ASSUME Feat!FeaturesAssumption, FeatInv, NEW r \in Reader, Feat!Compute(r)
    PROVE  FeatInv'
<1>1. askers[r].step = "entered" /\ askers[r].tenant \in Tenant /\ askers[r].plan \in Plan
  BY DEF Feat!Compute, FeatInv, FeatTyped, Feat!Idle
<1> PICK t \in Tenant : t = askers[r].tenant
  BY <1>1
<1> DEFINE answer == Feat!Resolve(grants[askers[r].plan], overrides[t])
           new == [step |-> "computed", tenant |-> t, answer |-> answer]
<1>2. /\ askers' = [askers EXCEPT ![r] = new]
      /\ exposed' = IF Feat!UnderWay(t) THEN exposed \cup {t} ELSE exposed
      /\ UNCHANGED <<grants, plan_of, overrides, answers, toggles, toggled, unchecked>>
  BY DEF Feat!Compute
<1>3. answer \subseteq Feature
  BY DEF Feat!Resolve, Feat!LargestClosed, Feat!Asked, Feat!FeaturesAssumption
<1>4. t \notin exposed => answer = Feat!Now(t)
  BY <1>1 DEF FeatInv, Fresh, Feat!Now
<1> HIDE DEF answer
<1>5. new.step = "computed" /\ new.tenant = t /\ new.answer = answer
  OBVIOUS
<1> HIDE DEF new
<1> QED
  BY <1>2, <1>3, <1>4, <1>5, ReaderKeeps

\* What was computed is stored.
LEMMA FillKeeps ==
    ASSUME FeatInv, NEW r \in Reader, Feat!Fill(r)
    PROVE  FeatInv'
<1>1. askers[r].step = "computed" /\ askers[r].tenant \in Tenant /\ askers[r].answer \subseteq Feature
  BY DEF Feat!Fill, FeatInv, FeatTyped, Feat!Idle
<1> PICK t \in Tenant : t = askers[r].tenant
  BY <1>1
<1> DEFINE answer == askers[r].answer
<1>2. /\ answers' = [answers EXCEPT ![t] = answer] /\ askers' = [askers EXCEPT ![r] = Feat!Idle]
      /\ UNCHANGED <<grants, plan_of, overrides, toggles, toggled, exposed, unchecked>>
  BY DEF Feat!Fill, Feat!history
<1>3. /\ \A u \in Tenant : answers'[u] = IF u = t THEN answer ELSE answers[u]
      /\ \A q \in Reader : askers'[q] = IF q = r THEN Feat!Idle ELSE askers[q]
      /\ Feat!Idle.step = "idle"
  BY <1>2 DEF FeatInv, FeatTyped, Feat!TypeOK, Feat!Idle
<1>4. FeatTyped'
  <2>1. answers' \in [Tenant -> (SUBSET Feature) \cup {Missing}]
    BY <1>1, <1>2 DEF FeatInv, FeatTyped, Feat!TypeOK
  <2>2. Feat!TypeOK'
    BY <1>2, <2>1 DEF FeatInv, FeatTyped, Feat!TypeOK
  <2>3. \A q \in Reader :
          \/ askers'[q] = Feat!Idle
          \/ /\ askers'[q].step = "entered"
             /\ askers'[q].tenant \in Tenant /\ askers'[q].plan \in Plan
          \/ /\ askers'[q].step = "computed"
             /\ askers'[q].tenant \in Tenant /\ askers'[q].answer \subseteq Feature
    BY <1>3 DEF FeatInv, FeatTyped
  <2> QED
    BY <1>2, <2>2, <2>3 DEF FeatInv, FeatTyped
<1>5. \A u \in Tenant : /\ Feat!Now(u)' = Feat!Now(u) /\ (Feat!UnderWay(u)' <=> Feat!UnderWay(u))
                        /\ (Replanned(u)' <=> Replanned(u))
  BY <1>2 DEF Feat!Now, Feat!UnderWay, Replanned
<1>6. ASSUME NEW u \in Tenant \ exposed'
      PROVE  Fresh(u)'
  <2>1. Fresh(u)
    BY <1>2, <1>6 DEF FeatInv
  <2>2. CASE u # t
    <3>1. answers'[u] = answers[u]
      BY <1>3, <2>2
    <3>2. \A q \in Reader : askers'[q].step # "idle" /\ askers'[q].tenant = u => askers'[q] = askers[q]
      BY <1>3
    <3>3. \A o \in Operator : toggles'[o] \in SavedPlan /\ toggles'[o].plan = plan_of[u]
                                  => u \in toggles'[o].tenants
      BY <1>2, <2>1 DEF Fresh
    <3> QED
      BY <1>2, <1>5, <2>1, <3>1, <3>2, <3>3, FreshKept
  <2>3. CASE u = t
    <3>1. answer = Feat!Now(t) /\ ~Feat!UnderWay(t)
      BY <1>1, <2>1, <2>3 DEF Fresh, Feat!Reading
    <3>2. answers'[t] = Feat!Now(t)
      BY <1>3, <3>1
    <3> QED
      BY <1>2, <1>3, <1>5, <2>1, <2>3, <3>1, <3>2 DEF Fresh
  <2> QED
    BY <2>2, <2>3
<1>7. ASSUME NEW u \in Tenant \ (unchecked' \cup exposed')
      PROVE  Guarded(u)'
  BY <1>2, <1>7, GuardedByReaders DEF FeatInv
<1> QED
  BY <1>4, <1>6, <1>7 DEF FeatInv

LEMMA ExpireKeeps ==
    ASSUME FeatInv, NEW t \in Tenant, Feat!Expire(t)
    PROVE  FeatInv'
<1>1. /\ answers' = [answers EXCEPT ![t] = Missing]
      /\ UNCHANGED <<grants, plan_of, overrides, askers, toggles, toggled, exposed, unchecked>>
  BY DEF Feat!Expire, Feat!history
<1>2. \A u \in Tenant : answers'[u] = IF u = t THEN Missing ELSE answers[u]
  BY <1>1 DEF FeatInv, FeatTyped, Feat!TypeOK
<1>3. FeatTyped'
  <2>1. answers' \in [Tenant -> (SUBSET Feature) \cup {Missing}]
    BY <1>1 DEF FeatInv, FeatTyped, Feat!TypeOK
  <2>2. Feat!TypeOK'
    BY <1>1, <2>1 DEF FeatInv, FeatTyped, Feat!TypeOK
  <2> QED
    BY <1>1, <2>2 DEF FeatInv, FeatTyped
<1>4. \A u \in Tenant : /\ Feat!Now(u)' = Feat!Now(u) /\ (Feat!UnderWay(u)' <=> Feat!UnderWay(u))
                        /\ (Replanned(u)' <=> Replanned(u)) /\ (Feat!Reading(u)' <=> Feat!Reading(u))
  BY <1>1 DEF Feat!Now, Feat!UnderWay, Replanned, Feat!Reading
<1>5. ASSUME NEW u \in Tenant \ exposed'
      PROVE  Fresh(u)'
  <2>1. Fresh(u)
    BY <1>1, <1>5 DEF FeatInv
  <2> QED
    BY <1>1, <1>2, <1>4, <2>1 DEF Fresh
<1>6. ASSUME NEW u \in Tenant \ (unchecked' \cup exposed')
      PROVE  Guarded(u)'
  BY <1>1, <1>6, GuardedByReaders DEF FeatInv
<1> QED
  BY <1>3, <1>5, <1>6 DEF FeatInv

\* A request of the console that was asked for and is not yet written.
LEMMA Asked ==
    ASSUME Feat!FeaturesAssumption, FeatInv, NEW o \in Operator, NEW c, Feat!Ask(o, c),
           c.step = "checked", c \in Toggle \cup SavedPlan, c \in SavedPlan => unchecked' = Tenant,
           unchecked \subseteq unchecked', unchecked' \subseteq Tenant,
           c \in SavedPlan => \A t \in Tenant : plan_of[t] = c.plan => t \in c.tenants,
           UNCHANGED <<grants, plan_of, overrides, answers, askers, exposed>>
    PROVE  FeatTyped' /\ \A u \in Tenant \ exposed' : Fresh(u)'
<1>1. /\ toggles' = [toggles EXCEPT ![o] = c] /\ toggles[o] = Feat!Idle /\ toggles[o].step = "idle"
      /\ toggled' = toggled + 1 /\ toggled < MaxToggles
  BY DEF Feat!Ask, Feat!Idle
<1>2. \A p \in Operator : toggles'[p] = IF p = o THEN c ELSE toggles[p]
  BY <1>1 DEF FeatInv, FeatTyped
<1>3. FeatTyped'
  <2>1. toggled' \in 0 .. MaxToggles
    BY <1>1 DEF FeatInv, FeatTyped, Feat!TypeOK, Feat!FeaturesAssumption
  <2>2. Feat!TypeOK'
    BY <2>1 DEF FeatInv, FeatTyped, Feat!TypeOK
  <2>3. toggles' \in [Operator -> {Feat!Idle} \cup Toggle \cup SavedPlan \cup Replan]
    BY <1>1 DEF FeatInv, FeatTyped
  <2>4. (\E p \in Operator : toggles'[p] \in SavedPlan) => unchecked' = Tenant
    BY <1>2 DEF FeatInv, FeatTyped
  <2> QED
    BY <2>2, <2>3, <2>4 DEF FeatInv, FeatTyped
<1>4. ASSUME NEW u \in Tenant \ exposed'
      PROVE  Fresh(u)'
  <2>1. Fresh(u)
    BY <1>4 DEF FeatInv
  <2>2. Feat!Now(u)' = Feat!Now(u)
    BY DEF Feat!Now
  <2>3. (Feat!UnderWay(u)' => Feat!UnderWay(u)) /\ (Replanned(u) => Replanned(u)')
    BY <1>1, <1>2 DEF Feat!UnderWay, Replanned
  <2>4. \A p \in Operator : toggles'[p] \in SavedPlan /\ toggles'[p].plan = plan_of[u]
                               => u \in toggles'[p].tenants
    BY <1>2, <2>1 DEF Fresh
  <2> QED
    BY <2>1, <2>2, <2>3, <2>4, FreshKept
<1> QED
  BY <1>3, <1>4

\* set_feature asks: the answer it checks is what the tables say.
LEMMA ToggleKeeps ==
    ASSUME Feat!FeaturesAssumption, FeatInv, NEW o \in Operator, NEW t \in Tenant, NEW key \in Feature,
           NEW state \in Feat!FeatureState, Feat!AskToggle(o, t, key, state)
    PROVE  FeatInv'
<1> DEFINE c == [step |-> "checked", tenants |-> {t}, key |-> key, state |-> state]
<1>1. /\ Feat!Ask(o, c) /\ Feat!MethodLeft(t, key, state)
      /\ unchecked' = IF state = "INHERIT" \/ (\E p \in Operator : toggles[p] # Feat!Idle)
                        THEN unchecked \cup {t} ELSE unchecked
      /\ UNCHANGED <<grants, plan_of, overrides, answers, askers, exposed>>
  BY DEF Feat!AskToggle
<1>2. c \in Toggle /\ c.step = "checked" /\ c.tenants = {t} /\ c.key = key /\ c.state = state
  BY DEF Toggle
<1> HIDE DEF c
<1>3. toggles' = [toggles EXCEPT ![o] = c] /\ toggles[o] = Feat!Idle
  BY <1>1 DEF Feat!Ask
<1>4. \A p \in Operator : toggles'[p] = IF p = o THEN c ELSE toggles[p]
  BY <1>3 DEF FeatInv, FeatTyped
<1>5. FeatTyped' /\ \A u \in Tenant \ exposed' : Fresh(u)'
  <2>1. c \notin SavedPlan
    BY <1>2, ToggleIsNoPlan
  <2>2. unchecked \subseteq unchecked' /\ unchecked' \subseteq Tenant
    BY <1>1 DEF FeatInv, FeatTyped, Feat!TypeOK
  <2> QED
    BY <1>1, <1>2, <2>1, <2>2, Asked
<1>6. \A u \in Tenant : Feat!Now(u)' = Feat!Now(u)
  BY <1>1 DEF Feat!Now
<1>7. ASSUME NEW u \in Tenant \ (unchecked' \cup exposed')
      PROVE  Guarded(u)'
  <2>1. Guarded(u) /\ Fresh(u)
    BY <1>1, <1>7 DEF FeatInv
  <2>2. CASE u # t
    <3>1. \A p \in Operator : toggles'[p] # Feat!Idle /\ u \in toggles'[p].tenants => toggles'[p] = toggles[p]
      BY <1>2, <1>4, <2>2
    <3> QED
      BY <1>6, <2>1, <3>1, GuardedKept
  <2>3. CASE u = t
    <3>1. state # "INHERIT" /\ \A p \in Operator : toggles[p] = Feat!Idle
      BY <1>1, <1>7, <2>3
    <3>2. ~Replanned(t)
      BY <3>1 DEF Replanned, Feat!Idle
    <3>3. Feat!Enabled(t) = Feat!Now(t)
      BY <2>1, <2>3, <3>2 DEF Fresh, Feat!Enabled
    <3>4. LeavesMethod(t, c)
      BY <1>1, <1>2, <3>3 DEF LeavesMethod, Feat!MethodLeft, Feat!RemainingMethods
    <3>5. LeavesMethod(t, c)'
      BY <1>6, <3>4 DEF LeavesMethod
    <3>6. \A p \in Operator : toggles'[p] # Feat!Idle => p = o
      BY <1>4, <3>1
    <3>7. toggles'[o] = c /\ c \in Toggle /\ c.state # "INHERIT"
      BY <1>2, <1>4, <3>1
    <3>8. Feat!Now(t)' \cap Built # {}
      BY <1>6, <2>1, <2>3 DEF Guarded
    <3>9. ASSUME NEW p \in Operator, toggles'[p] # Feat!Idle
          PROVE  /\ toggles'[p] \in Toggle /\ toggles'[p].state # "INHERIT" /\ LeavesMethod(t, toggles[p])'
                 /\ \A q \in Operator \ {p} : toggles'[q] # Feat!Idle => t \notin toggles'[q].tenants
      <4>1. p = o /\ toggles'[p] = c
        BY <3>6, <3>7, <3>9
      <4>2. LeavesMethod(t, toggles[p])'
        BY <1>6, <3>4, <4>1 DEF LeavesMethod
      <4> QED
        BY <3>6, <3>7, <4>1, <4>2
    <3> QED
      BY <2>3, <3>8, <3>9 DEF Guarded
  <2> QED
    BY <2>2, <2>3
<1> QED
  BY <1>5, <1>7 DEF FeatInv

\* save_plan asks, with whoever is on the plan.
LEMMA SavePlanKeeps ==
    ASSUME Feat!FeaturesAssumption, FeatInv, NEW o \in Operator, NEW p \in Plan, NEW list \in GrantLists,
           Feat!AskSavePlan(o, p, list)
    PROVE  FeatInv'
<1> DEFINE clients == {t \in Tenant : plan_of[t] = p}
           c == [step |-> "checked", tenants |-> clients, plan |-> p, list |-> list]
<1>1. /\ Feat!Ask(o, c) /\ unchecked' = Tenant
      /\ UNCHANGED <<grants, plan_of, overrides, answers, askers, exposed>>
  BY DEF Feat!AskSavePlan
<1>2. c \in SavedPlan /\ c.step = "checked" /\ c.plan = p /\ c.tenants = clients
  BY DEF SavedPlan
<1> HIDE DEF c
<1>3. \A t \in Tenant : plan_of[t] = c.plan => t \in c.tenants
  BY <1>2
<1>4. unchecked \subseteq unchecked' /\ unchecked' \subseteq Tenant
  BY <1>1 DEF FeatInv, FeatTyped, Feat!TypeOK
<1>5. FeatTyped' /\ \A u \in Tenant \ exposed' : Fresh(u)'
  BY <1>1, <1>2, <1>3, <1>4, Asked
<1> QED
  BY <1>1, <1>5 DEF FeatInv

\* change_plan: from the commit of Tenant.save to its signal the answer is old.
LEMMA ChangePlanKeeps ==
    ASSUME Feat!FeaturesAssumption, FeatInv, NEW o \in Operator, NEW t \in Tenant, NEW plan \in Plan,
           Feat!ChangePlan(o, t, plan)
    PROVE  FeatInv'
<1> DEFINE c == [step |-> "saved", tenants |-> {t}]
<1>1. /\ toggles' = [toggles EXCEPT ![o] = c] /\ toggles[o] = Feat!Idle
      /\ toggled' = toggled + 1 /\ toggled < MaxToggles
      /\ plan_of' = [plan_of EXCEPT ![t] = plan]
      /\ exposed' = IF Feat!Reading(t) \/ (\E q \in Operator : toggles[q] # Feat!Idle)
                      THEN exposed \cup {t} ELSE exposed
      /\ unchecked' = unchecked \cup {t}
      /\ UNCHANGED <<grants, overrides, answers, askers>>
  BY DEF Feat!ChangePlan, Feat!Ask
<1>2. c \in Replan /\ c.step = "saved" /\ c.tenants = {t}
  BY DEF Replan
<1> HIDE DEF c
<1>3. c \notin SavedPlan
  BY <1>2 DEF SavedPlan
<1>4. /\ \A p \in Operator : toggles'[p] = IF p = o THEN c ELSE toggles[p]
      /\ \A u \in Tenant : plan_of'[u] = IF u = t THEN plan ELSE plan_of[u]
  BY <1>1 DEF FeatInv, FeatTyped, Feat!TypeOK
<1>5. FeatTyped'
  <2>1. toggled' \in 0 .. MaxToggles
    BY <1>1 DEF FeatInv, FeatTyped, Feat!TypeOK, Feat!FeaturesAssumption
  <2>2. plan_of' \in [Tenant -> Plan] /\ exposed' \subseteq Tenant /\ unchecked' \subseteq Tenant
    BY <1>1 DEF FeatInv, FeatTyped, Feat!TypeOK
  <2>3. Feat!TypeOK'
    BY <1>1, <2>1, <2>2 DEF FeatInv, FeatTyped, Feat!TypeOK
  <2>4. toggles' \in [Operator -> {Feat!Idle} \cup Toggle \cup SavedPlan \cup Replan]
    BY <1>1, <1>2 DEF FeatInv, FeatTyped
  <2>5. (\E p \in Operator : toggles'[p] \in SavedPlan) => unchecked' = Tenant
    BY <1>1, <1>3, <1>4 DEF FeatInv, FeatTyped
  <2> QED
    BY <1>1, <2>3, <2>4, <2>5 DEF FeatInv, FeatTyped
<1>6. \A u \in Tenant \ {t} : Feat!Now(u)' = Feat!Now(u)
  BY <1>1, <1>4 DEF Feat!Now
<1>7. ASSUME NEW u \in Tenant \ exposed'
      PROVE  Fresh(u)'
  <2>1. Fresh(u)
    BY <1>1, <1>7 DEF FeatInv
  <2>2. toggles[o].step = "idle" /\ \A q \in Operator : toggles[q] # Feat!Idle => toggles[q].step # "idle"
    BY <1>1, ConsoleRequests DEF FeatInv, Feat!Idle
  <2>3. CASE u # t
    <3>1. (Feat!UnderWay(u)' => Feat!UnderWay(u)) /\ (Replanned(u) => Replanned(u)')
      BY <1>2, <1>4, <2>2 DEF Feat!UnderWay, Replanned
    <3>2. \A p \in Operator : toggles'[p] \in SavedPlan /\ toggles'[p].plan = plan_of[u]
                                 => u \in toggles'[p].tenants
      BY <1>3, <1>4, <2>1 DEF Fresh
    <3>3. plan_of'[u] = plan_of[u]
      BY <1>4, <2>3
    <3> QED
      BY <1>1, <1>6, <2>1, <2>3, <3>1, <3>2, <3>3, FreshKept
  <2>4. CASE u = t
    <3>1. ~Feat!Reading(t) /\ \A q \in Operator : toggles[q] = Feat!Idle
      BY <1>1, <1>7, <2>4
    <3>2. Replanned(t)' /\ ~Feat!UnderWay(t)'
      BY <1>2, <1>4, <3>1 DEF Replanned, Feat!UnderWay, Feat!Idle
    <3>3. \A r \in Reader : askers'[r].step # "idle" => askers'[r].tenant # t
      BY <1>1, <3>1 DEF Feat!Reading
    <3>4. \A p \in Operator : toggles'[p] \notin SavedPlan
      BY <1>3, <1>4, <3>1 DEF SavedPlan, Feat!Idle
    <3> QED
      BY <2>4, <3>2, <3>3, <3>4 DEF Fresh
  <2> QED
    BY <2>3, <2>4
<1>8. ASSUME NEW u \in Tenant \ (unchecked' \cup exposed')
      PROVE  Guarded(u)'
  <2>1. Guarded(u) /\ u # t
    BY <1>1, <1>8 DEF FeatInv
  <2>2. \A p \in Operator : toggles'[p] # Feat!Idle /\ u \in toggles'[p].tenants => toggles'[p] = toggles[p]
    BY <1>2, <1>4, <2>1
  <2> QED
    BY <1>6, <2>1, <2>2, GuardedKept
<1> QED
  BY <1>5, <1>7, <1>8 DEF FeatInv

\* What a request is when it goes on to write.
LEMMA Written ==
    ASSUME FeatTyped, NEW o \in Operator, toggles[o].step = "checked"
    PROVE  LET c == [toggles[o] EXCEPT !.step = "writing"]
           IN  /\ c.step = "writing" /\ c.tenants = toggles[o].tenants
               /\ toggles[o] \in Toggle \cup SavedPlan
               /\ toggles[o] \in Toggle => /\ c \in Toggle /\ c.key = toggles[o].key
                                           /\ c.state = toggles[o].state
               /\ toggles[o] \in SavedPlan => c \in SavedPlan /\ c.plan = toggles[o].plan
<1>1. toggles[o] \in Toggle \cup SavedPlan
  BY ConsoleRequests
<1>2. ASSUME NEW b \in Toggle
      PROVE  LET c == [b EXCEPT !.step = "writing"]
             IN  /\ c \in Toggle /\ c.step = "writing" /\ c.tenants = b.tenants
                 /\ c.key = b.key /\ c.state = b.state
  BY DEF Toggle
<1>3. ASSUME NEW b \in SavedPlan
      PROVE  LET c == [b EXCEPT !.step = "writing"]
             IN  c \in SavedPlan /\ c.step = "writing" /\ c.tenants = b.tenants /\ c.plan = b.plan
  BY DEF SavedPlan
<1>4. CASE toggles[o] \in Toggle
  <2>1. toggles[o] \notin SavedPlan
    BY <1>4, ToggleIsNoPlan
  <2> QED
    BY <1>2, <1>4, <2>1
<1>5. CASE toggles[o] \in SavedPlan
  <2>1. toggles[o] \notin Toggle
    BY <1>5, ToggleIsNoPlan
  <2> QED
    BY <1>3, <1>5, <2>1
<1> QED
  BY <1>1, <1>4, <1>5

\* The rows are written and the signals sent: whoever reads is marked.
LEMMA ConsoleWrites ==
    ASSUME FeatInv, NEW o \in Operator, Feat!Write(o)
    PROVE  FeatInv'
<1> DEFINE c == [toggles[o] EXCEPT !.step = "writing"]
           clients == toggles[o].tenants
<1>1. /\ toggles[o].step = "checked"
      /\ answers' = [t \in Tenant |-> IF t \in clients THEN Missing ELSE answers[t]]
      /\ exposed' = exposed \cup {t \in clients : Feat!Reading(t)}
      /\ UNCHANGED <<grants, plan_of, overrides, askers, toggled, unchecked>>
  BY DEF Feat!Write
<1>2. toggles' = [toggles EXCEPT ![o] = c]
  <2>1. toggles' = [toggles EXCEPT ![o].step = "writing"]
    BY DEF Feat!Write
  <2>2. [toggles EXCEPT ![o].step = "writing"] = [toggles EXCEPT ![o] = [toggles[o] EXCEPT !.step = "writing"]]
    OBVIOUS
  <2> QED
    BY <2>1, <2>2
<1>3. /\ c.step = "writing" /\ c.tenants = clients
      /\ toggles[o] \in Toggle \cup SavedPlan
      /\ toggles[o] \in Toggle => c \in Toggle /\ c.key = toggles[o].key /\ c.state = toggles[o].state
      /\ toggles[o] \in SavedPlan => c \in SavedPlan /\ c.plan = toggles[o].plan
  BY <1>1, Written DEF FeatInv
<1>4. clients \subseteq Tenant /\ toggles[o] # Feat!Idle
  BY <1>1, ConsoleRequests DEF FeatInv
<1> HIDE DEF c, clients
<1>5. /\ \A p \in Operator : toggles'[p] = IF p = o THEN c ELSE toggles[p]
      /\ \A u \in Tenant : answers'[u] = IF u \in clients THEN Missing ELSE answers[u]
  BY <1>1, <1>2 DEF FeatInv, FeatTyped
<1>6. c \in SavedPlan => toggles[o] \in SavedPlan
  BY <1>3, ToggleIsNoPlan
<1>7. FeatTyped'
  <2>1. answers' \in [Tenant -> (SUBSET Feature) \cup {Missing}] /\ exposed' \subseteq Tenant
    BY <1>1, <1>4 DEF FeatInv, FeatTyped, Feat!TypeOK
  <2>2. Feat!TypeOK'
    BY <1>1, <2>1 DEF FeatInv, FeatTyped, Feat!TypeOK
  <2>3. toggles' \in [Operator -> {Feat!Idle} \cup Toggle \cup SavedPlan \cup Replan]
    BY <1>2, <1>3 DEF FeatInv, FeatTyped
  <2>4. (\E p \in Operator : toggles'[p] \in SavedPlan) => unchecked' = Tenant
    BY <1>1, <1>5, <1>6 DEF FeatInv, FeatTyped
  <2> QED
    BY <1>1, <2>2, <2>3, <2>4 DEF FeatInv, FeatTyped
<1>8. \A u \in Tenant : Feat!Now(u)' = Feat!Now(u) /\ (Feat!Reading(u)' <=> Feat!Reading(u))
  BY <1>1 DEF Feat!Now, Feat!Reading
<1>9. ASSUME NEW u \in Tenant \ exposed'
      PROVE  Fresh(u)'
  <2>1. Fresh(u)
    BY <1>1, <1>9 DEF FeatInv
  <2>2. \A p \in Operator : toggles'[p] \in SavedPlan /\ toggles'[p].plan = plan_of[u]
                               => u \in toggles'[p].tenants
    BY <1>3, <1>5, <1>6, <2>1 DEF Fresh, clients
  <2>3. CASE u \in clients
    <3>1. answers'[u] = Missing /\ ~Feat!Reading(u)'
      BY <1>1, <1>5, <1>8, <1>9, <2>3
    <3>2. \A r \in Reader : askers'[r].step # "idle" => askers'[r].tenant # u
      BY <3>1 DEF Feat!Reading
    <3> QED
      BY <1>1, <2>2, <3>1, <3>2 DEF Fresh
  <2>4. CASE u \notin clients
    <3>1. answers'[u] = answers[u]
      BY <1>5, <2>4
    <3>2. (Feat!UnderWay(u)' => Feat!UnderWay(u)) /\ (Replanned(u) => Replanned(u)')
      BY <1>1, <1>3, <1>5, <2>4 DEF Feat!UnderWay, Replanned
    <3> QED
      BY <1>1, <1>8, <2>1, <2>2, <3>1, <3>2, FreshKept
  <2> QED
    BY <2>3, <2>4
<1>10. ASSUME NEW u \in Tenant \ (unchecked' \cup exposed')
       PROVE  Guarded(u)'
  <2>1. Guarded(u)
    BY <1>1, <1>10 DEF FeatInv
  <2>2. \A p \in Operator : toggles'[p] # Feat!Idle /\ u \in toggles'[p].tenants =>
              /\ toggles[p] # Feat!Idle /\ toggles[p].tenants = toggles'[p].tenants
              /\ toggles[p] \in Toggle => /\ toggles'[p] \in Toggle
                                          /\ toggles'[p].key = toggles[p].key
                                          /\ toggles'[p].state = toggles[p].state
    BY <1>3, <1>4, <1>5 DEF clients
  <2> QED
    BY <1>8, <2>1, <2>2, GuardedKept
<1> QED
  BY <1>7, <1>9, <1>10 DEF FeatInv

\* The transaction commits: since its signal nobody read the clients it is
\* about, or they are marked.
LEMMA ConsoleCommits ==
    ASSUME Feat!FeaturesAssumption, FeatInv, NEW o \in Operator, Feat!Commit(o)
    PROVE  FeatInv'
<1>1. toggles[o].step = "writing" /\ toggles[o] \in Toggle \cup SavedPlan /\ toggles[o].tenants \subseteq Tenant
  BY ConsoleRequests DEF FeatInv, Feat!Commit
<1> PICK c \in Toggle \cup SavedPlan : c = toggles[o]
  BY <1>1
<1>2. /\ toggles' = [toggles EXCEPT ![o] = Feat!Idle]
      /\ UNCHANGED <<plan_of, answers, askers, toggled, exposed, unchecked>>
  BY DEF Feat!Commit, Feat!history
<1>3. /\ \A p \in Operator : toggles'[p] = IF p = o THEN Feat!Idle ELSE toggles[p]
      /\ Feat!Idle.step = "idle" /\ Feat!Idle \notin SavedPlan
      /\ \A u \in Tenant : Feat!Reading(u)' <=> Feat!Reading(u)
  BY <1>2 DEF FeatInv, FeatTyped, Feat!Idle, SavedPlan, Feat!Reading
<1>4. /\ c \in SavedPlan => grants' = [grants EXCEPT ![c.plan] = c.list] /\ UNCHANGED overrides
      /\ c \in Toggle => /\ overrides' = [t \in Tenant |->
                                IF t \in c.tenants THEN [overrides[t] EXCEPT ![c.key] = c.state] ELSE overrides[t]]
                         /\ UNCHANGED grants
  <2>1. IF "list" \in DOMAIN c
          THEN grants' = [grants EXCEPT ![c.plan] = c.list] /\ UNCHANGED overrides
          ELSE /\ overrides' = [t \in Tenant |->
                      IF t \in c.tenants THEN [overrides[t] EXCEPT ![c.key] = c.state] ELSE overrides[t]]
               /\ UNCHANGED grants
    BY DEF Feat!Commit
  <2> QED
    BY <2>1, HasList, Zenon
<1>5. grants' \in [Plan -> GrantLists] /\ overrides' \in [Tenant -> [Feature -> Feat!FeatureState]]
  <2>1. CASE c \in SavedPlan
    <3>1. c.plan \in Plan /\ c.list \in GrantLists
      BY <2>1 DEF SavedPlan
    <3> QED
      BY <1>4, <2>1, <3>1 DEF FeatInv, FeatTyped, Feat!TypeOK
  <2>2. CASE c \in Toggle
    <3>1. c.key \in Feature /\ c.state \in Feat!FeatureState
      BY <2>2 DEF Toggle
    <3>2. \A t \in Tenant : [overrides[t] EXCEPT ![c.key] = c.state] \in [Feature -> Feat!FeatureState]
      BY <3>1 DEF FeatInv, FeatTyped, Feat!TypeOK
    <3> QED
      BY <1>4, <2>2, <3>2 DEF FeatInv, FeatTyped, Feat!TypeOK
  <2> QED
    BY <2>1, <2>2
<1>6. FeatTyped'
  <2>1. grants' \in [Plan -> SUBSET Feature]
    BY <1>5 DEF Feat!FeaturesAssumption
  <2>2. Feat!TypeOK'
    BY <1>2, <1>5, <2>1 DEF FeatInv, FeatTyped, Feat!TypeOK
  <2>3. toggles' \in [Operator -> {Feat!Idle} \cup Toggle \cup SavedPlan \cup Replan]
    BY <1>2 DEF FeatInv, FeatTyped
  <2>4. (\E p \in Operator : toggles'[p] \in SavedPlan) => unchecked' = Tenant
    BY <1>2, <1>3 DEF FeatInv, FeatTyped
  <2> QED
    BY <1>2, <1>5, <2>2, <2>3, <2>4 DEF FeatInv, FeatTyped
\* Only the answers of the change's clients move.
<1>7. ASSUME NEW u \in Tenant, Fresh(u), u \notin c.tenants
      PROVE  Feat!Now(u)' = Feat!Now(u)
  <2>1. CASE c \in SavedPlan
    <3>1. plan_of[u] # c.plan
      BY <1>7, <2>1 DEF Fresh
    <3>2. grants'[plan_of[u]] = grants[plan_of[u]]
      BY <1>4, <2>1, <3>1 DEF FeatInv, FeatTyped, Feat!TypeOK
    <3> QED
      BY <1>2, <1>4, <2>1, <3>2 DEF Feat!Now
  <2>2. CASE c \in Toggle
    <3>1. overrides'[u] = overrides[u]
      BY <1>4, <1>7, <2>2
    <3> QED
      BY <1>2, <1>4, <2>2, <3>1 DEF Feat!Now
  <2> QED
    BY <2>1, <2>2
<1>8. ASSUME NEW u \in Tenant \ exposed'
      PROVE  Fresh(u)'
  <2>1. Fresh(u)
    BY <1>2, <1>8 DEF FeatInv
  <2>2. \A p \in Operator : toggles'[p] \in SavedPlan /\ toggles'[p].plan = plan_of[u]
                               => u \in toggles'[p].tenants
    BY <1>3, <2>1 DEF Fresh
  <2>3. CASE u \in c.tenants
    <3>1. Feat!UnderWay(u)
      BY <1>1, <2>3 DEF Feat!UnderWay
    <3>2. answers'[u] = Missing /\ ~Feat!Reading(u)'
      BY <1>2, <1>3, <2>1, <3>1 DEF Fresh
    <3>3. \A r \in Reader : askers'[r].step # "idle" => askers'[r].tenant # u
      BY <3>2 DEF Feat!Reading
    <3> QED
      BY <1>2, <2>2, <3>2, <3>3 DEF Fresh
  <2>4. CASE u \notin c.tenants
    <3>1. Feat!Now(u)' = Feat!Now(u)
      BY <1>7, <2>1, <2>4
    <3>2. (Feat!UnderWay(u)' => Feat!UnderWay(u)) /\ (Replanned(u) => Replanned(u)')
      BY <1>1, <1>3 DEF Feat!UnderWay, Replanned
    <3> QED
      BY <1>2, <2>1, <2>2, <3>1, <3>2, FreshKept
  <2> QED
    BY <2>3, <2>4
<1>9. ASSUME NEW u \in Tenant \ (unchecked' \cup exposed')
      PROVE  Guarded(u)'
  <2>1. Guarded(u) /\ Fresh(u) /\ unchecked # Tenant
    BY <1>2, <1>9 DEF FeatInv
  <2>2. c \in Toggle
    BY <2>1 DEF FeatInv, FeatTyped
  <2>3. \A p \in Operator : toggles'[p] # Feat!Idle => toggles'[p] = toggles[p] /\ p # o
    BY <1>3
  <2>4. CASE u \notin c.tenants
    <3>1. Feat!Now(u)' = Feat!Now(u)
      BY <1>7, <2>1, <2>4
    <3> QED
      BY <2>1, <2>3, <3>1, GuardedKept
  <2>5. CASE u \in c.tenants
    <3>1. c # Feat!Idle
      BY <1>1, <1>3
    <3>2. /\ c.state # "INHERIT" /\ LeavesMethod(u, c) /\ Feat!Now(u) \cap Built # {}
          /\ \A p \in Operator \ {o} : toggles[p] # Feat!Idle => u \notin toggles[p].tenants
      BY <2>1, <2>5, <3>1 DEF Guarded
    <3>3. c.key \in Feature /\ c.state \in {"ON", "OFF"}
      BY <2>2, <3>2 DEF Toggle, Feat!FeatureState
    <3> PICK list \in GrantLists : list = grants[plan_of[u]]
      BY DEF FeatInv, FeatTyped, Feat!TypeOK
    <3> PICK states \in [Feature -> Feat!FeatureState] : states = overrides[u]
      BY DEF FeatInv, FeatTyped, Feat!TypeOK
    <3>4. Feat!Now(u) = Feat!Resolve(list, states)
      BY DEF Feat!Now
    <3> DEFINE key == c.key
               state == c.state
    <3>5. Feat!Now(u)' = Feat!Resolve(list, [states EXCEPT ![key] = state])
      BY <1>2, <1>4, <2>2, <2>5 DEF Feat!Now
    <3>6. /\ Feat!Resolve(list, states) \cap Built # {}
          /\ key \in Method /\ state = "OFF" => (Feat!Resolve(list, states) \cap Built) \ {key} # {}
      BY <3>2, <3>4 DEF LeavesMethod
    <3>7. key \in Feature /\ state \in {"ON", "OFF"}
      BY <3>3
    <3> HIDE DEF key, state
    <3>8. Feat!Resolve(list, [states EXCEPT ![key] = state]) \cap Built # {}
      BY <3>6, <3>7, ToggleLeavesMethod
    <3>9. \A p \in Operator : toggles'[p] # Feat!Idle => u \notin toggles'[p].tenants
      BY <2>3, <3>2
    <3> QED
      BY <3>5, <3>8, <3>9 DEF Guarded
  <2> QED
    BY <2>4, <2>5
<1> QED
  BY <1>6, <1>8, <1>9 DEF FeatInv

\* post_save of the client empties what change_plan left old.
LEMMA PlanSignals ==
    ASSUME FeatInv, NEW o \in Operator, Feat!SignalTenant(o)
    PROVE  FeatInv'
<1> DEFINE clients == toggles[o].tenants
<1>1. toggles[o].step = "saved" /\ toggles[o] \in Replan /\ clients \subseteq Tenant
  BY ConsoleRequests DEF FeatInv, Feat!SignalTenant
<1>2. /\ toggles' = [toggles EXCEPT ![o] = Feat!Idle]
      /\ answers' = [t \in Tenant |-> IF t \in clients THEN Missing ELSE answers[t]]
      /\ UNCHANGED <<grants, plan_of, overrides, askers, toggled, exposed, unchecked>>
  BY DEF Feat!SignalTenant, Feat!history
<1>3. /\ \A p \in Operator : toggles'[p] = IF p = o THEN Feat!Idle ELSE toggles[p]
      /\ Feat!Idle.step = "idle" /\ Feat!Idle \notin SavedPlan
      /\ \A u \in Tenant : answers'[u] = IF u \in clients THEN Missing ELSE answers[u]
  BY <1>2 DEF FeatInv, FeatTyped, Feat!Idle, SavedPlan
<1>4. FeatTyped'
  <2>1. answers' \in [Tenant -> (SUBSET Feature) \cup {Missing}]
    BY <1>2 DEF FeatInv, FeatTyped, Feat!TypeOK
  <2>2. Feat!TypeOK'
    BY <1>2, <2>1 DEF FeatInv, FeatTyped, Feat!TypeOK
  <2>3. toggles' \in [Operator -> {Feat!Idle} \cup Toggle \cup SavedPlan \cup Replan]
    BY <1>2 DEF FeatInv, FeatTyped
  <2>4. (\E p \in Operator : toggles'[p] \in SavedPlan) => unchecked' = Tenant
    BY <1>2, <1>3 DEF FeatInv, FeatTyped
  <2> QED
    BY <1>2, <2>2, <2>3, <2>4 DEF FeatInv, FeatTyped
<1>5. \A u \in Tenant : /\ Feat!Now(u)' = Feat!Now(u) /\ (Feat!Reading(u)' <=> Feat!Reading(u))
                        /\ (Feat!UnderWay(u)' => Feat!UnderWay(u))
  BY <1>2, <1>3 DEF Feat!Now, Feat!Reading, Feat!UnderWay
<1>6. ASSUME NEW u \in Tenant \ exposed'
      PROVE  Fresh(u)'
  <2>1. Fresh(u)
    BY <1>2, <1>6 DEF FeatInv
  <2>2. \A p \in Operator : toggles'[p] \in SavedPlan /\ toggles'[p].plan = plan_of[u]
                               => u \in toggles'[p].tenants
    BY <1>3, <2>1 DEF Fresh
  <2>3. CASE u \in clients
    <3>1. answers'[u] = Missing
      BY <1>3, <2>3
    <3> QED
      BY <1>2, <1>5, <2>1, <2>2, <3>1 DEF Fresh
  <2>4. CASE u \notin clients
    <3>1. answers'[u] = answers[u] /\ (Replanned(u) => Replanned(u)')
      BY <1>3, <2>4 DEF Replanned
    <3> QED
      BY <1>2, <1>5, <2>1, <2>2, <3>1, FreshKept
  <2> QED
    BY <2>3, <2>4
<1>7. ASSUME NEW u \in Tenant \ (unchecked' \cup exposed')
      PROVE  Guarded(u)'
  <2>1. Guarded(u)
    BY <1>2, <1>7 DEF FeatInv
  <2>2. \A p \in Operator : toggles'[p] # Feat!Idle => toggles'[p] = toggles[p]
    BY <1>3
  <2> QED
    BY <1>5, <2>1, <2>2, GuardedKept
<1> QED
  BY <1>4, <1>6, <1>7 DEF FeatInv

LEMMA FeatStep ==
    ASSUME Feat!FeaturesAssumption, FeatInv, [Feat!Next]_(Feat!vars)
    PROVE  FeatInv'
<1>1. ASSUME NEW r \in Reader, NEW t \in Tenant, Feat!Enter(r, t)
      PROVE  FeatInv'
  BY <1>1, EnterKeeps
<1>2. ASSUME NEW r \in Reader, Feat!Compute(r) \/ Feat!Fill(r)
      PROVE  FeatInv'
  BY <1>2, ComputeKeeps, FillKeeps
<1>3. ASSUME NEW t \in Tenant, Feat!Expire(t)
      PROVE  FeatInv'
  BY <1>3, ExpireKeeps
<1>4. ASSUME NEW o \in Operator, NEW t \in Tenant, NEW key \in Feature, NEW state \in Feat!FeatureState,
             Feat!AskToggle(o, t, key, state)
      PROVE  FeatInv'
  BY <1>4, ToggleKeeps
<1>5. ASSUME NEW o \in Operator, NEW p \in Plan, NEW list \in GrantLists, Feat!AskSavePlan(o, p, list)
      PROVE  FeatInv'
  BY <1>5, SavePlanKeeps
<1>6. ASSUME NEW o \in Operator, NEW t \in Tenant, NEW p \in Plan, Feat!ChangePlan(o, t, p)
      PROVE  FeatInv'
  BY <1>6, ChangePlanKeeps
<1>7. ASSUME NEW o \in Operator, Feat!Write(o) \/ Feat!Commit(o) \/ Feat!SignalTenant(o)
      PROVE  FeatInv'
  BY <1>7, ConsoleWrites, ConsoleCommits, PlanSignals
<1>8. CASE UNCHANGED Feat!vars
  <2>1. UNCHANGED <<grants, plan_of, overrides, answers, askers, toggles, toggled, exposed, unchecked>>
    BY <1>8 DEF Feat!vars, Feat!history
  <2>2. FeatTyped'
    BY <2>1 DEF FeatInv, FeatTyped, Feat!TypeOK
  <2>3. \A t \in Tenant : Fresh(t) => Fresh(t)'
    BY <2>1 DEF Fresh, Feat!UnderWay, Feat!Reading, Feat!Now, Replanned
  <2>4. \A t \in Tenant : Guarded(t) => Guarded(t)'
    BY <2>1, GuardedByReaders
  <2> QED
    BY <2>1, <2>2, <2>3, <2>4 DEF FeatInv
<1> QED
  BY <1>1, <1>2, <1>3, <1>4, <1>5, <1>6, <1>7, <1>8 DEF Feat!Next

\* The answers of any number of clients, plans, requests and keys: old only
\* after an overlap or before a signal, and never without a way to take
\* attendance where only checked toggles changed them.
THEOREM Answers ==
    ASSUME Feat!FeaturesAssumption
    PROVE  Feat!Spec => []Feat!AnswersHold
<1>1. Feat!Init => FeatInv
  BY FeatInitially
<1>2. FeatInv /\ [Feat!Next]_(Feat!vars) => FeatInv'
  BY FeatStep
<1>3. FeatInv => Feat!AnswersHold
  BY DEF FeatInv, FeatTyped, Fresh, Guarded, Replanned, Feat!AnswersHold, Feat!StaleNeedsOverlap,
         Feat!ToggledKeepsAMethod
<1> QED
  BY <1>1, <1>2, <1>3, PTL DEF Feat!Spec

-----------------------------------------------------------------------------
(* Blocks *)

\* One transaction has written a client's row, and a service writes what it
\* decided on the row that is there, or the client is marked as overtaken.
\* Only the service that lifts blocks takes one away.
BlocksInv ==
    /\ PolInv
    /\ \A o, p \in Operator :
          changes[o].step = "written" /\ changes[p].step = "written"
            /\ changes[o].tenant = changes[p].tenant => o = p
    /\ \A o \in Operator : changes[o].step = "written" /\ changes[o].op # "create"
          /\ changes[o].tenant \notin overtaken => table[changes[o].tenant] = changes[o].instance
    /\ \A o \in Operator : changes[o].step \in {"decided", "written"} /\ changes[o].op \in {"limits", "block"}
          => (changes[o].instance.blocked => changes[o].row.blocked)

LEMMA BlocksInitially ==
    ASSUME Pol!RatePolicyAssumption, Pol!Init
    PROVE  BlocksInv
<1>1. \A o \in Operator : changes[o].step = "idle"
  BY DEF Pol!Init, Pol!Idle
<1> QED
  BY <1>1, PolInitially DEF BlocksInv

\* A service that goes on, and leaves the rows as they are.
LEMMA ServiceMoves ==
    ASSUME BlocksInv, PolInv', NEW o \in Operator, NEW c, changes' = [changes EXCEPT ![o] = c],
           table' = table, overtaken \subseteq overtaken',
           c.step = "written" =>
              /\ ~Pol!Writes(c.tenant)
              /\ c.op # "create" /\ c.tenant \notin overtaken' => table[c.tenant] = c.instance,
           c.step \in {"decided", "written"} /\ c.op \in {"limits", "block"}
             => (c.instance.blocked => c.row.blocked)
    PROVE  BlocksInv'
<1>1. \A p \in Operator : changes'[p] = IF p = o THEN c ELSE changes[p]
  BY DEF BlocksInv, PolInv, PolTyped
<1>2. ASSUME NEW p \in Operator, changes[p].step = "written"
      PROVE  Pol!Writes(changes[p].tenant)
  BY <1>2 DEF Pol!Writes
<1>3. \A p, q \in Operator :
         changes'[p].step = "written" /\ changes'[q].step = "written"
           /\ changes'[p].tenant = changes'[q].tenant => p = q
  BY <1>1, <1>2 DEF BlocksInv
<1>4. \A p \in Operator : changes'[p].step = "written" /\ changes'[p].op # "create"
         /\ changes'[p].tenant \notin overtaken' => table[changes'[p].tenant] = changes'[p].instance
  BY <1>1 DEF BlocksInv
<1>5. \A p \in Operator : changes'[p].step \in {"decided", "written"} /\ changes'[p].op \in {"limits", "block"}
         => (changes'[p].instance.blocked => changes'[p].row.blocked)
  BY <1>1 DEF BlocksInv
<1> QED
  BY <1>3, <1>4, <1>5 DEF BlocksInv

\* A service that decides to keep the block of the row it read, or to lift it.
LEMMA DecidedWith ==
    ASSUME BlocksInv, PolInv', NEW o \in Operator, NEW t \in Tenant, NEW op, NEW row,
           Pol!Decide(o, t, op, row), op \in {"limits", "block"} => (table[t].blocked => row.blocked)
    PROVE  BlocksInv'
<1> DEFINE c == [step |-> "decided", tenant |-> t, op |-> op, instance |-> table[t], row |-> row]
<1>1. changes' = [changes EXCEPT ![o] = c] /\ UNCHANGED <<table, overtaken>>
  BY DEF Pol!Decide, Pol!Receive
<1>2. c.step = "decided" /\ c.op = op /\ c.instance = table[t] /\ c.row = row
  OBVIOUS
<1> HIDE DEF c
<1>3. c.step \in {"decided", "written"} /\ c.op \in {"limits", "block"} => (c.instance.blocked => c.row.blocked)
  BY <1>2, Zenon
<1> QED
  BY <1>1, <1>2, <1>3, ServiceMoves

\* What each service makes of the block of the row it read.
LEMMA DecidedBlock ==
    ASSUME BlocksInv, PolInv', NEW o \in Operator, NEW t \in Tenant,
           \/ \E limits \in Pol!Limits : Pol!SetRateLimits(o, t, limits)
           \/ Pol!BlockTraffic(o, t) \/ Pol!UnblockTraffic(o, t)
    PROVE  BlocksInv'
<1> PICK there \in Pol!Row : there = table[t]
  BY DEF BlocksInv, PolInv, PolTyped, Pol!TypeOK
<1>1. ASSUME NEW limits \in Pol!Limits, Pol!SetRateLimits(o, t, limits)
      PROVE  BlocksInv'
  <2>1. Pol!Decide(o, t, "limits", Pol!Limited(there, limits))
    BY <1>1, Zenon DEF Pol!SetRateLimits
  <2>2. Pol!Limited(there, limits).blocked = there.blocked
    BY DEF Pol!Limited, Pol!Row
  <2>3. table[t].blocked => Pol!Limited(there, limits).blocked
    BY <2>2, Zenon
  <2> QED
    BY <2>1, <2>3, DecidedWith
<1>2. ASSUME Pol!BlockTraffic(o, t)
      PROVE  BlocksInv'
  <2>1. ~there.blocked
    BY <1>2, Zenon DEF Pol!BlockTraffic
  <2>2. Pol!Decide(o, t, "block", [there EXCEPT !.blocked = TRUE])
    BY <1>2, Zenon DEF Pol!BlockTraffic
  <2>3. table[t].blocked => [there EXCEPT !.blocked = TRUE].blocked
    BY <2>1, Zenon
  <2> HIDE DEF Pol!Decide
  <2> QED
    BY <2>2, <2>3, DecidedWith, Zenon
<1>3. ASSUME Pol!UnblockTraffic(o, t)
      PROVE  BlocksInv'
  <2>1. Pol!Decide(o, t, "unblock", [there EXCEPT !.blocked = FALSE])
    BY <1>3, Zenon DEF Pol!UnblockTraffic
  <2>2. "unblock" \notin {"limits", "block"}
    OBVIOUS
  <2> QED
    BY <2>1, <2>2, DecidedWith, Zenon
<1> QED
  BY <1>1, <1>2, <1>3

LEMMA WrittenBlock ==
    ASSUME BlocksInv, PolInv', NEW o \in Operator, Pol!Write(o)
    PROVE  BlocksInv'
<1>1. changes[o].step = "decided" /\ changes[o] \in Decision
  BY Services DEF BlocksInv, PolInv, Pol!Write
<1> PICK c \in Decision : c = changes[o]
  BY <1>1
<1> DEFINE new == [c EXCEPT !.step = "written"]
<1>2. /\ new.step = "written" /\ new.tenant = c.tenant /\ new.op = c.op
      /\ new.instance = c.instance /\ new.row = c.row
  BY DEF Decision
<1>3. changes' = [changes EXCEPT ![o] = new]
  <2>1. changes' = [changes EXCEPT ![o].step = "written"]
    BY DEF Pol!Write
  <2>2. [changes EXCEPT ![o].step = "written"] = [changes EXCEPT ![o] = [changes[o] EXCEPT !.step = "written"]]
    OBVIOUS
  <2> QED
    BY <2>1, <2>2
<1> HIDE DEF new
<1>4. /\ ~Pol!Writes(c.tenant) /\ table' = table
      /\ overtaken' = IF table[c.tenant] = c.instance THEN overtaken ELSE overtaken \cup {c.tenant}
  BY DEF Pol!Write
<1>5. new.op \in {"limits", "block"} => (new.instance.blocked => new.row.blocked)
  BY <1>1, <1>2 DEF BlocksInv
<1> QED
  BY <1>2, <1>3, <1>4, <1>5, ServiceMoves

\* The commit puts the row of the one service that has written.
LEMMA CommittedBlock ==
    ASSUME BlocksInv, PolInv', NEW o \in Operator, Pol!Commit(o)
    PROVE  /\ BlocksInv'
           /\ \A t \in Tenant : table[t].blocked /\ ~table'[t].blocked =>
                 \/ t \in overtaken
                 \/ changes[o].step = "written" /\ changes'[o] = Pol!Idle /\ changes[o].op = "unblock"
<1>1. /\ changes[o].step = "written" /\ changes[o] \in Decision \cup Creation
      /\ changes[o].tenant \in Tenant
  BY Services DEF BlocksInv, PolInv, Pol!Commit
<1> PICK c \in Decision \cup Creation, t \in Tenant : c = changes[o] /\ t = c.tenant
  BY <1>1
<1>2. /\ changes' = [changes EXCEPT ![o] = Pol!Idle] /\ overtaken' = overtaken
      /\ table' = IF c.op = "create" THEN table
                  ELSE [table EXCEPT ![t] = Pol!Written(table[t], c.instance, c.row)]
  <2>1. c.op = "create" => table' = table
    BY DEF Pol!Commit
  <2>2. c.op # "create" => table' = [table EXCEPT ![t] = Pol!Written(table[t], c.instance, c.row)]
    BY DEF Pol!Commit
  <2> QED
    BY <2>1, <2>2 DEF Pol!Commit
<1>3. /\ \A p \in Operator : changes'[p] = IF p = o THEN Pol!Idle ELSE changes[p]
      /\ Pol!Idle.step = "idle"
      /\ \A u \in Tenant \ {t} : table'[u] = table[u]
      /\ changes'[o] = Pol!Idle
  BY <1>2 DEF BlocksInv, PolInv, PolTyped, Pol!TypeOK, Pol!Idle
<1>4. ASSUME NEW p \in Operator, p # o, changes[p].step = "written"
      PROVE  changes[p].tenant \in Tenant \ {t}
  BY <1>1, <1>4, Services DEF BlocksInv, PolInv
<1>5. BlocksInv'
  <2>1. \A p, q \in Operator :
           changes'[p].step = "written" /\ changes'[q].step = "written"
             /\ changes'[p].tenant = changes'[q].tenant => p = q
    BY <1>3 DEF BlocksInv
  <2>2. ASSUME NEW p \in Operator, changes'[p].step = "written", changes'[p].op # "create",
               changes'[p].tenant \notin overtaken'
        PROVE  table'[changes'[p].tenant] = changes'[p].instance
    <3>1. p # o /\ changes'[p] = changes[p]
      BY <1>3, <2>2
    <3> QED
      BY <1>2, <1>3, <1>4, <2>2, <3>1 DEF BlocksInv
  <2>3. \A p \in Operator : changes'[p].step \in {"decided", "written"} /\ changes'[p].op \in {"limits", "block"}
           => (changes'[p].instance.blocked => changes'[p].row.blocked)
    BY <1>3 DEF BlocksInv
  <2> QED
    BY <2>1, <2>2, <2>3 DEF BlocksInv
<1>6. ASSUME NEW u \in Tenant, table[u].blocked, ~table'[u].blocked, u \notin overtaken
      PROVE  c.op = "unblock"
  <2>1. u = t /\ c.op # "create"
    BY <1>2, <1>3, <1>6
  <2>2. c \in Decision
    BY <2>1 DEF Creation
  <2>3. c.op \in {"limits", "block", "unblock"} /\ c.row \in Pol!Row
    BY <2>2 DEF Decision
  <2>4. table[t] = c.instance
    BY <1>1, <1>6, <2>1 DEF BlocksInv
  <2>5. CASE c.op \in {"limits", "block"}
    <3>1. c.row.blocked
      BY <1>1, <1>6, <2>1, <2>4, <2>5 DEF BlocksInv
    <3>2. Pol!Written(table[t], c.instance, c.row) = IF c.row.pk = 0 THEN [c.row EXCEPT !.pk = wanted] ELSE c.row
      BY <3>1, Zenon DEF Pol!Written, Pol!IsDefault
    <3>3. [c.row EXCEPT !.pk = wanted].blocked = c.row.blocked
      <4>1. \A row \in Pol!Row : [row EXCEPT !.pk = wanted].blocked = row.blocked
        BY DEF Pol!Row
      <4> QED
        BY <2>3, <4>1
    <3>4. table'[t] = Pol!Written(table[t], c.instance, c.row)
      BY <1>2, <2>1 DEF BlocksInv, PolInv, PolTyped, Pol!TypeOK
    <3>5. table'[t].blocked
      BY <3>1, <3>2, <3>3, <3>4, Zenon
    <3> QED
      BY <1>6, <2>1, <3>5
  <2> QED
    BY <2>3, <2>5
<1>7. \A u \in Tenant : table[u].blocked /\ ~table'[u].blocked => u \in overtaken \/ c.op = "unblock"
  BY <1>6, Zenon
<1> QED
  BY <1>1, <1>3, <1>5, <1>7, Zenon

LEMMA BlocksStep ==
    ASSUME Pol!RatePolicyAssumption, BlocksInv, [Pol!Next]_(Pol!vars)
    PROVE  /\ BlocksInv'
           /\ table' # table => \E o \in Operator : Pol!Commit(o)
<1>1. PolInv'
  BY PolStep DEF BlocksInv
<1>2. CASE \/ \E r \in Reader, t \in Tenant : Pol!Miss(r, t)
           \/ \E r \in Reader : Pol!Fill(r)
           \/ \E t \in Tenant : Pol!Expire(t)
           \/ UNCHANGED Pol!vars
  <2>1. UNCHANGED <<table, changes, overtaken>>
    BY <1>2 DEF Pol!Miss, Pol!Fill, Pol!Expire, Pol!vars
  <2> QED
    BY <1>1, <2>1 DEF BlocksInv
<1>3. ASSUME NEW o \in Operator, NEW t \in Tenant,
             \/ \E limits \in Pol!Limits : Pol!SetRateLimits(o, t, limits)
             \/ Pol!BlockTraffic(o, t) \/ Pol!UnblockTraffic(o, t)
      PROVE  BlocksInv' /\ table' = table
  BY <1>1, <1>3, DecidedBlock DEF Pol!SetRateLimits, Pol!BlockTraffic, Pol!UnblockTraffic, Pol!Decide, Pol!Receive
<1>4. ASSUME NEW o \in Operator, NEW t \in Tenant, Pol!CreateDomain(o, t)
      PROVE  BlocksInv' /\ table' = table
  <2> DEFINE c == [step |-> "written", tenant |-> t, op |-> "create"]
  <2>1. changes' = [changes EXCEPT ![o] = c] /\ ~Pol!Writes(t) /\ UNCHANGED <<table, overtaken>>
    BY <1>4 DEF Pol!CreateDomain
  <2>2. c.tenant = t /\ c.op = "create"
    OBVIOUS
  <2> HIDE DEF c
  <2> QED
    BY <1>1, <2>1, <2>2, ServiceMoves
<1>5. ASSUME NEW o \in Operator, NEW t \in Tenant, Pol!SaveTenant(o, t)
      PROVE  BlocksInv' /\ table' = table
  <2> DEFINE c == [step |-> "saved", tenant |-> t]
  <2>1. changes' = [changes EXCEPT ![o] = c] /\ UNCHANGED <<table, overtaken>>
    BY <1>5 DEF Pol!SaveTenant
  <2>2. c.step = "saved"
    OBVIOUS
  <2> HIDE DEF c
  <2> QED
    BY <1>1, <2>1, <2>2, ServiceMoves
<1>6. ASSUME NEW o \in Operator, Pol!Write(o)
      PROVE  BlocksInv' /\ table' = table
  BY <1>1, <1>6, WrittenBlock DEF Pol!Write
<1>7. ASSUME NEW o \in Operator, Pol!WriteFails(o) \/ Pol!SignalTenant(o)
      PROVE  BlocksInv' /\ table' = table
  <2>1. changes' = [changes EXCEPT ![o] = Pol!Idle] /\ UNCHANGED <<table, overtaken>>
    BY <1>7 DEF Pol!WriteFails, Pol!SignalTenant
  <2>2. Pol!Idle.step = "idle"
    BY DEF Pol!Idle
  <2> QED
    BY <1>1, <2>1, <2>2, ServiceMoves
<1>8. ASSUME NEW o \in Operator, Pol!Commit(o)
      PROVE  BlocksInv'
  BY <1>1, <1>8, CommittedBlock
<1> QED
  BY <1>2, <1>3, <1>4, <1>5, <1>6, <1>7, <1>8 DEF Pol!Next

\* However the services overlap, a block is lifted by an operator who asked
\* for that, or by a service whose instance another had overtaken.
THEOREM Blocks ==
    ASSUME Pol!RatePolicyAssumption
    PROVE  Pol!Spec => Pol!UnblockedByDecisionOrRace
<1>1. Pol!Init => BlocksInv
  BY BlocksInitially
<1>2. BlocksInv /\ [Pol!Next]_(Pol!vars) => BlocksInv'
  BY BlocksStep
<1>3. BlocksInv /\ [Pol!Next]_(Pol!vars) =>
         \A t \in Tenant :
            table[t].blocked /\ ~table'[t].blocked =>
               \/ t \in overtaken
               \/ \E o \in Operator : changes[o].step = "written" /\ changes'[o] = Pol!Idle
                                         /\ changes[o].op = "unblock"
  <2> SUFFICES ASSUME BlocksInv, [Pol!Next]_(Pol!vars), NEW t \in Tenant, table[t].blocked,
                      ~table'[t].blocked, t \notin overtaken
               PROVE  \E o \in Operator : changes[o].step = "written" /\ changes'[o] = Pol!Idle
                                             /\ changes[o].op = "unblock"
    BY Zenon
  <2>1. table' # table
    BY Zenon
  <2>2. PICK o \in Operator : Pol!Commit(o)
    BY <2>1, BlocksStep
  <2>3. PolInv'
    BY PolStep DEF BlocksInv
  <2> QED
    BY <2>2, <2>3, CommittedBlock, Zenon
<1> QED
  BY <1>1, <1>2, <1>3, PTL DEF Pol!Spec, Pol!UnblockedByDecisionOrRace

-----------------------------------------------------------------------------
(* What a change of plan takes away *)

\* The part that is left when dependencies are checked to the end: closed,
\* and the largest.
LEMMA LargestIs ==
    ASSUME Feat!FeaturesAssumption, NEW keys \in SUBSET Feature
    PROVE  LET part == Feat!LargestClosed(keys)
           IN  /\ part \subseteq keys /\ Feat!Closed(part)
               /\ \A other \in SUBSET keys : Feat!Closed(other) => other \subseteq part
<1> DEFINE parts == {part \in SUBSET keys : Feat!Closed(part)}
<1>1. Feat!LargestClosed(keys) = UNION parts
  BY DEF Feat!LargestClosed
<1>2. Feat!Closed(UNION parts)
  <2>1. ASSUME NEW part \in parts, NEW key \in part
        PROVE  DependsOn[key] \subseteq UNION parts
    BY <2>1 DEF Feat!Closed
  <2> QED
    BY <2>1 DEF Feat!Closed
<1> QED
  BY <1>1, <1>2

\* What a key needs is closed, and in every closed part that has the key.
LEMMA NeedsIs ==
    ASSUME Feat!FeaturesAssumption, NEW key \in Feature
    PROVE  /\ key \in Feat!Needs(key) /\ Feat!Needs(key) \subseteq Feature
           /\ Feat!Closed(Feat!Needs(key))
           /\ \A keys \in SUBSET Feature : key \in keys /\ Feat!Closed(keys) => Feat!Needs(key) \subseteq keys
<1>1. ASSUME NEW need \in Feat!Needs(key)
      PROVE  DependsOn[need] \subseteq Feat!Needs(key)
  <2>1. need \in Feature /\ DependsOn[need] \subseteq Feature
    BY DEF Feat!Needs, Feat!FeaturesAssumption
  <2>2. ASSUME NEW keys \in SUBSET Feature, key \in keys, Feat!Closed(keys)
        PROVE  DependsOn[need] \subseteq keys
    <3>1. need \in keys
      BY <2>2 DEF Feat!Needs
    <3> QED
      BY <2>2, <3>1 DEF Feat!Closed
  <2> QED
    BY <2>1, <2>2 DEF Feat!Needs
<1> QED
  BY <1>1 DEF Feat!Needs, Feat!Closed

\* A key that a change of plan takes away was lost for something that it needs
\* and the new plan does not grant, and the warnings name that.
LEMMA LossIsWarned ==
    ASSUME Feat!FeaturesAssumption, FeatTyped
    PROVE  Feat!EveryLossIsWarned
<1> SUFFICES ASSUME NEW t \in Tenant, NEW p \in Plan, Feat!Enabled(t) = Feat!Now(t),
                    NEW key \in Feat!Now(t) \ Feat!Resolve(grants[p], overrides[t])
             PROVE  Feat!Needs(key) \cap Feat!Losing(t, p) # {}
  BY DEF Feat!EveryLossIsWarned
<1> DEFINE before == Feat!Asked(grants[plan_of[t]], overrides[t])
           after == Feat!Asked(grants[p], overrides[t])
           unbuilt == Method \ Built
<1>1. /\ before \in SUBSET Feature /\ after \in SUBSET Feature
      /\ Core \subseteq grants[p] /\ grants[p] # {}
  BY DEF Feat!Asked, FeatTyped, Feat!FeaturesAssumption
<1>2. /\ Feat!Now(t) = (Feat!LargestClosed(before) \ unbuilt) \cup Core
      /\ Feat!Resolve(grants[p], overrides[t]) = (Feat!LargestClosed(after) \ unbuilt) \cup Core
  BY DEF Feat!Now, Feat!Resolve
<1>3. ASSUME NEW need, need \in before, need \notin after
      PROVE  need \notin grants[p]
  BY <1>1, <1>3 DEF Feat!Asked
<1> HIDE DEF before, after
<1>4. key \in Feat!LargestClosed(before) \ unbuilt /\ key \notin Feat!LargestClosed(after)
  BY <1>2
<1>5. key \in Feature
  BY <1>1, <1>4, LargestIs
<1> DEFINE needs == Feat!Needs(key) \ unbuilt
<1>6. key \in needs /\ needs \subseteq Feature /\ Feat!Closed(needs) /\ Feat!Needs(key) = needs
  <2>1. key \in needs /\ needs \subseteq Feature
    BY <1>4, <1>5, NeedsIs
  <2>2. ASSUME NEW need \in needs
        PROVE  DependsOn[need] \subseteq needs
    BY <1>5, <2>1, <2>2, NeedsIs DEF Feat!Closed, Feat!FeaturesAssumption
  <2>3. Feat!Closed(needs)
    BY <2>2 DEF Feat!Closed
  <2> QED
    BY <1>5, <2>1, <2>3, NeedsIs
<1>7. needs \subseteq Feat!LargestClosed(before)
  <2>1. Feat!Closed(Feat!LargestClosed(before)) /\ Feat!LargestClosed(before) \in SUBSET Feature
    BY <1>1, LargestIs
  <2> QED
    BY <1>4, <1>5, <1>6, <2>1, NeedsIs
<1> HIDE DEF needs
<1>8. PICK need \in needs : need \notin after
  <2>1. needs \in SUBSET after => needs \subseteq Feat!LargestClosed(after)
    BY <1>1, <1>6, LargestIs
  <2> QED
    BY <1>4, <1>6, <2>1
<1>9. need \in before /\ need \in Feat!LargestClosed(before)
  BY <1>1, <1>7, <1>8, LargestIs
<1>10. need \notin grants[p] /\ need \notin Core
  BY <1>1, <1>3, <1>8, <1>9
<1>11. need \in Feat!Enabled(t)
  BY <1>2, <1>6, <1>8, <1>9 DEF needs
<1> QED
  BY <1>6, <1>8, <1>10, <1>11 DEF Feat!Losing

\* Whatever the catalogue, the plans and the overrides are: no change of plan
\* takes away what the warnings did not announce.
THEOREM Warnings ==
    ASSUME Feat!FeaturesAssumption
    PROVE  Feat!Spec => []Feat!EveryLossIsWarned
<1>1. Feat!Init => FeatInv
  BY FeatInitially
<1>2. FeatInv /\ [Feat!Next]_(Feat!vars) => FeatInv'
  BY FeatStep
<1>3. FeatInv => Feat!EveryLossIsWarned
  BY LossIsWarned DEF FeatInv
<1> QED
  BY <1>1, <1>2, <1>3, PTL DEF Feat!Spec

-----------------------------------------------------------------------------
(* The rows a request was admitted for *)

\* What a request may be doing.
Job ==
    {Idle}
      \cup [step : {"started"}, res : Resource, cap : Cap]
      \cup [step : {"counted", "refreshed"}, res : Resource, current : Nat, row : Counter,
            count : 0 .. MaxBatch]

\* The rows of a resource one request still has to insert.
Share(task, res) ==
    IF task.step \in {"counted", "refreshed"} /\ task.res = res THEN task.count ELSE 0

\* Promised, of any table of requests.
PromisedOf(jobs, res) ==
    {row \in Worker \X (1 .. MaxBatch) : row[2] <= Share(jobs[row[1]], res)}

\* The promises of all requests but one.
Rest(jobs, w, res) == {row \in PromisedOf(jobs, res) : row[1] # w}

\* By how much overlapping requests may pass a limit.
Slack == (Cardinality(Worker) - 1) * MaxBatch

\* A request is idle, has the limit of its plan, or was counted for.
LEMMA JobKinds ==
    ASSUME NEW task \in Job
    PROVE  /\ task.step \in {"idle", "started", "counted", "refreshed"}
           /\ task.step = "idle" => task = Idle
           /\ task.step = "started" => task.res \in Resource /\ task.cap \in Cap
           /\ task.step \in {"counted", "refreshed"} =>
                task \in [step : {"counted", "refreshed"}, res : Resource, current : Nat,
                         row : Counter, count : 0 .. MaxBatch]
<1>1. CASE task \in {Idle}
  BY <1>1 DEF Idle
<1>2. CASE task \in [step : {"started"}, res : Resource, cap : Cap]
  BY <1>2
<1>3. CASE task \in [step : {"counted", "refreshed"}, res : Resource, current : Nat,
                    row : Counter, count : 0 .. MaxBatch]
  BY <1>3
<1> QED
  BY <1>1, <1>2, <1>3 DEF Job

\* A share is at most one batch.
LEMMA ShareType ==
    ASSUME NEW task \in Job, NEW res
    PROVE  Share(task, res) \in Nat /\ Share(task, res) <= MaxBatch
BY JobKinds, QuotaAssumption DEF Share

\* Promised is PromisedOf the table, before and after a step.
LEMMA PromisedIs ==
    ASSUME NEW res
    PROVE  /\ work \in [Worker -> Job] => Promised(res) = PromisedOf(work, res)
           /\ work' \in [Worker -> Job] => Promised(res)' = PromisedOf(work', res)
<1>1. ASSUME NEW jobs \in [Worker -> Job], NEW row \in Worker \X (1 .. MaxBatch)
      PROVE  row[2] <= Share(jobs[row[1]], res) <=>
               /\ jobs[row[1]].step \in {"counted", "refreshed"} /\ jobs[row[1]].count > 0
               /\ jobs[row[1]].res = res
               /\ row[2] <= jobs[row[1]].count
  <2>1. jobs[row[1]] \in Job /\ row[2] \in Nat /\ row[2] >= 1
    BY QuotaAssumption
  <2> QED
    BY <2>1, JobKinds, QuotaAssumption DEF Share
<1>2. work \in [Worker -> Job] => Promised(res) = PromisedOf(work, res)
  BY <1>1 DEF Promised, PromisedOf, Admitted
<1>3. work' \in [Worker -> Job] => Promised(res)' = PromisedOf(work', res)
  BY <1>1 DEF Promised, PromisedOf, Admitted
<1> QED
  BY <1>2, <1>3

\* All promises are those of one request and the rest, and the rest is
\* within the slack.
LEMMA Parts ==
    ASSUME NEW jobs \in [Worker -> Job], NEW w \in Worker, NEW res
    PROVE  /\ Cardinality(Rest(jobs, w, res)) \in Nat
           /\ Cardinality(Rest(jobs, w, res)) <= Slack
           /\ Cardinality(PromisedOf(jobs, res)) =
                Cardinality(Rest(jobs, w, res)) + Share(jobs[w], res)
<1> DEFINE Others == (Worker \ {w}) \X (1 .. MaxBatch)
           Own == {w} \X (1 .. Share(jobs[w], res))
           R == Rest(jobs, w, res)
<1>1. IsFiniteSet(Worker) /\ MaxBatch \in Nat /\ MaxBatch >= 1
  BY QuotaAssumption
<1>2. IsFiniteSet(Worker \ {w}) /\ Cardinality(Worker \ {w}) = Cardinality(Worker) - 1
  BY <1>1, FS_RemoveElement
<1>3. IsFiniteSet(1 .. MaxBatch) /\ Cardinality(1 .. MaxBatch) = MaxBatch
  BY <1>1, FS_Interval
<1>4. IsFiniteSet(Others) /\ Cardinality(Others) = Slack
  <2>1. \A S, T : IsFiniteSet(S) /\ IsFiniteSet(T)
          => IsFiniteSet(S \X T) /\ Cardinality(S \X T) = Cardinality(S) * Cardinality(T)
    BY FS_Product
  <2>2. /\ IsFiniteSet(Others)
        /\ Cardinality(Others) = Cardinality(Worker \ {w}) * Cardinality(1 .. MaxBatch)
    BY <1>2, <1>3, <2>1, Zenon
  <2> QED
    BY <1>2, <1>3, <2>2 DEF Slack
<1>5. R \subseteq Others
  BY DEF Rest, PromisedOf
<1>6. IsFiniteSet(R) /\ Cardinality(R) \in Nat /\ Cardinality(R) <= Slack
  BY <1>4, <1>5, FS_Subset, FS_CardinalityType
<1>7. Share(jobs[w], res) \in Nat /\ Share(jobs[w], res) <= MaxBatch
  BY ShareType
<1>8. IsFiniteSet(Own) /\ Cardinality(Own) = Share(jobs[w], res)
  <2>1. IsFiniteSet(1 .. Share(jobs[w], res))
        /\ Cardinality(1 .. Share(jobs[w], res)) = Share(jobs[w], res)
    BY <1>7, FS_Interval
  <2>2. IsFiniteSet({w}) /\ Cardinality({w}) = 1
    BY FS_Singleton
  <2>3. /\ IsFiniteSet(Own)
        /\ Cardinality(Own) = Cardinality({w}) * Cardinality(1 .. Share(jobs[w], res))
    <3> HIDE DEF R, Others
    <3>1. \A S, T : IsFiniteSet(S) /\ IsFiniteSet(T)
            => IsFiniteSet(S \X T) /\ Cardinality(S \X T) = Cardinality(S) * Cardinality(T)
      BY FS_Product
    <3> QED
      BY <2>1, <2>2, <3>1, Zenon
  <2> QED
    BY <2>1, <2>2, <2>3, <1>7
<1>9. PromisedOf(jobs, res) = R \cup Own
  <2>1. ASSUME NEW row \in PromisedOf(jobs, res)
        PROVE  row \in R \cup Own
    <3>1. row \in Worker \X (1 .. MaxBatch) /\ row[2] <= Share(jobs[row[1]], res)
      BY DEF PromisedOf
    <3>2. CASE row[1] = w
      BY <3>1, <3>2, <1>7, <1>1
    <3>3. CASE row[1] # w
      BY <3>3 DEF Rest
    <3> QED
      BY <3>2, <3>3
  <2>2. ASSUME NEW row \in Own
        PROVE  row \in PromisedOf(jobs, res)
    BY <1>7, <1>1 DEF PromisedOf
  <2> QED
    BY <2>1, <2>2 DEF Rest
<1>10. R \cap Own = {}
  BY DEF Rest
<1>11. Cardinality(R \cup Own) = Cardinality(R) + Cardinality(Own) - 0
  BY <1>6, <1>8, <1>10, FS_Union, FS_EmptySet
<1> QED
  BY <1>6, <1>7, <1>8, <1>9, <1>11

\* A step of one request leaves the promises of the rest.
LEMMA RestStays ==
    ASSUME NEW jobs \in [Worker -> Job], NEW after \in [Worker -> Job], NEW w \in Worker, NEW res,
           \A v \in Worker \ {w} : after[v] = jobs[v]
    PROVE  Rest(after, w, res) = Rest(jobs, w, res)
BY DEF Rest, PromisedOf

\* A step of one request changes the promises by the change of its share.
LEMMA OneMoves ==
    ASSUME work \in [Worker -> Job], NEW w \in Worker, NEW task \in Job, NEW res,
           work' = [work EXCEPT ![w] = task]
    PROVE  \E rest \in Nat :
             /\ rest <= Slack
             /\ Cardinality(Promised(res)) = rest + Share(work[w], res)
             /\ Cardinality(Promised(res)') = rest + Share(task, res)
<1> DEFINE rest == Cardinality(Rest(work, w, res))
           after == [work EXCEPT ![w] = task]
<1>1. after \in [Worker -> Job] /\ after[w] = task
  OBVIOUS
<1>2. Promised(res) = PromisedOf(work, res) /\ Promised(res)' = PromisedOf(after, res)
  BY <1>1, PromisedIs
<1>3. /\ rest \in Nat
      /\ rest <= Slack
      /\ Cardinality(PromisedOf(work, res)) = rest + Share(work[w], res)
  BY Parts
<1>4. Cardinality(PromisedOf(after, res)) = Cardinality(Rest(after, w, res)) + Share(after[w], res)
  BY <1>1, Parts
<1>5. Rest(after, w, res) = Rest(work, w, res)
  <2>1. ASSUME NEW v \in Worker, v # w
        PROVE  after[v] = work[v]
    BY <2>1, Zenon
  <2> HIDE DEF after
  <2>2. after \in [Worker -> Job] /\ \A v \in Worker \ {w} : after[v] = work[v]
    BY <1>1, <2>1
  <2> QED
    BY <2>2, RestStays
<1> HIDE DEF rest, after
<1>6. Cardinality(PromisedOf(after, res)) = rest + Share(task, res)
  BY <1>1, <1>4, <1>5 DEF rest
<1> QED
  BY <1>2, <1>3, <1>6

-----------------------------------------------------------------------------
(* The invariant *)

\* The limit a request compares with is one the client has had.
CapsKnown ==
    /\ \A w \in Worker : work[w].step = "started" => work[w].cap <= high[work[w].res]
    /\ \A res \in Resource : cap[res] # Unlimited => cap[res] <= high[res]

IInv == TypeOK /\ CapsKnown /\ OvershootBounded

\* The types, read off.
LEMMA Types ==
    ASSUME TypeOK
    PROVE  /\ live \in Counter /\ usage \in Counter /\ high \in Counter
           /\ cap \in [Resource -> Cap \cup {Unlimited}]
           /\ fresh \in BOOLEAN
           /\ lock \in Worker \cup {Nobody}
           /\ work \in [Worker -> Job]
           /\ requests \in 0 .. MaxRequests
           /\ Slack \in Int
<1>1. Cardinality(Worker) \in Nat
  BY QuotaAssumption, FS_CardinalityType
<1>2. Slack \in Int
  BY <1>1, QuotaAssumption DEF Slack
<1> QED
  BY <1>2 DEF TypeOK, Job

\* A request that was counted for keeps its count when the row is saved.
LEMMA RefreshedJob ==
    ASSUME NEW task \in Job, task.step \in {"counted", "refreshed"}
    PROVE  /\ [task EXCEPT !.step = "refreshed"] \in Job
           /\ [task EXCEPT !.step = "refreshed"].step = "refreshed"
           /\ \A res : Share([task EXCEPT !.step = "refreshed"], res) = Share(task, res)
<1>1. task \in [step : {"counted", "refreshed"}, res : Resource, current : Nat, row : Counter,
               count : 0 .. MaxBatch]
  BY JobKinds
<1> DEFINE after == [task EXCEPT !.step = "refreshed"]
<1>2. /\ after \in [step : {"counted", "refreshed"}, res : Resource, current : Nat, row : Counter,
                    count : 0 .. MaxBatch]
      /\ after.step = "refreshed" /\ after.res = task.res /\ after.count = task.count
  BY <1>1
<1> QED
  BY <1>2 DEF Job, Share

\* Idle requests have no share.
LEMMA IdleJob == Idle \in Job /\ Idle.step = "idle" /\ \A res : Share(Idle, res) = 0
BY DEF Idle, Job, Share

\* The row that a request saves.
LEMMA CountedRow ==
    ASSUME work \in [Worker -> Job], NEW w \in Worker, work[w].step \in {"counted", "refreshed"}
    PROVE  Counted(w) \in Counter
<1>1. work[w] \in [step : {"counted", "refreshed"}, res : Resource, current : Nat, row : Counter,
                   count : 0 .. MaxBatch]
  BY JobKinds
<1> QED
  BY <1>1 DEF Counted, Counter

\* What one request may do: its share grows only by rows that fit a limit
\* the client has had, and rows are created only out of its share.
LEMMA OneStep ==
    ASSUME IInv, NEW w \in Worker, NEW task \in Job,
           work' = [work EXCEPT ![w] = task],
           high' = high,
           cap' = cap,
           live' \in Counter,
           task.step = "started" => task.cap <= high[task.res],
           \A res \in Resource :
             \/ live'[res] + Share(task, res) <= live[res] + Share(work[w], res)
             \/ live'[res] + Share(task, res) <= high[res]
    PROVE  CapsKnown' /\ OvershootBounded'
<1>1. live \in Counter /\ high \in Counter /\ work \in [Worker -> Job] /\ Slack \in Int
  BY Types DEF IInv
<1>2. CapsKnown'
  BY <1>1 DEF IInv, CapsKnown
<1>3. ASSUME NEW res \in Resource
      PROVE  live'[res] + Cardinality(Promised(res)') <= high[res] + Slack
  <2>1. PICK rest \in Nat :
             /\ rest <= Slack
             /\ Cardinality(Promised(res)) = rest + Share(work[w], res)
             /\ Cardinality(Promised(res)') = rest + Share(task, res)
    BY <1>1, OneMoves
  <2>2. live[res] + Cardinality(Promised(res)) <= high[res] + Slack
    BY DEF IInv, OvershootBounded, Slack
  <2>3. /\ live[res] \in Nat /\ live'[res] \in Nat /\ high[res] \in Nat
        /\ Share(work[w], res) \in Nat /\ Share(task, res) \in Nat
    BY <1>1, ShareType DEF Counter
  <2> QED
    BY <1>1, <2>1, <2>2, <2>3
<1> QED
  BY <1>2, <1>3 DEF OvershootBounded, Slack

-----------------------------------------------------------------------------
(* It holds initially, and every step keeps it *)

LEMMA InitHolds == Init => IInv
<1> SUFFICES ASSUME Init PROVE IInv
  OBVIOUS
<1>1. /\ live \in Counter /\ usage \in Counter
      /\ \A res \in Resource : live[res] = 0
  BY DEF Init, Counter
<1>2. high \in Counter
  BY QuotaAssumption DEF Init, Counter
<1>3. work \in [Worker -> Job] /\ \A w \in Worker : work[w].step = "idle" /\ work[w] = Idle
  BY IdleJob DEF Init
<1>4. TypeOK
  <2>1. /\ requests \in 0 .. MaxRequests
        /\ lock \in Worker \cup {Nobody}
        /\ fresh \in BOOLEAN
    <3>1. requests \in 0 .. MaxRequests
      BY QuotaAssumption, SMT DEF Init
    <3>2. lock \in Worker \cup {Nobody}
      BY Zenon DEF Init
    <3>3. fresh \in BOOLEAN
      BY Zenon DEF Init
    <3> QED
      BY <3>1, <3>2, <3>3
  <2>2. cap \in [Resource -> Cap \cup {Unlimited}]
    BY DEF Init
  <2> QED
    BY <1>1, <1>2, <1>3, <2>1, <2>2 DEF TypeOK, Job
<1>5. CapsKnown
  <2>1. ASSUME NEW res \in Resource, cap[res] # Unlimited
        PROVE  cap[res] <= high[res]
    <3>1. cap[res] \in Nat
      BY <2>1, QuotaAssumption DEF Init
    <3>2. high[res] = cap[res]
      BY <2>1, Zenon DEF Init
    <3> QED
      BY <3>1, <3>2
  <2> QED
    BY <1>3, <2>1 DEF CapsKnown
<1>6. ASSUME NEW res \in Resource
      PROVE  live[res] + Cardinality(Promised(res)) <= high[res] + Slack
  <2>1. PICK w \in Worker : TRUE
    BY QuotaAssumption
  <2>2. Promised(res) = PromisedOf(work, res)
    BY <1>3, PromisedIs
  <2>3. Share(work[w], res) = 0
    BY <1>3, IdleJob
  <2>4. Cardinality(Promised(res)) = Cardinality(Rest(work, w, res)) + 0
        /\ Cardinality(Rest(work, w, res)) <= Slack
        /\ Cardinality(Rest(work, w, res)) \in Nat
    BY <1>3, <2>2, <2>3, Parts
  <2>5. high[res] \in Nat /\ live[res] = 0 /\ Slack \in Int
    BY <1>1, <1>2, <1>4, Types DEF Counter
  <2> QED
    BY <2>4, <2>5
<1> QED
  BY <1>4, <1>5, <1>6 DEF IInv, OvershootBounded, Slack

\* A request begins with the limit of the plan.
LEMMA StartKeeps ==
    ASSUME IInv, NEW w \in Worker, NEW res \in Resource, Start(w, res)
    PROVE  IInv'
<1> DEFINE task == [step |-> "started", res |-> res, cap |-> cap[res]]
<1>1. TypeOK
  BY DEF IInv
<1>2. cap[res] \in Cap
  BY <1>1, Types DEF Start
<1>3. task \in Job /\ task.step = "started" /\ task.res = res /\ task.cap = cap[res]
  BY <1>2 DEF Job
<1>4. work' = [work EXCEPT ![w] = task] /\ live' = live /\ high' = high
  BY DEF Start
<1>5. \A any : Share(task, any) = 0
  BY DEF Share
<1>6. Share(work[w], res) = 0 /\ \A any \in Resource : Share(work[w], any) \in Nat
  BY <1>1, Types, ShareType, IdleJob DEF Start
<1> HIDE DEF task
<1>7. TypeOK'
  <2>1. requests' \in 0 .. MaxRequests
    BY <1>1, Types, QuotaAssumption DEF Start
  <2>2. work' \in [Worker -> Job]
    BY <1>1, <1>3, <1>4, Types
  <2>3. UNCHANGED <<live, cap, usage, fresh, lock, high>>
    BY DEF Start
  <2> QED
    BY <1>1, <2>1, <2>2, <2>3, Types DEF TypeOK, Job
<1>8. \A any \in Resource : live'[any] + Share(task, any) <= live[any] + Share(work[w], any)
  BY <1>1, <1>4, <1>5, <1>6, Types DEF Counter
<1>9. live' \in Counter /\ cap' = cap
  BY <1>1, <1>4, Types DEF Start
<1>10. task.cap <= high[task.res]
  BY <1>3 DEF IInv, CapsKnown, Start
<1>11. CapsKnown' /\ OvershootBounded'
  BY <1>3, <1>4, <1>8, <1>9, <1>10, OneStep
<1> QED
  BY <1>7, <1>11 DEF IInv

\* The count admits no more than the limit the request began with.
LEMMA CountKeeps ==
    ASSUME IInv, NEW w \in Worker, NEW count \in 1 .. MaxBatch, Count(w, count)
    PROVE  IInv'
<1> DEFINE old == work[w]
           task == [step |-> "counted", res |-> old.res, current |-> live[old.res], row |-> usage,
                   count |-> IF Fits(w, count) THEN count ELSE 0]
<1>1. TypeOK
  BY DEF IInv
<1>2. old.step = "started" /\ old.res \in Resource /\ old.cap \in Cap
  <2>1. old \in Job /\ old.step = "started"
    BY <1>1, Types DEF Count
  <2> QED
    BY <2>1, JobKinds
<1>3. live[old.res] \in Nat /\ usage \in Counter /\ high[old.res] \in Nat /\ old.cap \in Nat
  BY <1>1, <1>2, Types, QuotaAssumption DEF Counter
<1>4. old.cap <= high[old.res]
  BY <1>2 DEF IInv, CapsKnown
<1>5. count \in Nat /\ count \in 0 .. MaxBatch /\ 0 \in 0 .. MaxBatch
  BY QuotaAssumption
<1>6. task.step = "counted" /\ task.res = old.res
      /\ task.count = (IF Fits(w, count) THEN count ELSE 0)
  OBVIOUS
<1>7. task \in Job
  <2>1. (IF Fits(w, count) THEN count ELSE 0) \in 0 .. MaxBatch
    BY <1>5
  <2> QED
    BY <1>2, <1>3, <2>1 DEF Job
<1>8. work' = [work EXCEPT ![w] = task]
  BY DEF Count
<1>9. UNCHANGED <<live, cap, usage, fresh, lock, requests, high>>
  BY DEF Count
<1>10. Fits(w, count) => live[old.res] + count <= high[old.res]
  BY <1>3, <1>4, <1>5 DEF Fits
<1> HIDE DEF task
<1>11. ASSUME NEW any \in Resource
       PROVE  \/ live'[any] + Share(task, any) <= live[any] + Share(work[w], any)
              \/ live'[any] + Share(task, any) <= high[any]
  <2>1. live'[any] = live[any] /\ live[any] \in Nat
    BY <1>1, <1>9, Types DEF Counter
  <2>2. Share(work[w], any) = 0
    BY <1>2 DEF Share
  <2>3. CASE any = old.res /\ Fits(w, count)
    <3>1. Share(task, any) = count
      BY <2>3, <1>6 DEF Share
    <3> HIDE DEF old
    <3> QED
      BY <2>1, <2>3, <3>1, <1>10
  <2>4. CASE ~(any = old.res /\ Fits(w, count))
    <3>1. Share(task, any) = 0
      BY <2>4, <1>6 DEF Share
    <3> QED
      BY <2>1, <2>2, <3>1
  <2> QED
    BY <2>3, <2>4
<1>12. task.step = "started" => task.cap <= high[task.res]
  BY <1>6
<1>13. live' \in Counter /\ cap' = cap /\ high' = high
  BY <1>1, <1>9, Types
<1>14. CapsKnown' /\ OvershootBounded'
  <2> HIDE DEF old
  <2> QED
    BY <1>7, <1>8, <1>11, <1>12, <1>13, OneStep
<1>15. TypeOK'
  BY <1>1, <1>7, <1>8, <1>9, Types DEF TypeOK, Job
<1> QED
  BY <1>14, <1>15 DEF IInv

\* A request that was counted for goes on, or gives its share up: nothing is
\* inserted.
LEMMA ShareKept ==
    ASSUME IInv, NEW w \in Worker, work[w].step \in {"counted", "refreshed"},
           NEW task, task = Idle \/ task = [work[w] EXCEPT !.step = "refreshed"],
           work' = [work EXCEPT ![w] = task],
           live' = live, cap' = cap, high' = high
    PROVE  work' \in [Worker -> Job] /\ CapsKnown' /\ OvershootBounded'
<1>1. TypeOK
  BY DEF IInv
<1>2. work[w] \in Job /\ live \in Counter /\ live' \in Counter /\ work \in [Worker -> Job]
  BY <1>1, Types
<1>3. /\ task \in Job
      /\ task.step # "started"
      /\ \A any : Share(task, any) \in {0, Share(work[w], any)}
  BY <1>2, IdleJob, RefreshedJob
<1>4. ASSUME NEW any \in Resource
      PROVE  live'[any] + Share(task, any) <= live[any] + Share(work[w], any)
  <2>1. live'[any] = live[any] /\ live[any] \in Nat /\ Share(work[w], any) \in Nat
    BY <1>2, ShareType DEF Counter
  <2> QED
    BY <1>3, <2>1
<1>5. CapsKnown' /\ OvershootBounded'
  BY <1>2, <1>3, <1>4, OneStep
<1> QED
  BY <1>2, <1>3, <1>5

\* The usage row is saved outside a transaction.
LEMMA RefreshKeeps ==
    ASSUME IInv, NEW w \in Worker, Refresh(w)
    PROVE  IInv'
<1> DEFINE task == IF Admitted(w) THEN [work[w] EXCEPT !.step = "refreshed"] ELSE Idle
<1>1. TypeOK
  BY DEF IInv
<1>2. work[w].step \in {"counted", "refreshed"}
  BY DEF Refresh
<1>3. work' = [work EXCEPT ![w] = task] /\ live' = live /\ cap' = cap /\ high' = high
  BY DEF Refresh
<1>4. task = Idle \/ task = [work[w] EXCEPT !.step = "refreshed"]
  OBVIOUS
<1> HIDE DEF task
<1>5. work' \in [Worker -> Job] /\ CapsKnown' /\ OvershootBounded'
  BY <1>2, <1>3, <1>4, ShareKept
<1>6. usage' \in Counter
  BY <1>1, <1>2, Types, CountedRow DEF Refresh
<1>7. fresh' \in BOOLEAN /\ UNCHANGED <<lock, requests>>
  BY Zenon DEF Refresh
<1>8. TypeOK'
  BY <1>1, <1>3, <1>5, <1>6, <1>7, Types DEF TypeOK, Job
<1> QED
  BY <1>5, <1>8 DEF IInv

\* The usage row is locked by a transaction.
LEMMA RefreshInsideKeeps ==
    ASSUME IInv, NEW w \in Worker, RefreshInside(w)
    PROVE  IInv'
<1> DEFINE task == [work[w] EXCEPT !.step = "refreshed"]
<1>1. TypeOK
  BY DEF IInv
<1>2. work[w].step \in {"counted", "refreshed"}
  BY DEF RefreshInside
<1>3. work' = [work EXCEPT ![w] = task] /\ live' = live /\ cap' = cap /\ high' = high
  BY DEF RefreshInside
<1>4. task = Idle \/ task = [work[w] EXCEPT !.step = "refreshed"]
  OBVIOUS
<1> HIDE DEF task
<1>5. work' \in [Worker -> Job] /\ CapsKnown' /\ OvershootBounded'
  BY <1>2, <1>3, <1>4, ShareKept
<1>6. lock' = w /\ UNCHANGED <<usage, fresh, requests>>
  BY Zenon DEF RefreshInside
<1>7. TypeOK'
  BY <1>1, <1>3, <1>5, <1>6, Types DEF TypeOK, Job
<1> QED
  BY <1>5, <1>7 DEF IInv

\* A transaction is refused before it wrote anything.
LEMMA RefuseInsideKeeps ==
    ASSUME IInv, NEW w \in Worker, RefuseInside(w)
    PROVE  IInv'
<1>1. TypeOK
  BY DEF IInv
<1>2. work[w].step \in {"counted", "refreshed"}
  BY DEF RefuseInside
<1>3. work' = [work EXCEPT ![w] = Idle] /\ live' = live /\ cap' = cap /\ high' = high
  BY DEF RefuseInside
<1>4. work' \in [Worker -> Job] /\ CapsKnown' /\ OvershootBounded'
  BY <1>2, <1>3, ShareKept
<1>5. UNCHANGED <<usage, fresh, lock, requests>>
  BY DEF RefuseInside
<1>6. TypeOK'
  BY <1>1, <1>3, <1>4, <1>5, Types DEF TypeOK, Job
<1> QED
  BY <1>4, <1>6 DEF IInv

\* A request that fails after the count inserts nothing.
LEMMA FailKeeps ==
    ASSUME IInv, NEW w \in Worker, Fail(w)
    PROVE  IInv'
<1>1. TypeOK
  BY DEF IInv
<1>2. work[w].step \in {"counted", "refreshed"}
  BY DEF Fail
<1>3. work' = [work EXCEPT ![w] = Idle] /\ live' = live /\ cap' = cap /\ high' = high
  BY DEF Fail
<1>4. work' \in [Worker -> Job] /\ CapsKnown' /\ OvershootBounded'
  BY <1>2, <1>3, ShareKept
<1>5. lock' \in {lock, Nobody} /\ UNCHANGED <<usage, fresh, requests>>
  BY DEF Fail
<1>6. TypeOK'
  BY <1>1, <1>3, <1>4, <1>5, Types DEF TypeOK, Job
<1> QED
  BY <1>4, <1>6 DEF IInv

\* The share of a request becomes rows.
LEMMA InsertKeeps ==
    ASSUME IInv, NEW w \in Worker, Insert(w)
    PROVE  IInv'
<1> DEFINE old == work[w]
<1>1. TypeOK
  BY DEF IInv
<1>2. /\ old \in Job
      /\ old.step \in {"counted", "refreshed"}
      /\ old.res \in Resource
      /\ old.count \in 0 .. MaxBatch
  <2>1. old \in Job /\ old.step \in {"counted", "refreshed"}
    BY <1>1, Types DEF Insert
  <2> QED
    BY <2>1, JobKinds
<1>3. old.count \in Nat /\ live \in Counter
  BY <1>1, <1>2, Types, QuotaAssumption
<1>4. live' = [live EXCEPT ![old.res] = @ + old.count]
  BY DEF Insert
<1>5. work' = [work EXCEPT ![w] = Idle] /\ cap' = cap /\ high' = high /\ requests' = requests
  BY DEF Insert
<1> HIDE DEF old
<1>6. live' \in Counter
  BY <1>2, <1>3, <1>4 DEF Counter
<1>7. ASSUME NEW any \in Resource
      PROVE  live'[any] + Share(Idle, any) <= live[any] + Share(work[w], any)
  <2>1. Share(work[w], any) = IF old.res = any THEN old.count ELSE 0
    BY <1>2 DEF Share, old
  <2>2. live'[any] = IF old.res = any THEN live[any] + old.count ELSE live[any]
    BY <1>2, <1>3, <1>4 DEF Counter
  <2>3. Share(Idle, any) = 0 /\ live[any] \in Nat
    BY <1>3, IdleJob DEF Counter
  <2> QED
    BY <1>3, <2>1, <2>2, <2>3
<1>8. CapsKnown' /\ OvershootBounded'
  BY <1>5, <1>6, <1>7, IdleJob, OneStep
<1>9. work' \in [Worker -> Job]
  BY <1>1, <1>5, IdleJob, Types
<1>10. /\ usage' \in Counter
       /\ fresh' \in BOOLEAN
       /\ lock' \in {lock, Nobody}
  <2>1. CASE old.res \in Atomic
    <3>1. usage' = Counted(w) /\ fresh' = TRUE /\ lock' = Nobody
      BY <2>1, Zenon DEF Insert, old
    <3>2. Counted(w) \in Counter
      BY <1>1, <1>2, Types, CountedRow DEF old
    <3> QED
      BY <3>1, <3>2, Zenon
  <2>2. CASE old.res \notin Atomic
    <3>1. UNCHANGED <<usage, fresh, lock>>
      BY <2>2, Zenon DEF Insert, old
    <3> QED
      BY <1>1, <3>1, Types
  <2> QED
    BY <2>1, <2>2
<1>11. TypeOK'
  BY <1>1, <1>5, <1>6, <1>9, <1>10, Types DEF TypeOK, Job
<1> QED
  BY <1>8, <1>11 DEF IInv

\* The promises are a matter of the table of requests only.
LEMMA PromisesStay ==
    ASSUME TypeOK, work' = work, NEW res
    PROVE  Promised(res)' = Promised(res)
BY PromisedIs, Types

\* Another limit is never below the highest.
LEMMA ChangeLimitKeeps ==
    ASSUME IInv, NEW res \in Resource, NEW limit \in Cap, ChangeLimit(res, limit)
    PROVE  IInv'
<1>1. TypeOK /\ limit \in Nat /\ limit # Unlimited
  BY QuotaAssumption DEF IInv
<1>2. /\ cap \in [Resource -> Cap \cup {Unlimited}] /\ high \in Counter /\ live \in Counter
      /\ work \in [Worker -> Job] /\ Slack \in Int
  BY <1>1, Types
<1>3. /\ cap' = [cap EXCEPT ![res] = limit]
      /\ high' = [high EXCEPT ![res] = IF limit # Unlimited /\ limit > @ THEN limit ELSE @]
      /\ UNCHANGED <<live, usage, lock, work>>
  BY DEF ChangeLimit
<1>4. fresh' \in BOOLEAN
  BY Zenon DEF ChangeLimit
<1>5. requests' \in 0 .. MaxRequests
  BY <1>1, Types, QuotaAssumption DEF ChangeLimit
<1>6. high' \in Counter /\ cap' \in [Resource -> Cap \cup {Unlimited}]
  BY <1>1, <1>2, <1>3 DEF Counter
<1>7. /\ \A any \in Resource : high[any] <= high'[any]
      /\ cap'[res] = limit /\ limit <= high'[res]
      /\ \A any \in Resource \ {res} : cap'[any] = cap[any]
  BY <1>1, <1>2, <1>3 DEF Counter
<1>8. TypeOK'
  BY <1>1, <1>3, <1>4, <1>5, <1>6, Types DEF TypeOK, Job
<1>9. ASSUME NEW w \in Worker, work'[w].step = "started"
      PROVE  work'[w].cap <= high'[work'[w].res]
  <2>1. work[w] \in Job /\ work[w].step = "started"
    BY <1>2, <1>3, <1>9
  <2>2. work[w].res \in Resource /\ work[w].cap \in Nat
    BY <2>1, JobKinds, QuotaAssumption
  <2>3. work[w].cap <= high[work[w].res]
    BY <2>1 DEF IInv, CapsKnown
  <2>4. high[work[w].res] \in Nat /\ high'[work[w].res] \in Nat
    BY <1>2, <1>6, <2>2 DEF Counter
  <2> QED
    BY <1>3, <1>7, <2>2, <2>3, <2>4
<1>10. ASSUME NEW any \in Resource, cap'[any] # Unlimited
       PROVE  cap'[any] <= high'[any]
  <2>1. CASE any = res
    BY <2>1, <1>7
  <2>2. CASE any # res
    <3>1. cap'[any] = cap[any] /\ cap[any] \in Nat /\ cap[any] <= high[any]
      BY <1>2, <1>7, <1>10, <2>2, QuotaAssumption DEF IInv, CapsKnown
    <3>2. high[any] \in Nat /\ high'[any] \in Nat /\ high[any] <= high'[any]
      BY <1>2, <1>6, <1>7 DEF Counter
    <3> QED
      BY <3>1, <3>2
  <2> QED
    BY <2>1, <2>2
<1>11. ASSUME NEW any \in Resource
       PROVE  live'[any] + Cardinality(Promised(any)') <= high'[any] + Slack
  <2>1. Promised(any)' = Promised(any)
    BY <1>1, <1>3, PromisesStay
  <2>2. live[any] + Cardinality(Promised(any)) <= high[any] + Slack
    BY DEF IInv, OvershootBounded, Slack
  <2>3. PICK w \in Worker : TRUE
    BY QuotaAssumption
  <2>4. Cardinality(Promised(any)) \in Nat
    <3>1. Promised(any) = PromisedOf(work, any)
      BY <1>2, PromisedIs
    <3>2. Share(work[w], any) \in Nat
      BY <1>2, ShareType
    <3> QED
      BY <1>2, <3>1, <3>2, Parts
  <2>5. high[any] \in Nat /\ high'[any] \in Nat /\ high[any] <= high'[any] /\ live[any] \in Nat
    BY <1>2, <1>6, <1>7 DEF Counter
  <2> QED
    BY <1>2, <1>3, <2>1, <2>2, <2>4, <2>5
<1>12. CapsKnown'
  BY <1>9, <1>10 DEF CapsKnown
<1>13. OvershootBounded'
  BY <1>11 DEF OvershootBounded, Slack
<1> QED
  BY <1>8, <1>12, <1>13 DEF IInv

\* Counting again touches the usage row only; so does a stutter nothing.
LEMMA RecountKeeps ==
    ASSUME IInv, Recount \/ UNCHANGED vars
    PROVE  IInv'
<1>1. TypeOK
  BY DEF IInv
<1>2. UNCHANGED <<live, cap, lock, work, requests, high>>
  BY DEF Recount, vars
<1>3. usage' \in Counter /\ fresh' \in BOOLEAN
  <2>1. CASE Recount
    <3>1. usage' = live /\ fresh' = TRUE
      BY <2>1, Zenon DEF Recount
    <3> QED
      BY <1>1, <3>1, Types, Zenon
  <2>2. CASE UNCHANGED vars
    <3>1. usage' = usage /\ fresh' = fresh
      BY <2>2, Zenon DEF vars
    <3> QED
      BY <1>1, <3>1, Types, Zenon
  <2> QED
    BY <2>1, <2>2
<1>4. TypeOK'
  BY <1>1, <1>2, <1>3, Types DEF TypeOK, Job
<1>5. CapsKnown'
  BY <1>2 DEF IInv, CapsKnown
<1>6. OvershootBounded'
  BY <1>1, <1>2, PromisesStay DEF IInv, OvershootBounded
<1> QED
  BY <1>4, <1>5, <1>6 DEF IInv

-----------------------------------------------------------------------------
(* The theorem *)

\* Every step of the plan's limits keeps the invariant.
LEMMA StepHolds == IInv /\ [Next]_vars => IInv'
<1> SUFFICES ASSUME IInv, [Next]_vars PROVE IInv'
  OBVIOUS
<1>1. CASE \E w \in Worker, res \in Resource : Start(w, res)
  BY <1>1, StartKeeps
<1>2. CASE \E w \in Worker, count \in 1 .. MaxBatch : Count(w, count)
  BY <1>2, CountKeeps
<1>3. CASE \E w \in Worker : Refresh(w) \/ RefreshInside(w) \/ RefuseInside(w) \/ Insert(w) \/ Fail(w)
  BY <1>3, RefreshKeeps, RefreshInsideKeeps, RefuseInsideKeeps, InsertKeeps, FailKeeps
<1>4. CASE \E res \in Resource, limit \in Cap : ChangeLimit(res, limit)
  BY <1>4, ChangeLimitKeeps
<1>5. CASE Recount \/ UNCHANGED vars
  BY <1>5, RecountKeeps
<1> QED
  BY <1>1, <1>2, <1>3, <1>4, <1>5 DEF Next

\* quota.check counts and the caller inserts afterwards: however requests
\* overlap, and whatever plans the console gives the client meanwhile, the
\* rows of a resource pass the highest limit there was by at most one batch
\* for each request but one.
THEOREM LimitsHold == Spec => []UsageHolds
<1>1. IInv => UsageHolds
  BY DEF IInv, UsageHolds
<1> QED
  BY <1>1, InitHolds, StepHolds, PTL DEF Spec

-----------------------------------------------------------------------------
(* The pressure on the console's lists *)

\* A finite set of numbers has a largest one.
LEMMA Largest ==
    ASSUME NEW S, IsFiniteSet(S), S # {}, S \subseteq Nat
    PROVE  \E x \in S : \A y \in S : x >= y
<1> DEFINE HasMax(T) == \E x \in T : \A y \in T : x >= y
           without == {T \in FiniteSubsetsOf(S) : T # {} /\ ~HasMax(T)}
<1>1. S \in FiniteSubsetsOf(S)
  BY DEF FiniteSubsetsOf
<1>2. ASSUME without # {}
      PROVE  FALSE
  <2>1. without \subseteq FiniteSubsetsOf(S)
    OBVIOUS
  <2> HIDE DEF without
  <2>2. PICK T \in without : \A U \in without : <<U, T>> \notin StrictSubsetOrdering(S)
    BY <1>2, <2>1, FS_StrictSubsetOrderingWellFounded, WFMin
  <2>3. T \in FiniteSubsetsOf(S) /\ T # {} /\ ~HasMax(T)
    BY DEF without
  <2>4. PICK a \in T : TRUE
    BY <2>3
  <2> DEFINE U == T \ {a}
  <2>5. U \in FiniteSubsetsOf(S)
    BY <2>3, FS_Subset DEF FiniteSubsetsOf
  <2>6. <<U, T>> \in StrictSubsetOrdering(S)
    BY <2>3 DEF StrictSubsetOrdering, FiniteSubsetsOf
  <2>7. U = {} \/ HasMax(U)
    BY <2>2, <2>5, <2>6 DEF without
  <2>8. T \subseteq Nat
    BY <2>3 DEF FiniteSubsetsOf
  <2>9. CASE U = {}
    BY <2>3, <2>8, <2>9
  <2>10. CASE HasMax(U)
    <3>1. PICK m \in U : \A y \in U : m >= y
      BY <2>10
    <3>2. (m >= a \/ a >= m) /\ (a >= m => \A y \in U : a >= y) /\ a >= a
      BY <2>8, <3>1
    <3> QED
      BY <2>3, <3>1, <3>2
  <2> QED
    BY <2>7, <2>9, <2>10
<1>3. HasMax(S)
  BY <1>1, <1>2
<1> QED
  BY <1>3

LEMMA MaxIs ==
    ASSUME NEW S, IsFiniteSet(S), NEW x \in S, S \subseteq Nat
    PROVE  Max(S) \in S /\ Max(S) >= x
<1>1. \E m \in S : \A y \in S : m >= y
  BY Largest
<1> QED
  BY <1>1 DEF Max

LEMMA PercentIs ==
    ASSUME NEW used \in Nat, NEW limit \in Nat \ {0}
    PROVE  Percent(used, limit) \in Nat /\ (used >= limit => Percent(used, limit) >= 100)
<1> DEFINE q == (used * 100) \div limit
<1>1. used * 100 \in Nat
  OBVIOUS
<1>2. q \in Nat /\ used * 100 < limit * (q + 1)
  BY <1>1
<1>3. ASSUME used >= limit, q < 100
      PROVE  FALSE
  <2>1. q + 1 <= 100
    BY <1>2, <1>3
  <2>2. limit * (q + 1) <= limit * 100
    BY <1>2, <2>1
  <2>3. limit * 100 <= used * 100
    BY <1>3
  <2> QED
    BY <1>2, <2>2, <2>3
<1> QED
  BY <1>2, <1>3 DEF Percent

\* Whoever cannot add a row sees it coming: the console's pressure is at least
\* 100 when a counted limit is reached.
LEMMA Pressure ==
    ASSUME TypeOK, NEW res \in Resource, cap[res] \notin {0, Unlimited}
    PROVE  QuotaPressure \in Nat /\ QuotaPressure >= Percent(usage[res], cap[res])
<1> DEFINE limited == {r \in Resource : cap[r] \notin {0, Unlimited}}
           shown == {Percent(usage[r], cap[r]) : r \in limited}
           f == [r \in limited |-> Percent(usage[r], cap[r])]
<1>1. \A r \in limited : usage[r] \in Nat /\ cap[r] \in Nat \ {0}
  BY QuotaAssumption DEF TypeOK, Counter
<1>2. shown \subseteq Nat
  BY <1>1, PercentIs
<1>3. IsFiniteSet(limited)
  BY QuotaAssumption, FS_Subset
<1>4. f \in Surjection(limited, shown)
  BY DEF Surjection
<1>5. IsFiniteSet(shown)
  <2> HIDE DEF f, shown, limited
  <2> QED
    BY <1>3, <1>4, FS_Surjection
<1>6. Percent(usage[res], cap[res]) \in shown /\ QuotaPressure = Max(shown \cup {0})
  <2>1. {0} \cup shown = shown \cup {0}
    OBVIOUS
  <2> QED
    BY <2>1 DEF QuotaPressure
<1> HIDE DEF shown
<1>7. IsFiniteSet(shown \cup {0})
  BY <1>5, FS_AddElement
<1> DEFINE all == shown \cup {0}
           percent == Percent(usage[res], cap[res])
<1>8. all \subseteq Nat /\ IsFiniteSet(all) /\ percent \in all
  BY <1>2, <1>6, <1>7
<1> HIDE DEF all, percent
<1>9. Max(all) \in all /\ Max(all) >= percent
  BY <1>8, MaxIs
<1> QED
  BY <1>6, <1>8, <1>9 DEF all, percent

\* Whatever the plan and the rows: a client that is refused its next row is on
\* the console's lists of full clients, when its usage row is right.
THEOREM PressureShown == Spec => []FullIsShown
<1>1. TypeOK => FullIsShown
  <2> SUFFICES ASSUME TypeOK, NEW res \in Resource, cap[res] \notin {0, Unlimited},
                      usage[res] = live[res], live[res] + 1 > cap[res]
               PROVE  QuotaPressure >= 100
    BY DEF FullIsShown
  <2>1. usage[res] \in Nat /\ cap[res] \in Nat \ {0}
    BY QuotaAssumption DEF TypeOK, Counter
  <2>2. usage[res] >= cap[res]
    BY <2>1
  <2>3. Percent(usage[res], cap[res]) \in Nat /\ Percent(usage[res], cap[res]) >= 100
    BY <2>1, <2>2, PercentIs
  <2>4. QuotaPressure \in Nat /\ QuotaPressure >= Percent(usage[res], cap[res])
    BY Pressure
  <2> QED
    BY <2>3, <2>4
<1>2. UsageHolds => TypeOK
  BY DEF UsageHolds
<1> QED
  BY <1>1, <1>2, LimitsHold, PTL

-----------------------------------------------------------------------------
(* The platform *)

\* Whatever the scene, each component does its own steps or rests.
LEMMA Components == PlatformSpec => Sub!Spec /\ Feat!Spec /\ Spec /\ Pol!Spec
<1>1. PlatformInit => Sub!Init /\ Feat!Init /\ Init /\ Pol!Init
  BY DEF PlatformInit
<1>2. [PlatformNext]_allVars => [Sub!Next]_(Sub!vars)
  BY DEF PlatformNext, allVars, subVars, Sub!vars
<1>3. [PlatformNext]_allVars => [Feat!Next]_(Feat!vars)
  BY DEF PlatformNext, allVars, featVars, Feat!vars, Feat!history
<1>4. [PlatformNext]_allVars => [Next]_vars
  BY DEF PlatformNext, allVars
<1>5. [PlatformNext]_allVars => [Pol!Next]_(Pol!vars)
  BY DEF PlatformNext, allVars, polVars, Pol!vars
<1> QED
  BY <1>1, <1>2, <1>3, <1>4, <1>5, PTL DEF PlatformSpec, Sub!Spec, Feat!Spec, Spec, Pol!Spec

\* The platform's clients, answers and hosts (Subscriptions, Features and
\* RatePolicy), with any number of each.
THEOREM PlatformClients == PlatformSpec => []ClientsHold
<1>1. Sub!ClientsHold => ClientsHold
  BY DEF ClientsHold
<1> QED
  BY <1>1, PlatformAssumption, Components, Clients, PTL

THEOREM PlatformAnswers == PlatformSpec => []AnswersHold
<1>1. Feat!AnswersHold => AnswersHold
  BY DEF AnswersHold
<1> QED
  BY <1>1, PlatformAssumption, Components, Answers, PTL

THEOREM PlatformHosts == PlatformSpec => []HostsHold
<1>1. Pol!HostsHold => HostsHold
  BY DEF HostsHold
<1> QED
  BY <1>1, PlatformAssumption, Components, Hosts, PTL

\* What the screens show before it happens: the lists of clients about to
\* lapse, the losses of a change of plan, a resource that is full.
THEOREM PlatformForesees == PlatformSpec => []ScreensForesee
<1>1. Sub!LapseIsForeseen /\ Feat!EveryLossIsWarned /\ FullIsShown => ScreensForesee
  BY DEF ScreensForesee
<1> QED
  BY <1>1, PlatformAssumption, Components, Foreseen, Warnings, PressureShown, PTL

\* No command and no form undoes an operator's suspension or block.
THEOREM PlatformDecisions == PlatformSpec => DecisionsAreKept
<1> QED
  BY PlatformAssumption, Components, Decisions, Blocks, PTL DEF DecisionsAreKept
=============================================================================
