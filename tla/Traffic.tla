------------------------------- MODULE Traffic -------------------------------
(***************************************************************************)
(* Metering and limiting of the centers' requests (apps/tenancy/traffic.py *)
(* and its middleware), and what the console shows of it.                  *)
(*                                                                         *)
(* A request spends its windows one cache operation after the other, is    *)
(* answered, and is counted in a buffer of its process.  Whoever finds     *)
(* that the second has changed takes the buffer away under the lock and    *)
(* writes it to the cache after that, key by key.  Time is counted in      *)
(* seconds; a minute and an hour have a few.                               *)
(***************************************************************************)
EXTENDS Integers, Sequences, FiniteSets, FiniteSetsExt

CONSTANTS
    Tenant,
    Process,        \* gunicorn workers, each with a buffer of its own
    Thread,         \* threads of the workers
    ProcessOf,      \* the worker of each thread
    Policies,       \* limits and blocks that operators set
    Minute, Hour,   \* their lengths in seconds
    Period,         \* minutes of the totals
    History,        \* minutes of the chart
    MaxNow,         \* bound: seconds the model runs for
    MaxRequests,    \* bound: requests ever received
    MaxCrashes,     \* bound: workers that die
    Unlimited       \* a window without a limit

Windows == <<"rps", "rpm", "rph">>

TrafficAssumption ==
    /\ IsFiniteSet(Tenant) /\ IsFiniteSet(Process) /\ IsFiniteSet(Thread)
    /\ ProcessOf \in [Thread -> Process]
    /\ 1 < Minute /\ Minute < Hour /\ Hour % Minute = 0
    /\ {Minute, Hour, Period, History} \subseteq Nat \ {0} /\ Period <= History
    /\ {MaxNow, MaxRequests, MaxCrashes} \subseteq Nat
    /\ \A policy \in Policies :
          /\ policy.blocked \in BOOLEAN /\ policy.burst \in Nat
          /\ policy.limit \in [{"rps", "rpm", "rph"} -> (Nat \ {0}) \cup {Unlimited}]
          /\ policy.burst > 0 => policy.limit["rps"] # Unlimited

VARIABLES
    now,        \* the clock
    policy,     \* the policy of each client, as its requests find it
    budget,     \* the counters of the gate: tenant, window, bucket
    threads,    \* what each thread is doing
    buffers,    \* the buffer of each process
    keys,       \* the counters of the metering: tenant, kind, bucket
    requests,   \* how many requests were received
    crashes,    \* how many workers died
    passed,     \* history: requests that passed a window, by bucket
    lapsed,     \* history: buckets spent from after their counter expired
    recorded,   \* history: requests recorded, by client
    lost        \* history: of these, the ones that died with a worker

history == <<passed, lapsed, recorded, lost>>

vars == <<now, policy, budget, threads, buffers, keys, requests, crashes, history>>

-----------------------------------------------------------------------------
(* The policy *)

Seconds(window) == CASE window = "rps" -> 1 [] window = "rpm" -> Minute [] window = "rph" -> Hour

\* limit_for: the burst is for the second only.
Ceiling(t, window) ==
    policy[t].limit[window] + (IF window = "rps" THEN policy[t].burst ELSE 0)

Limited(t) == {i \in 1 .. Len(Windows) : policy[t].limit[Windows[i]] # Unlimited}

Window == {"rps", "rpm", "rph"}

Key == Tenant \X Window \X (0 .. MaxNow)

Expired == [count |-> 0, until |-> 0]

Slot == [n : Nat, c4 : Nat, c5 : Nat, tt : Nat]

NoSlot == [n |-> 0, c4 |-> 0, c5 |-> 0, tt |-> 0]

NoSlots == [t \in Tenant |-> NoSlot]

Kind == {"s", "n", "c4", "c5", "tt", "hn", "hc5"}

Idle == [step |-> "idle"]

Init ==
    /\ now = 0
    /\ policy \in [Tenant -> Policies]
    /\ budget = [key \in Key |-> Expired]
    /\ threads = [th \in Thread |-> Idle]
    /\ buffers = [p \in Process |-> [second |-> 0, slots |-> NoSlots]]
    /\ keys = [t \in Tenant |-> [kind \in Kind |-> [bucket \in 0 .. MaxNow |-> 0]]]
    /\ requests = 0
    /\ crashes = 0
    /\ passed = [key \in Key |-> 0]
    /\ lapsed = {}
    /\ recorded = [t \in Tenant |-> 0]
    /\ lost = [t \in Tenant |-> 0]

-----------------------------------------------------------------------------
(* TenantTrafficMiddleware and gate *)

\* The walk goes on at the next window that has a limit, or to the view.
Walk(t, at, after) ==
    LET rest == {i \in Limited(t) : i > after}
    IN  IF rest = {} THEN [step |-> "view", tenant |-> t]
        ELSE [step |-> "add", tenant |-> t, at |-> at, i |-> Min(rest)]

Arrive(th, t) ==
    /\ threads[th] = Idle
    /\ requests < MaxRequests
    /\ requests' = requests + 1
    /\ threads' = [threads EXCEPT ![th] =
           IF policy[t].blocked THEN [step |-> "record", tenant |-> t, status |-> "refused"]
           ELSE Walk(t, now, 0)]
    /\ UNCHANGED <<now, policy, budget, buffers, keys, crashes, history>>

CounterOf(th) ==
    LET window == Windows[threads[th].i]
    IN  <<threads[th].tenant, window, threads[th].at \div Seconds(window)>>

Fresh(key) == [count |-> 1, until |-> now + Seconds(key[2]) + 1]

\* What the request does with the count it got.
Judge(th, count) ==
    LET key == CounterOf(th)
        t == key[1]
    IN  IF count > Ceiling(t, key[2])
          THEN /\ threads' = [threads EXCEPT ![th] = [step |-> "record", tenant |-> t, status |-> "refused"]]
               /\ UNCHANGED passed
          ELSE /\ threads' = [threads EXCEPT ![th] = Walk(t, threads[th].at, threads[th].i)]
               /\ passed' = [passed EXCEPT ![key] = @ + 1]

\* cache.add
Add(th) ==
    LET key == CounterOf(th)
    IN  /\ threads[th].step = "add"
        /\ IF budget[key].until > now
             THEN /\ threads' = [threads EXCEPT ![th] =
                         [step |-> "incr", tenant |-> key[1], at |-> threads[th].at,
                          i |-> threads[th].i, seen |-> budget[key].count]]
                  /\ UNCHANGED <<budget, passed, lapsed>>
             ELSE /\ Judge(th, 1)
                  /\ budget' = [budget EXCEPT ![key] = Fresh(key)]
                  /\ lapsed' = IF budget[key] # Expired THEN lapsed \cup {key} ELSE lapsed
        /\ UNCHANGED <<now, policy, buffers, keys, requests, crashes, recorded, lost>>

\* cache.incr; a counter that expired since then is set anew.
Incr(th) ==
    LET key == CounterOf(th)
    IN  /\ threads[th].step = "incr"
        /\ IF budget[key].until > now
             THEN /\ Judge(th, budget[key].count + 1)
                  /\ budget' = [budget EXCEPT ![key].count = @ + 1]
                  /\ UNCHANGED lapsed
             ELSE /\ Judge(th, 1)
                  /\ budget' = [budget EXCEPT ![key] = Fresh(key)]
                  /\ lapsed' = lapsed \cup {key}
        /\ UNCHANGED <<now, policy, buffers, keys, requests, crashes, recorded, lost>>

\* The view answers, or raises: that is recorded as a 500.  The 4xx are here
\* those of the gate.
View(th, status) ==
    /\ threads[th].step = "view"
    /\ threads' = [threads EXCEPT ![th] =
           [step |-> "record", tenant |-> threads[th].tenant, status |-> status]]
    /\ UNCHANGED <<now, policy, budget, buffers, keys, requests, crashes, history>>

-----------------------------------------------------------------------------
(* record, flush, _write *)

\* A refusal is a 429.
Counted(slot, status) ==
    [n |-> slot.n + 1,
     c4 |-> slot.c4 + (IF status \in {"c4", "refused"} THEN 1 ELSE 0),
     c5 |-> slot.c5 + (IF status = "c5" THEN 1 ELSE 0),
     tt |-> slot.tt + (IF status = "refused" THEN 1 ELSE 0)]

Some(amount, kinds) == IF amount > 0 THEN <<kinds>> ELSE <<>>

\* The keys of one client in the order they are written; keys that no page
\* compares are written together.
KeysOf(slot) ==
    <<{"s", "n"}>> \o Some(slot.c4, {"c4"}) \o Some(slot.c5, {"c5"}) \o Some(slot.tt, {"tt"})
        \o <<{"hn", "hc5"}>>

Writing(buffer) ==
    [step |-> "write", second |-> buffer.second, slots |-> buffer.slots,
     todo |-> [t \in Tenant |-> IF buffer.slots[t].n > 0 THEN KeysOf(buffer.slots[t]) ELSE <<>>]]

\* Mutant: the buffer is written and kept.
SwappedKeeping(buffer) == [second |-> now, slots |-> buffer.slots]

Swapped(buffer) == [second |-> now, slots |-> NoSlots]

\* Under the lock: take away the buffer of an earlier second, and count.
Record(th) ==
    LET p == ProcessOf[th]
        t == threads[th].tenant
        turns == buffers[p].second # now
        mine == IF turns THEN Swapped(buffers[p]) ELSE buffers[p]
    IN  /\ threads[th].step = "record"
        /\ buffers' = [buffers EXCEPT ![p] =
               [mine EXCEPT !.slots[t] = Counted(@, threads[th].status)]]
        /\ threads' = [threads EXCEPT ![th] =
               IF turns /\ buffers[p].slots # NoSlots THEN Writing(buffers[p]) ELSE Idle]
        /\ recorded' = [recorded EXCEPT ![t] = @ + 1]
        /\ UNCHANGED <<now, policy, budget, keys, requests, crashes, passed, lapsed, lost>>

\* flush, for a page of the console; it leaves the second as it is.
Flush(th) ==
    LET p == ProcessOf[th]
    IN  /\ threads[th] = Idle
        /\ buffers[p].slots # NoSlots
        /\ threads' = [threads EXCEPT ![th] = Writing(buffers[p])]
        /\ buffers' = [buffers EXCEPT ![p].slots = NoSlots]
        /\ UNCHANGED <<now, policy, budget, keys, requests, crashes, history>>

Bucket(kind, second) ==
    CASE kind = "s" -> second
      [] kind \in {"n", "c4", "c5", "tt"} -> second \div Minute
      [] kind \in {"hn", "hc5"} -> second \div Hour

Amount(slot, kind) ==
    CASE kind \in {"s", "n", "hn"} -> slot.n
      [] kind = "c4" -> slot.c4
      [] kind \in {"c5", "hc5"} -> slot.c5
      [] kind = "tt" -> slot.tt

\* _incr_by.  The keys outlive every page that reads them.
WriteKey(th, t) ==
    LET w == threads[th]
        kinds == Head(w.todo[t])
        left == [w.todo EXCEPT ![t] = Tail(@)]
    IN  /\ w.step = "write"
        /\ w.todo[t] # <<>>
        /\ keys' = [keys EXCEPT ![t] = [kind \in Kind |->
               IF kind \in kinds
                 THEN [keys[t][kind] EXCEPT ![Bucket(kind, w.second)] = @ + Amount(w.slots[t], kind)]
                 ELSE keys[t][kind]]]
        /\ threads' = [threads EXCEPT ![th] =
               IF \A u \in Tenant : left[u] = <<>> THEN Idle ELSE [w EXCEPT !.todo = left]]
        /\ UNCHANGED <<now, policy, budget, buffers, requests, crashes, history>>

\* The requests of a client that are in a thread's hands and not in its n.
Unwritten(th, t) ==
    IF threads[th].step = "write" /\ (\E i \in DOMAIN threads[th].todo[t] : "n" \in threads[th].todo[t][i])
      THEN threads[th].slots[t].n ELSE 0

ThreadsOf(p) == {th \in Thread : ProcessOf[th] = p}

InMemory(p, t) ==
    buffers[p].slots[t].n + MapThenSumSet(LAMBDA th : Unwritten(th, t), ThreadsOf(p))

\* A worker dies with its buffer.
Crash(p) ==
    /\ crashes < MaxCrashes
    /\ crashes' = crashes + 1
    /\ threads' = [th \in Thread |-> IF ProcessOf[th] = p THEN Idle ELSE threads[th]]
    /\ buffers' = [buffers EXCEPT ![p] = [second |-> 0, slots |-> NoSlots]]
    /\ lost' = [t \in Tenant |-> lost[t] + InMemory(p, t)]
    /\ UNCHANGED <<now, policy, budget, keys, requests, passed, lapsed, recorded>>

Tick ==
    /\ now < MaxNow
    /\ now' = now + 1
    /\ UNCHANGED <<policy, budget, threads, buffers, keys, requests, crashes, history>>

-----------------------------------------------------------------------------
(* snapshot, and the console's page *)

Value(t, kind, bucket) == IF bucket < 0 THEN 0 ELSE keys[t][kind][bucket]

Natural(n) == IF n < 0 THEN 0 ELSE n

\* One minute of the shape.
Point(t, minute) ==
    [total |-> Value(t, "n", minute), c4 |-> Value(t, "c4", minute), c5 |-> Value(t, "c5", minute)]

Over(t, kind, minutes) ==
    MapThenSumSet(LAMBDA offset : Value(t, kind, now \div Minute - offset), 0 .. minutes - 1)

Snapshot(t) ==
    LET total == Over(t, "n", Period)
        c4 == Over(t, "c4", Period)
        c5 == Over(t, "c5", Period)
    IN  [period_total |-> total, errors_4xx |-> c4, errors_5xx |-> c5,
         throttled |-> Over(t, "tt", Period),
         ok |-> Natural(total - c4 - c5)]

\* _timeline: the chart under the table, one point a minute.
Timeline(visible) ==
    [minute \in (now \div Minute - History + 1) .. (now \div Minute) |->
        [ok |-> MapThenSumSet(LAMBDA t : LET point == Point(t, minute)
                                        IN  Natural(point.total - point.c4 - point.c5), visible),
         errors |-> MapThenSumSet(LAMBDA t : LET point == Point(t, minute)
                                            IN  point.c4 + point.c5, visible)]]

\* traffic_overview, of the clients that its filters leave; the flush that
\* precedes it is a Flush.
Overview(visible) ==
    [requests |-> MapThenSumSet(LAMBDA t : Snapshot(t).period_total, visible),
     errors |-> MapThenSumSet(LAMBDA t : Snapshot(t).errors_4xx + Snapshot(t).errors_5xx, visible),
     throttled |-> MapThenSumSet(LAMBDA t : Snapshot(t).throttled, visible),
     timeline |-> Timeline(visible)]

-----------------------------------------------------------------------------

Next ==
    \/ \E th \in Thread, t \in Tenant : Arrive(th, t) \/ WriteKey(th, t)
    \/ \E th \in Thread : Add(th) \/ Incr(th) \/ Record(th) \/ Flush(th)
    \/ \E th \in Thread, status \in {"ok", "c5"} : View(th, status)
    \/ \E p \in Process : Crash(p)
    \/ Tick

Spec == Init /\ [][Next]_vars

-----------------------------------------------------------------------------
(* Properties *)

TypeOK ==
    /\ now \in 0 .. MaxNow
    /\ policy \in [Tenant -> Policies]
    /\ \A key \in Key : budget[key].count \in 0 .. MaxRequests
    /\ \A p \in Process : buffers[p].second \in 0 .. now /\ buffers[p].slots \in [Tenant -> Slot]
    /\ requests \in 0 .. MaxRequests /\ crashes \in 0 .. MaxCrashes
    /\ lapsed \subseteq Key

\* No more requests pass a window than its ceiling, unless one was so slow
\* that the counter of its bucket had expired when it came to it.
BudgetKept ==
    \A key \in Key \ lapsed :
        passed[key] > 0 => passed[key] <= policy[key[1]].limit[key[2]]
                             + (IF key[2] = "rps" THEN policy[key[1]].burst ELSE 0)

\* Every request is counted once: it is in the minute counters, in a buffer,
\* in the hands of a thread that writes, or it died with a worker.
CountedOnce ==
    \A t \in Tenant :
        recorded[t] = lost[t]
            + MapThenSumSet(LAMBDA minute : keys[t]["n"][minute], 0 .. MaxNow)
            + MapThenSumSet(LAMBDA p : InMemory(p, t), Process)

\* Whenever somebody looks, the chart adds up to the totals of the table for
\* every choice of clients, and no page sees errors without their requests
\* or refusals without their 4xx.
ChartMatchesTable ==
    \A visible \in SUBSET Tenant :
        LET minutes == (now \div Minute - Period + 1) .. (now \div Minute)
            page == Overview(visible)
            of(minute) == page.timeline[minute]
        IN  /\ MapThenSumSet(LAMBDA minute : of(minute).ok + of(minute).errors, minutes) = page.requests
            /\ page.throttled <= page.errors /\ page.errors <= page.requests

TrafficHolds == TypeOK /\ BudgetKept /\ CountedOnce /\ ChartMatchesTable
=============================================================================
