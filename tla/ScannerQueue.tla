---------------------------- MODULE ScannerQueue ----------------------------
(***************************************************************************)
(* The offline queue of the scanner page (templates/attendance/            *)
(* scanner.html and static/js/http.js): one browser tab, one server.       *)
(*                                                                         *)
(* A scan is posted with a key of its own.  When fetch fails the page puts *)
(* it in a queue kept in localStorage, and the browser's "online" event    *)
(* posts the queue again.  JavaScript runs to the next await without       *)
(* interruption, so a step here is the code between two awaits.            *)
(***************************************************************************)
EXTENDS Naturals, Sequences, SequencesExt

CONSTANTS
    Scan,               \* scans the operator makes, each with its key
    Drain,              \* runs of drainQueue that may overlap
    Conditions,         \* the conditions a day may have
    MaxOutages,         \* bound: how often the network goes away
    Nothing             \* no scan

ASSUME ScannerAssumption ==
    /\ Conditions \subseteq
          [limit : Nat \ {0},       \* scans per second the server takes from one device
           faults : SUBSET {"broken", "unanswered", "unreachable"},
           reloads : BOOLEAN]       \* the page may be reloaded
    /\ MaxOutages \in Nat
    /\ Nothing \notin Scan

VARIABLES
    day,        \* the conditions of this day
    online,     \* the browser has a network
    queue,      \* localStorage[QUEUE_KEY]
    current,    \* the scan submitScan is waiting for (busy)
    drains,     \* for each run of drainQueue, what it has left to do
    submitted,  \* scans the operator made
    settled,    \* scans the server decided on, and logged
    hits,       \* the device's requests in this second
    outages,    \* how often the network went away
    told,       \* history: scans whose answer the operator was shown
    swallowed,  \* history: scans whose answer only a drain saw
    late        \* history: scans queued while a drain was running

history == <<told, swallowed, late>>

vars == <<day, online, queue, current, drains, submitted, settled, hits, outages, history>>

\* drainQueue's items from the one being posted on, and its remaining.
Running == [items : Seq(Scan), remaining : Seq(Scan)]

NotRunning == [items |-> <<>>, remaining |-> <<>>]

Busy(d) == drains[d].items # <<>>

Init ==
    /\ day \in Conditions
    /\ online = TRUE
    /\ queue = <<>>
    /\ current = Nothing
    /\ drains = [d \in Drain |-> NotRunning]
    /\ submitted = {}
    /\ settled = {}
    /\ hits = 0
    /\ outages = 0
    /\ told = {} /\ swallowed = {} /\ late = {}

-----------------------------------------------------------------------------
(* http.post: how a posted scan ends *)

\* The server answers for good, or refuses for the device's rate.
Decided(s) ==
    /\ online
    /\ hits < day.limit
    /\ hits' = hits + 1
    /\ settled' = settled \cup {s}

Limited == online /\ hits >= day.limit /\ UNCHANGED <<hits, settled>>

\* A 5xx page becomes the code ERR_HTTP_5xx.
Broken == online /\ "broken" \in day.faults /\ UNCHANGED <<hits, settled>>

\* fetch throws, and the error has no code: no network, no way to the
\* server, or the answer of a request that arrived is lost.
Unreachable == (~online \/ "unreachable" \in day.faults) /\ UNCHANGED <<hits, settled>>

Unanswered(s) == "unanswered" \in day.faults /\ Decided(s)

EndsWithCode(s) == Decided(s) \/ Limited \/ Broken

EndsWithoutCode(s) == Unreachable \/ Unanswered(s)

-----------------------------------------------------------------------------
(* submitScan *)

SubmitScan(s) ==
    /\ current = Nothing
    /\ s \notin submitted
    /\ current' = s
    /\ submitted' = submitted \cup {s}
    /\ UNCHANGED <<day, online, queue, drains, settled, hits, outages, history>>

ShowAnswer ==
    /\ current # Nothing
    /\ EndsWithCode(current)
    /\ told' = told \cup {current}
    /\ current' = Nothing
    /\ UNCHANGED <<day, online, queue, drains, submitted, outages, swallowed, late>>

\* The catch branch: queued(), push and setQueue without an await.
Enqueue ==
    /\ current # Nothing
    /\ EndsWithoutCode(current)
    /\ queue' = Append(queue, current)
    /\ current' = Nothing
    /\ late' = IF \E d \in Drain : Busy(d) THEN late \cup {current} ELSE late
    /\ UNCHANGED <<day, online, drains, submitted, outages, told, swallowed>>

-----------------------------------------------------------------------------
(* drainQueue *)

\* Mutant: the queue is emptied when its items were taken.
TakeQueue(d) ==
    /\ queue' = <<>>
    /\ drains' = [drains EXCEPT ![d] = [items |-> queue, remaining |-> <<>>]]

\* const items = queued(): the queue stays until the drain is through.
StartDrain(d) ==
    /\ drains' = [drains EXCEPT ![d] = [items |-> queue, remaining |-> <<>>]]
    /\ UNCHANGED queue

\* The post of the first item ends; the next one is posted, or the drain
\* stores what remains.
DrainItem(d) ==
    LET s == Head(drains[d].items)
        items == Tail(drains[d].items)
        Go(remaining) ==
            IF items # <<>>
            THEN /\ drains' = [drains EXCEPT ![d] = [items |-> items, remaining |-> remaining]]
                 /\ UNCHANGED queue
            ELSE /\ drains' = [drains EXCEPT ![d] = NotRunning]
                 /\ queue' = remaining
    IN  /\ Busy(d)
        /\ \/ EndsWithCode(s) /\ Go(drains[d].remaining) /\ swallowed' = swallowed \cup {s}
           \/ EndsWithoutCode(s) /\ Go(Append(drains[d].remaining, s)) /\ UNCHANGED swallowed
        /\ UNCHANGED <<day, online, current, submitted, outages, told, late>>

-----------------------------------------------------------------------------
(* The browser, the network and the clock *)

Disconnect ==
    /\ online
    /\ outages < MaxOutages
    /\ online' = FALSE
    /\ outages' = outages + 1
    /\ UNCHANGED <<day, queue, current, drains, submitted, settled, hits, history>>

\* Mutant: the network is back and nobody listens.
ReconnectUnheard ==
    /\ ~online
    /\ online' = TRUE
    /\ UNCHANGED <<day, queue, current, drains, submitted, settled, hits, outages, history>>

\* The "online" event calls drainQueue.
Reconnect ==
    /\ ~online
    /\ online' = TRUE
    /\ IF queue = <<>>
       THEN UNCHANGED <<queue, drains>>
       ELSE \E d \in Drain : ~Busy(d) /\ StartDrain(d)
    /\ UNCHANGED <<day, current, submitted, settled, hits, outages, history>>

\* The page is loaded again, between two scans: setQueue(queued()) only
\* redraws the queue, and drains that were running are gone.
Reload ==
    /\ day.reloads
    /\ current = Nothing
    /\ drains' = [d \in Drain |-> NotRunning]
    /\ UNCHANGED <<day, online, queue, current, submitted, settled, hits, outages, history>>

NextSecond ==
    /\ hits' = 0
    /\ UNCHANGED <<day, online, queue, current, drains, submitted, settled, outages, history>>

Page == ShowAnswer \/ Enqueue

Next ==
    \/ \E s \in Scan : SubmitScan(s)
    \/ Page
    \/ \E d \in Drain : DrainItem(d)
    \/ Disconnect
    \/ Reconnect
    \/ Reload
    \/ NextSecond

Spec == Init /\ [][Next]_vars

\* A post ends, with an answer or an error; the network comes back.
Fairness ==
    /\ WF_vars(Page)
    /\ \A d \in Drain : WF_vars(DrainItem(d))
    /\ WF_vars(Reconnect)

FairSpec == Spec /\ Fairness

-----------------------------------------------------------------------------
(* Properties *)

\* The page's variables and its storage hold what their types say.
TypeOK ==
    /\ online \in BOOLEAN
    /\ queue \in Seq(Scan)
    /\ current \in Scan \cup {Nothing}
    /\ drains \in [Drain -> Running]
    /\ hits \in 0 .. day.limit
    /\ outages \in 0 .. MaxOutages
    /\ \A known \in {submitted, settled, told, swallowed, late} : known \subseteq Scan

\* A scan the operator made is being posted, or is in the queue, or was
\* decided by the server or answered to somebody.
Kept(s) == s = current \/ s \in ToSet(queue) \/ s \in settled \/ s \in told

\* No outage, lost answer, overlap of drains or reload in the middle of one
\* loses a scan, but for two kinds: those queued while a drain was running,
\* and those whose answer only a drain saw (drainQueue, setQueue).
OnlyTwoKindsLost == \A s \in submitted : Kept(s) \/ s \in late \/ s \in swallowed

\* The queue loses no scan: it is "drained with the original
\* idempotency_keys when connectivity returns" (docs/05-api-and-ui.md:276).
NoScanOverwritten == \A s \in submitted : Kept(s) \/ s \in swallowed

\* On a day with outages only, a scan queued while no drain was running
\* reaches the server, if the network comes back whenever it went away.
QueueIsDelivered ==
    \A s \in Scan : day.faults = {} /\ s \in ToSet(queue) \ late ~> s \in settled

\* The queue is well formed, and a scan is missing only if it was queued
\* during a drain or its answer was swallowed by one.
QueueHolds == TypeOK /\ OnlyTwoKindsLost
=============================================================================
