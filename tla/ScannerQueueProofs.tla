------------------------- MODULE ScannerQueueProofs -------------------------
(***************************************************************************)
(* Theorems about ScannerQueue, for any number of scans, overlapping       *)
(* drains, outages and kinds of days.                                      *)
(***************************************************************************)
EXTENDS ScannerQueue, SequenceTheorems, TLAPS

-----------------------------------------------------------------------------
(* Queues as sets of scans *)

LEMMA QueueSets ==
    /\ ToSet(<<>>) = {}
    /\ \A q \in Seq(Scan) : ToSet(q) \subseteq Scan
    /\ \A q \in Seq(Scan), s \in Scan :
          Append(q, s) \in Seq(Scan) /\ ToSet(Append(q, s)) = ToSet(q) \cup {s}
    /\ \A q \in Seq(Scan) : q # <<>> =>
          /\ Head(q) \in Scan
          /\ Tail(q) \in Seq(Scan)
          /\ ToSet(q) = {Head(q)} \cup ToSet(Tail(q))
<1>1. ToSet(<<>>) = {}
  BY DEF ToSet
<1>2. \A q \in Seq(Scan) : ToSet(q) \subseteq Scan
  BY ElementOfSeq, LenProperties DEF ToSet
<1>3. ASSUME NEW q \in Seq(Scan), NEW s \in Scan
      PROVE  Append(q, s) \in Seq(Scan) /\ ToSet(Append(q, s)) = ToSet(q) \cup {s}
  <2> DEFINE r == Append(q, s)
  <2>1. /\ r \in Seq(Scan)
        /\ Len(r) = Len(q) + 1 /\ Len(q) \in Nat
        /\ DOMAIN r = 1 .. Len(r) /\ DOMAIN q = 1 .. Len(q)
        /\ \A i \in 1 .. Len(q) : r[i] = q[i]
        /\ r[Len(q) + 1] = s
    BY AppendProperties, LenProperties
  <2> HIDE DEF r
  <2>2. ASSUME NEW x \in ToSet(r)
        PROVE  x \in ToSet(q) \cup {s}
    BY <2>1, <2>2 DEF ToSet
  <2>3. ASSUME NEW x \in ToSet(q) \cup {s}
        PROVE  x \in ToSet(r)
    BY <2>1, <2>3 DEF ToSet
  <2>4. ToSet(r) = ToSet(q) \cup {s}
    BY <2>2, <2>3
  <2> QED
    BY <2>1, <2>4 DEF r
<1>4. ASSUME NEW q \in Seq(Scan), q # <<>>
      PROVE  /\ Head(q) \in Scan
             /\ Tail(q) \in Seq(Scan)
             /\ ToSet(q) = {Head(q)} \cup ToSet(Tail(q))
  <2> DEFINE r == Tail(q)
  <2>1. /\ Head(q) \in Scan /\ Head(q) = q[1]
        /\ r \in Seq(Scan)
        /\ Len(q) \in Nat /\ Len(q) >= 1 /\ Len(r) = Len(q) - 1
        /\ DOMAIN r = 1 .. Len(r) /\ DOMAIN q = 1 .. Len(q)
        /\ \A i \in 1 .. Len(r) : r[i] = q[i + 1]
    BY <1>4, HeadTailProperties, LenProperties, EmptySeq
  <2> HIDE DEF r
  <2>2. ASSUME NEW x \in ToSet(q)
        PROVE  x \in {Head(q)} \cup ToSet(r)
    <3> PICK i \in 1 .. Len(q) : x = q[i]
      BY <2>1, <2>2 DEF ToSet
    <3>1. CASE i = 1
      BY <2>1, <3>1
    <3>2. CASE i # 1
      <4>1. i - 1 \in 1 .. Len(r) /\ (i - 1) + 1 = i
        BY <2>1, <3>2
      <4>2. x = r[i - 1]
        BY <2>1, <4>1
      <4> QED
        BY <2>1, <4>1, <4>2 DEF ToSet
    <3> QED
      BY <3>1, <3>2
  <2>3. ASSUME NEW x \in {Head(q)} \cup ToSet(r)
        PROVE  x \in ToSet(q)
    <3>1. CASE x = Head(q)
      BY <2>1, <3>1 DEF ToSet
    <3>2. CASE x \in ToSet(r)
      <4> PICK i \in 1 .. Len(r) : x = r[i]
        BY <2>1, <3>2 DEF ToSet
      <4>1. x = q[i + 1] /\ i + 1 \in 1 .. Len(q)
        BY <2>1
      <4> QED
        BY <2>1, <4>1 DEF ToSet
    <3> QED
      BY <2>3, <3>1, <3>2
  <2>4. ToSet(q) = {Head(q)} \cup ToSet(r)
    BY <2>2, <2>3
  <2> QED
    BY <2>1, <2>4 DEF r
<1> QED
  BY <1>1, <1>2, <1>3, <1>4

-----------------------------------------------------------------------------
(* The invariant *)

\* Scans nothing more can happen to, or whose fate the known losses explain.
Explained == settled \cup told \cup late \cup swallowed

\* What a running drain still knows of.
InHand(d) == ToSet(drains[d].items) \cup ToSet(drains[d].remaining)

\* A scan that only the queue holds is in the hands of every drain that is
\* running: whichever of them stores its remaining last, the scan is in it.
Carried ==
    \A s \in submitted : s # current /\ s \notin Explained =>
        s \in ToSet(queue) /\ \A d \in Drain : Busy(d) => s \in InHand(d)

QueueInv == TypeOK /\ day \in Conditions /\ Carried

LEMMA QueueInitially == Init => QueueInv
<1> SUFFICES ASSUME Init PROVE QueueInv
  OBVIOUS
<1>1. <<>> \in Seq(Scan)
  BY EmptySeq
<1>2. NotRunning \in Running
  BY <1>1 DEF NotRunning, Running
<1>3. day.limit \in Nat
  BY ScannerAssumption DEF Init
<1> QED
  BY <1>1, <1>2, <1>3, ScannerAssumption DEF Init, QueueInv, TypeOK, Carried

-----------------------------------------------------------------------------
(* The steps *)

\* How a post ends: what the server decided grows, within the device's rate.
LEMMA PostEnds ==
    ASSUME QueueInv, NEW s \in Scan, EndsWithCode(s) \/ EndsWithoutCode(s)
    PROVE  /\ hits' \in 0 .. day.limit
           /\ settled' \subseteq Scan
           /\ settled \subseteq settled'
<1>1. day.limit \in Nat /\ hits \in 0 .. day.limit
  BY ScannerAssumption DEF QueueInv, TypeOK
<1>2. CASE UNCHANGED <<hits, settled>>
  BY <1>1, <1>2 DEF QueueInv, TypeOK
<1>3. CASE Decided(s)
  BY <1>1, <1>3 DEF QueueInv, TypeOK, Decided
<1> QED
  BY <1>2, <1>3 DEF EndsWithCode, EndsWithoutCode, Limited, Broken, Unreachable, Unanswered

\* The operator's own scans: made, answered or queued.
LEMMA PageStep ==
    ASSUME QueueInv, (\E s \in Scan : SubmitScan(s)) \/ Page
    PROVE  QueueInv'
<1>1. ASSUME NEW s \in Scan, SubmitScan(s)
      PROVE  QueueInv'
  <2>1. TypeOK' /\ day' \in Conditions
    BY <1>1 DEF SubmitScan, QueueInv, TypeOK, history
  <2>2. \A t \in submitted' : t # current' => t \in submitted /\ t # current
    BY <1>1, ScannerAssumption DEF SubmitScan, QueueInv, TypeOK
  <2>3. UNCHANGED <<Explained, queue, drains>>
    BY <1>1 DEF SubmitScan, Explained, history
  <2> QED
    BY <2>1, <2>2, <2>3 DEF QueueInv, Carried, Busy, InHand
<1>2. CASE ShowAnswer
  <2>1. current \in Scan
    BY <1>2 DEF ShowAnswer, QueueInv, TypeOK
  <2>2. settled \subseteq settled' /\ settled' \subseteq Scan /\ hits' \in 0 .. day.limit
    BY <1>2, <2>1, PostEnds DEF ShowAnswer
  <2>3. TypeOK' /\ day' \in Conditions
    BY <1>2, <2>1, <2>2 DEF ShowAnswer, QueueInv, TypeOK
  <2>4. Explained \cup {current} \subseteq Explained'
    BY <1>2, <2>2 DEF ShowAnswer, Explained
  <2> QED
    BY <1>2, <2>3, <2>4 DEF ShowAnswer, QueueInv, Carried, Busy, InHand
<1>3. CASE Enqueue
  <2>1. current \in Scan /\ queue \in Seq(Scan)
    BY <1>3 DEF Enqueue, QueueInv, TypeOK
  <2>2. settled \subseteq settled' /\ settled' \subseteq Scan /\ hits' \in 0 .. day.limit
    BY <1>3, <2>1, PostEnds DEF Enqueue
  <2>3. queue' \in Seq(Scan) /\ ToSet(queue') = ToSet(queue) \cup {current}
    BY <1>3, <2>1, QueueSets DEF Enqueue
  <2>4. TypeOK' /\ day' \in Conditions
    BY <1>3, <2>1, <2>2, <2>3 DEF Enqueue, QueueInv, TypeOK
  <2>5. Explained \subseteq Explained'
    BY <1>3, <2>2 DEF Enqueue, Explained
  <2>6. (\E d \in Drain : Busy(d)) => current \in Explained'
    BY <1>3 DEF Enqueue, Explained
  <2> QED
    BY <1>3, <2>3, <2>4, <2>5, <2>6 DEF Enqueue, QueueInv, Carried, Busy, InHand
<1> QED
  BY <1>1, <1>2, <1>3 DEF Page

\* A post of a drain ends.
LEMMA DrainStep ==
    ASSUME QueueInv, NEW d \in Drain, DrainItem(d)
    PROVE  QueueInv'
<1> DEFINE s == Head(drains[d].items)
           items == Tail(drains[d].items)
<1>1. /\ drains[d] \in Running /\ drains[d].items # <<>>
      /\ drains[d].items \in Seq(Scan) /\ drains[d].remaining \in Seq(Scan)
  BY DEF DrainItem, Busy, QueueInv, TypeOK, Running
<1>2. /\ s \in Scan /\ items \in Seq(Scan)
      /\ ToSet(drains[d].items) = {s} \cup ToSet(items)
  BY <1>1, QueueSets
<1> HIDE DEF s, items
<1>3. PICK remaining :
        /\ \/ EndsWithCode(s) /\ remaining = drains[d].remaining /\ swallowed' = swallowed \cup {s}
           \/ EndsWithoutCode(s) /\ remaining = Append(drains[d].remaining, s) /\ UNCHANGED swallowed
        /\ IF items # <<>>
           THEN /\ drains' = [drains EXCEPT ![d] = [items |-> items, remaining |-> remaining]]
                /\ UNCHANGED queue
           ELSE /\ drains' = [drains EXCEPT ![d] = NotRunning]
                /\ queue' = remaining
  BY DEF DrainItem, s, items
<1>4. UNCHANGED <<day, online, current, submitted, outages, told, late>>
  BY DEF DrainItem
<1>5. /\ remaining \in Seq(Scan)
      /\ ToSet(drains[d].remaining) \subseteq ToSet(remaining)
      /\ s \in ToSet(remaining) \/ s \in swallowed'
      /\ swallowed \subseteq swallowed' /\ swallowed' \subseteq Scan
  <2>0. swallowed \subseteq Scan
    BY DEF QueueInv, TypeOK
  <2>1. CASE remaining = drains[d].remaining /\ swallowed' = swallowed \cup {s}
    BY <1>1, <1>2, <2>0, <2>1
  <2>2. CASE remaining = Append(drains[d].remaining, s) /\ UNCHANGED swallowed
    <3>1. remaining \in Seq(Scan) /\ ToSet(remaining) = ToSet(drains[d].remaining) \cup {s}
      BY <1>1, <1>2, <2>2, QueueSets
    <3> QED
      BY <2>0, <2>2, <3>1
  <2> QED
    BY <1>3, <2>1, <2>2
<1>6. settled \subseteq settled' /\ settled' \subseteq Scan /\ hits' \in 0 .. day.limit
  BY <1>2, <1>3, PostEnds
<1>7. Explained \subseteq Explained' /\ swallowed' \subseteq Explained'
  BY <1>4, <1>5, <1>6 DEF Explained
<1>8. /\ drains' \in [Drain -> Running]
      /\ queue' \in Seq(Scan)
      /\ \A e \in Drain \ {d} : drains'[e] = drains[e]
  <2>1. NotRunning \in Running /\ [items |-> items, remaining |-> remaining] \in Running
    BY <1>2, <1>5, EmptySeq DEF NotRunning, Running
  <2> QED
    BY <1>3, <1>5, <2>1 DEF QueueInv, TypeOK
<1>9. TypeOK' /\ day' \in Conditions
  BY <1>4, <1>5, <1>6, <1>8 DEF QueueInv, TypeOK
<1>10. InHand(d) \subseteq ToSet(items) \cup ToSet(remaining) \cup swallowed'
  BY <1>2, <1>5 DEF InHand
<1>11. CASE items # <<>>
  <2>1. drains'[d] = [items |-> items, remaining |-> remaining] /\ UNCHANGED queue
    BY <1>3, <1>11 DEF QueueInv, TypeOK
  <2>2. InHand(d)' = ToSet(items) \cup ToSet(remaining)
    BY <2>1 DEF InHand
  <2>3. \A e \in Drain \ {d} : Busy(e)' = Busy(e) /\ InHand(e)' = InHand(e)
    BY <1>8 DEF Busy, InHand
  <2>4. Busy(d)
    BY <1>1 DEF Busy
  <2> QED
    BY <1>4, <1>7, <1>9, <1>10, <2>1, <2>2, <2>3, <2>4 DEF QueueInv, Carried
<1>12. CASE items = <<>>
  <2>1. drains'[d] = NotRunning /\ queue' = remaining
    BY <1>3, <1>12 DEF QueueInv, TypeOK
  <2>2. ~Busy(d)'
    BY <2>1 DEF Busy, NotRunning
  <2>3. \A e \in Drain \ {d} : Busy(e)' = Busy(e) /\ InHand(e)' = InHand(e)
    BY <1>8 DEF Busy, InHand
  <2>4. Busy(d)
    BY <1>1 DEF Busy
  <2>5. ToSet(items) = {}
    BY <1>12, QueueSets
  <2> QED
    BY <1>4, <1>7, <1>9, <1>10, <2>1, <2>2, <2>3, <2>4, <2>5 DEF QueueInv, Carried
<1> QED
  BY <1>11, <1>12

\* The network goes and comes back, the page is loaded again, time passes.
LEMMA SurroundingsStep ==
    ASSUME QueueInv, Disconnect \/ Reconnect \/ Reload \/ NextSecond
    PROVE  QueueInv'
<1>1. NotRunning \in Running /\ day.limit \in Nat
  BY EmptySeq, ScannerAssumption DEF NotRunning, Running, QueueInv
<1>2. UNCHANGED <<day, current, submitted, settled, told, swallowed, late, queue, Explained>>
  BY DEF Disconnect, Reconnect, Reload, NextSecond, StartDrain, history, Explained
<1>3. CASE Disconnect
  <2>1. outages' \in 0 .. MaxOutages
    BY <1>3, ScannerAssumption DEF Disconnect, QueueInv, TypeOK
  <2>2. TypeOK' /\ day' \in Conditions
    BY <1>2, <1>3, <2>1 DEF Disconnect, QueueInv, TypeOK
  <2>3. UNCHANGED drains
    BY <1>3 DEF Disconnect
  <2> QED
    BY <1>2, <2>2, <2>3 DEF QueueInv, Carried, Busy, InHand
<1>4. CASE Reload
  <2>1. \A d \in Drain : ~Busy(d)'
    BY <1>4 DEF Reload, Busy, NotRunning
  <2> QED
    BY <1>1, <1>2, <1>4, <2>1 DEF Reload, QueueInv, TypeOK, Carried
<1>5. CASE NextSecond
  BY <1>1, <1>2, <1>5 DEF NextSecond, QueueInv, TypeOK, Carried, Busy, InHand
<1>6. CASE Reconnect /\ UNCHANGED drains
  BY <1>2, <1>6 DEF Reconnect, QueueInv, TypeOK, Carried, Busy, InHand
<1>7. ASSUME NEW d \in Drain, Reconnect, StartDrain(d)
      PROVE  QueueInv'
  <2>1. [items |-> queue, remaining |-> <<>>] \in Running
    BY EmptySeq DEF Running, QueueInv, TypeOK
  <2>2. /\ drains' \in [Drain -> Running]
        /\ drains'[d] = [items |-> queue, remaining |-> <<>>]
        /\ \A e \in Drain \ {d} : drains'[e] = drains[e]
    BY <1>7, <2>1 DEF StartDrain, QueueInv, TypeOK
  <2>3. TypeOK' /\ day' \in Conditions
    BY <1>2, <1>7, <2>2 DEF Reconnect, QueueInv, TypeOK
  <2>4. InHand(d)' = ToSet(queue)
    BY <2>2, QueueSets DEF InHand
  <2>5. \A e \in Drain \ {d} : Busy(e)' = Busy(e) /\ InHand(e)' = InHand(e)
    BY <2>2 DEF Busy, InHand
  <2> QED
    BY <1>2, <2>3, <2>4, <2>5 DEF QueueInv, Carried
<1> QED
  BY <1>3, <1>4, <1>5, <1>6, <1>7 DEF Reconnect

THEOREM QueueStep == QueueInv /\ [Next]_vars => QueueInv'
<1> SUFFICES ASSUME QueueInv, [Next]_vars
             PROVE  QueueInv'
  OBVIOUS
<1>1. CASE UNCHANGED vars
  BY <1>1 DEF vars, history, QueueInv, TypeOK, Carried, Explained, Busy, InHand
<1> QED
  BY <1>1, PageStep, DrainStep, SurroundingsStep DEF Next

-----------------------------------------------------------------------------
(* Theorems *)

\* Whatever outages, lost answers, overlapping drains and reloads, a scan the
\* operator made is lost in the two known ways only (drainQueue, setQueue).
THEOREM QueueKeepsScans == Spec => []QueueHolds
<1>1. Init => QueueInv
  BY QueueInitially
<1>2. QueueInv /\ [Next]_vars => QueueInv'
  BY QueueStep
<1>3. QueueInv => QueueHolds
  BY DEF QueueInv, QueueHolds, Carried, OnlyTwoKindsLost, Kept, Explained
<1> QED
  BY <1>1, <1>2, <1>3, PTL DEF Spec
=============================================================================
