------------------------- MODULE AuditTrackerProofs -------------------------
(* Proofs about AuditTracker, for any window and any bounds.               *)
EXTENDS AuditTracker, FiniteSetTheorems, TLAPS

(* Every failure is stamped no later than now, and, once the window it was *)
(* counted in is over, lies before the clock's present value.              *)
FailuresAreTimed ==
    \A i \in DOMAIN failures : failures[i] <= now /\ failures[i] - windowStart < Window

TrackerInv ==
    /\ TypeOK
    /\ CriticalEveryThird
    /\ AlertedIffDegraded
    /\ FailuresAreTimed
    /\ windowFailures = Cardinality(InWindow)
    /\ ReportIsCurrent

LEMMA InitTracker == Init => TrackerInv
<1> SUFFICES ASSUME Init
             PROVE  TrackerInv
  OBVIOUS
<1>1. InWindow = {}
  BY DEF Init, InWindow
<1>2. Cardinality(InWindow) = 0
  BY <1>1, FS_EmptySet
<1>3. TypeOK
  <2>1. report \in [fresh : BOOLEAN, healthy : BOOLEAN, failures : Nat]
    BY DEF Init, NoReport
  <2>2. failures \in Seq(Nat)
    BY DEF Init
  <2>3. alerted \in BOOLEAN
    BY DEF Init
  <2> QED BY <2>1, <2>2, <2>3 DEF Init, TypeOK
<1>4. CriticalEveryThird /\ AlertedIffDegraded
  BY DEF Init, CriticalEveryThird, AlertedIffDegraded, ALERT_THRESHOLD
<1>5. FailuresAreTimed /\ ReportIsCurrent
  BY DEF Init, NoReport, FailuresAreTimed, ReportIsCurrent
<1> QED
  BY <1>2, <1>3, <1>4, <1>5 DEF Init, TrackerInv

(* The escalation logic: thresholds and multiples of three.                *)
LEMMA StepEscalation ==
    ASSUME TrackerInv, [Next]_vars
    PROVE  CriticalEveryThird' /\ AlertedIffDegraded'
<1> USE DEF TrackerInv, TypeOK, CriticalEveryThird, AlertedIffDegraded, ALERT_THRESHOLD
<1>1. CASE RecordFailure
  <2>1. consecutive' = consecutive + 1
    BY <1>1 DEF RecordFailure
  <2>2. CASE consecutive + 1 < ALERT_THRESHOLD
    BY <1>1, <2>1, <2>2 DEF RecordFailure, Escalates
  <2>3. CASE consecutive + 1 = ALERT_THRESHOLD
    <3>1. ~alerted /\ consecutive = 2 /\ criticals = 0
      BY <2>3
    <3>2. Escalates(consecutive')
      BY <2>1, <2>3, <3>1 DEF Escalates
    <3>3. criticals' = 1 /\ consecutive' = 3
      BY <1>1, <2>1, <3>1, <3>2 DEF RecordFailure
    <3>4. consecutive' >= ALERT_THRESHOLD
      BY <3>3
    <3>5. AlertedIffDegraded'
      BY <1>1, <3>4 DEF RecordFailure
    <3> QED BY <3>3, <3>5
  <2>4. CASE consecutive + 1 > ALERT_THRESHOLD
    BY <1>1, <2>1, <2>4 DEF RecordFailure, Escalates
  <2> QED BY <2>2, <2>3, <2>4
<1>2. CASE RecordSuccess
  BY <1>2 DEF RecordSuccess
<1>3. CASE Health
  BY <1>3 DEF Health
<1>4. CASE Tick
  BY <1>4 DEF Tick, tracker
<1>5. CASE Restart
  BY <1>5 DEF Restart
<1>6. CASE UNCHANGED vars
  BY <1>6 DEF vars, tracker
<1> QED BY <1>1, <1>2, <1>3, <1>4, <1>5, <1>6 DEF Next

LEMMA WindowFinite ==
    ASSUME TypeOK
    PROVE  IsFiniteSet(InWindow) /\ Cardinality(InWindow) \in Nat
<1>1. DOMAIN failures = 1..Len(failures) /\ Len(failures) \in Nat
  BY DEF TypeOK
<1>2. IsFiniteSet(DOMAIN failures)
  BY <1>1, FS_Interval
<1>3. InWindow \subseteq DOMAIN failures
  BY DEF InWindow
<1> QED BY <1>2, <1>3, FS_Subset, FS_CardinalityType

(* The window's count, whether or not this call resets the window: the     *)
(* failures so far that the new window keeps.                              *)
Kept(start) == {i \in DOMAIN failures : failures[i] >= start}

LEMMA CountStep ==
    ASSUME TrackerInv, NEW n \in Nat, CountInWindow(n)
    PROVE  /\ windowFailures' = n + Cardinality(Kept(windowStart'))
           /\ windowStart' \in 0..now
           /\ now - windowStart' < Window
           /\ \A i \in DOMAIN failures : failures[i] - windowStart' < Window
<1> USE WindowAssumption
<1>1. /\ failures \in Seq(Nat) /\ \A i \in DOMAIN failures : failures[i] \in Nat
      /\ now \in Nat /\ windowStart \in 0..now
      /\ \A i \in DOMAIN failures : failures[i] <= now /\ failures[i] - windowStart < Window
      /\ windowFailures = Cardinality(InWindow) /\ windowFailures \in Nat
  BY DEF TrackerInv, TypeOK, FailuresAreTimed
<1>2. CASE WindowOver
  <2>1. windowFailures' = n /\ windowStart' = now
    BY <1>2 DEF CountInWindow
  <2>2. \A i \in DOMAIN failures : failures[i] < now
    BY <1>1, <1>2 DEF WindowOver
  <2>3. Kept(windowStart') = {}
    BY <1>1, <2>1, <2>2 DEF Kept
  <2>4. Cardinality(Kept(windowStart')) = 0
    BY <2>3, FS_EmptySet
  <2> QED BY <1>1, <2>1, <2>2, <2>4
<1>3. CASE ~WindowOver
  <2>1. windowFailures' = n + windowFailures /\ windowStart' = windowStart
    BY <1>3 DEF CountInWindow
  <2>2. Kept(windowStart') = InWindow
    BY <2>1 DEF InWindow, Kept
  <2> QED BY <1>1, <1>3, <2>1, <2>2 DEF WindowOver
<1> QED BY <1>2, <1>3

LEMMA NextTracker == TrackerInv /\ [Next]_vars => TrackerInv'
<1> SUFFICES ASSUME TrackerInv, [Next]_vars
             PROVE  TrackerInv'
  OBVIOUS
<1> USE WindowAssumption
<1>1. CriticalEveryThird' /\ AlertedIffDegraded'
  BY StepEscalation
<1>2. TypeOK /\ failures \in Seq(Nat) /\ now \in Nat /\ windowStart \in Nat
  BY DEF TrackerInv, TypeOK
<1>3. CASE RecordFailure
  <2>1. /\ CountInWindow(1) /\ now' = now /\ failures' = Append(failures, now)
        /\ report' = NoReport
    BY <1>3 DEF RecordFailure
  <2> DEFINE n == Len(failures) + 1
  <2>2. /\ windowFailures' = 1 + Cardinality(Kept(windowStart'))
        /\ windowStart' \in 0..now
        /\ now - windowStart' < Window
        /\ \A i \in DOMAIN failures : failures[i] - windowStart' < Window
    BY <2>1, CountStep
  <2>3. /\ DOMAIN failures = 1..Len(failures) /\ Len(failures) \in Nat
        /\ DOMAIN failures' = 1..n
        /\ failures'[n] = now
        /\ \A i \in DOMAIN failures : failures'[i] = failures[i]
        /\ failures' \in Seq(Nat)
    BY <1>2, <2>1
  <2>4. InWindow' = Kept(windowStart') \cup {n} /\ n \notin Kept(windowStart')
    BY <1>2, <2>2, <2>3 DEF InWindow, Kept
  <2>5. IsFiniteSet(Kept(windowStart'))
    <3>1. IsFiniteSet(DOMAIN failures)
      BY <2>3, FS_Interval
    <3> QED BY <3>1, FS_Subset DEF Kept
  <2>6. /\ windowFailures' = Cardinality(InWindow)'
        /\ windowFailures' \in Nat
    <3> DEFINE K == Kept(windowStart')
    <3>1. Cardinality(K) \in Nat
      BY <2>5, FS_CardinalityType
    <3>2. Cardinality(K \cup {n}) = Cardinality(K) + 1
      BY <2>4, <2>5, FS_AddElement
    <3> QED BY <2>2, <2>4, <3>1, <3>2
  <2>7. FailuresAreTimed'
    <3> SUFFICES ASSUME NEW i \in DOMAIN failures'
                 PROVE  failures'[i] <= now /\ failures'[i] - windowStart' < Window
      BY <2>1 DEF FailuresAreTimed
    <3>1. CASE i = n
      <4>1. failures'[i] = now
        BY <2>3, <3>1
      <4>2. now \in Nat /\ now - windowStart' < Window
        BY <1>2, <2>2
      <4> HIDE DEF n
      <4> QED BY <4>1, <4>2
    <3>2. CASE i # n
      <4>1. i \in DOMAIN failures /\ failures'[i] = failures[i]
        BY <2>3, <3>2
      <4> QED BY <2>2, <4>1 DEF TrackerInv, FailuresAreTimed
    <3> QED BY <3>1, <3>2
  <2>8. criticals' \in Nat /\ alerted' \in BOOLEAN /\ consecutive' \in Nat
    BY <1>3 DEF RecordFailure, TrackerInv, TypeOK
  <2>9. TypeOK' /\ ReportIsCurrent'
    BY <1>2, <2>1, <2>2, <2>3, <2>6, <2>8 DEF TypeOK, NoReport, ReportIsCurrent
  <2> QED BY <1>1, <2>6, <2>7, <2>9 DEF TrackerInv
<1>4. CASE Health
  <2>1. /\ CountInWindow(0)
        /\ UNCHANGED <<now, consecutive, alerted, criticals, failures>>
        /\ report' = [fresh |-> TRUE, healthy |-> consecutive < ALERT_THRESHOLD,
                      failures |-> windowFailures']
    BY <1>4 DEF Health
  <2>2. /\ windowFailures' = 0 + Cardinality(Kept(windowStart'))
        /\ windowStart' \in 0..now
        /\ now - windowStart' < Window
        /\ \A i \in DOMAIN failures : failures[i] - windowStart' < Window
    BY <2>1, CountStep
  <2>3. InWindow' = Kept(windowStart')
    BY <2>1 DEF InWindow, Kept
  <2>4. windowFailures' \in Nat
    BY <1>4, WindowFinite DEF Health, CountInWindow, TrackerInv, TypeOK
  <2>5. windowFailures' = Cardinality(InWindow)'
    <3>1. Cardinality(Kept(windowStart')) \in Nat
      <4>1. IsFiniteSet(DOMAIN failures)
        BY <1>2, FS_Interval
      <4> QED BY <4>1, FS_Subset, FS_CardinalityType DEF Kept
    <3> QED BY <2>2, <2>3, <3>1
  <2>6. FailuresAreTimed'
    BY <2>1, <2>2 DEF TrackerInv, FailuresAreTimed
  <2>7. ReportIsCurrent'
    BY <2>1, <2>2, <2>5 DEF ReportIsCurrent
  <2>8. report' \in [fresh : BOOLEAN, healthy : BOOLEAN, failures : Nat]
    BY <2>1, <2>4
  <2>9. TypeOK'
    BY <1>2, <2>1, <2>2, <2>4, <2>8 DEF TypeOK
  <2> QED BY <1>1, <2>5, <2>6, <2>7, <2>9 DEF TrackerInv
<1>5. CASE RecordSuccess
  <2>1. InWindow' = InWindow
    BY <1>5 DEF RecordSuccess, InWindow
  <2> QED BY <1>1, <1>5, <2>1
             DEF RecordSuccess, NoReport, TrackerInv, TypeOK, FailuresAreTimed,
                 ReportIsCurrent
<1>6. CASE Tick
  <2>1. InWindow' = InWindow
    BY <1>6 DEF Tick, tracker, InWindow
  <2>2. FailuresAreTimed'
    BY <1>2, <1>6 DEF Tick, tracker, TrackerInv, TypeOK, FailuresAreTimed
  <2> QED BY <1>1, <1>6, <2>1, <2>2
             DEF Tick, tracker, NoReport, TrackerInv, TypeOK, ReportIsCurrent
<1>7. CASE Restart
  <2>1. failures' = <<>> /\ InWindow' = {}
    BY <1>7 DEF Restart, InWindow
  <2>2. Cardinality(InWindow)' = 0
    BY <2>1, FS_EmptySet
  <2>3. FailuresAreTimed' /\ ReportIsCurrent'
    BY <1>7, <2>1 DEF Restart, NoReport, FailuresAreTimed, ReportIsCurrent
  <2>4. failures' \in Seq(Nat)
    BY <2>1
  <2>5. TypeOK'
    <3>1. NoReport \in [fresh : BOOLEAN, healthy : BOOLEAN, failures : Nat]
      BY DEF NoReport
    <3>2. now' \in Nat /\ windowStart' \in 0..now'
      BY <1>2, <1>7 DEF Restart
    <3>3. consecutive' \in Nat /\ windowFailures' \in Nat /\ criticals' \in Nat
      BY <1>7 DEF Restart
    <3>4. alerted' \in BOOLEAN /\ report' = NoReport
      BY <1>7 DEF Restart
    <3> QED BY <2>4, <3>1, <3>2, <3>3, <3>4 DEF TypeOK
  <2> QED BY <1>1, <1>7, <2>2, <2>3, <2>5 DEF Restart, TrackerInv
<1>8. CASE UNCHANGED vars
  <2>1. InWindow' = InWindow
    BY <1>8 DEF vars, tracker, InWindow
  <2> QED BY <1>8, <2>1
             DEF vars, tracker, TrackerInv, TypeOK, CriticalEveryThird,
                 AlertedIffDegraded, FailuresAreTimed, ReportIsCurrent
<1> QED BY <1>3, <1>4, <1>5, <1>6, <1>7, <1>8 DEF Next

(* The inductive invariant: the streak, the latch and the window are those *)
(* of the failures that happened, in any order of successes, failures,     *)
(* health checks, restarts and clock ticks.                                *)
THEOREM Inductive == Spec => []TrackerInv
  BY InitTracker, NextTracker, PTL DEF Spec

(* The tracker's counters and times keep their types.                      *)
THEOREM TypeCorrect == Spec => []TypeOK
<1>1. TrackerInv => TypeOK
  BY DEF TrackerInv
<1> QED BY <1>1, Inductive, PTL

(* CRITICAL is logged at every third failure of a streak and only there.   *)
THEOREM Escalation == Spec => []CriticalEveryThird
<1>1. TrackerInv => CriticalEveryThird
  BY DEF TrackerInv
<1> QED BY <1>1, Inductive, PTL

(* The latch that RECOVERED rests on agrees with the reported health.      *)
THEOREM Latch == Spec => []AlertedIffDegraded
<1>1. TrackerInv => AlertedIffDegraded
  BY DEF TrackerInv
<1> QED BY <1>1, Inductive, PTL

(* A health report counts the failures of the current window, no others.   *)
THEOREM Current == Spec => []ReportIsCurrent
<1>1. TrackerInv => ReportIsCurrent
  BY DEF TrackerInv
<1> QED BY <1>1, Inductive, PTL
=============================================================================
