---------------------------- MODULE AuditTracker ----------------------------
(***************************************************************************)
(* The in-memory failure tracker of audit_service.py: it counts failed     *)
(* audit writes, logs CRITICAL on a streak of failures and feeds /health.  *)
(* Each method runs under the tracker's lock, so it is one step; the order *)
(* of the steps is that of the background tasks, which is arbitrary.       *)
(***************************************************************************)
EXTENDS Integers, Sequences, FiniteSets

CONSTANTS Window,        \* _WINDOW_SECONDS, in ticks of the clock
          MaxTime,       \* bound: the clock stops there
          MaxFailures    \* bound: failures per process

ASSUME WindowAssumption == Window \in Nat \ {0} /\ MaxTime \in Nat /\ MaxFailures \in Nat

ALERT_THRESHOLD == 3

NoReport == [fresh |-> FALSE, healthy |-> TRUE, failures |-> 0]

VARIABLES now,             \* time.monotonic()
          consecutive, windowFailures, windowStart, alerted,
          report,          \* what health() last returned, fresh until the next step
          criticals,       \* history: CRITICAL records since the last success
          failures         \* history: when each failure of this process occurred

tracker == <<consecutive, windowFailures, windowStart, alerted>>
vars    == <<now, tracker, report, criticals, failures>>

Init ==
    /\ now = 0
    /\ consecutive = 0 /\ windowFailures = 0 /\ windowStart = 0 /\ alerted = FALSE
    /\ report = NoReport
    /\ criticals = 0
    /\ failures = <<>>

(* _maybe_reset_window: the window starts afresh at the first call that    *)
(* finds it over; `n' is what this call adds to the count.                 *)
WindowOverLate == now - windowStart > Window
WindowOver == now - windowStart >= Window

CountInWindow(n) ==
    /\ windowFailures' = n + (IF WindowOver THEN 0 ELSE windowFailures)
    /\ windowStart' = IF WindowOver THEN now ELSE windowStart

(* Whether a failure that makes the streak `n' long is logged as CRITICAL. *)
EscalatesOnce(n) == n >= ALERT_THRESHOLD /\ ~alerted
Escalates(n) ==
    \/ n >= ALERT_THRESHOLD /\ ~alerted
    \/ alerted /\ n % ALERT_THRESHOLD = 0

RecordFailure ==
    /\ Len(failures) < MaxFailures
    /\ CountInWindow(1)
    /\ consecutive' = consecutive + 1
    /\ alerted' = (alerted \/ consecutive' >= ALERT_THRESHOLD)
    /\ criticals' = criticals + (IF Escalates(consecutive') THEN 1 ELSE 0)
    /\ failures' = Append(failures, now)
    /\ report' = NoReport
    /\ UNCHANGED now

RecordSuccessKeepsAlert ==
    /\ consecutive' = 0 /\ criticals' = 0
    /\ report' = NoReport
    /\ UNCHANGED <<alerted, now, windowFailures, windowStart, failures>>
RecordSuccess ==
    /\ consecutive' = 0 /\ alerted' = FALSE
    /\ criticals' = 0
    /\ report' = NoReport
    /\ UNCHANGED <<now, windowFailures, windowStart, failures>>

Health ==
    /\ CountInWindow(0)
    /\ report' = [fresh |-> TRUE, healthy |-> consecutive < ALERT_THRESHOLD,
                  failures |-> windowFailures']
    /\ UNCHANGED <<now, consecutive, alerted, criticals, failures>>

Tick ==
    /\ now < MaxTime
    /\ now' = now + 1
    /\ report' = NoReport
    /\ UNCHANGED <<tracker, criticals, failures>>

(* A new process starts with a new tracker.                                *)
Restart ==
    /\ consecutive' = 0 /\ windowFailures' = 0 /\ windowStart' = now /\ alerted' = FALSE
    /\ report' = NoReport
    /\ criticals' = 0
    /\ failures' = <<>>
    /\ UNCHANGED now

Next == RecordFailure \/ RecordSuccess \/ Health \/ Tick \/ Restart

Spec == Init /\ [][Next]_vars
-----------------------------------------------------------------------------
TypeOK ==
    /\ now \in Nat /\ windowStart \in 0..now
    /\ consecutive \in Nat /\ windowFailures \in Nat /\ criticals \in Nat
    /\ alerted \in BOOLEAN
    /\ report \in [fresh : BOOLEAN, healthy : BOOLEAN, failures : Nat]
    /\ failures \in Seq(Nat)

(* In every streak of failures CRITICAL is logged at the third, the sixth, *)
(* the ninth..., neither more nor less often, whatever came before.        *)
CriticalEveryThird == criticals = consecutive \div ALERT_THRESHOLD

(* The latch that tells a first alert from a repeated one is set exactly   *)
(* while the subsystem is reported degraded, so a recovered subsystem      *)
(* alerts again.                                                           *)
AlertedIffDegraded == alerted <=> consecutive >= ALERT_THRESHOLD

InWindow == {i \in DOMAIN failures : failures[i] >= windowStart}

(* /health reports the failures since the window was last reset, each one  *)
(* once, and that reset is never a whole window ago: no failure older than *)
(* the window is reported, although nothing resets the window on time.     *)
ReportIsCurrent ==
    report.fresh =>
        /\ report.failures = Cardinality(InWindow)
        /\ now - windowStart < Window
=============================================================================
