----------------------------- MODULE LeadUpdate -----------------------------
(***************************************************************************)
(* PATCH /api/leads/{id}: attorneys and admins mark leads as reached out.  *)
(*                                                                         *)
(* Every request runs the handler of api/routes/leads.py statement by      *)
(* statement on a PostgreSQL session of its own (READ COMMITTED, row-level *)
(* security), interleaved with other requests, with the admin operations   *)
(* on accounts, with lost connections and with crashes of the process.     *)
(*                                                                         *)
(* The ORM object is a snapshot: it is read once, modified in memory, and  *)
(* the UPDATE that the commit flushes names only the columns whose value   *)
(* differs from the snapshot.  The policy of an UPDATE is decided when the *)
(* statement starts; its effect, the foreign-key check and COMMIT happen   *)
(* under the row's lock and so are one step.                               *)
(*                                                                         *)
(* A time stamp is the request that took it: only its origin matters.      *)
(***************************************************************************)
EXTENDS Accounts, RowSecurity, Naturals

CONSTANTS Leads,        \* lead ids
          Requests,     \* PATCH requests, each used once
          None,         \* SQL NULL
          MaxCrashes,   \* bound: process crashes
          MaxDbErrors   \* bound: statements or commits lost with the connection

LeadState == {"PENDING", "REACHED_OUT"}

ASSUME NoneAssumption == None \notin Users \cup Leads \cup Requests \cup LeadState

ASSUME BoundsAssumption == MaxCrashes \in Nat /\ MaxDbErrors \in Nat

VARIABLES
    leads,     \* the leads table: state, reached_out_at, reached_out_by_id
    audit,     \* the state_change rows of audit_logs
    counted,   \* requests whose audit failure this process's tracker counted
    pc,        \* the next statement of each request
    call,      \* the token's user, the lead and the body's state
    seen,      \* the lead as the session first loaded it
    obj,       \* the lead object after the handler's assignments
    status,    \* the HTTP status sent, 0 before
    shown,     \* reached_out_by of the response
    was,       \* history: the state that the request's UPDATE replaced
    crashes, dbErrors

tables  == <<users, leads, audit>>
session == <<call, seen, obj, was>>
reply   == <<status, shown>>
faults  == <<crashes, dbErrors>>
vars    == <<tables, counted, pc, session, reply, faults>>

LeadRow   == [state : LeadState, at : Requests \cup {None}, by : Users \cup {None}]
Call      == [user : Users, lead : Leads, target : LeadState]
Entry     == [req : Requests, lead : Leads, user : Users \cup {None},
              old : LeadState, new : LeadState]

NewLead == [state |-> "PENDING", at |-> None, by |-> None]
NoCall  == [user |-> None, lead |-> None, target |-> None]

InHandler == {"auth", "load", "guard", "flush", "commit", "refresh"}
InFlight  == InHandler \cup {"record"}
Label     == InFlight \cup {"idle", "done", "crashed"}

Init ==
    /\ AccountsInit
    /\ leads = [l \in Leads |-> NewLead]
    /\ audit = {}
    /\ counted = {}
    /\ pc = [r \in Requests |-> "idle"]
    /\ call = [r \in Requests |-> NoCall]
    /\ seen = [r \in Requests |-> NewLead]
    /\ obj = [r \in Requests |-> NewLead]
    /\ status = [r \in Requests |-> 0]
    /\ shown = [r \in Requests |-> None]
    /\ was = [r \in Requests |-> None]
    /\ crashes = 0
    /\ dbErrors = 0
-----------------------------------------------------------------------------
(* What get_db sets on the connection before the handler runs.             *)
Ctx(r) == [uid  |-> call[r].user,
           role |-> IF call[r].user \in Admins THEN "ADMIN" ELSE "ATTORNEY"]

MayRead(r)   == LeadsVisible(users, Ctx(r))
MayUpdateAlways(r) == TRUE
MayUpdate(r) == LeadsUpdatable(users, Ctx(r))

Goto(r, label) == pc' = [pc EXCEPT ![r] = label]

(* The handler ends with an error: no background task was scheduled.       *)
Fail(r, code) ==
    /\ Goto(r, "done")
    /\ status' = [status EXCEPT ![r] = code]
    /\ shown' = shown

(* A token was issued by a login, so its user has had an active account.   *)
Start(r) ==
    /\ pc[r] = "idle"
    /\ \E c \in Call : users[c.user] # "absent" /\ call' = [call EXCEPT ![r] = c]
    /\ Goto(r, "auth")
    /\ UNCHANGED <<tables, counted, seen, obj, was, reply, faults>>

(* get_current_user: db.get(User, id) goes through the users policies.     *)
Authenticate(r) ==
    LET u == call[r].user
        visible == UserVisible(users, Ctx(r), u)
    IN  /\ pc[r] = "auth"
        /\ \/ ~visible /\ Fail(r, 401)
           \/ visible /\ users[u] # "active" /\ Fail(r, 403)
           \/ visible /\ users[u] = "active" /\ Goto(r, "load") /\ UNCHANGED reply
        /\ UNCHANGED <<tables, counted, session, faults>>

(* The route's own get_lead; old_state is taken from it.                   *)
LoadLead(r) ==
    /\ pc[r] = "load"
    /\ \/ ~MayRead(r) /\ Fail(r, 404) /\ UNCHANGED seen
       \/ /\ MayRead(r)
          /\ seen' = [seen EXCEPT ![r] = leads[call[r].lead]]
          /\ Goto(r, "guard") /\ UNCHANGED reply
    /\ UNCHANGED <<tables, counted, call, obj, was, faults>>

(* The service's get_lead finds the object in the identity map, so only    *)
(* the row's visibility is new; then the transition guard and assignments. *)
RefusedNever(r) == FALSE
RefusedIfCredited(r) ==
    /\ seen[r].by # None
    /\ call[r].target = "PENDING"
Refused(r) ==
    /\ seen[r].state = "REACHED_OUT"
    /\ call[r].target = "PENDING"

AssignedNoStamp(r) == [seen[r] EXCEPT !.state = call[r].target]
Assigned(r) ==
    IF call[r].target = "REACHED_OUT"
    THEN [state |-> "REACHED_OUT", at |-> r, by |-> call[r].user]
    ELSE [seen[r] EXCEPT !.state = "PENDING"]

GuardAndAssign(r) ==
    /\ pc[r] = "guard"
    /\ \/ ~MayRead(r) /\ Fail(r, 404) /\ UNCHANGED obj
       \/ MayRead(r) /\ Refused(r) /\ Fail(r, 400) /\ UNCHANGED obj
       \/ /\ MayRead(r) /\ ~Refused(r)
          /\ obj' = [obj EXCEPT ![r] = Assigned(r)]
          /\ Goto(r, "flush") /\ UNCHANGED reply
    /\ UNCHANGED <<tables, counted, call, seen, was, faults>>

(* The unit of work's flush: no UPDATE without a changed column; an UPDATE *)
(* that the policy hides the row from matches nothing (StaleDataError).    *)
FlushRetries(r) ==
    /\ pc[r] = "flush"
    /\ \/ obj[r] = seen[r] /\ Goto(r, "refresh")
       \/ obj[r] # seen[r] /\ MayUpdate(r) /\ Goto(r, "commit")
    /\ UNCHANGED <<tables, counted, session, reply, faults>>
Flush(r) ==
    LET changed == obj[r] # seen[r]
    IN  /\ pc[r] = "flush"
        /\ \/ ~changed /\ Goto(r, "refresh") /\ UNCHANGED reply
           \/ changed /\ MayUpdate(r) /\ Goto(r, "commit") /\ UNCHANGED reply
           \/ changed /\ ~MayUpdate(r) /\ Fail(r, 500)
        /\ UNCHANGED <<tables, counted, session, faults>>

(* The committed row with the changed columns of the object over it.       *)
Merge(row, old, new) ==
    [state |-> IF new.state # old.state THEN new.state ELSE row.state,
     at    |-> IF new.at # old.at THEN new.at ELSE row.at,
     by    |-> IF new.by # old.by THEN new.by ELSE row.by]

(* The foreign key of reached_out_by_id, checked only if it is written.    *)
KeyUnchecked(r) == TRUE
KeyHolds(r) == obj[r].by # seen[r].by => RowExists(obj[r].by)

ApplyUpdate(r) ==
    LET l == call[r].lead
    IN  /\ leads' = [leads EXCEPT ![l] = Merge(@, seen[r], obj[r])]
        /\ was' = [was EXCEPT ![r] = leads[l].state]

Commit(r) ==
    /\ pc[r] = "commit"
    /\ \/ ~KeyHolds(r) /\ Fail(r, 500) /\ UNCHANGED <<leads, was>>
       \/ KeyHolds(r) /\ ApplyUpdate(r) /\ Goto(r, "refresh") /\ UNCHANGED reply
    /\ UNCHANGED <<users, audit, counted, call, seen, obj, faults>>

(* db.refresh re-selects the row and its reached_out_by through the        *)
(* policies; a row that has become invisible is an error, although the     *)
(* change is committed.  Otherwise the response goes out and the audit     *)
(* task is scheduled; state and reached_out_at come from the object.       *)
RefreshCaller(r) ==
    /\ pc[r] = "refresh"
    /\ \/ ~MayRead(r) /\ Fail(r, 500)
       \/ /\ MayRead(r)
          /\ status' = [status EXCEPT ![r] = 200]
          /\ shown' = [shown EXCEPT ![r] = call[r].user]
          /\ Goto(r, "record")
    /\ UNCHANGED <<tables, counted, session, faults>>
Refresh(r) ==
    LET by == leads[call[r].lead].by
        joined == by # None /\ UserVisible(users, Ctx(r), by)
    IN  /\ pc[r] = "refresh"
        /\ \/ ~MayRead(r) /\ Fail(r, 500)
           \/ /\ MayRead(r)
              /\ status' = [status EXCEPT ![r] = 200]
              /\ shown' = [shown EXCEPT ![r] = IF joined THEN by ELSE None]
              /\ Goto(r, "record")
        /\ UNCHANGED <<tables, counted, session, faults>>
-----------------------------------------------------------------------------
(* record_state_change: the background task, on a session of its own.      *)
EntryOfReplaced(r) == [req |-> r, lead |-> call[r].lead, user |-> call[r].user,
                       old |-> was[r], new |-> call[r].target]
EntryOf(r) == [req |-> r, lead |-> call[r].lead, user |-> call[r].user,
               old |-> seen[r].state, new |-> call[r].target]

AuditEnds(r) ==
    /\ pc[r] = "record"
    /\ Goto(r, "done")
    /\ UNCHANGED <<users, leads, session, reply, crashes>>

(* The insert's foreign key: the acting user must still exist.             *)
RecordChangeUncounted(r) ==
    /\ AuditEnds(r)
    /\ audit' = audit \cup {e \in {EntryOf(r)} : RowExists(call[r].user)}
    /\ UNCHANGED <<counted, dbErrors>>
RecordChange(r) ==
    /\ AuditEnds(r)
    /\ IF RowExists(call[r].user)
       THEN audit' = audit \cup {EntryOf(r)} /\ UNCHANGED counted
       ELSE counted' = counted \cup {r} /\ UNCHANGED audit
    /\ UNCHANGED dbErrors

(* A database error: before the commit, or after it (closing the session), *)
(* when the row is written and the failure counted all the same.           *)
RecordError(r) ==
    /\ AuditEnds(r)
    /\ dbErrors < MaxDbErrors
    /\ dbErrors' = dbErrors + 1
    /\ counted' = counted \cup {r}
    /\ \/ UNCHANGED audit
       \/ RowExists(call[r].user) /\ audit' = audit \cup {EntryOf(r)}

(* The connection is lost during a statement of the handler...             *)
DbError(r) ==
    /\ pc[r] \in InHandler
    /\ dbErrors < MaxDbErrors
    /\ dbErrors' = dbErrors + 1
    /\ Fail(r, 500)
    /\ UNCHANGED <<tables, counted, session, crashes>>

(* ... or after COMMIT took effect and before its answer came back.        *)
CommitAnswerLost(r) ==
    /\ pc[r] = "commit"
    /\ dbErrors < MaxDbErrors
    /\ dbErrors' = dbErrors + 1
    /\ KeyHolds(r)
    /\ ApplyUpdate(r)
    /\ Fail(r, 500)
    /\ UNCHANGED <<users, audit, counted, call, seen, obj, crashes>>

(* The process dies: requests and background tasks in flight are gone, and *)
(* so is the in-memory failure tracker.  The database stays.               *)
Crash ==
    /\ crashes < MaxCrashes
    /\ crashes' = crashes + 1
    /\ pc' = [r \in Requests |-> IF pc[r] \in InFlight THEN "crashed" ELSE pc[r]]
    /\ counted' = {}
    /\ UNCHANGED <<tables, session, reply, dbErrors>>
-----------------------------------------------------------------------------
(* Admin operations on accounts, as their commits change the tables.       *)
RegisterAccount(u) ==
    RegisterUser(u)
    /\ UNCHANGED <<leads, audit, counted, pc, session, reply, faults>>

DeactivateAccount(u) ==
    DeactivateUser(u)
    /\ UNCHANGED <<leads, audit, counted, pc, session, reply, faults>>

ReactivateAccount(u) ==
    ReactivateUser(u)
    /\ UNCHANGED <<leads, audit, counted, pc, session, reply, faults>>

(* ON DELETE SET NULL, on leads.reached_out_by_id and audit_logs.user_id.  *)
Uncredit(row, u) == IF row.by = u THEN [row EXCEPT !.by = None] ELSE row
AnonymiseNot(e, u) == e
Anonymise(e, u)  == IF e.user = u THEN [e EXCEPT !.user = None] ELSE e

DeleteAccount(u) ==
    /\ DeleteUser(u)
    /\ leads' = [l \in Leads |-> Uncredit(leads[l], u)]
    /\ audit' = {Anonymise(e, u) : e \in audit}
    /\ UNCHANGED <<counted, pc, session, reply, faults>>

(* Every request has ended: stuttering here is not a deadlock.             *)
Quiescent ==
    /\ \A r \in Requests : pc[r] \in {"done", "crashed"}
    /\ UNCHANGED vars

Handler(r) ==
    \/ Authenticate(r)
    \/ LoadLead(r)
    \/ GuardAndAssign(r)
    \/ Flush(r)
    \/ Commit(r)
    \/ Refresh(r)
    \/ RecordChange(r)

Fault(r) == RecordError(r) \/ DbError(r) \/ CommitAnswerLost(r)

AccountChange(u) ==
    \/ RegisterAccount(u)
    \/ DeactivateAccount(u)
    \/ ReactivateAccount(u)
    \/ DeleteAccount(u)

Next ==
    \/ \E r \in Requests : Start(r) \/ Handler(r) \/ Fault(r)
    \/ \E u \in Users : AccountChange(u)
    \/ Crash
    \/ Quiescent

Spec == Init /\ [][Next]_vars

(* The event loop resumes every handler and background task, and the       *)
(* database answers or raises; clients, admins and faults owe nothing.     *)
FairSpec == Spec /\ \A r \in Requests : WF_vars(Handler(r))
-----------------------------------------------------------------------------
(* Properties.                                                             *)

(* The typed states: every variable holds what its column or local may.    *)
TypeOK ==
    /\ users \in [Users -> AccountStatus]
    /\ leads \in [Leads -> LeadRow]
    /\ audit \subseteq Entry
    /\ counted \subseteq Requests
    /\ pc \in [Requests -> Label]
    /\ call \in [Requests -> Call \cup {NoCall}]
    /\ \A r \in Requests : pc[r] # "idle" => call[r] \in Call
    /\ seen \in [Requests -> LeadRow]
    /\ obj \in [Requests -> LeadRow]
    /\ status \in [Requests -> {0, 200, 400, 401, 403, 404, 500}]
    /\ shown \in [Requests -> Users \cup {None}]
    /\ was \in [Requests -> LeadState \cup {None}]
    /\ crashes \in 0..MaxCrashes
    /\ dbErrors \in 0..MaxDbErrors

(* A marking request of user u on lead l whose UPDATE was committed.       *)
Marked(r, l) ==
    /\ call[r].lead = l
    /\ call[r].target = "REACHED_OUT"
    /\ was[r] # None

(* The time of contact is present exactly on the reached-out leads, and it *)
(* was taken by a request that did mark that lead: partial, column-wise    *)
(* UPDATEs from stale snapshots never leave a state without its stamp.     *)
StampIffReachedOut ==
    \A l \in Leads :
        /\ leads[l].state = "REACHED_OUT" <=> leads[l].at # None
        /\ leads[l].at # None => Marked(leads[l].at, l)

(* A lead credits only an account that still exists and whose own          *)
(* committed request marked this lead; deletion races leave no dangling or *)
(* invented credit.                                                        *)
CreditIsEarned ==
    \A l \in Leads : leads[l].by # None =>
        /\ RowExists(leads[l].by)
        /\ \E r \in Requests : Marked(r, l) /\ call[r].user = leads[l].by

(* A response credits only an account whose own committed request marked   *)
(* the lead, and shows an attorney no account but their own: whatever was  *)
(* committed between this request's commit and its refresh.                *)
ResponseIsEarned ==
    \A r \in Requests : shown[r] # None =>
        /\ \E q \in Requests :
             Marked(q, call[r].lead) /\ call[q].user = shown[r]
        /\ call[r].user \notin Admins => shown[r] = call[r].user

(* A lead leaves PENDING once: no two requests both replaced PENDING by    *)
(* REACHED_OUT, and the lead is reached out iff one did.                   *)
FirstMarks(l) == {r \in Requests : Marked(r, l) /\ was[r] = "PENDING"}

LatchedOnce ==
    \A l \in Leads :
        /\ \A r, q \in FirstMarks(l) : r = q
        /\ leads[l].state = "REACHED_OUT" <=> FirstMarks(l) # {}

(* The audit trail names no change that was not committed and answered     *)
(* with 200, and no user but the caller (or nobody, once deleted).         *)
AuditIsBacked ==
    \A e \in audit :
        /\ status[e.req] = 200
        /\ e.lead = call[e.req].lead /\ e.new = call[e.req].target
        /\ e.new = "REACHED_OUT" => Marked(e.req, e.lead)
        /\ e.user \in {call[e.req].user, None}
        /\ e.user # None => RowExists(e.user)

(* REACHED_OUT is final, although the guard that refuses to go back reads  *)
(* a snapshot that may be stale by the time the UPDATE runs.               *)
NeverReverts ==
    [][\A l \in Leads :
         leads[l].state = "REACHED_OUT" => leads'[l].state = "REACHED_OUT"]_vars

(* A caller whose account is deleted before the UPDATE is issued changes   *)
(* no lead, whatever the handler had already read or checked.              *)
DeletedBeforeUpdate(r) ==
    /\ pc[r] \in {"auth", "load", "guard", "flush"}
    /\ users[call[r].user] = "deleted"

DeletedCallerWritesNothing ==
    \A r \in Requests : [](DeletedBeforeUpdate(r) => [](was[r] = None))

(* A committed change ends up in the audit trail or counted by the failure *)
(* tracker, unless its caller was told 500 or the process died before the  *)
(* background task ran.                                                    *)
Accounted(r) ==
    \/ \E e \in audit : e.req = r
    \/ r \in counted
    \/ pc[r] = "crashed"

ChangeIsAccounted ==
    \A r \in Requests :
        pc[r] = "refresh" /\ was[r] # None ~> Accounted(r) \/ status[r] = 500

(* No request is stuck behind another, a policy or a fault.                *)
EveryRequestEnds ==
    \A r \in Requests : pc[r] = "auth" ~> pc[r] \in {"done", "crashed"}

(* The table, seen without the handlers, is the latch of LeadLatch.        *)
Latch == INSTANCE LeadLatch WITH Stamps <- Requests

ImplementsLatch == Latch!Spec
-----------------------------------------------------------------------------
(* The inductive invariant: what each request knows while it runs.         *)

BeforeCommit == {"idle", "auth", "load", "guard", "flush", "commit"}

(* A snapshot is a lead row of the past: consistent in itself, without the *)
(* stamp this request is about to set, and never ahead of the table.       *)
SnapshotIsPast(r) ==
    /\ seen[r].state = "REACHED_OUT" <=> seen[r].at # None
    /\ seen[r].state = "PENDING" => seen[r].by = None
    /\ seen[r].state = "REACHED_OUT" => leads[call[r].lead].state = "REACHED_OUT"
    /\ seen[r].at # r

RequestInv(r) ==
    /\ pc[r] \in BeforeCommit => was[r] = None
    /\ pc[r] \in {"guard", "flush", "commit"} => SnapshotIsPast(r)
    /\ pc[r] \in {"flush", "commit"} => obj[r] = Assigned(r) /\ ~Refused(r)
    /\ pc[r] = "commit" => obj[r] # seen[r]
    /\ pc[r] \in {"refresh", "record"} /\ call[r].target = "REACHED_OUT"
          => was[r] # None
    /\ pc[r] \in {"idle"} \cup InHandler => status[r] # 200
    /\ pc[r] = "record" => status[r] = 200

PendingIsUncredited ==
    \A l \in Leads : leads[l].state = "PENDING" => leads[l].by = None

IInv ==
    /\ TypeOK
    /\ \A r \in Requests : RequestInv(r)
    /\ PendingIsUncredited
    /\ StampIffReachedOut
    /\ CreditIsEarned
    /\ LatchedOnce
    /\ AuditIsBacked
-----------------------------------------------------------------------------
(* What the documents of the repository say; the code departs from it.     *)

(* The audit entry of a change has the state the change replaced.          *)
AuditHasOldState ==
    \A e \in audit : was[e.req] # None => e.old = was[e.req]
=============================================================================
