----------------------------- MODULE UserAdmin -----------------------------
(***************************************************************************)
(* The admin operations on accounts (api/routes/admin.py): create an       *)
(* attorney, deactivate, reactivate, delete.  Every request runs its       *)
(* handler statement by statement on a session of its own, interleaved     *)
(* with the others, with lost connections and crashes of the process.      *)
(*                                                                         *)
(* The handlers read the target once, decide, and write without reading    *)
(* again; the caller is checked once, at the start.  An UPDATE that finds  *)
(* its row gone is an error, a DELETE that finds it gone is not, and the   *)
(* unique index on the email is checked by the INSERT alone.               *)
(***************************************************************************)
EXTENDS Accounts, RowSecurity, Naturals

CONSTANTS Emails,
          EmailOf,      \* the email of each account, existing or not yet
          Requests,     \* admin requests, each used once
          None,
          MaxCrashes,   \* bound: process crashes
          MaxDbErrors   \* bound: statements or commits lost with the connection

Op == {"register", "deactivate", "reactivate", "delete"}

ASSUME EmailAssumption == EmailOf \in [Users -> Emails]

ASSUME NoneAssumption == None \notin Users \cup Op

ASSUME BoundsAssumption == MaxCrashes \in Nat /\ MaxDbErrors \in Nat

VARIABLES
    pc,        \* the next statement of each request
    call,      \* the operation, the token's user and the target
    status,    \* the HTTP status sent, 0 before
    audit,     \* the rows these requests added to audit_logs
    counted,   \* requests whose audit failure this process's tracker counted
    crashes, dbErrors

faults == <<crashes, dbErrors>>
vars   == <<users, pc, call, status, audit, counted, faults>>

Call   == [op : Op, caller : Users, target : Users]
NoCall == [op |-> None, caller |-> None, target |-> None]
Entry  == [req : Requests, op : Op, entity : Users, user : Users \cup {None}]

InHandler == {"auth", "load", "commit", "refresh"}
InFlight  == InHandler \cup {"record"}

EmailTaken(u) == \E v \in Users : RowExists(v) /\ EmailOf[v] = EmailOf[u]

Init ==
    /\ AccountsInit
    /\ \A u, v \in Users :
         RowExists(u) /\ RowExists(v) /\ EmailOf[u] = EmailOf[v] => u = v
    /\ pc = [r \in Requests |-> "idle"]
    /\ call = [r \in Requests |-> NoCall]
    /\ status = [r \in Requests |-> 0]
    /\ audit = {}
    /\ counted = {}
    /\ crashes = 0
    /\ dbErrors = 0
-----------------------------------------------------------------------------
Ctx(r) == [uid  |-> call[r].caller,
           role |-> IF call[r].caller \in Admins THEN "ADMIN" ELSE "ATTORNEY"]

Goto(r, label) == pc' = [pc EXCEPT ![r] = label] /\ UNCHANGED status

Answer(r, code, label) ==
    /\ pc' = [pc EXCEPT ![r] = label]
    /\ status' = [status EXCEPT ![r] = code]

Fail(r, code) == Answer(r, code, "done")

(* A new account is an attorney and its id a fresh UUID; every other id in *)
(* a request or a token is that of an account that has existed.            *)
Fresh(u) ==
    /\ users[u] = "absent" /\ u \notin Admins
    /\ \A q \in Requests : call[q].op = "register" => call[q].target # u

Start(r) ==
    /\ pc[r] = "idle"
    /\ \E c \in Call :
         /\ users[c.caller] # "absent"
         /\ IF c.op = "register" THEN Fresh(c.target) ELSE users[c.target] # "absent"
         /\ call' = [call EXCEPT ![r] = c]
    /\ Goto(r, "auth")
    /\ UNCHANGED <<users, audit, counted, faults>>

(* require_admin: the token's user is read through the users policies; its *)
(* activity and role are those of the row.                                 *)
RequireAdmin(r) ==
    LET u == call[r].caller
        visible == UserVisible(users, Ctx(r), u)
        admitted == users[u] = "active" /\ u \in Admins
    IN  /\ pc[r] = "auth"
        /\ \/ ~visible /\ Fail(r, 401)
           \/ visible /\ ~admitted /\ Fail(r, 403)
           \/ visible /\ admitted /\ Goto(r, "load")
        /\ UNCHANGED <<users, call, audit, counted, faults>>

(* The target as db.get returns it: the caller's own object is in the      *)
(* identity map since require_admin, when it was active.                   *)
IsCaller(r) == call[r].target = call[r].caller
Found(r)    == IsCaller(r) \/ UserVisible(users, Ctx(r), call[r].target)
Loaded(r)   == IF IsCaller(r) THEN "active" ELSE users[call[r].target]

SelfRefusedNot(r) == FALSE
SelfRefused(r) == call[r].op \in {"deactivate", "delete"} /\ IsCaller(r)

Pointless(r) ==
    \/ call[r].op = "deactivate" /\ Loaded(r) = "inactive"
    \/ call[r].op = "reactivate" /\ Loaded(r) = "active"

LoadTarget(r) ==
    /\ pc[r] = "load"
    /\ call[r].op # "register"
    /\ \/ ~Found(r) /\ Fail(r, 404)
       \/ Found(r) /\ (SelfRefused(r) \/ Pointless(r)) /\ Fail(r, 400)
       \/ Found(r) /\ ~SelfRefused(r) /\ ~Pointless(r) /\ Goto(r, "commit")
    /\ UNCHANGED <<users, call, audit, counted, faults>>

(* register_user first looks for the email; an admin sees every row.       *)
CheckEmail(r) ==
    /\ pc[r] = "load"
    /\ call[r].op = "register"
    /\ IF EmailTaken(call[r].target) THEN Fail(r, 400) ELSE Goto(r, "commit")
    /\ UNCHANGED <<users, call, audit, counted, faults>>
-----------------------------------------------------------------------------
(* What the flushed statement finds when it holds the row's lock, or the   *)
(* index entry's: the UPDATE or DELETE its row, the INSERT no such email.  *)
MatchesGoneRow(r) == call[r].op = "register" => ~EmailTaken(call[r].target)
MatchesTakenEmail(r) ==
    call[r].op # "register" => UserVisible(users, Ctx(r), call[r].target)
Matches(r) ==
    IF call[r].op = "register" THEN ~EmailTaken(call[r].target)
    ELSE UserVisible(users, Ctx(r), call[r].target)

StatusAfter == [register   |-> "active",   deactivate |-> "inactive",
                reactivate |-> "active",   delete     |-> "deleted"]

(* ON DELETE SET NULL on audit_logs.user_id.                               *)
Anonymise(e, u) == IF e.user = u THEN [e EXCEPT !.user = None] ELSE e

WriteUser(r) ==
    LET u == call[r].target
    IN  /\ users' = [users EXCEPT ![u] = StatusAfter[call[r].op]]
        /\ audit' = IF call[r].op = "delete" THEN {Anonymise(e, u) : e \in audit}
                    ELSE audit

(* IntegrityError and StaleDataError are 500; a DELETE of no row is only   *)
(* warned about, and answered like any other.                              *)
CommitRetries(r) ==
    /\ pc[r] = "commit"
    /\ IF Matches(r) THEN WriteUser(r) ELSE UNCHANGED <<users, audit>>
    /\ \/ Matches(r) /\ call[r].op = "delete" /\ Answer(r, 204, "record")
       \/ Matches(r) /\ call[r].op # "delete" /\ Goto(r, "refresh")
       \/ ~Matches(r) /\ Goto(r, "commit")
    /\ UNCHANGED <<call, counted, faults>>
Commit(r) ==
    /\ pc[r] = "commit"
    /\ IF Matches(r) THEN WriteUser(r) ELSE UNCHANGED <<users, audit>>
    /\ \/ call[r].op = "delete" /\ Answer(r, 204, "record")
       \/ call[r].op # "delete" /\ Matches(r) /\ Goto(r, "refresh")
       \/ call[r].op # "delete" /\ ~Matches(r) /\ Fail(r, 500)
    /\ UNCHANGED <<call, counted, faults>>

(* db.refresh(user) after the commit: the row may be gone again.           *)
Refresh(r) ==
    /\ pc[r] = "refresh"
    /\ IF UserVisible(users, Ctx(r), call[r].target)
       THEN Answer(r, IF call[r].op = "register" THEN 201 ELSE 200, "record")
       ELSE Fail(r, 500)
    /\ UNCHANGED <<users, call, audit, counted, faults>>

(* record_action, in the background: the acting user's key must hold.      *)
EntryOf(r) == [req |-> r, op |-> call[r].op, entity |-> call[r].target,
               user |-> call[r].caller]

AuditEnds(r) ==
    /\ pc[r] = "record"
    /\ Goto(r, "done")
    /\ UNCHANGED <<users, call, crashes>>

RecordActionUncounted(r) ==
    /\ AuditEnds(r)
    /\ audit' = audit \cup {e \in {EntryOf(r)} : RowExists(e.user)}
    /\ UNCHANGED <<counted, dbErrors>>
RecordAction(r) ==
    /\ AuditEnds(r)
    /\ IF RowExists(call[r].caller)
       THEN audit' = audit \cup {EntryOf(r)} /\ UNCHANGED counted
       ELSE counted' = counted \cup {r} /\ UNCHANGED audit
    /\ UNCHANGED dbErrors

(* The audit session fails, before or after its commit took effect.        *)
RecordError(r) ==
    /\ AuditEnds(r)
    /\ dbErrors < MaxDbErrors
    /\ dbErrors' = dbErrors + 1
    /\ counted' = counted \cup {r}
    /\ \/ UNCHANGED audit
       \/ RowExists(call[r].caller) /\ audit' = audit \cup {EntryOf(r)}

DbError(r) ==
    /\ pc[r] \in InHandler
    /\ dbErrors < MaxDbErrors
    /\ dbErrors' = dbErrors + 1
    /\ Fail(r, 500)
    /\ UNCHANGED <<users, call, audit, counted, crashes>>

CommitAnswerLost(r) ==
    /\ pc[r] = "commit"
    /\ dbErrors < MaxDbErrors
    /\ dbErrors' = dbErrors + 1
    /\ Matches(r) /\ WriteUser(r)
    /\ Fail(r, 500)
    /\ UNCHANGED <<call, counted, crashes>>

Crash ==
    /\ crashes < MaxCrashes
    /\ crashes' = crashes + 1
    /\ pc' = [r \in Requests |-> IF pc[r] \in InFlight THEN "crashed" ELSE pc[r]]
    /\ counted' = {}
    /\ UNCHANGED <<users, call, status, audit, dbErrors>>

(* Nothing is in flight: stuttering here is not a deadlock.                *)
Quiescent ==
    /\ \A r \in Requests : pc[r] \notin InFlight
    /\ UNCHANGED vars

Handler(r) ==
    \/ RequireAdmin(r)
    \/ LoadTarget(r)
    \/ CheckEmail(r)
    \/ Commit(r)
    \/ Refresh(r)
    \/ RecordAction(r)

Fault(r) == RecordError(r) \/ DbError(r) \/ CommitAnswerLost(r)

Next ==
    \/ \E r \in Requests : Start(r) \/ Handler(r) \/ Fault(r)
    \/ Crash
    \/ Quiescent

Spec == Init /\ [][Next]_vars

(* The event loop resumes every handler and background task.               *)
FairSpec == Spec /\ \A r \in Requests : WF_vars(Handler(r))
-----------------------------------------------------------------------------
(* Properties.                                                             *)

TypeOK ==
    /\ users \in [Users -> AccountStatus]
    /\ pc \in [Requests -> InFlight \cup {"idle", "done", "crashed"}]
    /\ call \in [Requests -> Call \cup {NoCall}]
    /\ \A r \in Requests : pc[r] # "idle" => call[r] \in Call
    /\ status \in [Requests -> {0, 200, 201, 204, 400, 401, 403, 404, 500}]
    /\ audit \subseteq Entry
    /\ counted \subseteq Requests
    /\ crashes \in 0..MaxCrashes
    /\ dbErrors \in 0..MaxDbErrors

(* No two accounts that exist share an email, although both registrations  *)
(* may have found it free.                                                 *)
UniqueEmails ==
    \A u, v \in Users :
        RowExists(u) /\ RowExists(v) /\ EmailOf[u] = EmailOf[v] => u = v

(* An answered creation has created its account, and an answered deletion  *)
(* has removed it for good, also when a racing request did the work: the   *)
(* DELETE that matches no row is answered 204 only because the row is gone.*)
AnswersHold ==
    \A r \in Requests :
        /\ status[r] = 201 => users[call[r].target] # "absent"
        /\ status[r] = 204 => users[call[r].target] = "deleted"

(* The users table behaves as the other modules assume: no interleaving of *)
(* stale decisions revives a deleted account or skips a status.            *)
ImplementsAccounts == AccountsSpec

ActiveAdmins == {u \in Admins : users[u] = "active"}

(* The service loses its last active admin only to a request whose own     *)
(* caller had already lost the right to make it: no admin can lock         *)
(* everybody out alone, and two can only by revoking each other at once.   *)
NoLoneLockout ==
    [][ActiveAdmins # {} /\ ActiveAdmins' = {}
         => \E r \in Requests :
              /\ pc[r] = "commit" /\ pc'[r] # "commit"
              /\ users[call[r].caller] # "active"]_vars

(* Once an operation is answered with success, it gets audited or its loss *)
(* counted by the tracker, unless the process dies first.                  *)
AnsweredIsAccounted ==
    \A r \in Requests :
        status[r] \in {200, 201, 204} /\ pc[r] = "record"
            ~> (\E e \in audit : e.req = r) \/ r \in counted \/ pc[r] = "crashed"

(* No request is stuck behind another, a policy or a fault.                *)
EveryRequestEnds ==
    \A r \in Requests : pc[r] = "auth" ~> pc[r] \in {"done", "crashed"}
-----------------------------------------------------------------------------
(* The inductive invariant: what holds of a request while it runs.         *)

Undecided == {"auth", "load", "commit"}

RequestInv(r) ==
    LET c == call[r]
    IN  /\ pc[r] = "idle" => c = NoCall /\ status[r] = 0
        /\ pc[r] \in InHandler => status[r] = 0
        /\ pc[r] # "idle" /\ c.op # "register" => users[c.target] # "absent"
        /\ pc[r] \in Undecided /\ c.op = "register" => users[c.target] = "absent"
        /\ c.op = "register" => c.target \notin Admins
        /\ pc[r] \in {"load", "commit", "refresh"} => c.caller \in Admins
        /\ pc[r] = "commit" => ~SelfRefused(r)
        /\ pc[r] = "refresh" => users[c.target] # "absent"

(* Two registrations never create the same account.                        *)
FreshTargets ==
    \A r, q \in Requests :
        call[r].op = "register" /\ call[q].op = "register"
            /\ call[r].target = call[q].target => r = q

IInv ==
    /\ TypeOK
    /\ \A r \in Requests : RequestInv(r)
    /\ FreshTargets
    /\ UniqueEmails
    /\ AnswersHold
=============================================================================
