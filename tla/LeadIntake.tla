----------------------------- MODULE LeadIntake -----------------------------
(***************************************************************************)
(* POST /api/leads: a prospect's form and resume become a stored file, a   *)
(* row of leads, messages and an audit entry.                              *)
(*                                                                         *)
(* No transaction spans these: the file is saved first, the row committed  *)
(* next, and then two background tasks run one after the other, the        *)
(* notification and the audit entry.  A task that raises takes the tasks   *)
(* behind it along, and one that hangs keeps them waiting.  Requests       *)
(* interleave with each other and with account changes; the disk, the      *)
(* database, the mail server and the process may fail at any step.  What   *)
(* Uploads decides about a file is a constant of the request here.         *)
(***************************************************************************)
EXTENDS Accounts, Naturals

CONSTANTS Requests,      \* submissions, each used once
          Emails,        \* addresses
          EmailOf,       \* the email of each account
          Fallback,      \* settings.attorney_email, perhaps an account's
          Channels,      \* the channels that may be configured
          MaxCrashes,    \* bound: process crashes
          MaxErrors      \* bound: failed database or storage operations

Channel == {"resend", "smtp", "log"}

ASSUME AddressAssumption == EmailOf \in [Users -> Emails] /\ Fallback \in Emails

ASSUME ChannelAssumption == Channels \subseteq Channel

ASSUME BoundsAssumption == MaxCrashes \in Nat /\ MaxErrors \in Nat

VARIABLES
    backend,   \* STORAGE_BACKEND, never changes
    channel,   \* the one channel of get_channels, never changes
    files,     \* per request: what is stored under its fresh key
    leads,     \* the requests whose row is committed
    pc, upload, status,
    todo,      \* addresses the notification still has to mail
    greeted,   \* requests whose receipt the channel was called for
    tried,     \* <<r, e>>: it was called to tell e of r
    audit,     \* requests with a lead_created row
    counted,   \* requests whose audit failure this process's tracker counted
    exhausted, \* hanging sends hold every thread of the default executor
    crashes, errors

config == <<backend, channel>>
faults == <<exhausted, crashes, errors>>
mail   == <<todo, greeted, tried>>
vars   == <<users, config, files, leads, pc, upload, status, mail, audit, counted, faults>>

FileState  == {"none", "partial", "whole"}
Verdict    == [valid |-> 201, bad_type |-> 400, mismatch |-> 400, too_large |-> 413]
Upload     == DOMAIN Verdict
NoUpload   == "none"
InHandler  == {"receive", "read", "open", "write", "insert"}
Background == {"lookup", "greet", "mail", "record"}
Ended      == {"done", "aborted", "crashed"}

(* The unique index: a deleted account's email may be registered again.    *)
OneAccountPerEmail ==
    \A u, v \in Users :
        RowExists(u) /\ RowExists(v) /\ EmailOf[u] = EmailOf[v] => u = v

Init ==
    /\ AccountsInit /\ OneAccountPerEmail
    /\ backend \in {"local", "s3"} /\ channel \in Channels
    /\ files = [r \in Requests |-> "none"]
    /\ leads = {}
    /\ pc = [r \in Requests |-> "idle"]
    /\ upload = [r \in Requests |-> NoUpload]
    /\ status = [r \in Requests |-> 0]
    /\ todo = [r \in Requests |-> {}]
    /\ greeted = {} /\ tried = {}
    /\ audit = {} /\ counted = {}
    /\ exhausted = FALSE /\ crashes = 0 /\ errors = 0
-----------------------------------------------------------------------------
Goto(r, label) == pc' = [pc EXCEPT ![r] = label] /\ UNCHANGED status

Answer(r, code, label) ==
    /\ pc' = [pc EXCEPT ![r] = label]
    /\ status' = [status EXCEPT ![r] = code]

Fail(r, code) == Answer(r, code, "done")

Error == errors < MaxErrors /\ errors' = errors + 1 /\ UNCHANGED <<exhausted, crashes>>

Submit(r) ==
    /\ pc[r] = "idle"
    /\ \E u \in Upload : upload' = [upload EXCEPT ![r] = u]
    /\ Goto(r, "receive")
    /\ UNCHANGED <<users, config, files, leads, mail, audit, counted, faults>>

(* The form is validated before the handler is called, and the rate        *)
(* limiter, a library, decides when it is.                                 *)
Receive(r) ==
    /\ pc[r] = "receive"
    /\ Fail(r, 422) \/ Fail(r, 429) \/ Goto(r, "read")
    /\ UNCHANGED <<users, config, files, leads, upload, mail, audit, counted, faults>>

(* save_resume: the whole upload is read and judged before any of it is    *)
(* stored.                                                                 *)
JudgeLate(r) ==
    /\ pc[r] = "read"
    /\ IF upload[r] = "mismatch"
       THEN Fail(r, 400) /\ files' = [files EXCEPT ![r] = "partial"]
       ELSE Goto(r, "open") /\ UNCHANGED files
    /\ UNCHANGED <<users, config, leads, upload, mail, audit, counted, faults>>
Judge(r) ==
    LET code == Verdict[upload[r]]
    IN  /\ pc[r] = "read"
        /\ IF code = 201 THEN Goto(r, "open") ELSE Fail(r, code)
        /\ UNCHANGED <<users, config, files, leads, upload, mail, audit, counted, faults>>

(* Opening a file for writing creates it; put_object is all or nothing.    *)
Open(r) ==
    /\ pc[r] = "open"
    /\ \/ /\ backend = "local"
          /\ files' = [files EXCEPT ![r] = "partial"] /\ Goto(r, "write")
       \/ /\ backend = "s3"
          /\ files' = [files EXCEPT ![r] = "whole"] /\ Goto(r, "insert")
    /\ UNCHANGED <<users, config, leads, upload, mail, audit, counted, faults>>

WriteRetries(r) ==
    /\ pc[r] = "write"
    /\ \/ files' = [files EXCEPT ![r] = "whole"] /\ Goto(r, "insert")
       \/ files' = [files EXCEPT ![r] = "none"] /\ Goto(r, "open")
    /\ UNCHANGED <<users, config, leads, upload, mail, audit, counted, faults>>
Write(r) ==
    /\ pc[r] = "write"
    /\ files' = [files EXCEPT ![r] = "whole"]
    /\ Goto(r, "insert")
    /\ UNCHANGED <<users, config, leads, upload, mail, audit, counted, faults>>

(* The disk is full, or the object store's answer is lost: what is stored  *)
(* stays.                                                                  *)
StorageErrorIgnored(r) ==
    /\ pc[r] \in {"open", "write"}
    /\ Error
    /\ Goto(r, "insert")
    /\ UNCHANGED <<users, config, files, leads, upload, mail, audit, counted>>
StorageError(r) ==
    /\ pc[r] \in {"open", "write"}
    /\ Error
    /\ \/ UNCHANGED files
       \/ backend = "s3" /\ files' = [files EXCEPT ![r] = "whole"]
    /\ Fail(r, 500)
    /\ UNCHANGED <<users, config, leads, upload, mail, audit, counted>>

(* create_lead, the answer and the scheduling of both tasks.               *)
InsertUncommitted(r) ==
    /\ pc[r] = "insert"
    /\ Answer(r, 201, "lookup")
    /\ UNCHANGED <<users, config, files, leads, upload, mail, audit, counted, faults>>
Insert(r) ==
    /\ pc[r] = "insert"
    /\ leads' = leads \cup {r}
    /\ Answer(r, 201, "lookup")
    /\ UNCHANGED <<users, config, files, upload, mail, audit, counted, faults>>

(* Before the commit took effect, or after it.                             *)
InsertError(r) ==
    /\ pc[r] = "insert"
    /\ Error
    /\ UNCHANGED leads \/ leads' = leads \cup {r}
    /\ Fail(r, 500)
    /\ UNCHANGED <<users, config, files, upload, mail, audit, counted>>
-----------------------------------------------------------------------------
(* list_active_attorney_emails, and notify_new_lead's fallback.            *)
AttorneysExisting == {u \in Users \ Admins : RowExists(u)}
Attorneys  == {u \in Users \ Admins : users[u] = "active"}
Recipients == IF Attorneys # {} THEN {EmailOf[u] : u \in Attorneys} ELSE {Fallback}

Lookup(r) ==
    /\ pc[r] = "lookup"
    /\ todo' = [todo EXCEPT ![r] = Recipients]
    /\ Goto(r, "greet")
    /\ UNCHANGED <<users, config, files, leads, upload, greeted, tried, audit, counted, faults>>

(* The query raises out of the first task, and the second never runs.      *)
LookupError(r) ==
    /\ pc[r] = "lookup"
    /\ Error
    /\ Goto(r, "aborted")
    /\ UNCHANGED <<users, config, files, leads, upload, mail, audit, counted>>

(* The channel is called, with the receipt for the prospect, whose address *)
(* may be anybody's, or with the news for one of the recipients.           *)
SendReceipt(r) ==
    /\ pc[r] = "greet"
    /\ greeted' = greeted \cup {r}
    /\ UNCHANGED <<todo, tried>>

SendNotice(r) ==
    /\ pc[r] = "mail"
    /\ \E e \in todo[r] :
         /\ todo' = [todo EXCEPT ![r] = @ \ {e}]
         /\ tried' = tried \cup {<<r, e>>}
    /\ UNCHANGED greeted

(* _dispatch: whether the channel has delivered, failed, or failed after   *)
(* delivering, it goes on with the next message.                           *)
DispatchUncaught(r) ==
    /\ Goto(r, IF todo'[r] = {} THEN "record" ELSE "mail") \/ Goto(r, "aborted")
    /\ UNCHANGED <<users, config, files, leads, upload, audit, counted, faults>>
Dispatch(r) ==
    /\ Goto(r, IF todo'[r] = {} THEN "record" ELSE "mail")
    /\ UNCHANGED <<users, config, files, leads, upload, audit, counted, faults>>

Greet(r) == SendReceipt(r) /\ Dispatch(r)
Mail(r)  == SendNotice(r) /\ Dispatch(r)

(* smtplib.SMTP is given no timeout: with a mail server that accepts the   *)
(* connection and says nothing more, send never returns.                   *)
Hang(r) ==
    /\ channel = "smtp"
    /\ SendReceipt(r) \/ SendNotice(r)
    /\ Goto(r, "hung")
    /\ UNCHANGED <<users, config, files, leads, upload, audit, counted, faults>>

(* Other submissions' sends hang, and hold all threads of asyncio's        *)
(* default executor, which to_thread and aiofiles share.                   *)
Exhaust ==
    /\ channel = "smtp" /\ ~exhausted
    /\ exhausted' = TRUE
    /\ UNCHANGED <<users, config, files, leads, pc, upload, status, mail, audit, counted,
                   crashes, errors>>

Waiting(r) ==
    /\ exhausted
    /\ \/ backend = "local" /\ pc[r] \in {"open", "write"}
       \/ channel = "smtp" /\ pc[r] \in {"greet", "mail"}

(* record_action for lead_created, which has no acting user.               *)
Record(r) ==
    /\ pc[r] = "record"
    /\ audit' = audit \cup {r}
    /\ Goto(r, "done")
    /\ UNCHANGED <<users, config, files, leads, upload, mail, counted, faults>>

RecordErrorUncounted(r) ==
    /\ pc[r] = "record"
    /\ Error
    /\ Goto(r, "done")
    /\ UNCHANGED <<users, config, files, leads, upload, mail, audit, counted>>
RecordError(r) ==
    /\ pc[r] = "record"
    /\ Error
    /\ counted' = counted \cup {r}
    /\ UNCHANGED audit \/ audit' = audit \cup {r}
    /\ Goto(r, "done")
    /\ UNCHANGED <<users, config, files, leads, upload, mail>>

Crash ==
    /\ crashes < MaxCrashes
    /\ crashes' = crashes + 1
    /\ pc' = [r \in Requests |->
                 IF pc[r] \in InHandler \cup Background \cup {"hung"}
                 THEN "crashed" ELSE pc[r]]
    /\ counted' = {} /\ exhausted' = FALSE
    /\ UNCHANGED <<users, config, files, leads, upload, status, mail, audit, errors>>

AccountChange ==
    /\ AccountsNext /\ OneAccountPerEmail'
    /\ UNCHANGED <<config, files, leads, pc, upload, status, mail, audit, counted, faults>>

(* Stuck until the process is restarted, for which only SMTP is a reason.  *)
Stalled(r) == channel = "smtp" /\ (pc[r] = "hung" \/ Waiting(r))

(* Nothing is in flight, or it waits for the mail server: stuttering here  *)
(* is not a deadlock of the model.                                         *)
Quiescent ==
    /\ \A r \in Requests : pc[r] \in Ended \cup {"idle"} \/ Stalled(r)
    /\ UNCHANGED vars

Handler(r) ==
    /\ ~Waiting(r)
    /\ \/ Receive(r)
       \/ Judge(r)
       \/ Open(r)
       \/ Write(r)
       \/ Insert(r)
       \/ Lookup(r)
       \/ Greet(r)
       \/ Mail(r)
       \/ Record(r)

Fault(r) ==
    /\ ~Waiting(r)
    /\ \/ StorageError(r)
       \/ InsertError(r)
       \/ LookupError(r)
       \/ Hang(r)
       \/ RecordError(r)

Next ==
    \/ \E r \in Requests : Submit(r) \/ Handler(r) \/ Fault(r)
    \/ AccountChange
    \/ Exhaust
    \/ Crash
    \/ Quiescent

Spec == Init /\ [][Next]_vars

(* The event loop resumes handlers and tasks whose await is over.  Storage *)
(* and database answer or raise, Resend gives up after ten seconds; that   *)
(* SMTP answers is not assumed: a send may be Hang's, and then none of the *)
(* handler's steps is left.                                                *)
FairSpec == Spec /\ \A r \in Requests : WF_vars(Handler(r))
-----------------------------------------------------------------------------
(* Properties.                                                             *)

TypeOK ==
    /\ users \in [Users -> AccountStatus]
    /\ backend \in {"local", "s3"} /\ channel \in Channels
    /\ files \in [Requests -> FileState]
    /\ leads \subseteq Requests
    /\ pc \in [Requests -> InHandler \cup Background \cup Ended \cup {"idle", "hung"}]
    /\ upload \in [Requests -> Upload \cup {NoUpload}]
    /\ \A r \in Requests : pc[r] # "idle" => upload[r] \in Upload
    /\ status \in [Requests -> {0, 201, 400, 413, 422, 429, 500}]
    /\ todo \in [Requests -> SUBSET Emails]
    /\ greeted \subseteq Requests /\ tried \subseteq Requests \X Emails
    /\ audit \subseteq Requests /\ counted \subseteq Requests
    /\ exhausted \in BOOLEAN
    /\ crashes \in 0..MaxCrashes /\ errors \in 0..MaxErrors

(* Every lead in the table has its whole, accepted resume in the store,    *)
(* whatever failed on the way: the file is complete before the row exists. *)
LeadHasResume ==
    \A r \in leads : files[r] = "whole" /\ upload[r] = "valid"

(* A submission refused with a 4xx leaves nothing behind, neither file nor *)
(* row nor message; orphaned files come only from failures and crashes.    *)
RefusedLeavesNothing ==
    \A r \in Requests :
        /\ status[r] \in {400, 413, 422, 429} => files[r] = "none" /\ r \notin leads
        /\ pc[r] \in Ended /\ files[r] # "none" /\ r \notin leads
               => status[r] = 500 \/ pc[r] = "crashed"

(* Nobody is told of a lead that is not in the table and was not           *)
(* acknowledged to its prospect; the audit trail has no such lead either.  *)
Untold(r) == r \notin greeted /\ r \notin audit /\ \A e \in Emails : <<r, e>> \notin tried

ToldOfLeads ==
    \A r \in Requests : Untold(r) \/ (r \in leads /\ status[r] = 201)

(* An address that no active attorney has from before the notification     *)
(* looks its recipients up, because its owner was deactivated without a    *)
(* return, deleted or never one, gets no news of the lead, whatever        *)
(* happens to the accounts during the mailing.  The one exception is       *)
(* settings.attorney_email, by default the documented first attorney's:    *)
(* while nobody is active it is mailed, dismissed or not.                  *)
NotYetLookedUp(r) == pc[r] \in InHandler \cup {"lookup"}

Dismissed(e) ==
    /\ \A u \in Users \ Admins : EmailOf[u] = e => users[u] # "active"
    /\ e = Fallback => \E u \in Users \ Admins : users[u] = "active"

DeactivatedIsNotTold ==
    \A r \in Requests, e \in Emails :
        [](NotYetLookedUp(r) /\ []Dismissed(e) => [](<<r, e>> \notin tried))

(* Everyone found by the lookup is mailed or at least tried, however many  *)
(* of the other messages fail, unless one of them hangs in SMTP or the     *)
(* process dies.                                                           *)
EveryoneIsTried ==
    \A r \in Requests, e \in Emails :
        pc[r] = "greet" /\ e \in todo[r]
            ~> <<r, e>> \in tried \/ pc[r] = "crashed" \/ Stalled(r)

(* A lead acknowledged to the prospect is audited, or the loss is counted, *)
(* unless the process dies, the attorney lookup fails first, or a send     *)
(* over SMTP keeps the audit task waiting for ever.                        *)
Accounted(r) == r \in audit \/ r \in counted \/ pc[r] = "crashed"

CreationIsAccounted ==
    \A r \in Requests :
        pc[r] = "lookup" ~> Accounted(r) \/ pc[r] = "aborted" \/ Stalled(r)

(* Every submission ends with an answer, and its tasks end; with SMTP it   *)
(* may instead hang after the answer, or, when hanging sends have used up  *)
(* the threads that local storage needs, before it.  Nothing else stalls.  *)
EverySubmissionEnds ==
    \A r \in Requests : pc[r] = "receive" ~> pc[r] \in Ended \/ Stalled(r)
-----------------------------------------------------------------------------
(* The inductive invariant: what is stored, committed and said while a     *)
(* submission is at each of its steps.                                     *)

RequestInv(r) ==
    /\ pc[r] \in {"idle"} \cup InHandler => status[r] = 0 /\ r \notin leads
    /\ pc[r] \in {"idle", "receive", "read", "open"} => files[r] = "none"
    /\ pc[r] \in {"open", "write", "insert"} => upload[r] = "valid"
    /\ pc[r] = "insert" => files[r] = "whole"
    /\ pc[r] \in Background \cup {"aborted", "hung"} => r \in leads /\ status[r] = 201
    /\ Untold(r) \/ (r \in leads /\ status[r] = 201)
    /\ pc[r] \in {"idle", "lookup", "aborted"} \cup InHandler => Untold(r)
    /\ pc[r] = "hung" => channel = "smtp"
    /\ pc[r] = "done" => status[r] # 0
    /\ pc[r] \in Ended /\ status[r] = 201 => r \in leads
    /\ r \in leads => pc[r] # "idle"

IInv ==
    /\ TypeOK
    /\ \A r \in Requests : RequestInv(r)
    /\ LeadHasResume
    /\ RefusedLeavesNothing
    /\ ToldOfLeads
-----------------------------------------------------------------------------
(* What the documents of the repository say; the code departs from it.     *)

(* "Records audit entries for all significant actions (lead state changes, *)
(* user management, lead creation, etc.)": recorded, or at least counted.  *)
EveryCreationIsAccounted ==
    \A r \in Requests : pc[r] = "lookup" ~> Accounted(r)
=============================================================================
