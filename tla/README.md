# TLA+ specifications of the lead management service

The service takes leads (a prospect's form and resume) from the public, and lets
attorneys mark them as reached out; admins manage the accounts of both. It is a
FastAPI application (`app/`) on PostgreSQL with row-level security
(`alembic/`), with a React front end (`frontend/admin/`). This directory
specifies its concurrent core: what the handlers do to shared state, statement
by statement, when they interleave, fail and crash; how processes and users come
to act on it; and what a browser shows of it.

## Inventory

| Part | State | Operations | What is hard | Correct means |
|------|-------|------------|--------------|---------------|
| Lead update (`routes/leads.py`, `lead_service.py`) | `leads` rows; per request: the token's user, the loaded object | `PATCH /api/leads/{id}` | stale snapshots, column-wise UPDATE, failures after the commit | REACHED_OUT is final, stamped, credited to somebody who did it, and audited |
| User administration (`routes/admin.py`, `auth_service.py`) | `users` rows | create, deactivate, reactivate, delete | decisions on stale rows, two admins at once, revoked callers, unique emails | one account per email, true answers, no lone lock-out, no revival of deleted accounts |
| Lead intake (`routes/leads.py`, `notification_service.py`) | files, `leads`, messages sent | `POST /api/leads` and two background tasks | several steps without a transaction; one task's failure drops the next; a mail server that never answers | a lead has its whole resume; refusals leave nothing; recipients are tried, dismissed ones are not; the creation is audited |
| Uploads (`file_service.py`, size limit in `main.py`) | bytes read, kept and joined | read, judge, save | two limits, unannounced lengths, boundaries, a second copy | one limit, bounded memory, whole files |
| File storage (`storage.py`) | files or objects | save, list, url | partial files, client-chosen suffixes | a stored resume is whole (listing is not modelled) |
| Row-level security (`alembic/versions/005`, `006`) | policies over the session's settings | decide each statement's rows | visibility changes between two statements of a handler | (met through the handlers) |
| Database sessions (`db/session.py`, `main.py`) | pooled connections with their settings | `get_db`, the audit service's sessions | settings outlive the session | statements run as their caller |
| Audit recording (`audit_service.py`) | `audit_logs`, the in-memory tracker | `record_action`, `audit_health` | background work, crashes, a lazily reset window | nothing invented, losses counted, alerts at the right failures |
| Authentication (`core/dependencies.py`) | none | `get_current_user`, `require_admin` | checked once, at the start | a deleted caller changes nothing |
| Login and tokens (`routes/auth.py`, `core/security.py`) | signed tokens, held by browsers | login, decode | a token outlives changes of its account; it is decoded twice, and may expire between | one acts only as the account that logged in, while it is active |
| Rate limiter (`core/rate_limit.py`) | counters of slowapi | admit, refuse | window boundaries | not modelled |
| Start-up (`db/seed.py`, lifespan in `main.py`) | `users` | seed two accounts | check-then-insert of several processes; failed starts | who serves has seeded; racing starts do not all fail |
| Listing, audit pages (`list_leads`, `get_all_audit_logs`) | none | counted pages | caller check, count and page are three statements; OFFSET paging over rows that change | a reading from first to last page misses only what moved |
| Front end, data pages (`LeadsPage.tsx`, `AuditTrailPage.tsx`) | data, filter, page, loading, error | fetch, filter, page, retry, mark | answers out of order, failures, a 401 in between | the screen shows what is chosen, says nothing untrue, does not load for ever |
| Front end, session (`AuthContext.tsx`, `api.ts`) | stored token, expiry timer | log in, log out, expire | two tabs, late answers of an old token | only the effect of a 401 on the page is modelled |

How they interact. Every request gets a session from `get_db`, on a pooled
connection whose settings carry the token's user id and role; the policies read
these settings in every statement. `get_current_user` and `require_admin` load
the caller on that session, so the caller's own object is in the session's
identity map when the handler loads "the target". Handlers commit, then answer,
then run background tasks in order; audit entries are written there, on a
session of the audit service. Accounts are shared state for everything: an
operation on an account may fall between any two statements of any handler.

## Modules

| Module | Models | Extends |
|--------|--------|---------|
| `Accounts` | the `users` table: status of each account, the committed effect of each operation, the promise `AccountsSpec` | |
| `RowSecurity` | the policies of migration 006 as predicates on the table and a session's context | |
| `LeadUpdate` | the PATCH handler, its audit task, faults, crashes | `Accounts`, `RowSecurity` |
| `LeadLatch` | abstract: what the `leads` table promises | `Accounts` |
| `UserAdmin` | the four admin operations, their audit task, faults, crashes | `Accounts`, `RowSecurity` |
| `LeadIntake` | the POST handler, storage, notification, audit, faults, crashes | `Accounts` |
| `Uploads` | the size limits and `save_resume`'s loop | |
| `AuditTracker` | `_AuditFailureTracker` with its clock | |
| `DbSession` | the connection pool and what `SET` leaves on it | |
| `Access` | starting and seeding processes, logins, tokens that expire, the admission of a request, admin operations | `Accounts`, `RowSecurity` |
| `LeadPages` | the server's side of the two paged lists, and what others do to their rows | `Accounts`, `RowSecurity` |
| `LeadsScreen` | a browser on such a list, composed with `LeadPages` | `LeadPages` |
| `MC*` | instances for TLC | the module they check |
| `*Proofs` | theorems | the module they prove about |

`Accounts` is used twice. `UserAdmin` proves that the racing handlers implement
`AccountsSpec`; `LeadUpdate`, `LeadIntake`, `Access` and `LeadPages` take the same
actions as their environment, one atomic step per committed operation, which is
what that refinement justifies.

### Correspondence with the code

*A handler* is a program counter `pc[r]` per request, one label per statement
that reads or writes the database (or the disk, or the mail service), because
these are the points where the event loop, and PostgreSQL, let others in. Code
between two awaits is one step with the statement before it.
A request id is used once, so it can also name what the request did: a stamp
`reached_out_at` is the request that took it.

*LeadUpdate* follows `update_lead_state` of the route and the service:
`Authenticate` (`dependencies.py:14`), `LoadLead` (the route's `get_lead`, from
which `old_state` comes), `GuardAndAssign` (the service's `get_lead` returns the
same object from the identity map; guard and assignments), `Flush` and `Commit`
(`db.commit()`), `Refresh`, `RecordChange`. `seen` is the object as loaded, `obj`
as assigned; `Merge` is SQLAlchemy's UPDATE of the changed columns only. The
UPDATE's policy is decided when the statement starts; the row as it stands when
the lock is granted is what it changes (READ COMMITTED).

*UserAdmin* follows `create_attorney`, `deactivate_user`, `reactivate_user` and
`delete_user`: `RequireAdmin`, `LoadTarget` or `CheckEmail`, `Commit`,
`Refresh` (not for deletion), `RecordAction`. `Matches` is what the flushed
statement finds: the unique index for an INSERT, the row and the policy for the
others. An UPDATE of no row raises, a DELETE of no row is only warned about.

*LeadIntake* follows `create_lead`: `Receive` (form and rate limit), `Judge`,
`Open` and `Write`, `Insert` (row, answer, scheduling of both tasks), then
`Lookup`, `Greet`, `Mail` (`_notify_new_lead`) and `Record`. An exception of the
lookup ends the chain (`aborted`), one of a channel does not (`Dispatch`). `backend`
and `channel` are the configured storage and mail channel, chosen once in `Init`.
`greeted` and `tried` are the calls of the channel, for the receipt and for the
news to each address; whether a call delivers or fails changes nothing after it.
An address is not a person: the fallback may be an account's, the prospect's is
anybody's, and a deleted account's may be registered again (`EmailOf`).
`smtp_email.py:37` opens its connection without a timeout, so with `channel =
"smtp"` a send may never return (`Hang`; `hung` until the process dies). Each such
send also holds a thread of asyncio's default executor, which `to_thread` shares
with aiofiles: `Exhaust` is the moment when other submissions' sends hold them
all, and from then on a submission about to use a thread is `Waiting`.

*Uploads* follows `limit_request_size` and `save_resume` for one file; sizes are
numbers and a magic is the type it stands for. `kept` is what the list of chunks
holds, `contents` their concatenation, which exists beside them.

*AuditTracker* has one action per method, each under the tracker's lock, and a
clock. *DbSession* has `get_db`'s two SETs, statements, commits and closes;
`live` is what statements run under, `kept` what a rollback falls back to.

*Access* has three kinds of actors. A process starts (`Start`), runs `_seed_user`
for the admin and then the attorney (`SeedCheck`, `SeedInsert`; `at` is which of
the two), and then serves; an exception leaves the lifespan and the process
fails. A visit is a browser with at most one token and one request: `Login` is
`routes/auth.py` with `authenticate_user`, `Arrive` is `set_rls_context`, `Decode`
and `LoadCaller` are the two awaits of `get_current_user`, and `Handle` is a
handler, which for an admin may be one of the operations of `routes/admin.py`.
`age` is the token's age, `arrived` the age it had when the context was set: the
context is blank when it had expired then, and the request is refused when it
has expired since. Several accounts may have had one email, one after the other;
a token names the account, not the email.

*LeadPages* has one action per statement of a list request: `Admit`, `Count`,
`Read`. A row is its rank by `created_at`, which the application takes before the
commit, so a row may appear between others. *LeadsScreen* has one action per
button and per arriving answer. `Fetch` is the change of filter or page together
with the effect that starts the request; `newest` is the request started last,
and `inOrder`, a history variable, says whether an older answer has arrived since
the newest one's. `scan` is another: it follows a user who reads page after page,
and counts the rows that leave the list or enter it meanwhile.

### External behaviour that is assumed

* SQLAlchemy: the identity map, UPDATEs of changed columns, an error for an
  UPDATE that matches no row, a warning for such a DELETE, an error for a
  refresh that finds no row, `expire_on_commit=False` (set in `session.py`).
* PostgreSQL: READ COMMITTED, foreign keys with ON DELETE SET NULL checked
  without regard to policies, a unique index on the email, `SET` undone by
  rollback and kept by commit.
* asyncio: `to_thread` and aiofiles share the default executor, of a bounded
  number of threads.
* Starlette: background tasks run in order after the response, an exception
  ends the chain; a handler that raises schedules none.
* python-jose refuses a token once its `exp` is in the past, with no leeway.
* React applies the assignments of one event handler in one render, and runs an
  effect when what it depends on has changed. The second run of effects that
  StrictMode makes in development builds is left out.
* No two rows have the same `created_at` (microseconds): with equal times the
  order of a page would be PostgreSQL's choice at each query.
* `put_object` stores an object whole or not at all; a file opened for writing
  exists before it is complete.

Definitions for these are marked external in the map of `PROJECT.json` where
they stand for no line of the repository.

## Runs

Passing runs:

| Run | Instance | Asks |
|-----|----------|------|
| `lead_races` | 3 requests, 1 lead, an attorney and an admin whose accounts change; no faults | `StampIffReachedOut`, `CreditIsEarned`, `LatchedOnce`, `NeverReverts`: is the row sound whatever the snapshots were? `ResponseIsEarned`: does a response credit only somebody who did it? |
| `lead_faults` | 2 requests, 1 lead, a crash, a lost connection, fairness | `TypeOK`; `AuditIsBacked`, `ImplementsLatch`: is nothing invented, and does the table keep `LeadLatch`'s promise? `ChangeIsAccounted`, `EveryRequestEnds`, `DeletedCallerWritesNothing`: what becomes of each request? |
| `user_admin` | 2 requests, 2 admins, 2 accounts that want one email, a crash, a lost connection, fairness | `UniqueEmails`, `AnswersHold`, `NoLoneLockout`, `ImplementsAccounts`, `AnsweredIsAccounted`, `EveryRequestEnds` |
| `lead_intake` | 1 submission on either backend, over SMTP, which may hang, or a channel that returns; an admin and 3 attorneys who change, one the owner of the fallback address, two with one email in turn; a failure, a crash, fairness | `LeadHasResume`, `RefusedLeavesNothing`, `ToldOfLeads`, `DeactivatedIsNotTold`, `EveryoneIsTried`, `CreationIsAccounted`, `EverySubmissionEnds` |
| `uploads` | files of 0..9 units, overheads of 0..4, limit 5, margin 2, chunks of 2 | `AcceptedIffAcceptable`, `MemoryBounded`, `StoredWhole` |
| `tracker` | window of 3 ticks, 7 ticks, 7 failures | `CriticalEveryThird`, `AlertedIffDegraded`, `ReportIsCurrent` |
| `db_session` | 3 tasks, 2 connections, an attorney and an admin | `CallerContext`, `NoMixedContext` |
| `access` | 2 processes that seed an admin and an attorney, 2 browsers, 4 accounts under 2 emails, a lifetime of one tick, a crash, a lost connection | `ServingIsSeeded`, `SomeStartSucceeds`: does every start that should succeed? `ActsAsLoggedIn`: does a token ever work for another account with the same email, or for one that is revoked? `OnlySeedingReopens`: is a lock-out final for the tokens that are around? |
| `leads_screen` | an attorney on the leads page and an admin on the audit trail, each with 2 overlapping requests on 1 or 2 rows and with 1 on 2 or 3; pages of one row; a marking, others' markings, new rows, failures, revocation; fairness | `ScanMissesFew`: how much can reading page by page miss? `ReachedOutIsTrue`, `SettledShowsChoice`: is what is shown true, and what was asked for? `LoadingEnds` |

Type invariants are run in `lead_faults` and proved in every proof module.

Runs that show a disagreement between the code and a text of the repository
(each has one property, stating the text, and fails):

| Run | Text | What the code does |
|-----|------|--------------------|
| `lead_old_state` | the spec: an entry captures the before-state | the before-state is that of the snapshot |
| `db_session_leftover` | `main.py:80`, ADR 004: SET LOCAL | SET, which stays on the pooled connection |
| `lead_intake_unaudited` | `audit_service.py:4`: audit entries for all significant actions, lead creation among them | an exception of the attorney lookup drops the audit task queued behind it |

Noted while modelling; no run repeats these:

* `knowledge/spec/2026-03-04.md:91` sends the news of a lead to all active
  attorneys. With nobody active, `notification_service.py:59` mails
  `settings.attorney_email`, which defaults to `attorney@alma.com`
  (`config.py:38`), the address of the attorney whom the README creates first
  (`README.md:178`): deactivated, that attorney is still told.
  `DeactivatedIsNotTold` has that exception; without it TLC finds the case.
* `README.md:317` recommends SMTP, whose sends have no timeout. A server that
  accepts and never answers keeps later recipients unmailed and the audit entry
  unwritten and uncounted; enough of them keep uploads to local storage from being
  answered at all. `EveryoneIsTried`, `CreationIsAccounted` and `EverySubmissionEnds`
  have this exception (`Stalled`), which takes `channel = "smtp"`; without it TLC
  finds each of these. Where `audit_service.py:4` says "all significant actions",
  this is a second way to lose one, besides `lead_intake_unaudited`'s.
* `tests/test_admin.py:286` expects 403 for a token whose attorney was
  deactivated. The test runs on SQLite; under the policies the attorney's own row
  is invisible, and the answer is 401 (`Authenticate` in `LeadUpdate`).
* `knowledge/spec/2026-03-04.md:75` records every significant action. A refresh
  that fails after the commit of a marking, because its caller has just been
  revoked, leaves the change unaudited and uncounted: `ChangeIsAccounted` has
  that exception, an answer of 500.
* `knowledge/spec/2026-03-04.md:221` seeds on the first start. `seed.py` runs at
  every start: an admin hard-deleted through the API is back, with the
  configured password, when a process starts again (`OnlySeedingReopens`).
* Seeding looks for the email only (`seed.py:20`): when an attorney has it, or
  the admin is deactivated, nothing is seeded, and a restart does not restore
  access. `ServingIsSeeded` promises no more than an account.
* `api.ts:53` clears whatever token is stored when any answer is 401, also one
  that another tab has stored after the refused request was sent.
* The button of a lead is disabled while `updating` names it (`LeadsPage.tsx:37`),
  which holds one lead: pressing a second lead's button enables the first again.
* `tests/test_leads.py:365` expects the response to a marking to name the
  caller. `reached_out_by` is read again after the commit, through the policies,
  so when somebody else marked the lead in between it names them to an admin,
  and nobody to an attorney, who sees no account but their own. `ResponseIsEarned` says what does hold.
* `audit_service.py:40` calls the failure count's window rolling. The count is
  reset as a whole, at the first call after 300 seconds, so failures a few
  seconds old may be forgotten.
* `routes/admin.py:125` lists "all uploaded files". The local backend lists only
  `.pdf` and `.docx` (`storage.py:69`), and `build_key` keeps the suffix that the
  client sent, so a resume accepted by its content may be stored and not listed.

* `knowledge/spec/2026-03-04.md:77` names "resume downloaded" among the audited
  actions: no route records it.
* `knowledge/adr-004-audit-trail.md:50` opens a lead's audit log to all
  authenticated users: `routes/leads.py:151` is for admins.
* `knowledge/adr-002-admin-role-rbac.md:14` makes the first registered user an
  admin: accounts are created by admins, and the first is seeded.

### Bounds, and why they are enough

Every bound is a constant: `MaxCrashes`, `MaxDbErrors`, `MaxErrors`, `MaxTime`,
`MaxFailures`, `MaxRows`, the bounds of each of `Views`, and the sizes of the
sets. Three requests on one lead are needed
for a stale writer to meet both a marking and its re-marking; requests on
different leads meet only in the accounts, which change freely around every
request. Two admin requests are what mutual revocation and the race of two
registrations for one email need. One crash and one error reach every label; in
`LeadIntake` an error ends the submission or its tasks, so a second one would not
happen. One submission is enough because submissions share nothing but the
accounts and the executor's threads, and `Exhaust` stands for all that others may
do to those. Of the channels `resend` and `log` have the same steps, so the run
has `log`; the theorems have all three.
Nine size units put files below, at and above both limits, with whole and partial
last chunks. Windows and thresholds of the tracker are reached at least twice.
In `access` two processes are enough for a lost race, and a third email-sharing
account would only repeat what the second does; an account is created once, so
the set of accounts bounds how often an email can be deleted and registered
again (`OutOfIds` is the seed for which none is left). One tick of lifetime
separates a token that is fresh, one about to expire and an expired one. In
`leads_screen` an older answer needs two requests to overtake; a row missed by
paging needs two pages and a change between them; the audit trail has three.
Only one marking is in flight in a browser at a time: markings meet in the rows,
where others' are free.
The theorems below remove the bounds for the properties they cover.

Symmetry is used only in `lead_races`, `db_session` and `access`, which have no
liveness property, on sets whose members differ in nothing but identity: requests,
sessions, connections, processes, browsers, and two accounts with the same email
and role. Admins and attorneys are not exchanged. The action properties checked
with it are unchanged by these permutations.

### Deadlock and fairness

Deadlock is checked in every run. `Quiescent` (`Done` in `Uploads`) is the
legitimate stop: no request is in flight. It is not a part of any handler.
In `Access` it also asks that no process is in the middle of its start; in
`LeadsScreen`, that every answer has arrived.

`FairSpec` is weak fairness of each request's handler, background tasks
included: the event loop resumes a coroutine whose await is over, the database
answers or raises (locks are held for one statement and its commit, so nobody
waits for ever), storage writes or raises once it has a thread, Resend has a
timeout. Starting requests, admin operations, faults and crashes are not fair.
Nothing is assumed of SMTP: `Hang` and `Exhaust` take the step away that fairness
would ask for, and the liveness properties of `LeadIntake` say so (`Stalled`). What
exhausted threads do to the other handlers is not modelled: a new database
connection resolves its host on the same executor, and `LeadUpdate` and
`UserAdmin` take it for granted that it gets there.

`LeadsScreen` is fair to the service and the network as a whole: while a request
is under way, some request's next statement is executed or some answer arrives,
because a browser's `fetch` ends, with an answer or with a network error, which
`Break` stands for. Which request comes next is left open. Nothing that the user does is fair, and no start of a process
is; `Access` and `Uploads` state no fairness.

## Proofs

TLAPS checks these for every number of accounts, requests, leads, connections,
crashes and errors:

| Module | Theorems |
|--------|----------|
| `LeadUpdateProofs` | `TypeCorrect`, `Inductive`, `Stamped`, `Earned`, `Once`, `Backed`, `Final` (`NeverReverts`), `Refinement` (`ImplementsLatch`), `Credited` (`ResponseIsEarned`), `DeletionHolds` (`DeletedCallerWritesNothing`), `ChangeKept`, `AuditSingle`, `Forward` |
| `UserAdminProofs` | `Inductive`, `TypeCorrect`, `Unique`, `Answers`, `Refinement` (`ImplementsAccounts`), `LockoutTakesTwo` (`NoLoneLockout`), `Ordered`, `AnswerKept`, `TrailTrue`, `Forward` |
| `LeadIntakeProofs` | `Inductive`, `TypeCorrect`, `Resumes` (`LeadHasResume`), `Refusals` (`RefusedLeavesNothing`), `Told` (`ToldOfLeads`), `DismissedIsNotTold` (`DeactivatedIsNotTold`), `MailedOnce`, `NobodySkipped`, `AnswerKept`, `Forward` |
| `AccessProofs` | `Inductive`, `TypeCorrect`, `SeededBeforeServing` (`ServingIsSeeded`), `StartSucceeds` (`SomeStartSucceeds`), `Admission` (`ActsAsLoggedIn`), `Reopening` (`OnlySeedingReopens`) |
| `LeadsScreenProofs` | `Inductive`, `TypeCorrect`, `Truthful` (`ReachedOutIsTrue`), `Settled` (`SettledShowsChoice`), `PagesAreDisjoint`, `PagesCover`, `ScanInductive`, `ReadingMissesFew` (`ScanMissesFew`), `LoadingAsked`, `NotBlank` |
| `UploadProofs` | `Inductive`, `TypeCorrect`, `Bounded`, `Accepted`, `Whole` |
| `AuditTrackerProofs` | `Inductive`, `TypeCorrect`, `Escalation` (`CriticalEveryThird`), `Latch` (`AlertedIffDegraded`), `Current` (`ReportIsCurrent`) |
| `DbSessionProofs` | `Inductive`, `TypeCorrect`, `ContextIsolation` (`CallerContext`), `NoMixing` (`NoMixedContext`) |

The assumptions are the named ASSUMEs of the modules, and no others:

* `AdminsAssumption` (`Accounts`): admins are accounts. `NoneAssumption`,
  `CallersAssumption`: `None` is none of the values it is an alternative to.
* `BoundsAssumption`, `WindowAssumption`, `SizeAssumption`, `SizesAssumption`: bounds,
  limits and sizes are numbers; a chunk, a page and a window are not empty.
* `EmailAssumption` (`UserAdmin`, `Access`): every account has an email, not
  necessarily one of its own. `AddressAssumption` (`LeadIntake`): so it has there,
  and `settings.attorney_email` is an address, perhaps one of theirs.
* `ChannelAssumption`, `SettingsAssumption`, `FiltersAssumption`, `ViewsAssumption`: what
  may be configured or chosen is among what the code knows, and the audit page
  is in the menu of admins only.

Every invariant and every action property of a
passing run is a theorem. The theorems without a property in parentheses state
their formula in the proof module; it was first checked on the instances of the
runs above.

*Halves of liveness.* A liveness property says that something ends and how. How is
proved: what has ended is accounted for (`ChangeKept`, `AnswerKept`), a mailing that
is over has tried everyone (`NobodySkipped`), a page that says it loads has asked
(`LoadingAsked`). That it ends is proved up to fairness: a request's own steps go
forward through its labels, nothing else takes it back, and only the mailing stays
at a label, with one addressee fewer each time (`Forward`). What is left to TLC is that
a started request always has a step to take, and that fairness then takes it.

*LeadUpdate.* The table properties are not inductive: a commit writes columns
chosen by comparing two snapshots, so the proof needs to know what a snapshot
can be. `SnapshotIsPast` says that it is a row of the past of the same lead,
consistent in itself, without this request's stamp, and REACHED_OUT only if the
table is; that is enough because REACHED_OUT is final, which is proved along
with it. From there: an UPDATE that changes the state changes the stamp too, so
no mixture of columns separates them; the credit is written by the caller or not
at all, and the key check keeps it alive; a request that replaced PENDING is the
only one that did. A mark once made stays
made, so the credit a response showed stays earned (`ShownInv`). The
refinement maps each commit to `Contact` and each
deletion to `Change`, everything else to stuttering. That a deleted caller writes
nothing is a property "if ever ..., then never": `ShutOut` is a state
predicate that follows from the first half, is kept by every step (no policy lets
the session see or update a row, and a deleted account never returns), and implies
the second. An entry belongs to a request that is done (`KeptBy`), so that no record
meets an earlier entry of its own.

*UserAdmin.* `RequestInv` says what is known of target and caller at each label:
a registration's id is absent until its commit and no other registration has it
(`FreshTargets`), any other target has existed, the caller passed the admin
check and is not the target of its own revocation. Since `absent` is never
entered and `deleted` never left, these facts survive every other request's
steps. A status written from a stale decision is therefore always one that
`AccountsNext` allows from whatever the row holds, and the last admin can only
fall to a caller who is no longer active. `TrailTrue` follows the entries through the
deletions that take names out of them: success and subject of a request that
has answered never change again (`SuccessStays`).

*LeadIntake.* The invariant is one statement per submission (`Local`): what file,
row, messages and answer there can be at each label. Submissions share nothing
but the accounts, so a step of another one touches nothing it speaks of
(`OnlyOwn`, `Frame`), a submission's own step keeps it (`OwnStep`), and a crash
takes nothing back that was committed. For `DismissedIsNotTold` it also says that
nothing is tried before the lookup; from there `PassedOver` (untried, and not
on the list) is kept while no active attorney has the address and it is not the
fallback of an empty list. `NobodySkipped` has the opposite predicate, `Due`.
`AnswerKept` lists what may become of an acknowledged lead; the two losses that
nothing counts are in it by name, with what is known of them: after a failed
lookup nobody was told either, and only SMTP hangs.

*Access.* That racing starts do not all fail is not inductive as it stands: a
process that has passed its check may lose. `SomeoneAhead` says that, once a
process has started and as long as nothing breaks, one serves, is about to
look, or is about to insert an email that nobody has. Who loses that race loses
it to an insert, and the process that made it is ahead in its place; who loses
it to a registration by an admin does so because a process serves. `SeedsDone`
carries what the first seeding left to the second. For admission, `RequestInv`
keeps what the earlier steps decided: a decoded token had not expired on
arrival, so the context its row is read under names its own account.

*LeadsScreen.* An answer is true when it is read and stays true on its way,
because REACHED_OUT is never left; `AnswersAreTrue` says so of every request, of
the screen and of every marking. `NewestIsChosen` says that the newest request
asks for what is chosen, for as long as it is under way, and that it is what is
shown once it has been answered and nothing older came after it.
How much a reading may miss is counted. A row's place in the list is the number
of newer rows: an injection into `0..n-1` (`NewerIsPlace`), from which pages are disjoint
and cover the list, and no more than `n - k` rows lie beyond place `k`. `ScanInv` is
about the rows not shown. Those whose place the next page's offset has already
passed are at most `left`: an insert only moves places down the list, and a row that
leaves moves at most one more row up past the offset (`OneRowChanges`). This is
kept for the page's own offset and, once the page is read, for the next; when an
answer is lost, the weaker of the two still holds, which is why `Retry` costs
nothing. When the count says that the page is the last, what lies beyond it
came after the count and is among `late`.

*Uploads.* `Progress`: while the handler reads, everything read was kept and is
within the limit, and nothing is joined; so the answer depends on the file
alone, and the joined copy is one more limit at most.

*AuditTracker.* The number of CRITICAL records is the quotient of the streak, the
latch agrees with the threshold, and the failures counted are those since the
window's start. *DbSession.* Between sessions only whole contexts are left on a
connection, and a connection has one holder.

## What is only model-checked

Liveness: `ChangeIsAccounted`, `AnsweredIsAccounted`, `CreationIsAccounted`,
`EveryoneIsTried`, `LoadingEnds`, `EveryRequestEnds` and `EverySubmissionEnds`. Weak fairness
is about ENABLED, which the prover does not treat; their safety halves are
theorems, as said above. The violations are counterexamples and remain TLC's.

## Not modelled, and why

Password hashing and signing (functions of one value: a password is right or
wrong, a token is not forged), the rate limiter's windows (slowapi's, in memory;
that a submission may be refused is modelled), the browser's expiry timer and
stored token (`AuthContext.tsx`), the attorneys page, text sanitising and
validation rules (pure functions of one value), download URLs, the listing of
stored files, migrations and deployment. `PROJECT.json` lists every component.

## Plan

Done: `Accounts`, `RowSecurity`, `LeadLatch`, `LeadUpdate`, `AuditTracker`,
`DbSession`, `UserAdmin`, `LeadIntake`, `Uploads`, `Access`, `LeadPages`,
`LeadsScreen`, with the proofs above. Next, in this order:

1. `BrowserSession`: the stored token, its timer and several tabs
   (`AuthContext.tsx`, `api.ts`), composed with `Access`.
2. `AttorneysPage.tsx`, composed with `UserAdmin`: what a reload after each
   operation shows when operations overlap.
3. A composition of `DbSession` with the audit pages' policy of migration 006:
   an anonymous session's leftovers against what it may read.
4. `RateLimit`: the two windows as slowapi is used here.
