------------------------------- MODULE Access -------------------------------
(***************************************************************************)
(* Who gets in, and stays in.  Processes start and seed the configured     *)
(* accounts (main.py lifespan, db/seed.py); users log in (routes/auth.py)  *)
(* and carry a signed token that outlives changes of their account; every  *)
(* request is let in again on the strength of the token and of the row it  *)
(* names (set_rls_context, core/dependencies.py); and an admin who is let  *)
(* in may change the accounts that all of this rests on.                   *)
(*                                                                         *)
(* What an admitted admin does to an account is one atomic step: UserAdmin *)
(* has the statements of these operations and implements Accounts.  Which  *)
(* process serves a request is not recorded, and neither is the audit      *)
(* entry of a login: it is written as in the other handlers.               *)
(***************************************************************************)
EXTENDS Accounts, RowSecurity, Naturals

CONSTANTS Emails,
          EmailOf,      \* the email of each account, existing or not yet
          Settings,     \* the seed settings a process may be started with
          Procs,        \* processes of the service
          Visits,       \* browsers, each with at most one token and request
          None,
          Lifetime,     \* access_token_expire_minutes, in ticks
          MaxCrashes,   \* bound: process crashes
          MaxDbErrors   \* bound: seeding statements lost with the connection

Setting == [admin : Emails \cup {None}, attorney : Emails \cup {None}]

ASSUME EmailAssumption == EmailOf \in [Users -> Emails]

ASSUME SettingsAssumption == Settings \subseteq Setting

ASSUME NoneAssumption == None \notin Users \cup Emails

ASSUME BoundsAssumption == Lifetime \in Nat /\ MaxCrashes \in Nat /\ MaxDbErrors \in Nat

VARIABLES
    proc,      \* where each process is
    conf,      \* the settings it was started with
    at,        \* the setting it is seeding from
    token,     \* the account each visit's token names
    age,       \* how long ago the token was signed
    arrived,   \* in flight: the token's age when the request reached the service
    actor,     \* admitted: the account the request acts as
    pc,        \* where each visit is
    crashes, dbErrors

procVars  == <<proc, conf, at>>
visitVars == <<token, age, arrived, actor, pc>>
faults    == <<crashes, dbErrors>>
vars      == <<users, procVars, visitVars, faults>>

Expired == Lifetime + 1    \* every age past the lifetime

RoleOf(u)  == IF u \in Admins THEN "ADMIN" ELSE "ATTORNEY"
SeededRole == [admin |-> "ADMIN", attorney |-> "ATTORNEY"]

(* The email seed_admin or seed_attorney looks for, None when not set.     *)
Email(p) == conf[p][at[p]]

Held(e) == \E u \in Users : RowExists(u) /\ EmailOf[u] = e

Starting == {"check", "insert"}
InFlight == {"arrived", "decoded", "admitted"}

UniqueEmails ==
    \A u, v \in Users :
        RowExists(u) /\ RowExists(v) /\ EmailOf[u] = EmailOf[v] => u = v

Init ==
    /\ AccountsInit
    /\ UniqueEmails
    /\ proc = [p \in Procs |-> "down"]
    /\ conf \in [Procs -> {[admin |-> None, attorney |-> None]}]
    /\ at = [p \in Procs |-> "admin"]
    /\ token = [v \in Visits |-> None]
    /\ age = [v \in Visits |-> Expired]
    /\ arrived = [v \in Visits |-> Expired]
    /\ actor = [v \in Visits |-> None]
    /\ pc = [v \in Visits |-> "out"]
    /\ crashes = 0
    /\ dbErrors = 0
-----------------------------------------------------------------------------
(* Starting a process.                                                     *)

(* seed_admin, then seed_attorney; then the lifespan lets requests in.     *)
Proceed(p) ==
    \/ /\ at[p] = "admin"
       /\ at' = [at EXCEPT ![p] = "attorney"]
       /\ proc' = [proc EXCEPT ![p] = "check"]
    \/ /\ at[p] = "attorney"
       /\ proc' = [proc EXCEPT ![p] = "serving"]
       /\ UNCHANGED at

Goto(p, label) == proc' = [proc EXCEPT ![p] = label] /\ UNCHANGED at

Start(p) ==
    /\ proc[p] \in {"down", "failed"}
    /\ \E s \in Settings : conf' = [conf EXCEPT ![p] = s]
    /\ at' = [at EXCEPT ![p] = "admin"]
    /\ proc' = [proc EXCEPT ![p] = "check"]
    /\ UNCHANGED <<users, visitVars, faults>>

(* An email that any account has, whatever its role and status, is left.   *)
SeedCheckNever(p) ==
    /\ proc[p] = "check"
    /\ \/ Email(p) = None /\ Proceed(p)
       \/ Email(p) # None /\ Goto(p, "insert")
    /\ UNCHANGED <<users, conf, visitVars, faults>>
SeedCheck(p) ==
    /\ proc[p] = "check"
    /\ \/ (Email(p) = None \/ Held(Email(p))) /\ Proceed(p)
       \/ Email(p) # None /\ ~Held(Email(p)) /\ Goto(p, "insert")
    /\ UNCHANGED <<users, conf, visitVars, faults>>

CreateSeed(p) ==
    \E u \in Users :
        EmailOf[u] = Email(p) /\ RoleOf(u) = SeededRole[at[p]] /\ RegisterUser(u)

(* The unique index decides; its error leaves the lifespan, and the        *)
(* process does not come up.                                               *)
SeedInsertUncommitted(p) ==
    /\ proc[p] = "insert"
    /\ Proceed(p)
    /\ UNCHANGED <<users, conf, visitVars, faults>>
SeedInsert(p) ==
    /\ proc[p] = "insert"
    /\ \/ Held(Email(p)) /\ Goto(p, "failed") /\ UNCHANGED users
       \/ ~Held(Email(p)) /\ CreateSeed(p) /\ Proceed(p)
    /\ UNCHANGED <<conf, visitVars, faults>>

(* The connection is lost, before or after the insert took effect.         *)
SeedError(p) ==
    /\ proc[p] \in Starting
    /\ dbErrors < MaxDbErrors
    /\ dbErrors' = dbErrors + 1
    /\ Goto(p, "failed")
    /\ \/ UNCHANGED users
       \/ proc[p] = "insert" /\ ~Held(Email(p)) /\ CreateSeed(p)
    /\ UNCHANGED <<conf, visitVars, crashes>>
-----------------------------------------------------------------------------
(* Tokens and requests.                                                    *)

Serving == \E p \in Procs : proc[p] = "serving"

(* authenticate_user on the admin session: the row decides, and a new      *)
(* token replaces the browser's old one.  Refused logins change nothing.   *)
Login(v) ==
    /\ pc[v] \in {"out", "in"}
    /\ Serving
    /\ \E u \in Users :
         /\ RowExists(u) /\ users[u] = "active"
         /\ token' = [token EXCEPT ![v] = u]
    /\ age' = [age EXCEPT ![v] = 0]
    /\ pc' = [pc EXCEPT ![v] = "in"]
    /\ UNCHANGED <<users, procVars, arrived, actor, faults>>

Tick ==
    /\ \E v \in Visits : age[v] < Expired
    /\ age' = [v \in Visits |-> IF age[v] < Expired THEN age[v] + 1 ELSE Expired]
    /\ UNCHANGED <<users, procVars, token, arrived, actor, pc, faults>>

(* The requests of `done' are answered, or lost.                           *)
Leave(done) ==
    /\ pc' = [v \in Visits |-> IF v \in done THEN "in" ELSE pc[v]]
    /\ arrived' = [v \in Visits |-> IF v \in done THEN Expired ELSE arrived[v]]
    /\ actor' = [v \in Visits |-> IF v \in done THEN None ELSE actor[v]]

(* decode_access_token: python-jose refuses a token when exp < now.        *)
Decodes(a) == a <= Lifetime

(* set_rls_context: a token that does not decode leaves the context blank. *)
Arrive(v) ==
    /\ pc[v] = "in"
    /\ Serving
    /\ arrived' = [arrived EXCEPT ![v] = age[v]]
    /\ pc' = [pc EXCEPT ![v] = "arrived"]
    /\ UNCHANGED <<users, procVars, token, age, actor, faults>>

Ctx(v) == IF Decodes(arrived[v])
          THEN [uid |-> token[v], role |-> RoleOf(token[v])]
          ELSE [uid |-> None, role |-> None]

(* get_current_user decodes again, after get_db has opened its session.    *)
Decode(v) ==
    /\ pc[v] = "arrived"
    /\ \/ Decodes(age[v]) /\ pc' = [pc EXCEPT ![v] = "decoded"] /\ UNCHANGED <<arrived, actor>>
       \/ ~Decodes(age[v]) /\ Leave({v})
    /\ UNCHANGED <<users, procVars, token, age, faults>>

(* The row that db.get fetches: by the subject, which is the account's id. *)
SubjectByEmail(v) ==
    {u \in Users : UserVisible(users, Ctx(v), u) /\ EmailOf[u] = EmailOf[token[v]]}
Subject(v) == {u \in {token[v]} : UserVisible(users, Ctx(v), u)}

ActiveNot(u) == TRUE
Active(u) == users[u] = "active"

LoadCaller(v) ==
    /\ pc[v] = "decoded"
    /\ \/ \E u \in Subject(v) :
            /\ Active(u)
            /\ actor' = [actor EXCEPT ![v] = u]
            /\ pc' = [pc EXCEPT ![v] = "admitted"]
            /\ UNCHANGED arrived
       \/ (\A u \in Subject(v) : ~Active(u)) /\ Leave({v})
    /\ UNCHANGED <<users, procVars, token, age, faults>>

(* The operations of routes/admin.py: not on oneself, except reactivation, *)
(* and new accounts are attorneys with an email nobody has.                *)
AdminOperation(a) ==
    \E u \in Users :
        \/ u \notin Admins /\ ~Held(EmailOf[u]) /\ RegisterUser(u)
        \/ u # a /\ (DeactivateUser(u) \/ DeleteUser(u))
        \/ ReactivateUser(u)

Handle(v) ==
    /\ pc[v] = "admitted"
    /\ \/ actor[v] \in Admins /\ AdminOperation(actor[v])
       \/ UNCHANGED users
    /\ Leave({v})
    /\ UNCHANGED <<procVars, token, age, faults>>

(* A process dies with the requests it serves: some of those in flight, or *)
(* all when no other process serves.                                       *)
Crash(p) ==
    /\ crashes < MaxCrashes
    /\ crashes' = crashes + 1
    /\ proc[p] \in Starting \cup {"serving"}
    /\ Goto(p, "down")
    /\ \E lost \in SUBSET {v \in Visits : pc[v] \in InFlight} :
         /\ proc[p] # "serving" => lost = {}
         /\ (\A q \in Procs \ {p} : proc[q] # "serving")
              => \A v \in Visits \ lost : pc[v] \notin InFlight
         /\ Leave(lost)
    /\ UNCHANGED <<users, conf, token, age, dbErrors>>

(* Users bounds the accounts ever created: no id is left for this seed.    *)
OutOfIds(p) ==
    /\ proc[p] = "insert" /\ ~Held(Email(p))
    /\ \A u \in Users :
         EmailOf[u] = Email(p) /\ RoleOf(u) = SeededRole[at[p]] => users[u] # "absent"

(* A service that is down, or whose tokens have expired, may stay so.      *)
Quiescent ==
    /\ \A p \in Procs : proc[p] \in Starting => OutOfIds(p)
    /\ \A v \in Visits : pc[v] \notin InFlight
    /\ UNCHANGED vars

Next ==
    \/ \E p \in Procs :
         Start(p) \/ SeedCheck(p) \/ SeedInsert(p) \/ SeedError(p) \/ Crash(p)
    \/ \E v \in Visits :
         Login(v) \/ Arrive(v) \/ Decode(v) \/ LoadCaller(v) \/ Handle(v)
    \/ Tick
    \/ Quiescent

Spec == Init /\ [][Next]_vars
-----------------------------------------------------------------------------
(* Properties.                                                             *)

TypeOK ==
    /\ users \in [Users -> AccountStatus]
    /\ proc \in [Procs -> {"down", "check", "insert", "serving", "failed"}]
    /\ conf \in [Procs -> Setting]
    /\ at \in [Procs -> {"admin", "attorney"}]
    /\ token \in [Visits -> Users \cup {None}]
    /\ age \in [Visits -> 0..Expired]
    /\ arrived \in [Visits -> 0..Expired]
    /\ actor \in [Visits -> Users \cup {None}]
    /\ pc \in [Visits -> InFlight \cup {"out", "in"}]
    /\ crashes \in 0..MaxCrashes
    /\ dbErrors \in 0..MaxDbErrors

(* A request is admitted only as the account that logged in, while that    *)
(* account is active, and with a token that had not expired when the       *)
(* request reached the service: not as another account that has the same   *)
(* email by now, and not once the account is deactivated or deleted.       *)
ActsAsLoggedIn ==
    [][\A v \in Visits :
         pc[v] # "admitted" /\ pc'[v] = "admitted"
           => /\ actor'[v] = token[v]
              /\ users[token[v]] = "active"
              /\ arrived[v] <= Lifetime]_vars

LockedOut ==
    /\ \A u \in Admins : users[u] # "active"
    /\ \A v \in Visits : pc[v] = "admitted" => actor[v] \notin Admins

(* Once no admin account is active and no admin's request is under way,    *)
(* nobody gets the service back with a token signed before: only a process *)
(* that seeds the configured admin does.                                   *)
OnlySeedingReopens ==
    [][LockedOut /\ ~LockedOut'
         => \E p \in Procs : proc[p] = "insert" /\ proc'[p] # "insert"]_vars

(* A process that serves has left no configured email unseeded: each has   *)
(* an account, or had one that was deleted.                                *)
Seeded(e) == e # None => \E u \in Users : users[u] # "absent" /\ EmailOf[u] = e

ServingIsSeeded ==
    \A p \in Procs :
        proc[p] = "serving" => Seeded(conf[p].admin) /\ Seeded(conf[p].attorney)

(* Of the processes that race to seed an empty database, one may fail on   *)
(* the unique index only because another is ahead of it: without faults,   *)
(* the service never ends up with failed processes alone.                  *)
SomeStartSucceeds ==
    crashes = 0 /\ dbErrors = 0 /\ (\E p \in Procs : proc[p] = "failed")
        => \E p \in Procs : proc[p] \in Starting \cup {"serving"}
-----------------------------------------------------------------------------
(* The inductive invariant.                                                *)

SeedsDone ==
    \A p \in Procs :
        /\ proc[p] \in Starting /\ at[p] = "attorney" => Seeded(conf[p].admin)
        /\ proc[p] = "insert" => Email(p) # None

(* As long as nothing crashes, some process that was started is sure to    *)
(* get through: it serves, is about to look, or is about to insert an      *)
(* email that nobody has.                                                  *)
Ahead(p) ==
    \/ proc[p] \in {"check", "serving"}
    \/ proc[p] = "insert" /\ ~Held(Email(p))

SomeoneAhead ==
    crashes = 0 /\ dbErrors = 0 /\ (\E p \in Procs : proc[p] # "down")
        => \E p \in Procs : Ahead(p)

(* What a request in flight rests on.                                      *)
RequestInv(v) ==
    /\ pc[v] # "out" => token[v] \in Users
    /\ pc[v] = "arrived" => arrived[v] <= age[v]
    /\ pc[v] = "decoded" => arrived[v] <= Lifetime
    /\ pc[v] \in InFlight => Serving

IInv ==
    /\ TypeOK
    /\ \A v \in Visits : RequestInv(v)
    /\ SeedsDone
    /\ ServingIsSeeded
    /\ SomeoneAhead
=============================================================================
