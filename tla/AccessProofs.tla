---------------------------- MODULE AccessProofs ----------------------------
(***************************************************************************)
(* The properties of Access for any number of processes, browsers,         *)
(* accounts and faults, by the inductive invariant IInv.                   *)
(***************************************************************************)
EXTENDS Access, TLAPS

USE DEF Starting, InFlight, procVars, visitVars, faults, Expired

(* No operation on an account forgets that an account existed.             *)
LEMMA SetStatusKeeps ==
    ASSUME users \in [Users -> AccountStatus], NEW u \in Users, NEW from, NEW to,
           to \in AccountStatus, to # "absent", SetStatus(u, from, to)
    PROVE  /\ users' \in [Users -> AccountStatus]
           /\ \A w \in Users : users[w] # "absent" => users'[w] # "absent"
           /\ users'[u] # "absent"
BY DEF SetStatus

LEMMA OperationKeeps ==
    ASSUME users \in [Users -> AccountStatus], NEW a, AdminOperation(a)
    PROVE  /\ users' \in [Users -> AccountStatus]
           /\ \A w \in Users : users[w] # "absent" => users'[w] # "absent"
BY SetStatusKeeps DEF AdminOperation, RegisterUser, DeactivateUser, ReactivateUser,
   DeleteUser, AccountStatus

LEMMA CreateKeeps ==
    ASSUME users \in [Users -> AccountStatus], NEW p \in Procs, CreateSeed(p)
    PROVE  /\ users' \in [Users -> AccountStatus]
           /\ \A w \in Users : users[w] # "absent" => users'[w] # "absent"
           /\ \E u \in Users : users'[u] # "absent" /\ EmailOf[u] = Email(p)
BY SetStatusKeeps DEF CreateSeed, RegisterUser, AccountStatus

LEMMA InitInv == Init => IInv
<1> SUFFICES ASSUME Init PROVE IInv
  OBVIOUS
<1>1. TypeOK
  BY BoundsAssumption DEF Init, TypeOK, AccountsInit, AccountStatus, Setting
<1>2. QED
  BY <1>1 DEF Init, IInv, RequestInv, SeedsDone, ServingIsSeeded, SomeoneAhead

(* Types are kept by every step.                                           *)
LEMMA TypeStep == TypeOK /\ [Next]_vars => TypeOK'
<1> SUFFICES ASSUME TypeOK, [Next]_vars PROVE TypeOK'
  OBVIOUS
<1> USE BoundsAssumption, SettingsAssumption DEF TypeOK
<1>1. ASSUME NEW p \in Procs, Start(p) PROVE TypeOK'
  BY <1>1 DEF Start
<1>2. ASSUME NEW p \in Procs, SeedCheck(p) PROVE TypeOK'
  BY <1>2 DEF SeedCheck, Proceed, Goto
<1>3. ASSUME NEW p \in Procs, SeedInsert(p) PROVE TypeOK'
  BY <1>3, CreateKeeps DEF SeedInsert, Proceed, Goto
<1>4. ASSUME NEW p \in Procs, SeedError(p) PROVE TypeOK'
  BY <1>4, CreateKeeps DEF SeedError, Goto
<1>5. ASSUME NEW p \in Procs, Crash(p) PROVE TypeOK'
  BY <1>5 DEF Crash, Goto, Leave
<1>6. ASSUME NEW v \in Visits, Login(v) PROVE TypeOK'
  BY <1>6 DEF Login
<1>7. ASSUME NEW v \in Visits, Arrive(v) PROVE TypeOK'
  BY <1>7 DEF Arrive
<1>8. ASSUME NEW v \in Visits, Decode(v) PROVE TypeOK'
  BY <1>8 DEF Decode, Leave
<1>9. ASSUME NEW v \in Visits, LoadCaller(v) PROVE TypeOK'
  BY <1>9 DEF LoadCaller, Subject, Leave
<1>10. ASSUME NEW v \in Visits, Handle(v) PROVE TypeOK'
  BY <1>10, OperationKeeps DEF Handle, Leave
<1>11. CASE Tick
  BY <1>11 DEF Tick
<1>12. CASE UNCHANGED vars
  BY <1>12 DEF vars
<1>13. QED
  BY <1>1, <1>2, <1>3, <1>4, <1>5, <1>6, <1>7, <1>8, <1>9, <1>10, <1>11, <1>12
  DEF Next, Quiescent
-----------------------------------------------------------------------------
(* Requests: what the next step of each may rest on.                       *)

LEMMA RequestStep ==
    ASSUME TypeOK, [Next]_vars, NEW v \in Visits, RequestInv(v)
    PROVE  RequestInv(v)'
<1> USE BoundsAssumption DEF TypeOK, RequestInv, Serving
<1>1. ASSUME NEW p \in Procs, Start(p) PROVE RequestInv(v)'
  BY <1>1 DEF Start
<1>2. ASSUME NEW p \in Procs, SeedCheck(p) PROVE RequestInv(v)'
  BY <1>2 DEF SeedCheck, Proceed, Goto
<1>3. ASSUME NEW p \in Procs, SeedInsert(p) PROVE RequestInv(v)'
  BY <1>3 DEF SeedInsert, Proceed, Goto
<1>4. ASSUME NEW p \in Procs, SeedError(p) PROVE RequestInv(v)'
  BY <1>4 DEF SeedError, Goto
<1>5. ASSUME NEW p \in Procs, Crash(p) PROVE RequestInv(v)'
  <2>1. PICK lost \in SUBSET {w \in Visits : pc[w] \in InFlight} :
          /\ proc[p] # "serving" => lost = {}
          /\ (\A q \in Procs \ {p} : proc[q] # "serving")
               => \A w \in Visits \ lost : pc[w] \notin InFlight
          /\ Leave(lost)
    BY <1>5 DEF Crash
  <2>2. proc' = [proc EXCEPT ![p] = "down"] /\ UNCHANGED <<token, age>>
    BY <1>5 DEF Crash, Goto
  <2>3. CASE v \in lost
    BY <2>1, <2>2, <2>3 DEF Leave
  <2>4. CASE v \notin lost
    BY <2>1, <2>2, <2>4 DEF Leave
  <2>5. QED
    BY <2>3, <2>4
<1>6. ASSUME NEW w \in Visits, Login(w) PROVE RequestInv(v)'
  BY <1>6 DEF Login
<1>7. ASSUME NEW w \in Visits, Arrive(w) PROVE RequestInv(v)'
  BY <1>7 DEF Arrive
<1>8. ASSUME NEW w \in Visits, Decode(w) PROVE RequestInv(v)'
  BY <1>8 DEF Decode, Decodes, Leave
<1>9. ASSUME NEW w \in Visits, LoadCaller(w) PROVE RequestInv(v)'
  BY <1>9 DEF LoadCaller, Subject, Leave
<1>10. ASSUME NEW w \in Visits, Handle(w) PROVE RequestInv(v)'
  BY <1>10 DEF Handle, Leave
<1>11. CASE Tick
  BY <1>11 DEF Tick
<1>12. CASE UNCHANGED vars
  BY <1>12 DEF vars
<1>13. QED
  BY <1>1, <1>2, <1>3, <1>4, <1>5, <1>6, <1>7, <1>8, <1>9, <1>10, <1>11, <1>12
  DEF Next, Quiescent
-----------------------------------------------------------------------------
(* Seeding.                                                                *)

Known == \A w \in Users : users[w] # "absent" => users'[w] # "absent"

(* No step makes an account that existed one that never did.               *)
LEMMA NextKeeps ==
    ASSUME TypeOK, [Next]_vars
    PROVE  Known
<1> USE DEF TypeOK, Known
<1>1. ASSUME NEW p \in Procs, SeedInsert(p) PROVE Known
  BY <1>1, CreateKeeps DEF SeedInsert
<1>2. ASSUME NEW p \in Procs, SeedError(p) PROVE Known
  BY <1>2, CreateKeeps DEF SeedError
<1>3. ASSUME NEW v \in Visits, Handle(v) PROVE Known
  BY <1>3, OperationKeeps DEF Handle
<1>4. ASSUME UNCHANGED users PROVE Known
  BY <1>4
<1>5. QED
  BY <1>1, <1>2, <1>3, <1>4
  DEF Next, Start, SeedCheck, Crash, Login, Arrive, Decode, LoadCaller, Tick, Quiescent, vars

SeedingInv(p) ==
    /\ proc[p] \in Starting /\ at[p] = "attorney" => Seeded(conf[p].admin)
    /\ proc[p] = "insert" => Email(p) # None
    /\ proc[p] = "serving" => Seeded(conf[p].admin) /\ Seeded(conf[p].attorney)

LEMMA SeedingStep ==
    ASSUME TypeOK, [Next]_vars, NEW p \in Procs, SeedingInv(p)
    PROVE  SeedingInv(p)'
<1>1. Known
  BY NextKeeps
<1> USE <1>1 DEF TypeOK, SeedingInv, Seeded, Email, Known
<1>2. ASSUME NEW q \in Procs, Start(q) PROVE SeedingInv(p)'
  BY <1>2 DEF Start
<1>3. ASSUME NEW q \in Procs, SeedCheck(q) PROVE SeedingInv(p)'
  BY <1>3 DEF SeedCheck, Proceed, Goto, Held, RowExists
<1>4. ASSUME NEW q \in Procs, SeedInsert(q) PROVE SeedingInv(p)'
  <2>1. CASE Goto(q, "failed")
    BY <1>4, <2>1 DEF SeedInsert, Goto
  <2>2. CASE CreateSeed(q) /\ Proceed(q)
    <3>1. \E u \in Users : users'[u] # "absent" /\ EmailOf[u] = Email(q)
      BY <2>2, CreateKeeps
    <3>2. UNCHANGED conf
      BY <1>4 DEF SeedInsert
    <3>4. Seeded(conf[p].admin) => Seeded(conf[p].admin)'
      BY <3>2
    <3>5. CASE p # q
      BY <2>2, <3>2, <3>5 DEF Proceed
    <3>6. CASE p = q /\ at[p] = "admin"
      <4>1. at' = [at EXCEPT ![p] = "attorney"] /\ proc' = [proc EXCEPT ![p] = "check"]
        BY <2>2, <3>6 DEF Proceed
      <4>2. Seeded(conf[p].admin)'
        BY <3>1, <3>2, <3>6
      <4>3. QED
        BY <3>6, <4>1, <4>2
    <3>7. CASE p = q /\ at[p] = "attorney"
      <4>1. proc' = [proc EXCEPT ![p] = "serving"]
        BY <2>2, <3>7 DEF Proceed
      <4>2. Seeded(conf[p].admin)
        BY <1>4, <3>7 DEF SeedInsert
      <4>3. Seeded(conf[p].attorney)'
        BY <3>1, <3>2, <3>7
      <4>4. QED
        BY <3>4, <3>7, <4>1, <4>2, <4>3
    <3>8. QED
      BY <3>5, <3>6, <3>7
  <2>3. QED
    BY <1>4, <2>1, <2>2 DEF SeedInsert
<1>5. ASSUME NEW q \in Procs, SeedError(q) PROVE SeedingInv(p)'
  BY <1>5 DEF SeedError, Goto
<1>6. ASSUME NEW q \in Procs, Crash(q) PROVE SeedingInv(p)'
  BY <1>6 DEF Crash, Goto
<1>7. ASSUME UNCHANGED procVars PROVE SeedingInv(p)'
  BY <1>7
<1>8. QED
  BY <1>2, <1>3, <1>4, <1>5, <1>6, <1>7
  DEF Next, Login, Arrive, Decode, LoadCaller, Handle, Tick, Quiescent, vars

(* Whoever loses the race for an email loses it to a process ahead of it.  *)
LEMMA AheadStep ==
    ASSUME IInv, [Next]_vars
    PROVE  SomeoneAhead'
<1> SUFFICES ASSUME crashes' = 0, dbErrors' = 0, \E p \in Procs : proc'[p] # "down"
             PROVE  \E p \in Procs : Ahead(p)'
  BY DEF SomeoneAhead
<1> USE DEF IInv, TypeOK, SomeoneAhead, Ahead, Email
<1>1. crashes = 0 /\ dbErrors = 0
  <2>1. ASSUME NEW q \in Procs, SeedError(q) \/ Crash(q) PROVE FALSE
    BY <2>1, BoundsAssumption DEF SeedError, Crash
  <2>2. UNCHANGED faults
    BY <2>1
    DEF Next, Start, SeedCheck, SeedInsert, Login, Arrive, Decode, LoadCaller, Handle,
        Tick, Quiescent, vars
  <2>3. QED
    BY <2>2
<1>2. ASSUME NEW q \in Procs, Start(q) PROVE \E p \in Procs : Ahead(p)'
  BY <1>2 DEF Start
<1>3. ASSUME NEW q \in Procs, SeedCheck(q) PROVE \E p \in Procs : Ahead(p)'
  BY <1>3 DEF SeedCheck, Proceed, Goto, Held, RowExists
<1>4. ASSUME NEW q \in Procs, SeedInsert(q) PROVE \E p \in Procs : Ahead(p)'
  <2>1. CASE Held(Email(q)) /\ Goto(q, "failed") /\ UNCHANGED users
    <3>1. PICK p \in Procs : Ahead(p)
      BY <1>1, <1>4 DEF SeedInsert
    <3>2. p # q
      BY <1>4, <2>1, <3>1 DEF SeedInsert
    <3>3. Ahead(p)'
      BY <1>4, <2>1, <3>1, <3>2 DEF SeedInsert, Goto, Held, RowExists
    <3>4. QED
      BY <3>3
  <2>2. CASE Proceed(q)
    BY <2>2 DEF Proceed
  <2>3. QED
    BY <1>4, <2>1, <2>2 DEF SeedInsert
<1>5. ASSUME NEW v \in Visits, Handle(v) PROVE \E p \in Procs : Ahead(p)'
  <2>1. Serving
    BY <1>5 DEF Handle, RequestInv
  <2>2. QED
    BY <1>5, <2>1 DEF Handle, Serving
<1>6. ASSUME UNCHANGED <<users, procVars>> PROVE \E p \in Procs : Ahead(p)'
  BY <1>1, <1>6 DEF Held, RowExists
<1>7. ASSUME NEW q \in Procs, SeedError(q) \/ Crash(q) PROVE FALSE
  BY <1>1, <1>7 DEF SeedError, Crash
<1>8. QED
  BY <1>2, <1>3, <1>4, <1>5, <1>6, <1>7
  DEF Next, Login, Arrive, Decode, LoadCaller, Tick, Quiescent, vars
-----------------------------------------------------------------------------
LEMMA StepInv == IInv /\ [Next]_vars => IInv'
<1> SUFFICES ASSUME IInv, [Next]_vars PROVE IInv'
  OBVIOUS
<1>1. TypeOK'
  BY TypeStep DEF IInv
<1>2. \A v \in Visits : RequestInv(v)'
  BY RequestStep DEF IInv
<1>3. \A p \in Procs : SeedingInv(p)'
  BY SeedingStep DEF IInv, SeedsDone, ServingIsSeeded, SeedingInv
<1>4. SomeoneAhead'
  BY AheadStep
<1>5. QED
  BY <1>1, <1>2, <1>3, <1>4 DEF IInv, SeedsDone, ServingIsSeeded, SeedingInv

(* The inductive invariant: types, what requests in flight rest on, what   *)
(* seeding has done, and who is ahead in its race.                         *)
THEOREM Inductive == Spec => []IInv
<1>1. QED
  BY InitInv, StepInv, PTL DEF Spec

(* Every variable keeps its type.                                          *)
THEOREM TypeCorrect == Spec => []TypeOK
<1>1. IInv => TypeOK
  BY DEF IInv
<1>2. QED
  BY <1>1, Inductive, PTL

(* A process serves only when every configured email has or had an         *)
(* account, however many processes seeded at once and whatever failed.     *)
THEOREM SeededBeforeServing == Spec => []ServingIsSeeded
<1>1. IInv => ServingIsSeeded
  BY DEF IInv
<1>2. QED
  BY <1>1, Inductive, PTL

(* Without faults, racing starts never all fail.                           *)
THEOREM StartSucceeds == Spec => []SomeStartSucceeds
<1>1. IInv => SomeStartSucceeds
  BY DEF IInv, SomeoneAhead, SomeStartSucceeds, Ahead
<1>2. QED
  BY <1>1, Inductive, PTL

(* Only the account that logged in is acted as, while it is active, on the *)
(* strength of a token that had not expired when the request arrived.      *)
THEOREM Admission == Spec => ActsAsLoggedIn
<1> DEFINE Admitted(v) ==
      pc[v] # "admitted" /\ pc'[v] = "admitted"
        => /\ actor'[v] = token[v]
           /\ users[token[v]] = "active"
           /\ arrived[v] <= Lifetime
<1>1. ASSUME IInv, [Next]_vars, NEW v \in Visits PROVE Admitted(v)
  <2> SUFFICES ASSUME pc[v] # "admitted", pc'[v] = "admitted"
               PROVE  /\ actor'[v] = token[v]
                      /\ users[token[v]] = "active"
                      /\ arrived[v] <= Lifetime
    OBVIOUS
  <2>0. /\ pc \in [Visits -> InFlight \cup {"out", "in"}] /\ RequestInv(v)
        /\ actor \in [Visits -> Users \cup {None}]
    BY <1>1 DEF IInv, TypeOK
  <2>1. LoadCaller(v)
    <3>1. ASSUME NEW p \in Procs, Crash(p) PROVE FALSE
      BY <2>0, <3>1 DEF Crash, Leave
    <3>2. ASSUME NEW w \in Visits, Login(w) \/ Arrive(w) PROVE FALSE
      BY <2>0, <3>2 DEF Login, Arrive
    <3>3. ASSUME NEW w \in Visits, Decode(w) \/ Handle(w) PROVE FALSE
      BY <2>0, <3>3 DEF Decode, Handle, Leave
    <3>4. ASSUME NEW w \in Visits, LoadCaller(w) PROVE LoadCaller(v)
      BY <2>0, <3>4 DEF LoadCaller, Leave
    <3>5. QED
      BY <1>1, <3>1, <3>2, <3>3, <3>4
      DEF Next, Start, SeedCheck, SeedInsert, SeedError, Tick, Quiescent, vars
  <2>2. PICK u \in Subject(v) : Active(u) /\ actor' = [actor EXCEPT ![v] = u]
    BY <2>1 DEF LoadCaller, Leave
  <2>3. u = token[v]
    BY <2>2 DEF Subject
  <2>4. arrived[v] <= Lifetime
    BY <2>0, <2>1 DEF LoadCaller, RequestInv
  <2>5. QED
    BY <2>0, <2>2, <2>3, <2>4 DEF Active
<1>2. IInv /\ [Next]_vars => [\A v \in Visits : Admitted(v)]_vars
  BY <1>1
<1>3. QED
  BY <1>2, Inductive, PTL DEF Spec, ActsAsLoggedIn

(* Once locked out, only a seeding process lets an admin in again.         *)
THEOREM Reopening == Spec => OnlySeedingReopens
<1> DEFINE Seeding == \E p \in Procs : proc[p] = "insert" /\ proc'[p] # "insert"
<1>1. ASSUME TypeOK, LockedOut, [Next]_vars PROVE LockedOut' \/ Seeding
  <2> USE <1>1 DEF TypeOK, LockedOut
  <2>1. ASSUME NEW p \in Procs, SeedInsert(p) PROVE Seeding
    BY <2>1 DEF SeedInsert, Goto, Proceed
  <2>2. ASSUME NEW p \in Procs, SeedError(p) PROVE LockedOut' \/ Seeding
    BY <2>2 DEF SeedError, Goto
  <2>3. ASSUME NEW p \in Procs, Crash(p) PROVE LockedOut'
    BY <2>3 DEF Crash, Leave
  <2>4. ASSUME NEW v \in Visits, Login(v) \/ Arrive(v) PROVE LockedOut'
    BY <2>4 DEF Login, Arrive
  <2>5. ASSUME NEW v \in Visits, Decode(v) PROVE LockedOut'
    BY <2>5 DEF Decode, Leave
  <2>6. ASSUME NEW v \in Visits, LoadCaller(v) PROVE LockedOut'
    BY <2>6 DEF LoadCaller, Leave, Active
  <2>7. ASSUME NEW v \in Visits, Handle(v) PROVE LockedOut'
    BY <2>7 DEF Handle, Leave
  <2>8. CASE UNCHANGED <<users, actor, pc>>
    BY <2>8
  <2>9. QED
    BY <2>1, <2>2, <2>3, <2>4, <2>5, <2>6, <2>7, <2>8
    DEF Next, Start, SeedCheck, Tick, Quiescent, vars
<1>2. IInv /\ [Next]_vars => [LockedOut /\ ~LockedOut' => Seeding]_vars
  BY <1>1 DEF IInv
<1>3. QED
  BY <1>2, Inductive, PTL DEF Spec, OnlySeedingReopens
=============================================================================
