-------------------------- MODULE UserAdminProofs --------------------------
(***************************************************************************)
(* Proofs about UserAdmin, for any accounts, emails, admins and requests   *)
(* and any bounds on crashes and database errors.                          *)
(***************************************************************************)
EXTENDS UserAdmin, TLAPS

LEMMA InitIInv == Init => IInv
<1> SUFFICES ASSUME Init
             PROVE  IInv
  OBVIOUS
<1>1. TypeOK
  BY BoundsAssumption DEF Init, TypeOK, AccountsInit, AccountStatus, InFlight
<1>2. \A r \in Requests : RequestInv(r)
  BY NoneAssumption DEF Init, RequestInv, NoCall, InHandler, Undecided, Op
<1>3. FreshTargets
  BY NoneAssumption DEF Init, FreshTargets, NoCall, Op
<1>4. UniqueEmails /\ AnswersHold
  BY DEF Init, UniqueEmails, AnswersHold
<1> QED BY <1>1, <1>2, <1>3, <1>4 DEF IInv

(* A status written by a commit is one of the table's.                     *)
LEMMA StatusAfterType ==
    ASSUME NEW r \in Requests, call[r] \in Call
    PROVE  StatusAfter[call[r].op] \in AccountStatus
  BY DEF StatusAfter, Call, Op, AccountStatus

LEMMA WriteType ==
    ASSUME TypeOK, NEW r \in Requests, call[r] \in Call, WriteUser(r)
    PROVE  users' \in [Users -> AccountStatus] /\ audit' \subseteq Entry
<1>1. StatusAfter[call[r].op] \in AccountStatus
  BY StatusAfterType
<1>2. users' \in [Users -> AccountStatus]
  BY <1>1 DEF WriteUser, TypeOK
<1>3. audit' \subseteq Entry
  <2>1. \A e \in Entry : Anonymise(e, call[r].target) \in Entry
    BY DEF Anonymise, Entry
  <2> QED BY <2>1 DEF WriteUser, TypeOK
<1> QED BY <1>2, <1>3

LEMMA NextTypeOK == TypeOK /\ [Next]_vars => TypeOK'
<1> SUFFICES ASSUME TypeOK, [Next]_vars
             PROVE  TypeOK'
  OBVIOUS
<1> USE DEF faults, InFlight, InHandler
<1>1. ASSUME NEW r \in Requests, Start(r)
      PROVE  TypeOK'
  BY <1>1 DEF TypeOK, Start, Goto
<1>2. ASSUME NEW r \in Requests, RequireAdmin(r)
      PROVE  TypeOK'
  BY <1>2 DEF TypeOK, RequireAdmin, Goto, Fail, Answer
<1>3. ASSUME NEW r \in Requests, LoadTarget(r) \/ CheckEmail(r)
      PROVE  TypeOK'
  BY <1>3 DEF TypeOK, LoadTarget, CheckEmail, Goto, Fail, Answer
<1>4. ASSUME NEW r \in Requests, Commit(r)
      PROVE  TypeOK'
  <2>1. call[r] \in Call
    BY <1>4 DEF TypeOK, Commit
  <2>2. users' \in [Users -> AccountStatus] /\ audit' \subseteq Entry
    <3>1. CASE Matches(r)
      BY <1>4, <2>1, <3>1, WriteType DEF Commit
    <3>2. CASE ~Matches(r)
      BY <1>4, <3>2 DEF Commit, TypeOK
    <3> QED BY <3>1, <3>2
  <2>3. /\ pc' \in [Requests -> InFlight \cup {"idle", "done", "crashed"}]
        /\ status' \in [Requests -> {0, 200, 201, 204, 400, 401, 403, 404, 500}]
        /\ \A q \in Requests : pc'[q] # "idle" => pc[q] # "idle"
    BY <1>4 DEF TypeOK, Commit, Goto, Fail, Answer
  <2> QED BY <1>4, <2>2, <2>3 DEF TypeOK, Commit
<1>5. ASSUME NEW r \in Requests, Refresh(r)
      PROVE  TypeOK'
  BY <1>5 DEF TypeOK, Refresh, Fail, Answer
<1>6. ASSUME NEW r \in Requests, RecordAction(r) \/ RecordError(r)
      PROVE  TypeOK'
  <2>1. call[r] \in Call
    BY <1>6 DEF TypeOK, RecordAction, RecordError, AuditEnds
  <2>2. EntryOf(r) \in Entry
    BY <2>1 DEF EntryOf, Entry, Call
  <2>3. audit' \subseteq audit \cup {EntryOf(r)} /\ counted' \subseteq counted \cup {r}
    BY <1>6 DEF RecordAction, RecordError
  <2>4. dbErrors' \in 0..MaxDbErrors
    BY <1>6, BoundsAssumption DEF TypeOK, RecordAction, RecordError
  <2> QED
    BY <1>6, <2>2, <2>3, <2>4 DEF TypeOK, RecordAction, RecordError, AuditEnds, Goto
<1>7. ASSUME NEW r \in Requests, DbError(r)
      PROVE  TypeOK'
  BY <1>7, BoundsAssumption DEF TypeOK, DbError, Fail, Answer
<1>8. ASSUME NEW r \in Requests, CommitAnswerLost(r)
      PROVE  TypeOK'
  <2>1. call[r] \in Call
    BY <1>8 DEF TypeOK, CommitAnswerLost
  <2>2. users' \in [Users -> AccountStatus] /\ audit' \subseteq Entry
    BY <1>8, <2>1, WriteType DEF CommitAnswerLost
  <2> QED
    BY <1>8, <2>2, BoundsAssumption DEF TypeOK, CommitAnswerLost, Fail, Answer
<1>9. CASE Crash
  BY <1>9, BoundsAssumption DEF TypeOK, Crash
<1>10. CASE UNCHANGED vars
  BY <1>10 DEF TypeOK, vars
<1> QED
  BY <1>1, <1>2, <1>3, <1>4, <1>5, <1>6, <1>7, <1>8, <1>9, <1>10
     DEF Next, Handler, Fault, Quiescent
-----------------------------------------------------------------------------
(* A committing request is an admin's, so the policies let it see exactly  *)
(* the rows that exist.                                                    *)
LEMMA AdminSees ==
    ASSUME TypeOK, NEW r \in Requests, call[r] \in Call, call[r].caller \in Admins
    PROVE  UserVisible(users, Ctx(r), call[r].target) <=> RowExists(call[r].target)
  BY DEF UserVisible, Stored, Ctx, RowExists

(* What a commit does to the table, whoever it races with: one step of the *)
(* account life cycle, which keeps emails unique, brings nobody back and   *)
(* is what its answer says.                                                *)
LEMMA CommitEffect ==
    ASSUME IInv, NEW r \in Requests, pc[r] = "commit", Matches(r), WriteUser(r)
    PROVE  /\ call[r] \in Call /\ call[r].caller \in Admins
           /\ users' = [users EXCEPT ![call[r].target] = StatusAfter[call[r].op]]
           /\ users' = users \/ AccountsNext
           /\ UniqueEmails'
           /\ \A u \in Users : users[u] # "absent" => users'[u] # "absent"
           /\ \A u \in Users : users[u] = "deleted" => users'[u] = "deleted"
           /\ \A u \in Users : u # call[r].target => users'[u] = users[u]
           /\ users'[call[r].target] # "absent"
<1> DEFINE c == call[r]
           u == call[r].target
<1>1. c \in Call /\ c.caller \in Admins /\ u \in Users /\ c.op \in Op
  BY DEF IInv, TypeOK, RequestInv, Call
<1>2. users \in [Users -> AccountStatus]
  BY DEF IInv, TypeOK
<1>3. users' = [users EXCEPT ![u] = StatusAfter[c.op]]
  BY DEF WriteUser
<1>4. CASE c.op = "register"
  <2>1. users[u] = "absent" /\ ~EmailTaken(u)
    BY <1>4 DEF IInv, RequestInv, Undecided, Matches
  <2>2. users' = [users EXCEPT ![u] = "active"]
    BY <1>3, <1>4 DEF StatusAfter
  <2>3. AccountsNext
    BY <1>1, <2>1, <2>2 DEF AccountsNext, RegisterUser, SetStatus
  <2>4. UniqueEmails'
    BY <1>1, <1>2, <2>1, <2>2 DEF IInv, UniqueEmails, EmailTaken, RowExists
  <2> QED BY <1>1, <1>2, <1>3, <2>1, <2>2, <2>3, <2>4
<1>5. CASE c.op # "register"
  <2>1. RowExists(u)
    BY <1>1, <1>5, AdminSees DEF IInv, Matches
  <2>2. StatusAfter[c.op] \in {"active", "inactive", "deleted"}
    BY <1>1, <1>5 DEF StatusAfter, Op
  <2>3. users' = users \/ AccountsNext
    <3>1. CASE c.op = "delete"
      <4>1. users' = [users EXCEPT ![u] = "deleted"]
        BY <1>3, <3>1 DEF StatusAfter
      <4>2. DeleteUser(u)
        BY <2>1, <4>1 DEF DeleteUser, SetStatus, RowExists
      <4> QED BY <1>1, <4>2 DEF AccountsNext
    <3>2. CASE c.op = "deactivate"
      <4>1. users' = [users EXCEPT ![u] = "inactive"]
        BY <1>3, <3>2 DEF StatusAfter
      <4>2. CASE users[u] = "active"
        BY <1>1, <4>1, <4>2 DEF AccountsNext, DeactivateUser, SetStatus
      <4>3. CASE users[u] = "inactive"
        BY <1>1, <1>2, <4>1, <4>3
      <4> QED BY <2>1, <4>2, <4>3 DEF RowExists
    <3>3. CASE c.op = "reactivate"
      <4>1. users' = [users EXCEPT ![u] = "active"]
        BY <1>3, <3>3 DEF StatusAfter
      <4>2. CASE users[u] = "inactive"
        BY <1>1, <4>1, <4>2 DEF AccountsNext, ReactivateUser, SetStatus
      <4>3. CASE users[u] = "active"
        BY <1>1, <1>2, <4>1, <4>3
      <4> QED BY <2>1, <4>2, <4>3 DEF RowExists
    <3> QED BY <1>1, <1>5, <3>1, <3>2, <3>3 DEF Op
  <2>4. UniqueEmails'
    <3>1. \A v \in Users : RowExists(v)' => RowExists(v)
      BY <1>2, <1>3, <2>1 DEF RowExists
    <3> QED BY <3>1 DEF IInv, UniqueEmails
  <2> QED BY <1>1, <1>2, <1>3, <2>1, <2>2, <2>3, <2>4 DEF RowExists
<1> QED BY <1>4, <1>5

(* A step that writes no account, and moves no request but r, keeps the    *)
(* invariant if r keeps its own.                                           *)
LEMMA RequestFrame ==
    ASSUME IInv, TypeOK', NEW r \in Requests,
           users' = users, call' = call,
           \A q \in Requests : q # r => pc'[q] = pc[q] /\ status'[q] = status[q],
           RequestInv(r)',
           status'[r] = 201 => users[call[r].target] # "absent",
           status'[r] = 204 => users[call[r].target] = "deleted"
    PROVE  IInv'
<1>1. \A q \in Requests : RequestInv(q)'
  <2> SUFFICES ASSUME NEW q \in Requests, q # r
               PROVE  RequestInv(q)'
    OBVIOUS
  <2>1. RequestInv(q) /\ pc'[q] = pc[q] /\ status'[q] = status[q]
    BY DEF IInv
  <2> QED BY <2>1 DEF RequestInv, SelfRefused, IsCaller
<1>2. FreshTargets' /\ UniqueEmails'
  BY DEF IInv, FreshTargets, UniqueEmails, RowExists
<1>3. AnswersHold'
  BY DEF IInv, AnswersHold
<1> QED BY <1>1, <1>2, <1>3 DEF IInv

LEMMA NextIInv == IInv /\ [Next]_vars => IInv'
<1> SUFFICES ASSUME IInv, [Next]_vars
             PROVE  IInv'
  OBVIOUS
<1> USE DEF faults
<1>0. TypeOK' /\ TypeOK
  BY NextTypeOK DEF IInv
<1>1. ASSUME NEW r \in Requests, Start(r)
      PROVE  IInv'
  <2>1. PICK c \in Call : /\ users[c.caller] # "absent"
                          /\ IF c.op = "register" THEN Fresh(c.target)
                             ELSE users[c.target] # "absent"
                          /\ call' = [call EXCEPT ![r] = c]
    BY <1>1 DEF Start
  <2>2. /\ users' = users /\ status' = status /\ pc[r] = "idle"
        /\ pc' = [pc EXCEPT ![r] = "auth"]
        /\ call'[r] = c /\ pc'[r] = "auth" /\ status[r] = 0
        /\ \A q \in Requests : q # r => call'[q] = call[q] /\ pc'[q] = pc[q]
    BY <1>0, <1>1, <2>1 DEF Start, Goto, TypeOK, IInv, RequestInv
  <2>3. \A q \in Requests : RequestInv(q)'
    <3>1. RequestInv(r)'
      BY <2>1, <2>2 DEF RequestInv, InHandler, Undecided, Fresh
    <3>2. ASSUME NEW q \in Requests, q # r
          PROVE  RequestInv(q)'
      <4>1. RequestInv(q) /\ call'[q] = call[q] /\ pc'[q] = pc[q]
        BY <2>2, <3>2 DEF IInv
      <4> QED BY <2>2, <4>1 DEF RequestInv, SelfRefused, IsCaller
    <3> QED BY <3>1, <3>2
  <2>4. FreshTargets'
    BY <2>1, <2>2 DEF IInv, FreshTargets, Fresh
  <2>5. UniqueEmails'
    BY <2>2 DEF IInv, UniqueEmails, RowExists
  <2>6. AnswersHold'
    <3>1. \A q \in Requests : status'[q] \in {201, 204} => call'[q] = call[q]
      BY <2>2
    <3> QED BY <2>2, <3>1 DEF IInv, AnswersHold
  <2> QED BY <1>0, <2>3, <2>4, <2>5, <2>6 DEF IInv
<1>2. ASSUME NEW r \in Requests, RequireAdmin(r)
      PROVE  IInv'
  <2>1. /\ users' = users /\ call' = call
        /\ \A q \in Requests : q # r => pc'[q] = pc[q] /\ status'[q] = status[q]
        /\ status'[r] \notin {201, 204}
        /\ RequestInv(r)
    BY <1>0, <1>2
       DEF RequireAdmin, Goto, Fail, Answer, TypeOK, IInv, RequestInv, InHandler
  <2>2. RequestInv(r)'
    BY <1>0, <1>2, <2>1
       DEF RequireAdmin, Goto, Fail, Answer, TypeOK, RequestInv, InHandler, Undecided
  <2> QED BY <1>0, <2>1, <2>2, RequestFrame
<1>3. ASSUME NEW r \in Requests, LoadTarget(r) \/ CheckEmail(r)
      PROVE  IInv'
  <2>1. /\ users' = users /\ call' = call
        /\ \A q \in Requests : q # r => pc'[q] = pc[q] /\ status'[q] = status[q]
        /\ status'[r] \notin {201, 204}
        /\ RequestInv(r)
    BY <1>0, <1>3
       DEF LoadTarget, CheckEmail, Goto, Fail, Answer, TypeOK, IInv, RequestInv,
           InHandler
  <2>2. RequestInv(r)'
    BY <1>0, <1>3, <2>1
       DEF LoadTarget, CheckEmail, Goto, Fail, Answer, TypeOK, RequestInv,
           InHandler, Undecided, SelfRefused, IsCaller
  <2> QED BY <1>0, <2>1, <2>2, RequestFrame
<1>4. ASSUME NEW r \in Requests, Commit(r) \/ CommitAnswerLost(r)
      PROVE  IInv'
  <2>1. /\ pc[r] = "commit" /\ call' = call /\ RequestInv(r)
        /\ \A q \in Requests : q # r => pc'[q] = pc[q] /\ status'[q] = status[q]
        /\ call[r] \in Call /\ call[r].caller \in Admins /\ status[r] = 0
    BY <1>0, <1>4
       DEF Commit, CommitAnswerLost, Goto, Fail, Answer, TypeOK, IInv, RequestInv,
           InHandler
  <2>2. \/ pc'[r] = "refresh" /\ status'[r] = 0 /\ Matches(r)
        \/ pc'[r] = "record" /\ status'[r] = 204 /\ call[r].op = "delete"
        \/ pc'[r] = "done" /\ status'[r] = 500
    BY <1>0, <1>4, <2>1
       DEF Commit, CommitAnswerLost, Goto, Fail, Answer, TypeOK
  <2>3. CASE Matches(r) /\ WriteUser(r)
    <3> DEFINE u == call[r].target
    <3>1. /\ UniqueEmails'
          /\ \A v \in Users : users[v] # "absent" => users'[v] # "absent"
          /\ \A v \in Users : users[v] = "deleted" => users'[v] = "deleted"
          /\ \A v \in Users : v # u => users'[v] = users[v]
          /\ users'[u] # "absent"
          /\ users' = [users EXCEPT ![u] = StatusAfter[call[r].op]]
      BY <2>1, <2>3, CommitEffect
    <3>2. u \in Users /\ users \in [Users -> AccountStatus]
      BY <1>0, <2>1 DEF Call, TypeOK
    <3>3. RequestInv(r)'
      BY <2>1, <2>2, <3>1 DEF RequestInv, InHandler, Undecided
    <3>4. ASSUME NEW q \in Requests, q # r
          PROVE  RequestInv(q)'
      <4>1. RequestInv(q) /\ pc'[q] = pc[q] /\ status'[q] = status[q] /\ call'[q] = call[q]
        BY <2>1, <3>4 DEF IInv
      <4>2. pc[q] # "idle" => call[q].target \in Users
        BY <1>0 DEF TypeOK, Call
      <4>3. call[q].op = "register" /\ pc[q] \in Undecided => users'[call[q].target] = "absent"
        <5> SUFFICES ASSUME call[q].op = "register", pc[q] \in Undecided
                     PROVE  users'[call[q].target] = "absent"
          OBVIOUS
        <5>1. call[q].target # u
          <6>1. CASE call[r].op = "register"
            BY <3>4, <6>1 DEF IInv, FreshTargets
          <6>2. CASE call[r].op # "register"
            BY <2>1, <4>1, <6>2 DEF RequestInv
          <6> QED BY <6>1, <6>2
        <5> QED BY <3>1, <4>1, <4>2, <5>1 DEF RequestInv, Undecided
      <4>4. pc[q] # "idle" /\ call[q].op # "register" => users'[call[q].target] # "absent"
        BY <3>1, <4>1, <4>2 DEF RequestInv
      <4>5. pc[q] = "refresh" => users'[call[q].target] # "absent"
        BY <3>1, <4>1, <4>2 DEF RequestInv
      <4> QED
        BY <4>1, <4>3, <4>4, <4>5 DEF RequestInv, SelfRefused, IsCaller
    <3>5. FreshTargets'
      BY <2>1 DEF IInv, FreshTargets
    <3>6. AnswersHold'
      <4>1. status'[r] = 204 => users'[u] = "deleted"
        BY <2>2, <3>1, <3>2 DEF StatusAfter
      <4>2. status'[r] # 201
        BY <2>2
      <4>3. ASSUME NEW q \in Requests, q # r, status'[q] \in {201, 204}
            PROVE  call[q].target \in Users
        BY <1>0, <2>1, <4>3 DEF TypeOK, Call, IInv, RequestInv
      <4> QED BY <2>1, <3>1, <4>1, <4>2, <4>3 DEF IInv, AnswersHold
    <3> QED BY <1>0, <3>1, <3>3, <3>4, <3>5, <3>6 DEF IInv
  <2>4. CASE ~Matches(r) /\ users' = users
    <3>1. RequestInv(r)'
      BY <2>1, <2>2, <2>4 DEF RequestInv, InHandler, Undecided
    <3>2. status'[r] = 204 => users[call[r].target] = "deleted"
      <4> SUFFICES ASSUME call[r].op = "delete"
                   PROVE  users[call[r].target] = "deleted"
        BY <2>2
      <4>1. ~RowExists(call[r].target)
        BY <1>0, <2>1, <2>4, AdminSees DEF Matches
      <4>2. users[call[r].target] # "absent"
        BY <2>1 DEF RequestInv
      <4>3. users[call[r].target] \in AccountStatus
        BY <1>0, <2>1 DEF TypeOK, Call
      <4> QED BY <4>1, <4>2, <4>3 DEF RowExists, AccountStatus
    <3> QED BY <1>0, <2>1, <2>2, <2>4, <3>1, <3>2, RequestFrame
  <2> QED BY <1>4, <2>3, <2>4 DEF Commit, CommitAnswerLost
<1>5. ASSUME NEW r \in Requests, Refresh(r)
      PROVE  IInv'
  <2>1. /\ users' = users /\ call' = call /\ pc[r] = "refresh"
        /\ \A q \in Requests : q # r => pc'[q] = pc[q] /\ status'[q] = status[q]
        /\ status'[r] # 204 /\ pc'[r] \in {"record", "done"}
        /\ RequestInv(r)
    BY <1>0, <1>5
       DEF Refresh, Fail, Answer, TypeOK, IInv
  <2>2. RequestInv(r)'
    BY <2>1 DEF RequestInv, InHandler, Undecided
  <2>3. users[call[r].target] # "absent"
    BY <2>1 DEF RequestInv
  <2> QED BY <1>0, <2>1, <2>2, <2>3, RequestFrame
<1>6. ASSUME NEW r \in Requests, RecordAction(r) \/ RecordError(r)
      PROVE  IInv'
  <2>1. /\ users' = users /\ call' = call /\ status' = status
        /\ pc[r] = "record" /\ pc'[r] = "done" /\ RequestInv(r)
        /\ \A q \in Requests : q # r => pc'[q] = pc[q]
    BY <1>0, <1>6 DEF RecordAction, RecordError, AuditEnds, Goto, TypeOK, IInv
  <2>2. RequestInv(r)'
    BY <2>1 DEF RequestInv, InHandler, Undecided
  <2>3. AnswersHold
    BY DEF IInv
  <2> QED BY <1>0, <2>1, <2>2, <2>3, RequestFrame DEF AnswersHold
<1>7. ASSUME NEW r \in Requests, DbError(r)
      PROVE  IInv'
  <2>1. /\ users' = users /\ call' = call /\ pc[r] \in InHandler
        /\ pc'[r] = "done" /\ status'[r] = 500 /\ RequestInv(r)
        /\ \A q \in Requests : q # r => pc'[q] = pc[q] /\ status'[q] = status[q]
    BY <1>0, <1>7 DEF DbError, Fail, Answer, TypeOK, IInv, InHandler
  <2>2. RequestInv(r)'
    BY <2>1 DEF RequestInv, InHandler, Undecided
  <2> QED BY <1>0, <2>1, <2>2, RequestFrame
<1>8. CASE Crash
  <2>1. /\ users' = users /\ call' = call /\ status' = status
        /\ \A q \in Requests : pc'[q] = IF pc[q] \in InFlight THEN "crashed" ELSE pc[q]
    BY <1>8 DEF Crash
  <2>2. \A q \in Requests : RequestInv(q)'
    BY <2>1
       DEF IInv, RequestInv, InFlight, InHandler, Undecided, SelfRefused, IsCaller
  <2> QED
    BY <1>0, <2>1, <2>2
       DEF IInv, FreshTargets, UniqueEmails, RowExists, AnswersHold
<1>9. CASE UNCHANGED vars
  BY <1>0, <1>9
     DEF vars, IInv, RequestInv, FreshTargets, UniqueEmails, RowExists, AnswersHold,
         SelfRefused, IsCaller
<1> QED
  BY <1>1, <1>2, <1>3, <1>4, <1>5, <1>6, <1>7, <1>8, <1>9
     DEF Next, Handler, Fault, Quiescent
-----------------------------------------------------------------------------
(* In every reachable state each running request still knows what its      *)
(* guards established: who called it, and that its target has existed, or  *)
(* is still to be created by nobody else.                                  *)
THEOREM Inductive == Spec => []IInv
  BY InitIInv, NextIInv, PTL DEF Spec

(* Accounts, requests and audit entries keep their types, whatever races and *)
(* fails; an entry always names the account its operation was about.       *)
THEOREM TypeCorrect == Spec => []TypeOK
<1>1. IInv => TypeOK
  BY DEF IInv
<1> QED BY <1>1, Inductive, PTL

(* No two existing accounts ever share an email, for any number of racing  *)
(* registrations.                                                          *)
THEOREM Unique == Spec => []UniqueEmails
<1>1. IInv => UniqueEmails
  BY DEF IInv
<1> QED BY <1>1, Inductive, PTL

(* A 201 has created its account, and a 204 has removed it for good.       *)
THEOREM Answers == Spec => []AnswersHold
<1>1. IInv => AnswersHold
  BY DEF IInv
<1> QED BY <1>1, Inductive, PTL

(* Only a commit that matches changes an account.                          *)
LEMMA UsersChange ==
    ASSUME IInv, [Next]_vars
    PROVE  \/ users' = users
           \/ \E r \in Requests :
                /\ pc[r] = "commit" /\ pc'[r] # "commit"
                /\ Matches(r) /\ WriteUser(r)
<1> USE DEF faults
<1>1. ASSUME NEW r \in Requests, Commit(r) \/ CommitAnswerLost(r)
      PROVE  \/ users' = users
             \/ /\ pc[r] = "commit" /\ pc'[r] # "commit"
                /\ Matches(r) /\ WriteUser(r)
  BY <1>1 DEF Commit, CommitAnswerLost, Goto, Fail, Answer, IInv, TypeOK
<1> QED
  BY <1>1
     DEF Next, Handler, Fault, Quiescent, vars, Start, RequireAdmin, LoadTarget,
         CheckEmail, Refresh, RecordAction, RecordError, AuditEnds, DbError, Crash

(* The handlers, whatever they decided on, implement the account life      *)
(* cycle that the other modules build on.                                  *)
THEOREM Refinement == Spec => ImplementsAccounts
<1>1. Init => AccountsInit
  BY DEF Init
<1>2. IInv /\ [Next]_vars => [AccountsNext]_users
  BY UsersChange, CommitEffect
<1> QED BY <1>1, <1>2, Inductive, PTL DEF Spec, ImplementsAccounts, AccountsSpec

(* The last active admin falls only to a caller whose own rights were      *)
(* already gone: a lockout takes two admins and a race.                    *)
THEOREM LockoutTakesTwo == Spec => NoLoneLockout
<1>1. IInv /\ [Next]_vars =>
        [ActiveAdmins # {} /\ ActiveAdmins' = {}
          => \E r \in Requests :
               /\ pc[r] = "commit" /\ pc'[r] # "commit"
               /\ users[call[r].caller] # "active"]_vars
  <2> SUFFICES ASSUME IInv, [Next]_vars, ActiveAdmins # {}, ActiveAdmins' = {}
               PROVE  \E r \in Requests :
                        /\ pc[r] = "commit" /\ pc'[r] # "commit"
                        /\ users[call[r].caller] # "active"
    OBVIOUS
  <2>1. users' # users
    BY DEF ActiveAdmins
  <2>2. PICK r \in Requests : /\ pc[r] = "commit" /\ pc'[r] # "commit"
                              /\ Matches(r) /\ WriteUser(r)
    BY <2>1, UsersChange
  <2> DEFINE c == call[r]
  <2>3. /\ c \in Call /\ c.caller \in Admins /\ c.op \in Op
        /\ \A v \in Users : v # c.target => users'[v] = users[v]
        /\ users' = [users EXCEPT ![c.target] = StatusAfter[c.op]]
        /\ users \in [Users -> AccountStatus]
    BY <2>2, CommitEffect DEF Call, IInv, TypeOK
  <2>4. c.caller \in Users /\ c.target \in Users
    BY <2>3 DEF Call
  <2>5. CASE c.caller = c.target
    <3>1. c.op \in {"register", "reactivate"}
      BY <2>2, <2>3, <2>5 DEF IInv, RequestInv, SelfRefused, IsCaller, Op
    <3>2. users'[c.target] = "active"
      BY <2>3, <2>4, <3>1 DEF StatusAfter
    <3> QED BY <2>3, <2>5, <3>2 DEF ActiveAdmins
  <2>6. CASE c.caller # c.target
    <3>1. users'[c.caller] = users[c.caller]
      BY <2>3, <2>4, <2>6
    <3> QED BY <2>2, <2>3, <3>1 DEF ActiveAdmins
  <2> QED BY <2>5, <2>6
<1> QED BY <1>1, Inductive, PTL DEF Spec, NoLoneLockout

(* Whatever was decided when: an account changes only by the commit of a   *)
(* request for it, made by an admin, and into what the request asks for;   *)
(* none deactivates or deletes its own caller.                             *)
ChangesAreOrdered ==
    [][\A u \in Users : users'[u] # users[u] =>
         \E r \in Requests :
            /\ pc[r] = "commit" /\ pc'[r] # "commit"
            /\ call[r].target = u /\ call[r].caller \in Admins
            /\ users'[u] = StatusAfter[call[r].op]
            /\ users'[u] # "active" => call[r].caller # u]_vars

THEOREM Ordered == Spec => ChangesAreOrdered
<1>1. ASSUME IInv, [Next]_vars, NEW u \in Users, users'[u] # users[u]
      PROVE  \E r \in Requests :
                /\ pc[r] = "commit" /\ pc'[r] # "commit"
                /\ call[r].target = u /\ call[r].caller \in Admins
                /\ users'[u] = StatusAfter[call[r].op]
                /\ users'[u] # "active" => call[r].caller # u
  <2>1. PICK r \in Requests : /\ pc[r] = "commit" /\ pc'[r] # "commit"
                              /\ Matches(r) /\ WriteUser(r)
    BY <1>1, UsersChange
  <2> DEFINE c == call[r]
  <2>2. /\ c \in Call /\ c.caller \in Admins /\ c.op \in Op
        /\ \A v \in Users : v # c.target => users'[v] = users[v]
        /\ users' = [users EXCEPT ![c.target] = StatusAfter[c.op]]
        /\ users \in [Users -> AccountStatus]
    BY <1>1, <2>1, CommitEffect DEF Call, IInv, TypeOK
  <2>3. c.target = u /\ users'[u] = StatusAfter[c.op]
    BY <1>1, <2>2
  <2>4. users'[u] # "active" => c.caller # u
    <3>1. c.op \in {"register", "reactivate"} => users'[u] = "active"
      BY <2>3 DEF StatusAfter
    <3>2. c.op \in {"deactivate", "delete"} => c.caller # u
      BY <1>1, <2>1, <2>3 DEF IInv, RequestInv, SelfRefused, IsCaller
    <3>3. QED
      BY <2>2, <3>1, <3>2 DEF Op
  <2>5. QED
    BY <2>1, <2>2, <2>3, <2>4
<1>2. IInv /\ [Next]_vars =>
        [\A u \in Users : users'[u] # users[u] =>
           \E r \in Requests :
              /\ pc[r] = "commit" /\ pc'[r] # "commit"
              /\ call[r].target = u /\ call[r].caller \in Admins
              /\ users'[u] = StatusAfter[call[r].op]
              /\ users'[u] # "active" => call[r].caller # u]_vars
  BY <1>1
<1> QED BY <1>2, Inductive, PTL DEF Spec, ChangesAreOrdered
-----------------------------------------------------------------------------
(* What the fairness of FairSpec is not needed for: a request's steps lead *)
(* forward, and what has ended has been accounted for.                     *)
Stage == [idle |-> 0, auth |-> 1, load |-> 2, commit |-> 3, refresh |-> 4,
          record |-> 5, done |-> 6, crashed |-> 6]

Advances(r) == Stage[pc'[r]] > Stage[pc[r]]

(* Every step of a handler takes its request forward, and no other step    *)
(* takes it back: racing operations cost a request no retry, and it ends   *)
(* within six steps.                                                       *)
RequestsAdvance ==
    [][\A r \in Requests : Handler(r) \/ pc'[r] # pc[r] => Advances(r)]_vars

LEMMA StepAdvances ==
    ASSUME TypeOK, [Next]_vars, NEW r \in Requests
    PROVE  /\ Handler(r) => Advances(r)
           /\ pc'[r] # pc[r] => Advances(r)
<1> USE DEF Goto, Fail, Answer, Stage, Advances
<1>1. pc \in [Requests -> InFlight \cup {"idle", "done", "crashed"}]
  BY DEF TypeOK
<1>2. ASSUME RequireAdmin(r) \/ LoadTarget(r) \/ CheckEmail(r) PROVE Advances(r)
  BY <1>1, <1>2 DEF RequireAdmin, LoadTarget, CheckEmail
<1>3. ASSUME Commit(r) \/ Refresh(r) PROVE Advances(r)
  BY <1>1, <1>3 DEF Commit, Refresh
<1>4. ASSUME Start(r) \/ RecordAction(r) \/ RecordError(r) \/ CommitAnswerLost(r)
      PROVE  Advances(r)
  BY <1>1, <1>4 DEF Start, RecordAction, RecordError, AuditEnds, CommitAnswerLost
<1>5. ASSUME DbError(r) PROVE Advances(r)
  BY <1>1, <1>5 DEF DbError, InHandler
<1>6. ASSUME Crash, pc'[r] # pc[r] PROVE Advances(r)
  <2>1. pc[r] \in InFlight /\ pc'[r] = "crashed"
    BY <1>6 DEF Crash
  <2>2. QED
    BY <2>1 DEF InFlight, InHandler
<1>7. ASSUME NEW q \in Requests, q # r, Start(q) \/ Handler(q) \/ Fault(q)
      PROVE  pc'[r] = pc[r]
  BY <1>1, <1>7 DEF Start, Handler, Fault, RequireAdmin, LoadTarget, CheckEmail,
     Commit, Refresh, RecordAction, RecordError, AuditEnds, DbError, CommitAnswerLost
<1>8. ASSUME UNCHANGED vars PROVE pc'[r] = pc[r]
  BY <1>8 DEF vars
<1>9. QED
  BY <1>2, <1>3, <1>4, <1>5, <1>6, <1>7, <1>8 DEF Next, Handler, Fault, Quiescent

(* No admin request is kept busy for ever by the others.                   *)
THEOREM Forward == Spec => RequestsAdvance
<1>1. TypeOK /\ [Next]_vars =>
        [\A r \in Requests : Handler(r) \/ pc'[r] # pc[r] => Advances(r)]_vars
  BY StepAdvances
<1> QED BY <1>1, TypeCorrect, PTL DEF Spec, RequestsAdvance

Succeeded == {200, 201, 204}

Audited(r) == \E e \in audit : e.req = r

Kept(r) == Audited(r) \/ r \in counted \/ pc[r] = "crashed" \/ crashes > 0

(* An operation that was answered with success is in the audit trail or    *)
(* counted by the tracker when its request has ended, unless the process   *)
(* has died.                                                               *)
AnswersAreKept ==
    \A r \in Requests : status[r] \in Succeeded /\ pc[r] = "done" => Kept(r)

(* Each entry of the trail is of an operation that was answered with       *)
(* success, the only entry of it, says what it did to whom, and names the  *)
(* admin who asked for it, or nobody once that account is deleted.         *)
TrailIsTrue ==
    /\ \A e, f \in audit : e.req = f.req => e = f
    /\ \A e \in audit :
         /\ status[e.req] \in Succeeded
         /\ e.op = call[e.req].op /\ e.entity = call[e.req].target
         /\ call[e.req].caller \in Admins /\ e.user \in {call[e.req].caller, None}

KeptBy(r) ==
    /\ status[r] \in Succeeded => pc[r] = "record" \/ Kept(r)
    /\ pc[r] = "record" => status[r] \in Succeeded /\ call[r].caller \in Admins
    /\ Audited(r) => pc[r] = "done"

KeptInv == TrailIsTrue /\ \A r \in Requests : KeptBy(r)

(* The steps that write the trail: a record adds its own entry, and a      *)
(* deletion takes the name of the deleted account out of the others.       *)
Adds(q) == /\ pc[q] = "record" /\ pc' = [pc EXCEPT ![q] = "done"]
           /\ audit' \subseteq audit \cup {EntryOf(q)} /\ audit \subseteq audit'
           /\ UNCHANGED <<call, status>>

LEMMA TrailSteps ==
    ASSUME [Next]_vars, audit' # audit
    PROVE  \/ \E q \in Requests : Adds(q)
           \/ \E u : audit' = {Anonymise(e, u) : e \in audit}
<1> USE DEF faults
<1>1. ASSUME NEW q \in Requests, RecordAction(q) \/ RecordError(q) PROVE Adds(q)
  BY <1>1 DEF RecordAction, RecordError, AuditEnds, Goto, Adds
<1>2. ASSUME NEW q \in Requests, Commit(q) \/ CommitAnswerLost(q)
      PROVE  \E u : audit' = {Anonymise(e, u) : e \in audit}
  BY <1>2 DEF Commit, CommitAnswerLost, WriteUser
<1>3. QED
  BY <1>1, <1>2 DEF Next, Handler, Fault, Quiescent, vars, Start, RequireAdmin, LoadTarget,
     CheckEmail, Refresh, DbError, Crash

LEMMA AnonymiseKeeps ==
    ASSUME NEW e \in Entry, NEW u
    PROVE  LET f == Anonymise(e, u)
           IN  f.req = e.req /\ f.op = e.op /\ f.entity = e.entity /\ f.user \in {e.user, None}
  BY DEF Anonymise, Entry

LEMMA TrailFrame ==
    ASSUME IInv, [Next]_vars, NEW r \in Requests, pc[r] # "record" \/ pc'[r] = pc[r]
    PROVE  Audited(r)' <=> Audited(r)
<1>1. ASSUME NEW q \in Requests, Adds(q) PROVE Audited(r)' <=> Audited(r)
  <2>1. q # r
    BY <1>1 DEF Adds, IInv, TypeOK
  <2>2. QED
    BY <1>1, <2>1 DEF Adds, Audited, EntryOf
<1>2. ASSUME NEW u, audit' = {Anonymise(e, u) : e \in audit} PROVE Audited(r)' <=> Audited(r)
  <2>1. \A e \in audit : Anonymise(e, u).req = e.req
    BY AnonymiseKeeps DEF IInv, TypeOK
  <2>2. QED
    BY <1>2, <2>1 DEF Audited
<1>3. QED
  BY <1>1, <1>2, TrailSteps DEF Audited

(* Whoever has succeeded stays so, and is asked nothing else.              *)
LEMMA SuccessStays ==
    ASSUME IInv, [Next]_vars, NEW r \in Requests, pc[r] # "idle"
    PROVE  /\ call'[r] = call[r]
           /\ status[r] # 0 => status'[r] = status[r]
<1> USE DEF faults, Goto, Answer, Fail
<1>1. TypeOK /\ RequestInv(r)
  BY DEF IInv
<1>2. ASSUME NEW q \in Requests, Start(q) \/ Handler(q) \/ Fault(q)
      PROVE  /\ call'[r] = call[r]
             /\ status[r] # 0 => status'[r] = status[r]
  <2>1. call'[r] = call[r]
    BY <1>1, <1>2 DEF TypeOK, Start, Handler, Fault, RequireAdmin, LoadTarget, CheckEmail,
       Commit, Refresh, RecordAction, RecordError, AuditEnds, DbError, CommitAnswerLost
  <2>2. CASE q # r
    BY <1>1, <1>2, <2>1, <2>2 DEF TypeOK, Start, Handler, Fault, RequireAdmin, LoadTarget,
       CheckEmail, Commit, Refresh, RecordAction, RecordError, AuditEnds, DbError,
       CommitAnswerLost
  <2>3. CASE q = r
    BY <1>1, <1>2, <2>1, <2>3 DEF RequestInv, InHandler, Start, Handler, Fault, RequireAdmin,
       LoadTarget, CheckEmail, Commit, Refresh, RecordAction, RecordError, AuditEnds, DbError,
       CommitAnswerLost
  <2>4. QED
    BY <2>2, <2>3
<1>3. QED
  BY <1>2 DEF Next, Quiescent, Crash, vars

LEMMA TrailStep ==
    ASSUME IInv, KeptInv, [Next]_vars
    PROVE  TrailIsTrue'
<1> DEFINE True(e) == /\ status[e.req] \in Succeeded
                      /\ e.op = call[e.req].op /\ e.entity = call[e.req].target
                      /\ call[e.req].caller \in Admins /\ e.user \in {call[e.req].caller, None}
<1>1. /\ audit \subseteq Entry /\ \A e \in audit : True(e) /\ pc[e.req] # "idle"
      /\ \A e, f \in audit : e.req = f.req => e = f
  <2>1. /\ TrailIsTrue /\ audit \subseteq Entry
        /\ \A r \in Requests : Audited(r) => pc[r] = "done"
    BY DEF IInv, TypeOK, KeptInv, KeptBy
  <2>2. \A e \in audit : e.req \in Requests /\ Audited(e.req)
    BY <2>1 DEF Entry, Audited
  <2>3. \A e \in audit : pc[e.req] # "idle"
    BY <2>1, <2>2
  <2>4. QED
    BY <2>1, <2>3 DEF TrailIsTrue
<1>2. \A e \in audit : call'[e.req] = call[e.req] /\ status'[e.req] = status[e.req]
  BY <1>1, SuccessStays DEF Entry, Succeeded
<1>3. CASE audit' = audit
  BY <1>1, <1>2, <1>3 DEF TrailIsTrue, Succeeded
<1>4. ASSUME NEW q \in Requests, Adds(q) PROVE TrailIsTrue'
  <2>1. /\ EntryOf(q).req = q /\ True(EntryOf(q))
        /\ \A e \in audit : e.req # q
    BY <1>4 DEF Adds, EntryOf, KeptInv, KeptBy, Audited
  <2>2. /\ audit' \subseteq audit \cup {EntryOf(q)}
        /\ UNCHANGED <<call, status>>
    BY <1>4 DEF Adds
  <2>3. QED
    BY <1>1, <2>1, <2>2 DEF TrailIsTrue, Succeeded
<1>5. ASSUME NEW u, audit' = {Anonymise(e, u) : e \in audit} PROVE TrailIsTrue'
  <2>1. \A e \in audit : /\ Anonymise(e, u).req = e.req /\ Anonymise(e, u).op = e.op
                          /\ Anonymise(e, u).entity = e.entity
                          /\ Anonymise(e, u).user \in {e.user, None}
    BY <1>1, AnonymiseKeeps
  <2>2. \A e, f \in audit' : e.req = f.req => e = f
    BY <1>1, <1>5, <2>1
  <2>3. ASSUME NEW f \in audit'
        PROVE  /\ status'[f.req] \in Succeeded
               /\ f.op = call'[f.req].op /\ f.entity = call'[f.req].target
               /\ call'[f.req].caller \in Admins /\ f.user \in {call'[f.req].caller, None}
    <3>1. PICK e \in audit : f = Anonymise(e, u)
      BY <1>5
    <3>2. QED
      BY <1>1, <1>2, <2>1, <3>1
  <2>4. QED
    BY <2>2, <2>3 DEF TrailIsTrue, Succeeded
<1>6. QED
  BY <1>3, <1>4, <1>5, TrailSteps

LEMMA KeptByStep ==
    ASSUME IInv, KeptInv, [Next]_vars, NEW r \in Requests
    PROVE  KeptBy(r)'
<1> USE DEF faults, Goto, Answer, Fail
<1>1. TypeOK /\ RequestInv(r) /\ KeptBy(r)
  BY DEF IInv, KeptInv
<1>2. ASSUME pc'[r] = pc[r], status'[r] = status[r], call'[r] = call[r],
             counted \subseteq counted', crashes' = crashes
      PROVE  KeptBy(r)'
  <2>1. Audited(r)' <=> Audited(r)
    BY <1>2, TrailFrame
  <2>2. QED
    BY <1>1, <1>2, <2>1 DEF KeptBy, Kept, Succeeded
<1>3. ASSUME pc[r] \in {"idle"} \cup InHandler
      PROVE  status[r] = 0 /\ ~Audited(r)'
  <2>1. status[r] = 0 /\ pc[r] # "record" /\ ~Audited(r)
    BY <1>1, <1>3 DEF RequestInv, KeptBy, InHandler
  <2>2. QED
    BY <2>1, TrailFrame
<1>4. ASSUME Start(r) \/ RequireAdmin(r) \/ LoadTarget(r) \/ CheckEmail(r) \/ DbError(r)
             \/ CommitAnswerLost(r)
      PROVE  KeptBy(r)'
  <2>1. pc[r] \in {"idle"} \cup InHandler
    BY <1>4 DEF Start, RequireAdmin, LoadTarget, CheckEmail, DbError, CommitAnswerLost, InHandler
  <2>2. status'[r] \notin Succeeded /\ pc'[r] # "record"
    BY <1>1, <1>3, <1>4, <2>1 DEF TypeOK, Start, RequireAdmin, LoadTarget, CheckEmail, DbError,
       CommitAnswerLost, Succeeded
  <2>3. QED
    BY <1>3, <2>1, <2>2 DEF KeptBy
<1>5. ASSUME Commit(r) \/ Refresh(r) PROVE KeptBy(r)'
  <2>1. pc[r] \in {"commit", "refresh"} /\ call'[r] = call[r]
    BY <1>5 DEF Commit, Refresh
  <2>2. status[r] = 0 /\ ~Audited(r)' /\ call[r].caller \in Admins
    BY <1>1, <1>3, <2>1 DEF RequestInv, InHandler
  <2>3. \/ pc'[r] = "record" /\ status'[r] \in Succeeded
        \/ pc'[r] # "record" /\ status'[r] \notin Succeeded
    BY <1>1, <1>5, <2>2 DEF TypeOK, Commit, Refresh, Succeeded
  <2>4. QED
    BY <2>1, <2>2, <2>3 DEF KeptBy
<1>6. ASSUME RecordAction(r) \/ RecordError(r) PROVE KeptBy(r)'
  <2>1. pc'[r] = "done"
    BY <1>1, <1>6 DEF TypeOK, RecordAction, RecordError, AuditEnds
  <2>2. EntryOf(r) \in audit' \/ r \in counted'
    BY <1>6 DEF RecordAction, RecordError
  <2>3. Kept(r)'
    BY <2>2 DEF Kept, Audited, EntryOf
  <2>4. QED
    BY <2>1, <2>3 DEF KeptBy
<1>7. ASSUME NEW q \in Requests, q # r, Start(q) \/ Handler(q) \/ Fault(q) PROVE KeptBy(r)'
  <2>1. /\ pc'[r] = pc[r] /\ status'[r] = status[r] /\ call'[r] = call[r]
        /\ counted \subseteq counted' /\ crashes' = crashes
    BY <1>1, <1>7 DEF TypeOK, Start, Handler, Fault, RequireAdmin, LoadTarget, CheckEmail,
       Commit, Refresh, RecordAction, RecordError, AuditEnds, DbError, CommitAnswerLost
  <2>2. QED
    BY <1>2, <2>1
<1>8. ASSUME UNCHANGED vars PROVE KeptBy(r)'
  BY <1>2, <1>8 DEF vars
<1>9. ASSUME Crash PROVE KeptBy(r)'
  <2>1. /\ UNCHANGED <<status, call, audit>> /\ crashes' > 0 /\ pc'[r] # "record"
        /\ pc'[r] = "done" <=> pc[r] = "done"
    BY <1>1, <1>9, BoundsAssumption DEF TypeOK, Crash, InFlight, InHandler
  <2>2. QED
    BY <1>1, <2>1 DEF KeptBy, Kept, Audited
<1>10. QED
  BY <1>4, <1>5, <1>6, <1>7, <1>8, <1>9 DEF Next, Handler, Fault, Quiescent

LEMMA KeptInductive == Spec => []KeptInv
<1>1. Init => KeptInv
  BY DEF Init, KeptInv, KeptBy, TrailIsTrue, Audited, Succeeded
<1>2. IInv /\ KeptInv /\ [Next]_vars => KeptInv'
  <2> SUFFICES ASSUME IInv, KeptInv, [Next]_vars PROVE KeptInv'
    OBVIOUS
  <2>1. \A r \in Requests : KeptBy(r)'
    BY KeptByStep
  <2>2. QED
    BY <2>1, TrailStep DEF KeptInv
<1> QED BY <1>1, <1>2, Inductive, PTL DEF Spec

(* No successful operation is lost to the trail and to the failure count.  *)
THEOREM AnswerKept == Spec => []AnswersAreKept
<1>1. KeptInv => AnswersAreKept
  BY DEF KeptInv, KeptBy, AnswersAreKept
<1> QED BY <1>1, KeptInductive, PTL

(* The trail of the admin operations is true, and remains so whoever is    *)
(* deleted afterwards.                                                     *)
THEOREM TrailTrue == Spec => []TrailIsTrue
<1>1. KeptInv => TrailIsTrue
  BY DEF KeptInv
<1> QED BY <1>1, KeptInductive, PTL
=============================================================================
