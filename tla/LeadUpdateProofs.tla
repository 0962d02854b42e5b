-------------------------- MODULE LeadUpdateProofs --------------------------
(***************************************************************************)
(* Proofs about LeadUpdate, for any sets of users, leads and requests and  *)
(* any bounds on crashes and database errors.                              *)
(***************************************************************************)
EXTENDS LeadUpdate, TLAPS

(* The types hold initially and every step keeps them.                     *)
LEMMA InitTypeOK == Init => TypeOK
  BY BoundsAssumption
     DEF Init, TypeOK, AccountsInit, AccountStatus, LeadRow, LeadState, NewLead,
         Label, InFlight, InHandler, Call, NoCall

LEMMA MergeType ==
    ASSUME NEW row \in LeadRow, NEW old \in LeadRow, NEW new \in LeadRow
    PROVE  Merge(row, old, new) \in LeadRow
  BY DEF Merge, LeadRow

LEMMA AssignedType ==
    ASSUME TypeOK, NEW r \in Requests, call[r] \in Call
    PROVE  Assigned(r) \in LeadRow
<1>1. seen[r] \in LeadRow /\ r \in Requests
  BY DEF TypeOK
<1>2. CASE call[r].target = "REACHED_OUT"
  BY <1>2 DEF Assigned, LeadRow, LeadState, Call
<1>3. CASE call[r].target # "REACHED_OUT"
  <2>1. Assigned(r) = [seen[r] EXCEPT !.state = "PENDING"]
    BY <1>3 DEF Assigned
  <2> QED BY <1>1, <2>1 DEF LeadRow, LeadState
<1> QED BY <1>2, <1>3

LEMMA UncreditType ==
    ASSUME NEW row \in LeadRow, NEW u
    PROVE  Uncredit(row, u) \in LeadRow
  BY DEF Uncredit, LeadRow

LEMMA AnonymiseType ==
    ASSUME NEW e \in Entry, NEW u
    PROVE  Anonymise(e, u) \in Entry
  BY DEF Anonymise, Entry

LEMMA EntryOfType ==
    ASSUME TypeOK, NEW r \in Requests, call[r] \in Call
    PROVE  EntryOf(r) \in Entry
  BY DEF TypeOK, EntryOf, Entry, Call, LeadRow

LEMMA NextTypeOK == TypeOK /\ [Next]_vars => TypeOK'
<1> SUFFICES ASSUME TypeOK, [Next]_vars
             PROVE  TypeOK'
  OBVIOUS
<1> USE DEF tables, session, reply, faults
<1>1. ASSUME NEW r \in Requests, Start(r)
      PROVE  TypeOK'
  BY <1>1 DEF TypeOK, Start, Goto, Label, InFlight, InHandler
<1>2. ASSUME NEW r \in Requests, Authenticate(r)
      PROVE  TypeOK'
  BY <1>2 DEF TypeOK, Authenticate, Goto, Fail, Label, InFlight, InHandler
<1>3. ASSUME NEW r \in Requests, LoadLead(r)
      PROVE  TypeOK'
  <2>1. pc[r] = "load" /\ call[r] \in Call /\ leads[call[r].lead] \in LeadRow
    BY <1>3 DEF TypeOK, LoadLead, Call
  <2> QED BY <1>3, <2>1 DEF TypeOK, LoadLead, Goto, Fail, Label, InFlight, InHandler
<1>4. ASSUME NEW r \in Requests, GuardAndAssign(r)
      PROVE  TypeOK'
  <2>1. Assigned(r) \in LeadRow
    BY <1>4, AssignedType DEF TypeOK, GuardAndAssign
  <2> QED BY <1>4, <2>1
             DEF TypeOK, GuardAndAssign, Goto, Fail, Label, InFlight, InHandler
<1>5. ASSUME NEW r \in Requests, Flush(r)
      PROVE  TypeOK'
  BY <1>5 DEF TypeOK, Flush, Goto, Fail, Label, InFlight, InHandler
<1>6. ASSUME NEW r \in Requests, pc[r] = "commit", ApplyUpdate(r)
      PROVE  /\ leads' \in [Leads -> LeadRow]
             /\ was' \in [Requests -> LeadState \cup {None}]
  <2>1. call[r] \in Call
    BY <1>6 DEF TypeOK
  <2>2. /\ leads[call[r].lead] \in LeadRow
        /\ leads[call[r].lead].state \in LeadState
    BY <2>1 DEF TypeOK, Call, LeadRow
  <2>3. Merge(leads[call[r].lead], seen[r], obj[r]) \in LeadRow
    BY <2>2, MergeType DEF TypeOK
  <2> QED BY <1>6, <2>2, <2>3 DEF TypeOK, ApplyUpdate
<1>7. ASSUME NEW r \in Requests, Commit(r)
      PROVE  TypeOK'
  BY <1>6, <1>7 DEF TypeOK, Commit, Goto, Fail, Label, InFlight, InHandler
<1>8. ASSUME NEW r \in Requests, Refresh(r)
      PROVE  TypeOK'
  <2>1. leads[call[r].lead].by \in Users \cup {None}
    BY <1>8 DEF TypeOK, Refresh, Call, LeadRow
  <2> QED BY <1>8, <2>1 DEF TypeOK, Refresh, Goto, Fail, Label, InFlight, InHandler
<1>9. ASSUME NEW r \in Requests, RecordChange(r)
      PROVE  TypeOK'
  <2>1. EntryOf(r) \in Entry
    BY <1>9, EntryOfType DEF TypeOK, RecordChange, AuditEnds
  <2> QED BY <1>9, <2>1 DEF TypeOK, RecordChange, AuditEnds, Goto, Label
<1>10. ASSUME NEW r \in Requests, RecordError(r)
       PROVE  TypeOK'
  <2>1. EntryOf(r) \in Entry
    BY <1>10, EntryOfType DEF TypeOK, RecordError, AuditEnds
  <2> QED BY <1>10, <2>1, BoundsAssumption DEF TypeOK, RecordError, AuditEnds, Goto, Label
<1>11. ASSUME NEW r \in Requests, DbError(r)
       PROVE  TypeOK'
  BY <1>11, BoundsAssumption DEF TypeOK, DbError, Goto, Fail, Label, InHandler
<1>12. ASSUME NEW r \in Requests, CommitAnswerLost(r)
       PROVE  TypeOK'
  BY <1>6, <1>12, BoundsAssumption DEF TypeOK, CommitAnswerLost, Goto, Fail, Label
<1>13. CASE Crash
  <2>1. crashes' \in 0..MaxCrashes
    BY <1>13, BoundsAssumption DEF TypeOK, Crash
  <2>2. pc' \in [Requests -> Label]
    BY <1>13 DEF TypeOK, Crash, Label
  <2>3. \A r \in Requests : pc'[r] # "idle" => pc[r] # "idle"
    BY <1>13 DEF TypeOK, Crash, InFlight, InHandler
  <2> QED BY <1>13, <2>1, <2>2, <2>3 DEF TypeOK, Crash
<1>14. ASSUME NEW u \in Users,
              RegisterAccount(u) \/ DeactivateAccount(u) \/ ReactivateAccount(u)
       PROVE  TypeOK'
  BY <1>14 DEF TypeOK, RegisterAccount, DeactivateAccount, ReactivateAccount,
     RegisterUser, DeactivateUser, ReactivateUser, SetStatus, AccountStatus
<1>15. ASSUME NEW u \in Users, DeleteAccount(u)
       PROVE  TypeOK'
  BY <1>15, UncreditType, AnonymiseType
     DEF TypeOK, DeleteAccount, DeleteUser, SetStatus, AccountStatus
<1>16. CASE UNCHANGED vars
  BY <1>16 DEF TypeOK, vars
<1> QED
  BY <1>1, <1>2, <1>3, <1>4, <1>5, <1>7, <1>8, <1>9, <1>10, <1>11, <1>12, <1>13,
     <1>14, <1>15, <1>16
     DEF Next, Handler, Fault, AccountChange, Quiescent

(* Every reachable state is typed: columns, locals and labels hold only    *)
(* values that lead.py, audit_log.py and the handler can put there.        *)
THEOREM TypeCorrect == Spec => []TypeOK
  BY InitTypeOK, NextTypeOK, PTL DEF Spec
-----------------------------------------------------------------------------
(* The tables' part of the inductive invariant.                            *)
TableInv == PendingIsUncredited /\ StampIffReachedOut /\ CreditIsEarned /\ LatchedOnce

LEMMA InitIInv == Init => IInv
<1> SUFFICES ASSUME Init
             PROVE  IInv
  OBVIOUS
<1>1. TypeOK
  BY InitTypeOK
<1>2. \A r \in Requests : RequestInv(r)
  BY DEF Init, RequestInv, BeforeCommit, InHandler
<1>3. \A l \in Leads : FirstMarks(l) = {}
  BY NoneAssumption DEF Init, FirstMarks, Marked
<1>4. TableInv /\ AuditIsBacked
  BY <1>3 DEF Init, TableInv, PendingIsUncredited, StampIffReachedOut, NewLead,
     CreditIsEarned, LatchedOnce, AuditIsBacked
<1> QED BY <1>1, <1>2, <1>4 DEF IInv, TableInv

(* What the snapshot protocol buys: the row a marking request commits.     *)
LEMMA CommitRow ==
    ASSUME IInv, NEW r \in Requests, pc[r] = "commit"
    PROVE  /\ call[r] \in Call
           /\ call[r].target = "REACHED_OUT"
           /\ obj[r].by = call[r].user
           /\ was[r] = None
           /\ Merge(leads[call[r].lead], seen[r], obj[r]) =
                [state |-> "REACHED_OUT", at |-> r,
                 by |-> IF call[r].user # seen[r].by
                        THEN call[r].user ELSE leads[call[r].lead].by]
<1>1. /\ call[r] \in Call
      /\ seen[r] \in LeadRow
      /\ leads[call[r].lead] \in LeadRow
  BY DEF IInv, TypeOK, Call
<1>2. /\ SnapshotIsPast(r)
      /\ obj[r] = Assigned(r)
      /\ ~Refused(r)
      /\ obj[r] # seen[r]
      /\ was[r] = None
  BY DEF IInv, RequestInv, BeforeCommit
<1>3. call[r].target = "REACHED_OUT"
  <2>1. SUFFICES ASSUME call[r].target = "PENDING"
                 PROVE  FALSE
    BY <1>1 DEF Call, LeadState
  <2>2. seen[r].state = "PENDING"
    BY <1>1, <1>2, <2>1 DEF Refused, LeadRow, LeadState
  <2>3. [seen[r] EXCEPT !.state = "PENDING"] = seen[r]
    BY <1>1, <2>2 DEF LeadRow
  <2> QED BY <1>2, <2>1, <2>3 DEF Assigned
<1>4. obj[r] = [state |-> "REACHED_OUT", at |-> r, by |-> call[r].user]
  BY <1>2, <1>3 DEF Assigned
<1>5. /\ obj[r].state = "REACHED_OUT"
      /\ obj[r].at = r
      /\ obj[r].by = call[r].user
  BY <1>4
<1>6. /\ seen[r].at # r
      /\ seen[r].state = "REACHED_OUT" => leads[call[r].lead].state = "REACHED_OUT"
  BY <1>2 DEF SnapshotIsPast
<1> QED BY <1>1, <1>2, <1>3, <1>5, <1>6 DEF Merge

(* REACHED_OUT is final in every step from a state of the invariant.       *)
LEMMA StepNeverReverts ==
    ASSUME IInv, [Next]_vars, NEW l \in Leads, leads[l].state = "REACHED_OUT"
    PROVE  leads'[l].state = "REACHED_OUT"
<1>1. CASE leads' = leads
  BY <1>1
<1>2. ASSUME NEW r \in Requests, pc[r] = "commit", ApplyUpdate(r)
      PROVE  leads'[l].state = "REACHED_OUT"
  <2> DEFINE row == Merge(leads[call[r].lead], seen[r], obj[r])
  <2>1. row = [state |-> "REACHED_OUT", at |-> r,
               by |-> IF call[r].user # seen[r].by
                      THEN call[r].user ELSE leads[call[r].lead].by]
    BY <1>2, CommitRow
  <2>2. row.state = "REACHED_OUT"
    BY <2>1
  <2> QED BY <1>2, <2>2 DEF ApplyUpdate, IInv, TypeOK
<1>3. ASSUME NEW u \in Users, DeleteAccount(u)
      PROVE  leads'[l].state = "REACHED_OUT"
  BY <1>3 DEF DeleteAccount, Uncredit, IInv, TypeOK, LeadRow
<1> QED
  BY <1>1, <1>2, <1>3
     DEF Next, Handler, Fault, AccountChange, Quiescent, vars, tables, Start,
         Authenticate, LoadLead, GuardAndAssign, Flush, Commit, Refresh,
         RecordChange, AuditEnds, RecordError, DbError, CommitAnswerLost, Crash,
         RegisterAccount, DeactivateAccount, ReactivateAccount

(* A step that changes neither the leads nor what was replaced keeps the   *)
(* tables' invariant: started requests keep their call, and no account     *)
(* disappears.                                                             *)
LEMMA TableFrame ==
    ASSUME IInv, leads' = leads, was' = was,
           \A q \in Requests : was[q] # None => call'[q] = call[q],
           \A u \in Users : RowExists(u) => RowExists(u)'
    PROVE  TableInv'
<1>1. \A q \in Requests, l \in Leads : Marked(q, l)' <=> Marked(q, l)
  BY DEF Marked
<1>2. PendingIsUncredited'
  BY DEF IInv, PendingIsUncredited
<1>3. StampIffReachedOut'
  BY <1>1 DEF IInv, StampIffReachedOut, TypeOK, LeadRow
<1>4. CreditIsEarned'
  <2> SUFFICES ASSUME NEW l \in Leads, leads[l].by # None
               PROVE  /\ RowExists(leads[l].by)'
                      /\ \E q \in Requests : Marked(q, l)' /\ call'[q].user = leads[l].by
    BY DEF CreditIsEarned
  <2>1. leads[l].by \in Users /\ RowExists(leads[l].by)
    BY DEF IInv, TypeOK, LeadRow, CreditIsEarned
  <2>2. PICK q \in Requests : Marked(q, l) /\ call[q].user = leads[l].by
    BY DEF IInv, CreditIsEarned
  <2>3. Marked(q, l)' /\ call'[q].user = leads[l].by
    BY <1>1, <2>2 DEF Marked
  <2> QED BY <2>1, <2>3
<1>5. LatchedOnce'
  <2>1. \A l \in Leads : FirstMarks(l)' = FirstMarks(l)
    BY <1>1 DEF FirstMarks
  <2> QED BY <2>1 DEF IInv, LatchedOnce
<1> QED BY <1>2, <1>3, <1>4, <1>5 DEF TableInv

(* A request that does not move keeps its own part of the invariant.       *)
LEMMA RequestFrame ==
    ASSUME NEW q \in Requests, RequestInv(q),
           pc'[q] = pc[q], was'[q] = was[q], seen'[q] = seen[q], obj'[q] = obj[q],
           call'[q] = call[q], status'[q] = status[q],
           pc[q] # "idle" /\ leads[call[q].lead].state = "REACHED_OUT"
               => leads'[call[q].lead].state = "REACHED_OUT"
    PROVE  RequestInv(q)'
  BY DEF RequestInv, SnapshotIsPast, Assigned, Refused, BeforeCommit, InHandler

(* The audit rows stay backed when nothing is added or anonymised.         *)
LEMMA AuditFrame ==
    ASSUME IInv, audit' = audit,
           \A q \in Requests : status[q] = 200 => /\ status'[q] = 200
                                                  /\ call'[q] = call[q],
           \A q \in Requests : was[q] # None => was'[q] # None,
           \A u \in Users : RowExists(u) => RowExists(u)'
    PROVE  AuditIsBacked'
<1> SUFFICES ASSUME NEW e \in audit
             PROVE  /\ status'[e.req] = 200
                    /\ e.lead = call'[e.req].lead /\ e.new = call'[e.req].target
                    /\ e.new = "REACHED_OUT" => Marked(e.req, e.lead)'
                    /\ e.user \in {call'[e.req].user, None}
                    /\ e.user # None => RowExists(e.user)'
  BY DEF AuditIsBacked
<1>1. e \in Entry /\ e.req \in Requests /\ e.user \in Users \cup {None}
  BY DEF IInv, TypeOK, Entry
<1>2. /\ status[e.req] = 200
      /\ e.lead = call[e.req].lead /\ e.new = call[e.req].target
      /\ e.new = "REACHED_OUT" => Marked(e.req, e.lead)
      /\ e.user \in {call[e.req].user, None}
      /\ e.user # None => RowExists(e.user)
  BY DEF IInv, AuditIsBacked
<1> QED BY <1>1, <1>2 DEF Marked
-----------------------------------------------------------------------------
(* The committing UPDATE: it stamps the lead, credits an existing account  *)
(* or keeps the credit, and is the first mark iff it replaced PENDING.     *)
LEMMA ApplyKeepsTables ==
    ASSUME IInv, NEW r \in Requests, pc[r] = "commit", KeyHolds(r), ApplyUpdate(r),
           users' = users, call' = call
    PROVE  TableInv'
<1> DEFINE k == call[r].lead
           u == call[r].user
           by == IF u # seen[r].by THEN u ELSE leads[k].by
           row == [state |-> "REACHED_OUT", at |-> r, by |-> by]
<1>1. /\ call[r] \in Call /\ k \in Leads /\ u \in Users
      /\ call[r].target = "REACHED_OUT"
      /\ obj[r].by = u
      /\ was[r] = None
      /\ leads[k] \in LeadRow
  BY CommitRow DEF IInv, TypeOK, Call
<1>2. /\ leads' = [leads EXCEPT ![k] = row]
      /\ leads'[k] = row
      /\ \A l \in Leads : l # k => leads'[l] = leads[l]
  <2>1. leads' = [leads EXCEPT ![k] = Merge(leads[k], seen[r], obj[r])]
    BY DEF ApplyUpdate
  <2>2. Merge(leads[k], seen[r], obj[r]) = row
    BY CommitRow
  <2>3. leads \in [Leads -> LeadRow]
    BY DEF IInv, TypeOK
  <2> HIDE DEF row
  <2> QED BY <1>1, <2>1, <2>2, <2>3
<1>3. /\ was'[r] = leads[k].state
      /\ \A q \in Requests : q # r => was'[q] = was[q]
      /\ was'[r] # None
  <2>1. leads[k].state \in LeadState
    BY <1>1 DEF LeadRow
  <2>2. \A s \in LeadState : s = "PENDING" \/ s = "REACHED_OUT"
    BY DEF LeadState
  <2>3. /\ was' = [was EXCEPT ![r] = leads[k].state]
        /\ was \in [Requests -> LeadState \cup {None}]
    BY DEF ApplyUpdate, IInv, TypeOK
  <2>4. leads[k].state # None
    BY <2>1, NoneAssumption
  <2> QED BY <2>3, <2>4
<1>4. /\ Marked(r, k)'
      /\ \A q \in Requests, l \in Leads : q # r => (Marked(q, l)' <=> Marked(q, l))
      /\ \A l \in Leads : l # k => ~Marked(r, l)' /\ ~Marked(r, l)
      /\ ~Marked(r, k)
  BY <1>1, <1>3 DEF Marked
<1>5. PendingIsUncredited'
  BY <1>2 DEF PendingIsUncredited, IInv
<1>6. StampIffReachedOut'
  <2>1. r # None
    BY NoneAssumption
  <2> SUFFICES ASSUME NEW l \in Leads
               PROVE  /\ leads'[l].state = "REACHED_OUT" <=> leads'[l].at # None
                      /\ leads'[l].at # None => Marked(leads[l].at, l)'
    BY DEF StampIffReachedOut
  <2>2. CASE l = k
    BY <1>2, <1>4, <2>1, <2>2
  <2>3. CASE l # k
    <3>1. leads'[l] = leads[l] /\ leads[l].at \in Requests \cup {None}
      BY <1>2, <2>3 DEF IInv, TypeOK, LeadRow
    <3>2. /\ leads[l].state = "REACHED_OUT" <=> leads[l].at # None
          /\ leads[l].at # None => Marked(leads[l].at, l)
      BY DEF IInv, StampIffReachedOut
    <3> QED BY <1>4, <2>3, <3>1, <3>2
  <2> QED BY <2>2, <2>3
<1>7. CreditIsEarned'
  <2> SUFFICES ASSUME NEW l \in Leads, leads'[l].by # None
               PROVE  /\ RowExists(leads[l].by)'
                      /\ \E q \in Requests : Marked(q, l)' /\ call'[q].user = leads'[l].by
    BY DEF CreditIsEarned
  <2>1. \A v : RowExists(v)' <=> RowExists(v)
    BY DEF RowExists
  <2>2. CASE leads'[l].by = leads[l].by
    <3>1. /\ RowExists(leads[l].by)
          /\ \E q \in Requests : Marked(q, l) /\ call[q].user = leads[l].by
      BY <2>2 DEF IInv, CreditIsEarned
    <3>2. \A q \in Requests : Marked(q, l) => Marked(q, l)'
      BY <1>4
    <3>3. RowExists(leads[l].by)'
      BY <2>1, <2>2, <3>1 DEF RowExists
    <3> QED BY <2>2, <3>1, <3>2, <3>3
  <2>3. CASE leads'[l].by # leads[l].by
    <3>1. l = k /\ leads'[l].by = u /\ u # seen[r].by
      BY <1>2, <2>3
    <3>2. RowExists(u)
      BY <1>1, <3>1 DEF KeyHolds
    <3>3. RowExists(leads[l].by)'
      BY <3>1, <3>2 DEF RowExists
    <3> QED BY <1>4, <3>1, <3>3
  <2> QED BY <2>2, <2>3
<1>8. LatchedOnce'
  <2> SUFFICES ASSUME NEW l \in Leads
               PROVE  /\ \A p, q \in FirstMarks(l)' : p = q
                      /\ leads'[l].state = "REACHED_OUT" <=> FirstMarks(l)' # {}
    BY DEF LatchedOnce
  <2>1. /\ \A p, q \in FirstMarks(l) : p = q
        /\ leads[l].state = "REACHED_OUT" <=> FirstMarks(l) # {}
    BY DEF IInv, LatchedOnce
  <2>2. r \notin FirstMarks(l)
    BY <1>4 DEF FirstMarks
  <2>3. CASE l = k /\ leads[k].state = "PENDING"
    <3>1. FirstMarks(l) = {}
      BY <2>1, <2>3
    <3>2. FirstMarks(l)' = {r}
      BY <1>3, <1>4, <2>3, <3>1 DEF FirstMarks
    <3> QED BY <1>2, <2>3, <3>2
  <2>4. CASE ~(l = k /\ leads[k].state = "PENDING")
    <3>1. FirstMarks(l)' = FirstMarks(l)
      BY <1>3, <1>4, <2>2, <2>4 DEF FirstMarks
    <3>2. leads'[l].state = leads[l].state
      BY <1>1, <1>2, <2>4 DEF LeadRow, LeadState
    <3> QED BY <2>1, <3>1, <3>2
  <2> QED BY <2>3, <2>4
<1> QED BY <1>5, <1>6, <1>7, <1>8 DEF TableInv
-----------------------------------------------------------------------------
(* In a step of request r, the others keep their part of the invariant.    *)
LEMMA OthersFrame ==
    ASSUME IInv, [Next]_vars, NEW r, r \in Requests => RequestInv(r)',
           \A q \in Requests : q # r =>
               /\ pc'[q] = pc[q] /\ was'[q] = was[q] /\ seen'[q] = seen[q]
               /\ obj'[q] = obj[q] /\ call'[q] = call[q] /\ status'[q] = status[q]
    PROVE  \A q \in Requests : RequestInv(q)'
<1> SUFFICES ASSUME NEW q \in Requests, q # r
             PROVE  RequestInv(q)'
  OBVIOUS
<1>1. RequestInv(q)
  BY DEF IInv
<1>2. pc[q] # "idle" => call[q].lead \in Leads
  BY DEF IInv, TypeOK, Call
<1>3. pc[q] # "idle" /\ leads[call[q].lead].state = "REACHED_OUT"
        => leads'[call[q].lead].state = "REACHED_OUT"
  BY <1>2, StepNeverReverts
<1> QED BY <1>1, <1>3, RequestFrame

(* Steps of one request that touch no table.                               *)
LEMMA StartStep ==
    ASSUME IInv, [Next]_vars, NEW r \in Requests, Start(r)
    PROVE  IInv'
<1> USE DEF tables, session, reply, faults, Goto
<1>1. RequestInv(r)'
  BY DEF IInv, TypeOK, RequestInv, Start, BeforeCommit, InHandler
<1>2. \A q \in Requests : q # r => /\ pc'[q] = pc[q]
                                   /\ call'[q] = call[q]
  BY DEF IInv, TypeOK, Start
<1>3. \A q \in Requests : RequestInv(q)'
  BY <1>1, <1>2, OthersFrame DEF Start
<1>4. was[r] = None /\ status[r] # 200
  BY DEF IInv, RequestInv, BeforeCommit, Start
<1>5. TableInv'
  BY <1>2, <1>4, TableFrame DEF Start, RowExists
<1>6. AuditIsBacked'
  BY <1>2, <1>4, AuditFrame DEF Start, RowExists
<1> QED BY <1>3, <1>5, <1>6, NextTypeOK DEF IInv, TableInv

(* A step of the handler before the commit: reads, refusals, failures.     *)
LEMMA QuietStep ==
    ASSUME IInv, [Next]_vars, NEW r \in Requests, RequestInv(r)',
           pc[r] \in InFlight, status[r] # 200 \/ status'[r] = status[r],
           UNCHANGED <<users, leads, audit, call, was>>,
           \A q \in Requests : q # r =>
               /\ pc'[q] = pc[q] /\ seen'[q] = seen[q]
               /\ obj'[q] = obj[q] /\ status'[q] = status[q]
    PROVE  IInv'
<1>1. \A q \in Requests : RequestInv(q)'
  BY OthersFrame
<1>2. TableInv'
  BY TableFrame DEF RowExists
<1>3. AuditIsBacked'
  BY AuditFrame DEF RowExists
<1> QED BY <1>1, <1>2, <1>3, NextTypeOK DEF IInv, TableInv

LEMMA FailedInv ==
    ASSUME IInv, NEW r \in Requests, NEW code, code # 200, Fail(r, code),
           UNCHANGED <<call, was, seen, obj>>
    PROVE  /\ RequestInv(r)'
           /\ \A q \in Requests : q # r => pc'[q] = pc[q] /\ status'[q] = status[q]
  BY DEF IInv, TypeOK, RequestInv, Fail, Goto, BeforeCommit, InHandler

LEMMA AuthenticateStep ==
    ASSUME IInv, [Next]_vars, NEW r \in Requests, Authenticate(r)
    PROVE  IInv'
<1> USE DEF tables, session, reply, faults, Goto
<1>1. pc[r] = "auth" /\ status[r] # 200
  BY DEF Authenticate, IInv, RequestInv, InHandler
<1>2. CASE Fail(r, 401) \/ Fail(r, 403)
  BY <1>1, <1>2, FailedInv, QuietStep DEF Authenticate, InFlight, InHandler
<1>3. CASE Goto(r, "load") /\ UNCHANGED reply
  <2>1. RequestInv(r)'
    BY <1>1, <1>3 DEF Authenticate, IInv, TypeOK, RequestInv, BeforeCommit, InHandler
  <2>2. \A q \in Requests : q # r => pc'[q] = pc[q]
    BY <1>3 DEF IInv, TypeOK
  <2> QED BY <1>1, <1>3, <2>1, <2>2, QuietStep DEF Authenticate, InFlight, InHandler
<1> QED BY <1>2, <1>3 DEF Authenticate

LEMMA LoadLeadStep ==
    ASSUME IInv, [Next]_vars, NEW r \in Requests, LoadLead(r)
    PROVE  IInv'
<1> USE DEF tables, session, reply, faults, Goto
<1>1. pc[r] = "load" /\ status[r] # 200 /\ was[r] = None
  BY DEF LoadLead, IInv, RequestInv, InHandler, BeforeCommit
<1>2. CASE Fail(r, 404) /\ UNCHANGED seen
  BY <1>1, <1>2, FailedInv, QuietStep DEF LoadLead, InFlight, InHandler
<1>3. CASE /\ seen' = [seen EXCEPT ![r] = leads[call[r].lead]]
           /\ Goto(r, "guard") /\ UNCHANGED reply
  <2> DEFINE l == call[r].lead
  <2>1. l \in Leads /\ leads[l] \in LeadRow
    BY <1>1 DEF IInv, TypeOK, Call
  <2>2. /\ leads[l].state = "REACHED_OUT" <=> leads[l].at # None
        /\ leads[l].state = "PENDING" => leads[l].by = None
        /\ leads[l].at # r
    <3>1. leads[l].at # None => was[leads[l].at] # None
      BY <2>1 DEF IInv, StampIffReachedOut, Marked
    <3>2. r # None
      BY NoneAssumption
    <3> QED BY <1>1, <2>1, <3>1, <3>2 DEF IInv, StampIffReachedOut, PendingIsUncredited
  <2>3. seen'[r] = leads[l] /\ pc'[r] = "guard" /\ call'[r] = call[r] /\ leads' = leads
    BY <1>3 DEF LoadLead, IInv, TypeOK
  <2>4. SnapshotIsPast(r)'
    BY <2>2, <2>3 DEF SnapshotIsPast
  <2>5. RequestInv(r)'
    BY <1>1, <1>3, <2>3, <2>4 DEF LoadLead, RequestInv, BeforeCommit, InHandler
  <2>6. \A q \in Requests : q # r => pc'[q] = pc[q] /\ seen'[q] = seen[q]
    BY <1>3 DEF IInv, TypeOK
  <2> QED BY <1>1, <1>3, <2>5, <2>6, QuietStep DEF LoadLead, InFlight, InHandler
<1> QED BY <1>2, <1>3 DEF LoadLead

LEMMA GuardAndAssignStep ==
    ASSUME IInv, [Next]_vars, NEW r \in Requests, GuardAndAssign(r)
    PROVE  IInv'
<1> USE DEF tables, session, reply, faults, Goto
<1>1. /\ pc[r] = "guard" /\ status[r] # 200 /\ was[r] = None
      /\ SnapshotIsPast(r)
  BY DEF GuardAndAssign, IInv, RequestInv, InHandler, BeforeCommit
<1>2. CASE (Fail(r, 404) \/ Fail(r, 400)) /\ UNCHANGED obj
  BY <1>1, <1>2, FailedInv, QuietStep DEF GuardAndAssign, InFlight, InHandler
<1>3. CASE /\ ~Refused(r)
           /\ obj' = [obj EXCEPT ![r] = Assigned(r)]
           /\ Goto(r, "flush") /\ UNCHANGED reply
  <2>1. UNCHANGED <<seen, call, leads, was, status>>
    BY <1>3 DEF GuardAndAssign
  <2>2. SnapshotIsPast(r)' /\ ~Refused(r)' /\ Assigned(r)' = Assigned(r)
    BY <1>1, <1>3, <2>1 DEF SnapshotIsPast, Refused, Assigned
  <2>3. pc'[r] = "flush" /\ obj'[r] = Assigned(r)
    BY <1>3 DEF IInv, TypeOK
  <2>4. RequestInv(r)'
    BY <1>1, <2>1, <2>2, <2>3 DEF RequestInv, BeforeCommit, InHandler
  <2>5. \A q \in Requests : q # r => pc'[q] = pc[q] /\ obj'[q] = obj[q]
    BY <1>3 DEF IInv, TypeOK
  <2> QED BY <1>1, <1>3, <2>4, <2>5, QuietStep DEF GuardAndAssign, InFlight, InHandler
<1> QED BY <1>2, <1>3 DEF GuardAndAssign

LEMMA FlushStep ==
    ASSUME IInv, [Next]_vars, NEW r \in Requests, Flush(r)
    PROVE  IInv'
<1> USE DEF tables, session, reply, faults, Goto
<1>1. pc[r] = "flush" /\ status[r] # 200 /\ RequestInv(r)
  BY DEF Flush, IInv, RequestInv, InHandler
<1>2. UNCHANGED <<users, leads, audit, call, was, seen, obj>>
  BY DEF Flush
<1>3. CASE Fail(r, 500)
  BY <1>1, <1>2, <1>3, FailedInv, QuietStep DEF InFlight, InHandler
<1>4. CASE obj[r] # seen[r] /\ Goto(r, "commit") /\ UNCHANGED reply
  <2>1. /\ pc'[r] = "commit"
        /\ \A q \in Requests : q # r => pc'[q] = pc[q]
    BY <1>4 DEF IInv, TypeOK
  <2>2. SnapshotIsPast(r)' /\ Refused(r)' = Refused(r) /\ Assigned(r)' = Assigned(r)
    BY <1>1, <1>2 DEF RequestInv, SnapshotIsPast, Refused, Assigned
  <2>3. RequestInv(r)'
    BY <1>1, <1>2, <1>4, <2>1, <2>2 DEF RequestInv, BeforeCommit, InHandler
  <2> QED BY <1>1, <1>2, <1>4, <2>1, <2>3, QuietStep DEF InFlight, InHandler
<1>5. CASE obj[r] = seen[r] /\ Goto(r, "refresh") /\ UNCHANGED reply
  <2>1. /\ pc'[r] = "refresh"
        /\ \A q \in Requests : q # r => pc'[q] = pc[q]
    BY <1>5 DEF IInv, TypeOK
  <2>2. call[r].target # "REACHED_OUT"
    <3>1. SUFFICES ASSUME call[r].target = "REACHED_OUT"
                   PROVE  FALSE
      OBVIOUS
    <3>2. obj[r].at = r
      BY <1>1, <3>1 DEF RequestInv, Assigned
    <3> QED BY <1>1, <1>5, <3>2 DEF RequestInv, SnapshotIsPast
  <2>3. RequestInv(r)'
    BY <1>1, <1>2, <1>5, <2>1, <2>2 DEF RequestInv, BeforeCommit, InHandler
  <2> QED BY <1>1, <1>2, <1>5, <2>1, <2>3, QuietStep DEF InFlight, InHandler
<1> QED BY <1>3, <1>4, <1>5 DEF Flush

LEMMA RefreshStep ==
    ASSUME IInv, [Next]_vars, NEW r \in Requests, Refresh(r)
    PROVE  IInv'
<1> USE DEF tables, session, reply, faults, Goto
<1>1. pc[r] = "refresh" /\ status[r] # 200 /\ RequestInv(r)
  BY DEF Refresh, IInv, RequestInv, InHandler
<1>2. UNCHANGED <<users, leads, audit, call, was, seen, obj>>
  BY DEF Refresh
<1>3. CASE Fail(r, 500)
  BY <1>1, <1>2, <1>3, FailedInv, QuietStep DEF InFlight, InHandler
<1>4. CASE status' = [status EXCEPT ![r] = 200] /\ Goto(r, "record")
  <2>1. /\ pc'[r] = "record" /\ status'[r] = 200
        /\ \A q \in Requests : q # r => pc'[q] = pc[q] /\ status'[q] = status[q]
    BY <1>4 DEF IInv, TypeOK
  <2>2. RequestInv(r)'
    BY <1>1, <1>2, <2>1 DEF RequestInv, BeforeCommit, InHandler
  <2> QED BY <1>1, <1>2, <2>1, <2>2, QuietStep DEF InFlight, InHandler
<1> QED BY <1>3, <1>4 DEF Refresh

LEMMA DbErrorStep ==
    ASSUME IInv, [Next]_vars, NEW r \in Requests, DbError(r)
    PROVE  IInv'
<1>1. pc[r] \in InHandler /\ status[r] # 200
  BY DEF DbError, IInv, RequestInv
<1>2. Fail(r, 500) /\ UNCHANGED <<users, leads, audit, call, was, seen, obj>>
  BY DEF DbError, tables, session
<1> QED BY <1>1, <1>2, FailedInv, QuietStep DEF InFlight

(* The commit, whether or not its answer reaches the handler.              *)
LEMMA CommitStep ==
    ASSUME IInv, [Next]_vars, NEW r \in Requests, Commit(r) \/ CommitAnswerLost(r)
    PROVE  IInv'
<1> USE DEF reply, Goto
<1>1. pc[r] = "commit" /\ status[r] # 200 /\ RequestInv(r)
  BY DEF Commit, CommitAnswerLost, IInv, RequestInv, InHandler
<1>2. UNCHANGED <<users, audit, call, seen, obj>>
  BY DEF Commit, CommitAnswerLost
<1>3. CASE Fail(r, 500) /\ UNCHANGED <<leads, was>>
  BY <1>1, <1>2, <1>3, FailedInv, QuietStep DEF InFlight, InHandler
<1>4. CASE /\ KeyHolds(r) /\ ApplyUpdate(r)
           /\ \/ Goto(r, "refresh") /\ UNCHANGED reply
              \/ Fail(r, 500)
  <2>1. TableInv'
    BY <1>1, <1>2, <1>4, ApplyKeepsTables
  <2>2. /\ was'[r] # None
        /\ \A q \in Requests : q # r => was'[q] = was[q]
    <3>1. call[r].lead \in Leads
      BY <1>1 DEF IInv, TypeOK, Call
    <3>2. leads[call[r].lead].state # None
      BY <3>1, NoneAssumption DEF IInv, TypeOK, LeadRow
    <3> QED BY <1>4, <3>2 DEF ApplyUpdate, IInv, TypeOK
  <2>3. /\ pc'[r] \in {"refresh", "done"} /\ status'[r] # 200
        /\ \A q \in Requests : q # r => pc'[q] = pc[q] /\ status'[q] = status[q]
    BY <1>1, <1>4 DEF Fail, IInv, TypeOK
  <2>4. RequestInv(r)'
    BY <2>2, <2>3 DEF RequestInv, BeforeCommit, InHandler
  <2>5. \A q \in Requests : RequestInv(q)'
    BY <1>2, <2>2, <2>3, <2>4, OthersFrame
  <2>6. AuditIsBacked'
    BY <1>1, <1>2, <2>2, <2>3, AuditFrame DEF RowExists
  <2> QED BY <2>1, <2>5, <2>6, NextTypeOK DEF IInv, TableInv
<1> QED BY <1>3, <1>4 DEF Commit, CommitAnswerLost

(* The background task: an entry of a change that was answered with 200.   *)
LEMMA RecordStep ==
    ASSUME IInv, [Next]_vars, NEW r \in Requests, RecordChange(r) \/ RecordError(r)
    PROVE  IInv'
<1> USE DEF session, reply, Goto
<1>1. pc[r] = "record" /\ RequestInv(r) /\ call[r] \in Call
  BY DEF RecordChange, RecordError, AuditEnds, IInv, TypeOK
<1>2. /\ UNCHANGED <<users, leads, call, seen, obj, was, status>>
      /\ pc' = [pc EXCEPT ![r] = "done"]
  BY DEF RecordChange, RecordError, AuditEnds
<1>3. /\ pc'[r] = "done"
      /\ \A q \in Requests : q # r => pc'[q] = pc[q]
  BY <1>2 DEF IInv, TypeOK
<1>4. \A q \in Requests : RequestInv(q)'
  <2>1. RequestInv(r)'
    BY <1>2, <1>3 DEF RequestInv, BeforeCommit, InHandler
  <2> QED BY <1>2, <1>3, <2>1, OthersFrame
<1>5. TableInv'
  BY <1>2, TableFrame DEF RowExists
<1>6. CASE audit' = audit
  <2>1. AuditIsBacked'
    BY <1>2, <1>6, AuditFrame DEF RowExists
  <2> QED BY <1>4, <1>5, <2>1, NextTypeOK DEF IInv, TableInv
<1>7. CASE audit' = audit \cup {EntryOf(r)} /\ RowExists(call[r].user)
  <2>1. /\ \A q, l : Marked(q, l)' <=> Marked(q, l)
        /\ \A u : RowExists(u)' <=> RowExists(u)
    BY <1>2 DEF Marked, RowExists
  <2>2. \A e \in audit \cup {EntryOf(r)} :
            /\ status[e.req] = 200
            /\ e.lead = call[e.req].lead /\ e.new = call[e.req].target
            /\ e.new = "REACHED_OUT" => Marked(e.req, e.lead)
            /\ e.user \in {call[e.req].user, None}
            /\ e.user # None => RowExists(e.user)
    BY <1>1, <1>7 DEF IInv, AuditIsBacked, RequestInv, EntryOf, Marked
  <2>3. AuditIsBacked'
    BY <1>2, <1>7, <2>1, <2>2 DEF AuditIsBacked
  <2> QED BY <1>4, <1>5, <2>3, NextTypeOK DEF IInv, TableInv
<1> QED BY <1>6, <1>7 DEF RecordChange, RecordError

(* A crash only ends requests: what they committed stays.                  *)
LEMMA CrashStep ==
    ASSUME IInv, [Next]_vars, Crash
    PROVE  IInv'
<1>1. UNCHANGED <<users, leads, audit, call, seen, obj, was, status>>
  BY DEF Crash, tables, session, reply
<1>2. ASSUME NEW q \in Requests
      PROVE  RequestInv(q)'
  <2>1. pc'[q] = IF pc[q] \in InFlight THEN "crashed" ELSE pc[q]
    BY DEF Crash
  <2>2. pc'[q] = "idle" \/ pc'[q] = "done" \/ pc'[q] = "crashed"
    BY <2>1 DEF IInv, TypeOK, Label, InFlight, InHandler
  <2>3. pc'[q] = "idle" => pc[q] = "idle"
    BY <2>1
  <2> QED BY <1>1, <2>2, <2>3 DEF IInv, RequestInv, BeforeCommit, InHandler
<1>3. TableInv' /\ AuditIsBacked'
  BY <1>1, TableFrame, AuditFrame DEF RowExists
<1> QED BY <1>2, <1>3, NextTypeOK DEF IInv, TableInv

(* Admin operations that delete no row.                                    *)
LEMMA AccountStep ==
    ASSUME IInv, [Next]_vars, NEW u \in Users,
           RegisterAccount(u) \/ DeactivateAccount(u) \/ ReactivateAccount(u)
    PROVE  IInv'
<1> USE DEF session, reply, RegisterAccount, DeactivateAccount, ReactivateAccount
<1>1. UNCHANGED <<leads, audit, call, seen, obj, was, status, pc>>
  OBVIOUS
<1>2. \A v \in Users : RowExists(v) => RowExists(v)'
  BY DEF RegisterUser, DeactivateUser, ReactivateUser, SetStatus, RowExists,
     IInv, TypeOK
<1>3. \A q \in Requests : RequestInv(q)'
  BY <1>1, RequestFrame DEF IInv
<1>4. TableInv' /\ AuditIsBacked'
  BY <1>1, <1>2, TableFrame, AuditFrame
<1> QED BY <1>3, <1>4, NextTypeOK DEF IInv, TableInv

(* Deleting an account takes its credits away in both tables.              *)
LEMMA DeleteStep ==
    ASSUME IInv, [Next]_vars, NEW u \in Users, DeleteAccount(u)
    PROVE  IInv'
<1>1. UNCHANGED <<call, seen, obj, was, status, pc>>
  BY DEF DeleteAccount, session, reply
<1>2. \A v : RowExists(v) /\ v \in Users /\ v # u => RowExists(v)'
  BY DEF DeleteAccount, DeleteUser, SetStatus, RowExists, IInv, TypeOK
<1>3. ASSUME NEW l \in Leads
      PROVE  /\ leads'[l].state = leads[l].state
             /\ leads'[l].at = leads[l].at
             /\ leads'[l].by # u
             /\ leads'[l].by # None => leads'[l].by = leads[l].by
             /\ leads[l].by = None => leads'[l].by = None
  <2>1. leads[l] \in LeadRow /\ u # None
    BY NoneAssumption DEF IInv, TypeOK
  <2>2. leads'[l] = IF leads[l].by = u THEN [leads[l] EXCEPT !.by = None] ELSE leads[l]
    BY DEF DeleteAccount, Uncredit
  <2> QED BY <2>1, <2>2 DEF LeadRow
<1>4. \A q, l : Marked(q, l)' <=> Marked(q, l)
  BY <1>1 DEF Marked
<1>5. \A q \in Requests : RequestInv(q)'
  <2> SUFFICES ASSUME NEW q \in Requests
               PROVE  RequestInv(q)'
    OBVIOUS
  <2>1. pc[q] # "idle" => call[q].lead \in Leads
    BY DEF IInv, TypeOK, Call
  <2> QED BY <1>1, <1>3, <2>1, RequestFrame DEF IInv
<1>6. PendingIsUncredited' /\ StampIffReachedOut'
  BY <1>3, <1>4 DEF IInv, PendingIsUncredited, StampIffReachedOut
<1>7. CreditIsEarned'
  <2> SUFFICES ASSUME NEW l \in Leads, leads'[l].by # None
               PROVE  /\ RowExists(leads[l].by)'
                      /\ \E q \in Requests : Marked(q, l)' /\ call'[q].user = leads'[l].by
    BY DEF CreditIsEarned
  <2>1. leads'[l].by = leads[l].by /\ leads[l].by # u
    BY <1>3
  <2>2. /\ RowExists(leads[l].by) /\ leads[l].by \in Users
        /\ \E q \in Requests : Marked(q, l) /\ call[q].user = leads[l].by
    BY <2>1 DEF IInv, CreditIsEarned, TypeOK, LeadRow
  <2>3. RowExists(leads[l].by)'
    BY <1>2, <2>1, <2>2 DEF RowExists
  <2> QED BY <1>1, <1>4, <2>1, <2>2, <2>3
<1>8. LatchedOnce'
  <2>1. \A l : FirstMarks(l)' = FirstMarks(l)
    BY <1>1, <1>4 DEF FirstMarks
  <2> QED BY <1>3, <2>1 DEF IInv, LatchedOnce
<1>9. AuditIsBacked'
  <2> SUFFICES ASSUME NEW e \in audit, NEW f, f = Anonymise(e, u)
               PROVE  /\ status'[f.req] = 200
                      /\ f.lead = call'[f.req].lead /\ f.new = call'[f.req].target
                      /\ f.new = "REACHED_OUT" => Marked(f.req, f.lead)'
                      /\ f.user \in {call'[f.req].user, None}
                      /\ f.user # None => RowExists(f.user)'
    BY DEF AuditIsBacked, DeleteAccount
  <2>1. e \in Entry /\ e.user \in Users \cup {None}
    BY DEF IInv, TypeOK, Entry
  <2>2. /\ f.req = e.req /\ f.lead = e.lead /\ f.new = e.new
        /\ f.user # u
        /\ f.user = e.user \/ f.user = None
    BY <2>1, NoneAssumption DEF Anonymise, Entry
  <2>3. /\ status[e.req] = 200
        /\ e.lead = call[e.req].lead /\ e.new = call[e.req].target
        /\ e.new = "REACHED_OUT" => Marked(e.req, e.lead)
        /\ e.user \in {call[e.req].user, None}
        /\ e.user # None => RowExists(e.user)
    BY DEF IInv, AuditIsBacked
  <2>4. f.user # None => RowExists(f.user)'
    BY <1>2, <2>1, <2>2, <2>3 DEF RowExists
  <2> QED BY <1>1, <1>4, <2>2, <2>3, <2>4
<1> QED BY <1>5, <1>6, <1>7, <1>8, <1>9, NextTypeOK DEF IInv

LEMMA NextIInv == IInv /\ [Next]_vars => IInv'
<1> SUFFICES ASSUME IInv, [Next]_vars
             PROVE  IInv'
  OBVIOUS
<1>1. ASSUME NEW r \in Requests, Start(r) \/ Handler(r) \/ Fault(r)
      PROVE  IInv'
  BY <1>1, StartStep, AuthenticateStep, LoadLeadStep, GuardAndAssignStep, FlushStep,
     CommitStep, RefreshStep, RecordStep, DbErrorStep
     DEF Handler, Fault
<1>2. ASSUME NEW u \in Users, AccountChange(u)
      PROVE  IInv'
  BY <1>2, AccountStep, DeleteStep DEF AccountChange
<1>3. CASE Crash
  BY <1>3, CrashStep
<1>4. CASE UNCHANGED vars
  <2>1. UNCHANGED <<users, leads, audit, call, seen, obj, was, status, pc>>
    BY <1>4 DEF vars, tables, session, reply
  <2>2. \A q \in Requests : RequestInv(q)'
    BY <2>1, RequestFrame DEF IInv
  <2>3. TableInv' /\ AuditIsBacked'
    BY <2>1, TableFrame, AuditFrame DEF RowExists
  <2> QED BY <2>2, <2>3, NextTypeOK DEF IInv, TableInv
<1> QED BY <1>1, <1>2, <1>3, <1>4 DEF Next, Quiescent
-----------------------------------------------------------------------------
(* Every reachable state of the update protocol satisfies the inductive    *)
(* invariant: what each handler's snapshot still guarantees when it is     *)
(* used, and the four promises of the tables.                              *)
THEOREM Inductive == Spec => []IInv
  BY InitIInv, NextIInv, PTL DEF Spec

(* However handlers, deletions and crashes interleave, a lead is reached   *)
(* out exactly when it has a time stamp, and the stamp is that of a        *)
(* request that marked it.                                                 *)
THEOREM Stamped == Spec => []StampIffReachedOut
<1>1. IInv => StampIffReachedOut
  BY DEF IInv
<1> QED BY <1>1, Inductive, PTL

(* A lead never credits a missing account, or one that did not mark it.    *)
THEOREM Earned == Spec => []CreditIsEarned
<1>1. IInv => CreditIsEarned
  BY DEF IInv
<1> QED BY <1>1, Inductive, PTL

(* A lead leaves PENDING at most once, in one request's commit.            *)
THEOREM Once == Spec => []LatchedOnce
<1>1. IInv => LatchedOnce
  BY DEF IInv
<1> QED BY <1>1, Inductive, PTL

(* The audit trail contains no change that was not committed.              *)
THEOREM Backed == Spec => []AuditIsBacked
<1>1. IInv => AuditIsBacked
  BY DEF IInv
<1> QED BY <1>1, Inductive, PTL

(* REACHED_OUT is never undone, although the transition guard tests a      *)
(* possibly stale snapshot.                                                *)
THEOREM Final == Spec => NeverReverts
<1>1. IInv /\ [Next]_vars =>
        [\A l \in Leads :
            leads[l].state = "REACHED_OUT" => leads'[l].state = "REACHED_OUT"]_vars
  BY StepNeverReverts
<1> QED BY <1>1, Inductive, PTL DEF Spec, NeverReverts

(* Once the account of a request that has not reached its UPDATE is gone,  *)
(* no policy lets the request see or change a lead any more: it ends, or   *)
(* at most refreshes in vain, and its account does not come back.          *)
ShutOut(r) ==
    /\ pc[r] \in {"auth", "load", "guard", "flush", "refresh", "done", "crashed"}
    /\ users[call[r].user] = "deleted"
    /\ was[r] = None

LEMMA DeletedSeesNothing ==
    ASSUME NEW r \in Requests, users[call[r].user] = "deleted"
    PROVE  ~MayRead(r) /\ ~MayUpdate(r) /\ ~UserVisible(users, Ctx(r), call[r].user)
BY DEF MayRead, MayUpdate, LeadsUpdatable, LeadsVisible, UserVisible, Stored, Ctx

LEMMA StaysShutOut ==
    ASSUME TypeOK, NEW r \in Requests, ShutOut(r), [Next]_vars
    PROVE  ShutOut(r)'
<1> USE DEF tables, session, reply, faults
<1>1. call[r] \in Call
  BY DEF TypeOK, ShutOut
<1>2. ASSUME UNCHANGED users, call'[r] = call[r], was'[r] = was[r],
             pc'[r] \in {"load", "guard", "flush", "refresh", "done", "crashed"}
      PROVE  ShutOut(r)'
  BY <1>2 DEF ShutOut
<1>3. ASSUME NEW u \in Users, AccountChange(u) PROVE ShutOut(r)'
  <2>1. /\ UNCHANGED <<pc, call, was>>
        /\ users[u] # "deleted" /\ \E to : users' = [users EXCEPT ![u] = to]
    BY <1>3 DEF AccountChange, RegisterAccount, DeactivateAccount, ReactivateAccount,
       DeleteAccount, RegisterUser, DeactivateUser, ReactivateUser, DeleteUser, SetStatus,
       AccountStatus
  <2>2. users'[call[r].user] = users[call[r].user]
    BY <1>1, <2>1 DEF ShutOut, TypeOK, Call
  <2>3. QED
    BY <2>1, <2>2 DEF ShutOut
<1>4. ASSUME NEW q \in Requests, q # r, Start(q) \/ Handler(q) \/ Fault(q) PROVE ShutOut(r)'
  <2>1. UNCHANGED users /\ call'[r] = call[r] /\ was'[r] = was[r] /\ pc'[r] = pc[r]
    BY <1>4 DEF TypeOK, Goto, Fail, ApplyUpdate, Start, Handler, Fault, Authenticate, LoadLead,
       GuardAndAssign, Flush, Commit, Refresh, RecordChange, AuditEnds, RecordError, DbError,
       CommitAnswerLost
  <2>2. QED
    BY <2>1 DEF ShutOut
<1>5. ASSUME Start(r) \/ Handler(r) \/ Fault(r) PROVE ShutOut(r)'
  <2>1. /\ pc[r] \notin {"idle", "commit", "record"}
        /\ ~MayRead(r) /\ ~MayUpdate(r) /\ ~UserVisible(users, Ctx(r), call[r].user)
    BY DeletedSeesNothing DEF ShutOut
  <2>2. UNCHANGED <<users, call, was>>
    BY <1>5, <2>1 DEF Start, Handler, Fault, Authenticate, LoadLead,
       GuardAndAssign, Flush, Commit, Refresh, RecordChange, AuditEnds, RecordError, DbError,
       CommitAnswerLost
  <2>3. pc'[r] \in {"load", "guard", "flush", "refresh", "done", "crashed"}
    BY <1>5, <2>1 DEF TypeOK, Goto, Fail, Start, Handler, Fault, Authenticate, LoadLead,
       GuardAndAssign, Flush, Commit, Refresh, RecordChange, AuditEnds, RecordError, DbError,
       CommitAnswerLost
  <2>4. QED
    BY <1>2, <2>2, <2>3
<1>6. CASE Crash
  BY <1>6 DEF Crash, ShutOut, TypeOK
<1>7. CASE UNCHANGED vars
  BY <1>7 DEF vars, ShutOut
<1>8. QED
  BY <1>3, <1>4, <1>5, <1>6, <1>7 DEF Next, Quiescent

(* A caller whose account is deleted before the UPDATE changes no lead,    *)
(* then or ever.                                                           *)
THEOREM DeletionHolds == Spec => DeletedCallerWritesNothing
<1>1. ASSUME NEW r \in Requests
      PROVE  Spec => [](DeletedBeforeUpdate(r) => [](was[r] = None))
  <2>1. IInv /\ DeletedBeforeUpdate(r) => ShutOut(r)
    BY DEF IInv, RequestInv, BeforeCommit, DeletedBeforeUpdate, ShutOut
  <2>2. IInv /\ ShutOut(r) /\ [Next]_vars => ShutOut(r)'
    BY StaysShutOut DEF IInv
  <2>3. ShutOut(r) => was[r] = None
    BY DEF ShutOut
  <2>4. QED
    BY <2>1, <2>2, <2>3, Inductive, PTL DEF Spec
<1>2. QED
  BY <1>1 DEF DeletedCallerWritesNothing

(* What a request has marked stays marked, and a response once given is    *)
(* not taken back: only the steps of the request itself write them.        *)
ShownInv ==
    /\ ResponseIsEarned
    /\ \A r \in Requests : pc[r] = "idle" => shown[r] = None

LEMMA StepKeepsMarks ==
    ASSUME IInv, [Next]_vars, NEW q \in Requests, NEW l, Marked(q, l)
    PROVE  call'[q] = call[q] /\ was'[q] = was[q]
<1> USE DEF tables, session, reply, faults
<1>1. pc[q] \notin BeforeCommit
  BY DEF IInv, RequestInv, Marked
<1>2. CASE call' = call /\ was' = was
  BY <1>2 DEF Marked
<1>3. ASSUME NEW r \in Requests, Start(r)
      PROVE  call'[q] = call[q] /\ was'[q] = was[q]
  BY <1>1, <1>3 DEF Start, IInv, TypeOK, BeforeCommit
<1>4. ASSUME NEW r \in Requests, pc[r] = "commit", ApplyUpdate(r)
      PROVE  was'[q] = was[q]
  BY <1>1, <1>4 DEF ApplyUpdate, IInv, TypeOK, BeforeCommit
<1> QED
  BY <1>2, <1>3, <1>4
     DEF Next, Handler, Fault, AccountChange, Quiescent, vars, Marked,
         Authenticate, LoadLead, GuardAndAssign, Flush, Commit, Refresh,
         RecordChange, AuditEnds, RecordError, DbError, CommitAnswerLost, Crash,
         RegisterAccount, DeactivateAccount, ReactivateAccount, DeleteAccount

(* The refresh shows the credited account, if the policies let the caller  *)
(* see it.                                                                 *)
LEMMA RefreshShows ==
    ASSUME IInv, NEW r \in Requests, Refresh(r), shown'[r] # shown[r], shown'[r] # None
    PROVE  /\ \E q \in Requests :
                Marked(q, call[r].lead) /\ call[q].user = shown'[r]
           /\ call[r].user \notin Admins => shown'[r] = call[r].user
<1> DEFINE by == leads[call[r].lead].by
<1>1. call[r] \in Call
  BY DEF Refresh, IInv, TypeOK
<1>2. call[r].lead \in Leads
  BY <1>1 DEF Call
<1>3. shown'[r] = by /\ by # None /\ UserVisible(users, Ctx(r), by)
  BY DEF Refresh, Fail, IInv, TypeOK
<1>4. \E q \in Requests : Marked(q, call[r].lead) /\ call[q].user = by
  BY <1>2, <1>3 DEF IInv, CreditIsEarned
<1>5. call[r].user \notin Admins => by = call[r].user
  BY <1>3 DEF UserVisible, Ctx
<1> QED BY <1>3, <1>4, <1>5

LEMMA NextShownInv == IInv /\ ShownInv /\ [Next]_vars => ShownInv'
<1> SUFFICES ASSUME IInv, ShownInv, [Next]_vars, NEW r \in Requests
             PROVE  /\ pc'[r] = "idle" => shown'[r] = None
                    /\ shown'[r] # None =>
                         /\ \E q \in Requests :
                              Marked(q, call[r].lead)' /\ call'[q].user = shown'[r]
                         /\ call'[r].user \notin Admins => shown'[r] = call'[r].user
                         /\ call'[r].lead = call[r].lead
  BY DEF ShownInv, ResponseIsEarned, Marked
<1> USE DEF tables, session, reply, faults, Goto, Fail
<1>1. \/ shown' = shown
      \/ \E q \in Requests : Refresh(q) /\ shown' = [shown EXCEPT ![q] = shown'[q]]
  BY DEF Next, Handler, Fault, AccountChange, Quiescent, vars, Start,
         Authenticate, LoadLead, GuardAndAssign, Flush, Commit, Refresh,
         RecordChange, AuditEnds, RecordError, DbError, CommitAnswerLost, Crash,
         RegisterAccount, DeactivateAccount, ReactivateAccount, DeleteAccount,
         IInv, TypeOK
<1>2. pc[r] = "idle" => shown'[r] = shown[r] /\ shown[r] = None
  <2>1. ASSUME NEW q \in Requests, Refresh(q), pc[r] = "idle"
        PROVE  q # r
    BY <2>1 DEF Refresh
  <2> QED BY <1>1, <2>1 DEF ShownInv, IInv, TypeOK
<1>3. pc[r] # "idle" => pc'[r] # "idle" /\ call'[r] = call[r]
  BY DEF Next, Handler, Fault, AccountChange, Quiescent, vars, Start,
         Authenticate, LoadLead, GuardAndAssign, Flush, Commit, Refresh,
         RecordChange, AuditEnds, RecordError, DbError, CommitAnswerLost, Crash,
         RegisterAccount, DeactivateAccount, ReactivateAccount, DeleteAccount,
         IInv, TypeOK
<1>4. pc'[r] = "idle" => shown'[r] = None
  BY <1>2, <1>3
<1>5. ASSUME shown'[r] # None
      PROVE  /\ call'[r] = call[r]
             /\ \E q \in Requests :
                  Marked(q, call[r].lead)' /\ call'[q].user = shown'[r]
             /\ call[r].user \notin Admins => shown'[r] = call[r].user
  <2>1. call'[r] = call[r]
    BY <1>2, <1>3, <1>5
  <2>2. shown'[r] # shown[r] => Refresh(r)
    BY <1>1 DEF IInv, TypeOK
  <2>3. /\ \E q \in Requests : Marked(q, call[r].lead) /\ call[q].user = shown'[r]
        /\ call[r].user \notin Admins => shown'[r] = call[r].user
    BY <1>5, <2>2, RefreshShows DEF ShownInv, ResponseIsEarned
  <2>4. PICK q \in Requests : Marked(q, call[r].lead) /\ call[q].user = shown'[r]
    BY <2>3
  <2>5. Marked(q, call[r].lead)' /\ call'[q] = call[q]
    <3>1. ASSUME NEW l, Marked(q, l)
          PROVE  /\ call'[q] = call[q] /\ was'[q] = was[q]
      BY <3>1, StepKeepsMarks
    <3> QED BY <2>1, <2>4, <3>1 DEF Marked
  <2> QED BY <2>1, <2>3, <2>4, <2>5
<1> QED BY <1>4, <1>5

(* A response credits only who earned it, and shows attorneys nobody but   *)
(* themselves.                                                             *)
THEOREM Credited == Spec => []ResponseIsEarned
<1>1. Init => ShownInv
  BY DEF Init, ShownInv, ResponseIsEarned
<1>2. ShownInv => ResponseIsEarned
  BY DEF ShownInv
<1> QED BY <1>1, <1>2, NextShownInv, Inductive, PTL DEF Spec

(* The table implements the latch: each commit is one contact, each        *)
(* deletion takes credits away, and nothing else moves the table.          *)
THEOREM Refinement == Spec => ImplementsLatch
<1>1. Init => Latch!Init
  BY DEF Init, Latch!Init, Latch!AccountsInit, AccountsInit, NewLead,
     Latch!AccountStatus
<1>2. IInv /\ [Next]_vars => [Latch!Next]_<<users, leads>>
  <2> SUFFICES ASSUME IInv, [Next]_vars
               PROVE  Latch!Next \/ UNCHANGED <<users, leads>>
    OBVIOUS
  <2> USE DEF tables, session, reply, faults
  <2>1. ASSUME NEW r \in Requests, pc[r] = "commit", KeyHolds(r), ApplyUpdate(r),
               users' = users
        PROVE  Latch!Next
    <3> DEFINE l == call[r].lead
               by == IF call[r].user # seen[r].by THEN call[r].user ELSE leads[l].by
               row == [state |-> "REACHED_OUT", at |-> r, by |-> by]
    <3>1. /\ call[r] \in Call /\ l \in Leads /\ call[r].user \in Users
          /\ leads[l] \in LeadRow
          /\ obj[r].by = call[r].user
          /\ was[r] = None
          /\ SnapshotIsPast(r)
      <4>1. call[r] \in Call /\ obj[r].by = call[r].user /\ was[r] = None
        BY <2>1, CommitRow
      <4>2. l \in Leads /\ call[r].user \in Users
        BY <4>1 DEF Call
      <4>3. leads[l] \in LeadRow
        BY <4>2 DEF IInv, TypeOK
      <4>4. SnapshotIsPast(r)
        BY <2>1 DEF IInv, RequestInv
      <4> QED BY <4>1, <4>2, <4>3, <4>4
    <3>2. leads' = [leads EXCEPT ![l] = row]
      <4>1. Merge(leads[l], seen[r], obj[r]) = row
        BY <2>1, CommitRow
      <4> HIDE DEF row
      <4> QED BY <2>1, <4>1 DEF ApplyUpdate
    <3>3. Latch!Unused(r)
      <4>1. r # None
        BY NoneAssumption
      <4> QED BY <3>1, <4>1 DEF Latch!Unused, IInv, StampIffReachedOut, Marked
    <3>4. by \in Users \cup {None}
      BY <3>1 DEF LeadRow
    <3>5. \/ by \in Users /\ Latch!RowExists(by)
          \/ leads[l].state = "REACHED_OUT" /\ by = leads[l].by
      <4>1. CASE call[r].user # seen[r].by
        BY <2>1, <3>1, <4>1 DEF KeyHolds, RowExists, Latch!RowExists
      <4>2. CASE call[r].user = seen[r].by
        <5>1. seen[r].by # None /\ seen[r].state \in LeadState
          BY <3>1, <4>2, NoneAssumption DEF IInv, TypeOK, LeadRow
        <5>2. leads[l].state = "REACHED_OUT"
          BY <3>1, <5>1 DEF SnapshotIsPast, LeadState
        <5> QED BY <4>2, <5>2
      <4> QED BY <4>1, <4>2
    <3> HIDE DEF by
    <3>6. Latch!Contact(l)
      BY <2>1, <3>2, <3>3, <3>4, <3>5 DEF Latch!Contact
    <3> QED BY <3>1, <3>6 DEF Latch!Next
  <2>2. ASSUME NEW u \in Users, AccountChange(u)
        PROVE  Latch!Next
    <3>1. Latch!Change(u)
      BY <2>2 DEF AccountChange, RegisterAccount, DeactivateAccount, ReactivateAccount,
         DeleteAccount, Uncredit, RegisterUser, DeactivateUser, ReactivateUser,
         DeleteUser, SetStatus, Latch!Change, Latch!RegisterUser,
         Latch!DeactivateUser, Latch!ReactivateUser, Latch!DeleteUser,
         Latch!SetStatus
    <3> QED BY <3>1 DEF Latch!Next
  <2> QED
    BY <2>1, <2>2
       DEF Next, Handler, Fault, Quiescent, vars, Start, Authenticate, LoadLead,
           GuardAndAssign, Flush, Commit, Refresh, RecordChange, AuditEnds,
           RecordError, DbError, CommitAnswerLost, Crash
<1> QED BY <1>1, <1>2, Inductive, PTL DEF Spec, ImplementsLatch, Latch!Spec
-----------------------------------------------------------------------------
(* What the fairness of FairSpec is not needed for: that a request's steps *)
(* lead forward, so that there are only so many of them, and that what has *)
(* ended has been accounted for.                                           *)
Stage == [idle |-> 0, auth |-> 1, load |-> 2, guard |-> 3, flush |-> 4,
          commit |-> 5, refresh |-> 6, record |-> 7, done |-> 8, crashed |-> 8]

Advances(r) == Stage[pc'[r]] > Stage[pc[r]]

(* Every step of a handler takes its request forward, and no other step    *)
(* takes it back: no request can be kept busy by other requests, account   *)
(* changes, lost connections or crashes for more than eight steps.         *)
RequestsAdvance ==
    [][\A r \in Requests : Handler(r) \/ pc'[r] # pc[r] => Advances(r)]_vars

LEMMA StepAdvances ==
    ASSUME TypeOK, [Next]_vars, NEW r \in Requests
    PROVE  /\ Handler(r) => Advances(r)
           /\ pc'[r] # pc[r] => Advances(r)
<1> USE DEF Goto, Fail, Stage, Advances
<1>1. pc \in [Requests -> Label]
  BY DEF TypeOK
<1>2. ASSUME Authenticate(r) \/ LoadLead(r) \/ GuardAndAssign(r) PROVE Advances(r)
  BY <1>1, <1>2 DEF Authenticate, LoadLead, GuardAndAssign
<1>3. ASSUME Flush(r) \/ Commit(r) \/ Refresh(r) PROVE Advances(r)
  BY <1>1, <1>3 DEF Flush, Commit, Refresh
<1>4. ASSUME Start(r) \/ RecordChange(r) \/ RecordError(r) \/ CommitAnswerLost(r)
      PROVE  Advances(r)
  BY <1>1, <1>4 DEF Start, RecordChange, RecordError, AuditEnds, CommitAnswerLost
<1>5. ASSUME DbError(r) PROVE Advances(r)
  BY <1>1, <1>5 DEF DbError, InHandler
<1>6. ASSUME Crash, pc'[r] # pc[r] PROVE Advances(r)
  <2>1. pc[r] \in InFlight /\ pc'[r] = "crashed"
    BY <1>6 DEF Crash
  <2>2. QED
    BY <2>1 DEF InFlight, InHandler
<1>7. ASSUME NEW q \in Requests, q # r, Start(q) \/ Handler(q) \/ Fault(q)
      PROVE  pc'[r] = pc[r]
  BY <1>1, <1>7 DEF Start, Handler, Fault, Authenticate, LoadLead, GuardAndAssign, Flush,
     Commit, Refresh, RecordChange, RecordError, AuditEnds, DbError, CommitAnswerLost
<1>8. ASSUME (\E u \in Users : AccountChange(u)) \/ UNCHANGED vars
      PROVE  pc'[r] = pc[r]
  BY <1>8 DEF AccountChange, RegisterAccount, DeactivateAccount, ReactivateAccount,
     DeleteAccount, vars
<1>9. QED
  BY <1>2, <1>3, <1>4, <1>5, <1>6, <1>7, <1>8 DEF Next, Handler, Fault, Quiescent

(* No request is kept busy for ever: whatever else happens, it has only so *)
(* many steps.                                                             *)
THEOREM Forward == Spec => RequestsAdvance
<1>1. TypeOK /\ [Next]_vars =>
        [\A r \in Requests : Handler(r) \/ pc'[r] # pc[r] => Advances(r)]_vars
  BY StepAdvances
<1> QED BY <1>1, TypeCorrect, PTL DEF Spec, RequestsAdvance

(* A change that was committed is in the audit trail or counted by the     *)
(* tracker when its request has ended, unless the caller was told 500 or   *)
(* the process has died; so is every answer of 200.  No request has two    *)
(* entries, whatever the audit's session lost.                             *)
Audited(r) == \E e \in audit : e.req = r

Kept(r) == Accounted(r) \/ crashes > 0

ChangesAreKept ==
    \A r \in Requests : was[r] # None /\ pc[r] = "done" => status[r] = 500 \/ Kept(r)

AuditedOnce == \A e, f \in audit : e.req = f.req => e = f

KeptBy(r) ==
    /\ status[r] = 200 => pc[r] = "record" \/ Kept(r)
    /\ was[r] # None /\ pc[r] = "done" => status[r] \in {200, 500}
    /\ Audited(r) => pc[r] = "done"

KeptInv == AuditedOnce /\ \A r \in Requests : KeptBy(r)

(* Only the audit task adds an entry, and only its own.                    *)
LEMMA TrailFrame ==
    ASSUME IInv, [Next]_vars, NEW r \in Requests,
           ~(pc[r] = "record" /\ AuditEnds(r))
    PROVE  Audited(r)' <=> Audited(r)
<1> USE DEF tables, session, reply, faults, Audited
<1>1. ASSUME NEW q \in Requests, AuditEnds(q), q # r,
             audit' \subseteq audit \cup {EntryOf(q)}, audit \subseteq audit'
      PROVE  Audited(r)' <=> Audited(r)
  BY <1>1 DEF EntryOf
<1>2. ASSUME NEW q \in Requests, RecordChange(q) \/ RecordError(q) PROVE Audited(r)' <=> Audited(r)
  <2>1. AuditEnds(q) /\ q # r
    BY <1>2 DEF RecordChange, RecordError, AuditEnds
  <2>2. audit' \subseteq audit \cup {EntryOf(q)} /\ audit \subseteq audit'
    BY <1>2 DEF RecordChange, RecordError
  <2>3. QED
    BY <1>1, <2>1, <2>2
<1>3. ASSUME NEW u, DeleteAccount(u) PROVE Audited(r)' <=> Audited(r)
  <2>1. audit' = {Anonymise(e, u) : e \in audit}
    BY <1>3 DEF DeleteAccount
  <2>2. \A e \in audit : Anonymise(e, u).req = e.req
    BY DEF Anonymise, IInv, TypeOK, Entry
  <2>3. QED
    BY <2>1, <2>2
<1>4. CASE audit' = audit
  BY <1>4
<1>5. ASSUME NEW q \in Requests, Start(q) \/ Handler(q) \/ Fault(q), audit' # audit
      PROVE  RecordChange(q) \/ RecordError(q)
  BY <1>5 DEF Start, Handler, Fault, Authenticate, LoadLead, GuardAndAssign, Flush,
     Commit, Refresh, DbError, CommitAnswerLost
<1>6. ASSUME NEW u \in Users, AccountChange(u), audit' # audit PROVE DeleteAccount(u)
  BY <1>6 DEF AccountChange, RegisterAccount, DeactivateAccount, ReactivateAccount
<1>7. QED
  BY <1>2, <1>3, <1>4, <1>5, <1>6 DEF Next, Quiescent, Crash, vars

LEMMA AuditedOnceKept ==
    ASSUME IInv, KeptInv, [Next]_vars
    PROVE  AuditedOnce'
<1> USE DEF tables, session, reply, faults
<1>1. ASSUME NEW q \in Requests, RecordChange(q) \/ RecordError(q) PROVE AuditedOnce'
  <2>1. pc[q] = "record" /\ audit' \subseteq audit \cup {EntryOf(q)}
    BY <1>1 DEF RecordChange, RecordError, AuditEnds
  <2>2. \A e \in audit : e.req # q
    BY <2>1 DEF KeptInv, KeptBy, Audited
  <2>3. EntryOf(q).req = q
    BY DEF EntryOf
  <2>4. QED
    BY <2>1, <2>2, <2>3 DEF KeptInv, AuditedOnce
<1>2. ASSUME NEW u, DeleteAccount(u) PROVE AuditedOnce'
  <2>1. audit' = {Anonymise(e, u) : e \in audit}
    BY <1>2 DEF DeleteAccount
  <2>2. \A e \in audit : Anonymise(e, u).req = e.req
    BY DEF Anonymise, IInv, TypeOK, Entry
  <2>3. QED
    BY <2>1, <2>2 DEF KeptInv, AuditedOnce
<1>3. CASE audit' = audit
  BY <1>3 DEF KeptInv, AuditedOnce
<1>4. ASSUME NEW q \in Requests, Start(q) \/ Handler(q) \/ Fault(q), audit' # audit
      PROVE  RecordChange(q) \/ RecordError(q)
  BY <1>4 DEF Start, Handler, Fault, Authenticate, LoadLead, GuardAndAssign, Flush,
     Commit, Refresh, DbError, CommitAnswerLost
<1>5. ASSUME NEW u \in Users, AccountChange(u), audit' # audit PROVE DeleteAccount(u)
  BY <1>5 DEF AccountChange, RegisterAccount, DeactivateAccount, ReactivateAccount
<1>6. QED
  BY <1>1, <1>2, <1>3, <1>4, <1>5 DEF Next, Quiescent, Crash, vars

LEMMA KeptByStep ==
    ASSUME IInv, KeptInv, [Next]_vars, NEW r \in Requests
    PROVE  KeptBy(r)'
<1> USE DEF tables, session, reply, faults
<1>1. TypeOK /\ RequestInv(r) /\ KeptBy(r)
  BY DEF IInv, KeptInv
<1>2. pc[r] \in Label /\ crashes \in Nat /\ crashes \in 0..MaxCrashes
  BY <1>1, BoundsAssumption DEF TypeOK
<1>3. ASSUME pc'[r] = pc[r], status'[r] = status[r], was'[r] = was[r],
             counted \subseteq counted', crashes' = crashes, Audited(r)' <=> Audited(r)
      PROVE  KeptBy(r)'
  <2>1. Kept(r) => Kept(r)'
    BY <1>3 DEF Kept, Accounted, Audited
  <2>2. QED
    BY <1>1, <1>3, <2>1 DEF KeptBy
<1>4. ASSUME pc[r] # "record" /\ ~Audited(r) PROVE ~Audited(r)'
  BY <1>4, TrailFrame
<1>5. ASSUME pc[r] \in {"idle"} \cup InHandler PROVE status[r] # 200 /\ ~Audited(r) /\ pc[r] # "record"
  BY <1>1, <1>5 DEF RequestInv, KeptBy, InHandler
<1>6. ASSUME Start(r) \/ Authenticate(r) \/ LoadLead(r) \/ GuardAndAssign(r) PROVE KeptBy(r)'
  <2>1. pc[r] \in BeforeCommit /\ pc[r] \in {"idle"} \cup InHandler
    BY <1>6 DEF Start, Authenticate, LoadLead, GuardAndAssign, BeforeCommit, InHandler
  <2>2. was[r] = None /\ was'[r] = was[r]
    BY <1>1, <1>6, <2>1 DEF RequestInv, Start, Authenticate, LoadLead, GuardAndAssign
  <2>3. status'[r] # 200
    BY <1>1, <1>5, <1>6, <2>1 DEF TypeOK, Fail, Start, Authenticate, LoadLead, GuardAndAssign
  <2>4. QED
    BY <1>4, <1>5, <2>1, <2>2, <2>3 DEF KeptBy
<1>7. ASSUME Flush(r) \/ Commit(r) \/ DbError(r) \/ CommitAnswerLost(r) PROVE KeptBy(r)'
  <2>1. pc[r] \in {"idle"} \cup InHandler
    BY <1>7 DEF Flush, Commit, DbError, CommitAnswerLost, InHandler
  <2>2. \/ status'[r] = status[r] /\ pc'[r] # "done"
        \/ status'[r] = 500
    BY <1>1, <1>7 DEF TypeOK, Goto, Fail, Flush, Commit, DbError, CommitAnswerLost
  <2>3. QED
    BY <1>4, <1>5, <2>1, <2>2 DEF KeptBy
<1>8. ASSUME Refresh(r) PROVE KeptBy(r)'
  <2>1. pc[r] \in {"idle"} \cup InHandler
    BY <1>8 DEF Refresh, InHandler
  <2>2. pc'[r] = "record" \/ status'[r] = 500
    BY <1>1, <1>8 DEF TypeOK, Goto, Fail, Refresh
  <2>3. QED
    BY <1>4, <1>5, <2>1, <2>2 DEF KeptBy
<1>9. ASSUME RecordChange(r) \/ RecordError(r) PROVE KeptBy(r)'
  <2>1. pc'[r] = "done" /\ status'[r] = 200
    BY <1>1, <1>9 DEF TypeOK, RequestInv, RecordChange, RecordError, AuditEnds, Goto
  <2>2. EntryOf(r) \in audit' \/ r \in counted'
    BY <1>9 DEF RecordChange, RecordError
  <2>3. Kept(r)'
    BY <2>2 DEF Kept, Accounted, EntryOf
  <2>4. QED
    BY <2>1, <2>3 DEF KeptBy
<1>10. ASSUME NEW q \in Requests, q # r, Start(q) \/ Handler(q) \/ Fault(q) PROVE KeptBy(r)'
  <2>1. /\ pc'[r] = pc[r] /\ status'[r] = status[r] /\ was'[r] = was[r]
        /\ counted \subseteq counted' /\ crashes' = crashes
    BY <1>1, <1>10 DEF TypeOK, Goto, Fail, ApplyUpdate, Start, Handler, Fault, Authenticate,
       LoadLead, GuardAndAssign, Flush, Commit, Refresh, RecordChange, AuditEnds, RecordError,
       DbError, CommitAnswerLost
  <2>2. ~(pc[r] = "record" /\ AuditEnds(r))
    BY <1>1, <2>1 DEF TypeOK, AuditEnds, Goto
  <2>3. QED
    BY <1>3, <2>1, <2>2, TrailFrame
<1>11. ASSUME (\E u \in Users : AccountChange(u)) \/ UNCHANGED vars PROVE KeptBy(r)'
  <2>1. UNCHANGED <<pc, status, was, counted, crashes>>
    BY <1>11 DEF AccountChange, RegisterAccount, DeactivateAccount, ReactivateAccount,
       DeleteAccount, vars
  <2>2. ~(pc[r] = "record" /\ AuditEnds(r))
    BY <1>1, <2>1 DEF TypeOK, AuditEnds, Goto
  <2>3. QED
    BY <1>3, <2>1, <2>2, TrailFrame
<1>12. ASSUME Crash PROVE KeptBy(r)'
  <2>1. /\ UNCHANGED <<status, was, audit>> /\ crashes' > 0
        /\ pc'[r] = "done" <=> pc[r] = "done"
    BY <1>1, <1>2, <1>12 DEF TypeOK, Crash, InFlight, InHandler
  <2>2. Kept(r)' /\ (Audited(r)' <=> Audited(r))
    BY <2>1 DEF Kept, Audited
  <2>3. QED
    BY <1>1, <2>1, <2>2 DEF KeptBy
<1>13. QED
  BY <1>6, <1>7, <1>8, <1>9, <1>10, <1>11, <1>12 DEF Next, Handler, Fault, Quiescent

LEMMA KeptInductive == Spec => []KeptInv
<1>1. Init => KeptInv
  BY DEF Init, KeptInv, KeptBy, AuditedOnce, Audited
<1>2. IInv /\ KeptInv /\ [Next]_vars => KeptInv'
  <2> SUFFICES ASSUME IInv, KeptInv, [Next]_vars PROVE KeptInv'
    OBVIOUS
  <2>1. \A r \in Requests : KeptBy(r)'
    BY KeptByStep
  <2>2. QED
    BY <2>1, AuditedOnceKept DEF KeptInv
<1> QED BY <1>1, <1>2, Inductive, PTL DEF Spec

(* No committed change is lost to the trail and to the failure count, in   *)
(* any interleaving and with any failures of the audit's own session.      *)
THEOREM ChangeKept == Spec => []ChangesAreKept
<1>1. IInv /\ KeptInv => ChangesAreKept
  BY DEF IInv, KeptInv, KeptBy, ChangesAreKept
<1> QED BY <1>1, Inductive, KeptInductive, PTL

(* A request has at most one entry in the trail, which the deletion of its *)
(* user does not double either.                                            *)
THEOREM AuditSingle == Spec => []AuditedOnce
<1>1. KeptInv => AuditedOnce
  BY DEF KeptInv
<1> QED BY <1>1, KeptInductive, PTL
=============================================================================
