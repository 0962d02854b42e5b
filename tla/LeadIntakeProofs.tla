-------------------------- MODULE LeadIntakeProofs --------------------------
(***************************************************************************)
(* The invariants of LeadIntake, for any number of submissions, accounts,  *)
(* failures and crashes, on both backends.  Submissions share no state but *)
(* the accounts, so the inductive invariant is one statement per           *)
(* submission, kept by the steps of the others because they do not touch   *)
(* what it speaks of.                                                      *)
(***************************************************************************)
EXTENDS LeadIntake, TLAPS

(* IInv, submission by submission.                                         *)
Local(r) ==
    /\ RequestInv(r)
    /\ r \in leads => files[r] = "whole" /\ upload[r] = "valid"
    /\ status[r] \in {400, 413, 422, 429} => files[r] = "none" /\ r \notin leads
    /\ pc[r] \in Ended /\ files[r] # "none" /\ r \notin leads
           => status[r] = 500 \/ pc[r] = "crashed"

LEMMA LocalIsIInv == IInv <=> TypeOK /\ \A r \in Requests : Local(r)
<1>1. (\A r \in Requests : RequestInv(r)) => ToldOfLeads
  BY DEF RequestInv, ToldOfLeads
<1>2. TypeOK /\ (\A r \in Requests : Local(r)) => LeadHasResume
  BY DEF Local, LeadHasResume, TypeOK
<1>3. (\A r \in Requests : Local(r)) => RefusedLeavesNothing
  BY DEF Local, RefusedLeavesNothing
<1>4. IInv => TypeOK /\ \A r \in Requests : Local(r)
  BY DEF IInv, Local, LeadHasResume, RefusedLeavesNothing
<1> QED BY <1>1, <1>2, <1>3, <1>4 DEF IInv, Local

LEMMA InitIInv == Init => IInv
<1> SUFFICES ASSUME Init PROVE IInv
  OBVIOUS
<1>1. TypeOK
  <2>1. exhausted \in BOOLEAN
    BY Zenon DEF Init
  <2>2. crashes \in 0..MaxCrashes /\ errors \in 0..MaxErrors
    BY BoundsAssumption DEF Init
  <2>3. QED
    BY <2>1, <2>2 DEF Init, TypeOK, AccountsInit, AccountStatus, FileState, NoUpload
<1>2. \A r \in Requests : Local(r)
  BY DEF Init, Local, RequestInv, Untold, InHandler, Background, Ended, NoUpload
<1> QED BY <1>1, <1>2, LocalIsIInv
-----------------------------------------------------------------------------
(* Types.                                                                  *)
LEMMA RecipientsType == Recipients \subseteq Emails
  BY AddressAssumption DEF Recipients, Attorneys

LEMMA NextTypeOK == TypeOK /\ [Next]_vars => TypeOK'
<1> SUFFICES ASSUME TypeOK, [Next]_vars PROVE TypeOK'
  OBVIOUS
<1> USE BoundsAssumption
    DEF TypeOK, config, faults, mail, Error, Goto, Answer, Fail, FileState, InHandler, Background,
        Ended
<1>1. ASSUME NEW r \in Requests, Submit(r) PROVE TypeOK'
  BY <1>1 DEF Submit
<1>2. ASSUME NEW r \in Requests, Receive(r) PROVE TypeOK'
  BY <1>2 DEF Receive
<1>3. ASSUME NEW r \in Requests, Judge(r) PROVE TypeOK'
  <2>1. upload[r] \in Upload => Verdict[upload[r]] \in {201, 400, 413}
    BY DEF Upload, Verdict
  <2>2. upload[r] \in Upload
    BY <1>3 DEF Judge
  <2> QED BY <1>3, <2>1, <2>2 DEF Judge
<1>4. ASSUME NEW r \in Requests, Open(r) \/ Write(r) \/ StorageError(r) PROVE TypeOK'
  BY <1>4 DEF Open, Write, StorageError
<1>5. ASSUME NEW r \in Requests, Insert(r) \/ InsertError(r) PROVE TypeOK'
  BY <1>5 DEF Insert, InsertError
<1>6. ASSUME NEW r \in Requests, Lookup(r) \/ LookupError(r) PROVE TypeOK'
  BY <1>6, RecipientsType DEF Lookup, LookupError
<1>7. ASSUME NEW r \in Requests, Greet(r) PROVE TypeOK'
  BY <1>7 DEF Greet, SendReceipt, Dispatch
<1>8. ASSUME NEW r \in Requests, Mail(r) PROVE TypeOK'
  BY <1>8 DEF Mail, SendNotice, Dispatch
<1>9. ASSUME NEW r \in Requests, Record(r) \/ RecordError(r) PROVE TypeOK'
  BY <1>9 DEF Record, RecordError
<1>10. CASE Crash
  <2>1. exhausted' \in BOOLEAN
    BY <1>10, Zenon DEF Crash
  <2>2. QED
    BY <1>10, <2>1 DEF Crash
<1>11. CASE AccountChange
  BY <1>11
     DEF AccountChange, AccountsNext, RegisterUser, DeactivateUser, ReactivateUser,
         DeleteUser, SetStatus, AccountStatus
<1>12. CASE UNCHANGED vars
  BY <1>12 DEF vars
<1>13. ASSUME NEW r \in Requests, Hang(r) PROVE TypeOK'
  BY <1>13 DEF Hang, SendReceipt, SendNotice
<1>14. CASE Exhaust
  <2>1. exhausted' \in BOOLEAN
    BY <1>14, Zenon DEF Exhaust
  <2>2. QED
    BY <1>14, <2>1 DEF Exhaust
<1> QED
  BY <1>1, <1>2, <1>3, <1>4, <1>5, <1>6, <1>7, <1>8, <1>9, <1>10, <1>11, <1>12, <1>13,
     <1>14
     DEF Next, Handler, Fault, Quiescent
-----------------------------------------------------------------------------
(* What the invariant says of q is untouched.                              *)
Same(q) ==
    /\ files'[q] = files[q] /\ pc'[q] = pc[q]
    /\ upload'[q] = upload[q] /\ status'[q] = status[q]
    /\ q \in leads' <=> q \in leads
    /\ q \in audit' <=> q \in audit
    /\ q \in greeted' <=> q \in greeted
    /\ \A e \in Emails : <<q, e>> \in tried' <=> <<q, e>> \in tried
    /\ channel' = channel

LEMMA Frame ==
    ASSUME NEW q \in Requests, Local(q), Same(q)
    PROVE  Local(q)'
<1>1. Untold(q)' <=> Untold(q)
  BY DEF Same, Untold
<1> QED BY <1>1 DEF Same, Local, RequestInv

(* The steps of a submission touch no other one.                           *)
LEMMA OnlyOwn ==
    ASSUME TypeOK, NEW r \in Requests, NEW q \in Requests, q # r,
           Submit(r) \/ Handler(r) \/ Fault(r)
    PROVE  Same(q)
<1> USE DEF TypeOK, Same, config, faults, mail, Error, Goto, Answer, Fail
<1>1. CASE Submit(r) \/ Receive(r) \/ Judge(r)
  BY <1>1 DEF Submit, Receive, Judge
<1>2. CASE Open(r) \/ Write(r) \/ StorageError(r)
  BY <1>2 DEF Open, Write, StorageError
<1>3. CASE Insert(r) \/ InsertError(r)
  BY <1>3 DEF Insert, InsertError
<1>4. CASE Lookup(r) \/ LookupError(r)
  BY <1>4 DEF Lookup, LookupError
<1>5. CASE Greet(r) \/ Mail(r) \/ Hang(r)
  BY <1>5 DEF Greet, Mail, Hang, SendReceipt, SendNotice, Dispatch
<1>6. CASE Record(r) \/ RecordError(r)
  BY <1>6 DEF Record, RecordError
<1> QED BY <1>1, <1>2, <1>3, <1>4, <1>5, <1>6 DEF Handler, Fault

(* The steps of a submission keep what is said of it.                      *)
LEMMA OwnStep ==
    ASSUME TypeOK, NEW r \in Requests, Local(r), Submit(r) \/ Handler(r) \/ Fault(r)
    PROVE  Local(r)'
<1> USE DEF TypeOK, Local, RequestInv, Untold, config, faults, mail, Error, Goto, Answer, Fail,
            InHandler, Background, Ended
<1>1. CASE Submit(r)
  BY <1>1 DEF Submit
<1>2. CASE Receive(r)
  BY <1>2 DEF Receive
<1>3. CASE Judge(r)
  <2>1. upload[r] \in Upload /\ pc[r] = "read"
    BY <1>3 DEF Judge
  <2>2. /\ Verdict[upload[r]] \in {201, 400, 413}
        /\ Verdict[upload[r]] = 201 => upload[r] = "valid"
    BY <2>1 DEF Upload, Verdict
  <2> QED BY <1>3, <2>1, <2>2 DEF Judge
<1>4. CASE Open(r)
  BY <1>4 DEF Open
<1>5. CASE Write(r)
  BY <1>5 DEF Write
<1>6. CASE StorageError(r)
  BY <1>6 DEF StorageError
<1>7. CASE Insert(r)
  BY <1>7 DEF Insert
<1>8. CASE InsertError(r)
  BY <1>8 DEF InsertError
<1>9. CASE Lookup(r) \/ LookupError(r)
  BY <1>9 DEF Lookup, LookupError
<1>10. CASE Greet(r) \/ Mail(r) \/ Hang(r)
  BY <1>10 DEF Greet, Mail, Hang, SendReceipt, SendNotice, Dispatch
<1>11. CASE Record(r) \/ RecordError(r)
  BY <1>11 DEF Record, RecordError
<1> QED
  BY <1>1, <1>2, <1>3, <1>4, <1>5, <1>6, <1>7, <1>8, <1>9, <1>10, <1>11
     DEF Handler, Fault

(* A crash ends what was in flight and takes nothing back.                 *)
LEMMA CrashStep ==
    ASSUME TypeOK, NEW r \in Requests, Local(r), Crash
    PROVE  Local(r)'
  BY DEF TypeOK, Local, RequestInv, Untold, config, mail, InHandler, Background, Ended, Crash

LEMMA NextIInv == IInv /\ [Next]_vars => IInv'
<1> SUFFICES ASSUME IInv, [Next]_vars PROVE IInv'
  OBVIOUS
<1>1. TypeOK /\ \A r \in Requests : Local(r)
  BY LocalIsIInv
<1>2. TypeOK'
  BY <1>1, NextTypeOK
<1>3. ASSUME NEW q \in Requests
      PROVE  Local(q)'
  <2>1. ASSUME NEW r \in Requests, Submit(r) \/ Handler(r) \/ Fault(r)
        PROVE  Local(q)'
    <3>1. CASE q = r
      BY <1>1, <2>1, <3>1, OwnStep
    <3>2. CASE q # r
      BY <1>1, <2>1, <3>2, OnlyOwn, Frame
    <3> QED BY <3>1, <3>2
  <2>2. CASE Crash
    BY <1>1, <2>2, CrashStep
  <2>3. CASE AccountChange \/ Exhaust \/ UNCHANGED vars
    <3>1. Same(q)
      BY <2>3 DEF Same, AccountChange, Exhaust, vars, config, mail
    <3> QED BY <1>1, <3>1, Frame
  <2> QED BY <2>1, <2>2, <2>3 DEF Next, Quiescent
<1>4. (TypeOK /\ \A r \in Requests : Local(r))'
  BY <1>2, <1>3
<1> QED BY <1>4, LocalIsIInv, PTL

(* What is stored, committed and said while a submission is at each of its *)
(* steps, and the three promises below.                                    *)
THEOREM Inductive == Spec => []IInv
  BY InitIInv, NextIInv, PTL DEF Spec

(* Files, leads, messages and counters keep their types, whatever fails.   *)
THEOREM TypeCorrect == Spec => []TypeOK
<1>1. IInv => TypeOK
  BY DEF IInv
<1> QED BY <1>1, Inductive, PTL

(* No failure, crash or backend leaves a lead without its whole resume.    *)
THEOREM Resumes == Spec => []LeadHasResume
<1>1. IInv => LeadHasResume
  BY DEF IInv
<1> QED BY <1>1, Inductive, PTL

(* A refused submission leaves nothing; orphaned files need a failure.     *)
THEOREM Refusals == Spec => []RefusedLeavesNothing
<1>1. IInv => RefusedLeavesNothing
  BY DEF IInv
<1> QED BY <1>1, Inductive, PTL

(* Messages and audit entries speak only of leads that were committed and  *)
(* acknowledged.                                                           *)
THEOREM Told == Spec => []ToldOfLeads
<1>1. IInv => ToldOfLeads
  BY DEF IInv
<1> QED BY <1>1, Inductive, PTL

(* An address that is passed over: no message has been tried, and the      *)
(* mailing, if it has begun, does not have it on its list.                 *)
PassedOver(r, e) ==
    /\ <<r, e>> \notin tried
    /\ pc[r] # "idle"
    /\ pc[r] \in {"greet", "mail"} => e \notin todo[r]

LEMMA StaysPassedOver ==
    ASSUME TypeOK, NEW r \in Requests, NEW e \in Emails, Dismissed(e),
           PassedOver(r, e), [Next]_vars
    PROVE  PassedOver(r, e)'
<1> USE DEF TypeOK, PassedOver, mail, faults, Error, Goto, Answer, Fail
<1>1. e \notin Recipients
  BY DEF Recipients, Attorneys, Dismissed
<1>2. ASSUME NEW q \in Requests, q # r, Submit(q) \/ Handler(q) \/ Fault(q)
      PROVE  PassedOver(r, e)'
  <2>1. CASE Submit(q) \/ Receive(q) \/ Judge(q)
    BY <1>2, <2>1 DEF Submit, Receive, Judge
  <2>2. CASE Open(q) \/ Write(q) \/ StorageError(q) \/ Insert(q) \/ InsertError(q)
    BY <1>2, <2>2 DEF Open, Write, StorageError, Insert, InsertError
  <2>3. CASE Lookup(q) \/ LookupError(q) \/ Record(q) \/ RecordError(q)
    BY <1>2, <2>3 DEF Lookup, LookupError, Record, RecordError
  <2>4. CASE Greet(q) \/ Mail(q) \/ Hang(q)
    BY <1>2, <2>4 DEF Greet, Mail, Hang, SendReceipt, SendNotice, Dispatch
  <2>5. QED
    BY <1>2, <2>1, <2>2, <2>3, <2>4 DEF Handler, Fault
<1>3. CASE Submit(r) \/ Handler(r) \/ Fault(r)
  <2>1. CASE Receive(r) \/ Judge(r) \/ Open(r) \/ Write(r) \/ Insert(r)
    BY <2>1 DEF Receive, Judge, Open, Write, Insert
  <2>2. CASE Lookup(r)
    BY <1>1, <2>2 DEF Lookup
  <2>3. CASE Greet(r)
    BY <2>3 DEF Greet, SendReceipt, Dispatch
  <2>4. CASE Mail(r) \/ Hang(r)
    BY <2>4 DEF Mail, Hang, SendReceipt, SendNotice, Dispatch
  <2>5. CASE Submit(r) \/ Record(r) \/ StorageError(r) \/ InsertError(r)
             \/ LookupError(r) \/ RecordError(r)
    BY <2>5 DEF Submit, Record, StorageError, InsertError, LookupError, RecordError
  <2>6. QED
    BY <1>3, <2>1, <2>2, <2>3, <2>4, <2>5 DEF Handler, Fault
<1>4. CASE Crash
  BY <1>4 DEF Crash
<1>5. CASE AccountChange \/ Exhaust \/ UNCHANGED vars
  BY <1>5 DEF AccountChange, Exhaust, vars
<1>6. QED
  BY <1>2, <1>3, <1>4, <1>5 DEF Next, Quiescent

(* An address that no active attorney has from before the lookup on gets   *)
(* no news of the lead, however the mailing and the account changes        *)
(* interleave, unless it is the fallback while nobody is active.           *)
THEOREM DismissedIsNotTold == Spec => DeactivatedIsNotTold
<1>1. ASSUME NEW r \in Requests, NEW e \in Emails
      PROVE  Spec => [](NotYetLookedUp(r) /\ []Dismissed(e) => [](<<r, e>> \notin tried))
  <2>1. IInv /\ NotYetLookedUp(r) => PassedOver(r, e)
    BY DEF IInv, RequestInv, Untold, NotYetLookedUp, PassedOver, InHandler
  <2>2. IInv /\ PassedOver(r, e) /\ Dismissed(e) /\ [Next]_vars => PassedOver(r, e)'
    BY StaysPassedOver DEF IInv
  <2>3. PassedOver(r, e) => <<r, e>> \notin tried
    BY DEF PassedOver
  <2>4. QED
    BY <2>1, <2>2, <2>3, Inductive, PTL DEF Spec
<1>2. QED
  BY <1>1 DEF DeactivatedIsNotTold
-----------------------------------------------------------------------------
(* What the fairness of FairSpec is not needed for.                        *)

(* No message is sent twice: neither the receipt of a submission nor the   *)
(* news of it to one address has been tried while it is still due.  An     *)
(* attorney who submits a lead gets one of each.                           *)
DueIsUntried ==
    \A r \in Requests :
        /\ pc[r] = "greet" => r \notin greeted
        /\ pc[r] \in {"greet", "mail"} => \A e \in todo[r] : <<r, e>> \notin tried

(* A mailing that is over has called the channel for everyone it had       *)
(* looked up, however many messages failed.                                *)
NobodyIsSkipped ==
    \A r \in Requests, e \in Emails :
        [](pc[r] = "greet" /\ e \in todo[r]
             => [](pc[r] \in {"record", "done"} => <<r, e>> \in tried))

(* Whatever becomes of an acknowledged lead: it is audited or counted by   *)
(* the tracker, or its tasks are still at it, or the process has died, or  *)
(* the lookup raised, and then nobody was told of the lead either, or a    *)
(* send hangs, which takes SMTP.  Only in the last two is the entry lost   *)
(* without a crash and without being counted.                              *)
AnswersAreKept ==
    \A r \in Requests : status[r] = 201 =>
        \/ r \in audit \cup counted
        \/ pc[r] \in Background
        \/ crashes > 0
        \/ pc[r] = "aborted" /\ Untold(r)
        \/ pc[r] = "hung" /\ channel = "smtp"

(* The part of DueIsUntried and AnswersAreKept that speaks of one          *)
(* submission.                                                             *)
Mailing(r) ==
    /\ pc[r] = "greet" => Untold(r)
    /\ pc[r] = "mail" => \A e \in todo[r] : <<r, e>> \notin tried
    /\ status[r] = 201 => \/ r \in audit \cup counted \/ crashes > 0
                          \/ pc[r] \in Background \cup {"aborted", "hung"}

LEMMA MailingStep ==
    ASSUME IInv, NEW r \in Requests, Mailing(r), [Next]_vars
    PROVE  Mailing(r)'
<1> USE DEF Mailing, mail, faults, Error, Goto, Answer, Fail, Background
<1>1. TypeOK /\ RequestInv(r)
  BY DEF IInv
<1>2. ASSUME NEW q \in Requests, q # r, Submit(q) \/ Handler(q) \/ Fault(q)
      PROVE  Mailing(r)'
  <2>1. Same(r)
    BY <1>1, <1>2, OnlyOwn
  <2>2. todo'[r] = todo[r] /\ crashes' = crashes /\ counted \subseteq counted'
    BY <1>1, <1>2 DEF TypeOK, Submit, Handler, Fault, Receive, Judge, Open, Write,
       Insert, Lookup, Greet, Mail, Hang, SendReceipt, SendNotice, Dispatch, Record,
       StorageError, InsertError, LookupError, RecordError
  <2>3. Untold(r)' <=> Untold(r)
    BY <2>1 DEF Same, Untold
  <2>4. todo[r] \subseteq Emails
    BY <1>1 DEF TypeOK
  <2>5. QED
    BY <2>1, <2>2, <2>3, <2>4 DEF Same
<1>3. CASE Submit(r) \/ Receive(r) \/ Open(r) \/ Write(r) \/ Insert(r)
  BY <1>1, <1>3 DEF TypeOK, RequestInv, InHandler, Submit, Receive, Open, Write, Insert
<1>4. CASE Judge(r)
  <2>1. pc'[r] \in {"open", "done"} /\ status'[r] # 201
    BY <1>1, <1>4 DEF TypeOK, RequestInv, InHandler, Judge
  <2>2. QED
    BY <2>1
<1>5. CASE Lookup(r)
  <2>1. pc'[r] = "greet" /\ Untold(r)'
    BY <1>1, <1>5 DEF TypeOK, RequestInv, Untold, Lookup
  <2>2. QED
    BY <2>1
<1>6. CASE Greet(r)
  <2>1. /\ pc[r] = "greet" /\ pc'[r] \in {"mail", "record"}
        /\ todo'[r] = todo[r] /\ tried' = tried
    BY <1>1, <1>6 DEF TypeOK, Greet, SendReceipt, Dispatch
  <2>2. \A e \in todo[r] : e \in Emails
    BY <1>1 DEF TypeOK
  <2>3. QED
    BY <2>1, <2>2 DEF Untold
<1>7. CASE Mail(r)
  <2>1. PICK e \in todo[r] : /\ todo' = [todo EXCEPT ![r] = @ \ {e}]
                             /\ tried' = tried \cup {<<r, e>>}
    BY <1>7 DEF Mail, SendNotice
  <2>2. pc[r] = "mail" /\ pc'[r] \in {"mail", "record"} /\ todo'[r] = todo[r] \ {e}
    BY <1>1, <1>7, <2>1 DEF TypeOK, Mail, SendNotice, Dispatch
  <2>3. QED
    BY <2>1, <2>2
<1>8. CASE Hang(r)
  BY <1>1, <1>8 DEF TypeOK, Hang
<1>9. CASE Record(r) \/ RecordError(r)
  BY <1>1, <1>9 DEF TypeOK, Record, RecordError
<1>10. CASE StorageError(r) \/ InsertError(r) \/ LookupError(r)
  BY <1>1, <1>10 DEF TypeOK, StorageError, InsertError, LookupError
<1>11. CASE Crash
  <2>1. crashes' > 0 /\ pc'[r] \notin {"greet", "mail"}
    BY <1>1, <1>11, BoundsAssumption DEF TypeOK, Crash, InHandler
  <2>2. QED
    BY <2>1
<1>12. CASE AccountChange \/ Exhaust \/ UNCHANGED vars
  BY <1>12 DEF AccountChange, Exhaust, vars, Untold
<1>13. QED
  BY <1>2, <1>3, <1>4, <1>5, <1>6, <1>7, <1>8, <1>9, <1>10, <1>11, <1>12
     DEF Next, Handler, Fault, Quiescent

LEMMA MailingInductive == Spec => [](\A r \in Requests : Mailing(r))
<1>1. Init => \A r \in Requests : Mailing(r)
  BY DEF Init, Mailing
<1>2. IInv /\ (\A r \in Requests : Mailing(r)) /\ [Next]_vars
        => (\A r \in Requests : Mailing(r))'
  BY MailingStep
<1> QED BY <1>1, <1>2, Inductive, PTL DEF Spec

(* No receipt is sent twice, and no address is told of one lead twice,     *)
(* whosever addresses they are.                                            *)
THEOREM MailedOnce == Spec => []DueIsUntried
<1>1. IInv /\ (\A r \in Requests : Mailing(r)) => DueIsUntried
  BY DEF IInv, TypeOK, Mailing, DueIsUntried, Untold
<1> QED BY <1>1, Inductive, MailingInductive, PTL

(* The trail of an acknowledged lead: every way in which it can be lost is *)
(* named, the aborted and the hanging ones included.                       *)
THEOREM AnswerKept == Spec => []AnswersAreKept
<1>1. IInv /\ (\A r \in Requests : Mailing(r)) => AnswersAreKept
  BY DEF IInv, RequestInv, Mailing, AnswersAreKept
<1> QED BY <1>1, Inductive, MailingInductive, PTL

(* Once looked up, an addressee stays due until the channel was called.    *)
Due(r, e) ==
    \/ <<r, e>> \in tried
    \/ pc[r] \in {"hung", "crashed"}
    \/ pc[r] \in {"greet", "mail"} /\ e \in todo[r]

LEMMA StaysDue ==
    ASSUME TypeOK, NEW r \in Requests, NEW e \in Emails, Due(r, e), [Next]_vars
    PROVE  Due(r, e)'
<1> USE DEF TypeOK, Due, mail, faults, Error, Goto, Answer, Fail
<1>1. tried \subseteq tried'
  BY DEF Next, Quiescent, vars, Crash, Exhaust, AccountChange, Submit, Handler, Fault, Receive,
     Judge, Open, Write, Insert, Lookup, Greet, Mail, Hang, SendReceipt, SendNotice, Dispatch,
     Record, StorageError, InsertError, LookupError, RecordError
<1>2. ASSUME NEW q \in Requests, q # r, Submit(q) \/ Handler(q) \/ Fault(q)
      PROVE  pc'[r] = pc[r] /\ todo'[r] = todo[r]
  BY <1>2 DEF Submit, Handler, Fault, Receive, Judge, Open, Write, Insert, Lookup, Greet, Mail,
     Hang, SendReceipt, SendNotice, Dispatch, Record, StorageError, InsertError, LookupError,
     RecordError
<1>3. CASE Greet(r)
  BY <1>1, <1>3 DEF Greet, SendReceipt, Dispatch
<1>4. CASE Mail(r)
  BY <1>1, <1>4 DEF Mail, SendNotice, Dispatch
<1>5. CASE Hang(r)
  BY <1>1, <1>5 DEF Hang
<1>6. ASSUME pc[r] \in {"greet", "mail", "hung", "crashed"},
             Submit(r) \/ Handler(r) \/ Fault(r)
      PROVE  Greet(r) \/ Mail(r) \/ Hang(r)
  BY <1>6 DEF Submit, Handler, Fault, Receive, Judge, Open, Write, Insert, Lookup, Record,
     StorageError, InsertError, LookupError, RecordError
<1>7. CASE Crash
  BY <1>1, <1>7 DEF Crash, Background
<1>8. CASE AccountChange \/ Exhaust \/ UNCHANGED vars
  BY <1>8 DEF AccountChange, Exhaust, vars
<1>9. QED
  BY <1>1, <1>2, <1>3, <1>4, <1>5, <1>6, <1>7, <1>8 DEF Next, Quiescent

(* The safety half of EveryoneIsTried: a mailing that got to its end has   *)
(* called the channel for everyone it looked up.                           *)
THEOREM NobodySkipped == Spec => NobodyIsSkipped
<1>1. ASSUME NEW r \in Requests, NEW e \in Emails
      PROVE  Spec => [](pc[r] = "greet" /\ e \in todo[r]
                          => [](pc[r] \in {"record", "done"} => <<r, e>> \in tried))
  <2>1. pc[r] = "greet" /\ e \in todo[r] => Due(r, e)
    BY DEF Due
  <2>2. TypeOK /\ Due(r, e) /\ [Next]_vars => Due(r, e)'
    BY StaysDue
  <2>3. Due(r, e) => (pc[r] \in {"record", "done"} => <<r, e>> \in tried)
    BY DEF Due
  <2>4. QED
    BY <2>1, <2>2, <2>3, TypeCorrect, PTL DEF Spec
<1>2. QED
  BY <1>1 DEF NobodyIsSkipped

(* How far a submission has come.                                          *)
Stage == [idle |-> 0, receive |-> 1, read |-> 2, open |-> 3, write |-> 4, insert |-> 5,
          lookup |-> 6, greet |-> 7, mail |-> 8, record |-> 9,
          done |-> 10, aborted |-> 10, hung |-> 10, crashed |-> 11]

Advances(r) ==
    \/ Stage[pc'[r]] > Stage[pc[r]]
    \/ pc'[r] = pc[r] /\ todo'[r] \subseteq todo[r] /\ todo'[r] # todo[r]

(* Every step of a submission takes it forward, or leaves one addressee    *)
(* fewer to mail, and no other step takes it back: whatever fails, it has  *)
(* no more steps than eleven and its addressees.                           *)
SubmissionsAdvance ==
    [][\A r \in Requests : Handler(r) \/ pc'[r] # pc[r] => Advances(r)]_vars

LEMMA StepAdvances ==
    ASSUME TypeOK, [Next]_vars, NEW r \in Requests, Handler(r) \/ pc'[r] # pc[r]
    PROVE  Advances(r)
<1> USE DEF Error, Goto, Answer, Fail, Stage, Advances
<1>1. /\ pc \in [Requests -> InHandler \cup Background \cup Ended \cup {"idle", "hung"}]
      /\ todo \in [Requests -> SUBSET Emails]
  BY DEF TypeOK
<1>2. CASE Submit(r) \/ Receive(r) \/ Judge(r)
  BY <1>1, <1>2 DEF Submit, Receive, Judge
<1>3. CASE Open(r) \/ Write(r) \/ StorageError(r)
  BY <1>1, <1>3 DEF Open, Write, StorageError
<1>4. CASE Insert(r) \/ InsertError(r) \/ Lookup(r) \/ LookupError(r)
  BY <1>1, <1>4 DEF Insert, InsertError, Lookup, LookupError
<1>5. CASE Greet(r) \/ Hang(r) \/ Record(r) \/ RecordError(r)
  BY <1>1, <1>5 DEF Greet, Hang, SendReceipt, SendNotice, Dispatch, Record, RecordError
<1>6. CASE Mail(r)
  <2>1. PICK e \in todo[r] : todo' = [todo EXCEPT ![r] = @ \ {e}]
    BY <1>6 DEF Mail, SendNotice
  <2>2. pc[r] = "mail" /\ pc'[r] \in {"mail", "record"} /\ todo'[r] = todo[r] \ {e}
    BY <1>1, <1>6, <2>1 DEF Mail, SendNotice, Dispatch
  <2>3. QED
    BY <2>2
<1>7. CASE Crash /\ pc'[r] # pc[r]
  <2>1. pc[r] \in InHandler \cup Background \cup {"hung"} /\ pc'[r] = "crashed"
    BY <1>7 DEF Crash
  <2>2. QED
    BY <2>1 DEF InHandler, Background
<1>8. ASSUME NEW q \in Requests, q # r, Submit(q) \/ Handler(q) \/ Fault(q)
      PROVE  pc'[r] = pc[r]
  BY <1>1, <1>8 DEF Submit, Handler, Fault, Receive, Judge, Open, Write, Insert, Lookup, Greet,
     Mail, Hang, SendReceipt, SendNotice, Dispatch, Record, StorageError, InsertError,
     LookupError, RecordError
<1>9. ASSUME AccountChange \/ Exhaust \/ UNCHANGED vars PROVE pc'[r] = pc[r]
  BY <1>9 DEF AccountChange, Exhaust, vars
<1>10. QED
  BY <1>2, <1>3, <1>4, <1>5, <1>6, <1>7, <1>8, <1>9 DEF Next, Handler, Fault, Quiescent

(* No submission is kept busy for ever: with finitely many attorneys it    *)
(* has only so many steps.                                                 *)
THEOREM Forward == Spec => SubmissionsAdvance
<1>1. TypeOK /\ [Next]_vars =>
        [\A r \in Requests : Handler(r) \/ pc'[r] # pc[r] => Advances(r)]_vars
  BY StepAdvances
<1> QED BY <1>1, TypeCorrect, PTL DEF Spec, SubmissionsAdvance
=============================================================================
