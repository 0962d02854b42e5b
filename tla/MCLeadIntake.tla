---------------------------- MODULE MCLeadIntake ----------------------------
(* Small instances of LeadIntake for TLC: bob2 is registered under bob's   *)
(* email, and the fallback is ann's address.                               *)
EXTENDS LeadIntake

CONSTANTS root, ann, bob, bob2, rootMail, annMail, bobMail, r1

EmailOfUser ==
    [u \in Users |-> CASE u = root -> rootMail [] u = ann -> annMail [] OTHER -> bobMail]
=============================================================================
