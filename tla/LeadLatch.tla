----------------------------- MODULE LeadLatch -----------------------------
(***************************************************************************)
(* What the lead table promises its readers, whatever handlers race on it: *)
(* a lead is reached out once and for all; the first contact is stamped    *)
(* and credited to an existing account in one atomic change; a later       *)
(* contact takes a new stamp and keeps the credit or moves it to another   *)
(* existing account; deleting an account takes its credits away and        *)
(* nothing else.  LeadUpdate implements this specification.                *)
(***************************************************************************)
EXTENDS Accounts

CONSTANTS Leads, Stamps, None

VARIABLE leads

Unused(s) == \A l \in Leads : leads[l].at # s

Init ==
    /\ AccountsInit
    /\ leads = [l \in Leads |-> [state |-> "PENDING", at |-> None, by |-> None]]

(* The stamp is new; the credit goes to an account that exists, or, on a   *)
(* lead already reached out, may stay as it is.                            *)
Contact(l) ==
    \E s \in Stamps, by \in Users \cup {None} :
        /\ Unused(s)
        /\ \/ by \in Users /\ RowExists(by)
           \/ leads[l].state = "REACHED_OUT" /\ by = leads[l].by
        /\ leads' = [leads EXCEPT ![l] =
               [state |-> "REACHED_OUT", at |-> s, by |-> by]]
        /\ UNCHANGED users

Change(u) ==
    \/ /\ RegisterUser(u) \/ DeactivateUser(u) \/ ReactivateUser(u)
       /\ UNCHANGED leads
    \/ /\ DeleteUser(u)
       /\ leads' = [l \in Leads |->
              IF leads[l].by = u THEN [leads[l] EXCEPT !.by = None] ELSE leads[l]]

Next == (\E l \in Leads : Contact(l)) \/ (\E u \in Users : Change(u))

Spec == Init /\ [][Next]_<<users, leads>>
=============================================================================
