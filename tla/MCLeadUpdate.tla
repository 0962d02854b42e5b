---------------------------- MODULE MCLeadUpdate ----------------------------
(* Small instances of LeadUpdate for TLC.                                  *)
EXTENDS LeadUpdate, TLC

CONSTANTS alice, root,       \* an attorney and an admin
          r1, r2, r3, l1, l2

MCUsers  == {alice, root}
MCAdmins == {root}

(* Requests, and leads, differ in nothing but their identity.              *)
Symmetry == Permutations(Requests) \cup Permutations(Leads)
=============================================================================
