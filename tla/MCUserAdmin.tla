---------------------------- MODULE MCUserAdmin ----------------------------
(* Small instances of UserAdmin for TLC: two admins, and two accounts that *)
(* would have the same email.                                              *)
EXTENDS UserAdmin

CONSTANTS root, dean, eva1, eva2, mail1, mail2, mail3, r1, r2

MCAdmins  == {root, dean}
MCEmailOf == [u \in Users |-> CASE u = root -> mail1
                               [] u = dean -> mail2
                               [] OTHER    -> mail3]
=============================================================================
