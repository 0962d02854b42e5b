------------------------------ MODULE MCAccess ------------------------------
(* A small instance of Access for TLC: an email that one admin account     *)
(* after another may have, and one that a second admin or the seeded       *)
(* attorney may.                                                           *)
EXTENDS Access, TLC

CONSTANTS root, next, dean, eva, mail1, mail2, p1, p2, v1, v2

MCAdmins  == {root, next, dean}
MCEmailOf == [u \in Users |-> IF u \in {dean, eva} THEN mail2 ELSE mail1]
MCSettings == {[admin |-> mail1, attorney |-> mail2]}

(* Processes, browsers, and the two accounts with one email and role.      *)
Symmetry == Permutations({p1, p2}) \cup Permutations({v1, v2})
              \cup Permutations({root, next})
=============================================================================
