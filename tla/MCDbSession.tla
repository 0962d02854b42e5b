----------------------------- MODULE MCDbSession -----------------------------
(* Small instances of DbSession for TLC.                                   *)
EXTENDS DbSession, TLC

CONSTANTS alice, root, c1, c2, s1, s2, s3

MCUsers  == {alice, root}
MCAdmins == {root}

(* Connections, and sessions, differ in nothing but their identity.        *)
Symmetry == Permutations(Conns) \cup Permutations(Sessions)
=============================================================================
