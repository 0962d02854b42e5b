------------------------------ MODULE Accounts ------------------------------
(***************************************************************************)
(* The users table as the rest of the service meets it: each account is    *)
(* not yet created, active, deactivated or deleted.  Only the committed    *)
(* effect of each admin operation (auth_service.py) is modelled here;      *)
(* UserAdmin has the handlers that race to produce these effects, and      *)
(* implements AccountsSpec.  Account ids are random UUIDs, so a deleted    *)
(* account never comes back; roles never change.  Modules that need        *)
(* accounts as an environment extend this one; the admins who issue the    *)
(* operations need not be among Users.                                     *)
(***************************************************************************)
CONSTANTS Users,   \* account ids
          Admins   \* the accounts whose role is ADMIN

ASSUME AdminsAssumption == Admins \subseteq Users

VARIABLE users     \* the status of every account

AccountStatus == {"absent", "active", "inactive", "deleted"}

RowExists(u) == users[u] \in {"active", "inactive"}

(* The accounts seed.py and earlier sessions left behind. *)
AccountsInit == users \in [Users -> {"absent", "active"}]

SetStatus(u, from, to) ==
    /\ users[u] \in from
    /\ users' = [users EXCEPT ![u] = to]

RegisterUser(u)   == SetStatus(u, {"absent"}, "active")
DeactivateUser(u) == SetStatus(u, {"active"}, "inactive")
ReactivateUser(u) == SetStatus(u, {"inactive"}, "active")
DeleteUser(u)     == SetStatus(u, {"active", "inactive"}, "deleted")

(* What the table promises: an account is created once, goes back and      *)
(* forth between active and inactive, and never returns from deletion.     *)
AccountsNext ==
    \E u \in Users :
        \/ RegisterUser(u)
        \/ DeactivateUser(u)
        \/ ReactivateUser(u)
        \/ DeleteUser(u)

AccountsSpec == AccountsInit /\ [][AccountsNext]_users
=============================================================================
