------------------------------ MODULE DbSession ------------------------------
(***************************************************************************)
(* db/session.py: the sessions of get_db and of the audit service share    *)
(* one pool of connections, and the row-level-security context of a        *)
(* session is a pair of settings of its connection, made with SET.  Such a *)
(* setting is undone when its transaction rolls back, and outlives the     *)
(* session once a transaction committed: the next user of the connection   *)
(* finds it there.                                                         *)
(***************************************************************************)
CONSTANTS Conns,      \* pooled connections
          Sessions,   \* tasks that open one session after another
          Users, Admins,
          None

ASSUME CallersAssumption == Admins \subseteq Users /\ None \notin Users \cup Conns

VARIABLES
    kept,     \* per connection: the settings that a rollback falls back to
    live,     \* per connection: the settings statements run under
    pc,       \* per session: idle, uid, role or ready
    caller,   \* per session: the user of the request's token, or None
    conn,     \* per session: the connection it holds, or None
    ran       \* history: the settings the session's last statement ran under

vars == <<kept, live, pc, caller, conn, ran>>

Roles    == {"ADMIN", "ATTORNEY"}
RoleOf(u) == IF u \in Admins THEN "ADMIN" ELSE "ATTORNEY"
CtxOf(u) == [uid |-> u, role |-> RoleOf(u)]
Blank    == [uid |-> None, role |-> None]
Context  == [uid : Users \cup {None}, role : Roles \cup {None}]

Init ==
    /\ kept = [c \in Conns |-> Blank]
    /\ live = [c \in Conns |-> Blank]
    /\ pc = [s \in Sessions |-> "idle"]
    /\ caller = [s \in Sessions |-> None]
    /\ conn = [s \in Sessions |-> None]
    /\ ran = [s \in Sessions |-> Blank]

Free(c) == \A s \in Sessions : conn[s] # c

(* engine.connect(), which waits for a free connection.  A request without *)
(* a valid token, and every session of the audit service, sets nothing and *)
(* is ready at once.                                                       *)
Connect(s) ==
    /\ pc[s] = "idle"
    /\ \E c \in Conns, u \in Users \cup {None} :
         /\ Free(c)
         /\ conn' = [conn EXCEPT ![s] = c]
         /\ caller' = [caller EXCEPT ![s] = u]
         /\ pc' = [pc EXCEPT ![s] = IF u = None THEN "ready" ELSE "uid"]
    /\ ran' = [ran EXCEPT ![s] = Blank]
    /\ UNCHANGED <<kept, live>>

(* SET app.current_user_id                                                 *)
SetUserIfUnset(s) ==
    /\ pc[s] = "uid"
    /\ live' = [live EXCEPT ![conn[s]].uid = IF @ = None THEN caller[s] ELSE @]
    /\ pc' = [pc EXCEPT ![s] = "role"]
    /\ UNCHANGED <<kept, caller, conn, ran>>
SetUser(s) ==
    /\ pc[s] = "uid"
    /\ live' = [live EXCEPT ![conn[s]].uid = caller[s]]
    /\ pc' = [pc EXCEPT ![s] = "role"]
    /\ UNCHANGED <<kept, caller, conn, ran>>

(* SET app.current_user_role: the role claim of the token, which login     *)
(* copied from the user.                                                   *)
SetRoleAdminOnly(s) ==
    /\ pc[s] = "role"
    /\ live' = [live EXCEPT ![conn[s]].role =
                   IF caller[s] \in Admins THEN "ADMIN" ELSE @]
    /\ pc' = [pc EXCEPT ![s] = "ready"]
    /\ UNCHANGED <<kept, caller, conn, ran>>
SetRole(s) ==
    /\ pc[s] = "role"
    /\ live' = [live EXCEPT ![conn[s]].role = RoleOf(caller[s])]
    /\ pc' = [pc EXCEPT ![s] = "ready"]
    /\ UNCHANGED <<kept, caller, conn, ran>>

(* A statement of the handler, before or after a commit: update_lead_state *)
(* commits and then refreshes on the same connection.                      *)
Execute(s) ==
    /\ pc[s] = "ready"
    /\ ran' = [ran EXCEPT ![s] = live[conn[s]]]
    /\ UNCHANGED <<kept, live, pc, caller, conn>>

CommitLocal(s) ==
    /\ pc[s] = "ready"
    /\ live' = [live EXCEPT ![conn[s]] = kept[conn[s]]]
    /\ UNCHANGED <<kept, pc, caller, conn, ran>>
Commit(s) ==
    /\ pc[s] = "ready"
    /\ kept' = [kept EXCEPT ![conn[s]] = live[conn[s]]]
    /\ UNCHANGED <<live, pc, caller, conn, ran>>

(* Leaving the session, also by an exception in any statement, rolls back  *)
(* what is not committed.  The connection goes back to the pool, or is     *)
(* closed (overflow, broken) and replaced by a new one.                    *)
Close(s) ==
    /\ pc[s] # "idle"
    /\ \/ live' = [live EXCEPT ![conn[s]] = kept[conn[s]]] /\ UNCHANGED kept
       \/ /\ live' = [live EXCEPT ![conn[s]] = Blank]
          /\ kept' = [kept EXCEPT ![conn[s]] = Blank]
    /\ pc' = [pc EXCEPT ![s] = "idle"]
    /\ conn' = [conn EXCEPT ![s] = None]
    /\ UNCHANGED <<caller, ran>>

Next ==
    \E s \in Sessions :
        \/ Connect(s)
        \/ SetUser(s)
        \/ SetRole(s)
        \/ Execute(s)
        \/ Commit(s)
        \/ Close(s)

Spec == Init /\ [][Next]_vars
-----------------------------------------------------------------------------
TypeOK ==
    /\ kept \in [Conns -> Context]
    /\ live \in [Conns -> Context]
    /\ pc \in [Sessions -> {"idle", "uid", "role", "ready"}]
    /\ caller \in [Sessions -> Users \cup {None}]
    /\ conn \in [Sessions -> Conns \cup {None}]
    /\ ran \in [Sessions -> Context]
    /\ \A s \in Sessions : pc[s] = "idle" <=> conn[s] = None

(* Whatever earlier sessions committed on the connection, the statements   *)
(* of an authenticated request run as its caller: also those after its own *)
(* commit, which the refresh of update_lead_state depends on.              *)
CallerContext ==
    \A s \in Sessions :
        pc[s] = "ready" /\ caller[s] # None
            => /\ live[conn[s]] = CtxOf(caller[s])
               /\ ran[s] \in {Blank, CtxOf(caller[s])}

(* What a session finds on its connection is never one user's id with      *)
(* another user's role.                                                    *)
NoMixedContext ==
    \A s \in Sessions :
        pc[s] = "ready" => live[conn[s]] \in {Blank} \cup {CtxOf(u) : u \in Users}

(* "SET LOCAL", "scoped to the current transaction": a session without a   *)
(* caller has no context.                                                  *)
AnonymousIsBlank ==
    \A s \in Sessions : pc[s] = "ready" /\ caller[s] = None => live[conn[s]] = Blank
-----------------------------------------------------------------------------
(* The inductive invariant: a connection has one holder, and between       *)
(* sessions only whole contexts are left on it.                            *)
Whole == {Blank} \cup {CtxOf(u) : u \in Users}

OneHolder ==
    \A s, t \in Sessions : conn[s] = conn[t] /\ conn[s] # None => s = t

ContextInv ==
    /\ \A c \in Conns : kept[c] \in Whole /\ (Free(c) => live[c] = kept[c])
    /\ \A s \in Sessions :
         /\ pc[s] \in {"uid", "role"} => caller[s] \in Users /\ ran[s] = Blank
         /\ pc[s] = "role" => live[conn[s]].uid = caller[s]
         /\ pc[s] = "ready" => live[conn[s]] \in Whole

SessionInv == TypeOK /\ OneHolder /\ ContextInv /\ CallerContext
=============================================================================
