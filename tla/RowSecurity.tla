----------------------------- MODULE RowSecurity -----------------------------
(***************************************************************************)
(* The row-level-security policies of migration 006, as predicates on the  *)
(* users table `tbl' (account -> status) and the session's context `ctx':  *)
(* ctx.uid is app.current_user_id and ctx.role is app.current_user_role.   *)
(* Both tables FORCE row security, and the application's role is not a     *)
(* superuser, so the sub-select inside the leads policies sees only the    *)
(* user rows the users policies let through.                               *)
(***************************************************************************)
Stored(tbl, u) == tbl[u] \in {"active", "inactive"}

(* users_admin_all, or users_self_select. *)
UserVisibleToActive(tbl, ctx, u) ==
    /\ Stored(tbl, u)
    /\ \/ ctx.role = "ADMIN" /\ tbl[ctx.uid] = "active"
       \/ u = ctx.uid /\ tbl[u] = "active"
UserVisible(tbl, ctx, u) ==
    /\ Stored(tbl, u)
    /\ \/ ctx.role = "ADMIN"
       \/ u = ctx.uid /\ tbl[u] = "active"

(* leads_active_users_select and leads_active_users_update: the same       *)
(* predicate, whatever the lead row.                                       *)
LeadsVisible(tbl, ctx) ==
    \E u \in DOMAIN tbl :
        UserVisible(tbl, ctx, u) /\ u = ctx.uid /\ tbl[u] = "active"

LeadsUpdatable(tbl, ctx) == LeadsVisible(tbl, ctx)

(* audit_logs_admin_select: the token's role alone, whatever the account.  *)
AuditVisible(ctx) == ctx.role = "ADMIN"
=============================================================================
