----------------------------- MODULE LeadPages -----------------------------
(***************************************************************************)
(* The two paged lists of the service, GET /api/leads and                  *)
(* GET /api/admin/audit-logs: the caller is checked, the matching rows are *)
(* counted, and one page of them is read, newest first, by OFFSET and      *)
(* LIMIT.  These are three statements, and rows come, change and hide      *)
(* between them.                                                           *)
(*                                                                         *)
(* A row is the rank of its created_at.  The application takes that time   *)
(* before the commit, so a row may appear below others that are there      *)
(* already; no two rows have the same time.  Rows are never deleted.       *)
(***************************************************************************)
EXTENDS Accounts, RowSecurity, Naturals, FiniteSets

CONSTANTS MaxRows,    \* bound: rows of the table
          Limit,      \* rows of a page
          Slots,      \* requests for a page in flight
          Views       \* the lists, who looks at them, and within which bounds

Row == 1..MaxRows

(* Bounds of a behaviour: the rows that can come to exist, and the         *)
(* requests in flight at once.                                             *)
View == [table : {"leads", "audit"}, viewer : Users, rows : 0..MaxRows, requests : Nat]

ASSUME SizesAssumption == MaxRows \in Nat /\ Limit \in Nat \ {0}

(* The audit page is in the menu of admins only.                           *)
ASSUME ViewsAssumption ==
    /\ Views \subseteq View
    /\ \A w \in Views : w.table = "audit" => w.viewer \in Admins

VARIABLES
    view,      \* the list and the viewer of this behaviour
    tag,       \* each row's state or entity type
    slot       \* each request: where it is, its query, what it has found

pageVars == <<users, view, tag, slot>>

TagsOf == [leads |-> {"PENDING", "REACHED_OUT"}, audit |-> {"lead", "user"}]
Tag    == {"PENDING", "REACHED_OUT", "lead", "user"}
Filter == Tag \cup {"ALL"}
Query  == [filter : Filter, page : Nat]
NoQuery == [filter |-> "ALL", page |-> 0]

(* A page: what each of its rows was when it was read.                     *)
Items  == UNION {[rows -> Tag] : rows \in SUBSET Row}
Status == {"free", "sent", "admitted", "counted", "ok", "failed", "unauthorized"}
Free   == [st |-> "free", query |-> NoQuery, total |-> 0,
           items |-> [r \in {} |-> "PENDING"]]

PagesInit ==
    /\ view \in Views
    /\ users = [u \in Users |-> IF u = view.viewer THEN "active" ELSE "absent"]
    /\ tag \in [Row -> {"absent"} \cup TagsOf[view.table]]
    /\ \A r \in Row : r > view.rows => tag[r] = "absent"
    /\ slot = [f \in Slots |-> Free]
-----------------------------------------------------------------------------
Ctx == [uid  |-> view.viewer,
        role |-> IF view.viewer \in Admins THEN "ADMIN" ELSE "ATTORNEY"]

MatchingIn(rows, filter) ==
    {r \in Row : rows[r] # "absent" /\ (filter = "ALL" \/ rows[r] = filter)}
Matching(filter) == MatchingIn(tag, filter)

(* What a statement of the viewer's session sees of them.                  *)
Selected(filter) ==
    IF IF view.table = "leads" THEN LeadsVisible(users, Ctx) ELSE AuditVisible(Ctx)
    THEN Matching(filter) ELSE {}

(* ORDER BY created_at DESC LIMIT ... OFFSET ...                           *)
Newer(r, rows) == Cardinality({k \in rows : k > r})
PageOffByOne(rows, page) ==
    {r \in rows : Newer(r, rows) \in (page * Limit + page)..(page * Limit + page + Limit - 1)}
Page(rows, page) ==
    {r \in rows : Newer(r, rows) \in (page * Limit)..(page * Limit + Limit - 1)}

Waiting == {f \in Slots : slot[f].st # "free"}

CanAsk == Waiting # Slots /\ Cardinality(Waiting) < view.requests

Request(f, query) == slot' = [slot EXCEPT ![f] = [Free EXCEPT !.st = "sent", !.query = query]]

Admitted(f) == slot' = [slot EXCEPT ![f].st = "admitted"]
Refuse(f, st) == slot' = [slot EXCEPT ![f] = [Free EXCEPT !.st = st, !.query = slot[f].query]]

(* get_current_user, or require_admin for the audit trail.                 *)
Admit(f) ==
    LET visible == UserVisible(users, Ctx, view.viewer)
        active  == users[view.viewer] = "active"
    IN  /\ slot[f].st = "sent"
        /\ \/ ~visible /\ Refuse(f, "unauthorized")
           \/ visible /\ ~active /\ Refuse(f, "failed")
           \/ visible /\ active /\ Admitted(f)
        /\ UNCHANGED <<users, view, tag>>

Count(f) ==
    /\ slot[f].st = "admitted"
    /\ slot' = [slot EXCEPT ![f].st = "counted",
                            ![f].total = Cardinality(Selected(slot[f].query.filter))]
    /\ UNCHANGED <<users, view, tag>>

Read(f) ==
    LET q == slot[f].query
    IN  /\ slot[f].st = "counted"
        /\ slot' = [slot EXCEPT ![f].st = "ok",
                                ![f].items = [r \in Page(Selected(q.filter), q.page) |-> tag[r]]]
        /\ UNCHANGED <<users, view, tag>>

(* A statement fails, or the answer is lost on its way.                    *)
Break(f) ==
    /\ slot[f].st \in {"sent", "admitted", "counted", "ok"}
    /\ Refuse(f, "failed")
    /\ UNCHANGED <<users, view, tag>>

Serve(f) == Admit(f) \/ Count(f) \/ Read(f)
-----------------------------------------------------------------------------
(* What others do to the table.                                            *)

Insert(r) ==
    /\ tag[r] = "absent" /\ r <= view.rows
    /\ \E t \in TagsOf[view.table] :
         /\ view.table = "leads" => t = "PENDING"
         /\ tag' = [tag EXCEPT ![r] = t]
    /\ UNCHANGED <<users, view, slot>>

MarkLead(r) == tag[r] = "PENDING" /\ tag' = [tag EXCEPT ![r] = "REACHED_OUT"]

MarkByOther(r) == MarkLead(r) /\ UNCHANGED <<users, view, slot>>

AccountChange ==
    /\ \/ DeactivateUser(view.viewer)
       \/ ReactivateUser(view.viewer)
       \/ DeleteUser(view.viewer)
    /\ UNCHANGED <<view, tag, slot>>
=============================================================================
