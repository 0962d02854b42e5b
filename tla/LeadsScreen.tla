---------------------------- MODULE LeadsScreen ----------------------------
(***************************************************************************)
(* One browser on the leads page or the audit trail of the front end       *)
(* (LeadsPage.tsx, AuditTrailPage.tsx, lib/api.ts), composed with the      *)
(* server's side of its requests (LeadPages).  The user changes the filter *)
(* and the page while earlier requests are still under way; every answer   *)
(* that arrives is shown, in whatever order they arrive; rows are marked   *)
(* in the meantime, by this user and by others.                            *)
(*                                                                         *)
(* Each change of filter or page renders once and starts one request       *)
(* (React batches the two assignments of handleFilterChange).  StrictMode's*)
(* second request on mounting, in development builds, is left out.         *)
(***************************************************************************)
EXTENDS LeadPages

CONSTANTS Filters,    \* the filter buttons that the user presses, "ALL" included
          None

Answer == [query : Query, total : Nat, items : Items]

ASSUME FiltersAssumption == Filters \subseteq Filter

ASSUME NoneAssumption == None \notin Slots /\ None \notin Answer

VARIABLES
    shown,     \* the component's data: the answer it shows, or None
    chosen,    \* its filter and page
    loading, error,
    newest,    \* the request last started, or None: the page is not mounted
    inOrder,   \* no older answer has arrived after the newest one's
    patch,     \* the PATCH of each lead: none, sent, done or failed
    scan       \* a reading from the first page on: see below

screenVars == <<shown, chosen, loading, error, newest, inOrder, patch, scan>>
vars == <<pageVars, screenVars>>

(* A reading: the user waits for every answer and only presses Next.  It   *)
(* began with the rows that matched then; `unseen' are those not shown     *)
(* since, `left' is how many rows stopped matching since, and `late' how   *)
(* many began to, after the count of the request last started.             *)
NoScan == [on |-> FALSE, unseen |-> {}, left |-> 0, late |-> 0]

Unmounted ==
    /\ shown = None /\ chosen = NoQuery
    /\ loading = FALSE /\ error = FALSE
    /\ newest = None /\ inOrder = TRUE
    /\ patch = [r \in Row |-> "none"]
    /\ scan = NoScan

Init == PagesInit /\ Unmounted

Mounted == newest # None

TotalPages == IF shown = None THEN 0 ELSE (shown.total + Limit - 1) \div Limit

(* fetchLeads, with the filter and page it closed over.                    *)
SetLoading == loading' = TRUE /\ error' = FALSE

FetchStale(query) ==
    /\ CanAsk
    /\ LET f == CHOOSE f \in Slots \ Waiting : TRUE
       IN  Request(f, [query EXCEPT !.page = chosen.page]) /\ newest' = f
    /\ chosen' = query
    /\ SetLoading
    /\ inOrder' = TRUE
    /\ UNCHANGED <<users, view, tag, shown, patch>>
Fetch(query) ==
    /\ CanAsk
    /\ LET f == CHOOSE f \in Slots \ Waiting : TRUE
       IN  Request(f, query) /\ newest' = f
    /\ chosen' = query
    /\ SetLoading
    /\ inOrder' = TRUE
    /\ UNCHANGED <<users, view, tag, shown, patch>>

BeginScan(filter) == scan' = [NoScan EXCEPT !.on = TRUE, !.unseen = Matching(filter)]
-----------------------------------------------------------------------------
(* The user.                                                               *)

(* Logging in again remounts the page.                                     *)
Mount ==
    /\ ~Mounted
    /\ users[view.viewer] = "active"
    /\ Fetch(NoQuery)
    /\ BeginScan("ALL")

(* The leads page has nothing to press but Retry until it has data.        *)
Usable == Mounted /\ (view.table = "leads" => shown # None)

ChangeFilter(filter) ==
    /\ Usable
    /\ filter \in TagsOf[view.table] \cup {"ALL"}
    /\ [filter |-> filter, page |-> 0] # chosen
    /\ Fetch([filter |-> filter, page |-> 0])
    /\ IF Waiting = {} THEN BeginScan(filter) ELSE scan' = NoScan

Next1 ==
    /\ Usable
    /\ chosen.page < TotalPages - 1
    /\ Fetch([chosen EXCEPT !.page = chosen.page + 1])
    /\ scan' = IF Waiting = {} /\ ~error /\ scan.on THEN [scan EXCEPT !.late = 0] ELSE NoScan

Previous ==
    /\ Usable
    /\ TotalPages > 1 /\ chosen.page > 0
    /\ Fetch([chosen EXCEPT !.page = chosen.page - 1])
    /\ scan' = NoScan

Retry ==
    /\ Mounted /\ error
    /\ Fetch(chosen)
    /\ scan' = IF Waiting = {} /\ scan.on THEN [scan EXCEPT !.late = 0] ELSE NoScan

(* Bound: one PATCH in flight.  The page disables the button of the lead   *)
(* last pressed only; others may be pressed, and are marked the same way.  *)
PressMarkOptimistic(r) ==
    /\ Usable /\ shown # None
    /\ r \in DOMAIN shown.items /\ shown.items[r] = "PENDING"
    /\ \A k \in Row : patch[k] = "none"
    /\ patch' = [patch EXCEPT ![r] = "sent"]
    /\ shown' = [shown EXCEPT !.items[r] = "REACHED_OUT"]
    /\ UNCHANGED <<pageVars, chosen, loading, error, newest, inOrder, scan>>
PressMark(r) ==
    /\ Usable /\ shown # None
    /\ r \in DOMAIN shown.items /\ shown.items[r] = "PENDING"
    /\ \A k \in Row : patch[k] = "none"
    /\ patch' = [patch EXCEPT ![r] = "sent"]
    /\ UNCHANGED <<pageVars, shown, chosen, loading, error, newest, inOrder, scan>>
-----------------------------------------------------------------------------
(* Answers.                                                                *)

(* A 401 clears the token and leaves for the login page: every answer that *)
(* is still to come finds nobody.  A PATCH on its way may still be done,   *)
(* like anybody else's.                                                    *)
SignOut ==
    /\ slot' = [f \in Slots |-> Free]
    /\ shown' = None /\ chosen' = NoQuery
    /\ loading' = FALSE /\ error' = FALSE
    /\ newest' = None /\ inOrder' = TRUE
    /\ patch' = [r \in Row |-> "none"]
    /\ scan' = NoScan
    /\ UNCHANGED <<users, view, tag>>

(* The rest of fetchLeads when its answer arrives: setData or setError,    *)
(* and setLoading(false) in any case.                                      *)
DoneLoadingIfOk(f) == loading' = (slot[f].st # "ok")
DoneLoading(f) == loading' = FALSE

See(f) ==
    IF scan.on THEN [scan EXCEPT !.unseen = @ \ DOMAIN slot[f].items] ELSE scan

Arrive(f) ==
    /\ \/ /\ slot[f].st = "ok"
          /\ shown' = [query |-> slot[f].query, total |-> slot[f].total, items |-> slot[f].items]
          /\ scan' = See(f)
          /\ UNCHANGED error
       \/ /\ slot[f].st = "failed"
          /\ error' = TRUE
          /\ UNCHANGED <<shown, scan>>
    /\ DoneLoading(f)
    /\ inOrder' = (f = newest)
    /\ slot' = [slot EXCEPT ![f] = Free]
    /\ UNCHANGED <<users, view, tag, chosen, newest, patch>>

Deliver(f) == Arrive(f) \/ (slot[f].st = "unauthorized" /\ SignOut)

(* What a reading is told of a change of the rows.                         *)
Watch ==
    LET before == Matching(chosen.filter)
        after  == MatchingIn(tag', chosen.filter)
        split  == \E f \in Slots : slot[f].st = "counted"
    IN  scan' = IF ~scan.on THEN scan
                ELSE [scan EXCEPT
                        !.left = @ + Cardinality(before \ after),
                        !.late = @ + IF split THEN Cardinality(after \ before) ELSE 0]

(* The PATCH at the server, as LeadUpdate has it: it may be refused, or    *)
(* fail before or after its commit.                                        *)
Patch(r) ==
    /\ patch[r] = "sent"
    /\ \/ /\ LeadsUpdatable(users, Ctx)
          /\ tag' = [tag EXCEPT ![r] = "REACHED_OUT"]
          /\ patch' = [patch EXCEPT ![r] = "done"]
       \/ /\ patch' = [patch EXCEPT ![r] = "failed"]
          /\ \/ UNCHANGED tag
             \/ LeadsUpdatable(users, Ctx) /\ tag' = [tag EXCEPT ![r] = "REACHED_OUT"]
    /\ Watch
    /\ UNCHANGED <<users, view, slot, shown, chosen, loading, error, newest, inOrder>>

Unauthorized(r) ==
    patch[r] = "sent" /\ ~UserVisible(users, Ctx, view.viewer) /\ SignOut

(* The rest of markReachedOut: the answer replaces the row wherever it is  *)
(* shown by now.                                                           *)
Replaced(r) ==
    IF shown # None /\ r \in DOMAIN shown.items
    THEN [shown EXCEPT !.items[r] = "REACHED_OUT"] ELSE shown

ArriveMark(r) ==
    /\ \/ patch[r] = "done" /\ shown' = Replaced(r) /\ UNCHANGED error
       \/ patch[r] = "failed" /\ error' = TRUE /\ UNCHANGED shown
    /\ patch' = [patch EXCEPT ![r] = "none"]
    /\ UNCHANGED <<pageVars, chosen, loading, newest, inOrder, scan>>
-----------------------------------------------------------------------------
Others(r) ==
    /\ Insert(r) \/ (view.table = "leads" /\ MarkByOther(r))
    /\ Watch
    /\ UNCHANGED <<shown, chosen, loading, error, newest, inOrder, patch>>

Revoke ==
    /\ AccountChange
    /\ scan' = NoScan
    /\ UNCHANGED <<shown, chosen, loading, error, newest, inOrder, patch>>

ServeOne(f) == Serve(f) /\ UNCHANGED screenVars
BreakOne(f) == Break(f) /\ UNCHANGED screenVars

(* Everything has been answered, and the user reads.                       *)
Quiescent ==
    /\ Waiting = {} /\ \A r \in Row : patch[r] = "none"
    /\ UNCHANGED vars

Next ==
    \/ Mount
    \/ \E filter \in Filters : ChangeFilter(filter)
    \/ Next1
    \/ Previous
    \/ Retry
    \/ \E f \in Slots : ServeOne(f) \/ BreakOne(f) \/ Deliver(f)
    \/ \E r \in Row : PressMark(r) \/ Patch(r) \/ Unauthorized(r) \/ ArriveMark(r) \/ Others(r)
    \/ Revoke
    \/ Quiescent

Spec == Init /\ [][Next]_vars

(* The service and the network do not stop while a request is under way;   *)
(* which one they turn to next is not said.                                *)
FairSpec == Spec /\ WF_vars(\E f \in Slots : ServeOne(f) \/ Deliver(f))
-----------------------------------------------------------------------------
(* Properties.                                                             *)

TypeOK ==
    /\ users \in [Users -> AccountStatus]
    /\ view \in Views
    /\ tag \in [Row -> {"absent"} \cup Tag]
    /\ slot \in [Slots -> [st : Status, query : Query, total : Nat, items : Items]]
    /\ shown \in Answer \cup {None}
    /\ chosen \in Query
    /\ loading \in BOOLEAN /\ error \in BOOLEAN /\ inOrder \in BOOLEAN
    /\ newest \in Slots \cup {None}
    /\ patch \in [Row -> {"none", "sent", "done", "failed"}]

(* The user has read to the last page: Next is not offered any more.       *)
ReadToTheEnd ==
    /\ scan.on /\ Waiting = {} /\ ~error
    /\ shown # None /\ chosen.page >= TotalPages - 1

(* A user who reads a list from its first to its last page misses no more  *)
(* of the rows that were there from the beginning than rows left the list  *)
(* in the meantime (each moves the later pages up by one), or came between *)
(* the last count and the last page.  Without such changes, inserts in any *)
(* order only make rows appear twice.                                      *)
ScanMissesFew ==
    ReadToTheEnd =>
        Cardinality(scan.unseen \cap Matching(chosen.filter)) <= scan.left + scan.late

(* A lead shown as reached out is reached out, whatever older answers,     *)
(* failed markings and other people's markings come together.              *)
ReachedOutIsTrue ==
    shown # None =>
        \A r \in DOMAIN shown.items :
            shown.items[r] = "REACHED_OUT" => tag[r] = "REACHED_OUT"

(* When all answers are in, the newest request's last, and no error is     *)
(* shown, then the screen shows the filter and page it says it shows.      *)
SettledShowsChoice ==
    Mounted /\ Waiting = {} /\ inOrder /\ ~error
        => shown # None /\ shown.query = chosen

(* The page does not stay in its loading state: some answer, an error or   *)
(* the login page ends it, whoever is revoked and whatever fails.          *)
LoadingEnds == loading ~> ~loading
-----------------------------------------------------------------------------
(* The inductive invariant.                                                *)

(* What an answer says of reached-out leads stays true while it travels,   *)
(* because REACHED_OUT is never left.                                      *)
SaysTrue(items) ==
    \A r \in DOMAIN items : items[r] = "REACHED_OUT" => tag[r] = "REACHED_OUT"

AnswersAreTrue ==
    /\ \A f \in Slots : SaysTrue(slot[f].items)
    /\ shown # None => SaysTrue(shown.items)
    /\ \A r \in Row : patch[r] = "done" => tag[r] = "REACHED_OUT"

(* The newest request asks for what is chosen; once it is answered, and    *)
(* nothing older came after it, its answer is what is shown.               *)
NewestIsChosen ==
    Mounted =>
        /\ slot[newest].st # "free" => slot[newest].query = chosen
        /\ slot[newest].st = "free" /\ inOrder /\ ~error
             => shown # None /\ shown.query = chosen

IInv == TypeOK /\ AnswersAreTrue /\ NewestIsChosen
-----------------------------------------------------------------------------
(* Why a reading misses few: the rows that are newer than the next page,   *)
(* and have not been shown, got there because rows above them left.        *)

(* The page of the request last started has been read.                     *)
PageIn == slot[newest].st = "ok" \/ (slot[newest].st = "free" /\ ~error)

TotalSaid == IF slot[newest].st = "ok" THEN slot[newest].total ELSE shown.total

(* Not shown, nor on a page that is on its way.                            *)
Unmet == scan.unseen \ (IF slot[newest].st = "ok" THEN DOMAIN slot[newest].items ELSE {})

(* Those of the rows that a page from offset n of the list on leaves out.  *)
Passed(rows, list, n) == {r \in rows \cap list : Newer(r, list) < n}

Listed == Matching(chosen.filter)

ScanType ==
    /\ scan \in [on : BOOLEAN, unseen : SUBSET Row, left : Nat, late : Nat]
    /\ ~Mounted => Waiting = {}

(* A reading has one request at a time, which is the newest.  A row that   *)
(* stopped matching never matches again.                                   *)
ReadingAlone == Mounted /\ inOrder /\ Waiting \subseteq {newest}

UnseenStay ==
    \A r \in scan.unseen :
        /\ tag[r] # "absent"
        /\ chosen.filter = "REACHED_OUT" => tag[r] = "REACHED_OUT"

(* Between its statements the viewer stays active, and the count is out by *)
(* the rows that came since.                                               *)
CountHolds ==
    /\ slot[newest].st \in {"admitted", "counted"} => users[view.viewer] = "active"
    /\ slot[newest].st = "counted" =>
         Cardinality(Listed) <= slot[newest].total + scan.late

(* Of the rows not met, those the offset has passed are no more than left; *)
(* when the page is in and the count says it is the last, there are no     *)
(* others but those that came late.                                        *)
FewPassed ==
    /\ Cardinality(Passed(scan.unseen, Listed, chosen.page * Limit)) <= scan.left
    /\ PageIn => Cardinality(Passed(Unmet, Listed, (chosen.page + 1) * Limit)) <= scan.left
    /\ PageIn /\ TotalSaid <= (chosen.page + 1) * Limit =>
         Cardinality(Unmet \cap Listed) <= scan.left + scan.late

ScanInv ==
    /\ ScanType
    /\ scan.on => ReadingAlone /\ UnseenStay /\ CountHolds /\ FewPassed
=============================================================================
