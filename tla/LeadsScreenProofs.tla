------------------------- MODULE LeadsScreenProofs -------------------------
(***************************************************************************)
(* What the screen says is true, and answers the choice it was made for,   *)
(* and a reading of its pages misses few rows: for any number of rows,     *)
(* requests in flight, filters and page size.                              *)
(***************************************************************************)
EXTENDS LeadsScreen, FiniteSetTheorems, TLAPS

(* Counting and reading a page give numbers and rows of the table.         *)
LEMMA SelectedIsRows ==
    ASSUME NEW filter
    PROVE  /\ Selected(filter) \subseteq Row
           /\ \A r \in Selected(filter) : tag[r] # "absent"
           /\ Cardinality(Selected(filter)) \in Nat
<1>1. /\ Selected(filter) \subseteq Row
      /\ \A r \in Selected(filter) : tag[r] # "absent"
  BY DEF Selected, Matching, MatchingIn
<1>2. IsFiniteSet(Row)
  BY SizesAssumption, FS_Interval DEF Row
<1>3. QED
  BY <1>1, <1>2, FS_Subset, FS_CardinalityType

LEMMA PageIsItems ==
    ASSUME tag \in [Row -> {"absent"} \cup Tag], NEW filter, NEW page
    PROVE  LET items == [r \in Page(Selected(filter), page) |-> tag[r]]
           IN  items \in Items /\ SaysTrue(items)
<1> DEFINE rows  == Page(Selected(filter), page)
           items == [r \in rows |-> tag[r]]
<1>1. rows \in SUBSET Row /\ \A r \in rows : tag[r] # "absent"
  BY SelectedIsRows DEF Page
<1>2. items \in [rows -> Tag]
  BY <1>1
<1>3. items \in Items
  BY <1>1, <1>2 DEF Items
<1>4. QED
  BY <1>3 DEF SaysTrue

LEMMA FreeIsTyped ==
    /\ Free \in [st : Status, query : Query, total : Nat, items : Items]
    /\ Free.st = "free"
    /\ SaysTrue(Free.items)
    /\ NoQuery \in Query
<1>1. NoQuery \in Query
  BY DEF NoQuery, Query, Filter
<1>2. [r \in {} |-> "PENDING"] \in Items
  <2>1. [r \in {} |-> "PENDING"] \in [{} -> Tag]
    OBVIOUS
  <2>2. QED
    BY <2>1 DEF Items
<1>3. QED
  BY <1>1, <1>2 DEF Free, Status, SaysTrue

(* Replacing a row of a page by its answer keeps it a page of the table.   *)
LEMMA ReplaceIsItems ==
    ASSUME NEW items \in Items, NEW r \in DOMAIN items
    PROVE  [items EXCEPT ![r] = "REACHED_OUT"] \in Items
<1>1. PICK rows \in SUBSET Row : items \in [rows -> Tag]
  BY DEF Items
<1>2. [items EXCEPT ![r] = "REACHED_OUT"] \in [rows -> Tag]
  BY <1>1 DEF Tag
<1>3. QED
  BY <1>1, <1>2 DEF Items

(* A reached-out lead stays so, whatever else becomes of the table.        *)
Latched ==
    \A r \in Row : tag[r] = "REACHED_OUT" => tag'[r] = "REACHED_OUT"

LEMMA InitInv == Init => IInv
<1> SUFFICES ASSUME Init PROVE IInv
  OBVIOUS
<1> USE FreeIsTyped, ViewsAssumption DEF Init, PagesInit, Unmounted
<1>1. TypeOK
  <2>1. view.table \in {"leads", "audit"}
    BY DEF View
  <2>2. tag \in [Row -> {"absent"} \cup Tag]
    BY <2>1 DEF TagsOf, Tag
  <2>3. users \in [Users -> AccountStatus]
    BY DEF AccountStatus
  <2>4. QED
    BY <2>2, <2>3 DEF TypeOK
<1>2. AnswersAreTrue
  BY DEF AnswersAreTrue
<1>3. NewestIsChosen
  BY DEF NewestIsChosen, Mounted
<1>4. QED
  BY <1>1, <1>2, <1>3 DEF IInv
-----------------------------------------------------------------------------
(* One lemma for each thing that happens.                                  *)

LEMMA FetchStep ==
    ASSUME IInv, NEW query \in Query, Fetch(query)
    PROVE  IInv'
<1> DEFINE f == CHOOSE f \in Slots \ Waiting : TRUE
           asked == [Free EXCEPT !.st = "sent", !.query = query]
<1> USE FreeIsTyped
<1>1. f \in Slots
  BY DEF Fetch, CanAsk, Waiting
<1>2. slot' = [slot EXCEPT ![f] = asked] /\ newest' = f
  BY DEF Fetch, Request
<1>3. /\ asked \in [st : Status, query : Query, total : Nat, items : Items]
      /\ asked.st = "sent" /\ asked.query = query /\ asked.items = Free.items
  BY DEF Status, Free
<1>4. /\ UNCHANGED <<users, view, tag, shown, patch>>
      /\ chosen' = query /\ loading' = TRUE /\ error' = FALSE /\ inOrder' = TRUE
  BY DEF Fetch, SetLoading
<1> HIDE DEF f, asked
<1>5. TypeOK'
  BY <1>1, <1>2, <1>3, <1>4 DEF IInv, TypeOK
<1>6. AnswersAreTrue'
  BY <1>1, <1>2, <1>3, <1>4 DEF IInv, TypeOK, AnswersAreTrue, SaysTrue
<1>7. NewestIsChosen'
  BY <1>1, <1>2, <1>3, <1>4 DEF IInv, TypeOK, NewestIsChosen
<1>8. QED
  BY <1>5, <1>6, <1>7 DEF IInv

LEMMA UserStep ==
    ASSUME IInv,
           \/ Mount \/ Next1 \/ Previous \/ Retry
           \/ \E filter \in Filters : ChangeFilter(filter)
    PROVE  IInv'
<1> USE FetchStep
<1>1. chosen \in Query /\ TotalPages \in Int
  BY SizesAssumption DEF IInv, TypeOK, TotalPages, Answer
<1>2. CASE Mount
  BY <1>2, FreeIsTyped DEF Mount
<1>3. CASE Next1
  <2>1. [chosen EXCEPT !.page = chosen.page + 1] \in Query
    BY <1>1 DEF Query
  <2>2. QED
    BY <1>3, <2>1 DEF Next1
<1>4. CASE Previous
  <2>1. [chosen EXCEPT !.page = chosen.page - 1] \in Query
    BY <1>1, <1>4 DEF Query, Previous
  <2>2. QED
    BY <1>4, <2>1 DEF Previous
<1>5. CASE Retry
  BY <1>1, <1>5 DEF Retry
<1>6. ASSUME NEW filter \in Filters, ChangeFilter(filter) PROVE IInv'
  <2>1. [filter |-> filter, page |-> 0] \in Query
    BY FiltersAssumption DEF Query
  <2>2. QED
    BY <1>6, <2>1 DEF ChangeFilter
<1>7. QED
  BY <1>2, <1>3, <1>4, <1>5, <1>6

LEMMA PressStep ==
    ASSUME IInv, NEW r \in Row, PressMark(r)
    PROVE  IInv'
<1> USE DEF PressMark, pageVars
<1>1. TypeOK'
  BY DEF IInv, TypeOK
<1>2. AnswersAreTrue'
  BY DEF IInv, TypeOK, AnswersAreTrue, SaysTrue
<1>3. NewestIsChosen'
  BY DEF IInv, NewestIsChosen, Mounted
<1>4. QED
  BY <1>1, <1>2, <1>3 DEF IInv

LEMMA SignOutStep ==
    ASSUME IInv, SignOut
    PROVE  IInv'
<1> USE FreeIsTyped DEF SignOut
<1>1. TypeOK'
  BY DEF IInv, TypeOK
<1>2. AnswersAreTrue'
  BY DEF AnswersAreTrue, SaysTrue
<1>3. NewestIsChosen'
  BY DEF NewestIsChosen, Mounted
<1>4. QED
  BY <1>1, <1>2, <1>3 DEF IInv

LEMMA ArriveStep ==
    ASSUME IInv, NEW f \in Slots, Arrive(f)
    PROVE  IInv'
<1> DEFINE answer == [query |-> slot[f].query, total |-> slot[f].total, items |-> slot[f].items]
<1> USE FreeIsTyped
<1>1. /\ slot \in [Slots -> [st : Status, query : Query, total : Nat, items : Items]]
      /\ answer \in Answer
  BY DEF IInv, TypeOK, Answer
<1>2. answer # None
  BY <1>1, NoneAssumption
<1>3. /\ answer.query = slot[f].query /\ answer.items = slot[f].items
      /\ slot' = [slot EXCEPT ![f] = Free]
      /\ loading' = FALSE /\ inOrder' = (f = newest)
      /\ UNCHANGED <<users, view, tag, chosen, newest, patch>>
  BY DEF Arrive, DoneLoading
<1>4. \/ slot[f].st = "ok" /\ shown' = answer /\ UNCHANGED error
      \/ slot[f].st = "failed" /\ error' = TRUE /\ UNCHANGED shown
  BY DEF Arrive
<1> HIDE DEF answer
<1>5. TypeOK'
  BY <1>1, <1>3, <1>4 DEF IInv, TypeOK
<1>6. AnswersAreTrue'
  BY <1>1, <1>3, <1>4 DEF IInv, AnswersAreTrue, SaysTrue
<1>7. NewestIsChosen'
  BY <1>1, <1>2, <1>3, <1>4 DEF IInv, TypeOK, NewestIsChosen, Mounted
<1>8. QED
  BY <1>5, <1>6, <1>7 DEF IInv

LEMMA ArriveMarkStep ==
    ASSUME IInv, NEW r \in Row, ArriveMark(r)
    PROVE  IInv'
<1>1. /\ UNCHANGED <<users, view, tag, slot, chosen, loading, newest, inOrder>>
      /\ patch' = [patch EXCEPT ![r] = "none"]
  BY DEF ArriveMark, pageVars
<1>2. CASE patch[r] = "failed" /\ error' = TRUE /\ UNCHANGED shown
  BY <1>1, <1>2 DEF IInv, TypeOK, AnswersAreTrue, SaysTrue, NewestIsChosen, Mounted
<1>3. CASE patch[r] = "done" /\ shown' = Replaced(r) /\ UNCHANGED error
  <2>1. CASE ~(shown # None /\ r \in DOMAIN shown.items)
    <3>1. UNCHANGED shown
      BY <1>3, <2>1 DEF Replaced
    <3>2. QED
      BY <1>1, <1>3, <3>1 DEF IInv, TypeOK, AnswersAreTrue, SaysTrue, NewestIsChosen, Mounted
  <2>2. CASE shown # None /\ r \in DOMAIN shown.items
    <3>1. shown \in Answer
      BY <2>2 DEF IInv, TypeOK
    <3>2. shown' = [shown EXCEPT !.items = [shown.items EXCEPT ![r] = "REACHED_OUT"]]
      BY <1>3, <2>2 DEF Replaced
    <3>3. /\ shown' \in Answer /\ shown'.query = shown.query
          /\ shown'.items = [shown.items EXCEPT ![r] = "REACHED_OUT"]
      BY <2>2, <3>1, <3>2, ReplaceIsItems DEF Answer
    <3>4. shown' # None
      BY <3>3, NoneAssumption
    <3>5. tag[r] = "REACHED_OUT"
      BY <1>3 DEF IInv, AnswersAreTrue
    <3>6. TypeOK'
      BY <1>1, <1>3, <3>3 DEF IInv, TypeOK
    <3>7. AnswersAreTrue'
      BY <1>1, <1>3, <2>2, <3>3, <3>5 DEF IInv, TypeOK, AnswersAreTrue, SaysTrue
    <3>8. NewestIsChosen'
      BY <1>1, <1>3, <3>3, <3>4 DEF IInv, NewestIsChosen, Mounted
    <3>9. QED
      BY <3>6, <3>7, <3>8 DEF IInv
  <2>3. QED
    BY <2>1, <2>2
<1>4. QED
  BY <1>2, <1>3 DEF ArriveMark
-----------------------------------------------------------------------------
(* The server's side of a request for a page.                              *)

LEMMA ServeStep ==
    ASSUME IInv, NEW f \in Slots, Serve(f) \/ Break(f), UNCHANGED screenVars
    PROVE  IInv'
<1> DEFINE SlotType == [st : Status, query : Query, total : Nat, items : Items]
<1> USE FreeIsTyped
<1>1. slot \in [Slots -> SlotType] /\ tag \in [Row -> {"absent"} \cup Tag]
  BY DEF IInv, TypeOK
<1> DEFINE Becomes(s) ==
             /\ slot' = [slot EXCEPT ![f] = s]
             /\ slot[f].st # "free" /\ s.st # "free"
             /\ s.query = slot[f].query
             /\ SaysTrue(s.items)
<1>2. \E s \in SlotType : Becomes(s)
  <2>1. ASSUME NEW st \in Status, st # "free", slot[f].st # "free", Refuse(f, st)
        PROVE  \E s \in SlotType : Becomes(s)
    <3> DEFINE s == [Free EXCEPT !.st = st, !.query = slot[f].query]
    <3>1. s \in SlotType /\ s.st = st /\ s.query = slot[f].query /\ s.items = Free.items
      BY <1>1, <2>1 DEF Free
    <3>2. slot' = [slot EXCEPT ![f] = s]
      BY <2>1 DEF Refuse
    <3>3. QED
      BY <2>1, <3>1, <3>2
  <2>2. CASE slot[f].st = "sent" /\ Admitted(f)
    <3> DEFINE s == [slot[f] EXCEPT !.st = "admitted"]
    <3>1. s \in SlotType /\ s.st = "admitted" /\ s.query = slot[f].query /\ s.items = slot[f].items
      BY <1>1 DEF Status
    <3>2. slot' = [slot EXCEPT ![f] = s]
      BY <1>1, <2>2 DEF Admitted
    <3>3. QED
      BY <2>2, <3>1, <3>2 DEF IInv, AnswersAreTrue
  <2>3. CASE Count(f)
    <3> DEFINE n == Cardinality(Selected(slot[f].query.filter))
               s == [slot[f] EXCEPT !.st = "counted", !.total = n]
    <3>1. n \in Nat
      BY SelectedIsRows
    <3>2. slot[f].st = "admitted" /\ slot' = [slot EXCEPT ![f] = s]
      BY <1>1, <2>3 DEF Count
    <3> HIDE DEF n
    <3>3. s \in SlotType /\ s.st = "counted" /\ s.query = slot[f].query /\ s.items = slot[f].items
      BY <1>1, <3>1 DEF Status
    <3>4. QED
      BY <3>2, <3>3 DEF IInv, AnswersAreTrue
  <2>4. CASE Read(f)
    <3> DEFINE page == [r \in Page(Selected(slot[f].query.filter), slot[f].query.page) |-> tag[r]]
               s == [slot[f] EXCEPT !.st = "ok", !.items = page]
    <3>1. page \in Items /\ SaysTrue(page)
      BY <1>1, PageIsItems
    <3>2. slot[f].st = "counted" /\ slot' = [slot EXCEPT ![f] = s]
      BY <1>1, <2>4 DEF Read
    <3> HIDE DEF page
    <3>3. s \in SlotType /\ s.st = "ok" /\ s.query = slot[f].query /\ s.items = page
      BY <1>1, <3>1 DEF Status
    <3>4. QED
      BY <3>1, <3>2, <3>3
  <2>5. QED
    BY <2>1, <2>2, <2>3, <2>4 DEF Serve, Break, Admit, Status
<1>3. UNCHANGED <<users, view, tag>>
  BY DEF Serve, Break, Admit, Count, Read
<1>4. PICK s \in SlotType : Becomes(s)
  BY <1>2
<1>5. TypeOK'
  BY <1>1, <1>3, <1>4 DEF IInv, TypeOK, screenVars
<1>6. AnswersAreTrue'
  BY <1>1, <1>3, <1>4 DEF IInv, AnswersAreTrue, SaysTrue, screenVars
<1>7. NewestIsChosen'
  BY <1>1, <1>3, <1>4 DEF IInv, TypeOK, NewestIsChosen, Mounted, screenVars
<1>8. QED
  BY <1>5, <1>6, <1>7 DEF IInv

(* A change of the rows: what was said of them stays true.                 *)
LEMMA RowsStep ==
    ASSUME IInv, Latched, tag' \in [Row -> {"absent"} \cup Tag],
           UNCHANGED <<users, view, slot, shown, chosen, loading, error, newest, inOrder>>,
           patch' \in [Row -> {"none", "sent", "done", "failed"}],
           \A r \in Row : patch'[r] = "done" => patch[r] = "done" \/ tag'[r] = "REACHED_OUT"
    PROVE  IInv'
<1>1. TypeOK'
  BY DEF IInv, TypeOK
<1>2. ASSUME NEW items \in Items, SaysTrue(items)
      PROVE  SaysTrue(items)'
  <2>1. DOMAIN items \subseteq Row
    BY DEF Items
  <2>2. QED
    BY <1>2, <2>1 DEF SaysTrue, Latched
<1>3. AnswersAreTrue'
  <2>1. \A f \in Slots : slot[f].items \in Items
    BY DEF IInv, TypeOK
  <2>2. shown # None => shown.items \in Items
    BY DEF IInv, TypeOK, Answer
  <2>3. \A f \in Slots : SaysTrue(slot[f].items)'
    BY <1>2, <2>1 DEF IInv, AnswersAreTrue, SaysTrue
  <2>4. shown # None => SaysTrue(shown.items)'
    BY <1>2, <2>2 DEF IInv, AnswersAreTrue, SaysTrue
  <2>5. QED
    BY <2>3, <2>4 DEF IInv, AnswersAreTrue, Latched
<1>4. NewestIsChosen'
  BY DEF IInv, NewestIsChosen, Mounted
<1>5. QED
  BY <1>1, <1>3, <1>4 DEF IInv

LEMMA PatchStep ==
    ASSUME IInv, NEW r \in Row, Patch(r)
    PROVE  IInv'
<1>1. tag' = tag \/ tag' = [tag EXCEPT ![r] = "REACHED_OUT"]
  BY DEF Patch
<1>2. Latched /\ tag' \in [Row -> {"absent"} \cup Tag]
  BY <1>1 DEF IInv, TypeOK, Latched, Tag
<1>3. /\ patch' \in [Row -> {"none", "sent", "done", "failed"}]
      /\ \A k \in Row : patch'[k] = "done" => patch[k] = "done" \/ tag'[k] = "REACHED_OUT"
  BY DEF Patch, IInv, TypeOK
<1>4. QED
  BY <1>2, <1>3, RowsStep DEF Patch

LEMMA OthersStep ==
    ASSUME IInv, NEW r \in Row, Others(r)
    PROVE  IInv'
<1>1. view.table \in {"leads", "audit"}
  BY ViewsAssumption DEF IInv, TypeOK, View
<1>2. Latched /\ tag' \in [Row -> {"absent"} \cup Tag]
  BY <1>1 DEF Others, Insert, MarkByOther, MarkLead, IInv, TypeOK, Latched, Tag, TagsOf
<1>3. QED
  BY <1>2, RowsStep DEF Others, Insert, MarkByOther, IInv, TypeOK

LEMMA RevokeStep ==
    ASSUME IInv, Revoke
    PROVE  IInv'
<1>1. users' \in [Users -> AccountStatus]
  BY DEF Revoke, AccountChange, DeactivateUser, ReactivateUser, DeleteUser, SetStatus,
     IInv, TypeOK, AccountStatus
<1>2. UNCHANGED <<view, tag, slot, shown, chosen, loading, error, newest, inOrder, patch>>
  BY DEF Revoke, AccountChange
<1>3. QED
  BY <1>1, <1>2 DEF IInv, TypeOK, AnswersAreTrue, SaysTrue, NewestIsChosen, Mounted
-----------------------------------------------------------------------------
LEMMA StepInv == IInv /\ [Next]_vars => IInv'
<1> SUFFICES ASSUME IInv, [Next]_vars PROVE IInv'
  OBVIOUS
<1>1. CASE UNCHANGED vars
  BY <1>1 DEF vars, pageVars, screenVars, IInv, TypeOK, AnswersAreTrue, SaysTrue,
     NewestIsChosen, Mounted
<1>2. CASE Next
  BY <1>2, <1>1, UserStep, PressStep, SignOutStep, ArriveStep, ArriveMarkStep, ServeStep,
     PatchStep, OthersStep, RevokeStep
  DEF Next, Deliver, Unauthorized, ServeOne, BreakOne, Quiescent
<1>3. QED
  BY <1>1, <1>2

(* The inductive invariant: types, true answers on their way and on the    *)
(* screen, and the newest request asking for what is chosen.               *)
THEOREM Inductive == Spec => []IInv
<1>1. QED
  BY InitInv, StepInv, PTL DEF Spec

(* Every variable keeps its type.                                          *)
THEOREM TypeCorrect == Spec => []TypeOK
<1>1. IInv => TypeOK
  BY DEF IInv
<1>2. QED
  BY <1>1, Inductive, PTL

(* No lead is shown as reached out that is not.                            *)
THEOREM Truthful == Spec => []ReachedOutIsTrue
<1>1. IInv => ReachedOutIsTrue
  BY DEF IInv, AnswersAreTrue, SaysTrue, ReachedOutIsTrue
<1>2. QED
  BY <1>1, Inductive, PTL

(* A settled screen whose newest request was answered last shows the       *)
(* filter and page that are chosen.                                        *)
THEOREM Settled == Spec => []SettledShowsChoice
<1>1. IInv => SettledShowsChoice
  BY DEF IInv, TypeOK, NewestIsChosen, Mounted, Waiting, SettledShowsChoice
<1>2. QED
  BY <1>1, Inductive, PTL
-----------------------------------------------------------------------------
(* Where a row is in the list: the arithmetic of OFFSET and LIMIT.         *)

LEMMA RowsFinite ==
    ASSUME NEW rows \in SUBSET Row
    PROVE  IsFiniteSet(rows) /\ Cardinality(rows) \in Nat
<1>1. IsFiniteSet(Row)
  BY SizesAssumption, FS_Interval DEF Row
<1>2. QED
  BY <1>1, FS_Subset, FS_CardinalityType

LEMMA SubsetIsNoLarger ==
    ASSUME NEW rows \in SUBSET Row, NEW fewer \in SUBSET rows
    PROVE  Cardinality(fewer) <= Cardinality(rows)
BY RowsFinite, FS_Subset

LEMMA NewerOfFewer ==
    ASSUME NEW rows \in SUBSET Row, NEW fewer \in SUBSET rows, NEW r \in Row
    PROVE  /\ Newer(r, fewer) \in Nat /\ Newer(r, rows) \in Nat
           /\ Newer(r, fewer) <= Newer(r, rows)
<1>1. /\ {k \in rows : k > r} \in SUBSET Row
      /\ {k \in fewer : k > r} \in SUBSET {k \in rows : k > r}
  OBVIOUS
<1>2. QED
  BY <1>1, RowsFinite, SubsetIsNoLarger DEF Newer

(* Taking one row away brings the others up by one place at most.          *)
LEMMA NewerWithout ==
    ASSUME NEW rows \in SUBSET Row, NEW x \in Row, NEW r \in Row
    PROVE  Newer(r, rows) <= Newer(r, rows \ {x}) + 1
<1> DEFINE above == {k \in rows \ {x} : k > r}
<1>1. IsFiniteSet(above) /\ Cardinality(above) \in Nat
  BY RowsFinite
<1>2. Cardinality(above \cup {x}) <= Cardinality(above) + 1
  <2> HIDE DEF above
  <2>1. Cardinality(above \cup {x}) = IF x \in above THEN Cardinality(above) ELSE Cardinality(above) + 1
    BY <1>1, FS_AddElement
  <2>2. QED
    BY <1>1, <2>1
<1>3. Cardinality({k \in rows : k > r}) <= Cardinality(above \cup {x})
  <2>1. above \cup {x} \in SUBSET Row /\ {k \in rows : k > r} \in SUBSET (above \cup {x})
    OBVIOUS
  <2>2. QED
    BY <2>1, SubsetIsNoLarger
<1>4. Cardinality({k \in rows : k > r}) \in Nat /\ Cardinality(above \cup {x}) \in Nat
  <2>1. {k \in rows : k > r} \in SUBSET Row /\ above \cup {x} \in SUBSET Row
    OBVIOUS
  <2>2. QED
    BY <2>1, RowsFinite
<1>5. QED
  BY <1>1, <1>2, <1>3, <1>4 DEF Newer

(* No two rows have the same place.                                        *)
LEMMA NewerOrders ==
    ASSUME NEW rows \in SUBSET Row, NEW a \in rows, NEW b \in rows, a > b
    PROVE  Newer(a, rows) < Newer(b, rows)
<1> DEFINE ofA == {k \in rows : k > a}
           ofB == {k \in rows : k > b}
<1>1. a \in Nat /\ b \in Nat /\ rows \subseteq Nat
  BY SizesAssumption DEF Row
<1>2. ofB \in SUBSET Row /\ ofA \in SUBSET ofB /\ a \in ofB /\ a \notin ofA
  <2>1. \A k \in rows : k > a => k > b
    BY <1>1
  <2>2. a \in ofB /\ a \notin ofA
    BY <1>1
  <2>3. QED
    BY <2>1, <2>2
<1>3. Cardinality(ofA) <= Cardinality(ofB) /\ Cardinality(ofA) # Cardinality(ofB)
  BY <1>2, RowsFinite, FS_Subset
<1>4. Cardinality(ofA) \in Nat /\ Cardinality(ofB) \in Nat
  BY <1>2, RowsFinite
<1>5. QED
  BY <1>3, <1>4 DEF Newer

LEMMA NewerIsPlace ==
    ASSUME NEW rows \in SUBSET Row
    PROVE  [r \in rows |-> Newer(r, rows)] \in Injection(rows, 0..(Cardinality(rows) - 1))
<1> DEFINE place == [r \in rows |-> Newer(r, rows)]
<1>1. ASSUME NEW r \in rows PROVE Newer(r, rows) \in 0..(Cardinality(rows) - 1)
  <2> DEFINE above == {k \in rows : k > r}
  <2>1. above \in SUBSET rows /\ r \notin above
    BY SizesAssumption DEF Row
  <2>2. Cardinality(above) <= Cardinality(rows) /\ Cardinality(above) # Cardinality(rows)
    BY <2>1, RowsFinite, FS_Subset
  <2>3. Cardinality(above) \in Nat /\ Cardinality(rows) \in Nat
    BY <2>1, RowsFinite
  <2>4. QED
    BY <2>2, <2>3 DEF Newer
<1>2. ASSUME NEW a \in rows, NEW b \in rows, Newer(a, rows) = Newer(b, rows) PROVE a = b
  <2>1. a \in Nat /\ b \in Nat
    BY SizesAssumption DEF Row
  <2>2. Newer(a, rows) \in Int
    BY <1>1
  <2>3. QED
    BY <1>2, <2>1, <2>2, NewerOrders
<1>3. place \in [rows -> 0..(Cardinality(rows) - 1)]
  BY <1>1
<1>4. QED
  BY <1>2, <1>3 DEF Injection, IsInjective

(* So a stretch of the list has no more rows than places.                  *)
LEMMA Stretch ==
    ASSUME NEW rows \in SUBSET Row, NEW m \in Int, NEW n \in Int
    PROVE  Cardinality({r \in rows : Newer(r, rows) \in m..n})
             <= IF m > n THEN 0 ELSE n - m + 1
<1> DEFINE part  == {r \in rows : Newer(r, rows) \in m..n}
           place == [r \in part |-> Newer(r, rows)]
<1>1. \A a, b \in rows : Newer(a, rows) = Newer(b, rows) => a = b
  BY NewerIsPlace DEF Injection, IsInjective
<1>2. place \in Injection(part, m..n)
  BY <1>1 DEF Injection, IsInjective
<1>3. IsFiniteSet(m..n) /\ Cardinality(m..n) = IF m > n THEN 0 ELSE n - m + 1
  BY FS_Interval
<1>4. Cardinality(part) <= Cardinality(m..n)
  BY <1>2, <1>3, FS_Injection
<1>5. QED
  BY <1>3, <1>4

(* The rows from place n on are those that the places before leave.        *)
LEMMA RowsBeyond ==
    ASSUME NEW rows \in SUBSET Row, NEW n \in Nat
    PROVE  Cardinality({r \in rows : ~(Newer(r, rows) < n)})
             <= IF Cardinality(rows) <= n THEN 0 ELSE Cardinality(rows) - n
<1> DEFINE last == Cardinality(rows) - 1
<1>1. Cardinality(rows) \in Nat /\ last \in Int
  BY RowsFinite
<1>2. \A r \in rows : Newer(r, rows) \in 0..last
  BY NewerIsPlace DEF Injection
<1>3. {r \in rows : ~(Newer(r, rows) < n)} = {r \in rows : Newer(r, rows) \in n..last}
  BY <1>1, <1>2
<1>4. Cardinality({r \in rows : Newer(r, rows) \in n..last}) <= IF n > last THEN 0 ELSE last - n + 1
  <2> HIDE DEF last
  <2>1. n \in Int
    OBVIOUS
  <2>2. QED
    BY <1>1, <2>1, Stretch, Zenon
<1>5. QED
  BY <1>1, <1>3, <1>4

(* A page is never longer than its limit, and no row is on two of them.    *)
THEOREM PagesAreDisjoint ==
    ASSUME NEW rows \in SUBSET Row, NEW page \in Nat
    PROVE  /\ Cardinality(Page(rows, page)) <= Limit
           /\ \A other \in Nat : other # page => Page(rows, page) \cap Page(rows, other) = {}
<1>1. Limit \in Nat \ {0} /\ page * Limit \in Nat
  BY SizesAssumption
<1>2. Cardinality(Page(rows, page)) <= Limit
  BY <1>1, Stretch DEF Page
<1>3. ASSUME NEW other \in Nat, NEW r \in Page(rows, page), r \in Page(rows, other)
      PROVE  page = other
  <2> DEFINE n == Newer(r, rows)
  <2>1. n \in Nat
    BY NewerOfFewer DEF Page
  <2>2. /\ page * Limit <= n /\ n <= page * Limit + Limit - 1
        /\ other * Limit <= n /\ n <= other * Limit + Limit - 1
    BY <1>1, <1>3 DEF Page
  <2> HIDE DEF n
  <2>3. ASSUME NEW p \in Nat, NEW q \in Nat, p < q PROVE p * Limit + Limit <= q * Limit
    BY <1>1, <2>3
  <2>4. QED
    BY <1>1, <2>1, <2>2, <2>3
<1>4. QED
  BY <1>2, <1>3

(* Every row is on one of the pages, and the pages before the count's last *)
(* row are full.                                                           *)
THEOREM PagesCover ==
    ASSUME NEW rows \in SUBSET Row
    PROVE  /\ \A r \in rows : \E page \in Nat : r \in Page(rows, page)
           /\ \A page \in Nat :
                (page + 1) * Limit <= Cardinality(rows) => Cardinality(Page(rows, page)) = Limit
<1> DEFINE count == Cardinality(rows)
           place == [r \in rows |-> Newer(r, rows)]
<1>1. Limit \in Nat \ {0} /\ count \in Nat
  BY SizesAssumption, RowsFinite
<1>2. /\ \A r \in rows : Newer(r, rows) \in 0..(count - 1)
      /\ \A a, b \in rows : Newer(a, rows) = Newer(b, rows) => a = b
  BY NewerIsPlace DEF Injection, IsInjective
<1>3. \A n \in 0..(count - 1) : \E r \in rows : Newer(r, rows) = n
  <2>1. IsFiniteSet(0..(count - 1)) /\ Cardinality(0..(count - 1)) = count
    BY <1>1, FS_Interval
  <2>2. place \in Surjection(rows, 0..(count - 1))
    BY <2>1, NewerIsPlace, FS_Injection
  <2>3. QED
    BY <2>2 DEF Surjection
<1>4. ASSUME NEW r \in rows PROVE \E page \in Nat : r \in Page(rows, page)
  <2> DEFINE n == Newer(r, rows)
             page == n \div Limit
  <2>1. n \in Nat
    BY <1>1, <1>2
  <2> HIDE DEF n
  <2>2. page \in Nat /\ page * Limit <= n /\ n <= page * Limit + Limit - 1
    BY <1>1, <2>1
  <2>3. n \in (page * Limit)..(page * Limit + Limit - 1)
    BY <1>1, <2>1, <2>2
  <2>4. QED
    BY <2>2, <2>3 DEF Page, n
<1>5. ASSUME NEW page \in Nat, (page + 1) * Limit <= count
      PROVE  Cardinality(Page(rows, page)) = Limit
  <2> DEFINE first == page * Limit
             last  == first + Limit - 1
             part  == [r \in Page(rows, page) |-> Newer(r, rows)]
  <2>1. first \in Nat /\ last \in Nat /\ first <= last /\ last < count
    BY <1>1, <1>5
  <2>2. IsFiniteSet(first..last) /\ Cardinality(first..last) = Limit
    <3> HIDE DEF first, last
    <3>1. IsFiniteSet(first..last) /\ Cardinality(first..last) = last - first + 1
      BY <2>1, FS_Interval
    <3>2. last - first + 1 = Limit
      BY <1>1, <2>1 DEF last
    <3>3. QED
      BY <3>1, <3>2
  <2>3. part \in Injection(Page(rows, page), first..last)
    BY <1>2 DEF Injection, IsInjective, Page
  <2>4. part \in Surjection(Page(rows, page), first..last)
    <3>1. ASSUME NEW n \in first..last PROVE \E r \in Page(rows, page) : Newer(r, rows) = n
      <4>1. n \in 0..(count - 1)
        BY <1>1, <2>1
      <4>2. QED
        BY <1>3, <4>1 DEF Page
    <3>2. QED
      BY <2>3, <3>1 DEF Injection, Surjection
  <2>5. QED
    BY <2>2, <2>3, <2>4, FS_Injection
<1>6. QED
  BY <1>4, <1>5

LEMMA PassedType ==
    ASSUME NEW rows, NEW list \in SUBSET Row, NEW n
    PROVE  /\ Passed(rows, list, n) \in SUBSET Row
           /\ Cardinality(Passed(rows, list, n)) \in Nat
<1>1. Passed(rows, list, n) \in SUBSET Row
  BY DEF Passed
<1>2. QED
  BY <1>1, RowsFinite

LEMMA PassedOfFewer ==
    ASSUME NEW rows, NEW fewer \in SUBSET rows, NEW list \in SUBSET Row,
           NEW m \in Int, NEW n \in Int, m <= n
    PROVE  Cardinality(Passed(fewer, list, m)) <= Cardinality(Passed(rows, list, n))
<1>1. \A r \in list : Newer(r, list) \in Nat
  BY NewerOfFewer
<1>2. Passed(fewer, list, m) \in SUBSET Passed(rows, list, n)
  BY <1>1 DEF Passed
<1>3. QED
  BY <1>2, PassedType, SubsetIsNoLarger

(* One row x comes to the list or leaves it.                               *)
LEMMA OneRowCounts ==
    ASSUME NEW list \in SUBSET Row, NEW x \in Row, NEW after \in SUBSET Row,
           after \in {list, list \cup {x}, list \ {x}},
           NEW rows, x \in rows \cap after => x \in list
    PROVE  /\ Cardinality(rows \cap after) <= Cardinality(rows \cap list)
           /\ Cardinality(after) <= Cardinality(list) + Cardinality(after \ list)
<1>1. /\ Cardinality(list) \in Nat /\ IsFiniteSet(list)
      /\ Cardinality(after \ list) \in Nat /\ IsFiniteSet(after \ list)
  BY RowsFinite
<1>2. Cardinality(rows \cap after) <= Cardinality(rows \cap list)
  <2>1. rows \cap after \in SUBSET (rows \cap list) /\ rows \cap list \in SUBSET Row
    OBVIOUS
  <2>2. QED
    BY <2>1, SubsetIsNoLarger
<1>3. Cardinality(after) <= Cardinality(list) + Cardinality(after \ list)
  <2>1. Cardinality(list \cup (after \ list)) =
          Cardinality(list) + Cardinality(after \ list) - Cardinality(list \cap (after \ list))
    BY <1>1, FS_Union
  <2>2. list \cap (after \ list) = {} /\ Cardinality({}) = 0
    BY FS_EmptySet
  <2>3. after \in SUBSET (list \cup (after \ list)) /\ list \cup (after \ list) \in SUBSET Row
    OBVIOUS
  <2>4. Cardinality(after) <= Cardinality(list \cup (after \ list))
    BY <2>3, SubsetIsNoLarger
  <2>5. QED
    BY <1>1, <2>1, <2>2, <2>4, RowsFinite
<1>4. QED
  BY <1>2, <1>3

(* Of the rows that were there, at most one more is passed by for a row    *)
(* that left.                                                              *)
LEMMA OneRowChanges ==
    ASSUME NEW list \in SUBSET Row, NEW x \in Row, NEW after \in SUBSET Row,
           after \in {list, list \cup {x}, list \ {x}},
           NEW rows, x \in rows \cap after => x \in list, NEW n \in Int
    PROVE  Cardinality(Passed(rows, after, n))
             <= Cardinality(Passed(rows, list, n)) + Cardinality(list \ after)
<1>1. Cardinality(list) \in Nat /\ Cardinality(list \ after) \in Nat
  BY RowsFinite
<1>2. CASE list \subseteq after
  <2>1. ASSUME NEW r \in rows \cap after, Newer(r, after) < n
        PROVE  r \in list /\ Newer(r, list) < n
    <3>1. r \in list
      BY <1>2
    <3>2. Newer(r, list) <= Newer(r, after) /\ Newer(r, list) \in Nat /\ Newer(r, after) \in Nat
      BY <1>2, NewerOfFewer
    <3>3. QED
      BY <2>1, <3>1, <3>2
  <2>2. Passed(rows, after, n) \in SUBSET Passed(rows, list, n)
    BY <2>1 DEF Passed
  <2>3. Cardinality(Passed(rows, after, n)) <= Cardinality(Passed(rows, list, n))
    BY <2>2, PassedType, SubsetIsNoLarger
  <2>4. QED
    BY <1>1, <2>3, PassedType
<1>3. CASE x \in list /\ after = list \ {x}
  <2> DEFINE next == {r \in list : Newer(r, list) \in n..n}
  <2>1. Cardinality(next) <= 1
    <3>1. Cardinality(next) <= IF n > n THEN 0 ELSE n - n + 1
      BY Stretch, Zenon
    <3> HIDE DEF next
    <3>2. (IF n > n THEN 0 ELSE n - n + 1) = 1
      OBVIOUS
    <3>3. QED
      BY <3>1, <3>2
  <2>2. ASSUME NEW r \in rows \cap after, Newer(r, after) < n
        PROVE  r \in list /\ (Newer(r, list) < n \/ Newer(r, list) = n)
    <3>1. r \in list
      BY <1>3
    <3>2. Newer(r, list) <= Newer(r, after) + 1
      BY <1>3, NewerWithout
    <3>3. Newer(r, list) \in Nat /\ Newer(r, after) \in Nat
      BY <1>3, NewerOfFewer
    <3>4. QED
      BY <2>2, <3>1, <3>2, <3>3
  <2>3. Passed(rows, after, n) \in SUBSET (Passed(rows, list, n) \cup next)
    BY <2>2 DEF Passed
  <2>4. /\ IsFiniteSet(next) /\ IsFiniteSet(Passed(rows, list, n))
        /\ Cardinality(Passed(rows, list, n) \cap next) \in Nat
        /\ Cardinality(Passed(rows, list, n) \cup next) \in Nat
        /\ Passed(rows, list, n) \cup next \in SUBSET Row
        /\ Cardinality(next) \in Nat
    <3>1. next \in SUBSET Row /\ Passed(rows, list, n) \in SUBSET Row
      BY PassedType
    <3>2. QED
      BY <3>1, RowsFinite
  <2>5. Cardinality(Passed(rows, list, n) \cup next) =
          Cardinality(Passed(rows, list, n)) + Cardinality(next)
            - Cardinality(Passed(rows, list, n) \cap next)
    BY <2>4, FS_Union
  <2>6. Cardinality(Passed(rows, after, n)) <= Cardinality(Passed(rows, list, n) \cup next)
    BY <2>3, <2>4, SubsetIsNoLarger
  <2>7. Cardinality(list \ after) = 1
    <3>1. list \ after = {x}
      BY <1>3
    <3>2. QED
      BY <3>1, FS_Singleton
  <2>8. Cardinality(Passed(rows, list, n)) \in Nat /\ Cardinality(Passed(rows, after, n)) \in Nat
    BY PassedType
  <2> HIDE DEF next
  <2>9. QED
    BY <2>1, <2>4, <2>5, <2>6, <2>7, <2>8
<1>4. QED
  BY <1>2, <1>3
-----------------------------------------------------------------------------
(* A reading, step by step: what the user asks for.                        *)

LEMMA MatchingIsRows ==
    ASSUME NEW rows, NEW filter
    PROVE  MatchingIn(rows, filter) \in SUBSET Row
BY DEF MatchingIn

LEMMA NotReading ==
    ASSUME scan' = NoScan, Mounted' \/ Waiting' = {}
    PROVE  ScanInv'
BY DEF ScanInv, ScanType, NoScan

LEMMA ScanInit == Init => ScanInv
<1> SUFFICES ASSUME Init PROVE ScanInv
  OBVIOUS
<1>1. scan = NoScan /\ Waiting = {}
  BY DEF Init, PagesInit, Unmounted, Waiting, Free
<1>2. QED
  BY <1>1 DEF ScanInv, ScanType, NoScan

LEMMA FetchAsks ==
    ASSUME IInv, NEW query \in Query, Fetch(query)
    PROVE  /\ newest' \in Slots /\ slot'[newest'].st = "sent" /\ Mounted'
           /\ Waiting = {} => Waiting' \subseteq {newest'}
           /\ inOrder' /\ chosen' = query
           /\ UNCHANGED <<users, view, tag>>
<1> DEFINE f == CHOOSE f \in Slots \ Waiting : TRUE
           asked == [Free EXCEPT !.st = "sent", !.query = query]
<1>1. f \in Slots
  BY DEF Fetch, CanAsk, Waiting
<1>2. slot' = [slot EXCEPT ![f] = asked] /\ newest' = f
  BY DEF Fetch, Request
<1>3. asked.st = "sent"
  BY DEF Free
<1>4. slot'[f] = asked /\ \A k \in Slots \ {f} : slot'[k] = slot[k]
  BY <1>1, <1>2 DEF IInv, TypeOK
<1> HIDE DEF f, asked
<1>5. newest' # None
  BY <1>1, <1>2, NoneAssumption
<1>6. Waiting = {} => Waiting' \subseteq {f}
  BY <1>4 DEF Waiting
<1>7. QED
  BY <1>1, <1>2, <1>3, <1>4, <1>5, <1>6 DEF Fetch, Mounted

(* A request that has just been sent has no page yet: only the offset      *)
(* chosen for it counts.                                                   *)
LEMMA ReadingAsks ==
    ASSUME IInv, NEW query \in Query, Fetch(query), Waiting = {},
           scan' \in [on : BOOLEAN, unseen : SUBSET Row, left : Nat, late : Nat],
           \A r \in scan'.unseen :
               /\ tag[r] # "absent"
               /\ query.filter = "REACHED_OUT" => tag[r] = "REACHED_OUT",
           Cardinality(Passed(scan'.unseen, Matching(query.filter), query.page * Limit)) <= scan'.left
    PROVE  ScanInv'
<1>1. /\ newest' \in Slots /\ slot'[newest'].st = "sent" /\ Mounted'
      /\ Waiting' \subseteq {newest'}
      /\ inOrder' /\ chosen' = query /\ tag' = tag
  BY FetchAsks
<1>2. ScanType'
  BY <1>1 DEF ScanType
<1>3. ReadingAlone'
  BY <1>1 DEF ReadingAlone
<1>4. UnseenStay'
  BY <1>1 DEF UnseenStay
<1>5. CountHolds'
  BY <1>1 DEF CountHolds
<1>6. FewPassed'
  BY <1>1 DEF FewPassed, PageIn, Listed, Matching
<1>7. QED
  BY <1>2, <1>3, <1>4, <1>5, <1>6 DEF ScanInv

LEMMA BeginStep ==
    ASSUME IInv, NEW filter \in Filter, Fetch([filter |-> filter, page |-> 0]),
           BeginScan(filter), Waiting = {}
    PROVE  ScanInv'
<1> DEFINE query == [filter |-> filter, page |-> 0]
<1>1. query \in Query
  BY DEF Query
<1>2. Matching(filter) \in SUBSET Row
  BY MatchingIsRows DEF Matching
<1>3. /\ scan' = [on |-> TRUE, unseen |-> Matching(filter), left |-> 0, late |-> 0]
  BY DEF BeginScan, NoScan
<1>4. \A r \in Matching(filter) :
        tag[r] # "absent" /\ (filter = "REACHED_OUT" => tag[r] = "REACHED_OUT")
  BY DEF Matching, MatchingIn
<1>5. Cardinality(Passed(Matching(filter), Matching(filter), 0 * Limit)) <= 0
  <2>1. 0 * Limit = 0
    BY SizesAssumption
  <2>2. \A r \in Matching(filter) : Newer(r, Matching(filter)) \in Nat
    BY <1>2, NewerOfFewer
  <2>3. Passed(Matching(filter), Matching(filter), 0) = {}
    BY <2>2 DEF Passed
  <2>4. QED
    BY <2>1, <2>3, FS_EmptySet
<1>6. query.filter = filter /\ query.page = 0
  OBVIOUS
<1> HIDE DEF query
<1>7. Fetch(query)
  BY DEF query
<1>8. QED
  BY <1>1, <1>2, <1>3, <1>4, <1>5, <1>6, <1>7, ReadingAsks

LEMMA GoOnStep ==
    ASSUME IInv, ScanInv, NEW query \in Query, Fetch(query), Waiting = {},
           scan.on, scan' = [scan EXCEPT !.late = 0],
           query.filter = chosen.filter,
           Cardinality(Passed(scan.unseen, Listed, query.page * Limit)) <= scan.left
    PROVE  ScanInv'
<1>1. /\ scan' \in [on : BOOLEAN, unseen : SUBSET Row, left : Nat, late : Nat]
      /\ scan'.unseen = scan.unseen /\ scan'.left = scan.left
  BY DEF ScanInv, ScanType
<1>2. QED
  BY <1>1, ReadingAsks DEF ScanInv, UnseenStay, Listed

LEMMA UserReads ==
    ASSUME IInv, ScanInv,
           \/ Mount \/ Next1 \/ Previous \/ Retry
           \/ \E filter \in Filters : ChangeFilter(filter)
    PROVE  ScanInv'
<1>1. chosen \in Query /\ TotalPages \in Int
  BY SizesAssumption DEF IInv, TypeOK, TotalPages, Answer
<1>2. ASSUME NEW query \in Query, Fetch(query), scan' = NoScan PROVE ScanInv'
  BY <1>2, FetchAsks, NotReading
<1>3. CASE Mount
  <2>1. NoQuery = [filter |-> "ALL", page |-> 0] /\ "ALL" \in Filter
    BY DEF NoQuery, Filter
  <2>2. Waiting = {}
    BY <1>3 DEF Mount, ScanInv, ScanType
  <2>3. QED
    BY <1>3, <2>1, <2>2, BeginStep DEF Mount
<1>4. CASE Next1
  <2> DEFINE query == [chosen EXCEPT !.page = chosen.page + 1]
  <2>1. query \in Query /\ query.filter = chosen.filter /\ query.page = chosen.page + 1
    BY <1>1 DEF Query
  <2>2. Fetch(query)
    BY <1>4 DEF Next1
  <2>3. CASE Waiting = {} /\ ~error /\ scan.on
    <3>1. newest \in Slots
      BY <1>4 DEF Next1, Usable, Mounted, IInv, TypeOK
    <3>2. slot[newest].st = "free"
      BY <2>3, <3>1 DEF Waiting
    <3>3. PageIn /\ Unmet = scan.unseen
      BY <2>3, <3>2 DEF PageIn, Unmet
    <3>4. Cardinality(Passed(scan.unseen, Listed, query.page * Limit)) <= scan.left
      BY <2>1, <2>3, <3>3 DEF ScanInv, FewPassed
    <3> HIDE DEF query
    <3>5. QED
      BY <1>4, <2>1, <2>2, <2>3, <3>4, GoOnStep DEF Next1
  <2>4. CASE ~(Waiting = {} /\ ~error /\ scan.on)
    BY <1>2, <1>4, <2>1, <2>2, <2>4 DEF Next1
  <2>5. QED
    BY <2>3, <2>4
<1>5. CASE Previous
  <2>1. [chosen EXCEPT !.page = chosen.page - 1] \in Query
    BY <1>1, <1>5 DEF Query, Previous
  <2>2. QED
    BY <1>2, <1>5, <2>1 DEF Previous
<1>6. CASE Retry
  <2>1. CASE Waiting = {} /\ scan.on
    <3>1. Cardinality(Passed(scan.unseen, Listed, chosen.page * Limit)) <= scan.left
      BY <2>1 DEF ScanInv, FewPassed
    <3>2. QED
      BY <1>1, <1>6, <2>1, <3>1, GoOnStep DEF Retry
  <2>2. CASE ~(Waiting = {} /\ scan.on)
    BY <1>1, <1>2, <1>6, <2>2 DEF Retry
  <2>3. QED
    BY <2>1, <2>2
<1>7. ASSUME NEW filter \in Filters, ChangeFilter(filter) PROVE ScanInv'
  <2>1. [filter |-> filter, page |-> 0] \in Query /\ filter \in Filter
    BY FiltersAssumption DEF Query
  <2>2. QED
    BY <1>2, <1>7, <2>1, BeginStep DEF ChangeFilter
<1>8. QED
  BY <1>3, <1>4, <1>5, <1>6, <1>7
-----------------------------------------------------------------------------
(* What the answers bring, and what the rows do meanwhile.                 *)

(* What shows, loads or is marked does not matter to a reading, but for an *)
(* error.                                                                  *)
LEMMA MarkingIsUnread ==
    ASSUME ScanInv, UNCHANGED <<pageVars, chosen, newest, inOrder, scan>>,
           error => error', shown'.total = shown.total
    PROVE  ScanInv'
<1> USE DEF pageVars
<1>1. Listed' = Listed /\ Unmet' = Unmet /\ TotalSaid' = TotalSaid /\ (PageIn' => PageIn)
  BY DEF Listed, Matching, Unmet, TotalSaid, PageIn
<1>2. ScanType'
  BY DEF ScanInv, ScanType, Mounted, Waiting
<1>3. CASE ~scan.on
  BY <1>2, <1>3 DEF ScanInv
<1>4. CASE scan.on
  <2>1. ReadingAlone' /\ UnseenStay'
    BY <1>4 DEF ScanInv, ReadingAlone, UnseenStay, Mounted, Waiting
  <2>2. CountHolds'
    BY <1>1, <1>4 DEF ScanInv, CountHolds
  <2>3. FewPassed'
    BY <1>1, <1>4 DEF ScanInv, FewPassed
  <2>4. QED
    BY <1>2, <2>1, <2>2, <2>3 DEF ScanInv
<1>5. QED
  BY <1>3, <1>4

LEMMA MarkReads ==
    ASSUME IInv, ScanInv, NEW r \in Row, PressMark(r) \/ ArriveMark(r)
    PROVE  ScanInv'
<1>1. UNCHANGED <<pageVars, chosen, newest, inOrder, scan>> /\ (error => error')
  BY DEF PressMark, ArriveMark
<1>2. shown'.total = shown.total
  <2>1. UNCHANGED shown \/ shown' = Replaced(r)
    BY DEF PressMark, ArriveMark
  <2>2. shown # None => shown \in Answer
    BY DEF IInv, TypeOK
  <2>3. QED
    BY <2>1, <2>2 DEF Replaced, Answer
<1>3. QED
  BY <1>1, <1>2, MarkingIsUnread

LEMMA ArriveReads ==
    ASSUME IInv, ScanInv, NEW f \in Slots, Arrive(f)
    PROVE  ScanInv'
<1>1. /\ slot' = [slot EXCEPT ![f] = Free]
      /\ slot[f].st \in {"ok", "failed"}
      /\ inOrder' = (f = newest)
      /\ UNCHANGED <<users, view, tag, chosen, newest, patch>>
  BY DEF Arrive
<1>2. /\ slot \in [Slots -> [st : Status, query : Query, total : Nat, items : Items]]
      /\ Free.st = "free"
  BY DEF IInv, TypeOK, Free
<1>3. Waiting' = Waiting \ {f} /\ f \in Waiting
  BY <1>1, <1>2 DEF Waiting
<1>4. /\ scan' \in [on : BOOLEAN, unseen : SUBSET Row, left : Nat, late : Nat]
      /\ scan'.on = scan.on /\ scan'.left = scan.left /\ scan'.late = scan.late
      /\ scan'.unseen \in SUBSET scan.unseen
      /\ slot[f].st = "ok" /\ scan.on => scan'.unseen = scan.unseen \ DOMAIN slot[f].items
  BY DEF Arrive, See, ScanInv, ScanType
<1>5. ScanType'
  BY <1>1, <1>3, <1>4 DEF ScanInv, ScanType, Mounted
<1>6. CASE ~scan.on
  BY <1>4, <1>5, <1>6 DEF ScanInv
<1>7. CASE scan.on
  <2>1. ReadingAlone /\ f = newest
    BY <1>3, <1>7 DEF ScanInv, ReadingAlone
  <2>2. slot'[newest].st = "free" /\ newest' = newest
    BY <1>1, <1>2, <2>1
  <2>3. ReadingAlone'
    BY <1>1, <1>3, <2>1 DEF ReadingAlone, Mounted
  <2>4. UnseenStay'
    BY <1>1, <1>4, <1>7 DEF ScanInv, UnseenStay
  <2>5. CountHolds'
    BY <2>2 DEF CountHolds
  <2>6. Listed' = Listed /\ Listed \in SUBSET Row /\ Unmet' = scan'.unseen
    BY <1>1, <2>2, MatchingIsRows DEF Listed, Matching, Unmet
  <2>7. /\ chosen.page * Limit \in Int
        /\ Cardinality(Passed(scan.unseen, Listed, chosen.page * Limit)) \in Nat
        /\ Cardinality(Passed(scan'.unseen, Listed, chosen.page * Limit)) \in Nat
        /\ scan.left \in Nat
    <3>1. chosen.page \in Nat /\ Limit \in Nat /\ scan.left \in Nat
      BY SizesAssumption DEF IInv, TypeOK, Query, ScanInv, ScanType
    <3>2. chosen.page * Limit \in Int
      BY <3>1
    <3>3. QED
      BY <2>6, <3>1, <3>2, PassedType
  <2>8. Cardinality(Passed(scan'.unseen, Listed, chosen.page * Limit)) <= scan.left
    <3>1. Cardinality(Passed(scan'.unseen, Listed, chosen.page * Limit))
            <= Cardinality(Passed(scan.unseen, Listed, chosen.page * Limit))
      BY <1>4, <2>6, <2>7, PassedOfFewer
    <3>2. QED
      BY <1>7, <2>7, <3>1 DEF ScanInv, FewPassed
  <2>9. CASE slot[f].st = "ok"
    <3>1. PageIn /\ Unmet' = Unmet /\ shown'.total = slot[newest].total /\ TotalSaid = slot[newest].total
      BY <1>4, <1>7, <2>1, <2>6, <2>9 DEF PageIn, Unmet, TotalSaid, Arrive
    <3>2. TotalSaid' = TotalSaid
      BY <2>2, <3>1 DEF TotalSaid
    <3>3. FewPassed'
      BY <1>1, <1>4, <1>7, <2>6, <2>8, <3>1, <3>2 DEF ScanInv, FewPassed
    <3>4. QED
      BY <1>5, <2>3, <2>4, <2>5, <3>3 DEF ScanInv
  <2>10. CASE slot[f].st # "ok"
    <3>1. ~PageIn'
      BY <2>2, <2>10 DEF Arrive, PageIn
    <3>2. FewPassed'
      BY <1>1, <1>4, <2>6, <2>8, <3>1 DEF FewPassed
    <3>3. QED
      BY <1>5, <2>3, <2>4, <2>5, <3>2 DEF ScanInv
  <2>11. QED
    BY <2>9, <2>10
<1>8. QED
  BY <1>6, <1>7

(* Between its statements the viewer of the list sees all of its rows.     *)
LEMMA ActiveSeesAll ==
    ASSUME IInv, users[view.viewer] = "active", NEW filter
    PROVE  Selected(filter) = Matching(filter)
<1>1. view.viewer \in Users /\ (view.table = "audit" => view.viewer \in Admins)
      /\ view.table \in {"leads", "audit"}
  BY ViewsAssumption DEF IInv, TypeOK, View
<1>2. DOMAIN users = Users
  BY DEF IInv, TypeOK
<1>3. LeadsVisible(users, Ctx)
  BY <1>1, <1>2 DEF LeadsVisible, UserVisible, Stored, Ctx
<1>4. view.table = "audit" => AuditVisible(Ctx)
  BY <1>1 DEF AuditVisible, Ctx
<1>5. QED
  BY <1>1, <1>3, <1>4 DEF Selected

LEMMA ServeReads ==
    ASSUME IInv, ScanInv, NEW f \in Slots, Serve(f) \/ Break(f), UNCHANGED screenVars
    PROVE  ScanInv'
<1> USE DEF screenVars
<1>1. UNCHANGED <<users, view, tag>>
  BY DEF Serve, Break, Admit, Count, Read
<1>2. /\ slot \in [Slots -> [st : Status, query : Query, total : Nat, items : Items]]
      /\ slot[f].st # "free"
  BY DEF IInv, TypeOK, Serve, Break, Admit, Count, Read
<1>3. f \in Waiting /\ Waiting' \subseteq Waiting
  BY <1>2 DEF Waiting, Serve, Break, Admit, Count, Read, Refuse, Admitted
<1>4. ScanType'
  BY <1>3 DEF ScanInv, ScanType, Mounted
<1>5. CASE ~scan.on
  BY <1>4, <1>5 DEF ScanInv
<1>6. CASE scan.on
  <2>1. f = newest
    BY <1>3, <1>6 DEF ScanInv, ReadingAlone
  <2>2. ReadingAlone' /\ UnseenStay'
    BY <1>1, <1>3, <1>6 DEF ScanInv, ReadingAlone, UnseenStay, Mounted
  <2>3. slot[newest].query = chosen
    BY <1>2, <2>1, <1>6 DEF IInv, NewestIsChosen, ScanInv, ReadingAlone
  <2>4. Listed' = Listed /\ Listed \in SUBSET Row /\ Cardinality(Listed) \in Nat
    BY <1>1, MatchingIsRows, RowsFinite DEF Listed, Matching
  <2> DEFINE off == chosen.page * Limit
             skipped == Cardinality(Passed(scan.unseen, Listed, off))
  <2>5. /\ scan.left \in Nat /\ scan.late \in Nat /\ off \in Nat /\ Limit \in Nat \ {0}
        /\ (chosen.page + 1) * Limit = off + Limit
    BY SizesAssumption DEF IInv, TypeOK, Query, ScanInv, ScanType
  <2>6. skipped \in Nat /\ skipped <= scan.left
    BY <1>6, <2>4, PassedType DEF ScanInv, FewPassed
  <2>7. CASE slot'[newest].st \notin {"free", "ok", "counted"}
             /\ (slot'[newest].st = "admitted" => users[view.viewer] = "active")
    <3>1. ~PageIn' /\ CountHolds'
      BY <1>1, <2>7 DEF PageIn, CountHolds
    <3>2. FewPassed'
      BY <2>4, <2>6, <3>1 DEF FewPassed
    <3>3. QED
      BY <1>4, <2>2, <3>1, <3>2 DEF ScanInv
  <2>8. CASE Count(f)
    <3>1. users[view.viewer] = "active"
      BY <1>6, <2>1, <2>8 DEF Count, ScanInv, CountHolds
    <3>2. slot'[newest].st = "counted" /\ slot'[newest].total = Cardinality(Listed)
      BY <1>2, <2>1, <2>3, <2>8, <3>1, ActiveSeesAll DEF Count, Listed
    <3>3. ~PageIn' /\ CountHolds'
      BY <1>1, <2>4, <2>5, <3>1, <3>2 DEF PageIn, CountHolds
    <3>4. FewPassed'
      BY <2>4, <2>6, <3>3 DEF FewPassed
    <3>5. QED
      BY <1>4, <2>2, <3>3, <3>4 DEF ScanInv
  <2>9. CASE Read(f)
    <3> DEFINE total == slot[newest].total
               items == [r \in Page(Listed, chosen.page) |-> tag[r]]
               unmet == scan.unseen \ Page(Listed, chosen.page)
               before == Passed(unmet, Listed, off + Limit)
               beyond == {r \in Listed : ~(Newer(r, Listed) < off + Limit)}
    <3>1. /\ users[view.viewer] = "active" /\ total \in Nat
          /\ Cardinality(Listed) <= total + scan.late
      BY <1>2, <1>6, <2>1, <2>9 DEF Read, ScanInv, CountHolds
    <3>2. slot'[newest].st = "ok" /\ slot'[newest].items = items /\ slot'[newest].total = total
      BY <1>2, <2>1, <2>3, <2>9, <3>1, ActiveSeesAll DEF Read, Listed
    <3>3. CountHolds' /\ Unmet' = unmet /\ TotalSaid' = total
      BY <3>2 DEF CountHolds, Unmet, TotalSaid
    <3>4. Cardinality(before) \in Nat /\ Cardinality(before) <= skipped
      <4>1. before \in SUBSET Passed(scan.unseen, Listed, off)
        <5>1. ASSUME NEW r \in Listed, r \notin Page(Listed, chosen.page), Newer(r, Listed) < off + Limit
              PROVE  Newer(r, Listed) < off
          <6>1. Newer(r, Listed) \in Nat
            BY <2>4, NewerOfFewer
          <6>2. QED
            BY <2>5, <5>1, <6>1 DEF Page
        <5>2. QED
          BY <5>1 DEF Passed
      <4>2. QED
        BY <2>4, <4>1, PassedType, SubsetIsNoLarger
    <3>5. Cardinality(beyond) \in Nat
          /\ Cardinality(beyond) <= IF Cardinality(Listed) <= off + Limit THEN 0 ELSE Cardinality(Listed) - (off + Limit)
      <4> HIDE DEF off
      <4>1. off + Limit \in Nat
        BY <2>5
      <4>2. beyond \in SUBSET Row
        BY <2>4
      <4>3. Cardinality(beyond) \in Nat
        BY <4>2, RowsFinite
      <4>4. QED
        BY <2>4, <4>1, <4>3, RowsBeyond, Zenon
    <3>6. Cardinality(unmet \cap Listed) \in Nat
          /\ Cardinality(unmet \cap Listed) <= Cardinality(before) + Cardinality(beyond)
      <4> HIDE DEF unmet
      <4>1. unmet \cap Listed = before \cup (beyond \cap unmet) /\ before \cap (beyond \cap unmet) = {}
        BY DEF Passed
      <4>2. Cardinality(beyond \cap unmet) <= Cardinality(beyond) /\ beyond \cap unmet \in SUBSET Row
        <5>1. beyond \in SUBSET Row /\ beyond \cap unmet \in SUBSET beyond
          BY <2>4
        <5>2. QED
          BY <5>1, SubsetIsNoLarger
      <4>3. /\ IsFiniteSet(before) /\ IsFiniteSet(beyond \cap unmet)
            /\ Cardinality(beyond \cap unmet) \in Nat /\ Cardinality({}) = 0
        <5>1. before \in SUBSET Row
          BY <2>4, PassedType
        <5>2. QED
          BY <4>2, <5>1, RowsFinite, FS_EmptySet
      <4>4. Cardinality(before \cup (beyond \cap unmet)) = Cardinality(before) + Cardinality(beyond \cap unmet)
        <5> HIDE DEF before, beyond
        <5>1. Cardinality(before \cup (beyond \cap unmet)) =
                Cardinality(before) + Cardinality(beyond \cap unmet) - Cardinality(before \cap (beyond \cap unmet))
          BY <4>3, FS_Union
        <5>2. Cardinality(before \cap (beyond \cap unmet)) = 0
          BY <4>1, <4>3
        <5>3. Cardinality(before) \in Nat
          BY <3>4
        <5>4. QED
          BY <4>3, <5>1, <5>2, <5>3
      <4>5. QED
        <5>1. Cardinality(unmet \cap Listed) = Cardinality(before) + Cardinality(beyond \cap unmet)
          BY <4>1, <4>4
        <5> HIDE DEF before, beyond
        <5>2. QED
          BY <3>4, <3>5, <4>2, <4>3, <5>1
    <3> HIDE DEF unmet, before, beyond, items, skipped, off, total
    <3>7. FewPassed'
      BY <2>4, <2>5, <2>6, <3>1, <3>3, <3>4, <3>5, <3>6 DEF FewPassed, before, skipped, off
    <3>8. QED
      BY <1>4, <2>2, <3>3, <3>7 DEF ScanInv
  <2>10. QED
    <3>1. Admit(f) \/ Break(f) => slot'[f].st \in {"unauthorized", "failed", "admitted"}
             /\ (slot'[f].st = "admitted" => users[view.viewer] = "active")
      <4>1. ASSUME NEW st \in {"unauthorized", "failed"}, Refuse(f, st) PROVE slot'[f].st = st
        BY <1>2, <4>1 DEF Refuse, Free
      <4>2. Admitted(f) => slot'[f].st = "admitted"
        BY <1>2 DEF Admitted
      <4>3. QED
        BY <4>1, <4>2 DEF Admit, Break
    <3>2. QED
      BY <2>1, <2>7, <2>8, <2>9, <3>1 DEF Serve
<1>7. QED
  BY <1>5, <1>6

LEMMA RowsRead ==
    ASSUME IInv, ScanInv, NEW x \in Row,
           \/ UNCHANGED tag
           \/ \E t \in Tag : /\ tag' = [tag EXCEPT ![x] = t]
                             /\ t = "REACHED_OUT" \/ tag[x] = "absent",
           Watch,
           UNCHANGED <<users, view, slot, shown, chosen, error, newest, inOrder>>
    PROVE  ScanInv'
<1> DEFINE list  == Matching(chosen.filter)
           after == MatchingIn(tag', chosen.filter)
           come == Cardinality(after \ list)
           gone == Cardinality(list \ after)
           split == \E f \in Slots : slot[f].st = "counted"
<1>1. /\ list \in SUBSET Row /\ after \in SUBSET Row
      /\ come \in Nat /\ gone \in Nat
      /\ Cardinality(list) \in Nat /\ Cardinality(after) \in Nat
  <2>1. list \in SUBSET Row /\ after \in SUBSET Row
    BY MatchingIsRows DEF Matching
  <2>2. QED
    BY <2>1, RowsFinite
<1>2. tag \in [Row -> {"absent"} \cup Tag] /\ \A r \in Row \ {x} : tag'[r] = tag[r]
  BY DEF IInv, TypeOK
<1>3. after \in {list, list \cup {x}, list \ {x}}
  <2>1. \A r \in Row \ {x} : r \in after <=> r \in list
    BY <1>2 DEF Matching, MatchingIn
  <2> HIDE DEF after, list
  <2>2. \/ after = list \/ after = list \cup {x} \/ after = list \ {x}
    <3>1. CASE x \in after
      BY <1>1, <2>1, <3>1
    <3>2. CASE x \notin after
      BY <1>1, <2>1, <3>2
    <3>3. QED
      BY <3>1, <3>2
  <2>3. QED
    BY <2>2
<1>4. Listed = list /\ Listed' = after
  BY DEF Listed, Matching
<1>5. scan \in [on : BOOLEAN, unseen : SUBSET Row, left : Nat, late : Nat]
  BY DEF ScanInv, ScanType
<1>6. CASE ~scan.on
  BY <1>6 DEF Watch, ScanInv, ScanType, Mounted, Waiting
<1>7. CASE scan.on
  <2>1. scan' = [scan EXCEPT !.left = @ + gone, !.late = @ + IF split THEN come ELSE 0]
    BY <1>7 DEF Watch
  <2> HIDE DEF list, after, come, gone, split
  <2>2. /\ scan'.on = scan.on /\ scan'.unseen = scan.unseen
        /\ scan'.left = scan.left + gone
        /\ scan'.late = scan.late + IF split THEN come ELSE 0
        /\ scan'.late \in Nat /\ scan.late <= scan'.late
        /\ scan' \in [on : BOOLEAN, unseen : SUBSET Row, left : Nat, late : Nat]
    <3>1. (IF split THEN come ELSE 0) \in Nat
      BY <1>1
    <3>2. /\ scan'.on = scan.on /\ scan'.unseen = scan.unseen
          /\ scan'.left = scan.left + gone
          /\ scan'.late = scan.late + IF split THEN come ELSE 0
          /\ scan' = [on |-> scan.on, unseen |-> scan.unseen, left |-> scan'.left, late |-> scan'.late]
      BY <1>5, <2>1
    <3>3. /\ scan.left \in Nat /\ scan.late \in Nat /\ scan.on \in BOOLEAN
          /\ scan.unseen \in SUBSET Row
      BY <1>5
    <3>4. scan'.left \in Nat /\ scan'.late \in Nat /\ scan.late <= scan'.late
      BY <1>1, <3>1, <3>2, <3>3
    <3>5. QED
      BY <3>2, <3>3, <3>4
  <2>3. ScanType'
    BY <2>2 DEF ScanInv, ScanType, Mounted, Waiting
  <2>4. ReadingAlone' /\ newest \in Slots
    BY <1>7 DEF ScanInv, ReadingAlone, Mounted, Waiting, IInv, TypeOK
  <2>5. UnseenStay'
    BY <1>2, <1>7, <2>2 DEF ScanInv, UnseenStay, IInv, TypeOK, Tag
  <2>6. x \in scan.unseen \cap after => x \in list
    BY <1>7, <1>2 DEF ScanInv, UnseenStay, after, list, Matching, MatchingIn, IInv, TypeOK, Tag
  <2>7. Unmet' = Unmet /\ Unmet \subseteq scan.unseen /\ PageIn' = PageIn /\ TotalSaid' = TotalSaid
    BY <2>2 DEF Unmet, PageIn, TotalSaid
  <2>8. CountHolds'
    <3>1. Cardinality(after) <= Cardinality(list) + come
      BY <1>1, <1>3, <2>6, OneRowCounts DEF come
    <3>2. slot[newest].st = "counted" =>
            /\ scan'.late = scan.late + come
            /\ Cardinality(list) <= slot[newest].total + scan.late
            /\ slot[newest].total \in Nat
      BY <1>4, <1>7, <2>2, <2>4 DEF split, ScanInv, CountHolds, IInv, TypeOK
    <3>3. slot[newest].st = "counted" => Cardinality(after) <= slot[newest].total + scan'.late
      BY <1>1, <1>5, <3>1, <3>2
    <3>4. QED
      BY <1>4, <1>7, <3>3 DEF ScanInv, CountHolds
  <2>9. FewPassed'
    <3>1. ASSUME NEW rows, rows \subseteq scan.unseen, NEW n \in Int, NEW left \in Nat,
                 Cardinality(Passed(rows, list, n)) <= left
          PROVE  Cardinality(Passed(rows, after, n)) <= left + gone
      <4>1. Cardinality(Passed(rows, after, n)) <= Cardinality(Passed(rows, list, n)) + gone
        BY <1>1, <1>3, <2>6, <3>1, OneRowChanges DEF gone
      <4>2. Cardinality(Passed(rows, after, n)) \in Nat /\ Cardinality(Passed(rows, list, n)) \in Nat
        BY <1>1, PassedType
      <4>3. QED
        BY <1>1, <3>1, <4>1, <4>2
    <3>2. chosen.page * Limit \in Int /\ (chosen.page + 1) * Limit \in Int
      <4>1. chosen.page \in Nat /\ Limit \in Nat
        BY SizesAssumption DEF IInv, TypeOK, Query
      <4>2. QED
        BY <4>1
    <3>3. Cardinality(Passed(scan.unseen, after, chosen.page * Limit)) <= scan'.left
      BY <1>4, <1>5, <1>7, <2>2, <3>1, <3>2 DEF ScanInv, FewPassed
    <3>4. PageIn => Cardinality(Passed(Unmet, after, (chosen.page + 1) * Limit)) <= scan'.left
      BY <1>4, <1>5, <1>7, <2>2, <2>7, <3>1, <3>2 DEF ScanInv, FewPassed
    <3>5. PageIn /\ TotalSaid <= (chosen.page + 1) * Limit =>
             Cardinality(Unmet \cap after) <= scan'.left + scan'.late
      <4>1. Cardinality(Unmet \cap after) <= Cardinality(Unmet \cap list)
        BY <1>1, <1>3, <2>6, <2>7, OneRowCounts
      <4>2. Cardinality(Unmet \cap after) \in Nat /\ Cardinality(Unmet \cap list) \in Nat
        <5>1. Unmet \cap after \in SUBSET Row /\ Unmet \cap list \in SUBSET Row
          BY <1>1
        <5>2. QED
          BY <5>1, RowsFinite
      <4>3. PageIn /\ TotalSaid <= (chosen.page + 1) * Limit =>
               Cardinality(Unmet \cap list) <= scan.left + scan.late
        BY <1>4, <1>7 DEF ScanInv, FewPassed
      <4>4. scan.left + scan.late <= scan'.left + scan'.late /\ scan.left + scan.late \in Nat
            /\ scan'.left + scan'.late \in Nat
        BY <1>1, <1>5, <2>2
      <4>5. QED
        BY <4>1, <4>2, <4>3, <4>4
    <3>6. QED
      BY <1>4, <2>2, <2>7, <3>3, <3>4, <3>5 DEF FewPassed
  <2>10. QED
    BY <2>2, <2>3, <2>4, <2>5, <2>8, <2>9 DEF ScanInv
<1>8. QED
  BY <1>6, <1>7

LEMMA OthersRead ==
    ASSUME IInv, ScanInv, NEW r \in Row, Patch(r) \/ Others(r)
    PROVE  ScanInv'
<1>1. view.table \in {"leads", "audit"}
  BY ViewsAssumption DEF IInv, TypeOK, View
<1>2. \/ UNCHANGED tag
      \/ \E t \in Tag : tag' = [tag EXCEPT ![r] = t] /\ (t = "REACHED_OUT" \/ tag[r] = "absent")
  BY <1>1 DEF Patch, Others, Insert, MarkByOther, MarkLead, Tag, TagsOf
<1>3. QED
  BY <1>2, RowsRead DEF Patch, Others, Insert, MarkByOther

LEMMA LeavingReads ==
    ASSUME IInv, ScanInv, SignOut \/ Revoke
    PROVE  ScanInv'
<1>1. CASE SignOut
  <2>1. Waiting' = {} /\ scan' = NoScan
    BY <1>1 DEF SignOut, Waiting, Free
  <2>2. QED
    BY <2>1, NotReading
<1>2. CASE Revoke
  <2>1. scan' = NoScan /\ UNCHANGED <<slot, newest>>
    BY <1>2 DEF Revoke, AccountChange
  <2>2. Mounted' \/ Waiting' = {}
    BY <2>1 DEF ScanInv, ScanType, Mounted, Waiting
  <2>3. QED
    BY <2>1, <2>2, NotReading
<1>3. QED
  BY <1>1, <1>2

LEMMA ScanStep == IInv /\ ScanInv /\ [Next]_vars => ScanInv'
<1> SUFFICES ASSUME IInv, ScanInv, [Next]_vars PROVE ScanInv'
  OBVIOUS
<1>1. CASE UNCHANGED vars
  BY <1>1, MarkingIsUnread DEF vars, screenVars
<1>2. CASE Next
  BY <1>2, <1>1, UserReads, MarkReads, LeavingReads, ArriveReads, ServeReads, OthersRead
  DEF Next, Deliver, Unauthorized, ServeOne, BreakOne, Quiescent
<1>3. QED
  BY <1>1, <1>2

(* A total that the last page reaches is not more than the pages hold.     *)
LEMMA LastPageHoldsAll ==
    ASSUME NEW total \in Nat, NEW page \in Nat,
           page >= ((total + Limit - 1) \div Limit) - 1
    PROVE  total <= (page + 1) * Limit
<1> DEFINE pages == (total + Limit - 1) \div Limit
<1>1. Limit \in Nat \ {0}
  BY SizesAssumption
<1>2. pages \in Nat /\ total <= pages * Limit
  BY <1>1
<1> HIDE DEF pages
<1>3. pages <= page + 1
  BY <1>2 DEF pages
<1>4. pages * Limit <= (page + 1) * Limit
  BY <1>1, <1>2, <1>3
<1>5. QED
  BY <1>1, <1>2, <1>4

LEMMA ScanInvMissesFew == IInv /\ ScanInv => ScanMissesFew
<1> SUFFICES ASSUME IInv, ScanInv, ReadToTheEnd
             PROVE  Cardinality(scan.unseen \cap Matching(chosen.filter)) <= scan.left + scan.late
  BY DEF ScanMissesFew
<1>1. /\ scan.on /\ Waiting = {} /\ ~error
      /\ shown # None /\ chosen.page >= TotalPages - 1
  BY DEF ReadToTheEnd
<1>2. newest \in Slots
  BY <1>1 DEF ScanInv, ReadingAlone, Mounted, IInv, TypeOK
<1>3. slot[newest].st = "free"
  BY <1>1, <1>2 DEF Waiting
<1>4. PageIn /\ Unmet = scan.unseen /\ TotalSaid = shown.total
  BY <1>1, <1>3 DEF PageIn, Unmet, TotalSaid
<1>5. shown.total \in Nat /\ chosen.page \in Nat
  BY <1>1 DEF IInv, TypeOK, Answer, Query
<1>6. shown.total <= (chosen.page + 1) * Limit
  BY <1>1, <1>5, LastPageHoldsAll DEF TotalPages
<1>7. QED
  BY <1>1, <1>4, <1>6 DEF ScanInv, FewPassed, Listed
-----------------------------------------------------------------------------
(* The list has moved by no more than the rows that left it.               *)
THEOREM ScanInductive == Spec => []ScanInv
<1>1. QED
  BY ScanInit, ScanStep, Inductive, PTL DEF Spec

(* A user who reads from the first page to the last misses no more rows    *)
(* than left the list meanwhile, or came after the last count: for any     *)
(* number of rows and any size of a page.                                  *)
THEOREM ReadingMissesFew == Spec => []ScanMissesFew
<1>1. QED
  BY ScanInvMissesFew, Inductive, ScanInductive, PTL
-----------------------------------------------------------------------------
(* What LoadingEnds does not need fairness for: a page that says it is     *)
(* loading has asked for what is chosen and is not answered yet, whatever  *)
(* older answers came; one that does not has something to show or to retry.*)
LoadingIsAsked ==
    loading => Mounted /\ slot[newest].st # "free" /\ slot[newest].query = chosen

NeverBlank == Mounted => loading \/ error \/ shown # None

BusyInv ==
    /\ loading => Mounted /\ slot[newest].st # "free"
    /\ NeverBlank

LEMMA BusyStep ==
    ASSUME IInv, BusyInv, [Next]_vars
    PROVE  BusyInv'
<1> USE DEF BusyInv, NeverBlank, Mounted
<1>1. /\ slot \in [Slots -> [st : Status, query : Query, total : Nat, items : Items]]
      /\ newest \in Slots \cup {None}
  BY DEF IInv, TypeOK
<1>2. ASSUME NEW query, Fetch(query) PROVE BusyInv'
  <2> DEFINE f == CHOOSE f \in Slots \ Waiting : TRUE
  <2>1. f \in Slots
    BY <1>2 DEF Fetch, CanAsk, Waiting
  <2>2. /\ slot' = [slot EXCEPT ![f] = [Free EXCEPT !.st = "sent", !.query = query]]
        /\ newest' = f /\ loading' = TRUE
    BY <1>2 DEF Fetch, Request, SetLoading
  <2> HIDE DEF f
  <2>3. slot'[f].st = "sent"
    BY <1>1, <2>1, <2>2 DEF Free
  <2>4. QED
    BY <2>1, <2>2, <2>3, NoneAssumption
<1>3. ASSUME NEW f \in Slots, Arrive(f) PROVE BusyInv'
  <2> DEFINE answer == [query |-> slot[f].query, total |-> slot[f].total, items |-> slot[f].items]
  <2>1. answer \in Answer
    BY <1>1 DEF Answer
  <2>2. answer # None
    BY <2>1, NoneAssumption
  <2>3. shown' = answer \/ error' = TRUE
    BY <1>3 DEF Arrive
  <2>4. loading' = FALSE
    BY <1>3 DEF Arrive, DoneLoading
  <2>5. QED
    BY <2>2, <2>3, <2>4
<1>4. ASSUME NEW f \in Slots, ServeOne(f) \/ BreakOne(f) PROVE BusyInv'
  <2>1. UNCHANGED screenVars
    BY <1>4 DEF ServeOne, BreakOne
  <2>2. \A k \in Slots : slot[k].st # "free" => slot'[k].st # "free"
    BY <1>1, <1>4 DEF ServeOne, BreakOne, Serve, Break, Admit, Count, Read, Refuse, Admitted, Free
  <2>3. QED
    BY <1>1, <2>1, <2>2 DEF screenVars
<1>5. ASSUME NEW r \in Row, ArriveMark(r) PROVE BusyInv'
  <2>1. UNCHANGED <<slot, loading, newest>>
    BY <1>5 DEF ArriveMark, pageVars
  <2>2. CASE error' = TRUE
    BY <2>1, <2>2
  <2>3. CASE UNCHANGED error /\ shown' = Replaced(r)
    <3>1. shown # None => shown' # None
      <4>1. ASSUME shown # None, r \in DOMAIN shown.items PROVE shown' \in Answer
        <5>1. shown \in Answer
          BY <4>1 DEF IInv, TypeOK
        <5>2. shown' = [shown EXCEPT !.items = [shown.items EXCEPT ![r] = "REACHED_OUT"]]
          BY <2>3, <4>1 DEF Replaced
        <5>3. QED
          BY <4>1, <5>1, <5>2, ReplaceIsItems DEF Answer
      <4>2. QED
        BY <2>3, <4>1, NoneAssumption DEF Replaced
    <3>2. QED
      BY <2>1, <2>3, <3>1
  <2>4. QED
    BY <1>5, <2>2, <2>3 DEF ArriveMark
<1>6. ASSUME UNCHANGED <<slot, shown, loading, error, newest>> PROVE BusyInv'
  BY <1>6
<1>7. ASSUME SignOut PROVE BusyInv'
  BY <1>7 DEF SignOut
<1>8. ASSUME NEW r \in Row, PressMark(r) \/ Patch(r) \/ Others(r) PROVE BusyInv'
  BY <1>6, <1>8 DEF PressMark, Patch, Others, Insert, MarkByOther, pageVars
<1>9. ASSUME Revoke \/ UNCHANGED vars PROVE BusyInv'
  BY <1>6, <1>9 DEF Revoke, AccountChange, vars, pageVars, screenVars
<1>10. QED
  BY <1>2, <1>3, <1>4, <1>5, <1>7, <1>8, <1>9 DEF Next, Mount, ChangeFilter, Next1, Previous,
     Retry, Deliver, Unauthorized, Quiescent

LEMMA BusyInductive == Spec => []BusyInv
<1>1. Init => BusyInv
  BY DEF Init, Unmounted, BusyInv, NeverBlank, Mounted
<1>2. IInv /\ BusyInv /\ [Next]_vars => BusyInv'
  BY BusyStep
<1> QED BY <1>1, <1>2, Inductive, PTL DEF Spec

(* The page never waits for an answer that is not on its way.              *)
THEOREM LoadingAsked == Spec => []LoadingIsAsked
<1>1. IInv /\ BusyInv => LoadingIsAsked
  BY DEF IInv, NewestIsChosen, BusyInv, LoadingIsAsked
<1> QED BY <1>1, Inductive, BusyInductive, PTL

(* The page is never left without data, message or request.                *)
THEOREM NotBlank == Spec => []NeverBlank
<1>1. BusyInv => NeverBlank
  BY DEF BusyInv
<1> QED BY <1>1, BusyInductive, PTL
=============================================================================
