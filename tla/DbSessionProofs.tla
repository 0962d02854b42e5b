--------------------------- MODULE DbSessionProofs ---------------------------
(* Proofs about DbSession, for any pool, callers and sessions.             *)
EXTENDS DbSession, TLAPS

LEMMA CtxType == /\ Blank \in Context
                 /\ \A u \in Users : CtxOf(u) \in Context
                 /\ Whole \subseteq Context
  BY CallersAssumption DEF Blank, Context, CtxOf, RoleOf, Roles, Whole

LEMMA InitSession == Init => SessionInv
<1> SUFFICES ASSUME Init
             PROVE  SessionInv
  OBVIOUS
<1>1. Blank \in Whole
  BY DEF Whole
<1> QED
  BY <1>1, CtxType DEF Init, SessionInv, TypeOK, OneHolder, ContextInv, CallerContext

LEMMA NextSession == SessionInv /\ [Next]_vars => SessionInv'
<1> SUFFICES ASSUME SessionInv, [Next]_vars
             PROVE  SessionInv'
  OBVIOUS
<1> USE DEF SessionInv
<1>1. ASSUME NEW s \in Sessions, pc[s] # "idle"
      PROVE  /\ conn[s] \in Conns
             /\ ~Free(conn[s])
             /\ \A t \in Sessions : t # s => conn[t] # conn[s]
  BY <1>1 DEF TypeOK, OneHolder, Free
<1>2. ASSUME NEW s \in Sessions, Connect(s)
      PROVE  SessionInv'
  <2>1. PICK c \in Conns, u \in Users \cup {None} :
            /\ Free(c)
            /\ conn' = [conn EXCEPT ![s] = c]
            /\ caller' = [caller EXCEPT ![s] = u]
            /\ pc' = [pc EXCEPT ![s] = IF u = None THEN "ready" ELSE "uid"]
    BY <1>2 DEF Connect
  <2>2. UNCHANGED <<kept, live>> /\ ran' = [ran EXCEPT ![s] = Blank] /\ c # None
    BY <1>2, CallersAssumption DEF Connect
  <2>3. TypeOK'
    BY <2>1, <2>2, CtxType DEF TypeOK
  <2>4. OneHolder'
    BY <2>1, <2>2 DEF TypeOK, OneHolder, Free
  <2>5. live[c] \in Whole
    BY <2>1 DEF ContextInv
  <2>6. ContextInv'
    <3>1. \A d \in Conns : Free(d)' => Free(d)
      <4>1. conn[s] = None /\ None \notin Conns
        BY <1>2, CallersAssumption DEF TypeOK, Connect
      <4>2. \A t \in Sessions : t # s => conn'[t] = conn[t]
        BY <2>1 DEF TypeOK
      <4> QED BY <4>1, <4>2 DEF Free
    <3> QED BY <2>1, <2>2, <2>5, <3>1 DEF TypeOK, ContextInv
  <2>7. CallerContext'
    BY <2>1, <2>2 DEF TypeOK, CallerContext
  <2> QED BY <2>3, <2>4, <2>6, <2>7
<1>3. ASSUME NEW s \in Sessions, SetUser(s)
      PROVE  SessionInv'
  <2> DEFINE c == conn[s]
  <2>1. pc[s] = "uid" /\ c \in Conns /\ caller[s] \in Users /\ live[c] \in Context
    BY <1>1, <1>3 DEF SetUser, TypeOK, ContextInv
  <2>2. /\ live' = [live EXCEPT ![c] = [live[c] EXCEPT !.uid = caller[s]]]
        /\ pc' = [pc EXCEPT ![s] = "role"]
        /\ UNCHANGED <<kept, caller, conn, ran>>
    BY <1>3 DEF SetUser
  <2>3. [live[c] EXCEPT !.uid = caller[s]] \in Context
    BY <2>1 DEF Context
  <2>4. TypeOK' /\ OneHolder'
    BY <2>1, <2>2, <2>3 DEF TypeOK, OneHolder
  <2>5. live'[c].uid = caller[s] /\ \A d \in Conns : d # c => live'[d] = live[d]
    BY <2>1, <2>2 DEF TypeOK, Context
  <2>6. ContextInv'
    BY <1>1, <2>1, <2>2, <2>5 DEF TypeOK, ContextInv, Free
  <2>7. CallerContext'
    BY <1>1, <2>1, <2>2, <2>5 DEF TypeOK, CallerContext
  <2> QED BY <2>4, <2>6, <2>7
<1>4. ASSUME NEW s \in Sessions, SetRole(s)
      PROVE  SessionInv'
  <2> DEFINE c == conn[s]
  <2>1. /\ pc[s] = "role" /\ c \in Conns /\ caller[s] \in Users
        /\ live[c] \in Context /\ live[c].uid = caller[s]
    BY <1>1, <1>4 DEF SetRole, TypeOK, ContextInv
  <2>2. /\ live' = [live EXCEPT ![c] = [live[c] EXCEPT !.role = RoleOf(caller[s])]]
        /\ pc' = [pc EXCEPT ![s] = "ready"]
        /\ UNCHANGED <<kept, caller, conn, ran>>
    BY <1>4 DEF SetRole
  <2>3. [live[c] EXCEPT !.role = RoleOf(caller[s])] = CtxOf(caller[s])
    BY <2>1 DEF Context, CtxOf
  <2>4. CtxOf(caller[s]) \in Context /\ CtxOf(caller[s]) \in Whole
    BY <2>1, CtxType DEF Whole
  <2>5. live'[c] = CtxOf(caller[s]) /\ \A d \in Conns : d # c => live'[d] = live[d]
    BY <2>1, <2>2, <2>3 DEF TypeOK
  <2>6. TypeOK' /\ OneHolder'
    BY <2>1, <2>2, <2>3, <2>4 DEF TypeOK, OneHolder
  <2>7. ContextInv'
    BY <1>1, <2>1, <2>2, <2>4, <2>5 DEF TypeOK, ContextInv, Free
  <2>8. ran[s] \in {Blank, CtxOf(caller[s])}
    BY <2>1 DEF ContextInv
  <2>9. CallerContext'
    BY <1>1, <2>1, <2>2, <2>5, <2>8 DEF TypeOK, CallerContext
  <2> QED BY <2>6, <2>7, <2>9
<1>5. ASSUME NEW s \in Sessions, Execute(s)
      PROVE  SessionInv'
  <2>1. /\ pc[s] = "ready" /\ conn[s] \in Conns /\ live[conn[s]] \in Context
        /\ ran' = [ran EXCEPT ![s] = live[conn[s]]]
        /\ UNCHANGED <<kept, live, pc, caller, conn>>
    BY <1>1, <1>5 DEF Execute, TypeOK
  <2>2. TypeOK' /\ OneHolder'
    BY <2>1 DEF TypeOK, OneHolder
  <2>3. ContextInv'
    BY <2>1 DEF TypeOK, ContextInv, Free
  <2>4. CallerContext'
    BY <2>1 DEF TypeOK, CallerContext
  <2> QED BY <2>2, <2>3, <2>4
<1>6. ASSUME NEW s \in Sessions, Commit(s)
      PROVE  SessionInv'
  <2> DEFINE c == conn[s]
  <2>1. /\ pc[s] = "ready" /\ c \in Conns /\ live[c] \in Context /\ live[c] \in Whole
        /\ kept' = [kept EXCEPT ![c] = live[c]]
        /\ UNCHANGED <<live, pc, caller, conn, ran>>
    BY <1>1, <1>6 DEF Commit, TypeOK, ContextInv
  <2>2. TypeOK' /\ OneHolder' /\ CallerContext'
    BY <2>1 DEF TypeOK, OneHolder, CallerContext
  <2>3. ContextInv'
    BY <1>1, <2>1 DEF TypeOK, ContextInv, Free
  <2> QED BY <2>2, <2>3
<1>7. ASSUME NEW s \in Sessions, Close(s)
      PROVE  SessionInv'
  <2> DEFINE c == conn[s]
  <2>1. /\ pc[s] # "idle" /\ c \in Conns
        /\ pc' = [pc EXCEPT ![s] = "idle"]
        /\ conn' = [conn EXCEPT ![s] = None]
        /\ UNCHANGED <<caller, ran>>
        /\ \A t \in Sessions : t # s => conn[t] # c
    BY <1>1, <1>7 DEF Close
  <2>2. PICK x \in Context :
           /\ x \in Whole
           /\ live' = [live EXCEPT ![c] = x]
           /\ kept' = [kept EXCEPT ![c] = x]
    <3>1. CASE live' = [live EXCEPT ![c] = kept[c]] /\ UNCHANGED kept
      <4>1. kept' = [kept EXCEPT ![c] = kept[c]] /\ kept[c] \in Context /\ kept[c] \in Whole
        BY <2>1, <3>1 DEF TypeOK, ContextInv
      <4> QED BY <3>1, <4>1
    <3>2. CASE live' = [live EXCEPT ![c] = Blank] /\ kept' = [kept EXCEPT ![c] = Blank]
      <4>1. Blank \in Context /\ Blank \in Whole
        BY CtxType DEF Whole
      <4> QED BY <3>2, <4>1
    <3> QED BY <1>7, <3>1, <3>2 DEF Close
  <2>3. /\ live'[c] = x /\ kept'[c] = x
        /\ \A d \in Conns : d # c => live'[d] = live[d] /\ kept'[d] = kept[d]
        /\ pc'[s] = "idle"
        /\ conn'[s] = None
        /\ \A t \in Sessions : t # s => pc'[t] = pc[t] /\ conn'[t] = conn[t]
    BY <2>1, <2>2 DEF TypeOK
  <2>4. TypeOK'
    BY <2>1, <2>2 DEF TypeOK
  <2>5. OneHolder'
    BY <2>3 DEF OneHolder
  <2>6. \A d \in Conns : d # c /\ Free(d)' => Free(d)
    BY <2>1, <2>3 DEF Free
  <2>7. \A t \in Sessions : t # s /\ pc[t] # "idle" => conn[t] \in Conns /\ conn[t] # c
    BY <1>1, <2>1
  <2>8. ContextInv'
    BY <2>1, <2>2, <2>3, <2>6, <2>7 DEF ContextInv
  <2>9. CallerContext'
    BY <2>1, <2>3, <2>7 DEF CallerContext
  <2> QED BY <2>4, <2>5, <2>8, <2>9
<1>8. CASE UNCHANGED vars
  BY <1>8 DEF vars, TypeOK, OneHolder, ContextInv, CallerContext, Free
<1> QED BY <1>2, <1>3, <1>4, <1>5, <1>6, <1>7, <1>8 DEF Next

(* The inductive invariant: a connection has one holder, and what is kept  *)
(* on it is some caller's whole context.                                   *)
THEOREM Inductive == Spec => []SessionInv
  BY InitSession, NextSession, PTL DEF Spec

(* Sessions and connections keep their types.                              *)
THEOREM TypeCorrect == Spec => []TypeOK
<1>1. SessionInv => TypeOK
  BY DEF SessionInv
<1> QED BY <1>1, Inductive, PTL

(* Every statement of an authenticated request runs under its caller's     *)
(* context, for any pool size and whatever earlier sessions left on the    *)
(* connections.                                                            *)
THEOREM ContextIsolation == Spec => []CallerContext
<1>1. SessionInv => CallerContext
  BY DEF SessionInv
<1> QED BY <1>1, Inductive, PTL

(* No session ever meets a context made of two callers'.                   *)
THEOREM NoMixing == Spec => []NoMixedContext
<1>1. SessionInv => NoMixedContext
  BY DEF SessionInv, ContextInv, NoMixedContext, Whole
<1> QED BY <1>1, Inductive, PTL
=============================================================================
