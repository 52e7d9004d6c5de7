------------------------ MODULE OTGuardSessionProofs ------------------------
(***************************************************************************)
(* Sessions: the callers' records, the session ids the guard reserves and  *)
(* the ids the native layer knows stay consistent, so that teecInvokeCommand *)
(* never finds a session in a record that the native layer has lost.       *)
(***************************************************************************)
EXTENDS OTGuardProofs

\* No session is added or removed, and no caller leaves.
KeepSessions ==
    /\ UNCHANGED <<mSessionList, sessionIdMap>>
    /\ sessions_map \subseteq sessions_map'
    /\ mOTCallerList \subseteq mOTCallerList'

\* Caller c gets a session under an id the guard has not reserved.
AddSession(c, j, sid) ==
    /\ c \in mOTCallerList
    /\ j \in SidsInJni \ DOMAIN sessionIdMap
    /\ sessions_map' = sessions_map \cup {j}
    /\ mSessionList' = [mSessionList EXCEPT ![c] = MapPut(@, j, sid)]
    /\ sessionIdMap' = MapPut(sessionIdMap, j, sid)
    /\ UNCHANGED mOTCallerList

\* Session x of caller c is closed; its record loses x and the entries in gone.
DropSession(c, x, gone) ==
    /\ c \in mOTCallerList
    /\ x \in DOMAIN mSessionList[c]
    /\ mSessionList' = [mSessionList EXCEPT ![c] = MapRemove(@, gone \cup {x})]
    /\ sessionIdMap' = MapRemove(sessionIdMap, {x})
    /\ UNCHANGED <<mOTCallerList, sessions_map>>

\* Caller c leaves and its record with it; others keep theirs.
ForgetSessions(c) ==
    /\ mSessionList' = [mSessionList EXCEPT ![c] = EmptyMap]
    /\ mOTCallerList' = mOTCallerList \ {c}
    /\ mOTCallerList' = {} \/ UNCHANGED sessions_map
    /\ UNCHANGED sessionIdMap

\* The guard is dropped with all its tables.
ResetSessions ==
    /\ mSessionList' = NoEntries
    /\ mOTCallerList' = {}
    /\ sessionIdMap' = EmptyMap

SessionEffect ==
    \/ KeepSessions
    \/ \E c \in Pids, j \in SidsInJni, sid \in Sids : AddSession(c, j, sid)
    \/ \E c \in Pids, x \in SidsInJni, gone \in SUBSET SidsInJni : DropSession(c, x, gone)
    \/ \E c \in Pids : ForgetSessions(c)
    \/ ResetSessions

\* teecFinalizeContext, to its end or aborted, is one of the effects on sessions.
LEMMA FinalizeSessionEffect ==
    ASSUME TypeOK, NEW c \in Pids,
           \/ FinalizeUnknownCaller(c) \/ FinalizeThrowsInMemory(c)
           \/ FinalizeThrowsInSessions(c) \/ FinalizeContext(c)
    PROVE  SessionEffect
  <1>1. CASE FinalizeUnknownCaller(c) \/ FinalizeThrowsInMemory(c)
    <2>1. KeepSessions
      BY <1>1 DEF FinalizeUnknownCaller, FinalizeThrowsInMemory, KeepSessions,
         guardVars, nativeIdle, native_teecReleaseSharedMemory
    <2>2. QED
      BY <2>1 DEF SessionEffect
  <1>2. CASE FinalizeThrowsInSessions(c)
    <2>1. PICK x \in DOMAIN mSessionList[c], dropped \in SUBSET DOMAIN mSessionList[c] :
               /\ native_teecCloseSession(x)
               /\ sessionIdMap' = MapRemove(sessionIdMap, {x})
               /\ mSessionList' =
                    [mSessionList EXCEPT ![c] = MapRemove(@, dropped \cup {x})]
      BY <1>2 DEF FinalizeThrowsInSessions
    <2>2. DropSession(c, x, dropped)
      BY <1>2, <2>1 DEF DropSession, FinalizeThrowsInSessions, native_teecCloseSession
    <2>3. x \in SidsInJni /\ dropped \in SUBSET SidsInJni
      BY DEF TypeOK, IsMap
    <2>4. QED
      BY <2>2, <2>3 DEF SessionEffect
  <1>3. CASE FinalizeContext(c)
    <2>1. ForgetSessions(c)
      BY <1>3 DEF FinalizeContext, LastCallerLeaves, ForgetSessions, nativeIdle
    <2>2. QED
      BY <2>1 DEF SessionEffect
  <1>4. QED
    BY <1>1, <1>2, <1>3

\* teecOpenSession adds one session under a fresh id, or changes nothing.
LEMMA OpenSessionEffect ==
    ASSUME TypeOK, NEW c \in Pids, NEW sid \in Sids, NEW ref,
           NEW ok \in BOOLEAN, OpenSession(c, sid, ref, ok)
    PROVE  SessionEffect
  <1>1. CASE c \in mOTCallerList /\ ok
    <2>1. PICK j \in generateSessionId, r \in replaceSMId(c, ref),
               h \in Handles \cup {NoHandle} :
               /\ native_teecOpenSession(j, [pid |-> c, sid |-> sid], r, h, ok)
               /\ mSessionList' = [mSessionList EXCEPT ![c] = MapPut(@, j, sid)]
               /\ sessionIdMap' = MapPut(sessionIdMap, j, sid)
      BY <1>1 DEF OpenSession
    <2>2. AddSession(c, j, sid)
      BY <1>1, <2>1 DEF OpenSession, AddSession, generateSessionId, native_teecOpenSession
    <2>3. j \in SidsInJni
      BY DEF generateSessionId
    <2>4. QED
      BY <2>2, <2>3 DEF SessionEffect
  <1>2. CASE ~(c \in mOTCallerList /\ ok)
    <2>1. KeepSessions
      BY <1>2 DEF OpenSession, KeepSessions, nativeIdle, native_teecOpenSession
    <2>2. QED
      BY <2>1 DEF SessionEffect
  <1>3. QED
    BY <1>1, <1>2

\* teecCloseSession drops sessions of its own caller alone.
LEMMA CloseSessionEffect ==
    ASSUME TypeOK, NEW c \in Pids, NEW sid \in Sids, CloseSession(c, sid)
    PROVE  SessionEffect
  <1>1. CASE nativeIdle /\ UNCHANGED <<mSessionList, sessionIdMap>>
    <2>1. KeepSessions
      BY <1>1 DEF CloseSession, KeepSessions, nativeIdle
    <2>2. QED
      BY <2>1 DEF SessionEffect
  <1>2. CASE ~(nativeIdle /\ UNCHANGED <<mSessionList, sessionIdMap>>)
    <2>1. c \in mOTCallerList
      BY <1>2 DEF CloseSession
    <2>2. PICK j \in getSidInJniBySid(c, sid) :
               /\ j # NoId
               /\ native_teecCloseSession(j)
               /\ sessionIdMap' = MapRemove(sessionIdMap, {j})
               /\ mSessionList' = [mSessionList EXCEPT ![c] = MapRemove(@, {j})]
      BY <1>2 DEF CloseSession
    <2>3. j \in DOMAIN mSessionList[c] /\ j \in SidsInJni
      BY <2>2, SearchSessions DEF TypeOK, IsMap
    <2>4. DropSession(c, j, {})
      BY <2>1, <2>2, <2>3 DEF CloseSession, DropSession, native_teecCloseSession
    <2>5. QED
      BY <2>3, <2>4 DEF SessionEffect
  <1>3. QED
    BY <1>1, <1>2

\* Every step has one of the five effects.
LEMMA SessionEffects ==
    ASSUME TypeOK, [Next]_vars
    PROVE  SessionEffect
  <1>1. ASSUME NEW c \in Pids, Bind(c) \/ Unbind(c)
        PROVE  SessionEffect
    <2>1. CASE Bind(c) \/ (Unbind(c) /\ bound' # {})
      <3>1. KeepSessions
        BY <2>1 DEF Bind, Unbind, KeepSessions, guardVars, nativeIdle
      <3>2. QED
        BY <3>1 DEF SessionEffect
    <2>2. CASE Unbind(c) /\ bound' = {}
      <3>1. ResetSessions
        BY <2>2 DEF Unbind, ResetSessions
      <3>2. QED
        BY <3>1 DEF SessionEffect
    <2>3. QED
      BY <1>1, <2>1, <2>2
  <1>2. ASSUME NEW c \in Pids, NEW pathOk \in BOOLEAN, NEW ok \in BOOLEAN,
               NEW smid \in SmIds,
               \/ InitializeContext(c, pathOk, ok)
               \/ RegisterSharedMemory(c, smid, ok)
               \/ ReleaseSharedMemory(c, smid)
        PROVE  SessionEffect
    <2>1. KeepSessions
      BY <1>2 DEF InitializeContext, RegisterSharedMemory, ReleaseSharedMemory,
         KeepSessions, nativeIdle, native_teecInitializeContext,
         native_teecRegisterSharedMemory, native_teecReleaseSharedMemory
    <2>2. QED
      BY <2>1 DEF SessionEffect
  <1>3. ASSUME NEW c \in Pids, NEW sid \in Sids,
               NEW ref \in SmIds \cup {NoId}, NEW ran \in BOOLEAN,
               InvokeCommand(c, sid, ref, ran)
        PROVE  SessionEffect
    <2>1. KeepSessions
      BY <1>3 DEF InvokeCommand, KeepSessions, guardVars, nativeIdle,
         native_teecInvokeCommand
    <2>2. QED
      BY <2>1 DEF SessionEffect
  <1>4. CASE UNCHANGED vars
    <2>1. KeepSessions
      BY <1>4 DEF vars, guardVars, nativeVars, KeepSessions
    <2>2. QED
      BY <2>1 DEF SessionEffect
  <1>5. 0 \in SmIds
    BY BoundsAssumption DEF SmIds
  <1>6. CASE Next
    BY <1>1, <1>2, <1>3, <1>5, <1>6, FinalizeSessionEffect, OpenSessionEffect,
       CloseSessionEffect DEF Next
  <1>7. QED
    BY <1>4, <1>6
-----------------------------------------------------------------------------
(* The inductive invariant: closing needs exclusiveness, the native         *)
(* finalisation needs that only callers have sessions.                      *)
SessionInv ==
    /\ TypeOK
    /\ SessionsOnlyOfCallers
    /\ SessionIdsExclusive
    /\ SessionsBackedByNative

\* A new guard lists no session, so the session invariant holds at the start.
LEMMA SessionInvInit == Init => SessionInv
  <1> SUFFICES ASSUME Init PROVE SessionInv
    OBVIOUS
  <1>1. TypeOK
    BY TypeInit
  <1>2. \A c \in Pids : DOMAIN mSessionList[c] = {}
    BY EmptyMapFacts DEF Init, NoEntries
  <1>3. QED
    BY <1>1, <1>2 DEF SessionInv, SessionsOnlyOfCallers, SessionIdsExclusive,
       SessionsBackedByNative

\* A new session keeps it: the id is fresh in sessionIdMap, hence in every list.
LEMMA AddSessionInv ==
    ASSUME SessionInv, TypeOK', NEW c \in Pids, NEW j \in SidsInJni, NEW sid \in Sids,
           AddSession(c, j, sid)
    PROVE  SessionInv'
  <1> DEFINE list == MapPut(mSessionList[c], j, sid)
  <1>1. /\ (mSessionList')[c] = list
        /\ \A d \in Pids \ {c} : (mSessionList')[d] = mSessionList[d]
    BY DEF AddSession, SessionInv, TypeOK
  <1>2. /\ DOMAIN list = DOMAIN mSessionList[c] \cup {j}
        /\ list[j] = sid
        /\ \A x \in DOMAIN mSessionList[c] \ {j} : list[x] = mSessionList[c][x]
    BY DEF MapPut
  <1>3. /\ DOMAIN sessionIdMap' = DOMAIN sessionIdMap \cup {j}
        /\ sessionIdMap'[j] = sid
        /\ \A x \in DOMAIN sessionIdMap \ {j} : sessionIdMap'[x] = sessionIdMap[x]
    BY DEF AddSession, MapPut
  <1>4. /\ c \in mOTCallerList /\ mOTCallerList' = mOTCallerList
        /\ sessions_map' = sessions_map \cup {j}
        /\ j \notin DOMAIN sessionIdMap
    BY DEF AddSession
  <1>5. \A d \in Pids : j \notin DOMAIN mSessionList[d]
    BY <1>4 DEF SessionInv, SessionIdsExclusive
  <1> HIDE DEF list
  <1>6. SessionsOnlyOfCallers' /\ SessionsBackedByNative'
    BY <1>1, <1>2, <1>4 DEF SessionInv, SessionsOnlyOfCallers, SessionsBackedByNative
  <1>7. SessionIdsExclusive'
    <2> SUFFICES ASSUME NEW d \in Pids, NEW x \in DOMAIN (mSessionList')[d]
                 PROVE  /\ x \in DOMAIN sessionIdMap'
                        /\ sessionIdMap'[x] = (mSessionList')[d][x]
                        /\ \A e \in Pids \ {d} : x \notin DOMAIN (mSessionList')[e]
      BY DEF SessionIdsExclusive
    <2>1. CASE d = c /\ x = j
      BY <1>1, <1>2, <1>3, <1>5, <2>1
    <2>2. CASE ~(d = c /\ x = j)
      <3>1. x \in DOMAIN mSessionList[d] /\ x # j
            /\ (mSessionList')[d][x] = mSessionList[d][x]
        BY <1>1, <1>2, <1>5, <2>2
      <3>2. QED
        BY <1>1, <1>2, <1>3, <3>1 DEF SessionInv, SessionIdsExclusive
    <2>3. QED
      BY <2>1, <2>2
  <1>8. QED
    BY <1>6, <1>7 DEF SessionInv

\* Dropping sessions of one caller keeps it: no other caller lists those ids.
LEMMA DropSessionInv ==
    ASSUME SessionInv, TypeOK', NEW c \in Pids, NEW x \in SidsInJni,
           NEW gone \in SUBSET SidsInJni, DropSession(c, x, gone)
    PROVE  SessionInv'
  <1> DEFINE list == MapRemove(mSessionList[c], gone \cup {x})
  <1>1. /\ (mSessionList')[c] = list
        /\ \A d \in Pids \ {c} : (mSessionList')[d] = mSessionList[d]
    BY DEF DropSession, SessionInv, TypeOK
  <1>2. /\ DOMAIN list = DOMAIN mSessionList[c] \ (gone \cup {x})
        /\ \A y \in DOMAIN list : list[y] = mSessionList[c][y]
    BY DEF MapRemove, Restrict
  <1>3. /\ DOMAIN sessionIdMap' = DOMAIN sessionIdMap \ {x}
        /\ \A y \in DOMAIN sessionIdMap \ {x} : sessionIdMap'[y] = sessionIdMap[y]
    BY DEF DropSession, MapRemove, Restrict
  <1> HIDE DEF list
  <1>4. \A d \in Pids : /\ DOMAIN (mSessionList')[d] \subseteq DOMAIN mSessionList[d]
                        /\ x \notin DOMAIN (mSessionList')[d]
                        /\ \A y \in DOMAIN (mSessionList')[d] :
                              (mSessionList')[d][y] = mSessionList[d][y]
    BY <1>1, <1>2 DEF DropSession, SessionInv, SessionIdsExclusive
  <1>5. SessionsOnlyOfCallers' /\ SessionsBackedByNative'
    BY <1>4 DEF DropSession, SessionInv, SessionsOnlyOfCallers, SessionsBackedByNative
  <1>6. SessionIdsExclusive'
    BY <1>3, <1>4 DEF SessionInv, SessionIdsExclusive
  <1>7. QED
    BY <1>5, <1>6 DEF SessionInv

\* A caller that leaves, and a new guard, keep it.
LEMMA LeaveSessionInv ==
    ASSUME SessionInv, TypeOK', (\E c \in Pids : ForgetSessions(c)) \/ ResetSessions
    PROVE  SessionInv'
  <1> USE EmptyMapFacts
  <1>1. CASE ResetSessions
    <2>1. \A d \in Pids : DOMAIN (mSessionList')[d] = {}
      BY <1>1 DEF ResetSessions, NoEntries
    <2>2. QED
      BY <2>1 DEF SessionInv, SessionsOnlyOfCallers, SessionIdsExclusive,
         SessionsBackedByNative
  <1>2. ASSUME NEW c \in Pids, ForgetSessions(c)
        PROVE  SessionInv'
    <2>1. /\ DOMAIN (mSessionList')[c] = {}
          /\ \A d \in Pids \ {c} : (mSessionList')[d] = mSessionList[d]
      BY <1>2 DEF ForgetSessions, SessionInv, TypeOK
    <2>2. SessionsOnlyOfCallers' /\ SessionIdsExclusive'
      BY <1>2, <2>1 DEF ForgetSessions, SessionInv, SessionsOnlyOfCallers,
         SessionIdsExclusive
    <2>3. SessionsBackedByNative'
      BY <1>2, <2>1, <2>2 DEF ForgetSessions, SessionInv, SessionsOnlyOfCallers,
         SessionsBackedByNative
    <2>4. QED
      BY <2>2, <2>3 DEF SessionInv
  <1>3. QED
    BY <1>1, <1>2

\* Every step of the guard keeps the session invariant, effect by effect.
LEMMA SessionInvStep == SessionInv /\ [Next]_vars => SessionInv'
  <1> SUFFICES ASSUME SessionInv, [Next]_vars PROVE SessionInv'
    OBVIOUS
  <1>1. TypeOK /\ TypeOK'
    BY TypeStep DEF SessionInv
  <1>2. SessionEffect
    BY <1>1, SessionEffects
  <1>3. CASE KeepSessions
    BY <1>1, <1>3 DEF KeepSessions, SessionInv, SessionsOnlyOfCallers,
       SessionIdsExclusive, SessionsBackedByNative
  <1>4. QED
    BY <1>1, <1>2, <1>3, AddSessionInv, DropSessionInv, LeaveSessionInv
    DEF SessionEffect

\* The session invariant holds in every reachable state.
LEMMA SessionInvariant == Spec => []SessionInv
  BY SessionInvInit, SessionInvStep, PTL DEF Spec

\* An id drawn by generateSessionId belongs to one caller at most, and the
\* guard's sessionIdMap holds the client id under which that caller knows it.
THEOREM SessionIdsAreExclusive == Spec => []SessionIdsExclusive
  <1>1. SessionInv => SessionIdsExclusive
    BY DEF SessionInv
  <1>2. QED
    BY <1>1, SessionInvariant, PTL

\* Whatever session a caller's record lists, the native layer still knows,
\* whatever other callers close or finalise, and across service restarts.
THEOREM SessionsAreBacked == Spec => []SessionsBackedByNative
  <1>1. SessionInv => SessionsBackedByNative
    BY DEF SessionInv
  <1>2. QED
    BY <1>1, SessionInvariant, PTL

\* teecInvokeCommand never meets a session that the native layer has lost, so it
\* never dereferences the null operation returned for one.
THEOREM InvokeIsSafe == Spec => []InvokeNeverThrows
  <1>1. Init => InvokeNeverThrows
    BY DEF Init, InvokeNeverThrows
  <1>2. SessionInv /\ InvokeNeverThrows /\ [Next]_vars => InvokeNeverThrows'
    <2> SUFFICES ASSUME SessionInv, InvokeNeverThrows, [Next]_vars
                 PROVE  InvokeNeverThrows'
      OBVIOUS
    <2>1. ASSUME NEW c \in Pids, NEW sid \in Sids,
                 NEW ref \in SmIds \cup {NoId}, NEW ran \in BOOLEAN,
                 InvokeCommand(c, sid, ref, ran)
          PROVE  InvokeNeverThrows'
      <3>1. \A j \in getSidInJniBySid(c, sid) : j = NoId \/ j \in sessions_map
        BY SearchSessions DEF SessionInv, SessionsBackedByNative
      <3>2. \E rc \in {"ACCESS_DENIED", "BAD_PARAMETERS", "TEE_ERROR", "SUCCESS"} : Reply("invokeCommand", rc)
        BY <2>1, <3>1 DEF InvokeCommand
      <3>3. QED
        BY <3>2 DEF Reply, InvokeNeverThrows
    <2>2. CASE UNCHANGED vars
      BY <2>2 DEF vars, InvokeNeverThrows
    <2>3. CASE Next /\ reply'.call = "invokeCommand"
      <3>1. \A c \in Pids : ~Bind(c) /\ ~Unbind(c)
        BY <2>3 DEF Bind, Unbind, Reply
      <3>2. \A c \in Pids : \A pathOk, ok \in BOOLEAN : ~InitializeContext(c, pathOk, ok)
        BY <2>3 DEF InitializeContext, Reply
      <3>3. \A c \in Pids : /\ ~FinalizeUnknownCaller(c) /\ ~FinalizeThrowsInMemory(c)
                            /\ ~FinalizeThrowsInSessions(c) /\ ~FinalizeContext(c)
        BY <2>3 DEF FinalizeUnknownCaller, FinalizeThrowsInMemory,
           FinalizeThrowsInSessions, FinalizeContext, Reply
      <3>4. \A c \in Pids, smid \in SmIds : \A ok \in BOOLEAN :
               ~RegisterSharedMemory(c, smid, ok) /\ ~ReleaseSharedMemory(c, smid)
        BY <2>3 DEF RegisterSharedMemory, ReleaseSharedMemory, Reply
      <3>5. \A c \in Pids, sid \in Sids : ~CloseSession(c, sid)
        BY <2>3 DEF CloseSession, Reply
      <3>6. \A c \in Pids, sid \in Sids, ok \in BOOLEAN, ref \in SmIds \cup {NoId} :
               ~OpenSession(c, sid, ref, ok)
        BY <2>3 DEF OpenSession, Reply
      <3>7. QED
        BY <2>1, <2>3, <3>1, <3>2, <3>3, <3>4, <3>5, <3>6 DEF Next
    <2>4. QED
      BY <2>2, <2>3 DEF InvokeNeverThrows
  <1>3. QED
    BY <1>1, <1>2, SessionInvariant, PTL DEF Spec
=============================================================================
