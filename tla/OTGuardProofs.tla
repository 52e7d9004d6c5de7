---------------------------- MODULE OTGuardProofs ----------------------------
(***************************************************************************)
(* Proofs about the guard and its native layer, for every set of client    *)
(* processes and every size of the id ranges.                              *)
(***************************************************************************)
EXTENDS OTGuard, TLAPS
-----------------------------------------------------------------------------
(* What the map operators return, for maps over any keys and values.       *)

\* A new HashMap has no entry and is a map over any keys and values.
LEMMA EmptyMapFacts ==
    ASSUME NEW K, NEW V
    PROVE  IsMap(EmptyMap, K, V) /\ DOMAIN EmptyMap = {}
  BY DEF IsMap, EmptyMap

\* put adds or replaces one entry and keeps the others.
LEMMA MapPutFacts ==
    ASSUME NEW K, NEW V, NEW m, IsMap(m, K, V), NEW k \in K, NEW v \in V
    PROVE  /\ IsMap(MapPut(m, k, v), K, V)
           /\ DOMAIN MapPut(m, k, v) = DOMAIN m \cup {k}
           /\ MapPut(m, k, v)[k] = v
           /\ \A x \in DOMAIN m \ {k} : MapPut(m, k, v)[x] = m[x]
  BY DEF IsMap, MapPut

\* remove drops the given keys and keeps the other entries.
LEMMA MapRemoveFacts ==
    ASSUME NEW K, NEW V, NEW m, IsMap(m, K, V), NEW ks
    PROVE  /\ IsMap(MapRemove(m, ks), K, V)
           /\ DOMAIN MapRemove(m, ks) = DOMAIN m \ ks
           /\ \A x \in DOMAIN m \ ks : MapRemove(m, ks)[x] = m[x]
  BY DEF IsMap, MapRemove, Restrict

\* emplace adds an entry only under a key that has none, and changes no entry.
LEMMA MapEmplaceFacts ==
    ASSUME NEW K, NEW V, NEW m, IsMap(m, K, V), NEW k \in K, NEW v \in V
    PROVE  /\ IsMap(MapEmplace(m, k, v), K, V)
           /\ DOMAIN MapEmplace(m, k, v) = DOMAIN m \cup {k}
           /\ k \notin DOMAIN m => MapEmplace(m, k, v)[k] = v
           /\ \A x \in DOMAIN m : MapEmplace(m, k, v)[x] = m[x]
  BY MapPutFacts DEF IsMap, MapEmplace, MapPut
-----------------------------------------------------------------------------
(* Id ranges.                                                              *)

\* Every id range is a set of naturals that does not hold NoId, and contains 0.
LEMMA IdRanges ==
    /\ NoId \notin SmIdsInJni /\ NoId \notin SidsInJni
    /\ NoHandle \notin Handles
  BY BoundsAssumption DEF NoId, NoHandle, SmIdsInJni, SidsInJni, Handles
-----------------------------------------------------------------------------
(* Types.                                                                  *)

\* A step without a native call keeps the native types.
LEMMA NativeIdleType ==
    ASSUME NativeTypeOK, nativeIdle PROVE NativeTypeOK'
  BY DEF NativeTypeOK, nativeIdle, IsMap

\* Each native entry point keeps the native types.
LEMMA NativeContextType ==
    ASSUME NativeTypeOK, NEW ok \in BOOLEAN,
           native_teecInitializeContext(ok) \/ native_teecFinalizeContext
    PROVE  NativeTypeOK'
  <1>1. CASE native_teecInitializeContext(ok)
    BY <1>1 DEF NativeTypeOK, native_teecInitializeContext, IsMap
  <1>2. CASE native_teecFinalizeContext
    <2>1. PICK lost \in SUBSET DOMAIN teeSessions :
                 teeSessions' = MapRemove(teeSessions, lost)
      BY <1>2 DEF native_teecFinalizeContext
    <2>2. IsMap(teeSessions', Handles, Sessions)
      BY <2>1, MapRemoveFacts DEF NativeTypeOK
    <2>3. IsMap(sharedmemory_map', SmIdsInJni, Buffers)
      BY <1>2, EmptyMapFacts DEF native_teecFinalizeContext
    <2>4. QED
      BY <1>2, <2>2, <2>3 DEF NativeTypeOK, native_teecFinalizeContext
  <1>3. QED
    BY <1>1, <1>2

\* Registration in the native layer keeps its types.
LEMMA NativeRegisterType ==
    ASSUME NativeTypeOK, NEW j \in SmIdsInJni, NEW b \in Buffers, NEW ok \in BOOLEAN,
           native_teecRegisterSharedMemory(j, b, ok)
    PROVE  NativeTypeOK'
  <1>1. IsMap(sharedmemory_map', SmIdsInJni, Buffers)
    BY MapEmplaceFacts DEF NativeTypeOK, native_teecRegisterSharedMemory
  <1>2. unreferenced' \subseteq Buffers
    BY DEF native_teecRegisterSharedMemory, lostByRegistration
  <1>3. QED
    BY <1>1, <1>2 DEF NativeTypeOK, native_teecRegisterSharedMemory, IsMap

\* Release in the native layer keeps its types.
LEMMA NativeReleaseType ==
    ASSUME NativeTypeOK, NEW j, native_teecReleaseSharedMemory(j)
    PROVE  NativeTypeOK'
  <1>1. IsMap(sharedmemory_map', SmIdsInJni, Buffers)
    BY MapRemoveFacts
    DEF NativeTypeOK, native_teecReleaseSharedMemory, remove_sharedmemory_by_id
  <1>2. QED
    BY <1>1 DEF NativeTypeOK, native_teecReleaseSharedMemory, IsMap

\* The search of the native map yields buffers.
LEMMA FoundBuffersType ==
    ASSUME NativeTypeOK, NEW j
    PROVE  find_sharedmemory_by_id(j) \in SUBSET Buffers
  BY DEF NativeTypeOK, find_sharedmemory_by_id, IsMap

\* Opening a session in the native layer keeps its types.
LEMMA NativeOpenType ==
    ASSUME NativeTypeOK, NEW j \in SidsInJni, NEW s \in Sessions, NEW r,
           NEW h \in Handles \cup {NoHandle}, NEW ok \in BOOLEAN,
           native_teecOpenSession(j, s, r, h, ok)
    PROVE  NativeTypeOK'
  <1>1. CASE ok
    <2>1. h \in Handles /\ teeSessions' = MapPut(teeSessions, h, s)
      BY <1>1 DEF native_teecOpenSession
    <2>2. IsMap(teeSessions', Handles, Sessions)
      BY <2>1, MapPutFacts DEF NativeTypeOK
    <2>3. teeCommand' \subseteq Commands
      BY <1>1, FoundBuffersType DEF native_teecOpenSession, Commands, Sessions
    <2>4. QED
      BY <1>1, <2>1, <2>2, <2>3 DEF NativeTypeOK, native_teecOpenSession, IsMap
  <1>2. CASE ~ok
    BY <1>2 DEF NativeTypeOK, native_teecOpenSession, IsMap
  <1>3. QED
    BY <1>1, <1>2

\* Closing a session in the native layer keeps its types.
LEMMA NativeCloseType ==
    ASSUME NativeTypeOK, NEW j, native_teecCloseSession(j)
    PROVE  NativeTypeOK'
  <1>1. IsMap(teeSessions', Handles, Sessions)
    BY MapRemoveFacts DEF NativeTypeOK, native_teecCloseSession
  <1>2. QED
    BY <1>1 DEF NativeTypeOK, native_teecCloseSession, IsMap

\* A command in the native layer keeps its types.
LEMMA NativeInvokeType ==
    ASSUME NativeTypeOK, NEW j, NEW c \in Pids, NEW r, NEW ran \in BOOLEAN,
           native_teecInvokeCommand(j, c, r, ran)
    PROVE  NativeTypeOK'
  <1>1. teeCommand' \subseteq Commands
    BY FoundBuffersType DEF NativeTypeOK, native_teecInvokeCommand, Commands, IsMap
  <1>2. QED
    BY <1>1 DEF NativeTypeOK, native_teecInvokeCommand, IsMap
\* The search in a caller's list answers keys of that list, or NoId.
LEMMA SearchMemory ==
    ASSUME NEW c \in Pids, NEW smid, NEW j \in getSmIdInJniBySmid(c, smid)
    PROVE  j = NoId \/ j \in DOMAIN mSharedMemoryList[c]
  BY DEF getSmIdInJniBySmid, KeysOf

\* The search for a client's session yields an id of its own list, or none.
LEMMA SearchSessions ==
    ASSUME NEW c \in Pids, NEW sid, NEW j \in getSidInJniBySid(c, sid)
    PROVE  j = NoId \/ j \in DOMAIN mSessionList[c]
  BY DEF getSidInJniBySid, KeysOf

\* Replacing one caller's list by a map keeps the lists of all callers maps.
LEMMA UpdateList ==
    ASSUME NEW f, NEW K, NEW V, DOMAIN f = Pids,
           \A d \in Pids : IsMap(f[d], K, V),
           NEW c \in Pids, NEW m, IsMap(m, K, V)
    PROVE  /\ DOMAIN [f EXCEPT ![c] = m] = Pids
           /\ \A d \in Pids : IsMap([f EXCEPT ![c] = m][d], K, V)
  OBVIOUS

\* The guard's part of the type invariant.
GuardTypeOK ==
    /\ bound \subseteq Pids
    /\ mConnectedToOT \in BOOLEAN
    /\ mOTCallerList \subseteq Pids
    /\ DOMAIN mSharedMemoryList = Pids
    /\ DOMAIN mSessionList = Pids
    /\ \A c \in Pids : IsMap(mSharedMemoryList[c], SmIdsInJni, SmIds)
    /\ \A c \in Pids : IsMap(mSessionList[c], SidsInJni, Sids)
    /\ smIDMap \subseteq SmIdsInJni
    /\ IsMap(sessionIdMap, SidsInJni, Sids)
    /\ reply \in Replies
    /\ orphaned \in BOOLEAN

\* The type invariant is that of the native layer and that of the guard.
LEMMA TypeSplit == TypeOK <=> NativeTypeOK /\ GuardTypeOK
  BY DEF TypeOK, GuardTypeOK

\* The initial state is type-correct.
LEMMA TypeInit == Init => TypeOK
  <1> SUFFICES ASSUME Init PROVE TypeOK
    OBVIOUS
  <1>1. NativeTypeOK
    BY EmptyMapFacts DEF Init, NativeInit, NativeTypeOK
  <1>2. GuardTypeOK
    BY EmptyMapFacts DEF Init, GuardTypeOK, NoEntries, Replies, Calls, ReturnCodes
  <1>3. QED
    BY <1>1, <1>2, TypeSplit

\* One lemma per handler: it keeps the types.
LEMMA TypeBinding ==
    ASSUME TypeOK, NEW c \in Pids, Bind(c) \/ Unbind(c)
    PROVE  TypeOK'
  <1>1. NativeTypeOK /\ GuardTypeOK
    BY TypeSplit
  <1>2. NativeTypeOK'
    BY <1>1, NativeIdleType DEF Bind, Unbind
  <1>3. reply' \in Replies
    <2>1. \E call \in {"bind", "unbind"} : Reply(call, "VOID")
      BY DEF Bind, Unbind
    <2>2. QED
      BY <2>1 DEF Reply, Replies, Calls, ReturnCodes
  <1>4. CASE Bind(c)
    BY <1>1, <1>2, <1>3, <1>4 DEF Bind, TypeOK, GuardTypeOK, guardVars
  <1>5. CASE Unbind(c)
    <2>1. CASE bound' = {}
      BY <1>1, <1>2, <1>3, <1>5, <2>1, EmptyMapFacts
      DEF Unbind, TypeOK, GuardTypeOK, NoEntries
    <2>2. CASE bound' # {}
      BY <1>1, <1>2, <1>3, <1>5, <2>2 DEF Unbind, TypeOK, GuardTypeOK, guardVars
    <2>3. QED
      BY <2>1, <2>2
  <1>6. QED
    BY <1>4, <1>5

\* initializeContext keeps the types.
LEMMA TypeInitialize ==
    ASSUME TypeOK, NEW c \in Pids, NEW pathOk \in BOOLEAN, NEW ok \in BOOLEAN,
           InitializeContext(c, pathOk, ok)
    PROVE  TypeOK'
  <1>1. NativeTypeOK /\ GuardTypeOK
    BY TypeSplit
  <1>2. NativeTypeOK'
    BY <1>1, NativeIdleType, NativeContextType DEF InitializeContext
  <1>3. reply' \in Replies
    <2>1. \E rc \in {"SUCCESS", "TEE_ERROR", "ERROR_GENERIC"} :
             Reply("initializeContext", rc)
      BY DEF InitializeContext
    <2>2. QED
      BY <2>1 DEF Reply, Replies, Calls, ReturnCodes
  <1>4. mConnectedToOT' \in BOOLEAN /\ mOTCallerList' \subseteq Pids
    BY <1>1 DEF InitializeContext, GuardTypeOK
  <1>5. QED
    BY <1>1, <1>2, <1>3, <1>4 DEF InitializeContext, TypeOK, GuardTypeOK

\* teecFinalizeContext, to its end or aborted, keeps the types.
LEMMA TypeFinalize ==
    ASSUME TypeOK, NEW c \in Pids,
           \/ FinalizeUnknownCaller(c) \/ FinalizeThrowsInMemory(c)
           \/ FinalizeThrowsInSessions(c) \/ FinalizeContext(c)
    PROVE  TypeOK'
  <1>1. NativeTypeOK /\ GuardTypeOK
    BY TypeSplit
  <1>2. reply' \in Replies
    <2>1. \E rc \in {"VOID", "EXCEPTION"} : Reply("finalizeContext", rc)
      BY DEF FinalizeUnknownCaller, FinalizeThrowsInMemory, FinalizeThrowsInSessions,
             FinalizeContext
    <2>2. QED
      BY <2>1 DEF Reply, Replies, Calls, ReturnCodes
  <1>3. CASE FinalizeUnknownCaller(c)
    BY <1>1, <1>2, <1>3, NativeIdleType
    DEF FinalizeUnknownCaller, TypeOK, GuardTypeOK, guardVars
  <1>4. CASE FinalizeThrowsInMemory(c)
    <2>1. PICK x \in DOMAIN mSharedMemoryList[c],
               dropped \in SUBSET DOMAIN mSharedMemoryList[c] :
               /\ native_teecReleaseSharedMemory(x)
               /\ smIDMap' = smIDMap \ {x}
               /\ mSharedMemoryList' =
                    [mSharedMemoryList EXCEPT ![c] = MapRemove(@, dropped \cup {x})]
      BY <1>4 DEF FinalizeThrowsInMemory
    <2>2. NativeTypeOK'
      BY <1>1, <2>1, NativeReleaseType
    <2>3. IsMap(MapRemove(mSharedMemoryList[c], dropped \cup {x}), SmIdsInJni, SmIds)
      BY <1>1, MapRemoveFacts DEF GuardTypeOK
    <2>4. /\ DOMAIN mSharedMemoryList' = Pids
          /\ \A d \in Pids : IsMap((mSharedMemoryList')[d], SmIdsInJni, SmIds)
      BY <1>1, <2>1, <2>3, UpdateList DEF GuardTypeOK
    <2>5. QED
      BY <1>1, <1>2, <1>4, <2>1, <2>2, <2>4
      DEF FinalizeThrowsInMemory, TypeOK, GuardTypeOK
  <1>5. CASE FinalizeThrowsInSessions(c)
    <2>1. PICK x \in DOMAIN mSessionList[c], dropped \in SUBSET DOMAIN mSessionList[c] :
               /\ native_teecCloseSession(x)
               /\ sessionIdMap' = MapRemove(sessionIdMap, {x})
               /\ mSessionList' =
                    [mSessionList EXCEPT ![c] = MapRemove(@, dropped \cup {x})]
      BY <1>5 DEF FinalizeThrowsInSessions
    <2>2. NativeTypeOK'
      BY <1>1, <2>1, NativeCloseType
    <2>3. /\ IsMap(MapRemove(mSessionList[c], dropped \cup {x}), SidsInJni, Sids)
          /\ IsMap(sessionIdMap', SidsInJni, Sids)
      BY <1>1, <2>1, MapRemoveFacts DEF GuardTypeOK
    <2>4. /\ DOMAIN mSessionList' = Pids
          /\ \A d \in Pids : IsMap((mSessionList')[d], SidsInJni, Sids)
      BY <1>1, <2>1, <2>3, UpdateList DEF GuardTypeOK
    <2>5. mSharedMemoryList' = [mSharedMemoryList EXCEPT ![c] = EmptyMap]
      BY <1>5 DEF FinalizeThrowsInSessions
    <2>6. /\ DOMAIN mSharedMemoryList' = Pids
          /\ \A d \in Pids : IsMap((mSharedMemoryList')[d], SmIdsInJni, SmIds)
      BY <1>1, <2>5, EmptyMapFacts, UpdateList DEF GuardTypeOK
    <2>7. QED
      BY <1>1, <1>2, <1>5, <2>2, <2>3, <2>4, <2>6
      DEF FinalizeThrowsInSessions, TypeOK, GuardTypeOK
  <1>6. CASE FinalizeContext(c)
    <2>1. NativeTypeOK'
      BY <1>1, <1>6, NativeIdleType, NativeContextType DEF FinalizeContext
    <2>2. /\ mSharedMemoryList' = [mSharedMemoryList EXCEPT ![c] = EmptyMap]
          /\ mSessionList' = [mSessionList EXCEPT ![c] = EmptyMap]
      BY <1>6 DEF FinalizeContext
    <2>3. /\ DOMAIN mSharedMemoryList' = Pids
          /\ \A d \in Pids : IsMap((mSharedMemoryList')[d], SmIdsInJni, SmIds)
      BY <1>1, <2>2, EmptyMapFacts, UpdateList DEF GuardTypeOK
    <2>4. /\ DOMAIN mSessionList' = Pids
          /\ \A d \in Pids : IsMap((mSessionList')[d], SidsInJni, Sids)
      BY <1>1, <2>2, EmptyMapFacts, UpdateList DEF GuardTypeOK
    <2>5. QED
      BY <1>1, <1>2, <1>6, <2>1, <2>3, <2>4 DEF FinalizeContext, TypeOK, GuardTypeOK
  <1>7. QED
    BY <1>3, <1>4, <1>5, <1>6

\* teecRegisterSharedMemory keeps the types.
LEMMA TypeRegister ==
    ASSUME TypeOK, NEW c \in Pids, NEW smid \in SmIds, NEW ok \in BOOLEAN,
           RegisterSharedMemory(c, smid, ok)
    PROVE  TypeOK'
  <1>1. NativeTypeOK /\ GuardTypeOK
    BY TypeSplit
  <1>2. reply' \in Replies
    <2>1. \E rc \in {"SUCCESS", "TEE_ERROR", "ACCESS_DENIED"} :
             Reply("registerSharedMemory", rc)
      BY DEF RegisterSharedMemory
    <2>2. QED
      BY <2>1 DEF Reply, Replies, Calls, ReturnCodes
  <1>3. CASE c \notin mOTCallerList
    BY <1>1, <1>2, <1>3, NativeIdleType DEF RegisterSharedMemory, TypeOK, GuardTypeOK
  <1>4. CASE c \in mOTCallerList
    <2>1. PICK j \in generateSharedMemoryId :
               /\ native_teecRegisterSharedMemory(j, [pid |-> c, smid |-> smid], ok)
               /\ IF ok
                  THEN /\ mSharedMemoryList' =
                            [mSharedMemoryList EXCEPT ![c] = MapPut(@, j, smid)]
                       /\ smIDMap' = smIDMap \cup {j}
                  ELSE UNCHANGED <<mSharedMemoryList, smIDMap>>
      BY <1>4 DEF RegisterSharedMemory
    <2>2. j \in SmIdsInJni /\ [pid |-> c, smid |-> smid] \in Buffers
      BY DEF generateSharedMemoryId, Buffers
    <2>3. NativeTypeOK'
      BY <1>1, <2>1, <2>2, NativeRegisterType
    <2>4. IsMap(MapPut(mSharedMemoryList[c], j, smid), SmIdsInJni, SmIds)
      BY <1>1, <2>2, MapPutFacts DEF GuardTypeOK
    <2>5. /\ DOMAIN mSharedMemoryList' = Pids
          /\ \A d \in Pids : IsMap((mSharedMemoryList')[d], SmIdsInJni, SmIds)
          /\ smIDMap' \subseteq SmIdsInJni
      <3> DEFINE list == MapPut(mSharedMemoryList[c], j, smid)
      <3>1. /\ DOMAIN mSharedMemoryList = Pids
            /\ \A d \in Pids : IsMap(mSharedMemoryList[d], SmIdsInJni, SmIds)
            /\ smIDMap \subseteq SmIdsInJni
        BY <1>1 DEF GuardTypeOK
      <3>2. CASE ok
        <4>1. mSharedMemoryList' = [mSharedMemoryList EXCEPT ![c] = list]
              /\ smIDMap' = smIDMap \cup {j}
          BY <2>1, <3>2
        <4> HIDE DEF list
        <4>2. IsMap(list, SmIdsInJni, SmIds)
          BY <2>4 DEF list
        <4> QED
          BY <3>1, <4>1, <4>2, <2>2, UpdateList
      <3>3. CASE ~ok
        BY <2>1, <3>1, <3>3
      <3> QED
        BY <3>2, <3>3
    <2>6. QED
      BY <1>1, <1>2, <2>3, <2>5 DEF RegisterSharedMemory, TypeOK, GuardTypeOK
  <1>5. QED
    BY <1>3, <1>4

\* teecReleaseSharedMemory keeps the types.
LEMMA TypeRelease ==
    ASSUME TypeOK, NEW c \in Pids, NEW smid \in SmIds, ReleaseSharedMemory(c, smid)
    PROVE  TypeOK'
  <1>1. NativeTypeOK /\ GuardTypeOK
    BY TypeSplit
  <1>2. reply' \in Replies
    BY DEF ReleaseSharedMemory, Reply, Replies, Calls, ReturnCodes
  <1>3. CASE c \notin mOTCallerList
    BY <1>1, <1>2, <1>3, NativeIdleType DEF ReleaseSharedMemory, TypeOK, GuardTypeOK
  <1>4. CASE c \in mOTCallerList
    <2>1. PICK j \in getSmIdInJniBySmid(c, smid) :
               \/ nativeIdle /\ UNCHANGED <<mSharedMemoryList, smIDMap>>
               \/ /\ native_teecReleaseSharedMemory(j)
                  /\ smIDMap' = smIDMap \ {j}
                  /\ mSharedMemoryList' =
                       [mSharedMemoryList EXCEPT ![c] = MapRemove(@, {j})]
      BY <1>4 DEF ReleaseSharedMemory
    <2>2. NativeTypeOK'
      BY <1>1, <2>1, NativeIdleType, NativeReleaseType
    <2>3. IsMap(MapRemove(mSharedMemoryList[c], {j}), SmIdsInJni, SmIds)
      BY <1>1, MapRemoveFacts DEF GuardTypeOK
    <2>4. /\ DOMAIN mSharedMemoryList' = Pids
          /\ \A d \in Pids : IsMap((mSharedMemoryList')[d], SmIdsInJni, SmIds)
          /\ smIDMap' \subseteq SmIdsInJni
      BY <1>1, <2>1, <2>3, UpdateList DEF GuardTypeOK
    <2>5. QED
      BY <1>1, <1>2, <2>2, <2>4 DEF ReleaseSharedMemory, TypeOK, GuardTypeOK
  <1>5. QED
    BY <1>3, <1>4

\* teecOpenSession keeps the types.
LEMMA TypeOpen ==
    ASSUME TypeOK, NEW c \in Pids, NEW sid \in Sids, NEW ref,
           NEW ok \in BOOLEAN, OpenSession(c, sid, ref, ok)
    PROVE  TypeOK'
  <1>1. NativeTypeOK /\ GuardTypeOK
    BY TypeSplit
  <1>2. reply' \in Replies
    <2>1. \E rc \in {"SUCCESS", "TEE_ERROR", "ACCESS_DENIED"} :
             Reply("openSession", rc)
      BY DEF OpenSession
    <2>2. QED
      BY <2>1 DEF Reply, Replies, Calls, ReturnCodes
  <1>3. CASE c \notin mOTCallerList
    BY <1>1, <1>2, <1>3, NativeIdleType DEF OpenSession, TypeOK, GuardTypeOK
  <1>4. CASE c \in mOTCallerList
    <2>1. PICK j \in generateSessionId, r \in replaceSMId(c, ref),
               h \in Handles \cup {NoHandle} :
               /\ native_teecOpenSession(j, [pid |-> c, sid |-> sid], r, h, ok)
               /\ IF ok
                  THEN /\ mSessionList' = [mSessionList EXCEPT ![c] = MapPut(@, j, sid)]
                       /\ sessionIdMap' = MapPut(sessionIdMap, j, sid)
                  ELSE UNCHANGED <<mSessionList, sessionIdMap>>
      BY <1>4 DEF OpenSession
    <2>2. j \in SidsInJni /\ [pid |-> c, sid |-> sid] \in Sessions
      BY DEF generateSessionId, Sessions
    <2>3. NativeTypeOK'
      BY <1>1, <2>1, <2>2, NativeOpenType
    <2>4. /\ IsMap(MapPut(mSessionList[c], j, sid), SidsInJni, Sids)
          /\ IsMap(MapPut(sessionIdMap, j, sid), SidsInJni, Sids)
      BY <1>1, <2>2, MapPutFacts DEF GuardTypeOK
    <2>5. /\ DOMAIN mSessionList' = Pids
          /\ \A d \in Pids : IsMap((mSessionList')[d], SidsInJni, Sids)
          /\ IsMap(sessionIdMap', SidsInJni, Sids)
      BY <1>1, <2>1, <2>2, <2>4, UpdateList DEF GuardTypeOK
    <2>6. QED
      BY <1>1, <1>2, <2>3, <2>5 DEF OpenSession, TypeOK, GuardTypeOK
  <1>5. QED
    BY <1>3, <1>4

\* teecCloseSession keeps the types.
LEMMA TypeClose ==
    ASSUME TypeOK, NEW c \in Pids, NEW sid \in Sids, CloseSession(c, sid)
    PROVE  TypeOK'
  <1>1. NativeTypeOK /\ GuardTypeOK
    BY TypeSplit
  <1>2. reply' \in Replies
    BY DEF CloseSession, Reply, Replies, Calls, ReturnCodes
  <1>3. CASE c \notin mOTCallerList
    BY <1>1, <1>2, <1>3, NativeIdleType DEF CloseSession, TypeOK, GuardTypeOK
  <1>4. CASE c \in mOTCallerList
    <2>1. PICK j \in getSidInJniBySid(c, sid) :
               \/ nativeIdle /\ UNCHANGED <<mSessionList, sessionIdMap>>
               \/ /\ native_teecCloseSession(j)
                  /\ sessionIdMap' = MapRemove(sessionIdMap, {j})
                  /\ mSessionList' = [mSessionList EXCEPT ![c] = MapRemove(@, {j})]
      BY <1>4 DEF CloseSession
    <2>2. NativeTypeOK'
      BY <1>1, <2>1, NativeIdleType, NativeCloseType
    <2>3. /\ IsMap(MapRemove(mSessionList[c], {j}), SidsInJni, Sids)
          /\ IsMap(MapRemove(sessionIdMap, {j}), SidsInJni, Sids)
      BY <1>1, MapRemoveFacts DEF GuardTypeOK
    <2>4. /\ DOMAIN mSessionList' = Pids
          /\ \A d \in Pids : IsMap((mSessionList')[d], SidsInJni, Sids)
          /\ IsMap(sessionIdMap', SidsInJni, Sids)
      BY <1>1, <2>1, <2>3, UpdateList DEF GuardTypeOK
    <2>5. QED
      BY <1>1, <1>2, <2>2, <2>4 DEF CloseSession, TypeOK, GuardTypeOK
  <1>5. QED
    BY <1>3, <1>4

\* teecInvokeCommand keeps the types.
LEMMA TypeInvoke ==
    ASSUME TypeOK, NEW c \in Pids, NEW sid \in Sids, NEW ref,
           NEW ran \in BOOLEAN, InvokeCommand(c, sid, ref, ran)
    PROVE  TypeOK'
  <1>1. NativeTypeOK /\ GuardTypeOK
    BY TypeSplit
  <1>2. reply' \in Replies
    <2>1. \E rc \in ReturnCodes : Reply("invokeCommand", rc)
      BY DEF InvokeCommand, unlessOperation, ReturnCodes
    <2>2. QED
      BY <2>1 DEF Reply, Replies, Calls
  <1>3. NativeTypeOK'
    <2>1. CASE nativeIdle
      BY <1>1, <2>1, NativeIdleType
    <2>2. CASE ~nativeIdle
      <3>1. PICK j \in getSidInJniBySid(c, sid), r \in replaceSMId(c, ref) :
                 native_teecInvokeCommand(j, c, r, ran)
        BY <2>2 DEF InvokeCommand
      <3>2. QED
        BY <1>1, <3>1, NativeInvokeType
    <2>3. QED
      BY <2>1, <2>2
  <1>4. QED
    BY <1>1, <1>2, <1>3 DEF InvokeCommand, TypeOK, GuardTypeOK, guardVars

\* Every step keeps the types, handler by handler.
LEMMA TypeStep == TypeOK /\ [Next]_vars => TypeOK'
  <1> SUFFICES ASSUME TypeOK, [Next]_vars PROVE TypeOK'
    OBVIOUS
  <1>1. CASE UNCHANGED vars
    BY <1>1 DEF vars, nativeVars, guardVars, TypeOK, NativeTypeOK, IsMap
  <1>2. CASE Next
    <2>1. PICK c \in Pids :
        \/ Bind(c)
        \/ Unbind(c)
        \/ \E pathOk, ok \in BOOLEAN : InitializeContext(c, pathOk, ok)
        \/ FinalizeUnknownCaller(c)
        \/ FinalizeThrowsInMemory(c)
        \/ FinalizeThrowsInSessions(c)
        \/ FinalizeContext(c)
        \/ \E smid \in SmIds, ok \in BOOLEAN : RegisterSharedMemory(c, smid, ok)
        \/ \E smid \in SmIds : ReleaseSharedMemory(c, smid)
        \/ \E sid \in Sids, ok \in BOOLEAN, ref \in SmIds \cup {NoId} :
              \/ OpenSession(c, sid, ref, ok)
              \/ InvokeCommand(c, sid, ref, ok)
        \/ \E sid \in Sids : CloseSession(c, sid)
      BY <1>2 DEF Next
    <2>2. QED
      BY <2>1, TypeBinding, TypeInitialize, TypeFinalize, TypeRegister, TypeRelease,
         TypeOpen, TypeClose, TypeInvoke
  <1>3. QED
    BY <1>1, <1>2

\* Every variable of the guard and the native layer keeps its type: in
\* particular no id outside its generator's range is ever stored.
THEOREM TypeCorrect == Spec => []TypeOK
  BY TypeInit, TypeStep, PTL DEF Spec
=============================================================================
