------------------------ MODULE OTGuardMemoryProofs ------------------------
(***************************************************************************)
(* Shared memory: the records of the callers, the ids the guard reserves   *)
(* and the buffers of the native layer stay consistent.                    *)
(*                                                                         *)
(* Every step of the specification has one of six effects on these three   *)
(* tables (lemma MemoryEffects); the invariants are proved per effect.     *)
(***************************************************************************)
EXTENDS OTGuardProofs

memoryVars == <<mSharedMemoryList, smIDMap, sharedmemory_map, orphaned>>

\* Nothing happens to shared memory, and no caller leaves.
KeepMemory ==
    /\ UNCHANGED memoryVars
    /\ mOTCallerList \subseteq mOTCallerList'

\* Caller c gets a buffer under an id the guard has not reserved.
AddMemory(c, j, smid) ==
    /\ c \in mOTCallerList
    /\ j \in SmIdsInJni \ smIDMap
    /\ smid \in SmIds
    /\ sharedmemory_map' = MapEmplace(sharedmemory_map, j, [pid |-> c, smid |-> smid])
    /\ mSharedMemoryList' = [mSharedMemoryList EXCEPT ![c] = MapPut(@, j, smid)]
    /\ smIDMap' = smIDMap \cup {j}
    /\ UNCHANGED <<mOTCallerList, orphaned>>

\* Buffer x of caller c is released; c's record loses x and the entries in gone.
DropMemory(c, x, gone) ==
    /\ c \in mOTCallerList
    /\ x \in DOMAIN mSharedMemoryList[c]
    /\ sharedmemory_map' = MapRemove(sharedmemory_map, {x})
    /\ mSharedMemoryList' = [mSharedMemoryList EXCEPT ![c] = MapRemove(@, gone \cup {x})]
    /\ smIDMap' = smIDMap \ {x}
    /\ UNCHANGED <<mOTCallerList, orphaned>>

\* Caller c's record is emptied, nothing is released, some caller remains.
ForgetMemory(c) ==
    /\ c \in mOTCallerList
    /\ mSharedMemoryList' = [mSharedMemoryList EXCEPT ![c] = EmptyMap]
    /\ mOTCallerList' \in {mOTCallerList, mOTCallerList \ {c}}
    /\ mOTCallerList' # {}
    /\ UNCHANGED <<smIDMap, sharedmemory_map, orphaned>>

\* The last caller leaves and the native layer is finalised.
ClearMemory(c) ==
    /\ mOTCallerList = {c}
    /\ mSharedMemoryList' = [mSharedMemoryList EXCEPT ![c] = EmptyMap]
    /\ mOTCallerList' = {}
    /\ sharedmemory_map' = EmptyMap
    /\ orphaned' = FALSE
    /\ UNCHANGED smIDMap

\* The guard is dropped with all its tables.
ResetMemory ==
    /\ mSharedMemoryList' = NoEntries
    /\ mOTCallerList' = {}
    /\ smIDMap' = {}
    /\ orphaned' = (orphaned \/ mOTCallerList # {})
    /\ UNCHANGED sharedmemory_map

MemoryEffect ==
    \/ KeepMemory
    \/ \E c \in Pids, j \in SmIdsInJni, smid \in SmIds : AddMemory(c, j, smid)
    \/ \E c \in Pids, x \in SmIdsInJni, gone \in SUBSET SmIdsInJni : DropMemory(c, x, gone)
    \/ \E c \in Pids : ForgetMemory(c) \/ ClearMemory(c)
    \/ ResetMemory

\* teecFinalizeContext, to its end or aborted, touches the memory of its own
\* caller alone.
LEMMA FinalizeMemoryEffect ==
    ASSUME TypeOK, NEW c \in Pids,
           \/ FinalizeUnknownCaller(c) \/ FinalizeThrowsInMemory(c)
           \/ FinalizeThrowsInSessions(c) \/ FinalizeContext(c)
    PROVE  \/ KeepMemory
           \/ \E x \in SmIdsInJni, gone \in SUBSET SmIdsInJni : DropMemory(c, x, gone)
           \/ ForgetMemory(c) \/ ClearMemory(c)
  <1>1. CASE FinalizeUnknownCaller(c)
    <2>1. KeepMemory
      BY <1>1 DEF FinalizeUnknownCaller, KeepMemory, memoryVars, guardVars, nativeIdle
    <2>2. QED
      BY <2>1
  <1>2. CASE FinalizeThrowsInMemory(c)
    <2>1. PICK x \in DOMAIN mSharedMemoryList[c],
               dropped \in SUBSET DOMAIN mSharedMemoryList[c] :
               /\ native_teecReleaseSharedMemory(x)
               /\ smIDMap' = smIDMap \ {x}
               /\ mSharedMemoryList' =
                    [mSharedMemoryList EXCEPT ![c] = MapRemove(@, dropped \cup {x})]
      BY <1>2 DEF FinalizeThrowsInMemory
    <2>2. DropMemory(c, x, dropped)
      BY <1>2, <2>1 DEF DropMemory, FinalizeThrowsInMemory,
         native_teecReleaseSharedMemory, remove_sharedmemory_by_id
    <2>3. x \in SmIdsInJni /\ dropped \in SUBSET SmIdsInJni
      BY DEF TypeOK, IsMap
    <2>4. QED
      BY <2>2, <2>3
  <1>3. CASE FinalizeThrowsInSessions(c)
    <2>1. UNCHANGED sharedmemory_map
      BY <1>3 DEF FinalizeThrowsInSessions, native_teecCloseSession
    <2>2. ForgetMemory(c)
      BY <1>3, <2>1 DEF FinalizeThrowsInSessions, ForgetMemory
    <2>3. QED
      BY <2>2
  <1>4. CASE FinalizeContext(c)
    <2>1. CASE LastCallerLeaves(c)
      <3>1. ClearMemory(c)
        BY <1>4, <2>1 DEF FinalizeContext, LastCallerLeaves, ClearMemory,
           native_teecFinalizeContext
      <3>2. QED
        BY <3>1
    <2>2. CASE ~LastCallerLeaves(c)
      <3>1. ForgetMemory(c)
        BY <1>4, <2>2 DEF FinalizeContext, LastCallerLeaves, ForgetMemory, nativeIdle
      <3>2. QED
        BY <3>1
    <2>3. QED
      BY <2>1, <2>2
  <1>5. QED
    BY <1>1, <1>2, <1>3, <1>4

\* teecRegisterSharedMemory adds one entry under a fresh id, or changes nothing.
LEMMA RegisterMemoryEffect ==
    ASSUME TypeOK, NEW c \in Pids, NEW smid \in SmIds, NEW ok \in BOOLEAN,
           RegisterSharedMemory(c, smid, ok)
    PROVE  KeepMemory \/ \E j \in SmIdsInJni : AddMemory(c, j, smid)
  <1>1. CASE c \in mOTCallerList /\ ok
    <2>1. PICK j \in generateSharedMemoryId :
               /\ native_teecRegisterSharedMemory(j, [pid |-> c, smid |-> smid], ok)
               /\ mSharedMemoryList' = [mSharedMemoryList EXCEPT ![c] = MapPut(@, j, smid)]
               /\ smIDMap' = smIDMap \cup {j}
      BY <1>1 DEF RegisterSharedMemory
    <2>2. AddMemory(c, j, smid)
      BY <1>1, <2>1 DEF RegisterSharedMemory, AddMemory, generateSharedMemoryId,
         native_teecRegisterSharedMemory
    <2>3. j \in SmIdsInJni
      BY DEF generateSharedMemoryId
    <2>4. QED
      BY <2>2, <2>3
  <1>2. CASE ~(c \in mOTCallerList /\ ok)
    <2>1. KeepMemory
      BY <1>2 DEF RegisterSharedMemory, KeepMemory, memoryVars, nativeIdle,
         native_teecRegisterSharedMemory
    <2>2. QED
      BY <2>1
  <1>3. QED
    BY <1>1, <1>2

\* teecReleaseSharedMemory drops one entry of its own caller, or nothing.
LEMMA ReleaseMemoryEffect ==
    ASSUME TypeOK, NEW c \in Pids, NEW smid \in SmIds, ReleaseSharedMemory(c, smid)
    PROVE  KeepMemory \/ \E x \in SmIdsInJni : DropMemory(c, x, {})
  <1>1. CASE c \notin mOTCallerList
    <2>1. KeepMemory
      BY <1>1 DEF ReleaseSharedMemory, KeepMemory, memoryVars, nativeIdle
    <2>2. QED
      BY <2>1
  <1>2. CASE c \in mOTCallerList
    <2>1. PICK j \in getSmIdInJniBySmid(c, smid) :
               \/ nativeIdle /\ UNCHANGED <<mSharedMemoryList, smIDMap>>
               \/ /\ j # NoId
                  /\ native_teecReleaseSharedMemory(j)
                  /\ smIDMap' = smIDMap \ {j}
                  /\ mSharedMemoryList' =
                       [mSharedMemoryList EXCEPT ![c] = MapRemove(@, {j})]
      BY <1>2 DEF ReleaseSharedMemory
    <2>2. CASE nativeIdle /\ UNCHANGED <<mSharedMemoryList, smIDMap>>
      <3>1. KeepMemory
        BY <2>2 DEF ReleaseSharedMemory, KeepMemory, memoryVars, nativeIdle
      <3>2. QED
        BY <3>1
    <2>3. CASE ~(nativeIdle /\ UNCHANGED <<mSharedMemoryList, smIDMap>>)
      <3>1. j \in DOMAIN mSharedMemoryList[c] /\ j \in SmIdsInJni
        BY <2>1, <2>3, SearchMemory DEF TypeOK, IsMap
      <3>2. DropMemory(c, j, {})
        BY <1>2, <2>1, <2>3, <3>1 DEF ReleaseSharedMemory, DropMemory,
           native_teecReleaseSharedMemory, remove_sharedmemory_by_id
      <3>3. QED
        BY <3>1, <3>2
    <2>4. QED
      BY <2>2, <2>3
  <1>3. QED
    BY <1>1, <1>2

\* Every step has one of the six effects.
LEMMA MemoryEffects ==
    ASSUME TypeOK, [Next]_vars
    PROVE  MemoryEffect
  <1>1. ASSUME NEW c \in Pids, Bind(c) \/ Unbind(c)
        PROVE  MemoryEffect
    <2>1. CASE Bind(c) \/ (Unbind(c) /\ bound' # {})
      <3>1. KeepMemory
        BY <2>1 DEF Bind, Unbind, KeepMemory, memoryVars, guardVars, nativeIdle
      <3>2. QED
        BY <3>1 DEF MemoryEffect
    <2>2. CASE Unbind(c) /\ bound' = {}
      <3>1. ResetMemory
        BY <2>2 DEF Unbind, ResetMemory, nativeIdle
      <3>2. QED
        BY <3>1 DEF MemoryEffect
    <2>3. QED
      BY <1>1, <2>1, <2>2
  <1>2. ASSUME NEW c \in Pids, NEW pathOk \in BOOLEAN, NEW ok \in BOOLEAN,
               InitializeContext(c, pathOk, ok)
        PROVE  MemoryEffect
    <2>1. KeepMemory
      BY <1>2 DEF InitializeContext, KeepMemory, memoryVars, nativeIdle,
         native_teecInitializeContext
    <2>2. QED
      BY <2>1 DEF MemoryEffect
  <1>3. ASSUME NEW c \in Pids, NEW sid \in Sids,
               NEW ref \in SmIds \cup {NoId}, NEW ok \in BOOLEAN,
               \/ OpenSession(c, sid, ref, ok)
               \/ InvokeCommand(c, sid, ref, ok)
               \/ CloseSession(c, sid)
        PROVE  MemoryEffect
    <2>1. KeepMemory
      BY <1>3 DEF OpenSession, InvokeCommand, CloseSession, KeepMemory, memoryVars,
         guardVars, nativeIdle, native_teecOpenSession, native_teecInvokeCommand,
         native_teecCloseSession
    <2>2. QED
      BY <2>1 DEF MemoryEffect
  <1>4. CASE UNCHANGED vars
    <2>1. KeepMemory
      BY <1>4 DEF vars, guardVars, nativeVars, KeepMemory, memoryVars
    <2>2. QED
      BY <2>1 DEF MemoryEffect
  <1>5. ASSUME NEW c \in Pids,
               \/ FinalizeUnknownCaller(c) \/ FinalizeThrowsInMemory(c)
               \/ FinalizeThrowsInSessions(c) \/ FinalizeContext(c)
        PROVE  MemoryEffect
    BY <1>5, FinalizeMemoryEffect DEF MemoryEffect
  <1>6. ASSUME NEW c \in Pids, NEW smid \in SmIds, NEW ok \in BOOLEAN,
               RegisterSharedMemory(c, smid, ok) \/ ReleaseSharedMemory(c, smid)
        PROVE  MemoryEffect
    BY <1>6, RegisterMemoryEffect, ReleaseMemoryEffect DEF MemoryEffect
  <1>7. CASE Next
    BY <1>1, <1>2, <1>3, <1>5, <1>6, <1>7, BoundsAssumption DEF Next
  <1>8. QED
    BY <1>4, <1>7
-----------------------------------------------------------------------------
(* The inductive invariant.  The exclusiveness of ids needs the reservation *)
(* in smIDMap; backing by the native layer needs exclusiveness (a release   *)
(* takes nobody else's buffer) and MemoryOnlyOfCallers (the finalisation    *)
(* does not either); ownership needs that a fresh id is fresh in the native *)
(* map too, which is MemoryTracked.                                         *)
MemoryInv ==
    /\ TypeOK
    /\ MemoryOnlyOfCallers
    /\ MemoryIdsExclusive
    /\ MemoryBackedByNative
    /\ MemoryTracked
    /\ MemoryIsOwn

\* A new guard lists no memory, so the memory invariant holds at the start.
LEMMA MemoryInvInit == Init => MemoryInv
  <1> SUFFICES ASSUME Init PROVE MemoryInv
    OBVIOUS
  <1>1. TypeOK
    BY TypeInit
  <1>2. /\ \A c \in Pids : DOMAIN mSharedMemoryList[c] = {}
        /\ DOMAIN sharedmemory_map = {}
    BY EmptyMapFacts DEF Init, NativeInit, NoEntries
  <1>3. QED
    BY <1>1, <1>2 DEF MemoryInv, MemoryOnlyOfCallers, MemoryIdsExclusive,
       MemoryBackedByNative, MemoryTracked, MemoryIsOwn

\* A handler that leaves the memory alone keeps the invariant.
LEMMA KeepMemoryInv ==
    ASSUME MemoryInv, TypeOK', KeepMemory PROVE MemoryInv'
  BY DEF KeepMemory, memoryVars, MemoryInv, MemoryOnlyOfCallers, MemoryIdsExclusive,
     MemoryBackedByNative, MemoryTracked, MemoryIsOwn

\* A registration keeps it: the id is fresh in smIDMap, hence in every list.
LEMMA AddMemoryInv ==
    ASSUME MemoryInv, TypeOK', NEW c \in Pids, NEW j \in SmIdsInJni, NEW smid \in SmIds,
           AddMemory(c, j, smid)
    PROVE  MemoryInv'
  <1> DEFINE b == [pid |-> c, smid |-> smid]
             list == MapPut(mSharedMemoryList[c], j, smid)
  <1>1. /\ IsMap(mSharedMemoryList[c], SmIdsInJni, SmIds)
        /\ IsMap(sharedmemory_map, SmIdsInJni, Buffers)
        /\ DOMAIN mSharedMemoryList = Pids
        /\ b \in Buffers
    BY DEF MemoryInv, TypeOK, NativeTypeOK, Buffers
  <1>2. /\ (mSharedMemoryList')[c] = list
        /\ \A d \in Pids \ {c} : (mSharedMemoryList')[d] = mSharedMemoryList[d]
    BY <1>1 DEF AddMemory
  <1>3. /\ DOMAIN list = DOMAIN mSharedMemoryList[c] \cup {j}
        /\ list[j] = smid
        /\ \A x \in DOMAIN mSharedMemoryList[c] \ {j} : list[x] = mSharedMemoryList[c][x]
    BY <1>1, MapPutFacts
  <1>4. /\ DOMAIN sharedmemory_map' = DOMAIN sharedmemory_map \cup {j}
        /\ j \notin DOMAIN sharedmemory_map => sharedmemory_map'[j] = b
        /\ \A x \in DOMAIN sharedmemory_map : sharedmemory_map'[x] = sharedmemory_map[x]
    BY <1>1, MapEmplaceFacts DEF AddMemory
  <1>5. j \notin smIDMap /\ smIDMap' = smIDMap \cup {j} /\ c \in mOTCallerList
        /\ mOTCallerList' = mOTCallerList /\ orphaned' = orphaned
    BY DEF AddMemory
  <1>6. \A d \in Pids : j \notin DOMAIN mSharedMemoryList[d]
    BY <1>5 DEF MemoryInv, MemoryIdsExclusive
  <1> HIDE DEF list, b
  <1>7. MemoryOnlyOfCallers'
    BY <1>2, <1>5 DEF MemoryInv, MemoryOnlyOfCallers
  <1>8. MemoryIdsExclusive'
    BY <1>2, <1>3, <1>5, <1>6 DEF MemoryInv, MemoryIdsExclusive
  <1>9. MemoryBackedByNative'
    BY <1>2, <1>3, <1>4 DEF MemoryInv, MemoryBackedByNative
  <1>10. MemoryTracked'
    BY <1>4, <1>5 DEF MemoryInv, MemoryTracked
  <1>11. MemoryIsOwn'
    <2> SUFFICES ASSUME ~orphaned, NEW d \in Pids, NEW x \in DOMAIN (mSharedMemoryList')[d]
                 PROVE  sharedmemory_map'[x]
                          = [pid |-> d, smid |-> (mSharedMemoryList')[d][x]]
      BY <1>5 DEF MemoryIsOwn
    <2>1. j \notin DOMAIN sharedmemory_map
      BY <1>5 DEF MemoryInv, MemoryTracked
    <2>2. CASE d = c /\ x = j
      BY <1>2, <1>3, <1>4, <2>1, <2>2 DEF b
    <2>3. CASE ~(d = c /\ x = j)
      <3>1. x \in DOMAIN mSharedMemoryList[d]
            /\ (mSharedMemoryList')[d][x] = mSharedMemoryList[d][x]
        BY <1>2, <1>3, <1>6, <2>3
      <3>2. x \in DOMAIN sharedmemory_map
        BY <3>1 DEF MemoryInv, MemoryBackedByNative
      <3>3. QED
        BY <1>4, <3>1, <3>2 DEF MemoryInv, MemoryIsOwn
    <2>4. QED
      BY <2>2, <2>3
  <1>12. QED
    BY <1>7, <1>8, <1>9, <1>10, <1>11 DEF MemoryInv

\* Dropping entries of one caller keeps it: no other caller lists those ids.
LEMMA DropMemoryInv ==
    ASSUME MemoryInv, TypeOK', NEW c \in Pids, NEW x \in SmIdsInJni,
           NEW gone \in SUBSET SmIdsInJni, DropMemory(c, x, gone)
    PROVE  MemoryInv'
  <1> DEFINE list == MapRemove(mSharedMemoryList[c], gone \cup {x})
  <1>1. /\ IsMap(mSharedMemoryList[c], SmIdsInJni, SmIds)
        /\ IsMap(sharedmemory_map, SmIdsInJni, Buffers)
        /\ DOMAIN mSharedMemoryList = Pids
    BY DEF MemoryInv, TypeOK, NativeTypeOK
  <1>2. /\ (mSharedMemoryList')[c] = list
        /\ \A d \in Pids \ {c} : (mSharedMemoryList')[d] = mSharedMemoryList[d]
    BY <1>1 DEF DropMemory
  <1>3. /\ DOMAIN list = DOMAIN mSharedMemoryList[c] \ (gone \cup {x})
        /\ \A y \in DOMAIN list : list[y] = mSharedMemoryList[c][y]
    BY DEF MapRemove, Restrict
  <1>4. /\ DOMAIN sharedmemory_map' = DOMAIN sharedmemory_map \ {x}
        /\ \A y \in DOMAIN sharedmemory_map \ {x} : sharedmemory_map'[y] = sharedmemory_map[y]
    BY DEF DropMemory, MapRemove, Restrict
  <1>5. /\ smIDMap' = smIDMap \ {x} /\ c \in mOTCallerList
        /\ mOTCallerList' = mOTCallerList /\ orphaned' = orphaned
    BY DEF DropMemory
  <1>6. \A d \in Pids : /\ DOMAIN (mSharedMemoryList')[d] \subseteq DOMAIN mSharedMemoryList[d]
                        /\ x \notin DOMAIN (mSharedMemoryList')[d]
                        /\ \A y \in DOMAIN (mSharedMemoryList')[d] :
                              (mSharedMemoryList')[d][y] = mSharedMemoryList[d][y]
    BY <1>2, <1>3 DEF DropMemory, MemoryInv, MemoryIdsExclusive
  <1> HIDE DEF list
  <1>7. MemoryOnlyOfCallers' /\ MemoryIdsExclusive' /\ MemoryBackedByNative'
    BY <1>4, <1>5, <1>6 DEF MemoryInv, MemoryOnlyOfCallers, MemoryIdsExclusive,
       MemoryBackedByNative
  <1>8. MemoryTracked'
    BY <1>4, <1>5 DEF MemoryInv, MemoryTracked
  <1>9. MemoryIsOwn'
    BY <1>4, <1>5, <1>6 DEF MemoryInv, MemoryIsOwn, MemoryBackedByNative
  <1>10. QED
    BY <1>7, <1>8, <1>9 DEF MemoryInv

\* A caller that leaves with its list keeps it: the buffers stay reserved.
LEMMA ForgetMemoryInv ==
    ASSUME MemoryInv, TypeOK', NEW c \in Pids, ForgetMemory(c) PROVE MemoryInv'
  <1>1. /\ DOMAIN (mSharedMemoryList')[c] = {}
        /\ \A d \in Pids \ {c} : (mSharedMemoryList')[d] = mSharedMemoryList[d]
    BY EmptyMapFacts DEF ForgetMemory, MemoryInv, TypeOK
  <1>2. QED
    BY <1>1 DEF ForgetMemory, MemoryInv, MemoryOnlyOfCallers, MemoryIdsExclusive,
       MemoryBackedByNative, MemoryTracked, MemoryIsOwn

\* The last caller's departure, and a new guard, leave no list to speak of.
LEMMA ClearMemoryInv ==
    ASSUME MemoryInv, TypeOK', (\E c \in Pids : ClearMemory(c)) \/ ResetMemory
    PROVE  MemoryInv'
  <1> USE EmptyMapFacts
  <1>1. \A d \in Pids : DOMAIN (mSharedMemoryList')[d] = {}
    <2>1. CASE ResetMemory
      BY <2>1 DEF ResetMemory, NoEntries
    <2>2. ASSUME NEW c \in Pids, ClearMemory(c)
          PROVE  \A d \in Pids : DOMAIN (mSharedMemoryList')[d] = {}
      BY <2>2 DEF ClearMemory, MemoryInv, MemoryOnlyOfCallers, TypeOK
    <2>3. QED
      BY <2>1, <2>2
  <1>2. MemoryTracked'
    <2>1. CASE ResetMemory
      BY <2>1 DEF ResetMemory, MemoryInv, MemoryTracked
    <2>2. CASE \E c \in Pids : ClearMemory(c)
      <3>1. DOMAIN sharedmemory_map' = {}
        BY <2>2 DEF ClearMemory
      <3>2. QED
        BY <3>1 DEF MemoryTracked
    <2>3. QED
      BY <2>1, <2>2
  <1>3. QED
    BY <1>1, <1>2 DEF MemoryInv, MemoryOnlyOfCallers, MemoryIdsExclusive,
       MemoryBackedByNative, MemoryIsOwn

\* Every step of the guard keeps the memory invariant, effect by effect.
LEMMA MemoryInvStep == MemoryInv /\ [Next]_vars => MemoryInv'
  <1> SUFFICES ASSUME MemoryInv, [Next]_vars PROVE MemoryInv'
    OBVIOUS
  <1>1. TypeOK /\ TypeOK'
    BY TypeStep DEF MemoryInv
  <1>2. MemoryEffect
    BY <1>1, MemoryEffects
  <1>3. QED
    BY <1>1, <1>2, KeepMemoryInv, AddMemoryInv, DropMemoryInv, ForgetMemoryInv,
       ClearMemoryInv DEF MemoryEffect

\* The memory invariant holds in every reachable state.
LEMMA MemoryInvariant == Spec => []MemoryInv
  BY MemoryInvInit, MemoryInvStep, PTL DEF Spec

\* An id drawn by generateSharedMemoryId belongs to one caller at most and stays
\* reserved as long as the caller lists it.
THEOREM MemoryIdsAreExclusive == Spec => []MemoryIdsExclusive
  <1>1. MemoryInv => MemoryIdsExclusive
    BY DEF MemoryInv
  <1>2. QED
    BY <1>1, MemoryInvariant, PTL

\* Whatever shared memory a caller's record lists, the native layer still has,
\* whatever other callers release or finalise, and across service restarts.
THEOREM MemoryIsBacked == Spec => []MemoryBackedByNative
  <1>1. MemoryInv => MemoryBackedByNative
    BY DEF MemoryInv
  <1>2. QED
    BY <1>1, MemoryInvariant, PTL

\* As long as no guard was dropped with callers in it, the buffer behind an id is
\* the one its caller registered.
THEOREM MemoryIsOwned == Spec => []MemoryIsOwn
  <1>1. MemoryInv => MemoryIsOwn
    BY DEF MemoryInv
  <1>2. QED
    BY <1>1, MemoryInvariant, PTL

\* No step of any caller frees or replaces the buffer behind an id that a caller
\* keeps: teecReleaseSharedMemory and teecFinalizeContext touch only their own.
THEOREM KeptMemoryIsUntouched == Spec => KeptMemoryUntouched
  <1>1. MemoryInv /\ [Next]_vars => KeptMemoryUntouchedStep
    <2> SUFFICES ASSUME MemoryInv, [Next]_vars, NEW d \in Pids,
                        NEW y \in DOMAIN mSharedMemoryList[d],
                        y \in DOMAIN (mSharedMemoryList')[d]
                 PROVE  /\ y \in DOMAIN sharedmemory_map
                        /\ y \in DOMAIN sharedmemory_map'
                        /\ sharedmemory_map'[y] = sharedmemory_map[y]
      BY DEF KeptMemoryUntouchedStep
    <2>1. /\ MemoryInv' /\ MemoryEffect
      BY MemoryInvStep, MemoryEffects DEF MemoryInv
    <2>2. y \in DOMAIN sharedmemory_map /\ y \in DOMAIN sharedmemory_map'
      BY <2>1 DEF MemoryInv, MemoryBackedByNative
    <2>3. CASE UNCHANGED sharedmemory_map
      BY <2>2, <2>3
    <2>4. ASSUME NEW c \in Pids, NEW j \in SmIdsInJni, NEW smid \in SmIds,
                 AddMemory(c, j, smid)
          PROVE  sharedmemory_map'[y] = sharedmemory_map[y]
      <3>1. \A z \in DOMAIN sharedmemory_map :
               MapEmplace(sharedmemory_map, j, [pid |-> c, smid |-> smid])[z]
                 = sharedmemory_map[z]
        BY DEF MapEmplace, MapPut
      <3>2. QED
        BY <2>2, <2>4, <3>1 DEF AddMemory
    <2>5. ASSUME NEW c \in Pids, NEW x \in SmIdsInJni, NEW gone \in SUBSET SmIdsInJni,
                 DropMemory(c, x, gone)
          PROVE  sharedmemory_map'[y] = sharedmemory_map[y]
      <3>1. /\ DOMAIN sharedmemory_map' = DOMAIN sharedmemory_map \ {x}
            /\ \A z \in DOMAIN sharedmemory_map \ {x} :
                  sharedmemory_map'[z] = sharedmemory_map[z]
        BY <2>5 DEF DropMemory, MapRemove, Restrict
      <3>2. QED
        BY <2>2, <3>1
    <2>6. ASSUME NEW c \in Pids, ClearMemory(c)
          PROVE  FALSE
      BY <2>2, <2>6, EmptyMapFacts DEF ClearMemory
    <2>7. QED
      BY <2>1, <2>2, <2>3, <2>4, <2>5, <2>6
      DEF MemoryEffect, KeepMemory, memoryVars, ForgetMemory, ResetMemory
  <1>2. QED
    BY <1>1, MemoryInvariant, PTL DEF Spec, KeptMemoryUntouched

\* What each effect does to the buffers that nobody lists.
LEMMA LeakedByEffect ==
    ASSUME TypeOK, NEW c \in Pids
    PROVE  /\ KeepMemory => Leaked' = Leaked
           /\ \A j \in SmIdsInJni, smid \in SmIds :
                 AddMemory(c, j, smid) => Leaked' \subseteq Leaked
           /\ \A x \in SmIdsInJni, gone \in SUBSET SmIdsInJni :
                 DropMemory(c, x, gone) =>
                    Leaked' \subseteq Leaked \cup (gone \cap DOMAIN mSharedMemoryList[c])
           /\ ForgetMemory(c) => Leaked' \subseteq Leaked \cup DOMAIN mSharedMemoryList[c]
           /\ ClearMemory(c) => Leaked' = {}
  <1>1. KeepMemory => Leaked' = Leaked
    BY DEF KeepMemory, memoryVars, Leaked
  <1>2. ASSUME NEW j \in SmIdsInJni, NEW smid \in SmIds, AddMemory(c, j, smid)
        PROVE  Leaked' \subseteq Leaked
    <2>1. DOMAIN sharedmemory_map' \subseteq DOMAIN sharedmemory_map \cup {j}
      BY <1>2 DEF AddMemory, MapEmplace, MapPut
    <2>2. /\ \A d \in Pids : DOMAIN mSharedMemoryList[d] \subseteq DOMAIN mSharedMemoryList'[d]
          /\ j \in DOMAIN mSharedMemoryList'[c]
      BY <1>2 DEF AddMemory, MapPut, TypeOK
    <2>3. QED
      BY <2>1, <2>2 DEF Leaked
  <1>3. ASSUME NEW x \in SmIdsInJni, NEW gone \in SUBSET SmIdsInJni, DropMemory(c, x, gone)
        PROVE  Leaked' \subseteq Leaked \cup (gone \cap DOMAIN mSharedMemoryList[c])
    <2>1. DOMAIN sharedmemory_map' = DOMAIN sharedmemory_map \ {x}
      BY <1>3 DEF DropMemory, MapRemove, Restrict
    <2>2. /\ \A d \in Pids \ {c} : mSharedMemoryList'[d] = mSharedMemoryList[d]
          /\ DOMAIN mSharedMemoryList'[c] = DOMAIN mSharedMemoryList[c] \ (gone \cup {x})
      BY <1>3 DEF DropMemory, MapRemove, Restrict, TypeOK
    <2>3. QED
      BY <2>1, <2>2 DEF Leaked
  <1>4. ASSUME ForgetMemory(c)
        PROVE  Leaked' \subseteq Leaked \cup DOMAIN mSharedMemoryList[c]
    <2>1. \A d \in Pids \ {c} : mSharedMemoryList'[d] = mSharedMemoryList[d]
      BY <1>4 DEF ForgetMemory, TypeOK
    <2>2. QED
      BY <1>4, <2>1 DEF ForgetMemory, Leaked
  <1>5. ClearMemory(c) => Leaked' = {}
    BY EmptyMapFacts DEF ClearMemory, Leaked
  <1>6. QED
    BY <1>1, <1>2, <1>3, <1>4, <1>5

\* A buffer of the native layer loses its last owner by a finalisation of that
\* owner or the end of the service.
LEMMA KeptLeaks ==
    ASSUME TypeOK, [Next]_vars PROVE KeptLeaksStep
  <1>1. ASSUME NEW c \in Pids,
               \/ FinalizeUnknownCaller(c) \/ FinalizeThrowsInMemory(c)
               \/ FinalizeThrowsInSessions(c) \/ FinalizeContext(c)
        PROVE  KeptLeaksStep
    <2>1. reply'.call = "finalizeContext"
      BY <1>1 DEF FinalizeUnknownCaller, FinalizeThrowsInMemory,
         FinalizeThrowsInSessions, FinalizeContext, Reply
    <2>2. CASE KeepMemory \/ ClearMemory(c)
      BY <2>2, LeakedByEffect DEF KeptLeaksStep
    <2>3. CASE ForgetMemory(c)
      <3>1. /\ c \in mOTCallerList
            /\ Leaked' \subseteq Leaked \cup DOMAIN mSharedMemoryList[c]
        BY <2>3, LeakedByEffect DEF ForgetMemory
      <3>2. QED
        BY <2>1, <3>1 DEF KeptLeaksStep
    <2>4. ASSUME NEW x \in SmIdsInJni, NEW gone \in SUBSET SmIdsInJni,
                 DropMemory(c, x, gone)
          PROVE  KeptLeaksStep
      <3>1. /\ c \in mOTCallerList
            /\ Leaked' \subseteq Leaked \cup DOMAIN mSharedMemoryList[c]
        BY <2>4, LeakedByEffect DEF DropMemory
      <3>2. QED
        BY <2>1, <3>1 DEF KeptLeaksStep
    <2>5. QED
      BY <1>1, <2>2, <2>3, <2>4, FinalizeMemoryEffect
  <1>2. ASSUME NEW c \in Pids, NEW smid \in SmIds, NEW ok \in BOOLEAN,
               RegisterSharedMemory(c, smid, ok)
        PROVE  KeptLeaksStep
    BY <1>2, RegisterMemoryEffect, LeakedByEffect DEF KeptLeaksStep
  <1>3. ASSUME NEW c \in Pids, NEW smid \in SmIds, ReleaseSharedMemory(c, smid)
        PROVE  KeptLeaksStep
    <2>1. CASE KeepMemory
      BY <2>1, LeakedByEffect DEF KeptLeaksStep
    <2>2. ASSUME NEW x \in SmIdsInJni, DropMemory(c, x, {})
          PROVE  KeptLeaksStep
      <3>1. {} \in SUBSET SmIdsInJni /\ {} \cap DOMAIN mSharedMemoryList[c] = {}
        OBVIOUS
      <3>2. Leaked' \subseteq Leaked
        BY <2>2, <3>1, LeakedByEffect
      <3>3. QED
        BY <3>2 DEF KeptLeaksStep
    <2>3. QED
      BY <1>3, <2>1, <2>2, ReleaseMemoryEffect
  <1>4. ASSUME NEW c \in Pids, Unbind(c), bound' = {} PROVE KeptLeaksStep
    BY <1>4 DEF Unbind, Reply, KeptLeaksStep
  <1>5. ASSUME UNCHANGED <<mSharedMemoryList, sharedmemory_map>>
        PROVE  KeptLeaksStep
    BY <1>5 DEF Leaked, KeptLeaksStep
  <1>6. ASSUME NEW c \in Pids, Bind(c) \/ (Unbind(c) /\ bound' # {})
        PROVE  KeptLeaksStep
    BY <1>5, <1>6 DEF Bind, Unbind, guardVars, nativeIdle
  <1>7. ASSUME NEW c \in Pids, NEW pathOk \in BOOLEAN, NEW ok \in BOOLEAN,
               InitializeContext(c, pathOk, ok)
        PROVE  KeptLeaksStep
    BY <1>5, <1>7 DEF InitializeContext, nativeIdle, native_teecInitializeContext
  <1>8. ASSUME NEW c \in Pids, NEW sid \in Sids,
               NEW ref \in SmIds \cup {NoId}, NEW ok \in BOOLEAN,
               \/ OpenSession(c, sid, ref, ok)
               \/ InvokeCommand(c, sid, ref, ok)
               \/ CloseSession(c, sid)
        PROVE  KeptLeaksStep
    BY <1>5, <1>8 DEF OpenSession, InvokeCommand, CloseSession, guardVars, nativeIdle,
       native_teecOpenSession, native_teecInvokeCommand, native_teecCloseSession
  <1>9. CASE UNCHANGED vars
    BY <1>5, <1>9 DEF vars, guardVars, nativeVars
  <1>10. CASE Next
    BY <1>1, <1>2, <1>3, <1>4, <1>6, <1>7, <1>8, <1>10, BoundsAssumption DEF Next
  <1>11. QED
    BY <1>9, <1>10

\* A buffer that the native layer does not keep was allocated by a registration
\* that failed, or by one whose id met an entry of an orphaned guard: otherwise the
\* ids that the guard draws are free in the native layer (MemoryTracked).
LEMMA LostBuffers ==
    ASSUME MemoryInv, Next PROVE UnkeptLeaksStep
  <1>1. ASSUME NEW c \in Pids, NEW smid \in SmIds, NEW ok \in BOOLEAN,
               RegisterSharedMemory(c, smid, ok), unreferenced' # {}
        PROVE  /\ reply'.call = "registerSharedMemory"
               /\ reply'.rc = "TEE_ERROR" \/ orphaned
    <2>1. c \in mOTCallerList
      BY <1>1 DEF RegisterSharedMemory, nativeIdle
    <2>2. PICK j \in generateSharedMemoryId :
                 native_teecRegisterSharedMemory(j, [pid |-> c, smid |-> smid], ok)
      BY <1>1, <2>1 DEF RegisterSharedMemory
    <2>3. ok => j \in DOMAIN sharedmemory_map
      BY <1>1, <2>2 DEF native_teecRegisterSharedMemory, lostByRegistration
    <2>4. ok => orphaned
      BY <2>3 DEF MemoryInv, MemoryTracked, generateSharedMemoryId
    <2>5. reply' = [call |-> "registerSharedMemory",
                    rc |-> IF ok THEN "SUCCESS" ELSE "TEE_ERROR"]
      BY <1>1, <2>1 DEF RegisterSharedMemory, Reply
    <2>6. QED
      BY <2>4, <2>5
  <1>2. ASSUME NEW c \in Pids,
               \/ Bind(c) \/ Unbind(c)
               \/ \E pathOk, ok \in BOOLEAN : InitializeContext(c, pathOk, ok)
               \/ \E smid \in SmIds : ReleaseSharedMemory(c, smid)
               \/ \E sid \in Sids : CloseSession(c, sid)
        PROVE  unreferenced' = {}
    BY <1>2 DEF Bind, Unbind, InitializeContext, ReleaseSharedMemory, CloseSession,
       nativeIdle, native_teecInitializeContext, native_teecReleaseSharedMemory,
       native_teecCloseSession
  <1>3. ASSUME NEW c \in Pids,
               \/ FinalizeUnknownCaller(c) \/ FinalizeThrowsInMemory(c)
               \/ FinalizeThrowsInSessions(c) \/ FinalizeContext(c)
        PROVE  unreferenced' = {}
    BY <1>3 DEF FinalizeUnknownCaller, FinalizeThrowsInMemory,
       FinalizeThrowsInSessions, FinalizeContext, nativeIdle,
       native_teecReleaseSharedMemory, native_teecCloseSession,
       native_teecFinalizeContext
  <1>4. ASSUME NEW c \in Pids, NEW sid \in Sids, NEW ok \in BOOLEAN,
               NEW ref \in SmIds \cup {NoId},
               OpenSession(c, sid, ref, ok) \/ InvokeCommand(c, sid, ref, ok)
        PROVE  unreferenced' = {}
    BY <1>4 DEF OpenSession, InvokeCommand, nativeIdle, native_teecOpenSession,
       native_teecInvokeCommand
  <1>5. QED
    BY <1>1, <1>2, <1>3, <1>4 DEF Next, UnkeptLeaksStep

\* The ways in which a buffer gets lost: with the exit of its owner, when the native
\* layer keeps it; by a registration that the TEE refused, or that met an old entry
\* after a guard was orphaned, when it does not (OTGuard.java lines 149-154, 181-230,
\* LibteeWrapper.cpp lines 290-316).
THEOREM LeaksHaveCauses == Spec => LeakCauses
  <1>1. MemoryInv /\ [Next]_vars => [KeptLeaksStep /\ UnkeptLeaksStep]_vars
    BY KeptLeaks, LostBuffers DEF MemoryInv
  <1>2. QED
    BY <1>1, MemoryInvariant, PTL DEF Spec, LeakCauses

\* As long as no guard was dropped with callers in it, the guard knows every
\* buffer of the native layer, and none is left once the last caller is gone: a
\* registration never meets an entry that emplace would keep.
THEOREM MemoryIsTracked == Spec => []MemoryTracked
  <1>1. MemoryInv => MemoryTracked
    BY DEF MemoryInv
  <1>2. QED
    BY <1>1, MemoryInvariant, PTL

\* A reference of caller c that replaceSMId has translated leads to a buffer of c.
LEMMA ReferencesAreOwn ==
    ASSUME MemoryInv, ~orphaned, NEW c \in Pids, NEW ref, NEW r \in replaceSMId(c, ref),
           NEW b \in find_sharedmemory_by_id(r)
    PROVE  b.pid = c
  <1>1. PICK k \in DOMAIN sharedmemory_map : k = r /\ b = sharedmemory_map[k]
    BY DEF find_sharedmemory_by_id
  <1>2. r # NoId
    <2>1. k \in SmIdsInJni
      BY DEF MemoryInv, TypeOK, NativeTypeOK, IsMap
    <2>2. QED
      BY <1>1, <2>1, BoundsAssumption DEF SmIdsInJni, NoId
  <1>3. r \in DOMAIN mSharedMemoryList[c]
    BY <1>2 DEF replaceSMId, getSmIdInJniBySmid, KeysOf
  <1>4. sharedmemory_map[r] = [pid |-> c, smid |-> mSharedMemoryList[c][r]]
    BY <1>3 DEF MemoryInv, MemoryIsOwn
  <1>5. QED
    BY <1>1, <1>4

\* Without a dropped guard the TEE works, for a command of one process, on buffers
\* of that process alone (replaceSMId, find_sharedmemory_by_id).
THEOREM CommandsUseOwn == Spec => []CommandsUseOwnMemory
  <1>1. Init => CommandsUseOwnMemory
    BY DEF Init, NativeInit, CommandsUseOwnMemory
  <1>2. MemoryInv /\ CommandsUseOwnMemory /\ [Next]_vars => CommandsUseOwnMemory'
    <2> SUFFICES ASSUME MemoryInv, CommandsUseOwnMemory, [Next]_vars
                 PROVE  CommandsUseOwnMemory'
      OBVIOUS
    <2>1. CASE teeCommand' = {}
      BY <2>1 DEF CommandsUseOwnMemory
    <2>2. ASSUME NEW c \in Pids, NEW sid \in Sids,
                 NEW ref \in SmIds \cup {NoId}, NEW ok \in BOOLEAN,
                 OpenSession(c, sid, ref, ok)
          PROVE  CommandsUseOwnMemory'
      <3>1. UNCHANGED orphaned
        BY <2>2 DEF OpenSession
      <3>2. \/ teeCommand' = {}
            \/ \E r \in replaceSMId(c, ref), s \in Sessions :
                  teeCommand' = {[pid |-> c, session |-> s,
                                  buffers |-> find_sharedmemory_by_id(r)]}
        BY <2>2 DEF OpenSession, native_teecOpenSession, nativeIdle, Sessions
      <3>3. QED
        BY <3>1, <3>2, ReferencesAreOwn DEF CommandsUseOwnMemory
    <2>3. ASSUME NEW c \in Pids, NEW sid \in Sids,
                 NEW ref \in SmIds \cup {NoId}, NEW ran \in BOOLEAN,
                 InvokeCommand(c, sid, ref, ran)
          PROVE  CommandsUseOwnMemory'
      <3>1. UNCHANGED orphaned
        BY <2>3 DEF InvokeCommand
      <3>2. \/ teeCommand' = {}
            \/ \E r \in replaceSMId(c, ref) :
                  teeCommand' = {[pid |-> c, session |-> teeSessions[teec_session],
                                  buffers |-> find_sharedmemory_by_id(r)]}
        BY <2>3 DEF InvokeCommand, native_teecInvokeCommand, nativeIdle
      <3>3. QED
        BY <3>1, <3>2, ReferencesAreOwn DEF CommandsUseOwnMemory
    <2>4. ASSUME NEW c \in Pids,
                 \/ Bind(c) \/ Unbind(c)
                 \/ \E pathOk, ok \in BOOLEAN : InitializeContext(c, pathOk, ok)
                 \/ \E smid \in SmIds, ok \in BOOLEAN : RegisterSharedMemory(c, smid, ok)
                 \/ \E smid \in SmIds : ReleaseSharedMemory(c, smid)
                 \/ \E sid \in Sids : CloseSession(c, sid)
          PROVE  teeCommand' = {}
      BY <2>4 DEF Bind, Unbind, InitializeContext, RegisterSharedMemory,
         ReleaseSharedMemory, CloseSession, nativeIdle, native_teecInitializeContext,
         native_teecRegisterSharedMemory, native_teecReleaseSharedMemory,
         native_teecCloseSession
    <2>5. ASSUME NEW c \in Pids,
                 \/ FinalizeUnknownCaller(c) \/ FinalizeThrowsInMemory(c)
                 \/ FinalizeThrowsInSessions(c) \/ FinalizeContext(c)
          PROVE  teeCommand' = {}
      BY <2>5 DEF FinalizeUnknownCaller, FinalizeThrowsInMemory,
         FinalizeThrowsInSessions, FinalizeContext, nativeIdle,
         native_teecReleaseSharedMemory, native_teecCloseSession,
         native_teecFinalizeContext
    <2>6. CASE UNCHANGED vars
      BY <2>6 DEF vars, nativeVars, CommandsUseOwnMemory
    <2>7. QED
      BY <2>1, <2>2, <2>3, <2>4, <2>5, <2>6 DEF Next
  <1>3. QED
    BY <1>1, <1>2, MemoryInvariant, PTL DEF Spec
=============================================================================
