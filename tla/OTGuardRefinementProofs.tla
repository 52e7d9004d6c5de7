---------------------- MODULE OTGuardRefinementProofs ----------------------
(***************************************************************************)
(* The guard on the native layer implements TEEProxy.  Every step has one  *)
(* of the effects of MemoryEffects on shared memory, and either runs       *)
(* nothing in the TEE or leaves shared memory alone; each combination is a *)
(* step of the abstract specification.                                     *)
(***************************************************************************)
EXTENDS OTGuardMemoryProofs

\* The TEE works for caller c, on the buffer a reference of c was translated to.
CommandStep(c) ==
    /\ c \in mOTCallerList
    /\ UNCHANGED <<mSharedMemoryList, sharedmemory_map, mOTCallerList, orphaned>>
    /\ \E ref \in SmIds \cup {NoId} : \E r \in replaceSMId(c, ref) :
          teeWork' = {[pid |-> c, buffers |-> find_sharedmemory_by_id(r)]}

\* teecOpenSession and teecInvokeCommand are the only handlers that make the TEE
\* work, and they leave the records alone.
LEMMA StepWork ==
    ASSUME TypeOK, Next
    PROVE  teeWork' = {} \/ \E c \in Pids : CommandStep(c)
  <1>0. teeCommand' = {} => teeWork' = {}
    BY DEF teeWork
  <1>1. ASSUME NEW c \in Pids, NEW sid \in Sids,
               NEW ref \in SmIds \cup {NoId}, NEW ok \in BOOLEAN,
               OpenSession(c, sid, ref, ok)
        PROVE  teeWork' = {} \/ CommandStep(c)
    <2>1. CASE c \notin mOTCallerList
      BY <1>0, <1>1, <2>1 DEF OpenSession, nativeIdle
    <2>2. CASE c \in mOTCallerList
      <3>1. PICK j \in generateSessionId, r \in replaceSMId(c, ref),
                 h \in Handles \cup {NoHandle} :
                 native_teecOpenSession(j, [pid |-> c, sid |-> sid], r, h, ok)
        BY <1>1, <2>2 DEF OpenSession
      <3>2. UNCHANGED <<mSharedMemoryList, sharedmemory_map, mOTCallerList, orphaned>>
        BY <1>1, <3>1 DEF OpenSession, native_teecOpenSession
      <3>3. \/ teeCommand' = {}
            \/ teeCommand' = {[pid |-> c, session |-> [pid |-> c, sid |-> sid],
                               buffers |-> find_sharedmemory_by_id(r)]}
        BY <3>1 DEF native_teecOpenSession
      <3>4. CASE teeCommand' # {}
        <4>1. teeWork' = {[pid |-> c, buffers |-> find_sharedmemory_by_id(r)]}
          BY <3>3, <3>4 DEF teeWork
        <4>2. QED
          BY <2>2, <3>2, <4>1 DEF CommandStep
      <3>5. QED
        BY <1>0, <3>4
    <2>3. QED
      BY <2>1, <2>2
  <1>2. ASSUME NEW c \in Pids, NEW sid \in Sids,
               NEW ref \in SmIds \cup {NoId}, NEW ran \in BOOLEAN,
               InvokeCommand(c, sid, ref, ran)
        PROVE  teeWork' = {} \/ CommandStep(c)
    <2>1. CASE c \notin mOTCallerList
      BY <1>0, <1>2, <2>1 DEF InvokeCommand, nativeIdle
    <2>2. CASE c \in mOTCallerList
      <3>1. PICK j \in getSidInJniBySid(c, sid), r \in replaceSMId(c, ref) :
                 nativeIdle \/ native_teecInvokeCommand(j, c, r, ran)
        BY <1>2, <2>2 DEF InvokeCommand
      <3>2. UNCHANGED <<mSharedMemoryList, sharedmemory_map, mOTCallerList, orphaned>>
        BY <1>2, <3>1 DEF InvokeCommand, guardVars, nativeIdle, native_teecInvokeCommand
      <3>3. \/ teeCommand' = {}
            \/ teeCommand' = {[pid |-> c, session |-> teeSessions[teec_session],
                               buffers |-> find_sharedmemory_by_id(r)]}
        BY <3>1 DEF nativeIdle, native_teecInvokeCommand
      <3>4. CASE teeCommand' # {}
        <4>1. teeWork' = {[pid |-> c, buffers |-> find_sharedmemory_by_id(r)]}
          BY <3>3, <3>4 DEF teeWork
        <4>2. QED
          BY <2>2, <3>2, <4>1 DEF CommandStep
      <3>5. QED
        BY <1>0, <3>4
    <2>3. QED
      BY <2>1, <2>2
  <1>3. ASSUME NEW c \in Pids,
               \/ Bind(c) \/ Unbind(c)
               \/ \E pathOk, ok \in BOOLEAN : InitializeContext(c, pathOk, ok)
               \/ \E smid \in SmIds, ok \in BOOLEAN : RegisterSharedMemory(c, smid, ok)
               \/ \E smid \in SmIds : ReleaseSharedMemory(c, smid)
               \/ \E sid \in Sids : CloseSession(c, sid)
        PROVE  teeCommand' = {}
    BY <1>3 DEF Bind, Unbind, InitializeContext, RegisterSharedMemory,
       ReleaseSharedMemory, CloseSession, nativeIdle, native_teecInitializeContext,
       native_teecRegisterSharedMemory, native_teecReleaseSharedMemory,
       native_teecCloseSession
  <1>4. ASSUME NEW c \in Pids,
               \/ FinalizeUnknownCaller(c) \/ FinalizeThrowsInMemory(c)
               \/ FinalizeThrowsInSessions(c) \/ FinalizeContext(c)
        PROVE  teeCommand' = {}
    BY <1>4 DEF FinalizeUnknownCaller, FinalizeThrowsInMemory,
       FinalizeThrowsInSessions, FinalizeContext, nativeIdle,
       native_teecReleaseSharedMemory, native_teecCloseSession,
       native_teecFinalizeContext
  <1>5. QED
    BY <1>0, <1>1, <1>2, <1>3, <1>4 DEF Next

\* A step that keeps shared memory lets one caller in at most.
LEMMA StepJoins ==
    ASSUME Next, KeepMemory
    PROVE  \/ mOTCallerList' = mOTCallerList
           \/ \E c \in Pids : mOTCallerList' = mOTCallerList \cup {c}
  <1>1. \A c \in Pids, pathOk, ok \in BOOLEAN : InitializeContext(c, pathOk, ok)
          => mOTCallerList' \in {mOTCallerList, mOTCallerList \cup {c}}
    BY DEF InitializeContext
  <1>2. ASSUME NEW c \in Pids,
               \/ Bind(c) \/ Unbind(c)
               \/ \E smid \in SmIds, ok \in BOOLEAN : RegisterSharedMemory(c, smid, ok)
               \/ \E smid \in SmIds : ReleaseSharedMemory(c, smid)
               \/ \E sid \in Sids : CloseSession(c, sid)
               \/ \E sid \in Sids, ok \in BOOLEAN, ref \in SmIds \cup {NoId} :
                     \/ OpenSession(c, sid, ref, ok)
                     \/ InvokeCommand(c, sid, ref, ok)
        PROVE  mOTCallerList' \in {mOTCallerList, {}}
    BY <1>2 DEF Bind, Unbind, RegisterSharedMemory, ReleaseSharedMemory, CloseSession,
       OpenSession, InvokeCommand, guardVars
  <1>3. ASSUME NEW c \in Pids,
               \/ FinalizeUnknownCaller(c) \/ FinalizeThrowsInMemory(c)
               \/ FinalizeThrowsInSessions(c) \/ FinalizeContext(c)
        PROVE  mOTCallerList' \in {mOTCallerList, mOTCallerList \ {c}}
    BY <1>3 DEF FinalizeUnknownCaller, FinalizeThrowsInMemory,
       FinalizeThrowsInSessions, FinalizeContext, guardVars
  <1>4. mOTCallerList \subseteq mOTCallerList'
    BY DEF KeepMemory
  <1>5. QED
    BY <1>1, <1>2, <1>3, <1>4 DEF Next
-----------------------------------------------------------------------------
(* What the callers hold, after each effect.                                *)

\* The held memory, caller by caller and id by id.
LEMMA HeldFacts ==
    /\ DOMAIN heldMemory = Pids
    /\ \A c \in Pids : /\ heldMemory[c] = [j \in DOMAIN mSharedMemoryList[c] |-> Backing(j)]
                       /\ DOMAIN heldMemory[c] = DOMAIN mSharedMemoryList[c]
                       /\ \A j \in DOMAIN mSharedMemoryList[c] : heldMemory[c][j] = Backing(j)
  BY DEF heldMemory

\* The same in the next state.
LEMMA HeldFactsNext ==
    /\ DOMAIN heldMemory' = Pids
    /\ \A c \in Pids :
          /\ (heldMemory')[c] = [j \in DOMAIN (mSharedMemoryList')[c] |-> Backing(j)']
          /\ DOMAIN (heldMemory')[c] = DOMAIN (mSharedMemoryList')[c]
          /\ \A j \in DOMAIN (mSharedMemoryList')[c] : (heldMemory')[c][j] = Backing(j)'
  BY DEF heldMemory

\* A caller whose ids and buffers stay holds what it held.
LEMMA HeldUnchanged ==
    ASSUME NEW d \in Pids, (mSharedMemoryList')[d] = mSharedMemoryList[d],
           \A j \in DOMAIN mSharedMemoryList[d] : Backing(j)' = Backing(j)
    PROVE  (heldMemory')[d] = heldMemory[d]
  BY DEF heldMemory

\* When only c's holdings change, the change is an EXCEPT.
LEMMA HeldExcept ==
    ASSUME NEW c \in Pids, NEW m, (heldMemory')[c] = m,
           \A d \in Pids \ {c} : (heldMemory')[d] = heldMemory[d]
    PROVE  heldMemory' = [heldMemory EXCEPT ![c] = m]
  BY DEF heldMemory
-----------------------------------------------------------------------------
(* Each effect is a step of TEEProxy.                                       *)

\* Nothing happens to shared memory: a context is opened, or a call refused.
LEMMA KeepIsJoin ==
    ASSUME Next, KeepMemory, teeWork' = {}
    PROVE  Proxy!Next
  <1>1. heldMemory' = heldMemory
    BY DEF KeepMemory, memoryVars, heldMemory, Backing
  <1>2. orphaned' = orphaned
    BY DEF KeepMemory, memoryVars
  <1>3. CASE mOTCallerList' = mOTCallerList
    BY <1>1, <1>2, <1>3 DEF Proxy!Next, Proxy!Refuse
  <1>4. ASSUME NEW c \in Pids, mOTCallerList' = mOTCallerList \cup {c}
        PROVE  Proxy!Next
    <2>1. Proxy!Join(c)
      BY <1>1, <1>2, <1>4 DEF Proxy!Join
    <2>2. QED
      BY <2>1 DEF Proxy!Next
  <1>5. QED
    BY <1>3, <1>4, StepJoins

\* The TEE runs a command.
LEMMA CommandIsCommand ==
    ASSUME MemoryInv, NEW c \in Pids, CommandStep(c)
    PROVE  Proxy!Next
  <1>0. PICK ref \in SmIds \cup {NoId} : \E r \in replaceSMId(c, ref) :
             teeWork' = {[pid |-> c, buffers |-> find_sharedmemory_by_id(r)]}
    BY DEF CommandStep
  <1>1. PICK r \in replaceSMId(c, ref) :
             teeWork' = {[pid |-> c, buffers |-> find_sharedmemory_by_id(r)]}
    BY <1>0
  <1>2. /\ heldMemory' = heldMemory /\ c \in mOTCallerList
        /\ UNCHANGED <<mOTCallerList, orphaned>>
    BY DEF CommandStep, heldMemory, Backing
  <1>3. IsMap(sharedmemory_map, SmIdsInJni, Buffers)
    BY DEF MemoryInv, TypeOK, NativeTypeOK
  <1>4. find_sharedmemory_by_id(r) \in SUBSET Buffers
    BY <1>3 DEF find_sharedmemory_by_id, IsMap
  <1>5. Proxy!Buffers = Buffers
    BY DEF Proxy!Buffers, Buffers
  <1>6. ASSUME ~orphaned, NEW b \in find_sharedmemory_by_id(r)
        PROVE  \E h \in DOMAIN heldMemory[c] : heldMemory[c][h] = b
    <2>1. r \in DOMAIN sharedmemory_map /\ b = sharedmemory_map[r]
      BY <1>6 DEF find_sharedmemory_by_id
    <2>2. r # NoId
      <3>1. r \in SmIdsInJni
        BY <1>3, <2>1 DEF IsMap
      <3>2. QED
        BY <3>1, BoundsAssumption DEF SmIdsInJni, NoId
    <2>3. r \in DOMAIN mSharedMemoryList[c]
      BY <2>2 DEF replaceSMId, getSmIdInJniBySmid, KeysOf
    <2>4. r \in DOMAIN heldMemory[c] /\ heldMemory[c][r] = Backing(r)
      BY <2>3, HeldFacts
    <2>5. QED
      BY <2>1, <2>4 DEF Backing
  <1>7. Proxy!Command(c)
    BY <1>1, <1>2, <1>4, <1>5, <1>6 DEF Proxy!Command
  <1>8. QED
    BY <1>7 DEF Proxy!Next

\* A registration.
LEMMA AddIsRegister ==
    ASSUME MemoryInv, TypeOK', NEW c \in Pids, NEW j \in SmIdsInJni, NEW smid \in SmIds,
           AddMemory(c, j, smid), teeWork' = {}
    PROVE  Proxy!Next
  <1> DEFINE b == sharedmemory_map'[j]
             own == [pid |-> c, smid |-> smid]
  <1>1. /\ IsMap(mSharedMemoryList[c], SmIdsInJni, SmIds)
        /\ IsMap(sharedmemory_map, SmIdsInJni, Buffers)
        /\ DOMAIN mSharedMemoryList = Pids
        /\ own \in Buffers
    BY DEF MemoryInv, TypeOK, NativeTypeOK, Buffers
  <1>2. /\ (mSharedMemoryList')[c] = MapPut(mSharedMemoryList[c], j, smid)
        /\ \A d \in Pids \ {c} : (mSharedMemoryList')[d] = mSharedMemoryList[d]
        /\ c \in mOTCallerList /\ UNCHANGED <<mOTCallerList, orphaned>>
        /\ j \notin smIDMap
    BY <1>1 DEF AddMemory
  <1>3. DOMAIN (mSharedMemoryList')[c] = DOMAIN mSharedMemoryList[c] \cup {j}
    BY <1>1, <1>2, MapPutFacts
  <1>4. /\ DOMAIN sharedmemory_map' = DOMAIN sharedmemory_map \cup {j}
        /\ j \notin DOMAIN sharedmemory_map => sharedmemory_map'[j] = own
        /\ \A x \in DOMAIN sharedmemory_map : sharedmemory_map'[x] = sharedmemory_map[x]
    <2>1. sharedmemory_map' = MapEmplace(sharedmemory_map, j, own)
      BY DEF AddMemory
    <2>2. own \in Buffers /\ IsMap(sharedmemory_map, SmIdsInJni, Buffers)
      BY <1>1
    <2> HIDE DEF own
    <2>3. /\ DOMAIN MapEmplace(sharedmemory_map, j, own) = DOMAIN sharedmemory_map \cup {j}
          /\ j \notin DOMAIN sharedmemory_map
                => MapEmplace(sharedmemory_map, j, own)[j] = own
          /\ \A x \in DOMAIN sharedmemory_map :
                MapEmplace(sharedmemory_map, j, own)[x] = sharedmemory_map[x]
      BY <2>2, MapEmplaceFacts
    <2>4. QED
      BY <2>1, <2>3
  <1>5. \A d \in Pids : j \notin DOMAIN mSharedMemoryList[d]
    BY <1>2 DEF MemoryInv, MemoryIdsExclusive
  <1>6. \A d \in Pids : \A x \in DOMAIN mSharedMemoryList[d] : Backing(x)' = Backing(x)
    BY <1>4 DEF MemoryInv, MemoryBackedByNative, Backing
  <1>7. Backing(j)' = b
    BY <1>4 DEF Backing
  <1>8. b \in Buffers /\ (~orphaned => b = own)
    <2>1. IsMap(sharedmemory_map', SmIdsInJni, Buffers)
      BY DEF TypeOK, NativeTypeOK, Buffers
    <2>2. ~orphaned => j \notin DOMAIN sharedmemory_map
      BY <1>2 DEF MemoryInv, MemoryTracked
    <2>3. QED
      BY <1>4, <2>1, <2>2 DEF IsMap
  <1> HIDE DEF b
  <1>9. (heldMemory')[c] = Proxy!MapPut(heldMemory[c], j, b)
    <2>1. DOMAIN heldMemory[c] = DOMAIN mSharedMemoryList[c]
          /\ \A x \in DOMAIN mSharedMemoryList[c] : heldMemory[c][x] = Backing(x)
      BY HeldFacts
    <2>2. (heldMemory')[c] = [x \in DOMAIN mSharedMemoryList[c] \cup {j} |-> Backing(x)']
      BY <1>3, HeldFactsNext
    <2>3. \A x \in DOMAIN mSharedMemoryList[c] \cup {j} :
             Backing(x)' = IF x = j THEN b ELSE heldMemory[c][x]
      BY <1>6, <1>7, <2>1
    <2>4. QED
      BY <2>1, <2>2, <2>3 DEF Proxy!MapPut
  <1>10. \A d \in Pids \ {c} : (heldMemory')[d] = heldMemory[d]
    BY <1>2, <1>6, HeldUnchanged
  <1>11. heldMemory' = [heldMemory EXCEPT ![c] = Proxy!MapPut(heldMemory[c], j, b)]
    BY <1>9, <1>10, HeldExcept
  <1>12. b \in IF orphaned THEN Proxy!Buffers ELSE Proxy!OwnBuffers(c)
    BY <1>8 DEF Proxy!Buffers, Proxy!OwnBuffers, Buffers
  <1>13. \A d \in Pids : j \notin DOMAIN heldMemory[d]
    BY <1>5, HeldFacts
  <1>14. Proxy!Register(c)
    BY <1>2, <1>11, <1>12, <1>13 DEF Proxy!Register
  <1>15. QED
    BY <1>14 DEF Proxy!Next

\* A release, or a finalisation that aborts.
LEMMA DropIsRelease ==
    ASSUME MemoryInv, NEW c \in Pids, NEW x \in SmIdsInJni, NEW gone \in SUBSET SmIdsInJni,
           DropMemory(c, x, gone), teeWork' = {}
    PROVE  Proxy!Next
  <1> DEFINE ks == (gone \cup {x}) \cap DOMAIN mSharedMemoryList[c]
             left == DOMAIN mSharedMemoryList[c] \ (gone \cup {x})
  <1>1. DOMAIN mSharedMemoryList = Pids
    BY DEF MemoryInv, TypeOK
  <1>2. /\ DOMAIN (mSharedMemoryList')[c] = left
        /\ \A d \in Pids \ {c} : (mSharedMemoryList')[d] = mSharedMemoryList[d]
        /\ c \in mOTCallerList /\ UNCHANGED <<mOTCallerList, orphaned>>
        /\ x \in DOMAIN mSharedMemoryList[c]
    BY <1>1 DEF DropMemory, MapRemove, Restrict
  <1>3. /\ DOMAIN sharedmemory_map' = DOMAIN sharedmemory_map \ {x}
        /\ \A y \in DOMAIN sharedmemory_map \ {x} : sharedmemory_map'[y] = sharedmemory_map[y]
    BY DEF DropMemory, MapRemove, Restrict
  <1>4. \A y : y # x => Backing(y)' = Backing(y)
    BY <1>3 DEF Backing
  <1>5. \A d \in Pids \ {c} : x \notin DOMAIN mSharedMemoryList[d]
    BY <1>2 DEF MemoryInv, MemoryIdsExclusive
  <1>6. \A d \in Pids \ {c} : (heldMemory')[d] = heldMemory[d]
    BY <1>2, <1>4, <1>5, HeldUnchanged
  <1>7. (heldMemory')[c] = Proxy!MapRemove(heldMemory[c], ks)
    <2>1. /\ DOMAIN heldMemory[c] = DOMAIN mSharedMemoryList[c]
          /\ \A y \in DOMAIN mSharedMemoryList[c] : heldMemory[c][y] = Backing(y)
      BY HeldFacts
    <2>2. (heldMemory')[c] = [y \in left |-> Backing(y)']
      BY <1>2, HeldFactsNext
    <2>3. \A y \in left : Backing(y)' = heldMemory[c][y]
      BY <1>4, <2>1
    <2>4. DOMAIN heldMemory[c] \ ks = left
      BY <2>1
    <2>5. Proxy!MapRemove(heldMemory[c], ks) = [y \in left |-> heldMemory[c][y]]
      <3> HIDE DEF ks, left
      <3>1. QED
        BY <2>4 DEF Proxy!MapRemove, Proxy!Restrict
    <2> HIDE DEF left
    <2>6. QED
      BY <2>2, <2>3, <2>5
  <1>8. heldMemory' = [heldMemory EXCEPT ![c] = Proxy!MapRemove(heldMemory[c], ks)]
    BY <1>6, <1>7, HeldExcept
  <1>9. ks \in SUBSET DOMAIN heldMemory[c]
    BY HeldFacts
  <1> HIDE DEF ks
  <1>10. Proxy!Release(c)
    BY <1>2, <1>8, <1>9 DEF Proxy!Release
  <1>11. QED
    BY <1>10 DEF Proxy!Next

\* After its record is emptied a caller holds nothing.
LEMMA HeldEmptied ==
    ASSUME NEW c \in Pids, DOMAIN mSharedMemoryList = Pids,
           mSharedMemoryList' = [mSharedMemoryList EXCEPT ![c] = EmptyMap]
    PROVE  /\ (heldMemory')[c] = Proxy!EmptyMap
           /\ \A d \in Pids \ {c} : (mSharedMemoryList')[d] = mSharedMemoryList[d]
  <1>1. DOMAIN (mSharedMemoryList')[c] = {}
    BY EmptyMapFacts
  <1>2. (heldMemory')[c] = [j \in {} |-> Backing(j)']
    BY <1>1, HeldFactsNext
  <1>3. QED
    BY <1>2 DEF Proxy!EmptyMap

\* A finalisation that leaves buffers behind.
LEMMA ForgetIsLeave ==
    ASSUME MemoryInv, NEW c \in Pids, ForgetMemory(c), teeWork' = {}
    PROVE  Proxy!Next
  <1>1. DOMAIN mSharedMemoryList = Pids
    BY DEF MemoryInv, TypeOK
  <1>2. /\ (heldMemory')[c] = Proxy!EmptyMap
        /\ \A d \in Pids \ {c} : (mSharedMemoryList')[d] = mSharedMemoryList[d]
    BY <1>1, HeldEmptied DEF ForgetMemory
  <1>3. \A y : Backing(y)' = Backing(y)
    BY DEF ForgetMemory, Backing
  <1>4. \A d \in Pids \ {c} : (heldMemory')[d] = heldMemory[d]
    BY <1>2, <1>3, HeldUnchanged
  <1>5. heldMemory' = [heldMemory EXCEPT ![c] = Proxy!EmptyMap]
    BY <1>2, <1>4, HeldExcept
  <1>6. CASE mOTCallerList' = mOTCallerList
    <2>1. Proxy!MapRemove(heldMemory[c], DOMAIN heldMemory[c]) = Proxy!EmptyMap
      BY DEF Proxy!MapRemove, Proxy!Restrict, Proxy!EmptyMap
    <2>2. Proxy!Release(c)
      BY <1>5, <1>6, <2>1 DEF Proxy!Release, ForgetMemory
    <2>3. QED
      BY <2>2 DEF Proxy!Next
  <1>7. CASE mOTCallerList' = mOTCallerList \ {c}
    <2>1. TypeOK => orphaned \in BOOLEAN
      BY DEF TypeOK
    <2>2. Proxy!Leave(c)
      BY <1>5, <1>7, <2>1 DEF Proxy!Leave, ForgetMemory, MemoryInv
    <2>3. QED
      BY <2>2 DEF Proxy!Next
  <1>8. QED
    BY <1>6, <1>7 DEF ForgetMemory

\* The last caller leaves.
LEMMA ClearIsLeave ==
    ASSUME MemoryInv, NEW c \in Pids, ClearMemory(c), teeWork' = {}
    PROVE  Proxy!Next
  <1>1. DOMAIN mSharedMemoryList = Pids
    BY DEF MemoryInv, TypeOK
  <1>2. /\ (heldMemory')[c] = Proxy!EmptyMap
        /\ \A d \in Pids \ {c} : (mSharedMemoryList')[d] = mSharedMemoryList[d]
    BY <1>1, HeldEmptied DEF ClearMemory
  <1>3. \A d \in Pids \ {c} : DOMAIN mSharedMemoryList[d] = {}
    BY DEF ClearMemory, MemoryInv, MemoryOnlyOfCallers
  <1>4. \A d \in Pids \ {c} : (heldMemory')[d] = heldMemory[d]
    BY <1>2, <1>3, HeldUnchanged
  <1>5. heldMemory' = [heldMemory EXCEPT ![c] = Proxy!EmptyMap]
    BY <1>2, <1>4, HeldExcept
  <1>6. /\ c \in mOTCallerList /\ mOTCallerList' = mOTCallerList \ {c}
        /\ orphaned' = (orphaned /\ mOTCallerList' # {})
    BY DEF ClearMemory
  <1>7. Proxy!Leave(c)
    BY <1>5, <1>6 DEF Proxy!Leave
  <1>8. QED
    BY <1>7 DEF Proxy!Next

\* A new guard.
LEMMA ResetIsRestart ==
    ASSUME ResetMemory, teeWork' = {}
    PROVE  Proxy!Next
  <1>1. \A c \in Pids : (mSharedMemoryList')[c] = EmptyMap
    BY DEF ResetMemory, NoEntries
  <1>2. \A c \in Pids : DOMAIN (mSharedMemoryList')[c] = {}
    BY <1>1, EmptyMapFacts
  <1>3. \A c \in Pids : (heldMemory')[c] = Proxy!EmptyMap
    BY <1>2, HeldFactsNext DEF Proxy!EmptyMap
  <1>4. heldMemory' = Proxy!Nothing
    BY <1>3, HeldFactsNext DEF Proxy!Nothing, heldMemory
  <1>5. Proxy!Restart
    BY <1>4 DEF Proxy!Restart, ResetMemory
  <1>6. QED
    BY <1>5 DEF Proxy!Next

\* For any number of processes, ids and sessions: whatever the guard and the
\* native layer do is what TEEProxy allows, so every process has shared memory of
\* its own that no other process's call reads, frees or replaces, until a guard is
\* dropped with callers in it.
THEOREM GuardImplementsProxy == Spec => ImplementsProxy
  <1>1. Init => Proxy!Init
    <2> SUFFICES ASSUME Init PROVE Proxy!Init
      OBVIOUS
    <2>1. \A c \in Pids : DOMAIN mSharedMemoryList[c] = {}
      BY EmptyMapFacts DEF Init, NoEntries
    <2>2. \A c \in Pids : heldMemory[c] = Proxy!EmptyMap
      BY <2>1, HeldFacts DEF Proxy!EmptyMap
    <2>3. heldMemory = Proxy!Nothing
      BY <2>2, HeldFacts DEF Proxy!Nothing, heldMemory
    <2>4. teeWork = {}
      BY DEF teeWork, Init, NativeInit
    <2>5. QED
      BY <2>3, <2>4 DEF Proxy!Init, Init
  <1>2. MemoryInv /\ MemoryInv' /\ [Next]_vars => [Proxy!Next]_(Proxy!proxyVars)
    <2> SUFFICES ASSUME MemoryInv, MemoryInv', [Next]_vars
                 PROVE  Proxy!Next \/ UNCHANGED Proxy!proxyVars
      OBVIOUS
    <2>1. CASE UNCHANGED vars
      BY <2>1 DEF vars, guardVars, nativeVars, Proxy!proxyVars, heldMemory, Backing,
         teeWork
    <2>2. CASE Next
      <3>1. TypeOK /\ TypeOK'
        BY DEF MemoryInv
      <3>2. CASE \E c \in Pids : CommandStep(c)
        BY <3>2, CommandIsCommand
      <3>3. CASE teeWork' = {}
        <4>1. MemoryEffect
          BY <2>2, <3>1, MemoryEffects
        <4>2. QED
          BY <2>2, <3>1, <3>3, <4>1, KeepIsJoin, AddIsRegister, DropIsRelease,
             ForgetIsLeave, ClearIsLeave, ResetIsRestart DEF MemoryEffect
      <3>4. QED
        BY <2>2, <3>1, <3>2, <3>3, StepWork
    <2>3. QED
      BY <2>1, <2>2
  <1>3. QED
    BY <1>1, <1>2, MemoryInvariant, PTL DEF Spec, ImplementsProxy, Proxy!Spec
=============================================================================
