------------------------------- MODULE OTGuard -------------------------------
(***************************************************************************)
(* The TEE proxy of the service: OTGuard.java with its OTCaller records,   *)
(* on top of the native layer, behind the binder stub and the lifecycle of *)
(* OTConnectionService.  The stub's methods are `synchronized` on the one  *)
(* binder object, so each handler is one atomic step.                      *)
(*                                                                         *)
(* A handler never sees the client's word for who it is: the caller is the *)
(* process id of the binder transaction.  The ids a client chooses for its *)
(* shared memory and its sessions (Ids in the Java layer) are mapped to    *)
(* ids that the guard draws for the native layer (ids in Jni).             *)
(***************************************************************************)
EXTENDS NativeLibtee

VARIABLES
    bound,              \* processes bound to OTConnectionService
    mConnectedToOT,     \* does the guard believe the context is initialised?
    mOTCallerList,      \* processes that have an OTCaller record
    mSharedMemoryList,  \* per caller: smIdInJni -> smId
    mSessionList,       \* per caller: sidInJni -> sid
    smIDMap,            \* smIdInJni reserved in the guard
    sessionIdMap,       \* sidInJni -> sid, reserved in the guard
    reply,              \* what the last handler answered its client
    orphaned            \* history: a guard was dropped while it had callers,
                        \* and the native layer has not been finalised since

guardVars == <<mConnectedToOT, mOTCallerList, mSharedMemoryList, mSessionList,
               smIDMap, sessionIdMap>>
vars == <<nativeVars, guardVars, bound, reply, orphaned>>

Calls == {"bind", "unbind", "initializeContext", "finalizeContext",
          "registerSharedMemory", "releaseSharedMemory", "openSession",
          "closeSession", "invokeCommand"}
ReturnCodes == {"SUCCESS", "TEE_ERROR", "ERROR_GENERIC", "ACCESS_DENIED",
                "BAD_PARAMETERS", "VOID", "EXCEPTION"}

Replies == [call : Calls, rc : ReturnCodes]
Reply(call, rc) == reply' = [call |-> call, rc |-> rc]

TypeOK ==
    /\ NativeTypeOK
    /\ bound \subseteq Pids
    /\ mConnectedToOT \in BOOLEAN
    /\ mOTCallerList \subseteq Pids
    /\ DOMAIN mSharedMemoryList = Pids
    /\ DOMAIN mSessionList = Pids
    /\ \A c \in Pids : /\ IsMap(mSharedMemoryList[c], SmIdsInJni, SmIds)
                       /\ IsMap(mSessionList[c], SidsInJni, Sids)
    /\ smIDMap \subseteq SmIdsInJni
    /\ IsMap(sessionIdMap, SidsInJni, Sids)
    /\ reply \in Replies
    /\ orphaned \in BOOLEAN

NoEntries == [c \in Pids |-> EmptyMap]

Init ==
    /\ NativeInit
    /\ bound = {}
    /\ mConnectedToOT = FALSE
    /\ mOTCallerList = {}
    /\ mSharedMemoryList = NoEntries
    /\ mSessionList = NoEntries
    /\ smIDMap = {}
    /\ sessionIdMap = EmptyMap
    /\ reply = [call |-> "unbind", rc |-> "VOID"]
    /\ orphaned = FALSE
-----------------------------------------------------------------------------
(* OTConnectionService: its life is that of its bindings.                  *)

\* The first binding constructs the service and with it a fresh guard, whose
\* fields have their initial values already (see Unbind).
Bind(c) ==
    /\ c \notin bound
    /\ bound' = bound \cup {c}
    /\ nativeIdle
    /\ Reply("bind", "VOID")
    /\ UNCHANGED <<guardVars, orphaned>>

\* unbindService or the death of the client.  onUnbind cleans nothing up;
\* when no binding is left the service is destroyed and drops its guard,
\* while the native globals stay.
Unbind(c) ==
    /\ c \in bound
    /\ bound' = bound \ {c}
    /\ nativeIdle
    /\ Reply("unbind", "VOID")
    /\ IF bound' = {}
       THEN /\ mConnectedToOT' = FALSE
            /\ mOTCallerList' = {}
            /\ mSharedMemoryList' = NoEntries
            /\ mSessionList' = NoEntries
            /\ smIDMap' = {}
            /\ sessionIdMap' = EmptyMap
            /\ orphaned' = (orphaned \/ mOTCallerList # {})
       ELSE UNCHANGED <<guardVars, orphaned>>
-----------------------------------------------------------------------------
(* Contexts.                                                               *)

\* pathOk: the path of the engine's socket could be computed.
\* ok: TEEC_InitializeContext succeeds.
InitializeContext(c, pathOk, ok) ==
    /\ c \in bound
    /\ UNCHANGED <<bound, smIDMap, sessionIdMap, mSharedMemoryList,
                   mSessionList, orphaned>>
    /\ \/ /\ ~mConnectedToOT /\ ~pathOk
          /\ nativeIdle
          /\ Reply("initializeContext", "ERROR_GENERIC")
          /\ UNCHANGED <<mConnectedToOT, mOTCallerList>>
       \/ /\ ~mConnectedToOT /\ pathOk
          /\ native_teecInitializeContext(ok)
          /\ Reply("initializeContext", IF ok THEN "SUCCESS" ELSE "TEE_ERROR")
          /\ mConnectedToOT' = ok
          /\ mOTCallerList' = mOTCallerList \cup {c}
       \/ /\ mConnectedToOT
          /\ nativeIdle
          /\ Reply("initializeContext", "SUCCESS")
          /\ mOTCallerList' = mOTCallerList \cup {c}
          /\ UNCHANGED mConnectedToOT

\* teecFinalizeContext walks over a caller's entries, in the order of the hash
\* map, and asks for the release of the resource whose CLIENT id is the entry's
\* JNI id.  At entry n of the walk that resource is one of Coincident: entries
\* not yet removed whose client id happens to be that number.
Coincident(list, order, n) ==
    {order[k] : k \in {i \in n..Cardinality(DOMAIN list) : list[order[i]] = order[n]}}

\* No entry coincides: every entry is dropped and no resource is released.
WalkCompletes(list) ==
    \E order \in Iterations(list) :
        \A n \in DOMAIN order : Coincident(list, order, n) = {}

\* Entry n coincides with entry x: the entries before n are dropped, x is
\* released and removed from the list under the iterator, whose remove() then
\* throws ConcurrentModificationException.
WalkThrows(list, dropped, x) ==
    \E order \in Iterations(list) : \E n \in DOMAIN order :
        /\ \A k \in 1..(n - 1) : Coincident(list, order, k) = {}
        /\ x \in Coincident(list, order, n)
        /\ dropped = {order[k] : k \in 1..(n - 1)}

FinalizeUnknownCaller(c) ==
    /\ c \in bound
    /\ c \notin mOTCallerList
    /\ nativeIdle
    /\ Reply("finalizeContext", "VOID")
    /\ UNCHANGED <<guardVars, bound, orphaned>>

FinalizeThrowsInMemory(c) ==
    /\ c \in bound
    /\ c \in mOTCallerList
    /\ \E x \in DOMAIN mSharedMemoryList[c] :
       \E dropped \in SUBSET DOMAIN mSharedMemoryList[c] :
          /\ WalkThrows(mSharedMemoryList[c], dropped, x)
          /\ native_teecReleaseSharedMemory(x)
          /\ smIDMap' = smIDMap \ {x}
          /\ mSharedMemoryList' =
                [mSharedMemoryList EXCEPT ![c] = MapRemove(@, dropped \cup {x})]
    /\ Reply("finalizeContext", "EXCEPTION")
    /\ UNCHANGED <<mConnectedToOT, mOTCallerList, mSessionList, sessionIdMap,
                   bound, orphaned>>

FinalizeThrowsInSessions(c) ==
    /\ c \in bound
    /\ c \in mOTCallerList
    /\ WalkCompletes(mSharedMemoryList[c])
    /\ mSharedMemoryList' = [mSharedMemoryList EXCEPT ![c] = EmptyMap]
    /\ \E x \in DOMAIN mSessionList[c] :
       \E dropped \in SUBSET DOMAIN mSessionList[c] :
          /\ WalkThrows(mSessionList[c], dropped, x)
          /\ native_teecCloseSession(x)
          /\ sessionIdMap' = MapRemove(sessionIdMap, {x})
          /\ mSessionList' =
                [mSessionList EXCEPT ![c] = MapRemove(@, dropped \cup {x})]
    /\ Reply("finalizeContext", "EXCEPTION")
    /\ UNCHANGED <<mConnectedToOT, mOTCallerList, smIDMap, bound, orphaned>>

\* Mutation: the native layer is finalised with every caller that leaves.
AnyCallerLeaves(c) == TRUE

\* The native context is finalised with the last caller; mConnectedToOT,
\* smIDMap and sessionIdMap keep their values.
LastCallerLeaves(c) == mOTCallerList \ {c} = {}

FinalizeContext(c) ==
    /\ c \in bound
    /\ c \in mOTCallerList
    /\ WalkCompletes(mSharedMemoryList[c])
    /\ WalkCompletes(mSessionList[c])
    /\ mSharedMemoryList' = [mSharedMemoryList EXCEPT ![c] = EmptyMap]
    /\ mSessionList' = [mSessionList EXCEPT ![c] = EmptyMap]
    /\ mOTCallerList' = mOTCallerList \ {c}
    /\ \/ LastCallerLeaves(c) /\ native_teecFinalizeContext /\ orphaned' = FALSE
       \/ ~LastCallerLeaves(c) /\ nativeIdle /\ UNCHANGED orphaned
    /\ Reply("finalizeContext", "VOID")
    /\ UNCHANGED <<mConnectedToOT, smIDMap, sessionIdMap, bound>>
-----------------------------------------------------------------------------
(* Shared memory.                                                          *)

\* Mutations: the occupied ids are not skipped; the bound is off by one.
anySharedMemoryId == SmIdsInJni
idUpToBound == (0..SmIdInJniBound) \ smIDMap

\* The ids the generator's do-while loop can end with.
generateSharedMemoryId == SmIdsInJni \ smIDMap

RegisterSharedMemory(c, smid, ok) ==
    /\ c \in bound
    /\ UNCHANGED <<bound, mConnectedToOT, mOTCallerList, mSessionList,
                   sessionIdMap, orphaned>>
    /\ \/ /\ c \notin mOTCallerList
          /\ nativeIdle
          /\ Reply("registerSharedMemory", "ACCESS_DENIED")
          /\ UNCHANGED <<mSharedMemoryList, smIDMap>>
       \/ /\ c \in mOTCallerList
          /\ Reply("registerSharedMemory", IF ok THEN "SUCCESS" ELSE "TEE_ERROR")
          /\ \E j \in generateSharedMemoryId :
                /\ native_teecRegisterSharedMemory(j, [pid |-> c, smid |-> smid], ok)
                /\ IF ok
                   THEN /\ mSharedMemoryList' =
                              [mSharedMemoryList EXCEPT ![c] = MapPut(@, j, smid)]
                        /\ smIDMap' = smIDMap \cup {j}
                   ELSE UNCHANGED <<mSharedMemoryList, smIDMap>>

\* Mutation: the search is not confined to the caller's own list.
searchAllCallers(c, smid) ==
    UNION {KeysOf(mSharedMemoryList[d], smid) : d \in Pids} \cup {NoId}

\* OTCaller.getSmIdInJniBySmid: the ids the search can answer, -1 when none.
getSmIdInJniBySmid(c, smid) ==
    IF KeysOf(mSharedMemoryList[c], smid) = {} THEN {NoId}
    ELSE KeysOf(mSharedMemoryList[c], smid)

ReleaseSharedMemory(c, smid) ==
    /\ c \in bound
    /\ UNCHANGED <<bound, mConnectedToOT, mOTCallerList, mSessionList,
                   sessionIdMap, orphaned>>
    /\ Reply("releaseSharedMemory", "VOID")
    /\ \/ /\ c \notin mOTCallerList
          /\ nativeIdle
          /\ UNCHANGED <<mSharedMemoryList, smIDMap>>
       \/ /\ c \in mOTCallerList
          /\ \E j \in getSmIdInJniBySmid(c, smid) :
                \/ /\ j = NoId
                   /\ nativeIdle
                   /\ UNCHANGED <<mSharedMemoryList, smIDMap>>
                \/ /\ j # NoId
                   /\ native_teecReleaseSharedMemory(j)
                   /\ smIDMap' = smIDMap \ {j}
                   /\ mSharedMemoryList' =
                         [mSharedMemoryList EXCEPT ![c] = MapRemove(@, {j})]
-----------------------------------------------------------------------------
(* Sessions.  An operation is abstracted to the shared memory one of its   *)
(* parameters refers to; NoId stands for an operation without any, and for *)
(* no operation at all.  (When the operation goes back to the client, and  *)
(* when it does not, is in OTContext.)                                     *)

\* Mutation: the occupied ids are not skipped.
anySessionId == SidsInJni

generateSessionId == SidsInJni \ DOMAIN sessionIdMap

\* replaceSMId: the client id in a reference becomes the id in Jni.
replaceSMId(c, ref) == IF ref = NoId THEN {NoId} ELSE getSmIdInJniBySmid(c, ref)

OpenSession(c, sid, ref, ok) ==
    /\ c \in bound
    /\ UNCHANGED <<bound, mConnectedToOT, mOTCallerList, mSharedMemoryList,
                   smIDMap, orphaned>>
    /\ \/ /\ c \notin mOTCallerList
          /\ nativeIdle
          /\ Reply("openSession", "ACCESS_DENIED")
          /\ UNCHANGED <<mSessionList, sessionIdMap>>
       \/ /\ c \in mOTCallerList
          /\ Reply("openSession", IF ok THEN "SUCCESS" ELSE "TEE_ERROR")
          /\ \E j \in generateSessionId, r \in replaceSMId(c, ref),
                h \in Handles \cup {NoHandle} :
                /\ ok <=> h # NoHandle
                /\ native_teecOpenSession(j, [pid |-> c, sid |-> sid], r, h, ok)
                /\ IF ok
                   THEN /\ mSessionList' =
                              [mSessionList EXCEPT ![c] = MapPut(@, j, sid)]
                        /\ sessionIdMap' = MapPut(sessionIdMap, j, sid)
                   ELSE UNCHANGED <<mSessionList, sessionIdMap>>

\* Mutation: the guard's global map is searched instead of the caller's list.
searchSessionIdMap(c, sid) ==
    IF KeysOf(sessionIdMap, sid) = {} THEN {NoId} ELSE KeysOf(sessionIdMap, sid)

\* OTCaller.removeSessionBySid and getSidInJniBySid search alike.
getSidInJniBySid(c, sid) ==
    IF KeysOf(mSessionList[c], sid) = {} THEN {NoId} ELSE KeysOf(mSessionList[c], sid)

CloseSession(c, sid) ==
    /\ c \in bound
    /\ UNCHANGED <<bound, mConnectedToOT, mOTCallerList, mSharedMemoryList,
                   smIDMap, orphaned>>
    /\ Reply("closeSession", "VOID")
    /\ \/ /\ c \notin mOTCallerList
          /\ nativeIdle
          /\ UNCHANGED <<mSessionList, sessionIdMap>>
       \/ /\ c \in mOTCallerList
          /\ \E j \in getSidInJniBySid(c, sid) :
                \/ /\ j = NoId
                   /\ nativeIdle
                   /\ UNCHANGED <<mSessionList, sessionIdMap>>
                \/ /\ j # NoId
                   /\ native_teecCloseSession(j)
                   /\ sessionIdMap' = MapRemove(sessionIdMap, {j})
                   /\ mSessionList' = [mSessionList EXCEPT ![c] = MapRemove(@, {j})]

\* The answer to a command without an operation whose session the native layer
\* does not know.
unlessOperation(ref) == IF ref = NoId THEN {"BAD_PARAMETERS"} ELSE {}

\* ran: the TEE runs the command.  When the native layer does not know the
\* session it returns no operation, and the guard dereferences null if the
\* client sent one.
InvokeCommand(c, sid, ref, ran) ==
    /\ c \in bound
    /\ UNCHANGED <<guardVars, bound, orphaned>>
    /\ \/ /\ c \notin mOTCallerList
          /\ nativeIdle
          /\ Reply("invokeCommand", "ACCESS_DENIED")
       \/ /\ c \in mOTCallerList
          /\ \E j \in getSidInJniBySid(c, sid), r \in replaceSMId(c, ref) :
             \/ /\ j = NoId
                /\ nativeIdle
                /\ Reply("invokeCommand", "BAD_PARAMETERS")
             \/ /\ j # NoId
                /\ native_teecInvokeCommand(j, c, r, ran)
                /\ IF j \notin sessions_map
                   THEN \E rc \in {"EXCEPTION"} \cup unlessOperation(ref) :
                           Reply("invokeCommand", rc)
                   ELSE \E rc \in {"TEE_ERROR"} \cup (IF ran THEN {"SUCCESS"} ELSE {}) :
                           Reply("invokeCommand", rc)
-----------------------------------------------------------------------------
Next ==
    \E c \in Pids :
        \/ Bind(c)
        \/ Unbind(c)
        \/ \E pathOk, ok \in BOOLEAN : InitializeContext(c, pathOk, ok)
        \/ FinalizeUnknownCaller(c)
        \/ FinalizeThrowsInMemory(c)
        \/ FinalizeThrowsInSessions(c)
        \/ FinalizeContext(c)
        \/ \E smid \in SmIds, ok \in BOOLEAN : RegisterSharedMemory(c, smid, ok)
        \/ \E smid \in SmIds : ReleaseSharedMemory(c, smid)
        \/ \E sid \in Sids, ok \in BOOLEAN, ref \in SmIds \cup {NoId} :
              \/ OpenSession(c, sid, ref, ok)
              \/ InvokeCommand(c, sid, ref, ok)
        \/ \E sid \in Sids : CloseSession(c, sid)

Spec == Init /\ [][Next]_vars
-----------------------------------------------------------------------------
(* Properties.                                                             *)

\* An id drawn for the native layer belongs to one caller at most and stays
\* reserved for as long as that caller has it, so the generators, which look
\* at smIDMap and sessionIdMap only, never hand it out again
\* (OTGuard.generateSharedMemoryId, generateSessionId).
MemoryIdsExclusive ==
    \A c \in Pids : \A j \in DOMAIN mSharedMemoryList[c] :
        /\ j \in smIDMap
        /\ \A d \in Pids \ {c} : j \notin DOMAIN mSharedMemoryList[d]

\* The same for sessions, whose map also keeps the client's id: a command never
\* runs under an id that two callers hold (OTGuard.teecOpenSession lines 350-353).
SessionIdsExclusive ==
    \A c \in Pids : \A j \in DOMAIN mSessionList[c] :
        /\ j \in DOMAIN sessionIdMap
        /\ sessionIdMap[j] = mSessionList[c][j]
        /\ \A d \in Pids \ {c} : j \notin DOMAIN mSessionList[d]

\* Whatever a caller's record still lists, the native layer still has: neither
\* another caller's release nor the finalisation of the shared context, nor a
\* guard of an earlier service instance, takes it away
\* (OTGuard.teecReleaseSharedMemory, teecFinalizeContext lines 173-177).
MemoryBackedByNative ==
    \A c \in Pids : DOMAIN mSharedMemoryList[c] \subseteq DOMAIN sharedmemory_map

\* The same for sessions, which the native layer forgets only when the last
\* caller leaves (native_teecFinalizeContext).
SessionsBackedByNative ==
    \A c \in Pids : DOMAIN mSessionList[c] \subseteq sessions_map

\* Hence teecInvokeCommand never dereferences the null operation the native
\* layer returns for an unknown session (OTGuard.java line 428).
InvokeNeverThrows == ~(reply.call = "invokeCommand" /\ reply.rc = "EXCEPTION")

\* Only registered callers own anything: what makes finalising the native layer
\* with the last caller harmless to the others (the proofs need it).
MemoryOnlyOfCallers ==
    \A c \in Pids \ mOTCallerList : DOMAIN mSharedMemoryList[c] = {}

\* The same for sessions.
SessionsOnlyOfCallers ==
    \A c \in Pids \ mOTCallerList : DOMAIN mSessionList[c] = {}

\* As long as no guard was dropped with callers in it, the guard knows every
\* buffer of the native layer, so a new id never meets an entry that emplace
\* would keep; and nothing is left once the last caller is gone.
MemoryTracked ==
    ~orphaned => /\ DOMAIN sharedmemory_map \subseteq smIDMap
                 /\ mOTCallerList = {} => DOMAIN sharedmemory_map = {}

\* The buffer behind an id is the very one its caller registered under its own
\* client id, as long as no guard was dropped with callers in it.
MemoryIsOwn ==
    ~orphaned =>
        \A c \in Pids : \A j \in DOMAIN mSharedMemoryList[c] :
            sharedmemory_map[j] = [pid |-> c, smid |-> mSharedMemoryList[c][j]]

\* Without a dropped guard the TEE never works on a buffer of a process other
\* than the one whose command it runs.
CommandsUseOwnMemory ==
    ~orphaned => \A cmd \in teeCommand : \A b \in cmd.buffers : b.pid = cmd.pid

\* No handler frees or replaces the buffer behind an id that some caller keeps:
\* a release or a finalisation acts on its own caller's memory alone.
KeptMemoryUntouchedStep ==
    \A c \in Pids :
    \A j \in DOMAIN mSharedMemoryList[c] \cap DOMAIN (mSharedMemoryList')[c] :
        /\ j \in DOMAIN sharedmemory_map /\ j \in DOMAIN sharedmemory_map'
        /\ sharedmemory_map'[j] = sharedmemory_map[j]

\* No step takes away memory that a caller keeps (teecReleaseSharedMemory,
\* teecFinalizeContext).
KeptMemoryUntouched == [][KeptMemoryUntouchedStep]_vars

\* Buffers of the native layer that no caller lists, and so nobody can release.
Leaked == DOMAIN sharedmemory_map
             \ UNION {DOMAIN mSharedMemoryList[c] : c \in Pids}

KeptLeaksStep ==
    \/ Leaked' \subseteq Leaked
    \/ reply'.call = "unbind" /\ bound' = {}
    \/ /\ reply'.call = "finalizeContext"
       /\ \E c \in mOTCallerList :
             Leaked' \subseteq Leaked \cup DOMAIN mSharedMemoryList[c]

UnkeptLeaksStep ==
    \A b \in unreferenced' :
        /\ reply'.call = "registerSharedMemory"
        /\ reply'.rc = "TEE_ERROR" \/ orphaned

\* The ways a buffer gets lost.  One that the native layer keeps loses its last
\* owner when that owner leaves: teecFinalizeContext, completed or aborted, drops
\* entries of one record without their buffers (lines 149-154), and the end of the
\* service drops them all; a release frees what it unlists.  One that the native
\* layer does not even keep comes from a registration that the TEE refused
\* (LibteeWrapper.cpp lines 290-316) or, once a guard was dropped with callers in
\* it, from one whose id met an old entry (line 314): otherwise a registration
\* that succeeds has its buffer in the map.
LeakCauses == [][KeptLeaksStep /\ UnkeptLeaksStep]_vars
-----------------------------------------------------------------------------
(* The abstract specification.                                             *)

\* The buffer behind an id, or one of nobody when the native layer has none.
Backing(j) == IF j \in DOMAIN sharedmemory_map THEN sharedmemory_map[j]
              ELSE [pid |-> NoId, smid |-> NoId]

\* What the callers hold, by the buffers that the TEE gets for their ids.
heldMemory ==
    [c \in Pids |-> [j \in DOMAIN mSharedMemoryList[c] |-> Backing(j)]]

\* What the TEE runs, without the session it runs in.
teeWork == {[pid |-> cmd.pid, buffers |-> cmd.buffers] : cmd \in teeCommand}

Proxy == INSTANCE TEEProxy WITH
            Holds <- SmIdsInJni,
            clients <- mOTCallerList,
            memory <- heldMemory,
            work <- teeWork,
            exposed <- orphaned

\* The guard and the native layer under it give every process a memory of its
\* own: each handler is a step of TEEProxy (OTGuard.java, LibteeWrapper.cpp).
ImplementsProxy == Proxy!Spec
-----------------------------------------------------------------------------
(* What comments of the code claim and its behaviour does not meet.        *)

\* "This class implements the multiplexing in the service side"
\* (OTGuard.java:50) and "All contexts and sessions should be kept record in
\* here" (LibteeWrapper.cpp:48): a command of one process runs in a session
\* that this process opened.
CommandsRunInOwnSession == \A cmd \in teeCommand : cmd.session.pid = cmd.pid

\* "connect to open-tee if not connected" (OTGuard.java:86): an
\* initializeContext that answers success leaves a usable native context.
InitializedMeansConnected ==
    reply.call = "initializeContext" /\ reply.rc = "SUCCESS" => g_contextRecord
=============================================================================
