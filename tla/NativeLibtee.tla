---------------------------- MODULE NativeLibtee ----------------------------
(***************************************************************************)
(* The JNI layer of the service (LibteeWrapper.cpp behind                  *)
(* NativeLibtee.java) and the TEE it talks to.  The globals of the C++     *)
(* file outlive the Java objects above them: only the death of the service *)
(* process resets them.  Every entry point is `static synchronized`, so    *)
(* each is one atomic step here.                                           *)
(*                                                                         *)
(* A buffer is abstracted to who registered it (process and client id), a  *)
(* TEE session to who opened it.  The TEE itself is external: a call may   *)
(* fail at any time, and always fails without a context.                   *)
(***************************************************************************)
EXTENDS Maps

CONSTANTS
    Pids,             \* processes of client applications
    SmIdInJniBound,   \* shared-memory ids the guard draws are below this
    SmIdBound,        \* shared-memory ids a client draws are below this
    SidInJniBound,    \* session ids the guard draws are below this
    SidBound,         \* session ids a client draws are below this
    MaxTeeSessions    \* sessions the TEE can hold open at a time

ASSUME BoundsAssumption ==
    /\ {SmIdInJniBound, SmIdBound, SidInJniBound, SidBound} \subseteq Nat \ {0}
    /\ SmIdBound <= SmIdInJniBound
    /\ SidBound <= SidInJniBound
    /\ MaxTeeSessions \in Nat

SmIdsInJni == 0..(SmIdInJniBound - 1)
SmIds      == 0..(SmIdBound - 1)
SidsInJni  == 0..(SidInJniBound - 1)
Sids       == 0..(SidBound - 1)
Handles    == 1..MaxTeeSessions
NoHandle   == 0
NoId       == -1

Buffers  == [pid : Pids, smid : SmIds]
Sessions == [pid : Pids, sid : Sids]
Commands == [pid : Pids, session : Sessions, buffers : SUBSET Buffers]

VARIABLES
    g_contextRecord,   \* is the global TEEC_Context initialised?
    sharedmemory_map,  \* id -> buffer
    sessions_map,      \* ids present; every value is the address of teec_session
    teec_session,      \* the TEE session held by the one static TEEC_Session
    teeSessions,       \* external: handle -> session open in the TEE
    teeCommand,        \* external: the commands the TEE runs in this step
    unreferenced       \* the buffers that this step allocates and leaves on the
                       \* heap without an entry in sharedmemory_map

nativeVars == <<g_contextRecord, sharedmemory_map, sessions_map, teec_session,
                teeSessions, teeCommand, unreferenced>>

NativeTypeOK ==
    /\ g_contextRecord \in BOOLEAN
    /\ IsMap(sharedmemory_map, SmIdsInJni, Buffers)
    /\ sessions_map \subseteq SidsInJni
    /\ teec_session \in Handles \cup {NoHandle}
    /\ IsMap(teeSessions, Handles, Sessions)
    /\ teeCommand \subseteq Commands
    /\ unreferenced \subseteq Buffers

NativeInit ==
    /\ g_contextRecord = FALSE
    /\ sharedmemory_map = EmptyMap
    /\ sessions_map = {}
    /\ teec_session = NoHandle
    /\ teeSessions = EmptyMap
    /\ teeCommand = {}
    /\ unreferenced = {}

\* No native entry point is called in this step.
nativeIdle ==
    /\ teeCommand' = {} /\ unreferenced' = {}
    /\ UNCHANGED <<g_contextRecord, sharedmemory_map, sessions_map, teec_session,
                   teeSessions>>
-----------------------------------------------------------------------------
\* TEEC_InitializeContext on the global record; a failure leaves it as it was.
native_teecInitializeContext(ok) ==
    /\ g_contextRecord' = (g_contextRecord \/ ok)
    /\ teeCommand' = {} /\ unreferenced' = {}
    /\ UNCHANGED <<sharedmemory_map, sessions_map, teec_session, teeSessions>>

\* Buffers are freed and both maps cleared without releasing or closing
\* anything in the TEE; which sessions survive the loss of the connection is
\* the TEE's choice.
native_teecFinalizeContext ==
    /\ sharedmemory_map' = EmptyMap
    /\ sessions_map' = {}
    /\ g_contextRecord' = FALSE
    /\ \E lost \in SUBSET DOMAIN teeSessions :
          teeSessions' = MapRemove(teeSessions, lost)
    /\ teeCommand' = {} /\ unreferenced' = {}
    /\ UNCHANGED teec_session

\* Nothing frees the struct and the buffer of a registration that fails, unless
\* it failed before they were allocated; emplace does not take the new buffer
\* where the id has one.
lostByRegistration(j, buffer, ok) ==
    IF ok THEN {IF j \in DOMAIN sharedmemory_map THEN {buffer} ELSE {}}
    ELSE {{}, {buffer}}

native_teecRegisterSharedMemory(j, buffer, ok) ==
    /\ ok => g_contextRecord
    /\ sharedmemory_map' =
          IF ok THEN MapEmplace(sharedmemory_map, j, buffer) ELSE sharedmemory_map
    /\ unreferenced' \in lostByRegistration(j, buffer, ok)
    /\ teeCommand' = {}
    /\ UNCHANGED <<g_contextRecord, sessions_map, teec_session, teeSessions>>

\* Mutation: the entry is freed but not erased from the map.
remove_sharedmemory_by_id_keeps(j) == sharedmemory_map

remove_sharedmemory_by_id(j) == MapRemove(sharedmemory_map, {j})

native_teecReleaseSharedMemory(j) ==
    /\ sharedmemory_map' = remove_sharedmemory_by_id(j)
    /\ teeCommand' = {} /\ unreferenced' = {}
    /\ UNCHANGED <<g_contextRecord, sessions_map, teec_session, teeSessions>>

\* The buffers the TEE gets with an operation that refers to shared memory j:
\* when the id is unknown the operation is sent without parameters.
find_sharedmemory_by_id(j) ==
    {sharedmemory_map[k] : k \in {j} \cap DOMAIN sharedmemory_map}

\* On success the one static TEEC_Session is overwritten with the new session.
native_teecOpenSession(j, session, ref, h, ok) ==
    /\ IF ok
       THEN /\ g_contextRecord
            /\ h \in Handles \ DOMAIN teeSessions
            /\ teec_session' = h
            /\ teeSessions' = MapPut(teeSessions, h, session)
            /\ sessions_map' = sessions_map \cup {j}
            /\ teeCommand' = {[pid |-> session.pid, session |-> session,
                               buffers |-> find_sharedmemory_by_id(ref)]}
       ELSE /\ teeCommand' = {}
            /\ UNCHANGED <<sessions_map, teec_session, teeSessions>>
    /\ unreferenced' = {}
    /\ UNCHANGED <<g_contextRecord, sharedmemory_map>>

\* Closes whatever session the static TEEC_Session holds; the id stays in
\* sessions_map.
native_teecCloseSession(j) ==
    /\ teeSessions' = IF j \in sessions_map
                      THEN MapRemove(teeSessions, {teec_session})
                      ELSE teeSessions
    /\ teeCommand' = {} /\ unreferenced' = {}
    /\ UNCHANGED <<g_contextRecord, sharedmemory_map, sessions_map, teec_session>>

\* find_session_by_id answers the static TEEC_Session for every known id.
native_teecInvokeCommand(j, pid, ref, ok) ==
    /\ ok => j \in sessions_map /\ teec_session \in DOMAIN teeSessions
    /\ teeCommand' = IF ok
                     THEN {[pid |-> pid, session |-> teeSessions[teec_session],
                            buffers |-> find_sharedmemory_by_id(ref)]}
                     ELSE {}
    /\ unreferenced' = {}
    /\ UNCHANGED <<g_contextRecord, sharedmemory_map, sessions_map, teec_session,
                   teeSessions>>
=============================================================================
