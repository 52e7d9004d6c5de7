------------------------------ MODULE OTContext ------------------------------
(***************************************************************************)
(* The client library: the OTContext objects of ONE application process,   *)
(* each used by one thread, as ITEEClient asks of its users.  A context    *)
(* has its own connection (ProxyApis) and its own sessions; an operation   *)
(* may be shared between threads.  The thread of a call may be the main    *)
(* thread of the application, on which the system also delivers the        *)
(* changes of a connection.                                                *)
(*                                                                         *)
(* openSession and invokeCommand hand the transaction to a worker thread,  *)
(* join it, and then wait on an OTLock that the worker took before the     *)
(* transaction and that only the oneway callback syncOperation releases:   *)
(* the callback and the reply of the transaction race.                     *)
(*                                                                         *)
(* The service is reduced to what the answers depend on: whether the guard *)
(* has an OTCaller for this process and how many of its sessions have a    *)
(* given client id (OTGuard models it in full).  Its process may die.      *)
(***************************************************************************)
EXTENDS Integers, FiniteSets

CONSTANTS
    Contexts,     \* contexts that live at the same time in the process
    Sids,         \* session ids a context can draw
    SmIds,        \* shared memory ids a context can draw
    Operations,   \* OTOperation objects of the application
    NoOp,         \* the null operation
    Nobody,       \* no context
    MainUsers,    \* contexts whose calls may be made on the main thread
    MaxSessions,  \* bound: sessions the service opens under one client id
    MaxMemory,    \* bound: buffers the service registers under one client id
    MaxDeaths,    \* bound: deaths of the service process
    MaxInterrupts \* bound: interrupts that reach a thread in the library

ASSUME ClientAssumption ==
    /\ NoOp \notin Operations
    /\ Nobody \notin Contexts /\ IsFiniteSet(Contexts) /\ MainUsers \subseteq Contexts
    /\ MaxSessions \in Nat /\ MaxMemory \in Nat /\ MaxDeaths \in Nat
    /\ MaxInterrupts \in Nat

Ops    == Operations \cup {NoOp}
Calls  == [kind : {"openSession", "invokeCommand"}, sid : Sids, op : Ops]
NoCall == [kind |-> "none", op |-> NoOp]
Strays == [n : 1..MaxInterrupts, sid : Sids, sent : BOOLEAN]

\* UNLISTED: an error code no case of throwExceptionWithReturnOrigin lists.
ReturnCodes == {"SUCCESS", "LISTED", "UNLISTED", "ACCESS_DENIED", "BAD_PARAMETERS"}
NoValue     == "null"

VARIABLES
    pc,              \* where the thread of a context is
    call,            \* the session call it makes
    rv,              \* mReturnValue: on its way while pc = "handled"
    newOp,           \* has mNewTeecOperation been set by the callback?
    opLock,          \* the OTLock of the call
    ctorLock,        \* the OTLock of the constructor
    bound,           \* does the system serve this context's binding?
    mService,        \* ProxyApis.mService: "null", "live" or "dead"
    mSessionMap,     \* the session ids of a context
    mSharedMemory,   \* the ids of the shared memory of a context
    main,            \* the context whose call occupies the main thread
    started,         \* OTOperation.started
    abandoned,       \* a connection that a finalised context left bound: "none",
                     \* "waiting" for the service, or "connected"
    caller,          \* service: has the guard an OTCaller for this process?
    callerSessions,  \* service: sessions of that record, per client id
    callerMemory,    \* service: shared memory of that record, per client id
    syncs,           \* callbacks sent and not delivered
    deaths,          \* deaths of the service process
    interrupts,      \* interrupts so far
    strays           \* workers of openSession calls that an interrupt ended before
                     \* the guard handled them: the number of the interrupt, the
                     \* session id and whether the transaction is sent

callVars    == <<call, rv, newOp, opLock>>
threadVars  == <<pc, callVars, ctorLock, mSessionMap, mSharedMemory, main>>
serviceVars == <<caller, callerSessions, callerMemory>>
bindingVars == <<bound, mService, abandoned>>
vars == <<threadVars, serviceVars, bindingVars, started, syncs, deaths,
          interrupts, strays>>

InCall == {"spawned", "calling", "handled", "joined"}

TypeOK ==
    /\ pc \in [Contexts -> InCall \cup {"none", "constructing", "ready"}]
    /\ call \in [Contexts -> Calls \cup {NoCall}]
    /\ rv \in [Contexts -> ReturnCodes \cup {NoValue}]
    /\ newOp \in [Contexts -> BOOLEAN]
    /\ opLock \in [Contexts -> BOOLEAN]
    /\ ctorLock \in [Contexts -> BOOLEAN]
    /\ bound \in [Contexts -> BOOLEAN]
    /\ mService \in [Contexts -> {"null", "live", "dead"}]
    /\ mSessionMap \in [Contexts -> SUBSET Sids]
    /\ mSharedMemory \in [Contexts -> SUBSET SmIds]
    /\ main \in Contexts \cup {Nobody}
    /\ started \in [Operations -> {0, 1}]
    /\ abandoned \in {"none", "waiting", "connected"}
    /\ caller \in BOOLEAN
    /\ callerSessions \in [Sids -> 0..MaxSessions]
    /\ callerMemory \in [SmIds -> 0..MaxMemory]
    /\ syncs \subseteq Contexts
    /\ deaths \in 0..MaxDeaths
    /\ interrupts \in 0..MaxInterrupts
    /\ strays \subseteq Strays

NoSessions == [s \in Sids |-> 0]
NoMemory   == [m \in SmIds |-> 0]

Init ==
    /\ pc = [x \in Contexts |-> "none"]
    /\ call = [x \in Contexts |-> NoCall]
    /\ rv = [x \in Contexts |-> NoValue]
    /\ newOp = [x \in Contexts |-> FALSE]
    /\ opLock = [x \in Contexts |-> FALSE]
    /\ ctorLock = [x \in Contexts |-> FALSE]
    /\ bound = [x \in Contexts |-> FALSE]
    /\ mService = [x \in Contexts |-> "null"]
    /\ mSessionMap = [x \in Contexts |-> {}]
    /\ mSharedMemory = [x \in Contexts |-> {}]
    /\ main = Nobody
    /\ started = [o \in Operations |-> 0]
    /\ abandoned = "none"
    /\ caller = FALSE
    /\ callerSessions = NoSessions
    /\ callerMemory = NoMemory
    /\ syncs = {}
    /\ deaths = 0
    /\ interrupts = 0
    /\ strays = {}
-----------------------------------------------------------------------------
(* The connection of a context (OTContext's constructor, ServiceGetterThread, *)
(* ProxyApis) and the life of the service behind it.                          *)

\* A call is made on the main thread, if that is free, or on another one; the
\* thread is occupied until the call returns.
EntersThread(x) ==
    main' \in IF main = Nobody /\ x \in MainUsers THEN {Nobody, x} ELSE {main}
LeavesThread(x) == main' = IF main = x THEN Nobody ELSE main

\* The getter thread takes the lock and asks for the binding; whether the
\* system will serve it is not looked at.
InitializeContext(x, served) ==
    /\ pc[x] = "none"
    /\ pc' = [pc EXCEPT ![x] = "constructing"]
    /\ ctorLock' = [ctorLock EXCEPT ![x] = TRUE]
    /\ bound' = [bound EXCEPT ![x] = served]
    /\ EntersThread(x)
    /\ UNCHANGED <<callVars, mSessionMap, mSharedMemory, mService, abandoned,
                   serviceVars, started, syncs, deaths, interrupts, strays>>

\* teecInitializeContext of the guard leaves a record of the caller, even when
\* the TEE cannot be reached, or fails before that for want of the socket path.
Initialized(recorded) == caller' = (caller \/ recorded)

\* Mutation: the lock is released only when the initialisation succeeded.
unlockOnSuccess(x, recorded) ==
    IF recorded THEN [ctorLock EXCEPT ![x] = FALSE] ELSE ctorLock

\* Whatever teecInitializeContext answers, an exception included, is printed
\* and forgotten.
unlockAlways(x, recorded) == [ctorLock EXCEPT ![x] = FALSE]

\* On the main thread, at the first connection and after each restart of the
\* service.
onServiceConnected(x, recorded) ==
    /\ main = Nobody
    /\ bound[x] /\ mService[x] = "null"
    /\ mService' = [mService EXCEPT ![x] = "live"]
    /\ Initialized(recorded)
    /\ ctorLock' = unlockAlways(x, recorded)
    /\ UNCHANGED <<pc, callVars, mSessionMap, mSharedMemory, main, bound,
                   abandoned, callerSessions, callerMemory, started, syncs,
                   deaths, interrupts, strays>>

\* The constructor passes its lock; mProxyApis is never null there.
ContextReturns(x) ==
    /\ pc[x] = "constructing" /\ ~ctorLock[x]
    /\ pc' = [pc EXCEPT ![x] = "ready"]
    /\ LeavesThread(x)
    /\ UNCHANGED <<callVars, ctorLock, mSessionMap, mSharedMemory, bindingVars,
                   serviceVars, started, syncs, deaths, interrupts, strays>>

\* A thread of the application interrupts the thread of a context.
Interrupted ==
    /\ interrupts < MaxInterrupts
    /\ interrupts' = interrupts + 1

\* OTLock.lock prints the exception and returns without the lock, which the
\* constructor then frees: it returns before the service is connected.
ConstructorInterrupted(x) ==
    /\ Interrupted
    /\ pc[x] = "constructing" /\ ctorLock[x]
    /\ pc' = [pc EXCEPT ![x] = "ready"]
    /\ ctorLock' = [ctorLock EXCEPT ![x] = FALSE]
    /\ LeavesThread(x)
    /\ UNCHANGED <<callVars, mSessionMap, mSharedMemory, bindingVars,
                   serviceVars, started, syncs, deaths, strays>>

\* The join of the getter thread is interrupted, and the constructor passes the
\* lock before that thread takes it: it finds no ProxyApis and throws, and the
\* getter thread binds a connection that nobody has.
InitializeInterrupted(x, served) ==
    /\ Interrupted
    /\ pc[x] = "none"
    /\ abandoned' = IF served THEN "waiting" ELSE abandoned
    /\ UNCHANGED <<threadVars, bound, mService, serviceVars, started, syncs,
                   deaths, strays>>

onServiceDisconnected(x) ==
    /\ main = Nobody
    /\ mService[x] = "dead"
    /\ mService' = [mService EXCEPT ![x] = "null"]
    /\ UNCHANGED <<threadVars, bound, abandoned, serviceVars, started, syncs,
                   deaths, interrupts, strays>>

\* The connection of a context finalised while disconnected is still bound:
\* a restarted service makes it initialise a context again.
AbandonedConnected(recorded) ==
    /\ main = Nobody
    /\ abandoned = "waiting"
    /\ abandoned' = "connected"
    /\ Initialized(recorded)
    /\ UNCHANGED <<threadVars, bound, mService, callerSessions, callerMemory,
                   started, syncs, deaths, interrupts, strays>>

\* The service process dies: transactions fail with a RemoteException, which
\* the worker catches, and callbacks already sent still arrive.  It may die while
\* the connections in late come up: teecInitializeContext catches the exception
\* there and goes on with the return code 0.
ServiceDies(late) ==
    /\ deaths < MaxDeaths
    /\ deaths' = deaths + 1
    /\ \A x \in late : main = Nobody /\ bound[x] /\ mService[x] = "null"
    /\ mService' = [x \in Contexts |->
                      IF mService[x] = "live" \/ x \in late THEN "dead" ELSE mService[x]]
    /\ ctorLock' = [x \in Contexts |-> ctorLock[x] /\ x \notin late]
    /\ caller' = FALSE
    /\ callerSessions' = NoSessions
    /\ callerMemory' = NoMemory
    /\ pc' = [x \in Contexts |->
                IF pc[x] \in {"calling", "handled"} THEN "joined" ELSE pc[x]]
    /\ rv' = [x \in Contexts |->
                IF pc[x] \in {"calling", "handled"} THEN NoValue ELSE rv[x]]
    /\ abandoned' = IF abandoned = "none" THEN "none" ELSE "waiting"
    /\ strays' = {w \in strays : ~w.sent}
    /\ UNCHANGED <<call, newOp, opLock, mSessionMap, mSharedMemory, main, bound,
                   started, syncs, interrupts>>

\* What a walk that aborts may leave of f.
Remains(f) == {g \in [DOMAIN f -> UNION {0..f[i] : i \in DOMAIN f}] :
                 \A i \in DOMAIN f : g[i] <= f[i]}

\* The guard's teecFinalizeContext: it drops the record of the process, or its
\* walk over the shared memory or, after that, over the sessions aborts.
GuardFinalizes ==
    \/ /\ caller' = FALSE
       /\ callerSessions' = NoSessions
       /\ callerMemory' = NoMemory
    \/ /\ caller
       /\ callerMemory' \in Remains(callerMemory)
       /\ UNCHANGED <<caller, callerSessions>>
    \/ /\ caller
       /\ callerMemory' = NoMemory
       /\ callerSessions' \in Remains(callerSessions)
       /\ UNCHANGED caller

\* Without a connection nothing is sent and the binding is not given up; a dead
\* connection ends in a CommunicationErrorException and changes nothing.  A
\* guard that goes away with the last binding forgets the process all the same.
FinalizeContext(x) ==
    /\ pc[x] = "ready"
    /\ UNCHANGED <<callVars, ctorLock, main, started, syncs, deaths,
                   interrupts, strays>>
    /\ \/ /\ mService[x] = "dead"
          /\ UNCHANGED <<pc, mSessionMap, mSharedMemory, bindingVars,
                         serviceVars>>
       \/ /\ mService[x] # "dead"
          /\ pc' = [pc EXCEPT ![x] = "none"]
          /\ mSessionMap' = [mSessionMap EXCEPT ![x] = {}]
          /\ mSharedMemory' = [mSharedMemory EXCEPT ![x] = {}]
          /\ bound' = [bound EXCEPT ![x] = FALSE]
          /\ mService' = [mService EXCEPT ![x] = "null"]
          /\ IF mService[x] = "null"
             THEN /\ abandoned' = IF bound[x] THEN "waiting" ELSE abandoned
                  /\ UNCHANGED serviceVars
             ELSE GuardFinalizes /\ UNCHANGED abandoned
-----------------------------------------------------------------------------
(* Session calls.                                                            *)

\* OTOperation.setStarted: the value after the call.
setStarted(v, current) == IF v # 0 \/ v # 1 THEN current ELSE v

\* A call of kind k on sid begins: the operation is checked and marked, the
\* worker thread started.  A busy operation ends the call at once, before the
\* thread is occupied.
Begin(x, k, sid, op) ==
    /\ pc[x] = "ready"
    /\ IF op # NoOp /\ started[op] = 1
       THEN UNCHANGED <<pc, call, started, main>>
       ELSE /\ pc' = [pc EXCEPT ![x] = "spawned"]
            /\ call' = [call EXCEPT ![x] = [kind |-> k, sid |-> sid, op |-> op]]
            /\ started' = [o \in Operations |->
                             IF o = op THEN setStarted(1, started[o]) ELSE started[o]]
            /\ EntersThread(x)
    /\ UNCHANGED <<rv, newOp, opLock, ctorLock, mSessionMap, mSharedMemory,
                   bindingVars, serviceVars, syncs, deaths, interrupts, strays>>

\* generateSessionId draws an id that is not in this context's map.
OpenSession(x, sid, op) ==
    sid \notin mSessionMap[x] /\ Begin(x, "openSession", sid, op)

InvokeCommand(x, sid, op) ==
    sid \in mSessionMap[x] /\ Begin(x, "invokeCommand", sid, op)

\* Mutation: the worker does not take the lock.
lockNothing(x) == opLock

\* The worker takes the lock of a call with an operation.
lock(x) == [opLock EXCEPT ![x] = call[x].op # NoOp]

\* The worker sends the transaction; without a live service it ends with an
\* exception that it catches.
RunTask(x) ==
    /\ pc[x] = "spawned"
    /\ opLock' = lock(x)
    /\ pc' = [pc EXCEPT ![x] = IF mService[x] = "live" THEN "calling" ELSE "joined"]
    /\ UNCHANGED <<call, rv, newOp, ctorLock, mSessionMap, mSharedMemory, main,
                   bindingVars, serviceVars, started, syncs, deaths,
                   interrupts, strays>>

\* The guard answers rc.  Only the path that reaches the TEE calls back, and
\* only when there is an operation.
Answer(x, rc, reachedTee) ==
    /\ pc' = [pc EXCEPT ![x] = "handled"]
    /\ rv' = [rv EXCEPT ![x] = rc]
    /\ syncs' = IF reachedTee /\ call[x].op # NoOp THEN syncs \cup {x} ELSE syncs

HandleOpenSession(x) ==
    /\ pc[x] = "calling" /\ call[x].kind = "openSession"
    /\ \/ /\ ~caller
          /\ Answer(x, "ACCESS_DENIED", FALSE)
          /\ UNCHANGED callerSessions
       \/ /\ caller
          /\ \E rc \in {"LISTED", "UNLISTED"} : Answer(x, rc, TRUE)
          /\ UNCHANGED callerSessions
       \/ /\ caller /\ callerSessions[call[x].sid] < MaxSessions
          /\ Answer(x, "SUCCESS", TRUE)
          /\ callerSessions' = [callerSessions EXCEPT ![call[x].sid] = @ + 1]
    /\ UNCHANGED <<call, newOp, opLock, ctorLock, mSessionMap, mSharedMemory,
                   main, bindingVars, caller, callerMemory, started, deaths,
                   interrupts, strays>>

HandleInvokeCommand(x) ==
    /\ pc[x] = "calling" /\ call[x].kind = "invokeCommand"
    /\ \/ ~caller /\ Answer(x, "ACCESS_DENIED", FALSE)
       \/ /\ caller /\ callerSessions[call[x].sid] = 0
          /\ Answer(x, "BAD_PARAMETERS", FALSE)
       \/ /\ caller /\ callerSessions[call[x].sid] > 0
          /\ \E rc \in {"SUCCESS", "LISTED", "UNLISTED"} : Answer(x, rc, TRUE)
    /\ UNCHANGED <<call, newOp, opLock, ctorLock, mSessionMap, mSharedMemory,
                   main, bindingVars, serviceVars, started, deaths, interrupts,
                   strays>>

unlock(x) == [opLock EXCEPT ![x] = FALSE]

\* Mutation: a callback that comes after the reply is not taken any more.
BeforeReply(x) == x \in syncs /\ pc[x] = "handled"

\* A callback waits for the call of x.
Pending(x) == x \in syncs

\* The oneway callback, on a binder thread of the client, at any later time.
syncOperation(x) ==
    /\ Pending(x)
    /\ syncs' = syncs \ {x}
    /\ newOp' = [newOp EXCEPT ![x] = TRUE]
    /\ opLock' = unlock(x)
    /\ UNCHANGED <<pc, call, rv, ctorLock, mSessionMap, mSharedMemory, main,
                   bindingVars, serviceVars, started, deaths, interrupts,
                   strays>>

\* The reply of the transaction arrives and the worker ends.
TaskEnds(x) ==
    /\ pc[x] = "handled"
    /\ pc' = [pc EXCEPT ![x] = "joined"]
    /\ UNCHANGED <<callVars, ctorLock, mSessionMap, mSharedMemory, main,
                   bindingVars, serviceVars, started, syncs, deaths,
                   interrupts, strays>>

\* Steps of a call that throw before the operation is given free: an operation
\* that is back without a return value makes getReturnCode fail; one that is
\* back with success may hold a buffer that updateOperation cannot write (fits
\* is false), because it goes by the offset of this operation and the size that
\* an earlier one returned.
LosesReturnValue(x) == newOp[x] /\ rv[x] = NoValue
UpdateFails(x, fits) == newOp[x] /\ rv[x] = "SUCCESS" /\ ~fits

\* Mutation: a call without an operation is taken for one that got none back.
endingByOperation(x, fits) ==
    CASE ~newOp[x] -> "exception"
      [] OTHER -> IF call[x].kind = "openSession" THEN "session" ELSE "done"

\* How a call ends.  openSession takes a missing return value, and a code that
\* throwExceptionWithReturnOrigin does not list, for success; so does
\* invokeCommand for the code, but it dereferences a missing value.
Ending(x, fits) ==
    CASE LosesReturnValue(x) -> "NullPointer"
      [] UpdateFails(x, fits) -> "exception"
      [] rv[x] \in {"LISTED", "ACCESS_DENIED", "BAD_PARAMETERS"} -> "exception"
      [] rv[x] = NoValue /\ call[x].kind = "invokeCommand" -> "NullPointer"
      [] OTHER -> IF call[x].kind = "openSession" THEN "session" ELSE "done"

\* What follows the lock; the task is garbage afterwards.
PassesLock(x, fits) ==
    /\ pc' = [pc EXCEPT ![x] = "ready"]
    /\ mSessionMap' = IF Ending(x, fits) = "session"
                      THEN [mSessionMap EXCEPT ![x] = @ \cup {call[x].sid}]
                      ELSE mSessionMap
    /\ rv' = [rv EXCEPT ![x] = NoValue]
    /\ started' = [o \in Operations |->
                     IF o = call[x].op /\ ~LosesReturnValue(x) /\ ~UpdateFails(x, fits)
                     THEN setStarted(0, started[o]) ELSE started[o]]
    /\ call' = [call EXCEPT ![x] = NoCall]
    /\ newOp' = [newOp EXCEPT ![x] = FALSE]
    /\ LeavesThread(x)
    /\ UNCHANGED <<ctorLock, mSharedMemory, bindingVars, serviceVars, deaths>>

\* The thread has joined the worker and gets the lock.
CallReturns(x, fits) ==
    /\ pc[x] = "joined" /\ ~opLock[x]
    /\ PassesLock(x, fits)
    /\ UNCHANGED <<opLock, syncs, interrupts, strays>>

\* OTLock.lock is interrupted and returns without the lock: the call goes on
\* without the operation, whose callback finds nobody any more.
LockInterrupted(x) ==
    /\ Interrupted
    /\ pc[x] = "joined" /\ opLock[x]
    /\ PassesLock(x, TRUE)
    /\ opLock' = unlock(x)
    /\ syncs' = syncs \ {x}
    /\ UNCHANGED strays

\* The worker of an openSession that the guard has not handled goes on by itself.
StrayWorker(x) ==
    IF call[x].kind = "openSession" /\ pc[x] \in {"spawned", "calling"}
    THEN {[n |-> interrupts + 1, sid |-> call[x].sid, sent |-> pc[x] = "calling"]}
    ELSE {}

\* The join of the worker is interrupted: the call ends with an exception, the
\* operation is not marked free, reply and callback find nobody any more.
JoinInterrupted(x) ==
    /\ Interrupted
    /\ pc[x] \in InCall
    /\ strays' = strays \cup StrayWorker(x)
    /\ pc' = [pc EXCEPT ![x] = "ready"]
    /\ call' = [call EXCEPT ![x] = NoCall]
    /\ rv' = [rv EXCEPT ![x] = NoValue]
    /\ newOp' = [newOp EXCEPT ![x] = FALSE]
    /\ opLock' = unlock(x)
    /\ syncs' = syncs \ {x}
    /\ LeavesThread(x)
    /\ UNCHANGED <<ctorLock, mSessionMap, mSharedMemory, bindingVars,
                   serviceVars, started, deaths>>

\* It sends its transaction, or finds no service; the connection of a context
\* that was finalised meanwhile still works.
RunStray(w) ==
    /\ ~w.sent
    /\ \/ strays' = (strays \ {w}) \cup {[w EXCEPT !.sent = TRUE]}
       \/ strays' = strays \ {w}
    /\ UNCHANGED <<threadVars, serviceVars, bindingVars, started, syncs, deaths,
                   interrupts>>

\* The guard handles it; nobody takes the answer.
HandleStray(w) ==
    /\ w.sent
    /\ strays' = strays \ {w}
    /\ \/ UNCHANGED callerSessions
       \/ /\ caller /\ callerSessions[w.sid] < MaxSessions
          /\ callerSessions' = [callerSessions EXCEPT ![w.sid] = @ + 1]
    /\ UNCHANGED <<threadVars, caller, callerMemory, bindingVars, started,
                   syncs, deaths, interrupts>>

\* Mutation: an unknown session is not noticed.
removeUnchecked(sid) == [callerSessions EXCEPT ![sid] = @ - 1]

\* The guard's teecCloseSession ends where the caller or the session is unknown.
removeSessionBySid(sid) ==
    IF caller /\ callerSessions[sid] > 0
    THEN [callerSessions EXCEPT ![sid] = @ - 1]
    ELSE callerSessions

\* One transaction without a callback.  The death of the service in the middle
\* of it is the same as before it: it takes the sessions with it.
CloseSession(x, sid) ==
    /\ pc[x] = "ready" /\ sid \in mSessionMap[x]
    /\ IF mService[x] = "live"
       THEN /\ mSessionMap' = [mSessionMap EXCEPT ![x] = @ \ {sid}]
            /\ callerSessions' = removeSessionBySid(sid)
       ELSE UNCHANGED <<mSessionMap, callerSessions>>
    /\ UNCHANGED <<pc, callVars, ctorLock, mSharedMemory, main, bindingVars,
                   caller, callerMemory, started, syncs, deaths, interrupts,
                   strays>>
-----------------------------------------------------------------------------
(* Shared memory: one transaction each, without a callback, like CloseSession. *)

memoryCallUnchanged == <<pc, callVars, ctorLock, mSessionMap, main,
                         bindingVars, caller, callerSessions, started, syncs,
                         deaths, interrupts, strays>>

\* generateSmId draws an id that is not in this context's list.  An error code
\* that throwExceptionBasedOnReturnCode does not list is taken for success.
RegisterSharedMemory(x, smid, rc) ==
    /\ pc[x] = "ready" /\ smid \notin mSharedMemory[x]
    /\ rc = "SUCCESS" => callerMemory[smid] < MaxMemory
    /\ IF mService[x] = "live" /\ caller /\ rc # "LISTED"
       THEN /\ mSharedMemory' = [mSharedMemory EXCEPT ![x] = @ \cup {smid}]
            /\ callerMemory' = [callerMemory EXCEPT ![smid] =
                                  IF rc = "SUCCESS" THEN @ + 1 ELSE @]
       ELSE UNCHANGED <<mSharedMemory, callerMemory>>
    /\ UNCHANGED memoryCallUnchanged

\* Mutation: the guard forgets to drop the entry.
removeNoMemory(smid) == callerMemory

\* The guard's teecReleaseSharedMemory ends where the caller or the id is unknown.
removeSharedMemoryBySmId(smid) ==
    IF caller /\ callerMemory[smid] > 0
    THEN [callerMemory EXCEPT ![smid] = @ - 1]
    ELSE callerMemory

\* The buffer of context y is released through context x: the service, which
\* knows processes only, releases by the id before x looks for the object in
\* its list, which it finds only when the buffer is its own.
ReleaseSharedMemory(x, y, smid) ==
    /\ pc[x] = "ready" /\ smid \in mSharedMemory[y]
    /\ IF mService[x] = "live"
       THEN /\ callerMemory' = removeSharedMemoryBySmId(smid)
            /\ mSharedMemory' = IF y = x THEN [mSharedMemory EXCEPT ![x] = @ \ {smid}]
                               ELSE mSharedMemory
       ELSE UNCHANGED <<mSharedMemory, callerMemory>>
    /\ UNCHANGED memoryCallUnchanged
-----------------------------------------------------------------------------
\* The steps that go on by themselves once a call was made.
Proceed(x) ==
    \/ \E recorded \in BOOLEAN : onServiceConnected(x, recorded)
    \/ onServiceDisconnected(x)
    \/ ContextReturns(x)
    \/ RunTask(x)
    \/ HandleOpenSession(x)
    \/ HandleInvokeCommand(x)
    \/ syncOperation(x)
    \/ TaskEnds(x)
    \/ \E fits \in BOOLEAN : CallReturns(x, fits)

\* An interrupt in the constructor or in a session call of x.
Interrupt(x) ==
    \/ \E served \in BOOLEAN : InitializeInterrupted(x, served)
    \/ ConstructorInterrupted(x)
    \/ JoinInterrupted(x)
    \/ LockInterrupted(x)

Next ==
    \/ \E w \in strays : RunStray(w) \/ HandleStray(w)
    \/ \E late \in SUBSET Contexts : ServiceDies(late)
    \/ \E recorded \in BOOLEAN : AbandonedConnected(recorded)
    \/ \E x \in Contexts :
        \/ Proceed(x)
        \/ Interrupt(x)
        \/ \E served \in BOOLEAN : InitializeContext(x, served)
        \/ FinalizeContext(x)
        \/ \E sid \in Sids : \/ CloseSession(x, sid)
                             \/ \E op \in Ops : \/ OpenSession(x, sid, op)
                                                \/ InvokeCommand(x, sid, op)
        \/ \E smid \in SmIds :
            \/ \E rc \in {"SUCCESS", "LISTED", "UNLISTED"} :
                  RegisterSharedMemory(x, smid, rc)
            \/ \E y \in Contexts : ReleaseSharedMemory(x, y, smid)

Spec == Init /\ [][Next]_vars

\* Threads are scheduled, the service and the TEE answer, and the binder driver
\* delivers replies, callbacks and connections.  A connection waits in the queue
\* of the main thread, which is worked off in order whenever that thread is free:
\* it may be occupied again and again, hence the strong fairness.
FairSpec ==
    /\ Spec
    /\ \A x \in Contexts :
          /\ WF_vars(Proceed(x))
          /\ SF_vars(\E recorded \in BOOLEAN : onServiceConnected(x, recorded))
-----------------------------------------------------------------------------
(* Properties.                                                               *)

\* The client's side of a call, as long as it lasts: the lock is free before the
\* worker runs, and no operation is back before the service has answered (with
\* LockTracksSync, what the proof carries along).
LockIdle ==
    \A x \in Contexts :
        /\ pc[x] \notin {"calling", "handled", "joined"} => ~opLock[x]
        /\ pc[x] \notin {"handled", "joined"} => ~newOp[x]

\* From the moment the worker has run, the lock of a call with an operation is
\* held exactly until the operation is back; no callback is on its way for
\* anything else, calls that an interrupt ended included.  So a thread that gets
\* the lock, and does not pass it because of an interrupt (OTLock lines 36-38),
\* reads the operation the service sent for this very call, whichever of reply
\* and callback came first (OpenSessionTask.run, syncOperation, OTContext lines
\* 284-297).
LockTracksSync ==
    \A x \in Contexts :
        /\ pc[x] \in {"calling", "handled", "joined"} =>
              (opLock[x] <=> call[x].op # NoOp /\ ~newOp[x])
        /\ x \in syncs => pc[x] \in {"handled", "joined"} /\ opLock[x]

\* A call without an operation, and a call whose callback the service has sent,
\* comes back whatever the service does next: it may die before its reply, and
\* the callback may come before or after it (OTLock, OTContext lines 284-297).
AnsweredCallsReturn ==
    \A x \in Contexts :
        (x \in syncs \/ (pc[x] = "spawned" /\ call[x].op = NoOp))
            ~> pc[x] \notin InCall

\* Unless the main thread is occupied for good, the constructor of a context
\* whose binding the system serves returns, whatever becomes of the
\* initialisation and of the service in between: the connection comes up on the
\* main thread and releases the lock in every case (OTContext lines 79-81,
\* ProxyApis.onServiceConnected).
ConstructorsReturn ==
    []<>(main = Nobody) =>
        \A x \in Contexts :
            (pc[x] = "constructing" /\ bound[x]) ~> pc[x] # "constructing"

\* How many of the n resources the service holds under an id no context of the
\* process can name any more, when the contexts in holders can.
Unreachable(n, holders) ==
    IF n > Cardinality(holders) THEN n - Cardinality(holders) ELSE 0

UnreachableMemory(smid) ==
    Unreachable(callerMemory[smid], {x \in Contexts : smid \in mSharedMemory[x]})

Opens(x, sid) == call[x].kind = "openSession" /\ call[x].sid = sid

\* A session counts as named while the call that opened it is under way.
UnreachableSessions(sid) ==
    Unreachable(callerSessions[sid],
                {x \in Contexts :
                    sid \in mSessionMap[x] \/ (Opens(x, sid) /\ rv[x] = "SUCCESS")})

Finalizes == \E x \in Contexts : pc[x] = "ready" /\ pc'[x] = "none"

MemoryStaysReachableStep ==
    \A smid \in SmIds :
        UnreachableMemory(smid)' > UnreachableMemory(smid) => Finalizes

SessionsStayReachableStep ==
    \A sid \in Sids :
        UnreachableSessions(sid)' > UnreachableSessions(sid) =>
            \/ Finalizes
            \/ \E x \in Contexts : /\ pc[x] = "joined" /\ pc'[x] = "ready"
                                  /\ Opens(x, sid) /\ UpdateFails(x, FALSE)
            \/ \E x \in Contexts : /\ pc[x] \in InCall /\ pc'[x] = "ready"
                                  /\ Opens(x, sid) /\ interrupts' > interrupts
                                  /\ sid \notin mSessionMap'[x]
            \/ \E w \in strays : w \notin strays' /\ w.sent /\ w.sid = sid

\* Only finalizeContext, whose walk in the guard may abort, leaves shared memory
\* in the service that no context of the process can release: not a failed
\* registration, not a release through the wrong context or of an id that two
\* contexts drew, not the death of the service (OTContext lines 122-180,
\* ProxyApis lines 135-167).
MemoryStaysReachable == [][MemoryStaysReachableStep]_vars

\* Likewise for sessions; there, two kinds of calls can leave a session open that
\* nobody can close as well: an openSession whose operation came back and could
\* not be copied into the application's buffers, and one whose join was
\* interrupted, at that moment or when the guard handles the worker that it left
\* behind.  An interrupt of the wait for the lock loses none (OTContext lines
\* 251-253, 284-321, 374-382).
SessionsStayReachable == [][SessionsStayReachableStep]_vars
-----------------------------------------------------------------------------
(* What the documentation promises and the code does not keep.               *)

\* Every session call ends, "AccessDeniedException: Insufficient privilege" and
\* "CommunicationErrorException" included (ITEEClient.java openSession).
CallsReturn == \A x \in Contexts : pc[x] = "spawned" ~> pc[x] \notin InCall
=============================================================================
