---------------------------- MODULE OTCancellation ----------------------------
(***************************************************************************)
(* Cancelling an operation: the two monitors of the service, the native    *)
(* map of running operations and the thread that looks an operation up in  *)
(* it.                                                                     *)
(*                                                                         *)
(* A session call holds the monitor of the binder object (mBinder of       *)
(* OTConnectionService) from its check to its reply, and inside it the     *)
(* monitor of the class NativeLibtee for the native call.  A restarted     *)
(* service has a new binder object, while a call of the old one may still  *)
(* be in the native layer: only the class monitor keeps the two apart.     *)
(* teecRequestCancellation takes no monitor in the binder object; the      *)
(* thread it starts takes the class monitor.                               *)
(*                                                                         *)
(* OTContext.requestCancellation sends a request only for an operation     *)
(* whose started field is set.  Here every process may send one for any    *)
(* hash code, which is what the service has to handle.                     *)
(***************************************************************************)
EXTENDS Maps

CONSTANTS
    Threads,       \* binder threads of the service that serve session calls
    Requests,      \* RequestCancellationTasks under way at the same time
    Pids,          \* process ids
    Width,         \* number of int values (2^32 in Java)
    Hashes,        \* hash codes of operations
    MaxInstances   \* instances of OTConnectionService, one after the other

ASSUME CancellationAssumption ==
    /\ Width \in Nat \ {0} /\ MaxInstances \in Nat \ {0}
    /\ Pids \subseteq Nat /\ Hashes \subseteq 0..(Width - 1)
    /\ Threads \cap Requests = {}

NoOp  == -1
Keys  == 0..(Width - 1)
Calls == [pid : Pids, op : Hashes \cup {NoOp}, instance : 1..MaxInstances]
NoCall == [pid |-> NoOp, op |-> NoOp, instance |-> 0]

VARIABLES
    instance,         \* the service instance new transactions go to
    mOTCallerList,    \* the callers its guard knows
    pc,               \* of a session call, and of a request
    call,             \* per thread: its transaction
    request,          \* per request: who asks, for which hash code
    operations_map,   \* key -> the thread on whose stack the operation is
    waiting,          \* external: commands that only a cancellation ends
    told              \* external: commands the TEE was asked to cancel

vars == <<instance, mOTCallerList, pc, call, request, operations_map, waiting, told>>

TypeOK ==
    /\ instance \in 1..MaxInstances
    /\ mOTCallerList \subseteq Pids
    /\ pc \in [Threads \cup Requests -> {"idle", "arrived", "inStub", "inTEE", "replying",
                                         "binding", "started"}]
    /\ call \in [Threads -> Calls \cup {NoCall}]
    /\ request \in [Requests -> Calls \cup {NoCall}]
    /\ IsMap(operations_map, Keys, Threads)
    /\ waiting \subseteq Threads
    /\ told \subseteq Threads

Init ==
    /\ instance = 1
    /\ mOTCallerList = {}
    /\ pc = [t \in Threads \cup Requests |-> "idle"]
    /\ call = [t \in Threads |-> NoCall]
    /\ request = [k \in Requests |-> NoCall]
    /\ operations_map = EmptyMap
    /\ waiting = {}
    /\ told = {}
-----------------------------------------------------------------------------
(* The monitors.                                                           *)

\* Nobody is in a synchronized method of the binder object of instance i.
StubFree(i) ==
    \A t \in Threads : pc[t] \in {"inStub", "inTEE", "replying"} => call[t].instance # i

\* Nobody is in a native method of NativeLibtee; the other native methods and
\* the cancellation are single steps.
nativeFree == \A t \in Threads : pc[t] # "inTEE"
-----------------------------------------------------------------------------
(* The guard's record of its callers, and the life of the service.         *)

initializeContext(c) ==
    /\ StubFree(instance) /\ nativeFree
    /\ mOTCallerList' = mOTCallerList \cup {c}
    /\ UNCHANGED <<instance, pc, call, request, operations_map, waiting, told>>

\* It may abort and leave the record.
teecFinalizeContext(c) ==
    /\ StubFree(instance) /\ nativeFree
    /\ mOTCallerList' \in {mOTCallerList, mOTCallerList \ {c}}
    /\ UNCHANGED <<instance, pc, call, request, operations_map, waiting, told>>

\* The last client unbinds or dies, with calls still in the native layer, and a
\* later one binds again.
Restart ==
    /\ instance < MaxInstances
    /\ instance' = instance + 1
    /\ mOTCallerList' = {}
    /\ UNCHANGED <<pc, call, request, operations_map, waiting, told>>
-----------------------------------------------------------------------------
(* A session call, with or without an operation.                           *)

\* Mutation: the sum does not wrap around.
keyUnbounded(c, h) == h + c

\* opHashCode + callerId, in int arithmetic.
opHashCodeWithPid(c, h) == (h + c) % Width

Transact(t, c, h) ==
    /\ pc[t] = "idle"
    /\ pc' = [pc EXCEPT ![t] = "arrived"]
    /\ call' = [call EXCEPT ![t] = [pid |-> c, op |-> h, instance |-> instance]]
    /\ UNCHANGED <<instance, mOTCallerList, request, operations_map, waiting, told>>

\* The binder object's monitor and the checks of the guard.  The guard is a static
\* field: a call of an old binder object finds the guard of the new service, or
\* none.  That, an unknown caller and an unknown session end the call.
EnterStub(t, known) ==
    /\ pc[t] = "arrived"
    /\ StubFree(call[t].instance)
    /\ IF call[t].pid \in mOTCallerList /\ known
       THEN pc' = [pc EXCEPT ![t] = "inStub"] /\ UNCHANGED call
       ELSE pc' = [pc EXCEPT ![t] = "idle"] /\ call' = [call EXCEPT ![t] = NoCall]
    /\ UNCHANGED <<instance, mOTCallerList, request, operations_map, waiting, told>>

\* The class monitor, the entry in operations_map, and TEEC_OpenSession or
\* TEEC_InvokeCommand.  The command may be one that waits for its cancellation.
EnterNative(t, waits) ==
    /\ pc[t] = "inStub"
    /\ nativeFree
    /\ pc' = [pc EXCEPT ![t] = "inTEE"]
    /\ operations_map' =
          IF call[t].op = NoOp THEN operations_map
          ELSE MapEmplace(operations_map, opHashCodeWithPid(call[t].pid, call[t].op), t)
    /\ waiting' = IF waits THEN waiting \cup {t} ELSE waiting
    /\ UNCHANGED <<instance, mOTCallerList, call, request, told>>

\* Mutation: the entry outlives the call.
keepEntry(t) == operations_map

\* operations_map.erase after the call.
eraseEntry(t) ==
    IF call[t].op = NoOp THEN operations_map
    ELSE MapRemove(operations_map, {opHashCodeWithPid(call[t].pid, call[t].op)})

\* The TEE returns and the native method ends.
LeaveNative(t) ==
    /\ pc[t] = "inTEE"
    /\ t \in waiting => t \in told
    /\ pc' = [pc EXCEPT ![t] = "replying"]
    /\ operations_map' = eraseEntry(t)
    /\ waiting' = waiting \ {t}
    /\ told' = told \ {t}
    /\ UNCHANGED <<instance, mOTCallerList, call, request>>

\* The operation is sent back and the binder object's monitor given free.
LeaveStub(t) ==
    /\ pc[t] = "replying"
    /\ pc' = [pc EXCEPT ![t] = "idle"]
    /\ call' = [call EXCEPT ![t] = NoCall]
    /\ UNCHANGED <<instance, mOTCallerList, request, operations_map, waiting, told>>
-----------------------------------------------------------------------------
(* A cancellation.                                                         *)

\* The task binds to the service on a connection of its own.
requestCancellation(k, c, h) ==
    /\ pc[k] = "idle"
    /\ pc' = [pc EXCEPT ![k] = "binding"]
    /\ request' = [request EXCEPT ![k] = [pid |-> c, op |-> h, instance |-> instance]]
    /\ UNCHANGED <<instance, mOTCallerList, call, operations_map, waiting, told>>

\* onServiceConnected sends the transaction and unbinds.  The guard looks the
\* caller up without a monitor: the lookup may miss an entry of the hash map while
\* another thread is in the binder object and may be changing it.
teecRequestCancellation(k, missed) ==
    /\ pc[k] = "binding"
    /\ missed => \E i \in 1..instance : ~StubFree(i)
    /\ IF request[k].pid \in mOTCallerList /\ ~missed
       THEN pc' = [pc EXCEPT ![k] = "started"] /\ UNCHANGED request
       ELSE pc' = [pc EXCEPT ![k] = "idle"] /\ request' = [request EXCEPT ![k] = NoCall]
    /\ UNCHANGED <<instance, mOTCallerList, call, operations_map, waiting, told>>

\* The lookup in operations_map and TEEC_RequestCancellation.
native_teecRequestCancellation(key) ==
    told' = told \cup {operations_map[x] : x \in DOMAIN operations_map \cap {key}}

\* The thread that the guard has started.
CancellationRuns(k) ==
    /\ pc[k] = "started"
    /\ nativeFree
    /\ native_teecRequestCancellation(opHashCodeWithPid(request[k].pid, request[k].op))
    /\ pc' = [pc EXCEPT ![k] = "idle"]
    /\ request' = [request EXCEPT ![k] = NoCall]
    /\ UNCHANGED <<instance, mOTCallerList, call, operations_map, waiting>>
-----------------------------------------------------------------------------
Next ==
    \/ Restart
    \/ \E c \in Pids : initializeContext(c) \/ teecFinalizeContext(c)
    \/ \E t \in Threads :
        \/ \E c \in Pids, h \in Hashes \cup {NoOp} : Transact(t, c, h)
        \/ \E known \in BOOLEAN : EnterStub(t, known)
        \/ \E waits \in BOOLEAN : EnterNative(t, waits)
        \/ LeaveNative(t)
        \/ LeaveStub(t)
    \/ \E k \in Requests :
        \/ \E c \in Pids, h \in Hashes : requestCancellation(k, c, h)
        \/ \E missed \in BOOLEAN : teecRequestCancellation(k, missed)
        \/ CancellationRuns(k)

Spec == Init /\ [][Next]_vars

\* Threads that can run do run, the connection of a task comes up, and the TEE
\* answers what waits for nothing and what it was asked to cancel.
FairSpec ==
    /\ Spec
    /\ \A t \in Threads :
        /\ WF_vars(LeaveNative(t))
        /\ WF_vars(LeaveStub(t))
    /\ \A k \in Requests :
        /\ WF_vars(\E missed \in BOOLEAN : teecRequestCancellation(k, missed))
        /\ WF_vars(CancellationRuns(k))
-----------------------------------------------------------------------------
(* Properties.                                                             *)

\* The operations that the TEE works on.
Running == {t \in Threads : pc[t] = "inTEE" /\ call[t].op # NoOp}

\* operations_map holds exactly the operations the TEE works on, each under its
\* own key: no entry points into a stack frame that is gone, and no operation is
\* hidden behind another one whose hash code and process id add up to the same
\* int, not even when a restarted service runs next to a call of the old one
\* (LibteeWrapper.cpp emplace and erase around the TEEC calls).
MapIsRunning ==
    /\ \A key \in DOMAIN operations_map :
          /\ operations_map[key] \in Running
          /\ LET c == call[operations_map[key]] IN key = opHashCodeWithPid(c.pid, c.op)
    /\ \A t \in Running : LET key == opHashCodeWithPid(call[t].pid, call[t].op)
                          IN  key \in DOMAIN operations_map /\ operations_map[key] = t

\* A cancellation that gets to the native layer finds no operation there, its own
\* or anybody else's: the class monitor it needs is held for as long as an entry
\* is in the map (NativeLibtee.java line 59).
CancellationFindsNothing == told = {}

\* Request k is for the operation that thread t runs, and has passed the guard.
IsFor(k, t) ==
    /\ pc[k] = "started" /\ pc[t] = "inTEE"
    /\ request[k].pid = call[t].pid /\ request[k].op = call[t].op

\* "add operation into operations_map for future cancellation.": when the guard has
\* taken a cancellation for an operation that the TEE works on and that waits for
\* nothing else, the TEE is asked to cancel it (LibteeWrapper.cpp line 697,
\* ITEEClient.java lines 570 and 603).
RunningOperationsAreCancelled ==
    \A k \in Requests, t \in Threads :
        IsFor(k, t) /\ t \in waiting ~> t \in told \/ pc[t] # "inTEE"
=============================================================================
