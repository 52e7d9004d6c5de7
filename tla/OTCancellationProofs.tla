------------------------ MODULE OTCancellationProofs ------------------------
(***************************************************************************)
(* What the class monitor of NativeLibtee buys: one operation at a time in *)
(* the native layer, so that the map of running operations is exact, and   *)
(* nothing is in it when a cancellation gets there.                        *)
(***************************************************************************)
EXTENDS OTCancellation, TLAPS

\* The strengthening: one call at a time is in the native layer, and whatever is
\* not idle has a transaction.
OneInNative ==
    \A t, u \in Threads : pc[t] = "inTEE" /\ pc[u] = "inTEE" => t = u

CallInv ==
    /\ \A t \in Threads : pc[t] # "idle" => call[t] \in Calls
    /\ \A k \in Requests : pc[k] # "idle" => request[k] \in Calls

CancellationInv ==
    /\ TypeOK
    /\ CallInv
    /\ OneInNative
    /\ MapIsRunning
    /\ CancellationFindsNothing

\* opHashCode + callerId is an int again.
LEMMA KeysAreInts ==
    ASSUME NEW c \in Pids, NEW h \in Hashes
    PROVE  opHashCodeWithPid(c, h) \in Keys
  <1>1. h + c \in Nat /\ Width \in Nat \ {0}
    BY CancellationAssumption
  <1>2. \A n \in Nat, w \in Nat \ {0} : n % w \in 0..(w - 1)
    OBVIOUS
  <1>3. QED
    BY <1>1, <1>2 DEF opHashCodeWithPid, Keys

\* Whoever gets the class monitor finds operations_map empty.
LEMMA EmptyWhenFree ==
    ASSUME MapIsRunning, nativeFree
    PROVE  Running = {} /\ DOMAIN operations_map = {}
  <1>1. Running = {}
    BY DEF Running, nativeFree
  <1>2. QED
    BY <1>1 DEF MapIsRunning

\* A step that moves nobody into or out of the native layer keeps the map exact.
LEMMA MapKept ==
    ASSUME CancellationInv, operations_map' = operations_map,
           \A t \in Threads : (pc'[t] = "inTEE") <=> (pc[t] = "inTEE"),
           \A t \in Threads : pc[t] = "inTEE" => call'[t] = call[t],
           told' = told
    PROVE  OneInNative' /\ MapIsRunning' /\ CancellationFindsNothing'
  <1>1. OneInNative' /\ CancellationFindsNothing'
    BY DEF CancellationInv, OneInNative, CancellationFindsNothing
  <1>2. Running' = Running
    BY DEF Running
  <1>3. \A t \in Running : call'[t] = call[t]
    BY DEF Running
  <1>4. \A c, h : opHashCodeWithPid(c, h)' = opHashCodeWithPid(c, h)
    BY DEF opHashCodeWithPid
  <1>5. MapIsRunning'
    BY <1>2, <1>3, <1>4 DEF CancellationInv, MapIsRunning
  <1>6. QED
    BY <1>1, <1>5

\* The service starts with nothing under way.
LEMMA CancellationInit == Init => CancellationInv
  <1> SUFFICES ASSUME Init PROVE CancellationInv
    OBVIOUS
  <1>1. \A t \in Threads : pc[t] = "idle" /\ t \in Threads \cup Requests
    BY DEF Init
  <1>2. \A k \in Requests : pc[k] = "idle"
    BY DEF Init
  <1>3. Running = {}
    BY <1>1 DEF Running
  <1>4. DOMAIN operations_map = {} /\ IsMap(operations_map, Keys, Threads)
    BY DEF Init, EmptyMap, IsMap
  <1>5. TypeOK
    BY <1>4, CancellationAssumption DEF TypeOK, Init
  <1>6. QED
    BY <1>1, <1>2, <1>3, <1>4, <1>5
    DEF CancellationInv, CallInv, OneInNative, MapIsRunning, CancellationFindsNothing, Init

\* The service's record and life: no call moves.
LEMMA ServiceStep ==
    ASSUME CancellationInv,
           Restart \/ \E c \in Pids : initializeContext(c) \/ teecFinalizeContext(c)
    PROVE  CancellationInv'
  <1>1. UNCHANGED <<pc, call, request, operations_map, waiting, told>>
    BY DEF Restart, initializeContext, teecFinalizeContext
  <1>2. instance' \in 1..MaxInstances /\ mOTCallerList' \subseteq Pids
    <2>1. instance \in 1..MaxInstances /\ mOTCallerList \subseteq Pids
      BY DEF CancellationInv, TypeOK
    <2>2. CASE Restart
      BY <2>1, <2>2, CancellationAssumption DEF Restart
    <2>3. ASSUME NEW c \in Pids, initializeContext(c) \/ teecFinalizeContext(c)
          PROVE  instance' = instance /\ mOTCallerList' \subseteq Pids
      BY <2>1, <2>3 DEF initializeContext, teecFinalizeContext
    <2>4. QED
      BY <2>1, <2>2, <2>3
  <1>3. TypeOK'
    BY <1>1, <1>2 DEF CancellationInv, TypeOK
  <1>4. CallInv'
    BY <1>1 DEF CancellationInv, CallInv
  <1>5. QED
    BY <1>1, <1>3, <1>4, MapKept DEF CancellationInv

\* A call arrives, passes the checks or not, and replies: outside the native layer.
LEMMA OutsideStep ==
    ASSUME CancellationInv, NEW t \in Threads,
           \/ \E c \in Pids, h \in Hashes \cup {NoOp} : Transact(t, c, h)
           \/ \E known \in BOOLEAN : EnterStub(t, known)
           \/ LeaveStub(t)
    PROVE  CancellationInv'
  <1>1. /\ UNCHANGED <<instance, mOTCallerList, request, operations_map, waiting, told>>
        /\ pc[t] # "inTEE"
    BY DEF Transact, EnterStub, LeaveStub
  <1>2. PICK s \in {"idle", "arrived", "inStub"} : pc' = [pc EXCEPT ![t] = s]
    BY DEF Transact, EnterStub, LeaveStub
  <1>3. PICK x \in Calls \cup {NoCall} :
             call' = [call EXCEPT ![t] = x] /\ (s # "idle" => x \in Calls)
    <2>1. CASE \E c \in Pids, h \in Hashes \cup {NoOp} : Transact(t, c, h)
      <3>1. PICK c \in Pids, h \in Hashes \cup {NoOp} : Transact(t, c, h)
        BY <2>1
      <3>2. [pid |-> c, op |-> h, instance |-> instance] \in Calls
        BY DEF CancellationInv, TypeOK, Calls
      <3>3. QED
        BY <3>1, <3>2 DEF Transact
    <2>2. CASE \E known \in BOOLEAN : EnterStub(t, known)
      <3>1. call[t] \in Calls /\ call = [call EXCEPT ![t] = call[t]]
        BY <2>2 DEF EnterStub, CancellationInv, CallInv, TypeOK
      <3>2. \/ call' = call
            \/ call' = [call EXCEPT ![t] = NoCall] /\ pc' = [pc EXCEPT ![t] = "idle"]
        BY <2>2 DEF EnterStub
      <3>3. pc'[t] = s /\ pc' = [pc EXCEPT ![t] = "idle"] => s = "idle"
        BY <1>2 DEF CancellationInv, TypeOK
      <3>4. QED
        BY <1>2, <3>1, <3>2, <3>3 DEF CancellationInv, TypeOK
    <2>3. CASE LeaveStub(t)
      <3>1. s = "idle"
        BY <1>2, <2>3 DEF LeaveStub, CancellationInv, TypeOK
      <3>2. QED
        BY <2>3, <3>1 DEF LeaveStub
    <2>4. QED
      BY <2>1, <2>2, <2>3
  <1>4. TypeOK'
    BY <1>1, <1>2, <1>3 DEF CancellationInv, TypeOK
  <1>5. /\ \A u \in Threads \ {t} : pc'[u] = pc[u] /\ call'[u] = call[u]
        /\ \A k \in Requests : pc'[k] = pc[k]
        /\ pc'[t] = s /\ call'[t] = x
    BY <1>2, <1>3, CancellationAssumption DEF CancellationInv, TypeOK
  <1>6. CallInv'
    BY <1>1, <1>3, <1>5 DEF CancellationInv, CallInv
  <1>7. /\ \A u \in Threads : (pc'[u] = "inTEE") <=> (pc[u] = "inTEE")
        /\ \A u \in Threads : pc[u] = "inTEE" => call'[u] = call[u]
    BY <1>1, <1>5
  <1>8. QED
    BY <1>1, <1>4, <1>6, <1>7, MapKept DEF CancellationInv

\* A call enters the native layer: the monitor was free, so the map was empty.
LEMMA EnterStep ==
    ASSUME CancellationInv, NEW t \in Threads, NEW waits \in BOOLEAN, EnterNative(t, waits)
    PROVE  CancellationInv'
  <1> DEFINE key == opHashCodeWithPid(call[t].pid, call[t].op)
  <1>1. /\ UNCHANGED <<instance, mOTCallerList, call, request, told>>
        /\ pc' = [pc EXCEPT ![t] = "inTEE"]
        /\ waiting' \subseteq Threads
        /\ call[t] \in Calls /\ nativeFree
    BY DEF EnterNative, CancellationInv, TypeOK, CallInv
  <1>2. DOMAIN operations_map = {}
    BY <1>1, EmptyWhenFree DEF CancellationInv
  <1>3. /\ pc'[t] = "inTEE" /\ \A u \in Threads \ {t} : pc'[u] # "inTEE"
        /\ \A u \in Threads \ {t} : pc'[u] = pc[u]
        /\ \A k \in Requests : pc'[k] = pc[k]
    BY <1>1, CancellationAssumption DEF nativeFree, CancellationInv, TypeOK
  <1>4. CASE call[t].op = NoOp
    <2>1. operations_map' = operations_map
      BY <1>4 DEF EnterNative
    <2>2. Running' = {}
      BY <1>1, <1>3, <1>4 DEF Running
    <2>3. TypeOK'
      BY <1>1, <2>1 DEF CancellationInv, TypeOK
    <2>4. MapIsRunning'
      BY <1>2, <2>1, <2>2 DEF MapIsRunning
    <2>5. CallInv' /\ OneInNative' /\ CancellationFindsNothing'
      BY <1>1, <1>3 DEF CancellationInv, CallInv, OneInNative, CancellationFindsNothing
    <2>6. QED
      BY <2>3, <2>4, <2>5 DEF CancellationInv
  <1>5. CASE call[t].op # NoOp
    <2>1. key \in Keys
      BY <1>1, <1>5, KeysAreInts DEF Calls
    <2>2. operations_map' = MapEmplace(operations_map, key, t)
      BY <1>5 DEF EnterNative
    <2> HIDE DEF key
    <2>3. DOMAIN operations_map' = {key} /\ operations_map'[key] = t
          /\ IsMap(operations_map', Keys, Threads)
      BY <1>2, <2>1, <2>2 DEF MapEmplace, MapPut, IsMap
    <2>4. Running' = {t}
      BY <1>1, <1>3, <1>5 DEF Running
    <2>5. TypeOK'
      BY <1>1, <2>3 DEF CancellationInv, TypeOK
    <2>6. MapIsRunning'
      BY <1>1, <2>3, <2>4 DEF MapIsRunning, key, opHashCodeWithPid
    <2>7. CallInv' /\ OneInNative' /\ CancellationFindsNothing'
      BY <1>1, <1>3 DEF CancellationInv, CallInv, OneInNative, CancellationFindsNothing
    <2>8. QED
      BY <2>5, <2>6, <2>7 DEF CancellationInv
  <1>6. QED
    BY <1>4, <1>5

\* A call leaves the native layer and takes its entry, the only one, with it.
LEMMA LeaveStep ==
    ASSUME CancellationInv, NEW t \in Threads, LeaveNative(t)
    PROVE  CancellationInv'
  <1> DEFINE key == opHashCodeWithPid(call[t].pid, call[t].op)
  <1>1. /\ UNCHANGED <<instance, mOTCallerList, call, request>>
        /\ pc[t] = "inTEE" /\ pc' = [pc EXCEPT ![t] = "replying"]
        /\ waiting' \subseteq Threads /\ told' = {} /\ call[t] \in Calls
        /\ operations_map' = eraseEntry(t)
    BY DEF LeaveNative, CancellationInv, TypeOK, CallInv, CancellationFindsNothing
  <1>2. \A u \in Threads : pc[u] = "inTEE" => u = t
    BY <1>1 DEF CancellationInv, OneInNative
  <1>3. /\ \A u \in Threads : pc'[u] # "inTEE"
        /\ pc'[t] = "replying" /\ \A u \in Threads \ {t} : pc'[u] = pc[u]
        /\ \A k \in Requests : pc'[k] = pc[k]
    BY <1>1, <1>2, CancellationAssumption DEF CancellationInv, TypeOK
  <1>4. Running \subseteq {t} /\ Running' = {}
    BY <1>2, <1>3 DEF Running
  <1>5. DOMAIN operations_map' = {} /\ IsMap(operations_map', Keys, Threads)
    <2>1. CASE call[t].op = NoOp
      <3>1. Running = {}
        BY <1>4, <2>1 DEF Running
      <3>2. QED
        BY <1>1, <2>1, <3>1 DEF CancellationInv, MapIsRunning, eraseEntry, TypeOK
    <2>2. CASE call[t].op # NoOp
      <3>1. \A x \in DOMAIN operations_map : x = key
        BY <1>4 DEF CancellationInv, MapIsRunning
      <3>2. operations_map' = MapRemove(operations_map, {key})
        BY <1>1, <2>2 DEF eraseEntry
      <3> HIDE DEF key
      <3>3. QED
        BY <3>1, <3>2 DEF MapRemove, Restrict, IsMap
    <2>3. QED
      BY <2>1, <2>2
  <1>6. TypeOK'
    BY <1>1, <1>5 DEF CancellationInv, TypeOK
  <1>7. CallInv' /\ OneInNative' /\ CancellationFindsNothing'
    BY <1>1, <1>3 DEF CancellationInv, CallInv, OneInNative, CancellationFindsNothing
  <1>8. MapIsRunning'
    BY <1>4, <1>5 DEF MapIsRunning
  <1>9. QED
    BY <1>6, <1>7, <1>8 DEF CancellationInv

\* A request, up to the lookup under the class monitor that finds nothing.
LEMMA RequestStep ==
    ASSUME CancellationInv, NEW k \in Requests,
           \/ \E c \in Pids, h \in Hashes : requestCancellation(k, c, h)
           \/ \E missed \in BOOLEAN : teecRequestCancellation(k, missed)
           \/ CancellationRuns(k)
    PROVE  CancellationInv'
  <1>1. UNCHANGED <<instance, mOTCallerList, call, operations_map, waiting>>
    BY DEF requestCancellation, teecRequestCancellation, CancellationRuns
  <1>2. told' = told
    <2>1. CASE CancellationRuns(k)
      <3>1. DOMAIN operations_map = {}
        BY <2>1, EmptyWhenFree DEF CancellationRuns, CancellationInv
      <3>2. QED
        BY <2>1, <3>1 DEF CancellationRuns, native_teecRequestCancellation
    <2>2. QED
      BY <2>1 DEF requestCancellation, teecRequestCancellation
  <1>3. PICK s \in {"idle", "binding", "started"} : pc' = [pc EXCEPT ![k] = s]
    BY DEF requestCancellation, teecRequestCancellation, CancellationRuns
  <1>4. PICK x \in Calls \cup {NoCall} :
             request' = [request EXCEPT ![k] = x] /\ (s # "idle" => x \in Calls)
    <2>1. CASE \E c \in Pids, h \in Hashes : requestCancellation(k, c, h)
      <3>1. PICK c \in Pids, h \in Hashes : requestCancellation(k, c, h)
        BY <2>1
      <3>2. [pid |-> c, op |-> h, instance |-> instance] \in Calls
        BY DEF CancellationInv, TypeOK, Calls
      <3>3. QED
        BY <3>1, <3>2 DEF requestCancellation
    <2>2. CASE \E missed \in BOOLEAN : teecRequestCancellation(k, missed)
      <3>1. request[k] \in Calls /\ request = [request EXCEPT ![k] = request[k]]
        BY <2>2 DEF teecRequestCancellation, CancellationInv, CallInv, TypeOK
      <3>2. \/ request' = request
            \/ request' = [request EXCEPT ![k] = NoCall] /\ pc' = [pc EXCEPT ![k] = "idle"]
        BY <2>2 DEF teecRequestCancellation
      <3>3. pc' = [pc EXCEPT ![k] = "idle"] => s = "idle"
        BY <1>3 DEF CancellationInv, TypeOK
      <3>4. QED
        BY <3>1, <3>2, <3>3 DEF CancellationInv, TypeOK
    <2>3. CASE CancellationRuns(k)
      <3>1. s = "idle"
        BY <1>3, <2>3 DEF CancellationRuns, CancellationInv, TypeOK
      <3>2. QED
        BY <2>3, <3>1 DEF CancellationRuns
    <2>4. QED
      BY <2>1, <2>2, <2>3
  <1>5. TypeOK'
    BY <1>1, <1>2, <1>3, <1>4 DEF CancellationInv, TypeOK
  <1>6. /\ \A t \in Threads : pc'[t] = pc[t]
        /\ \A j \in Requests \ {k} : pc'[j] = pc[j] /\ request'[j] = request[j]
        /\ pc'[k] = s /\ request'[k] = x
    BY <1>3, <1>4, CancellationAssumption DEF CancellationInv, TypeOK
  <1>7. CallInv'
    BY <1>1, <1>4, <1>6 DEF CancellationInv, CallInv
  <1>8. QED
    BY <1>1, <1>2, <1>5, <1>6, <1>7, MapKept DEF CancellationInv

\* Every step keeps the invariant.
LEMMA CancellationNext == CancellationInv /\ [Next]_vars => CancellationInv'
  <1> SUFFICES ASSUME CancellationInv, [Next]_vars PROVE CancellationInv'
    OBVIOUS
  <1>1. CASE UNCHANGED vars
    <2>1. TypeOK' /\ CallInv'
      BY <1>1 DEF vars, CancellationInv, TypeOK, CallInv
    <2>2. QED
      BY <1>1, <2>1, MapKept DEF vars, CancellationInv
  <1>2. CASE Next
    BY <1>2, ServiceStep, OutsideStep, EnterStep, LeaveStep, RequestStep DEF Next
  <1>3. QED
    BY <1>1, <1>2

\* For any number of threads, processes, hash codes and service instances.
THEOREM CancellationInvariant == Spec => []CancellationInv
  <1>1. QED
    BY CancellationInit, CancellationNext, PTL DEF Spec

\* operations_map is exact: no entry outlives its call, and no operation is hidden
\* behind another one with the same key (LibteeWrapper.cpp emplace and erase).
THEOREM OperationsMapIsExact == Spec => []MapIsRunning
  <1>1. CancellationInv => MapIsRunning
    BY DEF CancellationInv
  <1>2. QED
    BY <1>1, CancellationInvariant, PTL

\* No cancellation ever finds an operation, because it needs the monitor that the
\* operation's own call holds (NativeLibtee.java line 59).
THEOREM CancellationIsTooLate == Spec => []CancellationFindsNothing
  <1>1. CancellationInv => CancellationFindsNothing
    BY DEF CancellationInv
  <1>2. QED
    BY <1>1, CancellationInvariant, PTL

\* The type invariant: the key of an operation is an int whatever the sum.
THEOREM CancellationTypes == Spec => []TypeOK
  <1>1. CancellationInv => TypeOK
    BY DEF CancellationInv
  <1>2. QED
    BY <1>1, CancellationInvariant, PTL
=============================================================================
