---------------------------- MODULE OTContextProofs ----------------------------
(***************************************************************************)
(* Proofs about the client library, for any number of contexts, operations *)
(* and session ids, deaths of the service and interrupts of threads.       *)
(***************************************************************************)
EXTENDS OTContext, FiniteSetTheorems, TLAPS

\* What the lock argument needs of the types: which values the per-context
\* variables of a call are functions to.
CallTypes ==
    /\ pc \in [Contexts -> InCall \cup {"none", "constructing", "ready"}]
    /\ call \in [Contexts -> Calls \cup {NoCall}]
    /\ newOp \in [Contexts -> BOOLEAN]
    /\ opLock \in [Contexts -> BOOLEAN]
    /\ syncs \subseteq Contexts

\* LockTracksSync is not inductive alone: that a fresh call starts with a free
\* lock and without an operation is LockIdle's part.
LockInv == CallTypes /\ LockIdle /\ LockTracksSync

lockVars == <<pc, call, newOp, opLock, syncs>>

\* The two shared memory calls.
MemoryCall(x, smid) ==
    \/ \E rc \in {"SUCCESS", "LISTED", "UNLISTED"} : RegisterSharedMemory(x, smid, rc)
    \/ \E y \in Contexts : ReleaseSharedMemory(x, y, smid)

\* The steps of a worker that an interrupted openSession left behind.
StraySteps == \E w \in strays : RunStray(w) \/ HandleStray(w)

\* The steps of the connection, of the closing of sessions and of a refused call
\* leave the variables of every call alone.
LEMMA LockInvStutters == ASSUME LockInv, UNCHANGED lockVars PROVE LockInv'
  BY DEF LockInv, lockVars, CallTypes, LockIdle, LockTracksSync

\* A step that moves one thread between the states outside a call keeps the
\* invariant.
LEMMA MoveOutsideCall ==
    ASSUME LockInv, NEW x \in Contexts,
           NEW p \in {"none", "constructing", "ready"},
           pc[x] \in {"none", "constructing", "ready"},
           pc' = [pc EXCEPT ![x] = p],
           UNCHANGED <<call, newOp, opLock, syncs>>
    PROVE  LockInv'
  <1>1. CallTypes'
    BY DEF LockInv, CallTypes
  <1>2. \A y \in Contexts : y # x => pc'[y] = pc[y]
    BY DEF LockInv, CallTypes
  <1>3. pc'[x] = p
    BY DEF LockInv, CallTypes
  <1>4. LockIdle'
    BY <1>2, <1>3 DEF LockInv, LockIdle
  <1>5. LockTracksSync'
    BY <1>2, <1>3 DEF LockInv, LockTracksSync
  <1> QED BY <1>1, <1>4, <1>5 DEF LockInv

\* Connecting, disconnecting, constructing and finalising contexts.
LEMMA ConnectionSteps ==
    ASSUME LockInv, NEW x \in Contexts,
           \/ \E served \in BOOLEAN : InitializeContext(x, served)
           \/ \E recorded \in BOOLEAN :
                 onServiceConnected(x, recorded) \/ AbandonedConnected(recorded)
           \/ ContextReturns(x) \/ onServiceDisconnected(x) \/ FinalizeContext(x)
           \/ \E sid \in Sids : CloseSession(x, sid)
           \/ \E smid \in SmIds : MemoryCall(x, smid)
    PROVE  LockInv'
  <1>1. CASE \E served \in BOOLEAN : InitializeContext(x, served)
    BY <1>1, MoveOutsideCall DEF InitializeContext, callVars
  <1>2. CASE \/ \E recorded \in BOOLEAN :
                   onServiceConnected(x, recorded) \/ AbandonedConnected(recorded)
             \/ onServiceDisconnected(x)
             \/ \E sid \in Sids : CloseSession(x, sid)
             \/ \E smid \in SmIds : MemoryCall(x, smid)
    <2>1. UNCHANGED lockVars
      BY <1>2 DEF onServiceConnected, AbandonedConnected, onServiceDisconnected,
                  CloseSession, MemoryCall, RegisterSharedMemory, ReleaseSharedMemory,
                  memoryCallUnchanged, threadVars, callVars, lockVars
    <2> QED BY <2>1, LockInvStutters
  <1>3. CASE ContextReturns(x)
    BY <1>3, MoveOutsideCall DEF ContextReturns, callVars
  <1>4. CASE FinalizeContext(x)
    <2>1. CASE mService[x] = "dead"
      <3>1. UNCHANGED lockVars
        BY <1>4, <2>1 DEF FinalizeContext, callVars, lockVars
      <3> QED BY <3>1, LockInvStutters
    <2>2. CASE mService[x] # "dead"
      BY <1>4, <2>2, MoveOutsideCall DEF FinalizeContext, callVars
    <2> QED BY <2>1, <2>2
  <1> QED BY <1>1, <1>2, <1>3, <1>4

\* The death of the service ends every transaction and no wait.
LEMMA DeathStep ==
    ASSUME LockInv, NEW late \in SUBSET Contexts, ServiceDies(late)
    PROVE  LockInv'
  <1> USE DEF LockInv, ServiceDies
  <1>1. CallTypes'
    BY DEF CallTypes, InCall
  <1>2. LockIdle'
    BY DEF CallTypes, LockIdle
  <1>3. LockTracksSync'
    BY DEF CallTypes, LockTracksSync
  <1> QED BY <1>1, <1>2, <1>3

\* A call begins with a free lock and no operation of an earlier call.
LEMMA BeginStep ==
    ASSUME LockInv, NEW x \in Contexts, NEW k \in {"openSession", "invokeCommand"},
           NEW sid \in Sids, NEW op \in Ops, Begin(x, k, sid, op)
    PROVE  LockInv'
  <1>1. CASE op # NoOp /\ started[op] = 1
    <2>1. UNCHANGED lockVars
      BY <1>1 DEF Begin, lockVars
    <2> QED BY <2>1, LockInvStutters
  <1>2. CASE ~(op # NoOp /\ started[op] = 1)
    <2>1. /\ pc[x] = "ready"
          /\ pc' = [pc EXCEPT ![x] = "spawned"]
          /\ call' = [call EXCEPT ![x] = [kind |-> k, sid |-> sid, op |-> op]]
          /\ UNCHANGED <<newOp, opLock, syncs>>
      BY <1>2 DEF Begin
    <2>2. [kind |-> k, sid |-> sid, op |-> op] \in Calls
      BY DEF Calls
    <2>3. CallTypes'
      BY <2>1, <2>2 DEF LockInv, CallTypes, InCall
    <2>4. pc'[x] = "spawned" /\ \A y \in Contexts : y # x => pc'[y] = pc[y]
      BY <2>1 DEF LockInv, CallTypes
    <2>5. \A y \in Contexts : y # x => call'[y] = call[y]
      BY <2>1 DEF LockInv, CallTypes
    <2>6. LockIdle'
      BY <2>1, <2>4 DEF LockInv, LockIdle
    <2>7. LockTracksSync'
      BY <2>1, <2>4, <2>5 DEF LockInv, LockTracksSync
    <2> QED BY <2>3, <2>6, <2>7 DEF LockInv
  <1> QED BY <1>1, <1>2

\* The worker takes the lock, the service answers, the callback frees the lock,
\* the worker ends, the thread passes the lock.
LEMMA CallSteps ==
    ASSUME LockInv, NEW x \in Contexts,
           \/ RunTask(x) \/ HandleOpenSession(x) \/ HandleInvokeCommand(x)
           \/ syncOperation(x) \/ TaskEnds(x)
           \/ \E fits \in BOOLEAN : CallReturns(x, fits)
    PROVE  LockInv'
  <1> USE DEF LockInv
  <1>1. CASE RunTask(x)
    <2>1. /\ pc[x] = "spawned"
          /\ opLock' = [opLock EXCEPT ![x] = call[x].op # NoOp]
          /\ \E p \in {"calling", "joined"} : pc' = [pc EXCEPT ![x] = p]
          /\ UNCHANGED <<call, newOp, syncs>>
      BY <1>1 DEF RunTask, lock
    <2>2. CallTypes'
      BY <2>1 DEF CallTypes, InCall
    <2>3. LockIdle'
      BY <2>1 DEF CallTypes, LockIdle
    <2>4. LockTracksSync'
      BY <2>1 DEF CallTypes, LockTracksSync, LockIdle
    <2> QED BY <2>2, <2>3, <2>4
  <1>2. CASE HandleOpenSession(x) \/ HandleInvokeCommand(x)
    <2>1. /\ pc[x] = "calling"
          /\ pc' = [pc EXCEPT ![x] = "handled"]
          /\ syncs' = syncs \/ (call[x].op # NoOp /\ syncs' = syncs \cup {x})
          /\ UNCHANGED <<call, newOp, opLock>>
      BY <1>2 DEF HandleOpenSession, HandleInvokeCommand, Answer
    <2>2. CallTypes'
      BY <2>1 DEF CallTypes, InCall
    <2>3. LockIdle'
      BY <2>1 DEF CallTypes, LockIdle
    <2>4. LockTracksSync'
      BY <2>1 DEF CallTypes, LockTracksSync, LockIdle
    <2> QED BY <2>2, <2>3, <2>4
  <1>3. CASE syncOperation(x)
    <2>1. /\ x \in syncs /\ syncs' = syncs \ {x}
          /\ newOp' = [newOp EXCEPT ![x] = TRUE]
          /\ opLock' = [opLock EXCEPT ![x] = FALSE]
          /\ UNCHANGED <<pc, call>>
      BY <1>3 DEF syncOperation, Pending, unlock
    <2>2. CallTypes'
      BY <2>1 DEF CallTypes
    <2>3. LockIdle'
      BY <2>1 DEF CallTypes, LockIdle, LockTracksSync
    <2>4. LockTracksSync'
      BY <2>1 DEF CallTypes, LockTracksSync
    <2> QED BY <2>2, <2>3, <2>4
  <1>4. CASE TaskEnds(x)
    <2>1. /\ pc[x] = "handled"
          /\ pc' = [pc EXCEPT ![x] = "joined"]
          /\ UNCHANGED <<call, newOp, opLock, syncs>>
      BY <1>4 DEF TaskEnds, callVars
    <2>2. CallTypes'
      BY <2>1 DEF CallTypes, InCall
    <2>3. LockIdle'
      BY <2>1 DEF CallTypes, LockIdle
    <2>4. LockTracksSync'
      BY <2>1 DEF CallTypes, LockTracksSync
    <2> QED BY <2>2, <2>3, <2>4
  <1>5. CASE \E fits \in BOOLEAN : CallReturns(x, fits)
    <2>1. /\ pc[x] = "joined" /\ ~opLock[x]
          /\ pc' = [pc EXCEPT ![x] = "ready"]
          /\ call' = [call EXCEPT ![x] = NoCall]
          /\ newOp' = [newOp EXCEPT ![x] = FALSE]
          /\ UNCHANGED <<opLock, syncs>>
      BY <1>5 DEF CallReturns, PassesLock
    <2>2. CallTypes'
      BY <2>1 DEF CallTypes
    <2>3. LockIdle'
      BY <2>1 DEF CallTypes, LockIdle
    <2>4. LockTracksSync'
      BY <2>1 DEF CallTypes, LockTracksSync
    <2> QED BY <2>2, <2>3, <2>4
  <1> QED BY <1>1, <1>2, <1>3, <1>4, <1>5

\* An interrupt ends a call, with its lock free and its callback forgotten, or
\* moves a thread outside of one; the worker it leaves behind has its own lock.
LEMMA InterruptSteps ==
    ASSUME LockInv, NEW x \in Contexts, Interrupt(x)
    PROVE  LockInv'
  <1> USE DEF LockInv
  <1>1. CASE JoinInterrupted(x) \/ LockInterrupted(x)
    <2>1. /\ pc' = [pc EXCEPT ![x] = "ready"]
          /\ call' = [call EXCEPT ![x] = NoCall]
          /\ newOp' = [newOp EXCEPT ![x] = FALSE]
          /\ opLock' = [opLock EXCEPT ![x] = FALSE]
          /\ syncs' = syncs \ {x}
      BY <1>1 DEF JoinInterrupted, LockInterrupted, PassesLock, unlock
    <2>2. CallTypes'
      BY <2>1 DEF CallTypes
    <2>3. LockIdle'
      BY <2>1 DEF CallTypes, LockIdle
    <2>4. LockTracksSync'
      BY <2>1 DEF CallTypes, LockTracksSync
    <2> QED BY <2>2, <2>3, <2>4
  <1>2. CASE ConstructorInterrupted(x)
    BY <1>2, MoveOutsideCall DEF ConstructorInterrupted, callVars
  <1>3. CASE \E served \in BOOLEAN : InitializeInterrupted(x, served)
    <2>1. UNCHANGED lockVars
      BY <1>3 DEF InitializeInterrupted, threadVars, callVars, lockVars
    <2> QED BY <2>1, LockInvStutters
  <1> QED BY <1>1, <1>2, <1>3 DEF Interrupt

\* Whatever the order of reply and callback, whenever the service dies and
\* whichever thread is interrupted, the lock of a call is held exactly until its
\* operation is back.
THEOREM LockIsSound == Spec => []LockTracksSync
  <1>1. Init => LockInv
    BY DEF Init, LockInv, CallTypes, LockIdle, LockTracksSync
  <1>2. LockInv /\ [Next]_vars => LockInv'
    <2> SUFFICES ASSUME LockInv, [Next]_vars PROVE LockInv'
      OBVIOUS
    <2>1. CASE UNCHANGED vars
      <3>1. UNCHANGED lockVars
        BY <2>1 DEF vars, threadVars, callVars, lockVars
      <3> QED BY <3>1, LockInvStutters
    <2>2. CASE \E late \in SUBSET Contexts : ServiceDies(late)
      BY <2>2, DeathStep
    <2>3. CASE \E recorded \in BOOLEAN :
                  AbandonedConnected(recorded)
      <3>1. UNCHANGED lockVars
        BY <2>3 DEF AbandonedConnected, threadVars, callVars, lockVars
      <3> QED BY <3>1, LockInvStutters
    <2>4. ASSUME NEW x \in Contexts, Proceed(x) PROVE LockInv'
      BY <2>4, ConnectionSteps, CallSteps DEF Proceed
    <2>5. ASSUME NEW x \in Contexts,
                 \/ \E served \in BOOLEAN : InitializeContext(x, served)
                 \/ FinalizeContext(x)
                 \/ \E sid \in Sids : CloseSession(x, sid)
                 \/ \E smid \in SmIds : MemoryCall(x, smid)
          PROVE  LockInv'
      BY <2>5, ConnectionSteps
    <2>6. ASSUME NEW x \in Contexts, NEW sid \in Sids, NEW op \in Ops,
                 OpenSession(x, sid, op) \/ InvokeCommand(x, sid, op)
          PROVE  LockInv'
      BY <2>6, BeginStep DEF OpenSession, InvokeCommand
    <2>7. ASSUME NEW x \in Contexts, Interrupt(x) PROVE LockInv'
      BY <2>7, InterruptSteps
    <2>8. CASE StraySteps
      <3>1. UNCHANGED lockVars
        BY <2>8 DEF StraySteps, RunStray, HandleStray, threadVars, callVars, lockVars
      <3> QED BY <3>1, LockInvStutters
    <2> QED BY <2>1, <2>2, <2>3, <2>4, <2>5, <2>6, <2>7, <2>8
            DEF Next, MemoryCall, StraySteps
  <1>3. LockInv => LockTracksSync
    BY DEF LockInv
  <1> QED BY <1>1, <1>2, <1>3, PTL DEF Spec
-----------------------------------------------------------------------------
(* Types.                                                                  *)

\* What a walk that aborts leaves is again a count per id.
LEMMA RemainsTypes ==
    ASSUME NEW S, NEW n \in Nat, NEW f \in [S -> 0..n], NEW g \in Remains(f)
    PROVE  g \in [S -> 0..n]
  <1>1. g \in [S -> UNION {0..f[i] : i \in S}] /\ \A i \in S : g[i] <= f[i]
    BY DEF Remains
  <1>2. \A i \in S : g[i] \in 0..n
    <2> SUFFICES ASSUME NEW i \in S PROVE g[i] \in 0..n
      OBVIOUS
    <2>1. g[i] \in UNION {0..f[k] : k \in S}
      BY <1>1
    <2>2. PICK j \in S : g[i] \in 0..f[j]
      BY <2>1
    <2> QED BY <1>1, <2>2
  <1> QED BY <1>1, <1>2

\* The steps of a connection keep the types.
LEMMA ConnectionTypes ==
    ASSUME TypeOK, NEW x \in Contexts,
           \/ \E served \in BOOLEAN : InitializeContext(x, served)
           \/ \E recorded \in BOOLEAN :
                 onServiceConnected(x, recorded) \/ AbandonedConnected(recorded)
           \/ ContextReturns(x) \/ onServiceDisconnected(x)
    PROVE  TypeOK'
  <1> USE DEF TypeOK
  <1>1. CASE \E served \in BOOLEAN : InitializeContext(x, served)
    BY <1>1 DEF InitializeContext, EntersThread, callVars, serviceVars
  <1>2. CASE \E recorded \in BOOLEAN : onServiceConnected(x, recorded)
    BY <1>2 DEF onServiceConnected, Initialized, unlockAlways, callVars
  <1>3. CASE \E recorded \in BOOLEAN : AbandonedConnected(recorded)
    BY <1>3 DEF AbandonedConnected, Initialized, threadVars, callVars
  <1>4. CASE ContextReturns(x)
    BY <1>4 DEF ContextReturns, LeavesThread, callVars, serviceVars, bindingVars
  <1>5. CASE onServiceDisconnected(x)
    BY <1>5 DEF onServiceDisconnected, threadVars, callVars, serviceVars
  <1> QED BY <1>1, <1>2, <1>3, <1>4, <1>5

\* So does the end of a context.
LEMMA FinalizeTypes ==
    ASSUME TypeOK, NEW x \in Contexts, FinalizeContext(x) PROVE TypeOK'
  <1> USE DEF TypeOK
  <1>1. CASE mService[x] = "dead"
    BY <1>1 DEF FinalizeContext, callVars, serviceVars, bindingVars
  <1>2. CASE mService[x] # "dead"
    <2>1. caller' \in BOOLEAN /\ callerSessions' \in [Sids -> 0..MaxSessions]
          /\ callerMemory' \in [SmIds -> 0..MaxMemory]
      <3>1. CASE UNCHANGED serviceVars
        BY <3>1 DEF serviceVars
      <3>2. CASE GuardFinalizes
        <4>1. NoSessions \in [Sids -> 0..MaxSessions] /\ NoMemory \in [SmIds -> 0..MaxMemory]
          BY ClientAssumption DEF NoSessions, NoMemory
        <4>2. \A f \in Remains(callerSessions) : f \in [Sids -> 0..MaxSessions]
          BY RemainsTypes, ClientAssumption
        <4>3. \A f \in Remains(callerMemory) : f \in [SmIds -> 0..MaxMemory]
          BY RemainsTypes, ClientAssumption
        <4> QED BY <3>2, <4>1, <4>2, <4>3 DEF GuardFinalizes
      <3> QED BY <1>2, <3>1, <3>2 DEF FinalizeContext
    <2> QED BY <1>2, <2>1 DEF FinalizeContext, callVars
  <1> QED BY <1>1, <1>2

\* So does the death of the service.
LEMMA DeathTypes ==
    ASSUME TypeOK, NEW late \in SUBSET Contexts, ServiceDies(late) PROVE TypeOK'
  <1> USE DEF TypeOK
  <1>0. strays' \subseteq Strays
    BY DEF ServiceDies
  <1>1. /\ deaths' \in 0..MaxDeaths /\ caller' \in BOOLEAN
        /\ abandoned' \in {"none", "waiting", "connected"}
    <2>1. /\ deaths < MaxDeaths /\ deaths' = deaths + 1 /\ caller' = FALSE
          /\ abandoned' = IF abandoned = "none" THEN "none" ELSE "waiting"
      BY Zenon DEF ServiceDies
    <2>2. deaths' \in 0..MaxDeaths
      BY <2>1, ClientAssumption
    <2>3. abandoned' \in {"none", "waiting", "connected"}
      BY <2>1, Zenon
    <2> QED BY <2>1, <2>2, <2>3, Zenon
  <1>2. /\ callerSessions' \in [Sids -> 0..MaxSessions]
        /\ callerMemory' \in [SmIds -> 0..MaxMemory]
    BY ClientAssumption DEF ServiceDies, NoSessions, NoMemory
  <1>3. /\ mService' \in [Contexts -> {"null", "live", "dead"}]
        /\ pc' \in [Contexts -> InCall \cup {"none", "constructing", "ready"}]
        /\ rv' \in [Contexts -> ReturnCodes \cup {NoValue}]
    BY DEF ServiceDies, InCall
  <1>4. ctorLock' \in [Contexts -> BOOLEAN]
    <2>1. ctorLock' = [x \in Contexts |-> ctorLock[x] /\ x \notin late]
      BY Zenon DEF ServiceDies
    <2>2. \A x \in Contexts : (ctorLock[x] /\ x \notin late) \in BOOLEAN
      BY Zenon
    <2> QED BY <2>1, <2>2, Zenon
  <1> QED BY <1>0, <1>1, <1>2, <1>3, <1>4 DEF ServiceDies

\* What passing the lock changes, and what it leaves alone.
PassesTypes ==
    /\ pc \in [Contexts -> InCall \cup {"none", "constructing", "ready"}]
    /\ call \in [Contexts -> Calls \cup {NoCall}]
    /\ rv \in [Contexts -> ReturnCodes \cup {NoValue}]
    /\ newOp \in [Contexts -> BOOLEAN]
    /\ mSessionMap \in [Contexts -> SUBSET Sids]
    /\ main \in Contexts \cup {Nobody}
    /\ started \in [Operations -> {0, 1}]

passesUnchanged == <<ctorLock, mSharedMemory, bound, mService, abandoned, caller,
                     callerSessions, callerMemory, deaths>>

\* So does the way out of a call behind the lock.
LEMMA PassesLockTypes ==
    ASSUME TypeOK, NEW x \in Contexts, NEW fits \in BOOLEAN, PassesLock(x, fits)
    PROVE  PassesTypes' /\ UNCHANGED passesUnchanged
  <1> USE DEF TypeOK
  <1>1. started' \in [Operations -> {0, 1}]
    BY DEF PassesLock, setStarted
  <1>2. mSessionMap' \in [Contexts -> SUBSET Sids]
    <2>1. CASE Ending(x, fits) = "session"
      <3>1. call[x].kind = "openSession"
        BY <2>1 DEF Ending
      <3>2. call[x] \in Calls
        BY <3>1 DEF NoCall
      <3> QED BY <2>1, <3>2 DEF PassesLock, Calls
    <2> QED BY <2>1 DEF PassesLock
  <1> QED BY <1>1, <1>2 DEF PassesLock, PassesTypes, passesUnchanged, LeavesThread,
             bindingVars, serviceVars

\* So do interrupts.
LEMMA InterruptTypes ==
    ASSUME TypeOK, NEW x \in Contexts, Interrupt(x) PROVE TypeOK'
  <1>1. interrupts' \in 0..MaxInterrupts /\ interrupts + 1 \in 1..MaxInterrupts
    <2>1. Interrupted
      BY Zenon DEF Interrupt, InitializeInterrupted, ConstructorInterrupted,
         JoinInterrupted, LockInterrupted
    <2> QED BY <2>1, ClientAssumption DEF Interrupted, TypeOK
  <1>2. CASE \E served \in BOOLEAN : InitializeInterrupted(x, served)
    BY <1>1, <1>2 DEF InitializeInterrupted, threadVars, callVars, serviceVars, TypeOK
  <1>3. CASE ConstructorInterrupted(x)
    BY <1>1, <1>3 DEF ConstructorInterrupted, LeavesThread, callVars, serviceVars,
       bindingVars, TypeOK
  <1>4. CASE JoinInterrupted(x)
    <2>1. strays' \subseteq Strays
      <3>1. CASE StrayWorker(x) = {}
        BY <1>4, <3>1 DEF JoinInterrupted, TypeOK
      <3>2. CASE call[x].kind = "openSession"
        <4>1. call[x] \in Calls
          BY <3>2 DEF NoCall, TypeOK
        <4>2. call[x].sid \in Sids /\ (pc[x] = "calling") \in BOOLEAN
          BY <4>1 DEF Calls
        <4>3. ASSUME NEW b \in BOOLEAN
              PROVE  [n |-> interrupts + 1, sid |-> call[x].sid, sent |-> b] \in Strays
          BY <1>1, <4>2 DEF Strays
        <4>4. [n |-> interrupts + 1, sid |-> call[x].sid, sent |-> pc[x] = "calling"]
                 \in Strays
          BY <4>2, <4>3, Zenon
        <4>5. StrayWorker(x) \subseteq Strays
          BY <4>4, Zenon DEF StrayWorker
        <4> QED BY <1>4, <4>5 DEF JoinInterrupted, TypeOK
      <3> QED BY <3>1, <3>2 DEF StrayWorker
    <2> QED BY <1>1, <1>4, <2>1 DEF JoinInterrupted, LeavesThread, unlock, serviceVars,
               bindingVars, TypeOK
  <1>5. CASE LockInterrupted(x)
    <2>1. PassesTypes' /\ UNCHANGED passesUnchanged
      BY <1>5, PassesLockTypes DEF LockInterrupted
    <2> QED BY <1>1, <1>5, <2>1 DEF LockInterrupted, PassesTypes, passesUnchanged,
               unlock, TypeOK
  <1> QED BY <1>2, <1>3, <1>4, <1>5 DEF Interrupt

\* So do the workers that interrupts leave behind.
LEMMA StrayTypes == ASSUME TypeOK, StraySteps PROVE TypeOK'
  <1> USE DEF TypeOK
  <1>1. ASSUME NEW w \in strays, RunStray(w) PROVE TypeOK'
    <2>1. w \in Strays
      OBVIOUS
    <2>2. [w EXCEPT !.sent = TRUE] \in Strays
      BY <2>1 DEF Strays
    <2>3. strays' \subseteq Strays
      BY <1>1, <2>2 DEF RunStray
    <2> QED BY <1>1, <2>3 DEF RunStray, threadVars, callVars, serviceVars, bindingVars
  <1>2. ASSUME NEW w \in strays, HandleStray(w) PROVE TypeOK'
    <2>1. w.sid \in Sids
      BY DEF Strays
    <2>2. callerSessions' \in [Sids -> 0..MaxSessions]
      <3>1. CASE UNCHANGED callerSessions
        BY <3>1
      <3>2. CASE /\ callerSessions[w.sid] < MaxSessions
                 /\ callerSessions' = [callerSessions EXCEPT ![w.sid] = @ + 1]
        BY <3>2, <2>1, ClientAssumption
      <3> QED BY <1>2, <3>1, <3>2 DEF HandleStray
    <2> QED BY <1>2, <2>2 DEF HandleStray, threadVars, callVars, bindingVars
  <1> QED BY <1>1, <1>2 DEF StraySteps

\* So do the steps of a session call.
LEMMA CallTypesKept ==
    ASSUME TypeOK, NEW x \in Contexts,
           \/ \E k \in {"openSession", "invokeCommand"}, sid \in Sids, op \in Ops :
                 Begin(x, k, sid, op)
           \/ RunTask(x) \/ HandleOpenSession(x) \/ HandleInvokeCommand(x)
           \/ syncOperation(x) \/ TaskEnds(x)
           \/ \E fits \in BOOLEAN : CallReturns(x, fits)
    PROVE  TypeOK'
  <1> USE DEF TypeOK
  <1>2. CASE \E k \in {"openSession", "invokeCommand"}, sid \in Sids, op \in Ops :
                 Begin(x, k, sid, op)
    <2>1. PICK k \in {"openSession", "invokeCommand"}, sid \in Sids, op \in Ops :
                 Begin(x, k, sid, op)
      BY <1>2
    <2>2. [kind |-> k, sid |-> sid, op |-> op] \in Calls
      BY DEF Calls
    <2>3. started' \in [Operations -> {0, 1}]
      BY <2>1 DEF Begin, setStarted
    <2>4. pc' \in [Contexts -> InCall \cup {"none", "constructing", "ready"}]
          /\ call' \in [Contexts -> Calls \cup {NoCall}]
          /\ main' \in Contexts \cup {Nobody}
      BY <2>1, <2>2 DEF Begin, EntersThread, InCall
    <2> QED BY <2>1, <2>3, <2>4 DEF Begin, serviceVars, bindingVars
  <1>3. CASE RunTask(x)
    BY <1>3 DEF RunTask, lock, InCall, serviceVars, bindingVars
  <1>4. CASE HandleOpenSession(x)
    <2>1. callerSessions' \in [Sids -> 0..MaxSessions]
      <3>1. CASE UNCHANGED callerSessions
        BY <3>1
      <3>2. CASE /\ callerSessions[call[x].sid] < MaxSessions
                 /\ callerSessions' = [callerSessions EXCEPT ![call[x].sid] = @ + 1]
        <4>1. call[x] \in Calls
          BY <1>4 DEF HandleOpenSession, NoCall
        <4> QED BY <3>2, <4>1, ClientAssumption DEF Calls
      <3> QED BY <1>4, <3>1, <3>2 DEF HandleOpenSession
    <2>2. \E rc \in ReturnCodes, b \in BOOLEAN : Answer(x, rc, b)
      BY <1>4 DEF HandleOpenSession, ReturnCodes
    <2>3. pc' \in [Contexts -> InCall \cup {"none", "constructing", "ready"}]
          /\ rv' \in [Contexts -> ReturnCodes \cup {NoValue}] /\ syncs' \subseteq Contexts
      BY <2>2 DEF Answer, InCall
    <2> QED BY <1>4, <2>1, <2>3 DEF HandleOpenSession, bindingVars
  <1>5. CASE HandleInvokeCommand(x)
    <2>2. \E rc \in ReturnCodes, b \in BOOLEAN : Answer(x, rc, b)
      BY <1>5 DEF HandleInvokeCommand, ReturnCodes
    <2>3. pc' \in [Contexts -> InCall \cup {"none", "constructing", "ready"}]
          /\ rv' \in [Contexts -> ReturnCodes \cup {NoValue}] /\ syncs' \subseteq Contexts
      BY <2>2 DEF Answer, InCall
    <2> QED BY <1>5, <2>3 DEF HandleInvokeCommand, bindingVars, serviceVars
  <1>6. CASE syncOperation(x)
    BY <1>6 DEF syncOperation, unlock, bindingVars, serviceVars
  <1>7. CASE TaskEnds(x)
    BY <1>7 DEF TaskEnds, InCall, callVars, bindingVars, serviceVars
  <1>8. CASE \E fits \in BOOLEAN : CallReturns(x, fits)
    <2>1. PICK fits \in BOOLEAN : CallReturns(x, fits)
      BY <1>8
    <2>2. PassesTypes' /\ UNCHANGED passesUnchanged
      BY <2>1, PassesLockTypes DEF CallReturns
    <2> QED BY <2>1, <2>2 DEF CallReturns, PassesTypes, passesUnchanged
  <1> QED BY <1>2, <1>3, <1>4, <1>5, <1>6, <1>7, <1>8

\* So do the calls of one transaction.
LEMMA TransactionTypes ==
    ASSUME TypeOK, NEW x \in Contexts,
           \/ \E sid \in Sids : CloseSession(x, sid)
           \/ \E smid \in SmIds : MemoryCall(x, smid)
    PROVE  TypeOK'
  <1> USE DEF TypeOK
  <1>1. CASE \E sid \in Sids : CloseSession(x, sid)
    BY <1>1, ClientAssumption DEF CloseSession, removeSessionBySid, callVars, bindingVars
  <1>2. ASSUME NEW smid \in SmIds, NEW rc, RegisterSharedMemory(x, smid, rc)
        PROVE  TypeOK'
    <2>1. callerMemory' \in [SmIds -> 0..MaxMemory]
          /\ mSharedMemory' \in [Contexts -> SUBSET SmIds]
      BY <1>2, ClientAssumption DEF RegisterSharedMemory
    <2> QED BY <1>2, <2>1 DEF RegisterSharedMemory, memoryCallUnchanged, callVars, bindingVars
  <1>3. ASSUME NEW smid \in SmIds, NEW y \in Contexts, ReleaseSharedMemory(x, y, smid)
        PROVE  TypeOK'
    <2>1. callerMemory' \in [SmIds -> 0..MaxMemory]
          /\ mSharedMemory' \in [Contexts -> SUBSET SmIds]
      BY <1>3, ClientAssumption DEF ReleaseSharedMemory, removeSharedMemoryBySmId
    <2> QED BY <1>3, <2>1 DEF ReleaseSharedMemory, memoryCallUnchanged, callVars, bindingVars
  <1> QED BY <1>1, <1>2, <1>3 DEF MemoryCall

\* Every variable of the client model keeps its type.
LEMMA TypeInduction == ASSUME TypeOK, [Next]_vars PROVE TypeOK'
  <1>1. CASE UNCHANGED vars
    BY <1>1 DEF vars, threadVars, callVars, serviceVars, bindingVars, TypeOK
  <1>2. CASE \E late \in SUBSET Contexts : ServiceDies(late)
    BY <1>2, DeathTypes
  <1>3. CASE \E recorded \in BOOLEAN : AbandonedConnected(recorded)
    BY <1>3 DEF AbandonedConnected, Initialized, threadVars, callVars, TypeOK
  <1>4. ASSUME NEW x \in Contexts, Proceed(x) PROVE TypeOK'
    BY <1>4, ConnectionTypes, CallTypesKept DEF Proceed
  <1>5. ASSUME NEW x \in Contexts,
               \/ \E served \in BOOLEAN : InitializeContext(x, served)
               \/ FinalizeContext(x)
               \/ \E sid \in Sids : CloseSession(x, sid)
               \/ \E smid \in SmIds : MemoryCall(x, smid)
        PROVE  TypeOK'
    BY <1>5, ConnectionTypes, FinalizeTypes, TransactionTypes
  <1>6. ASSUME NEW x \in Contexts, NEW sid \in Sids, NEW op \in Ops,
               OpenSession(x, sid, op) \/ InvokeCommand(x, sid, op)
        PROVE  TypeOK'
    BY <1>6, CallTypesKept DEF OpenSession, InvokeCommand
  <1>7. ASSUME NEW x \in Contexts, Interrupt(x) PROVE TypeOK'
    BY <1>7, InterruptTypes
  <1>8. CASE StraySteps
    BY <1>8, StrayTypes
  <1> QED BY <1>1, <1>2, <1>3, <1>4, <1>5, <1>6, <1>7, <1>8
          DEF Next, MemoryCall, StraySteps

\* The process starts without contexts and without a record in the service.
LEMMA InitTypes == ASSUME Init PROVE TypeOK
  <1>1. NoSessions \in [Sids -> 0..MaxSessions] /\ NoMemory \in [SmIds -> 0..MaxMemory]
    BY ClientAssumption DEF NoSessions, NoMemory
  <1>2. deaths \in 0..MaxDeaths /\ interrupts \in 0..MaxInterrupts
    BY ClientAssumption DEF Init
  <1> QED BY <1>1, <1>2 DEF Init, TypeOK

\* The client library keeps to its types over deaths of the service and any
\* interleaving of calls: no counter of the service leaves its bounds.
THEOREM ClientTypes == Spec => []TypeOK
  <1>1. Init => TypeOK
    BY InitTypes
  <1>2. TypeOK /\ [Next]_vars => TypeOK'
    BY TypeInduction
  <1> QED BY <1>1, <1>2, PTL DEF Spec
-----------------------------------------------------------------------------
(* Resources of the service that a context of the process can name.        *)

\* What the bookkeeping of both sides agrees on: without a record of the process
\* there is nothing under it, a thread that has no answer yet has no return
\* value, and a session that is being opened is not in the map of its context.
RecordInv == ~caller => callerSessions = NoSessions /\ callerMemory = NoMemory

ThreadInv(x) ==
    /\ pc[x] \notin {"handled", "joined"} => rv[x] = NoValue
    /\ pc[x] \in InCall /\ call[x].kind = "openSession"
          => call[x].sid \notin mSessionMap[x]

ResourceInv == TypeOK /\ RecordInv /\ \A x \in Contexts : ThreadInv(x)

\* The count of the unreachable does not grow when the service gains no more
\* than the contexts do.
LEMMA UnreachableFacts ==
    ASSUME NEW S, NEW T, IsFiniteSet(S), IsFiniteSet(T), NEW n \in Nat, NEW p \in Nat,
           p = 0 \/ p - n <= Cardinality(T) - Cardinality(S)
    PROVE  ~(Unreachable(p, T) > Unreachable(n, S))
  <1>1. Cardinality(S) \in Nat /\ Cardinality(T) \in Nat
    BY FS_CardinalityType
  <1> QED BY <1>1 DEF Unreachable

\* The contexts that name a shared memory.
MemoryHolders(smid) == {x \in Contexts : smid \in mSharedMemory[x]}

\* They are finitely many, now and next.
LEMMA MemoryHoldersFinite ==
    ASSUME NEW smid
    PROVE  IsFiniteSet(MemoryHolders(smid)) /\ IsFiniteSet(MemoryHolders(smid)')
  BY ClientAssumption, FS_Subset DEF MemoryHolders

\* A registration adds as many names as buffers.
LEMMA RegisterReaches ==
    ASSUME TypeOK, NEW x \in Contexts, NEW smid \in SmIds, NEW rc,
           RegisterSharedMemory(x, smid, rc), NEW m \in SmIds
    PROVE  ~(UnreachableMemory(m)' > UnreachableMemory(m))
  <1> DEFINE S == MemoryHolders(m)
             T == MemoryHolders(m)'
  <1>1. IsFiniteSet(S) /\ IsFiniteSet(T)
    BY MemoryHoldersFinite
  <1>2. callerMemory[m] \in Nat /\ callerMemory'[m] \in Nat
    BY ClientAssumption DEF TypeOK, RegisterSharedMemory
  <1>3. callerMemory'[m] - callerMemory[m] <= Cardinality(T) - Cardinality(S)
    <2>1. CASE UNCHANGED <<mSharedMemory, callerMemory>>
      <3>1. S = T
        BY <2>1 DEF MemoryHolders
      <3> QED BY <2>1, <3>1, <1>1, <1>2, FS_CardinalityType
    <2>2. CASE /\ mSharedMemory' = [mSharedMemory EXCEPT ![x] = @ \cup {smid}]
               /\ callerMemory' = [callerMemory EXCEPT ![smid] =
                                     IF rc = "SUCCESS" THEN @ + 1 ELSE @]
      <3>1. CASE m = smid
        <4>1. x \notin S
          BY <3>1 DEF MemoryHolders, RegisterSharedMemory
        <4>2. T = S \cup {x}
          BY <2>2, <3>1 DEF MemoryHolders, TypeOK
        <4>3. Cardinality(T) = Cardinality(S) + 1
          BY <4>1, <4>2, <1>1, FS_AddElement
        <4>4. callerMemory'[m] <= callerMemory[m] + 1
          BY <2>2, <3>1, <1>2 DEF TypeOK
        <4> QED BY <4>3, <4>4, <1>1, <1>2, FS_CardinalityType
      <3>2. CASE m # smid
        <4>1. T = S
          BY <2>2, <3>2 DEF MemoryHolders, TypeOK
        <4>2. callerMemory'[m] = callerMemory[m]
          BY <2>2, <3>2 DEF TypeOK
        <4> QED BY <4>1, <4>2, <1>1, <1>2, FS_CardinalityType
      <3> QED BY <3>1, <3>2
    <2> QED BY <2>1, <2>2 DEF RegisterSharedMemory
  <1>4. ~(Unreachable(callerMemory'[m], T) > Unreachable(callerMemory[m], S))
    BY <1>1, <1>2, <1>3, UnreachableFacts
  <1> QED BY <1>4 DEF UnreachableMemory, MemoryHolders, Unreachable

\* A release takes a buffer with the name, or a buffer alone, or, when there is
\* no buffer, a name.
LEMMA ReleaseReaches ==
    ASSUME ResourceInv, NEW x \in Contexts, NEW y \in Contexts, NEW smid \in SmIds,
           ReleaseSharedMemory(x, y, smid), NEW m \in SmIds
    PROVE  ~(UnreachableMemory(m)' > UnreachableMemory(m))
  <1> DEFINE S == MemoryHolders(m)
             T == MemoryHolders(m)'
  <1>0. TypeOK
    BY DEF ResourceInv
  <1>1. IsFiniteSet(S) /\ IsFiniteSet(T)
    BY MemoryHoldersFinite
  <1>2. callerMemory[m] \in Nat /\ callerMemory'[m] \in Nat
    BY <1>0, ClientAssumption DEF TypeOK, ReleaseSharedMemory, removeSharedMemoryBySmId
  <1>3. \/ callerMemory'[m] = 0
        \/ callerMemory'[m] - callerMemory[m] <= Cardinality(T) - Cardinality(S)
    <2>1. CASE UNCHANGED <<mSharedMemory, callerMemory>>
      <3>1. S = T
        BY <2>1 DEF MemoryHolders
      <3> QED BY <2>1, <3>1, <1>1, <1>2, FS_CardinalityType
    <2>2. CASE /\ callerMemory' = removeSharedMemoryBySmId(smid)
               /\ mSharedMemory' = IF y = x THEN [mSharedMemory EXCEPT ![x] = @ \ {smid}]
                                  ELSE mSharedMemory
      <3>1. CASE m # smid
        <4>1. T = S
          BY <2>2, <3>1, <1>0 DEF MemoryHolders, TypeOK
        <4>2. callerMemory'[m] = callerMemory[m]
          BY <2>2, <3>1, <1>0 DEF TypeOK, removeSharedMemoryBySmId
        <4> QED BY <4>1, <4>2, <1>1, <1>2, FS_CardinalityType
      <3>2. CASE m = smid /\ caller /\ callerMemory[m] > 0
        <4>1. callerMemory'[m] = callerMemory[m] - 1
          BY <2>2, <3>2, <1>0 DEF TypeOK, removeSharedMemoryBySmId
        <4>2. T = S \/ T = S \ {x}
          BY <2>2, <3>2, <1>0 DEF MemoryHolders, TypeOK
        <4>3. Cardinality(T) >= Cardinality(S) - 1
          BY <4>2, <1>1, FS_RemoveElement, FS_CardinalityType
        <4> QED BY <4>1, <4>3, <1>1, <1>2, FS_CardinalityType
      <3>3. CASE m = smid /\ ~(caller /\ callerMemory[m] > 0)
        <4>1. callerMemory'[m] = callerMemory[m]
          BY <2>2, <3>3 DEF removeSharedMemoryBySmId
        <4>2. callerMemory[m] = 0
          BY <3>3, <1>2 DEF ResourceInv, RecordInv, NoMemory
        <4> QED BY <4>1, <4>2
      <3> QED BY <3>1, <3>2, <3>3
    <2> QED BY <2>1, <2>2 DEF ReleaseSharedMemory
  <1>4. ~(Unreachable(callerMemory'[m], T) > Unreachable(callerMemory[m], S))
    BY <1>1, <1>2, <1>3, UnreachableFacts
  <1> QED BY <1>4 DEF UnreachableMemory, MemoryHolders, Unreachable

\* Steps that leave a context's thread alone keep its part.
LEMMA ThreadStutters ==
    ASSUME NEW y \in Contexts, ThreadInv(y), pc'[y] = pc[y], rv'[y] = rv[y],
           call'[y] = call[y], mSessionMap'[y] = mSessionMap[y]
    PROVE  ThreadInv(y)'
  BY DEF ThreadInv

\* The record and what is under it come and go together.
LEMMA RecordStep ==
    ASSUME TypeOK, RecordInv, [Next]_vars PROVE RecordInv'
  <1>1. CASE UNCHANGED serviceVars
    BY <1>1 DEF RecordInv, serviceVars
  <1>2. CASE \E late \in SUBSET Contexts : ServiceDies(late)
    BY <1>2, Zenon DEF ServiceDies, RecordInv
  <1>3. CASE \E recorded \in BOOLEAN : AbandonedConnected(recorded)
    BY <1>3 DEF AbandonedConnected, Initialized, RecordInv
  <1>4. ASSUME NEW x \in Contexts, NEW recorded \in BOOLEAN,
               onServiceConnected(x, recorded)
        PROVE  RecordInv'
    BY <1>4 DEF onServiceConnected, Initialized, RecordInv
  <1>5. ASSUME NEW x \in Contexts, HandleOpenSession(x) PROVE RecordInv'
    BY <1>5 DEF HandleOpenSession, RecordInv
  <1>6. ASSUME NEW x \in Contexts, FinalizeContext(x) PROVE RecordInv'
    BY <1>6 DEF FinalizeContext, GuardFinalizes, serviceVars, RecordInv
  <1>7. ASSUME NEW x \in Contexts, NEW sid \in Sids, CloseSession(x, sid)
        PROVE  RecordInv'
    BY <1>7 DEF CloseSession, removeSessionBySid, RecordInv
  <1>8. ASSUME NEW x \in Contexts, NEW smid \in SmIds, MemoryCall(x, smid)
        PROVE  RecordInv'
    BY <1>8 DEF MemoryCall, RegisterSharedMemory, ReleaseSharedMemory,
                removeSharedMemoryBySmId, memoryCallUnchanged, RecordInv
  <1>9. CASE \E x \in Contexts :
               \/ onServiceDisconnected(x) \/ ContextReturns(x) \/ RunTask(x)
               \/ HandleInvokeCommand(x) \/ syncOperation(x) \/ TaskEnds(x)
               \/ \E fits \in BOOLEAN : CallReturns(x, fits)
               \/ \E served \in BOOLEAN : InitializeContext(x, served)
               \/ \E sid \in Sids, op \in Ops :
                     OpenSession(x, sid, op) \/ InvokeCommand(x, sid, op)
    <2> PICK x \in Contexts :
               \/ onServiceDisconnected(x) \/ ContextReturns(x) \/ RunTask(x)
               \/ HandleInvokeCommand(x) \/ syncOperation(x) \/ TaskEnds(x)
               \/ \E fits \in BOOLEAN : CallReturns(x, fits)
               \/ \E served \in BOOLEAN : InitializeContext(x, served)
               \/ \E sid \in Sids, op \in Ops :
                     OpenSession(x, sid, op) \/ InvokeCommand(x, sid, op)
      BY <1>9, Zenon
    <2>1. CASE onServiceDisconnected(x) \/ ContextReturns(x) \/ RunTask(x)
      BY <2>1, <1>1, Zenon DEF onServiceDisconnected, ContextReturns, RunTask
    <2>2. CASE HandleInvokeCommand(x) \/ syncOperation(x) \/ TaskEnds(x)
      BY <2>2, <1>1, Zenon DEF HandleInvokeCommand, syncOperation, TaskEnds
    <2>3. CASE \E fits \in BOOLEAN : CallReturns(x, fits)
      BY <2>3, <1>1, Zenon DEF CallReturns, PassesLock
    <2>4. CASE \E served \in BOOLEAN : InitializeContext(x, served)
      BY <2>4, <1>1, Zenon DEF InitializeContext
    <2>5. CASE \E sid \in Sids, op \in Ops :
                  OpenSession(x, sid, op) \/ InvokeCommand(x, sid, op)
      BY <2>5, <1>1, Zenon DEF OpenSession, InvokeCommand, Begin
    <2> QED BY <2>1, <2>2, <2>3, <2>4, <2>5
  <1>10. CASE UNCHANGED vars
    BY <1>10, <1>1 DEF vars
  <1>11. ASSUME NEW x \in Contexts, Interrupt(x) PROVE RecordInv'
    BY <1>11, <1>1, Zenon DEF Interrupt, InitializeInterrupted, ConstructorInterrupted,
       JoinInterrupted, LockInterrupted, PassesLock
  <1>12. CASE StraySteps
    BY <1>12 DEF StraySteps, RunStray, HandleStray, serviceVars, RecordInv
  <1> QED BY <1>2, <1>3, <1>4, <1>5, <1>6, <1>7, <1>8, <1>9, <1>10, <1>11, <1>12
          DEF Next, Proceed, MemoryCall, StraySteps

\* No step breaks what is known of a thread.
LEMMA ThreadStep ==
    ASSUME TypeOK, \A y \in Contexts : ThreadInv(y), [Next]_vars, NEW y \in Contexts
    PROVE  ThreadInv(y)'
  <1>1. CASE UNCHANGED <<pc, rv, call, mSessionMap>>
    BY <1>1, ThreadStutters
  <1>2. CASE \E late \in SUBSET Contexts : ServiceDies(late)
    <2>1. /\ pc'[y] = IF pc[y] \in {"calling", "handled"} THEN "joined" ELSE pc[y]
          /\ rv'[y] = IF pc[y] \in {"calling", "handled"} THEN NoValue ELSE rv[y]
          /\ UNCHANGED <<call, mSessionMap>>
      BY <1>2 DEF ServiceDies
    <2> QED BY <2>1 DEF ThreadInv, InCall
  <1>3. ASSUME NEW x \in Contexts,
               \/ \E served \in BOOLEAN : InitializeContext(x, served)
               \/ ContextReturns(x) \/ ConstructorInterrupted(x)
               \/ FinalizeContext(x) /\ mService[x] # "dead"
        PROVE  ThreadInv(y)'
    <2>1. /\ pc[x] \in {"none", "constructing", "ready"}
          /\ \E p \in {"none", "constructing", "ready"} : pc' = [pc EXCEPT ![x] = p]
          /\ UNCHANGED <<call, rv>>
          /\ \A z \in Contexts : z # x => mSessionMap'[z] = mSessionMap[z]
      BY <1>3 DEF InitializeContext, ContextReturns, ConstructorInterrupted,
         FinalizeContext, callVars, TypeOK
    <2>2. CASE y = x
      BY <2>1, <2>2 DEF ThreadInv, TypeOK, InCall
    <2>3. CASE y # x
      BY <2>1, <2>3, ThreadStutters DEF TypeOK
    <2> QED BY <2>2, <2>3
  <1>4. ASSUME NEW x \in Contexts, NEW sid \in Sids, NEW op \in Ops,
               OpenSession(x, sid, op) \/ InvokeCommand(x, sid, op)
        PROVE  ThreadInv(y)'
    <2>1. CASE UNCHANGED <<pc, call>>
      BY <1>4, <2>1, <1>1 DEF OpenSession, InvokeCommand, Begin
    <2>2. CASE \E k \in {"openSession", "invokeCommand"} :
                 /\ pc[x] = "ready" /\ pc' = [pc EXCEPT ![x] = "spawned"]
                 /\ call' = [call EXCEPT ![x] = [kind |-> k, sid |-> sid, op |-> op]]
                 /\ k = "openSession" => sid \notin mSessionMap[x]
                 /\ UNCHANGED <<rv, mSessionMap>>
      <3>1. CASE y = x
        BY <2>2, <3>1 DEF ThreadInv, TypeOK
      <3>2. CASE y # x
        BY <2>2, <3>2, ThreadStutters DEF TypeOK
      <3> QED BY <3>1, <3>2
    <2> QED BY <1>4, <2>1, <2>2 DEF OpenSession, InvokeCommand, Begin
  <1>5. ASSUME NEW x \in Contexts, RunTask(x) PROVE ThreadInv(y)'
    <2>1. /\ pc[x] = "spawned"
          /\ \E p \in {"calling", "joined"} : pc' = [pc EXCEPT ![x] = p]
          /\ UNCHANGED <<call, rv, mSessionMap>>
      BY <1>5 DEF RunTask
    <2>2. CASE y = x
      BY <2>1, <2>2 DEF ThreadInv, TypeOK, InCall
    <2>3. CASE y # x
      BY <2>1, <2>3, ThreadStutters DEF TypeOK
    <2> QED BY <2>2, <2>3
  <1>6. ASSUME NEW x \in Contexts, HandleOpenSession(x) \/ HandleInvokeCommand(x)
        PROVE  ThreadInv(y)'
    <2>1. /\ pc[x] = "calling"
          /\ pc' = [pc EXCEPT ![x] = "handled"]
          /\ \E rc \in ReturnCodes : rv' = [rv EXCEPT ![x] = rc]
          /\ UNCHANGED <<call, mSessionMap>>
      BY <1>6 DEF HandleOpenSession, HandleInvokeCommand, Answer, ReturnCodes
    <2>2. CASE y = x
      BY <2>1, <2>2 DEF ThreadInv, TypeOK, InCall
    <2>3. CASE y # x
      BY <2>1, <2>3, ThreadStutters DEF TypeOK
    <2> QED BY <2>2, <2>3
  <1>7. ASSUME NEW x \in Contexts, TaskEnds(x) PROVE ThreadInv(y)'
    <2>1. /\ pc[x] = "handled"
          /\ pc' = [pc EXCEPT ![x] = "joined"]
          /\ UNCHANGED <<call, rv, mSessionMap>>
      BY <1>7 DEF TaskEnds, callVars
    <2>2. CASE y = x
      BY <2>1, <2>2 DEF ThreadInv, TypeOK, InCall
    <2>3. CASE y # x
      BY <2>1, <2>3, ThreadStutters DEF TypeOK
    <2> QED BY <2>2, <2>3
  <1>8. ASSUME NEW x \in Contexts,
               \/ \E fits \in BOOLEAN : CallReturns(x, fits)
               \/ JoinInterrupted(x) \/ LockInterrupted(x)
        PROVE  ThreadInv(y)'
    <2>1. /\ pc' = [pc EXCEPT ![x] = "ready"]
          /\ rv' = [rv EXCEPT ![x] = NoValue]
          /\ call' = [call EXCEPT ![x] = NoCall]
          /\ \A z \in Contexts : z # x => mSessionMap'[z] = mSessionMap[z]
      BY <1>8 DEF CallReturns, JoinInterrupted, LockInterrupted, PassesLock, TypeOK
    <2>2. CASE y = x
      BY <2>1, <2>2 DEF ThreadInv, TypeOK, InCall
    <2>3. CASE y # x
      BY <2>1, <2>3, ThreadStutters DEF TypeOK
    <2> QED BY <2>2, <2>3
  <1>9. ASSUME NEW x \in Contexts, NEW sid \in Sids, CloseSession(x, sid)
        PROVE  ThreadInv(y)'
    <2>1. /\ pc[x] = "ready" /\ UNCHANGED <<pc, call, rv>>
          /\ \A z \in Contexts : z # x => mSessionMap'[z] = mSessionMap[z]
      BY <1>9 DEF CloseSession, callVars, TypeOK
    <2>2. CASE y = x
      BY <2>1, <2>2 DEF ThreadInv, InCall
    <2>3. CASE y # x
      BY <2>1, <2>3, ThreadStutters
    <2> QED BY <2>2, <2>3
  <1>10. CASE \E x \in Contexts :
               \/ onServiceDisconnected(x) \/ syncOperation(x)
               \/ \E recorded \in BOOLEAN :
                     onServiceConnected(x, recorded) \/ AbandonedConnected(recorded)
               \/ FinalizeContext(x) /\ mService[x] = "dead"
               \/ \E smid \in SmIds : MemoryCall(x, smid)
    <2>1. UNCHANGED <<pc, rv, call, mSessionMap>>
      BY <1>10 DEF onServiceDisconnected, syncOperation, onServiceConnected,
         AbandonedConnected, FinalizeContext, MemoryCall, RegisterSharedMemory,
         ReleaseSharedMemory, memoryCallUnchanged, threadVars, callVars
    <2> QED BY <2>1, <1>1
  <1>11. CASE \E recorded \in BOOLEAN : AbandonedConnected(recorded)
    BY <1>11, <1>1 DEF AbandonedConnected, threadVars, callVars
  <1>12. CASE UNCHANGED vars
    BY <1>12, <1>1 DEF vars, threadVars, callVars
  <1>13. ASSUME NEW x \in Contexts, NEW served \in BOOLEAN, InitializeInterrupted(x, served)
         PROVE  ThreadInv(y)'
    BY <1>13, <1>1 DEF InitializeInterrupted, threadVars, callVars
  <1>14. CASE StraySteps
    BY <1>14, <1>1 DEF StraySteps, RunStray, HandleStray, threadVars, callVars
  <1> QED BY <1>2, <1>3, <1>4, <1>5, <1>6, <1>7, <1>8, <1>9, <1>10, <1>11, <1>12,
             <1>13, <1>14
          DEF Next, Proceed, Interrupt, MemoryCall, StraySteps

\* ResourceInv is inductive.
LEMMA ResourceInduction == Spec => []ResourceInv
  <1>1. Init => ResourceInv
    <2> SUFFICES ASSUME Init PROVE ResourceInv
      OBVIOUS
    <2>1. TypeOK
      BY InitTypes
    <2>2. RecordInv
      BY DEF Init, RecordInv
    <2>3. ASSUME NEW y \in Contexts PROVE ThreadInv(y)
      BY DEF Init, ThreadInv, InCall
    <2> QED BY <2>1, <2>2, <2>3 DEF ResourceInv
  <1>2. ResourceInv /\ [Next]_vars => ResourceInv'
    <2> SUFFICES ASSUME ResourceInv, [Next]_vars PROVE ResourceInv'
      OBVIOUS
    <2>1. TypeOK /\ RecordInv /\ \A y \in Contexts : ThreadInv(y)
      BY DEF ResourceInv
    <2>2. TypeOK'
      BY <2>1, TypeInduction
    <2>3. RecordInv'
      BY <2>1, RecordStep
    <2>4. \A y \in Contexts : ThreadInv(y)'
      BY <2>1, ThreadStep
    <2> QED BY <2>2, <2>3, <2>4 DEF ResourceInv
  <1> QED BY <1>1, <1>2, PTL DEF Spec

\* Any other step than the two shared memory calls leaves both sides alone, or
\* empties the service, or is the end of a context.
LEMMA OtherStepsReach ==
    ASSUME ResourceInv, ResourceInv', NEW m \in SmIds,
           UNCHANGED <<callerMemory, mSharedMemory>> \/ callerMemory' = NoMemory
    PROVE  ~(UnreachableMemory(m)' > UnreachableMemory(m))
  <1> DEFINE S == MemoryHolders(m)
             T == MemoryHolders(m)'
  <1>1. IsFiniteSet(S) /\ IsFiniteSet(T)
    BY MemoryHoldersFinite
  <1>2. callerMemory[m] \in Nat /\ callerMemory'[m] \in Nat
    BY ClientAssumption DEF ResourceInv, TypeOK
  <1>3. \/ callerMemory'[m] = 0
        \/ callerMemory'[m] - callerMemory[m] <= Cardinality(T) - Cardinality(S)
    <2>1. CASE callerMemory' = NoMemory
      BY <2>1 DEF NoMemory
    <2>2. CASE UNCHANGED <<callerMemory, mSharedMemory>>
      <3>1. S = T
        BY <2>2 DEF MemoryHolders
      <3> QED BY <2>2, <3>1, <1>1, <1>2, FS_CardinalityType
    <2> QED BY <2>1, <2>2
  <1>4. ~(Unreachable(callerMemory'[m], T) > Unreachable(callerMemory[m], S))
    BY <1>1, <1>2, <1>3, UnreachableFacts
  <1> QED BY <1>4 DEF UnreachableMemory, MemoryHolders, Unreachable

\* Shared memory in the service stays within reach of some context of the
\* process until a context is finalised.
THEOREM MemoryIsReachable == Spec => MemoryStaysReachable
  <1>1. ASSUME ResourceInv, ResourceInv', Next PROVE MemoryStaysReachableStep
    <2> USE DEF MemoryStaysReachableStep
    <2>0. TypeOK
      BY <1>1 DEF ResourceInv
    <2>1. CASE UNCHANGED <<callerMemory, mSharedMemory>> \/ callerMemory' = NoMemory
      BY <1>1, <2>1, OtherStepsReach
    <2>2. CASE \E late \in SUBSET Contexts : ServiceDies(late)
      <3>1. callerMemory' = NoMemory
        BY <2>2, Zenon DEF ServiceDies
      <3> QED BY <3>1, <2>1
    <2>3. ASSUME NEW x \in Contexts, FinalizeContext(x) PROVE MemoryStaysReachableStep
      <3>1. CASE mService[x] = "dead"
        BY <2>3, <3>1, <2>1 DEF FinalizeContext, serviceVars
      <3>2. CASE mService[x] # "dead"
        <4>1. pc[x] = "ready" /\ pc'[x] = "none"
          BY <2>3, <3>2, <2>0 DEF FinalizeContext, TypeOK
        <4> QED BY <4>1 DEF Finalizes
      <3> QED BY <3>1, <3>2
    <2>4. ASSUME NEW x \in Contexts, NEW smid \in SmIds, MemoryCall(x, smid)
          PROVE  MemoryStaysReachableStep
      BY <1>1, <2>0, <2>4, RegisterReaches, ReleaseReaches DEF MemoryCall
    <2>5. CASE \E x \in Contexts :
               \/ Proceed(x)
               \/ \E served \in BOOLEAN : InitializeContext(x, served)
               \/ \E sid \in Sids :
                     \/ CloseSession(x, sid)
                     \/ \E op \in Ops : OpenSession(x, sid, op) \/ InvokeCommand(x, sid, op)
      <3>1. PICK x \in Contexts :
               \/ Proceed(x)
               \/ \E served \in BOOLEAN : InitializeContext(x, served)
               \/ \E sid \in Sids :
                     \/ CloseSession(x, sid)
                     \/ \E op \in Ops : OpenSession(x, sid, op) \/ InvokeCommand(x, sid, op)
        BY <2>5
      <3>2. CASE \/ \E recorded \in BOOLEAN : onServiceConnected(x, recorded)
                 \/ onServiceDisconnected(x) \/ ContextReturns(x)
                 \/ \E served \in BOOLEAN : InitializeContext(x, served)
        BY <3>2, <2>1, Zenon DEF onServiceConnected, onServiceDisconnected, ContextReturns,
           InitializeContext, threadVars, serviceVars
      <3>3. CASE \/ RunTask(x) \/ HandleOpenSession(x) \/ HandleInvokeCommand(x)
                 \/ syncOperation(x) \/ TaskEnds(x)
                 \/ \E fits \in BOOLEAN : CallReturns(x, fits)
        <4>1. CASE RunTask(x) \/ HandleInvokeCommand(x) \/ syncOperation(x) \/ TaskEnds(x)
          BY <4>1, <2>1, Zenon DEF RunTask, HandleInvokeCommand, syncOperation, TaskEnds,
             serviceVars
        <4>2. CASE HandleOpenSession(x)
          BY <4>2, <2>1, Zenon DEF HandleOpenSession
        <4>3. CASE \E fits \in BOOLEAN : CallReturns(x, fits)
          BY <4>3, <2>1, Zenon DEF CallReturns, PassesLock, serviceVars
        <4> QED BY <3>3, <4>1, <4>2, <4>3
      <3>4. CASE \E sid \in Sids :
                     \/ CloseSession(x, sid)
                     \/ \E op \in Ops : OpenSession(x, sid, op) \/ InvokeCommand(x, sid, op)
        BY <3>4, <2>1, Zenon DEF CloseSession, OpenSession, InvokeCommand, Begin, serviceVars
      <3> QED BY <3>1, <3>2, <3>3, <3>4 DEF Proceed
    <2>6. CASE \E recorded \in BOOLEAN : AbandonedConnected(recorded)
      BY <2>6, <2>1 DEF AbandonedConnected, threadVars
    <2>7. ASSUME NEW x \in Contexts, Interrupt(x) PROVE MemoryStaysReachableStep
      BY <2>7, <2>1, Zenon DEF Interrupt, InitializeInterrupted, ConstructorInterrupted,
         JoinInterrupted, LockInterrupted, PassesLock, threadVars, serviceVars
    <2>8. CASE StraySteps
      BY <2>8, <2>1, Zenon DEF StraySteps, RunStray, HandleStray, threadVars, serviceVars
    <2> QED BY <1>1, <2>2, <2>3, <2>4, <2>5, <2>6, <2>7, <2>8
            DEF Next, MemoryCall, StraySteps
  <1>2. ResourceInv /\ ResourceInv' /\ [Next]_vars => [MemoryStaysReachableStep]_vars
    BY <1>1
  <1> QED BY <1>2, ResourceInduction, PTL DEF Spec, MemoryStaysReachable

\* Context x can name the session sid.
Names(x, sid) == sid \in mSessionMap[x] \/ (Opens(x, sid) /\ rv[x] = "SUCCESS")

SessionHolders(sid) == {x \in Contexts : Names(x, sid)}

\* The four ways in which a step may change both sides without making a session
\* unreachable.
LEMMA SessionsReach ==
    ASSUME ResourceInv, ResourceInv', NEW sid \in Sids,
           \/ callerSessions'[sid] = 0
           \/ /\ callerSessions'[sid] <= callerSessions[sid]
              /\ \A x \in Contexts : Names(x, sid) => Names(x, sid)'
           \/ /\ callerSessions'[sid] = callerSessions[sid] + 1
              /\ \A x \in Contexts : Names(x, sid) => Names(x, sid)'
              /\ \E x \in Contexts : ~Names(x, sid) /\ Names(x, sid)'
           \/ /\ callerSessions'[sid] = callerSessions[sid] - 1
              /\ \E x \in Contexts : \A y \in Contexts \ {x} : Names(y, sid) => Names(y, sid)'
    PROVE  ~(UnreachableSessions(sid)' > UnreachableSessions(sid))
  <1> DEFINE S == SessionHolders(sid)
             T == SessionHolders(sid)'
  <1>1. IsFiniteSet(S) /\ IsFiniteSet(T)
    BY ClientAssumption, FS_Subset DEF SessionHolders
  <1>2. callerSessions[sid] \in Nat /\ callerSessions'[sid] \in Nat
    BY ClientAssumption DEF ResourceInv, TypeOK
  <1>3. Cardinality(S) \in Nat /\ Cardinality(T) \in Nat
    BY <1>1, FS_CardinalityType
  <1>4. \/ callerSessions'[sid] = 0
        \/ callerSessions'[sid] - callerSessions[sid] <= Cardinality(T) - Cardinality(S)
    <2>1. CASE /\ callerSessions'[sid] <= callerSessions[sid]
               /\ \A x \in Contexts : Names(x, sid) => Names(x, sid)'
      <3>1. S \subseteq T
        BY <2>1 DEF SessionHolders
      <3>2. Cardinality(S) <= Cardinality(T)
        BY <3>1, <1>1, FS_Subset
      <3> QED BY <2>1, <3>2, <1>2, <1>3
    <2>2. CASE /\ callerSessions'[sid] = callerSessions[sid] + 1
               /\ \A x \in Contexts : Names(x, sid) => Names(x, sid)'
               /\ \E x \in Contexts : ~Names(x, sid) /\ Names(x, sid)'
      <3>1. PICK x \in Contexts : ~Names(x, sid) /\ Names(x, sid)'
        BY <2>2
      <3>2. x \notin S /\ S \cup {x} \subseteq T
        BY <2>2, <3>1 DEF SessionHolders
      <3>3. Cardinality(S \cup {x}) = Cardinality(S) + 1
        BY <3>2, <1>1, FS_AddElement
      <3>4. Cardinality(S \cup {x}) <= Cardinality(T)
        BY <3>2, <1>1, FS_Subset
      <3> QED BY <2>2, <3>3, <3>4, <1>2, <1>3
    <2>3. CASE /\ callerSessions'[sid] = callerSessions[sid] - 1
               /\ \E x \in Contexts : \A y \in Contexts \ {x} : Names(y, sid) => Names(y, sid)'
      <3>1. PICK x \in Contexts : \A y \in Contexts \ {x} : Names(y, sid) => Names(y, sid)'
        BY <2>3
      <3>2. S \ {x} \subseteq T
        BY <3>1 DEF SessionHolders
      <3>3. /\ IsFiniteSet(S \ {x})
            /\ Cardinality(S \ {x}) = IF x \in S THEN Cardinality(S) - 1 ELSE Cardinality(S)
        BY <1>1, FS_RemoveElement
      <3>4. Cardinality(S) - 1 <= Cardinality(T)
        BY <3>2, <3>3, <1>1, <1>3, FS_Subset
      <3> QED BY <2>3, <3>4, <1>2, <1>3
    <2> QED BY <2>1, <2>2, <2>3
  <1>5. ~(Unreachable(callerSessions'[sid], T) > Unreachable(callerSessions[sid], S))
    BY <1>1, <1>2, <1>4, UnreachableFacts
  <1> QED BY <1>5 DEF UnreachableSessions, SessionHolders, Names, Unreachable

\* A context whose call, return value and map a step leaves alone names what it
\* named.
LEMMA NamesKept ==
    ASSUME NEW x \in Contexts, NEW sid, call'[x] = call[x], rv'[x] = rv[x],
           mSessionMap'[x] = mSessionMap[x]
    PROVE  Names(x, sid) => Names(x, sid)'
  BY DEF Names, Opens

\* The answer to openSession: a session that the service has opened is named by
\* the return value on its way.
LEMMA OpenReaches ==
    ASSUME ResourceInv, ResourceInv', NEW x \in Contexts, HandleOpenSession(x),
           NEW sid \in Sids
    PROVE  ~(UnreachableSessions(sid)' > UnreachableSessions(sid))
  <1>0. TypeOK
    BY DEF ResourceInv
  <1>1. /\ pc[x] = "calling" /\ call[x].kind = "openSession"
        /\ \E rc \in ReturnCodes : rv' = [rv EXCEPT ![x] = rc]
        /\ UNCHANGED <<call, mSessionMap>>
    BY DEF HandleOpenSession, Answer, ReturnCodes
  <1>2. rv[x] = NoValue /\ call[x].sid \notin mSessionMap[x]
    BY <1>1 DEF ResourceInv, ThreadInv, InCall
  <1>3. \A y \in Contexts : Names(y, sid) => Names(y, sid)'
    <2> SUFFICES ASSUME NEW y \in Contexts PROVE Names(y, sid) => Names(y, sid)'
      OBVIOUS
    <2>1. CASE y = x
      BY <1>1, <1>2, <2>1 DEF Names, NoValue
    <2>2. CASE y # x
      BY <1>1, <2>2, <1>0, NamesKept DEF TypeOK
    <2> QED BY <2>1, <2>2
  <1>4. CASE UNCHANGED callerSessions
    <2>1. callerSessions'[sid] <= callerSessions[sid]
      BY <1>4, <1>0, ClientAssumption DEF TypeOK
    <2> QED BY <2>1, <1>3, SessionsReach
  <1>5. CASE /\ rv' = [rv EXCEPT ![x] = "SUCCESS"]
             /\ callerSessions' = [callerSessions EXCEPT ![call[x].sid] = @ + 1]
    <2>1. CASE sid # call[x].sid
      <3>1. callerSessions'[sid] = callerSessions[sid] /\ callerSessions[sid] \in Nat
        BY <1>5, <2>1, <1>0, ClientAssumption DEF TypeOK
      <3> QED BY <3>1, <1>3, SessionsReach
    <2>2. CASE sid = call[x].sid
      <3>1. callerSessions'[sid] = callerSessions[sid] + 1
        BY <1>5, <2>2, <1>0 DEF TypeOK
      <3>2. ~Names(x, sid)
        BY <1>2, <2>2 DEF Names, NoValue
      <3>3. Names(x, sid)'
        BY <1>1, <1>5, <2>2, <1>0 DEF Names, Opens, TypeOK
      <3> QED BY <3>1, <3>2, <3>3, <1>3, SessionsReach
    <2> QED BY <2>1, <2>2
  <1> QED BY <1>4, <1>5 DEF HandleOpenSession, Answer

\* The end of a call behind the lock, reached with it or by an interrupt:
\* openSession keeps a session that the service has opened, unless the operation
\* cannot be updated.
LEMMA ReturnReaches ==
    ASSUME ResourceInv, ResourceInv', NEW x \in Contexts, NEW fits \in BOOLEAN,
           PassesLock(x, fits), NEW sid \in Sids,
           ~(Opens(x, sid) /\ UpdateFails(x, FALSE))
    PROVE  ~(UnreachableSessions(sid)' > UnreachableSessions(sid))
  <1>0. TypeOK
    BY DEF ResourceInv
  <1>1. /\ rv' = [rv EXCEPT ![x] = NoValue] /\ call' = [call EXCEPT ![x] = NoCall]
        /\ UNCHANGED callerSessions
        /\ mSessionMap' = IF Ending(x, fits) = "session"
                          THEN [mSessionMap EXCEPT ![x] = @ \cup {call[x].sid}]
                          ELSE mSessionMap
    BY DEF PassesLock, serviceVars
  <1>2. \A y \in Contexts : Names(y, sid) => Names(y, sid)'
    <2> SUFFICES ASSUME NEW y \in Contexts, Names(y, sid) PROVE Names(y, sid)'
      OBVIOUS
    <2>1. CASE y # x
      <3>1. rv'[y] = rv[y] /\ call'[y] = call[y] /\ mSessionMap'[y] = mSessionMap[y]
        BY <1>1, <2>1, <1>0 DEF TypeOK
      <3> QED BY <3>1, NamesKept
    <2>2. CASE y = x /\ sid \in mSessionMap[x]
      <3>1. sid \in mSessionMap'[x]
        BY <1>1, <2>2, <1>0 DEF TypeOK
      <3> QED BY <2>2, <3>1 DEF Names
    <2>3. CASE y = x /\ Opens(x, sid) /\ rv[x] = "SUCCESS"
      <3>1. ~LosesReturnValue(x) /\ ~UpdateFails(x, fits)
        BY <2>3 DEF LosesReturnValue, UpdateFails, NoValue
      <3>2. Ending(x, fits) = "session"
        BY <2>3, <3>1 DEF Ending, Opens, NoValue
      <3>3. sid \in mSessionMap'[x]
        BY <1>1, <2>3, <3>2, <1>0 DEF TypeOK, Opens
      <3> QED BY <2>3, <3>3 DEF Names
    <2> QED BY <2>1, <2>2, <2>3 DEF Names
  <1>3. callerSessions'[sid] <= callerSessions[sid]
    BY <1>1, <1>0, ClientAssumption DEF TypeOK
  <1> QED BY <1>2, <1>3, SessionsReach

\* The closing of a session: the service loses one with the context's name, or
\* has none under that id.
LEMMA CloseReaches ==
    ASSUME ResourceInv, ResourceInv', NEW x \in Contexts, NEW s \in Sids,
           CloseSession(x, s), NEW sid \in Sids
    PROVE  ~(UnreachableSessions(sid)' > UnreachableSessions(sid))
  <1>0. TypeOK
    BY DEF ResourceInv
  <1>1. UNCHANGED <<rv, call>> /\ callerSessions[sid] \in Nat
    BY <1>0, ClientAssumption DEF CloseSession, callVars, TypeOK
  <1>2. CASE UNCHANGED <<mSessionMap, callerSessions>>
    <2>1. callerSessions'[sid] <= callerSessions[sid]
      BY <1>1, <1>2
    <2> QED BY <1>1, <1>2, <2>1, NamesKept, SessionsReach
  <1>3. CASE /\ mSessionMap' = [mSessionMap EXCEPT ![x] = @ \ {s}]
             /\ callerSessions' = removeSessionBySid(s)
    <2>1. CASE sid # s
      <3>1. callerSessions'[sid] <= callerSessions[sid]
        BY <1>1, <1>3, <2>1, <1>0 DEF removeSessionBySid, TypeOK
      <3>2. \A y \in Contexts : Names(y, sid) => Names(y, sid)'
        BY <1>1, <1>3, <2>1, <1>0 DEF Names, Opens, TypeOK
      <3> QED BY <3>1, <3>2, SessionsReach
    <2>2. CASE sid = s /\ caller /\ callerSessions[sid] > 0
      <3>1. callerSessions'[sid] = callerSessions[sid] - 1
        BY <1>3, <2>2, <1>0 DEF removeSessionBySid, TypeOK
      <3>2. \A y \in Contexts \ {x} : Names(y, sid) => Names(y, sid)'
        BY <1>1, <1>3, <1>0, NamesKept DEF TypeOK
      <3> QED BY <3>1, <3>2, SessionsReach
    <2>3. CASE sid = s /\ ~(caller /\ callerSessions[sid] > 0)
      <3>1. callerSessions[sid] = 0
        BY <2>3, <1>1 DEF ResourceInv, RecordInv, NoSessions
      <3>2. callerSessions'[sid] = 0
        BY <1>3, <2>3, <3>1 DEF removeSessionBySid
      <3> QED BY <3>2, SessionsReach
    <2> QED BY <2>1, <2>2, <2>3
  <1> QED BY <1>2, <1>3 DEF CloseSession

\* A call begins, or invokeCommand is answered: a context without a session of
\* its own on the way does not change what it names.
LEMMA ThreadMovesReach ==
    ASSUME ResourceInv, ResourceInv', NEW x \in Contexts, NEW sid \in Sids,
           ~(Opens(x, sid) /\ rv[x] = "SUCCESS"),
           \A y \in Contexts \ {x} : call'[y] = call[y] /\ rv'[y] = rv[y],
           UNCHANGED <<mSessionMap, callerSessions>>
    PROVE  ~(UnreachableSessions(sid)' > UnreachableSessions(sid))
  <1>1. \A y \in Contexts : Names(y, sid) => Names(y, sid)'
    <2> SUFFICES ASSUME NEW y \in Contexts PROVE Names(y, sid) => Names(y, sid)'
      OBVIOUS
    <2>1. CASE y = x
      BY <2>1 DEF Names
    <2>2. CASE y # x
      BY <2>2, NamesKept
    <2> QED BY <2>1, <2>2
  <1>2. callerSessions'[sid] <= callerSessions[sid]
    BY ClientAssumption DEF ResourceInv, TypeOK
  <1> QED BY <1>1, <1>2, SessionsReach

\* An interrupted join gives up the session that the call was opening, and
\* nothing else.
LEMMA JoinReaches ==
    ASSUME ResourceInv, ResourceInv', NEW x \in Contexts, JoinInterrupted(x),
           NEW sid \in Sids, ~Opens(x, sid)
    PROVE  ~(UnreachableSessions(sid)' > UnreachableSessions(sid))
  <1>1. /\ \A y \in Contexts \ {x} : call'[y] = call[y] /\ rv'[y] = rv[y]
        /\ UNCHANGED <<mSessionMap, callerSessions>>
    BY DEF JoinInterrupted, ResourceInv, TypeOK, serviceVars
  <1> QED BY <1>1, ThreadMovesReach

\* The guard handles the worker of an interrupted call: no other session is
\* touched.
LEMMA StrayReaches ==
    ASSUME ResourceInv, ResourceInv', NEW w \in strays, HandleStray(w),
           NEW sid \in Sids, w.sid # sid
    PROVE  ~(UnreachableSessions(sid)' > UnreachableSessions(sid))
  <1>1. UNCHANGED <<call, rv, mSessionMap>>
    BY DEF HandleStray, threadVars, callVars
  <1>2. callerSessions'[sid] <= callerSessions[sid]
    BY ClientAssumption DEF HandleStray, ResourceInv, TypeOK
  <1> QED BY <1>1, <1>2, NamesKept, SessionsReach

\* A session in the service stays within reach of some context of the process
\* until a context is finalised, the update of an operation fails or an interrupt
\* ends the call that opens it.
THEOREM SessionsAreReachable == Spec => SessionsStayReachable
  <1>1. ASSUME ResourceInv, ResourceInv', Next PROVE SessionsStayReachableStep
    <2> DEFINE Grows(s) == UnreachableSessions(s)' > UnreachableSessions(s)
    <2>0. TypeOK
      BY <1>1 DEF ResourceInv
    <2>1. CASE \A s \in Sids : ~Grows(s)
      BY <2>1 DEF SessionsStayReachableStep
    <2>2. CASE UNCHANGED <<call, rv, mSessionMap, callerSessions>>
      <3>1. \A s \in Sids : callerSessions'[s] <= callerSessions[s]
        BY <2>2, <2>0, ClientAssumption DEF TypeOK
      <3>2. \A s \in Sids : ~Grows(s)
        BY <1>1, <2>2, <3>1, NamesKept, SessionsReach
      <3> QED BY <2>1, <3>2
    <2>3. CASE \E late \in SUBSET Contexts : ServiceDies(late)
      <3>1. \A s \in Sids : callerSessions'[s] = 0
        BY <2>3 DEF ServiceDies, NoSessions
      <3> QED BY <1>1, <2>1, <3>1, SessionsReach
    <2>4. ASSUME NEW x \in Contexts, FinalizeContext(x) PROVE SessionsStayReachableStep
      <3>1. CASE mService[x] = "dead"
        BY <2>4, <3>1, <2>2 DEF FinalizeContext, serviceVars, callVars
      <3>2. CASE mService[x] # "dead"
        <4>1. pc[x] = "ready" /\ pc'[x] = "none"
          BY <2>4, <3>2, <2>0 DEF FinalizeContext, TypeOK
        <4> QED BY <4>1 DEF Finalizes, SessionsStayReachableStep
      <3> QED BY <3>1, <3>2
    <2>5. ASSUME NEW x \in Contexts, HandleOpenSession(x) PROVE SessionsStayReachableStep
      BY <1>1, <2>5, <2>1, OpenReaches
    <2>6. ASSUME NEW x \in Contexts, NEW s \in Sids, CloseSession(x, s)
          PROVE  SessionsStayReachableStep
      BY <1>1, <2>6, <2>1, CloseReaches
    <2>7. ASSUME NEW x \in Contexts, NEW fits \in BOOLEAN, CallReturns(x, fits)
          PROVE  SessionsStayReachableStep
      <3>1. \A s \in Sids : Grows(s) => Opens(x, s) /\ UpdateFails(x, FALSE)
        BY <1>1, <2>7, ReturnReaches DEF CallReturns
      <3>2. pc[x] = "joined" /\ pc'[x] = "ready"
        BY <2>7, <2>0 DEF CallReturns, PassesLock, TypeOK
      <3> QED BY <3>1, <3>2 DEF SessionsStayReachableStep
    <2>8. ASSUME NEW x \in Contexts, NEW s \in Sids, NEW op \in Ops,
                 OpenSession(x, s, op) \/ InvokeCommand(x, s, op)
          PROVE  SessionsStayReachableStep
      <3>1. /\ pc[x] = "ready"
            /\ \A y \in Contexts \ {x} : call'[y] = call[y] /\ rv'[y] = rv[y]
            /\ UNCHANGED <<mSessionMap, callerSessions>>
        BY <2>8, <2>0 DEF OpenSession, InvokeCommand, Begin, serviceVars, TypeOK
      <3>2. rv[x] # "SUCCESS"
        BY <1>1, <3>1 DEF ResourceInv, ThreadInv, NoValue
      <3> QED BY <1>1, <2>1, <3>1, <3>2, ThreadMovesReach
    <2>9. ASSUME NEW x \in Contexts, HandleInvokeCommand(x) PROVE SessionsStayReachableStep
      <3>1. /\ call[x].kind = "invokeCommand"
            /\ \A y \in Contexts \ {x} : call'[y] = call[y] /\ rv'[y] = rv[y]
            /\ UNCHANGED <<mSessionMap, callerSessions>>
        BY <2>9, <2>0 DEF HandleInvokeCommand, Answer, serviceVars, TypeOK
      <3>2. \A s \in Sids : ~Opens(x, s)
        BY <3>1 DEF Opens
      <3> QED BY <1>1, <2>1, <3>1, <3>2, ThreadMovesReach
    <2>10. ASSUME NEW x \in Contexts,
                  \/ \E recorded \in BOOLEAN : onServiceConnected(x, recorded)
                  \/ onServiceDisconnected(x) \/ ContextReturns(x)
                  \/ \E served \in BOOLEAN : InitializeContext(x, served)
                  \/ \E smid \in SmIds : MemoryCall(x, smid)
           PROVE  SessionsStayReachableStep
      BY <2>10, <2>2 DEF onServiceConnected, onServiceDisconnected, ContextReturns,
         InitializeContext, MemoryCall, RegisterSharedMemory, ReleaseSharedMemory,
         memoryCallUnchanged, threadVars, callVars, serviceVars
    <2>11. ASSUME NEW x \in Contexts, RunTask(x) \/ syncOperation(x) \/ TaskEnds(x)
           PROVE  SessionsStayReachableStep
      BY <2>11, <2>2 DEF RunTask, syncOperation, TaskEnds, callVars, serviceVars
    <2>12. CASE \E recorded \in BOOLEAN : AbandonedConnected(recorded)
      BY <2>12, <2>2 DEF AbandonedConnected, threadVars, callVars
    <2>13. ASSUME NEW x \in Contexts, LockInterrupted(x) PROVE SessionsStayReachableStep
      <3>1. \A s \in Sids : Grows(s) => Opens(x, s) /\ UpdateFails(x, FALSE)
        BY <1>1, <2>13, ReturnReaches DEF LockInterrupted
      <3>2. pc[x] = "joined" /\ pc'[x] = "ready"
        BY <2>13, <2>0 DEF LockInterrupted, PassesLock, TypeOK
      <3> QED BY <3>1, <3>2 DEF SessionsStayReachableStep
    <2>14. ASSUME NEW x \in Contexts, JoinInterrupted(x) PROVE SessionsStayReachableStep
      <3>1. \A s \in Sids : Grows(s) => Opens(x, s)
        BY <1>1, <2>14, JoinReaches
      <3>2. /\ pc[x] \in InCall /\ pc'[x] = "ready" /\ interrupts' > interrupts
            /\ UNCHANGED mSessionMap
        BY <2>14, <2>0 DEF JoinInterrupted, Interrupted, TypeOK
      <3>3. \A s \in Sids : Opens(x, s) => s \notin mSessionMap'[x]
        BY <1>1, <3>2 DEF ResourceInv, ThreadInv, Opens
      <3> QED BY <3>1, <3>2, <3>3 DEF SessionsStayReachableStep
    <2>15. ASSUME NEW x \in Contexts,
                  \/ ConstructorInterrupted(x)
                  \/ \E served \in BOOLEAN : InitializeInterrupted(x, served)
           PROVE  SessionsStayReachableStep
      BY <2>15, <2>2 DEF ConstructorInterrupted, InitializeInterrupted, threadVars,
         callVars, serviceVars
    <2>16. ASSUME NEW w \in strays, HandleStray(w) PROVE SessionsStayReachableStep
      <3>1. \A s \in Sids : Grows(s) => w.sid = s
        BY <1>1, <2>16, StrayReaches
      <3>2. w \notin strays' /\ w.sent
        BY <2>16 DEF HandleStray
      <3> QED BY <3>1, <3>2 DEF SessionsStayReachableStep
    <2>17. ASSUME NEW w \in strays, RunStray(w) PROVE SessionsStayReachableStep
      BY <2>17, <2>2 DEF RunStray, threadVars, callVars, serviceVars
    <2> QED BY <1>1, <2>3, <2>4, <2>5, <2>6, <2>7, <2>8, <2>9, <2>10, <2>11, <2>12,
               <2>13, <2>14, <2>15, <2>16, <2>17
            DEF Next, Proceed, Interrupt, MemoryCall
  <1>2. ResourceInv /\ ResourceInv' /\ [Next]_vars => [SessionsStayReachableStep]_vars
    BY <1>1
  <1> QED BY <1>2, ResourceInduction, PTL DEF Spec, SessionsStayReachable
=============================================================================
