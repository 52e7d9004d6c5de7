# Open-TEE for Android: a verification project

TLA+ models of the Android port of Open-TEE in this repository, the TLC runs
that check them on small instances, and TLAPS proofs of their most important
properties for instances of every size. Paths are relative to the repository.
`S/` stands for `otservice/src/main/java/fi/aalto/ssg/opentee/openteeandroid/`,
`C/` for `otclient/src/main/java/fi/aalto/ssg/opentee/imps/`, `E/` for
`opentee/src/main/java/fi/aalto/ssg/opentee/`, and `wrapper` for
`otservice/src/main/jni/LibteeWrapper.cpp`.

Contents: [the system](#the-system) · [the plan](#the-plan) ·
[modules](#the-modules-and-the-code) · [runs](#the-runs) ·
[findings](#what-the-violation-runs-show) · [proofs](#the-proofs) ·
[assumptions](#assumptions-about-what-is-not-in-the-repository) ·
[limits](#what-is-not-modelled).

## The system

A client application (CA) links the client library and calls the GlobalPlatform
style API of `ITEEClient`. The library binds to one service application, whose
guard multiplexes all clients onto one native context of libtee, which talks to
the Open-TEE engine over a socket. The service application also installs and
starts that engine.

    CA threads --> OTContext / OTSession (C/) --worker thread, binder-->
      OTConnectionService (S/) --> OTGuard + OTCaller --> NativeLibtee (JNI)
        --> wrapper: g_contextRecord, sharedmemory_map, sessions_map --> libtee --> engine, TA
      <--oneway ISyncOperation callback with the operation that came back--

    service MainActivity --handler thread--> OT / Worker --> files of the home
      directory, engine process       (OTGuard.otInstallTa also writes there)

| component | state | operations | interacts with |
|---|---|---|---|
| guard (`S/OTGuard`, `S/OTCaller`) | `mConnectedToOT`, one `OTCaller` per process id with its memory and session ids, the reserved native ids | initialize, finalize, register, release, open, close, invoke, cancel, install TA | binder stub above, JNI below |
| JNI layer (`wrapper`, `S/NativeLibtee`) | the one context, `sharedmemory_map`, `sessions_map`, `operations_map`, a function-local static session | one entry point per guard operation, conversion of operations | libtee |
| binder stub and service (`S/OTConnectionService`) | the guard object, bindings | bind, unbind, destroy; `synchronized` methods | Android |
| contexts and calls (`C/OTContext`, `ProxyApis`, `OTSession`, the `*Task` classes, `OTLock`) | service connection, session map, list of shared memory, return value, lock and operation of a call | constructor, finalize, register and release memory, openSession, invokeCommand, closeSession | main thread callbacks, worker threads, binder threads |
| operation parameters (`C/OTOperation`, `OTSharedMemory`, `OTValue`, `OTRegisteredMemoryReference`, `OTFactoryMethods`) | the application's buffers, flags, return sizes, values | serialise, convert, run, convert back, update | shared by the threads of the CA; native buffers |
| launcher (`E/OT`, `Worker`, `OTUtils`, `Setting`, `OTInstallTA`, `S/MainActivity`) | files of the home directory, pid file, socket, handler threads | install, start, stop, install TA | engine process, Android |
| cancellation (`C/RequestCancellationTask`, `teecRequestCancellation`) | `operations_map` | request | unsynchronized stub method, class monitor of `NativeLibtee` |
| API, exceptions, return codes; protobuf messages; test applications | none | | |

What makes the system hard to get right, and what correctness means for each
part:

* **Guard and JNI layer.** Ids are translated twice, kept in four maps that must
  agree, and the native maps outlive the guard: the service object is destroyed
  with its last binding while its process goes on. Correct means: an id belongs
  to one process, what a record lists exists natively, a handler touches its own
  process's memory and sessions only.
* **Calls of the client.** A call is spread over the caller's thread, a worker
  thread, a binder thread of the service and one of the client; reply and
  callback come in either order, the service can die and the thread be
  interrupted in between. Correct
  means: whoever gets the lock has the operation of this very call, every
  call that was answered returns, and what the service holds for a process can
  still be named, and given back, by one of its contexts.
* **Cancellation.** A request runs on threads of its own, past the monitor of the
  binder object, and looks for an operation in a native map that points into the
  stack of a running call; the key is an `int` sum that wraps around and
  collides. Correct means: no entry points to a call that is over or hides
  another, and a request for a running operation reaches it.
* **Operation parameters.** Objects are shared by threads without locks; old
  contents and sizes travel in messages there and back; offsets and directions
  decide who copies what. Correct means: bytes keep their place, inputs are not
  changed, sizes are those of the TEE, data arrives.
* **Launcher.** Every activity has a thread of its own, and all of them write
  the same files in place, next to requests that name their file themselves and
  bring contents of another length; the process can be killed and the application
  upgraded at any point. Correct means: files that are not being written are whole and of
  the installed build, an engine runs for a living activity, stop tasks run.

`PROJECT.json` lists the hazards with their lines and the properties that would
catch each of them.

## The plan

Order: the guard with its native layer (everything else depends on it), the
client's calls, the parameters, the launcher; then cancellation, the client's
shared memory and main thread, and the abstract proxy that the guard implements.
All of this is done. What would come next:

1. Sessions in `TEEProxy`. They are left out because the code does not keep them
   apart (`guard_multiplex`); with one `TEEC_Session` per id they belong there.
2. A composition of `OTContext` with `OTGuard`. The client sees the guard as
   three variables (is there a record, how many sessions and buffers under an id);
   every answer the guard can give is already among the choices of `OTContext`.
3. The id generators' endless loop as a liveness question over `OTGuard`.

## The modules and the code

| module | models | uses |
|---|---|---|
| `Maps` | Java and C++ maps as functions; iteration orders | |
| `NativeLibtee` | `wrapper`: globals and entry points | `Maps` |
| `OTGuard` | `OTGuard`, `OTCaller`, the stub and the service's lifecycle | `NativeLibtee`, `TEEProxy` |
| `TEEProxy` | abstract: what the proxy promises each process | `Maps` |
| `OTCancellation` | cancellation, the service's monitors, `operations_map` | `Maps` |
| `OTContext` | contexts, connection, session and memory calls, locks, callbacks, main thread | |
| `OTOperation` | parameters from object to TA and back | |
| `OTEngine` | launcher, files, engine process | |
| `*Proofs` | lemmas and theorems | the module they are named after |
| `MC*` | symmetry sets and constant values for TLC | |

**NativeLibtee.** `g_contextRecord`, `sharedmemory_map`, `sessions_map` and the
static session are variables. Each entry point is an operator that says what
becomes of them for an answer of the TEE, which is chosen freely.
`sharedmemory_map` maps an id to the process and client id it was registered for,
which stands for the buffer; `emplace` keeps an old entry, as in C++.
`unreferenced` are buffers that a step allocates and does not enter: those of a
registration that the TEE refuses, which nothing frees, and the one of a
registration whose id has an old entry.

**OTGuard.** One action per handler. The stub's methods are `synchronized` on
one object, so a handler is one step. `mSharedMemoryList` and `mSessionList` are
the lists of all `OTCaller` records. `teecFinalizeContext` is modelled with its
mistake: it hands a native id to a function that looks for a client id. The walk
over the `HashMap` can therefore complete (`WalkCompletes`), leaving buffers
behind, or run into a `ConcurrentModificationException` (`WalkThrows`) at any
point of any iteration order, leaving the state half-way; the exception ends in
the binder thread and the service lives on. `Unbind` of the last process drops
the guard and keeps the native maps. `orphaned` is a history variable: a guard
was dropped while it had callers, and the native layer was not finalised since.

**TEEProxy.** The specification `OTGuard` implements. It has no ids of two layers,
no maps that must agree and no sessions: a set of clients, for each process the
buffers it holds, and what the TEE runs in this step. A client registers, releases,
leaves or commands; each step changes its own memory only, and a command works on
buffers the client holds. The refinement mapping (end of `OTGuard`) takes the
buffer the native layer has behind each id a record lists, so that a mix-up in any
of the four maps shows as a step the proxy does not have. `exposed` is `orphaned`:
after a restart with clients in it a registration may get any old buffer, which is
what the code does (`wrapper:314`).

**OTCancellation.** A session call is taken apart into arriving, holding the
monitor of the binder object, being in the TEE (inside the class monitor of
`NativeLibtee`, with its entry in `operations_map`), and replying. A restarted
service has a new binder object and so a new monitor, while calls of the old one
go on. `teecRequestCancellation` of the stub takes no monitor and may miss an
entry of the map that is being changed; the thread it starts takes the class
monitor for its lookup. Keys are sums in a ring of `Width` values. `waiting` are
commands that only a cancellation ends, `told` those the TEE was asked to cancel;
both belong to the TEE. `FairSpec` is there for the violation run alone.

**OTContext.** A process with several contexts, each with one thread. `pc` follows
the thread and its worker: `spawned` (worker created), `calling` (transaction
sent), `handled` (the guard is done, the reply is under way), `joined`.
`syncs` are the callbacks under way. `Begin` includes the check and the mark of
the operation; `setStarted` is the code's own condition, which makes it a no-op.
`ServiceDies` can hit every point, a connection that is just coming up included.
The guard appears with what the client can see of it: does it know the process,
and how many sessions and buffers has it for a client id. `main` is the context
whose call occupies the application's main thread, on which connections come up and
go down. A release goes to the service by id before the client looks for the
object in its own list, so `ReleaseSharedMemory(x, y, smid)` lets context `x`
release a buffer of `y`. A thread may be interrupted, `MaxInterrupts` times in all:
in the join of its worker the call ends with an exception while the worker, a
member of `strays`, goes on and may still open a session (`JoinInterrupted`,
`RunStray`, `HandleStray`); in `OTLock.lock` it goes on without the lock
(`LockInterrupted`, `ConstructorInterrupted`); in the join of the constructor it may
find no `ProxyApis` and leave a binding behind (`InitializeInterrupted`). A worker
left behind may send its transaction after its context was finalised. Callbacks to a
call that was ended reach the lock and the operation of a task nobody looks at, and
are dropped. `MainUsers` are the contexts whose calls may be made on the main thread.

**OTOperation.** Threads register memory, write it, serialise an operation, and
go through conversion (`transfer_opString_to_TEEC_Operation`), the TA
(`TEEC_Return`, any permitted change), and `updateOperation`, one parameter per
step. A byte is a pair of a position and a version, so that a byte at a wrong
place is visible. The copy of `sizeof(pointer)` bytes is `memcpy` with `PtrSize`.
Each shared memory has an array of its own.

**OTEngine.** A thread is a queue of jobs and a place in the first one; a file is
a row of pieces, each tagged with the build or request its bytes come from, and
`Length` says how many pieces each source has for each file. Look, open (which cuts
the file) and the writing of each piece are separate steps, so that a piece that is
written behind a cut leaves a hole before it, as in a file. `otInstallTa` takes any
file of the home directory, since the client's name is joined to the path unchecked;
`requested` is the history of what was named. A setting that a request wrote lists
some of the TAs; other names in it are left out. `onDestroy` appends the stop task,
since `quitSafely` runs what was posted. `spoiled` is a history variable: files whose
last writing failed or died with the process, or whose last opening cut into a
longer writing that was already past its own end (`LeavesHole`); every other opening
clears it. The reading of the pid file and the kill are one step; nothing a run
claims depends on a step between them.

Bytes, strings, logging, message encoding, UUIDs and connection data are left
out. Definitions that mutate the code for the checks of the properties are marked
"Mutation" or "A mutant"; nothing else refers to them.

## The runs

| run | module, bounds | checks |
|---|---|---|
| `guard` | `OTGuard`; 2 processes, 2 native and 1 client memory id, 2 native and 1 client session id, 2 TEE sessions, processes symmetric | `TypeOK`, `MemoryIdsExclusive`, `MemoryBackedByNative`, `MemoryTracked`, `MemoryIsOwn`, `SessionIdsExclusive`, `SessionsBackedByNative`, `InvokeNeverThrows`, `CommandsUseOwnMemory`, `KeptMemoryUntouched`, `LeakCauses`, `ImplementsProxy` |
| `client_calls` | `OTContext`, fair; 2 contexts, 1 session id, 1 operation, no memory, 2 sessions per id, 1 death, no interrupt, either context on the main thread | `AnsweredCallsReturn`, `ConstructorsReturn` |
| `client_resources` | `OTContext`; the same with 1 memory id and 2 buffers per id, 1 interrupt, no call on the main thread, contexts symmetric | `TypeOK`, `LockTracksSync`, `MemoryStaysReachable`, `SessionsStayReachable` |
| `cancellation` | `OTCancellation`; 2 binder threads, 1 request, processes 1 and 3, hash codes 1 and 3, `int`s of 4 values, 2 service instances | `TypeOK`, `MapIsRunning` |
| `op_threads` | `OTOperation`; 2 threads, 1 memory of 3 bytes, pointer of 2 | `BytesKeepPosition`, `ReturnSizesAreReported` |
| `op_params` | `OTOperation`; 1 thread, 2 slots, a memory, a value, 2 versions | `TypeOK`, `InputsAreKept` |
| `engine` | `OTEngine`; 2 activities, 1 request, 2 builds, 1 TA of 1 piece (the request has 3), other files of 2 pieces, 1 kill or upgrade, 1 I/O error | `TypeOK`, `QuietFilesComplete`, `AssetsAreFresh`, `SomeEngineComesUp`, `StopNeverDropped` |
| `guard_multiplex`, `guard_reconnect`, `client_blocked`, `op_input`, `cancellation_too_late` | as small as shows it | one claim of the repository each; violated |

Why the bounds are enough. For memory, one process loses or leaves a buffer
behind while the other keeps the native context alive and takes it; with
fewer ids than registrations ids run out and are drawn again, and one client id,
which two contexts of a process may both draw, under two native ids lets a native id
meet the client id of its own entry and of another, which is what
`teecFinalizeContext` trips over. More processes and ids are left to the proofs, which
cover every property of this run. For sessions two processes
do too, since the context and the static session are shared by all. In the client
one operation shared by two contexts and one death produce every order of reply,
callback and death; further deaths repeat it. One id for both contexts makes them
collide, and two resources under it let one be lost next to one that is not. One
interrupt ends one call and leaves one worker behind, which meets every later call;
which thread a call is made on decides nothing for the properties of
`client_resources` (and the proofs have every choice). `client_calls` has no
interrupt, since with one the liveness check takes too long: what it shows is that
answered calls end without help. In
`cancellation` processes and hash codes are chosen so that sums wrap around
(3 + 3, 1 + 3) and that two processes meet on one key (1 + 3 and 3 + 1); two
threads and two instances let a call of the new service meet one of the old. Three bytes with a pointer of two have a first
part, an uncopied part, and every overlap of two references with different
offsets; two slots let a conversion fail after it has copied something. Two
activities, two pieces and one build after another are what it takes to mix two
writers and to leave an old file behind, and a TA of which the request has two pieces
more than the build is the shortest in which a cut leaves a hole; the libraries between the engine and the
TAs are further assets that behave as the engine's file does, and are left out of
the instance (the proof has any number). The proofs cover every size for the
properties they name.

`CHECK_DEADLOCK FALSE` is set for `OTContext`, where a thread may block for good
(see `client_blocked`) and an unserved binding leaves a constructor waiting; for
`OTCancellation`, where a call that waits for its cancellation holds the monitors
for good; and for `OTEngine`, where activities and requests are used up. The guard,
a server, must never be without a step, and is checked for that. So is
`OTOperation`.

Fairness. `FairSpec` of `OTContext` is weak fairness of `Proceed(x)` for each
context: threads that can run do run, a live service answers a transaction, the
binder delivers replies, callbacks and connection events. The connection event has
strong fairness, since it waits in the queue of the main thread, which may be
occupied and free again any number of times and works its queue off in order.
Nothing is assumed of the application's next call, of deaths, or of bindings the
system refuses. That the main thread is free again and again is not assumed; it is
the antecedent of `ConstructorsReturn`. `FairSpec` of `OTCancellation`, for the
violation run, is weak fairness of what a thread does that holds its monitors, of
the TEE's answer to a command that waits for nothing or that it was asked to cancel,
of the task's connection and of a cancellation that finds the class monitor free;
nothing is assumed about the order in which Java gives a monitor to those who wait.
`AnsweredCallsReturn`, `ConstructorsReturn` and the violated `CallsReturn` and
`RunningOperationsAreCancelled` are checked under fairness; no other property needs
it.

What the passing runs show, in words:

* Over registrations, releases, aborted and completed finalisations and restarts
  of the service, a native memory id has one owner and is reserved while it has;
  the buffer exists, and as long as no guard was orphaned it is the owner's own,
  every buffer is known to the guard, and a command uses buffers of its process
  only. No step frees or replaces a buffer a caller keeps. `LeakCauses` lists how
  buffers get lost: a finalisation and the end of the service leave them in the
  native map without an owner (against `S/OTGuard.java:146`, "TEE Proxy service will
  release it now."), a registration that the TEE refuses leaves one on the heap
  (`wrapper:290-316`), and after an orphaned guard so does one whose id is taken; there
  is no other way. Each step of the guard is a step of `TEEProxy`.
* A session a record lists is always known natively, so the null operation that
  `OTGuard.java:428` would dereference is never returned.
* The lock of a call is held exactly until this call's operation is back, in
  every order of reply, callback, death and interrupt, and no callback can reach a
  later call. Calls without an operation and calls the service called back for return,
  and so does the constructor of a context whose binding is served, as long as
  the main thread is not occupied for good.
* Contexts of a process draw the same ids, release each other's buffers and take
  unlisted codes for success; still a buffer or a session that no context can
  name any more comes from a finalisation, or, a session, from an operation
  that could not be copied back or from an interrupted join, at once or when the
  worker left behind is served.
* `operations_map` holds exactly the operations the TEE works on, whatever keys
  collide and even while two instances of the service overlap, so no cancellation
  ever follows a pointer into a dead stack frame or reaches somebody else's
  operation. The reason is the class monitor, and it has a price: see
  `cancellation_too_late`.
* Bytes never move, inputs never change, a size the application reads was
  reported for this memory, whatever threads and stale messages do.
* Files that nobody writes are complete unless their last writing failed, died or
  cut into a longer one that was past its end; installed assets that no request has
  named are those of the installed build; an engine listens once undisturbed
  activities are done, unless a request named another file than a listed TA; and
  `quitSafely` loses no stop task.

## What the violation runs show

| run | claim of the repository | what happens |
|---|---|---|
| `guard_multiplex` | `S/OTGuard.java:50`, `wrapper:48`: multiplexing, sessions are kept on record | `wrapper:688`: all ids lead to one static `TEEC_Session`; a command of one process runs in the session another opened last |
| `guard_reconnect` | `S/OTGuard.java:86`: "connect to open-tee if not connected." | `S/OTGuard.java:176`: `mConnectedToOT` stays true after the native context is gone; the next `initializeContext` succeeds without one |
| `client_blocked` | `ITEEClient.java:559-560`: `AccessDeniedException` | `C/OTContext.java:294`: a refusal comes without the callback the thread waits for; it waits for ever |
| `op_input` | `ITEEClient.java:329-330`: modifications are synced to the TA | `wrapper:449`: `sizeof` of a pointer is copied |
| `cancellation_too_late` | `wrapper:697`, `:820`: the operation is entered "for future cancellation"; `ITEEClient.java:570-571`, `603`: calls are cancelled by another thread (though "not guaranteed") | `S/NativeLibtee.java:59`: a cancellation needs the monitor that the operation to be cancelled holds; it never finds one, and one that waits for it waits for ever |

The models show more behaviour of this kind, which has no run of its own:

* `setStarted` never changes `started`, since `val != 0 || val != 1` always holds
  (`C/OTOperation.java:109`): an operation in use is never refused, although
  `ITEEClient.java:32-34` promises a `BusyException`, and `requestCancellation`
  takes every operation for one that has not started and sends nothing.
* The stop task of a destroyed activity can run after the start task of the next
  one and leave that without an engine (`E/Worker.java:220`), although the activity
  is there to "prepare and start the open-tee engine and TAs"
  (`S/MainActivity.java:27`).
* A constructor called on the main thread waits for an event that only the main
  thread can deliver (`C/OTContext.java:79`): in the model, `main` stays occupied.
* `teecFinalizeContext` leaves the caller's buffers in the native layer
  (`S/OTGuard.java:152`) or aborts half-way (`:153`); `MemoryTracked` says how long
  the ids stay taken.
* After a restart of the service a fresh id can meet an old buffer
  (`wrapper:314`); hence the condition `~orphaned` of three properties.
* A session that the service granted is lost when the operation's update throws
  (`C/OTContext.java:301`), and a session is returned for an error code that is not
  listed and for a missing return value (`C/OTContext.java:313`).
* A context is returned whatever the service answered (`C/ProxyApis.java:73`), and
  never when the binding is refused (`:96`).
* Contexts of one process share the guard's record: finalising one takes the
  other's sessions (`S/OTGuard.java:169`), and session ids can coincide
  (`C/OTContext.java:362`).
* A request for a TA names its file, path separators included
  (`S/OTGuard.java:466-469`, `E/OTUtils.java:277`): the program, a library or a
  configuration can be overwritten; hence `requested` in two properties.
* A shorter contents that is written while a longer one is being written leaves a
  file with a hole and no error (`E/OTUtils.java:283`); hence `LeavesHole`.
* An interrupted `OTLock.lock` returns without the lock (`C/OTLock.java:36`) and an
  interrupted constructor a context whose service is not connected.
* Output through an offset is refused (`C/OTSharedMemory.java:81`), and an input
  reference to an output memory gets a return size (`wrapper:478`,
  `C/OTFactoryMethods.java:165`).

## The proofs

TLAPS (SMT, Zenon and LS4) proves every theorem below for all values of the
constants that satisfy the modules' `ASSUME`s, which TLC evaluates in the runs.

| module | theorem | property |
|---|---|---|
| `OTGuardProofs` | `TypeCorrect` | `TypeOK` |
| `OTGuardMemoryProofs` | `MemoryIdsAreExclusive`, `MemoryIsBacked`, `MemoryIsOwned`, `MemoryIsTracked`, `CommandsUseOwn`, `KeptMemoryIsUntouched`, `LeaksHaveCauses` | `MemoryIdsExclusive`, `MemoryBackedByNative`, `MemoryIsOwn`, `MemoryTracked`, `CommandsUseOwnMemory`, `KeptMemoryUntouched`, `LeakCauses` |
| `OTGuardSessionProofs` | `SessionIdsAreExclusive`, `SessionsAreBacked`, `InvokeIsSafe` | `SessionIdsExclusive`, `SessionsBackedByNative`, `InvokeNeverThrows` |
| `OTGuardRefinementProofs` | `GuardImplementsProxy` | `ImplementsProxy` |
| `OTCancellationProofs` | `CancellationTypes`, `OperationsMapIsExact`, `CancellationIsTooLate` | `TypeOK`, `MapIsRunning`; `CancellationFindsNothing`, which no run checks |
| `OTContextProofs` | `ClientTypes`, `LockIsSound`, `MemoryIsReachable`, `SessionsAreReachable` | `TypeOK`, `LockTracksSync`, `MemoryStaysReachable`, `SessionsStayReachable` |
| `OTOperationProofs` | `TypeCorrect`, `BytesStayInPlace`, `ReturnSizesAreTrue`, `InputsStay` | `TypeOK`, `BytesKeepPosition`, `ReturnSizesAreReported`, `InputsAreKept` |
| `OTEngineProofs` | `TypeCorrect`, `QuietFilesAreComplete`, `AssetsStayFresh`, `StopIsRun`, `AnEngineIsUp` | `TypeOK`, `QuietFilesComplete`, `AssetsAreFresh`, `StopNeverDropped`, `SomeEngineComesUp` |

The arguments:

* **Guard, memory.** `MemoryInv` adds `MemoryOnlyOfCallers` to the properties:
  finalising the native layer with the last caller is harmless only because
  nobody without a record owns anything, and a release takes nobody else's buffer
  only because ids are exclusive. Ownership needs that a fresh id is fresh
  natively too, which is `MemoryTracked`. First each action is summarised by
  its effect on memory (`MemoryEffect`), then the invariant is proved for effects.
  The same effects bound the leaks (`LeakedByEffect`): a buffer without an owner
  is one that had none before, or one of the caller whose record is dropped with
  entries it did not release, which only `teecFinalizeContext` and the end of the
  last binding do. A registration that succeeds and loses its buffer needs an id that
  is free in the guard and taken natively, which `MemoryTracked` rules out without an
  orphaned guard.
* **Guard, sessions.** `SessionInv`, along the same lines; `InvokeIsSafe` follows
  since the only step that answers `EXCEPTION` to a command needs a session that
  is listed and natively unknown.
* **Guard, refinement.** Init maps to Init. For a step, `MemoryEffect` says what
  it does to the records and the native map, and `StepWork` that it either runs
  nothing in the TEE or leaves memory alone; each combination is then matched with
  one action of `TEEProxy`. That a registration gets the client's own buffer, and
  that no release changes what stands behind another client's ids, is
  `MemoryInv` again.
* **Cancellation.** `CancellationInvariant`: at most one thread is in the TEE, and
  the map is exact. Since there is one at most, `emplace` always finds its key
  free and `erase` removes its own entry; a request, which needs the monitor,
  finds the map empty (`CancellationIsTooLate`, the reason of the violation in
  general).
* **Client, resources.** `ResourceInv` adds to the types that the service has
  nothing for a process without a record (`RecordInv`), that a call has no return
  value before its answer, and that the id of a session that is being opened is
  not in its context's map (`ThreadInv`). Then every action changes
  the number of resources under an id and the set of contexts that can name it
  together, which is an argument about cardinalities; workers that an interrupt left
  behind count for nobody, so that serving one is a cause of its own.
* **Client, lock.** `LockInv` is `LockTracksSync` with `LockIdle`: before the worker runs
  the lock is free, and before the service has answered no operation is back. An
  interrupted call takes its lock and its callback with it.
* **Operations.** `OperationInv` adds what is in flight to what is at rest: bytes
  in messages are in place, sizes in messages were reported, and the parameter
  types fit the flags of the objects.
* **Launcher, files.** `QueueInv` says which jobs can follow each other (the setting is
  read right before the start, a request has one job). For complete files, a piece
  is due (`Due`) when it is written or still ahead of a thread that has the file
  open, and `HolesCovered` says of a file that is not spoiled that the pieces before a
  due one are due, and so is the last piece of each source that the file has a piece
  of. When nobody writes, due pieces are written; the last of them exists
  since the pieces are well-founded (`LastPiece`), and it is the last one of the
  source that wrote it, which is `Complete` (`QuietComplete`). An opening that cuts
  the file behind a writer past its own end is exactly what would break this
  (`OpenHoles`), and marks the file as spoiled. For fresh assets, of files no request
  has named, `FreshInv`: pieces of an asset that is being
  written, or that somebody has passed, are missing or of the installed build, and
  while an engine runs its file is unwritten and fresh or spoiled, which is why
  a refused opening may count as passed.
* **Launcher, tasks.** `QueueChanges` first: a step leaves a queue alone or does one
  of seven things to it (its running job ends, the TAs are listed, the installation
  is given up, it is filled, extended by the stop, filled by a request, or lost with the
  process). From that, and not from the actions, follow `OrderInv` (the
  configurations come first in a queue), `StopInv` (only a destroyed activity has
  a stop task, which is its last job until it was run: giving an installation up
  drops the two jobs at the front, and the second of them is the start) and
  `StartInv` (while no I/O has failed, a living activity's last job is the start,
  and a configuration is on disk or still to be installed). `StopIsRun` is then
  immediate. For the engine, `CleanInv`: undisturbed, nothing but a file that a request
  named is spoiled (`NoHoleLeft`: installations of one build write equal lengths) and no
  thread is lost, since `Setting` always finds its file; and `EngineInv`: without a
  destroyed activity pid file and socket agree, name a running engine or none,
  and as long as no engine runs some installation is under way. The heart is
  `LastStart`: the last installation to come to its start has passed the
  program (`FreshInv`), nobody else writes what it needs, the requests that count
  (`OnlyTAs`) write TAs only, and so the program and the configuration have no holes (`HolesCovered`) and the
  engine is executed. An earlier start may fail: then somebody has the program
  open, whose own start is still to come.

Only model-checked: `AnsweredCallsReturn` and `ConstructorsReturn`,
since liveness under fairness is out of this prover's reach. Every invariant and
every other action property of a passing run is proved. The violations are TLC's.

## Assumptions about what is not in the repository

* **TEE (libtee, engine, TAs).** Any call may fail; calls fail without a
  context; a command changes output buffers and values only and reports a size
  that is at most the size it was given. Whether sessions survive the
  finalisation of the context is left open.
* **Android.** A service without bindings is destroyed, its process may go on. An
  exception in a handler ends the transaction, not the service; the client of a
  handler without a result sees a normal return. When the service process
  dies, transactions fail, bindings are served again later, and callbacks already
  sent are delivered. The process can be killed at any time; its engine, a process
  of its own, may survive that, but not an upgrade of the package.
* **Kernel.** A program that runs cannot be opened for writing, and one that is
  open for writing cannot be executed.
* **Engine process.** It comes up some time after its start, then writes the pid
  file and the socket, and may give way to one that did so before. With a torn or
  foreign configuration it may give up. The program that is executed goes to the
  background and closes its output: `E/OTUtils.java:134-137` waits for the end of
  both, and an engine that stayed in the foreground would hold the handler thread
  for as long as it runs.

## What is not modelled

* The message format. Messages are modelled by the fields this project's code
  reads and writes; `gpdatatypes/GPDataTypes.pb.*` is generated from a 45-line
  schema, and the protobuf library is vendored. Together with that library they
  are 98 % of the repository's C++ lines (about 59,800 of 60,700), none of it this
  project's logic. `LibteeWrapper.cpp`, the one C++ source of the project itself, is
  covered but for its logging and its conversions between JNI and C++ types; the
  other models are of Java sources. A share of the C++ lines therefore says
  little about how much of the system is modelled, and no model of protobuf is
  planned to raise it.
* Negative offsets, and buffers shorter than a pointer, whose copy overruns the
  heap: `PtrSize <= Size` is assumed, since nothing can be said of the program
  after that.
* One array registered as two shared memories (`ITEEClient.java:502-506` allows it,
  `C/OTSharedMemory.java:42` keeps the caller's array): an update of one would show in
  the other.
* Files outside the home directory that a requested name may lead to, and names of
  TAs that a foreign setting may list.
* The reuse of a process id by another application; the failure of an
  unregistration in libtee; the endless loop of the id generators (the models
  wait for a free id).
* Directories and permission bits in the launcher; `Setting.updateSetting`,
  `Setting.saveSetting` and `Worker.installFileToHomeDir`, which nobody calls.
* Interfaces, constants, exception classes, generated message classes, the
  vendored protobuf library, the test applications: no state, not the project's
  own code, or users of what is modelled.
