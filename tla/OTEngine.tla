------------------------------ MODULE OTEngine ------------------------------
(***************************************************************************)
(* The launcher of the Open-TEE engine in the service application: the     *)
(* installation and stop tasks (OT, Worker) that each MainActivity posts   *)
(* to a handler thread of its own, and the TA installations (OTInstallTA)  *)
(* that the guard runs on threads of theirs.  All of them write files of   *)
(* one home directory in place, and nothing orders the threads.            *)
(*                                                                         *)
(* A thread is the queue of its jobs and its place in the first one.  A    *)
(* file is at most Blocks pieces, each tagged with where its bytes come    *)
(* from: the build of the application or a client's request, which may     *)
(* have more or fewer pieces for it.  Files outlive the process.           *)
(* Directories and permission bits are left out.                           *)
(*                                                                         *)
(* The engine itself is not in the repository: it comes up some time after *)
(* it was executed, then owns the pid file and the socket, and may give    *)
(* way to another that already does.  The program that is executed goes to *)
(* the background and ends its output, so that the task that waits for     *)
(* both goes on at once.  The system may kill the process at any moment    *)
(* and refuses to write to a program that is being executed.               *)
(***************************************************************************)
EXTENDS Integers, Sequences, FiniteSets

CONSTANTS
    Activities,   \* MainActivity instances the system creates, one thread each
    Requests,     \* calls of otInstallTa, one thread each
    Builds,       \* builds of the application that get installed
    Libraries,    \* the assets besides the engine, in the order of OT
    TAs,          \* the TAs that the shipped runtime setting lists
    None,         \* no bytes, no process
    Blocks,       \* bound: pieces of a file
    Length,       \* how many of them a file has, by file and source
    MaxKills,     \* bound: deaths of the process and upgrades
    MaxFailures   \* bound: I/O errors

Conf    == "opentee.conf.android"
Setting == "ot_rt_setting.properties"
Bin     == "opentee-engine"

Elements(s) == {s[i] : i \in 1..Len(s)}

Configs == {Conf, Setting}
Assets  == {Bin} \cup Elements(Libraries)
Files   == Configs \cup Assets \cup Elements(TAs)
Threads == Activities \cup Requests

ASSUME EngineAssumption ==
    /\ Libraries \in Seq(STRING) /\ TAs \in Seq(STRING)
    /\ Configs \cap (Assets \cup Elements(TAs)) = {}
    /\ Assets \cap Elements(TAs) = {}
    /\ Bin \notin Elements(Libraries)
    /\ Activities \cap Requests = {} /\ Builds \cap Requests = {}
    /\ None \notin Activities \cup Requests \cup Builds
    /\ Length \in [Files -> [Builds \cup Requests -> 1..Blocks]]
    /\ Blocks \in Nat \ {0} /\ MaxKills \in Nat /\ MaxFailures \in Nat

VARIABLES
    life,       \* of a thread: "new", "live", "destroyed" (its activity) or "lost"
    todo,       \* jobs queued at a thread, the running one first
    at,         \* steps of the running job that are done
    exists,     \* files of the home directory
    disk,       \* their pieces
    build,      \* the build that is installed
    engines,    \* engine processes, named by the thread that started each
    booting,    \* those that have not come up yet
    pidFile,    \* the engine named in the pid file
    socket,     \* the engine that listens at the socket file
    stopped,    \* history: activities whose stop task has ended
    spoiled,    \* history: files whose last writing failed or was cut short, or
                \* cut into a longer one
    requested,  \* history: files that a call of otInstallTa has named
    kills,
    failures

files  == <<exists, disk, spoiled>>
engine == <<engines, booting, pidFile, socket>>
faults == <<kills, failures>>
vars   == <<life, todo, at, files, build, engine, stopped, requested, faults>>

Config(f)   == [do |-> "config", file |-> f]
Asset(f)    == [do |-> "asset",  file |-> f]
ReadSetting == [do |-> "setting", file |-> Setting]
Start       == [do |-> "start",  file |-> Bin]
Stop        == [do |-> "stop",   file |-> Bin]
Jobs        == [do : {"config", "asset", "setting", "start", "stop"}, file : Files]

AssetJobs(s) == [i \in 1..Len(s) |-> Asset(s[i])]

\* A mutant: the engine is started before it is installed.
startFirst == <<Config(Conf), Config(Setting), ReadSetting, Start, Asset(Bin)>>

\* OT.installationTask; ReadSetting puts the TAs it finds before the start.
installationTask ==
    <<Config(Conf), Config(Setting), Asset(Bin)>> \o AssetJobs(Libraries)
        \o <<ReadSetting, Start>>

Empty == [b \in 1..Blocks |-> None]

Init ==
    /\ life = [t \in Threads |-> "new"]
    /\ todo = [t \in Threads |-> <<>>]
    /\ at = [t \in Threads |-> 0]
    /\ exists = {}
    /\ disk = [f \in Files |-> Empty]
    /\ build \in Builds
    /\ engines = {} /\ booting = {} /\ pidFile = None /\ socket = None
    /\ stopped = {} /\ spoiled = {} /\ requested = {} /\ kills = 0 /\ failures = 0

-----------------------------------------------------------------------------
(* The activity and the guard post tasks.                                  *)

\* MainActivity.onCreate: a new handler thread and its first task.
onCreate(a) ==
    /\ life[a] = "new"
    /\ life' = [life EXCEPT ![a] = "live"]
    /\ todo' = [todo EXCEPT ![a] = installationTask]
    /\ UNCHANGED <<at, files, build, engine, stopped, requested, faults>>

\* A mutant: the task is posted to a thread that was told to quit.
quitFirst(jobs) == jobs

\* quitSafely lets the thread run what has been posted to it.
quitSafely(jobs) == Append(jobs, Stop)

\* MainActivity.onDestroy: the stop task runs after the installation.
onDestroy(a) ==
    /\ life[a] = "live"
    /\ life' = [life EXCEPT ![a] = "destroyed"]
    /\ todo' = [todo EXCEPT ![a] = quitSafely(@)]
    /\ UNCHANGED <<at, files, build, engine, stopped, requested, faults>>

\* OTGuard.otInstallTa for a known caller: a handler thread for one file.  The
\* name is the client's and the path is joined from it, so that it may be any
\* file of the home directory, the listed TAs among them.
otInstallTa(r) ==
    /\ life[r] = "new"
    /\ \E f \in Files : /\ todo' = [todo EXCEPT ![r] = <<Asset(f)>>]
                        /\ requested' = requested \cup {f}
    /\ life' = [life EXCEPT ![r] = "live"]
    /\ UNCHANGED <<at, files, build, engine, stopped, faults>>

-----------------------------------------------------------------------------
(* The threads work through their queues.                                  *)

Running(t, kind) == todo[t] # <<>> /\ Head(todo[t]).do = kind
File(t)          == Head(todo[t]).file

\* Has the thread the file open?  Step 1 is the look at the directory, step 2
\* opens the file, step 2 + b writes piece b.
Writing(t, f) ==
    /\ Running(t, "config") \/ Running(t, "asset")
    /\ File(t) = f
    /\ at[t] >= 2

Unwritten(f) == \A t \in Threads : ~Writing(t, f)

\* The file has no hole, and its last piece is the last one of its source.
Complete(f) ==
    /\ f \in exists
    /\ \E s \in Builds \cup Requests :
         /\ disk[f][Length[f][s]] = s
         /\ \A b \in 1..Blocks : disk[f][b] # None <=> b <= Length[f][s]

\* Nothing in the file comes from a request.
Shipped(f) == \A b \in 1..Blocks : disk[f][b] \notin Requests

JobEnds(t) ==
    /\ todo' = [todo EXCEPT ![t] = Tail(@)]
    /\ at' = [at EXCEPT ![t] = 0]

Advance(t) ==
    /\ todo' = todo
    /\ at' = [at EXCEPT ![t] = @ + 1]

\* A mutant: overwrite is false for the assets too.
onlyIfAbsent(t) == File(t) \notin exists

\* A configuration is only installed where there is none; assets and TAs are
\* installed with overwrite = true.
toInstall(t) == Running(t, "asset") \/ (Running(t, "config") /\ File(t) \notin exists)

\* The test of installConfigToHomeDir and installBytesToHomeDir, apart from
\* the opening of the file.
LookUp(t) ==
    /\ Running(t, "config") \/ Running(t, "asset")
    /\ at[t] = 0
    /\ IF toInstall(t) THEN Advance(t) ELSE JobEnds(t)
    /\ UNCHANGED <<life, files, build, engine, stopped, requested, faults>>

Source(t) == IF t \in Requests THEN t ELSE build
Pieces(t) == Length[File(t)][Source(t)]

\* Another thread that has the file open is already past the end of what this
\* one is going to write: what it still writes leaves a hole.
LeavesHole(t) ==
    \E u \in Threads : Writing(u, File(t)) /\ at[u] - 2 > Pieces(t)

\* new PrintWriter(file), new FileOutputStream(file, false): the file is cut
\* to length zero.  The system refuses it for the program of a running engine,
\* and the exception ends the job.
Open(t) ==
    /\ Running(t, "config") \/ Running(t, "asset")
    /\ at[t] = 1
    /\ \/ /\ File(t) = Bin /\ engines # {}
          /\ JobEnds(t)
          /\ UNCHANGED files
       \/ /\ ~(File(t) = Bin /\ engines # {})
          /\ Advance(t)
          /\ exists' = exists \cup {File(t)}
          /\ disk' = [disk EXCEPT ![File(t)] = Empty]
          /\ spoiled' = IF LeavesHole(t) THEN spoiled \cup {File(t)}
                        ELSE spoiled \ {File(t)}
    /\ UNCHANGED <<life, build, engine, stopped, requested, faults>>

\* A mutant: the last piece stays in the writer's buffer.
unflushed(t) == at[t] >= Pieces(t)

\* A mutant: one piece too many.
onePieceMore(t) == at[t] = Pieces(t) + 2

WrittenUp(t) == at[t] = Pieces(t) + 1

\* The piece the thread is at is written; the job ends with the last one.
Write(t) ==
    /\ Running(t, "config") \/ Running(t, "asset")
    /\ at[t] >= 2
    /\ disk' = [disk EXCEPT ![File(t)][at[t] - 1] = Source(t)]
    /\ IF WrittenUp(t) THEN JobEnds(t) ELSE Advance(t)
    /\ UNCHANGED <<life, exists, spoiled, build, engine, stopped, requested,
                   faults>>

\* The queue once the list of TAs is known.
WithTAs(jobs, list) == AssetJobs(list) \o Tail(jobs)

\* new Setting, getSetting(TA_LIST).  A torn file, or one that a request has
\* written, may lack some of the list.
InstallTAs(t) ==
    /\ Running(t, "setting") /\ Setting \in exists
    /\ \E n \in 0..Len(TAs) :
         /\ Complete(Setting) /\ Shipped(Setting) => n = Len(TAs)
         /\ todo' = [todo EXCEPT ![t] = WithTAs(@, SubSeq(TAs, 1, n))]
    /\ UNCHANGED <<life, at, files, build, engine, stopped, requested, faults>>

\* The system executes a program that nobody has open for writing.
Executable == Complete(Bin) /\ Unwritten(Bin)

\* Worker.startOpenTEEEngine.  An engine with a torn configuration, or one that
\* is not the shipped one, may give up.
startOpenTEEEngine(t) ==
    /\ Running(t, "start")
    /\ \/ /\ Executable
          /\ engines' = engines \cup {t} /\ booting' = booting \cup {t}
       \/ /\ ~(Executable /\ Complete(Conf) /\ Shipped(Bin) /\ Shipped(Conf))
          /\ UNCHANGED <<engines, booting>>
    /\ JobEnds(t)
    /\ UNCHANGED <<life, files, build, pidFile, socket, stopped, requested, faults>>

\* Worker.stopOpenTEEEngine: kill the process of the pid file, remove the
\* socket file, remove the pid file.
stopOpenTEEEngine(t) ==
    /\ Running(t, "stop")
    /\ \/ /\ at[t] = 0
          /\ engines' = engines \ {pidFile}
          /\ booting' = booting \ {pidFile}
          /\ UNCHANGED <<pidFile, socket, stopped>>
          /\ Advance(t)
       \/ /\ at[t] = 1
          /\ socket' = None
          /\ UNCHANGED <<engines, booting, pidFile, stopped>>
          /\ Advance(t)
       \/ /\ at[t] = 2
          /\ pidFile' = None
          /\ stopped' = stopped \cup {t}
          /\ UNCHANGED <<engines, booting, socket>>
          /\ JobEnds(t)
    /\ UNCHANGED <<life, files, build, requested, faults>>

-----------------------------------------------------------------------------
(* The engine, the system, and what goes wrong.                            *)

\* The engine writes its pid and listens.
EngineUp(e) ==
    /\ e \in booting
    /\ booting' = booting \ {e}
    /\ pidFile' = e /\ socket' = e
    /\ UNCHANGED <<life, todo, at, files, build, engines, stopped, requested,
                   faults>>

\* An engine that finds another one in the pid file gives way to it.
EngineYields(e) ==
    /\ e \in booting /\ pidFile \in engines \ {e}
    /\ engines' = engines \ {e} /\ booting' = booting \ {e}
    /\ UNCHANGED <<life, todo, at, files, build, pidFile, socket, stopped,
                   requested, faults>>

\* An IOException: the job is given up, at any piece.  PrintWriter does not throw,
\* so that a configuration may go on without the piece; without a folder for the
\* TAs the whole installation is given up.
IOFails(t) ==
    /\ todo[t] # <<>> /\ failures < MaxFailures
    /\ failures' = failures + 1
    /\ \/ /\ Running(t, "config") /\ at[t] >= 2 /\ ~WrittenUp(t)
          /\ Advance(t)
       \/ JobEnds(t)
       \/ /\ Running(t, "setting")
          /\ todo' = [todo EXCEPT ![t] = Tail(Tail(@))]
          /\ at' = [at EXCEPT ![t] = 0]
    /\ spoiled' = IF Running(t, "config") \/ Running(t, "asset")
                  THEN spoiled \cup {File(t)} ELSE spoiled
    /\ stopped' = IF Running(t, "stop") THEN stopped \cup {t} ELSE stopped
    /\ UNCHANGED <<life, exists, disk, build, engine, requested, kills>>

\* Every thread is gone; the files stay as they are.
ProcessEnds ==
    /\ life' = [t \in Threads |-> IF life[t] = "new" THEN "new" ELSE "lost"]
    /\ todo' = [t \in Threads |-> <<>>]
    /\ at' = [t \in Threads |-> 0]
    /\ spoiled' = spoiled \cup {f \in Files : ~Unwritten(f)}
    /\ UNCHANGED <<exists, disk, pidFile, socket, stopped, requested>>

\* The engine is a process of its own and may outlive the application's.
EnginesRemain ==
    \E E \in SUBSET engines : engines' = E /\ booting' = booting \cap E

\* Setting loads a null stream when its file is missing: the exception is not
\* caught, and ends the process.
SettingMissing(t) ==
    /\ Running(t, "setting") /\ Setting \notin exists
    /\ ProcessEnds /\ EnginesRemain
    /\ UNCHANGED <<build, faults>>

\* The system kills the process.
Kill ==
    /\ kills < MaxKills /\ kills' = kills + 1
    /\ ProcessEnds /\ EnginesRemain
    /\ UNCHANGED <<build, failures>>

\* The package manager ends every process of the application.
Upgrade ==
    /\ kills < MaxKills /\ kills' = kills + 1
    /\ ProcessEnds
    /\ engines' = {} /\ booting' = {}
    /\ build' \in Builds \ {build}
    /\ UNCHANGED failures

RunJob(t) ==
    \/ LookUp(t) \/ Open(t) \/ Write(t)
    \/ InstallTAs(t) \/ SettingMissing(t)
    \/ startOpenTEEEngine(t) \/ stopOpenTEEEngine(t)

Next ==
    \/ \E a \in Activities : onCreate(a) \/ onDestroy(a)
    \/ \E r \in Requests : otInstallTa(r)
    \/ \E t \in Threads : RunJob(t) \/ IOFails(t)
    \/ \E e \in Activities : EngineUp(e) \/ EngineYields(e)
    \/ Kill \/ Upgrade

Spec == Init /\ [][Next]_vars

-----------------------------------------------------------------------------
(* Properties.                                                             *)

\* The variables keep their types; a thread is inside its running job.
TypeOK ==
    /\ life \in [Threads -> {"new", "live", "destroyed", "lost"}]
    /\ todo \in [Threads -> Seq(Jobs)]
    /\ at \in [Threads -> 0..Blocks + 1]
    /\ exists \in SUBSET Files /\ spoiled \in SUBSET Files
    /\ requested \in SUBSET Files
    /\ disk \in [Files -> [1..Blocks -> Builds \cup Requests \cup {None}]]
    /\ build \in Builds
    /\ engines \in SUBSET Activities /\ booting \in SUBSET engines
    /\ pidFile \in Activities \cup {None} /\ socket \in Activities \cup {None}
    /\ stopped \in SUBSET Activities
    /\ kills \in 0..MaxKills /\ failures \in 0..MaxFailures

\* installConfigToHomeDir, installBytesToHomeDir: several threads may cut and
\* write one file at the same time.  Only three things leave a file that nobody
\* has open without some of its pieces: its last writing failed, or died with the
\* process, or cut into one that was already past the end of it.
QuietFilesComplete ==
    \A f \in exists \ spoiled : Unwritten(f) => Complete(f)

\* Has the thread, in the process that is running, got past this file?
Past(a, f) ==
    /\ life[a] \in {"live", "destroyed"}
    /\ \A i \in 1..Len(todo[a]) : todo[a][i] # Asset(f)

Fresh(f) ==
    /\ f \in exists
    /\ \A b \in 1..Blocks :
         disk[f][b] = IF b <= Length[f][build] THEN build ELSE None

\* OT.installationTask, "fresh copy for open-tee": once an installation of this
\* process has passed an asset, the file is that of the installed build
\* whenever nobody writes it, unless writing it failed or a client has named it
\* in otInstallTa: over upgrades, torn files of killed processes, requests for
\* other files, other activities and an engine that still runs.
AssetsAreFresh ==
    \A a \in Activities, f \in Assets \ (spoiled \cup requested) :
        Past(a, f) /\ Unwritten(f) => Fresh(f)

Quiet == booting = {} /\ \A t \in Threads : todo[t] = <<>>

\* MainActivity, "prepare and start the open-tee engine": however the tasks of
\* several activities and of requests for TAs interleave, once they are done an
\* engine listens, if no activity was destroyed, no process was killed, no I/O
\* failed and no request named another file than a listed TA.
SomeEngineComesUp ==
    (/\ Quiet /\ kills = 0 /\ failures = 0 /\ requested \subseteq Elements(TAs)
     /\ \E a \in Activities : life[a] = "live"
     /\ \A a \in Activities : life[a] # "destroyed")
    => socket \in engines /\ pidFile = socket

\* MainActivity.onDestroy: the stop task, posted before quitSafely, is run
\* whatever the thread still had to do, unless the process dies first: a thread
\* of a destroyed activity that has nothing left to do has run it.
StopNeverDropped ==
    \A a \in Activities :
        life[a] = "destroyed" /\ todo[a] = <<>> => a \in stopped
=============================================================================
