--------------------------- MODULE OTEngineProofs ---------------------------
(***************************************************************************)
(* The launcher, proved for every number of activities, requests, builds,  *)
(* files and pieces, and every length of a file by its source.  The files  *)
(* of the home directory (types, QuietFilesComplete, AssetsAreFresh): the  *)
(* argument is about the pieces that are due, written or still ahead of a  *)
(* thread, which have no hole unless a thread cut the file behind another  *)
(* that was past the end of what it brings.  The tasks                     *)
(* (StopNeverDropped, SomeEngineComesUp): what a step does to a queue is   *)
(* one of seven changes, and of every queue the configurations come first  *)
(* and the start, or the stop of a destroyed activity, comes last.         *)
(***************************************************************************)
EXTENDS OTEngine, WellFoundedInduction, TLAPS

-----------------------------------------------------------------------------
(* Queues as sequences.                                                    *)

\* What Head and Tail of a queue are.
LEMMA TailFacts ==
    ASSUME NEW S, NEW s \in Seq(S), s # <<>>
    PROVE  /\ Len(s) \in Nat \ {0}
           /\ Head(s) = s[1] /\ Head(s) \in S
           /\ Tail(s) \in Seq(S) /\ Len(Tail(s)) = Len(s) - 1
           /\ \A i \in 1..Len(Tail(s)) : Tail(s)[i] = s[i + 1]
  OBVIOUS

\* A queue of two jobs or more.
LEMMA TailOfTwo ==
    ASSUME NEW S, NEW s \in Seq(S), 1 < Len(s)
    PROVE  Tail(s) # <<>>
<1>1. Len(s) \in Nat /\ s # <<>>
  OBVIOUS
<1>2. Len(Tail(s)) = Len(s) - 1
  BY <1>1, TailFacts
<1>3. Len(<<>>) = 0
  OBVIOUS
<1>4. Tail(s) = <<>> => Len(Tail(s)) = Len(<<>>)
  BY Zenon
<1>5. Len(Tail(s)) # 0
  BY <1>1, <1>2
<1> QED  BY <1>3, <1>4, <1>5, Zenon

\* What Append does to a queue.
LEMMA AppendFacts ==
    ASSUME NEW S, NEW s \in Seq(S), NEW e \in S
    PROVE  /\ Append(s, e) \in Seq(S) /\ Append(s, e) # <<>>
           /\ Len(Append(s, e)) = Len(s) + 1
           /\ \A i \in 1..Len(s) : Append(s, e)[i] = s[i]
           /\ Append(s, e)[Len(s) + 1] = e
           /\ s # <<>> => Head(Append(s, e)) = Head(s)
           /\ s = <<>> => Head(Append(s, e)) = e
  OBVIOUS

\* What concatenation does to two queues.
LEMMA ConcatFacts ==
    ASSUME NEW S, NEW s \in Seq(S), NEW u \in Seq(S)
    PROVE  /\ s \o u \in Seq(S) /\ Len(s \o u) = Len(s) + Len(u)
           /\ \A i \in 1..Len(s) : (s \o u)[i] = s[i]
           /\ \A i \in 1..Len(u) : (s \o u)[Len(s) + i] = u[i]
           /\ \A i \in 1..Len(s) + Len(u) : i > Len(s) => (s \o u)[i] = u[i - Len(s)]
  OBVIOUS

\* The jobs of a list of assets.
LEMMA AssetJobsFacts ==
    ASSUME NEW s \in Seq(STRING), Elements(s) \subseteq Files
    PROVE  /\ AssetJobs(s) \in Seq(Jobs) /\ Len(AssetJobs(s)) = Len(s)
           /\ \A i \in 1..Len(s) : AssetJobs(s)[i] = Asset(s[i])
<1>1. \A i \in 1..Len(s) : Asset(s[i]) \in Jobs
  BY DEF Elements, Asset, Jobs
<1>2. Len(s) \in Nat /\ DOMAIN AssetJobs(s) = 1..Len(s)
  BY DEF AssetJobs
<1>3. \A i \in 1..Len(s) : AssetJobs(s)[i] = Asset(s[i])
  BY DEF AssetJobs
<1>4. AssetJobs(s) \in [1..Len(s) -> Jobs]
  BY <1>1 DEF AssetJobs
<1>5. AssetJobs(s) \in Seq(Jobs)
  BY <1>2, <1>4
<1>6. Len(AssetJobs(s)) = Len(s)
  BY <1>2, <1>5
<1> QED  BY <1>3, <1>5, <1>6

\* The files that the tasks name.
LEMMA FileFacts ==
    /\ Conf \in Files /\ Setting \in Files /\ Bin \in Files /\ Bin \in Assets
    /\ Assets \subseteq Files /\ Elements(TAs) \subseteq Files
    /\ Elements(Libraries) \subseteq Files
    /\ Config(Conf) \in Jobs /\ Config(Setting) \in Jobs /\ Asset(Bin) \in Jobs
    /\ ReadSetting \in Jobs /\ Start \in Jobs /\ Stop \in Jobs
    /\ \A f \in Elements(TAs) : f \notin Assets /\ Asset(f) \in Jobs
    /\ \A f \in Assets : f \notin Configs
  BY EngineAssumption
     DEF Files, Configs, Assets, Jobs, Config, Asset, ReadSetting, Start, Stop

\* A prefix of the list of TAs.
LEMMA PrefixFacts ==
    ASSUME NEW n \in 0..Len(TAs)
    PROVE  /\ SubSeq(TAs, 1, n) \in Seq(STRING) /\ Len(SubSeq(TAs, 1, n)) = n
           /\ \A i \in 1..n : SubSeq(TAs, 1, n)[i] \in Elements(TAs)
           /\ Elements(SubSeq(TAs, 1, n)) \subseteq Files
<1>1. TAs \in Seq(STRING)
  BY EngineAssumption
<1>2. /\ SubSeq(TAs, 1, n) \in Seq(STRING) /\ Len(SubSeq(TAs, 1, n)) = n
      /\ \A i \in 1..n : SubSeq(TAs, 1, n)[i] = TAs[i]
  BY <1>1
<1>3. \A i \in 1..n : SubSeq(TAs, 1, n)[i] \in Elements(TAs)
  BY <1>1, <1>2 DEF Elements
<1> QED  BY <1>2, <1>3, FileFacts DEF Elements

-----------------------------------------------------------------------------
(* The shape of the queues and the types.                                  *)

\* The jobs a thread can have ahead of it.
GoodQueue(t, q) ==
    /\ q \in Seq(Jobs)
    /\ t \in Requests => \A i \in 1..Len(q) : q[i].do = "asset"
    /\ \A i \in 1..Len(q) :
         q[i].do = "setting" => i < Len(q) /\ q[i + 1] = Start
    /\ \A i, j \in 1..Len(q) : i < j /\ q[i].do = "start" => q[j].do # "asset"

\* A client has named every file that is installed for one.
QueueInv ==
    \A t \in Threads :
        /\ GoodQueue(t, todo[t])
        /\ life[t] \in {"new", "lost"} => todo[t] = <<>>
        /\ t \in Requests => \A i \in 1..Len(todo[t]) : todo[t][i].file \in requested

\* A thread without jobs.
LEMMA GoodEmpty == ASSUME NEW t PROVE GoodQueue(t, <<>>)
  BY DEF GoodQueue

\* The queue behind the running job.
LEMMA GoodTail ==
    ASSUME NEW t, NEW q, GoodQueue(t, q), q # <<>>
    PROVE  GoodQueue(t, Tail(q))
<1>1. q \in Seq(Jobs)
  BY DEF GoodQueue
<1>2. /\ Len(q) \in Nat \ {0} /\ Tail(q) \in Seq(Jobs) /\ Len(Tail(q)) = Len(q) - 1
      /\ \A i \in 1..Len(Tail(q)) : Tail(q)[i] = q[i + 1] /\ i + 1 \in 1..Len(q)
  BY <1>1, TailFacts
<1> QED  BY <1>2 DEF GoodQueue

\* The stop task behind the queue of an activity.
LEMMA GoodStop ==
    ASSUME NEW a \in Activities, NEW q, GoodQueue(a, q)
    PROVE  GoodQueue(a, quitSafely(q))
<1>1. q \in Seq(Jobs) /\ a \notin Requests /\ Stop \in Jobs
  BY EngineAssumption, FileFacts DEF GoodQueue
<1>2. /\ Append(q, Stop) \in Seq(Jobs) /\ Len(q) \in Nat
      /\ Len(Append(q, Stop)) = Len(q) + 1
      /\ \A i \in 1..Len(q) : Append(q, Stop)[i] = q[i]
      /\ Append(q, Stop)[Len(q) + 1] = Stop
  BY <1>1, AppendFacts
<1>3. Stop.do = "stop"
  BY DEF Stop
<1> QED  BY <1>1, <1>2, <1>3 DEF GoodQueue, quitSafely

\* The installation as a sequence.
LEMMA InstallationFacts ==
    /\ installationTask \in Seq(Jobs)
    /\ Len(Libraries) \in Nat /\ Len(installationTask) = Len(Libraries) + 5
    /\ installationTask[1] = Config(Conf)
    /\ installationTask[2] = Config(Setting)
    /\ installationTask[3] = Asset(Bin)
    /\ \A i \in 1..Len(Libraries) : installationTask[3 + i] = Asset(Libraries[i])
    /\ installationTask[Len(Libraries) + 4] = ReadSetting
    /\ installationTask[Len(Libraries) + 5] = Start
<1> DEFINE first == <<Config(Conf), Config(Setting), Asset(Bin)>>
           mid   == AssetJobs(Libraries)
           last  == <<ReadSetting, Start>>
<1>1. /\ mid \in Seq(Jobs) /\ Len(mid) = Len(Libraries) /\ Len(Libraries) \in Nat
      /\ \A i \in 1..Len(Libraries) : mid[i] = Asset(Libraries[i])
  BY EngineAssumption, FileFacts, AssetJobsFacts
<1>2. first \in Seq(Jobs) /\ Len(first) = 3 /\ last \in Seq(Jobs) /\ Len(last) = 2
  BY FileFacts
<1>3. /\ first[1] = Config(Conf) /\ first[2] = Config(Setting) /\ first[3] = Asset(Bin)
      /\ last[1] = ReadSetting /\ last[2] = Start
  BY DEF first, last
<1> HIDE DEF first, mid, last
<1> DEFINE fm == first \o mid
<1>4. /\ fm \in Seq(Jobs) /\ Len(fm) = 3 + Len(Libraries)
      /\ \A i \in 1..3 : fm[i] = first[i]
      /\ \A i \in 1..Len(Libraries) : fm[3 + i] = mid[i]
  <2>1. /\ fm \in Seq(Jobs) /\ Len(fm) = Len(first) + Len(mid)
        /\ \A i \in 1..Len(first) : fm[i] = first[i]
        /\ \A i \in 1..Len(mid) : fm[Len(first) + i] = mid[i]
    <3>1. first \in Seq(Jobs) /\ mid \in Seq(Jobs)
      BY <1>1, <1>2
    <3> QED  BY <3>1, ConcatFacts
  <2> QED  BY <2>1, <1>1, <1>2
<1> HIDE DEF fm
<1>5. /\ fm \o last \in Seq(Jobs) /\ Len(fm \o last) = Len(fm) + 2
      /\ \A i \in 1..Len(fm) : (fm \o last)[i] = fm[i]
      /\ \A i \in 1..2 : (fm \o last)[Len(fm) + i] = last[i]
  <2>1. fm \in Seq(Jobs) /\ last \in Seq(Jobs)
    BY <1>2, <1>4
  <2>2. /\ fm \o last \in Seq(Jobs) /\ Len(fm \o last) = Len(fm) + Len(last)
        /\ \A i \in 1..Len(fm) : (fm \o last)[i] = fm[i]
        /\ \A i \in 1..Len(last) : (fm \o last)[Len(fm) + i] = last[i]
    BY <2>1, ConcatFacts
  <2> QED  BY <2>2, <1>2
<1>6. installationTask = fm \o last
  BY DEF installationTask, fm, first, mid, last
<1>7. \A i \in 1..Len(Libraries) : (fm \o last)[3 + i] = Asset(Libraries[i])
  BY <1>1, <1>4, <1>5
<1>8. /\ (fm \o last)[1] = Config(Conf) /\ (fm \o last)[2] = Config(Setting)
      /\ (fm \o last)[3] = Asset(Bin)
      /\ (fm \o last)[Len(Libraries) + 4] = ReadSetting
      /\ (fm \o last)[Len(Libraries) + 5] = Start
  BY <1>1, <1>3, <1>4, <1>5
<1> QED  BY <1>1, <1>4, <1>5, <1>6, <1>7, <1>8

\* The kinds of the jobs of an installation.
LEMMA InstallationKinds ==
    \A i \in 1..Len(installationTask) :
        \/ i \in 1..2 /\ installationTask[i].do = "config"
        \/ i \in 3..Len(Libraries) + 3 /\ installationTask[i].do = "asset"
        \/ i = Len(Libraries) + 4 /\ installationTask[i].do = "setting"
        \/ i = Len(Libraries) + 5 /\ installationTask[i].do = "start"
<1>1. \A f : Config(f).do = "config" /\ Asset(f).do = "asset"
  BY DEF Config, Asset
<1>2. ReadSetting.do = "setting" /\ Start.do = "start"
  BY DEF ReadSetting, Start
<1> SUFFICES ASSUME NEW i \in 1..Len(Libraries) + 5
             PROVE  \/ i \in 1..2 /\ installationTask[i].do = "config"
                    \/ i \in 3..Len(Libraries) + 3 /\ installationTask[i].do = "asset"
                    \/ i = Len(Libraries) + 4 /\ installationTask[i].do = "setting"
                    \/ i = Len(Libraries) + 5 /\ installationTask[i].do = "start"
  BY InstallationFacts
<1>3. CASE i \in 1..3 \/ i = Len(Libraries) + 4 \/ i = Len(Libraries) + 5
  BY <1>1, <1>2, <1>3, InstallationFacts
<1>4. CASE i \in 4..Len(Libraries) + 3
  <2>1. i - 3 \in 1..Len(Libraries) /\ 3 + (i - 3) = i
    BY <1>4, InstallationFacts
  <2>2. installationTask[i] = Asset(Libraries[i - 3])
    BY <2>1, InstallationFacts
  <2> QED  BY <1>4, <2>2, <1>1
<1> QED  BY <1>3, <1>4, InstallationFacts

\* The installation is a queue of an activity.
LEMMA GoodInstallation ==
    ASSUME NEW a \in Activities PROVE GoodQueue(a, installationTask)
<1>1. a \notin Requests
  BY EngineAssumption
<1> DEFINE n == Len(Libraries) + 5
<1>5. /\ installationTask \in Seq(Jobs) /\ Len(Libraries) \in Nat /\ n \in Nat
      /\ Len(installationTask) = n /\ installationTask[n] = Start
  BY InstallationFacts
<1>6. \A i \in 1..n : installationTask[i].do = "setting" => i = n - 1
  <2> TAKE i \in 1..n
  <2>1. \/ installationTask[i].do \in {"config", "asset", "start"}
        \/ i = n - 1
    BY InstallationKinds, <1>5
  <2> QED  BY <2>1
<1>7. \A i \in 1..n : installationTask[i].do = "start" => i = n
  <2> TAKE i \in 1..n
  <2>1. \/ installationTask[i].do \in {"config", "asset", "setting"}
        \/ i = n
    BY InstallationKinds, <1>5
  <2> QED  BY <2>1
<1> HIDE DEF n
<1>8. \A i \in 1..Len(installationTask) :
        installationTask[i].do = "setting"
          => i < Len(installationTask) /\ installationTask[i + 1] = Start
  <2> SUFFICES ASSUME NEW i \in 1..n, installationTask[i].do = "setting"
               PROVE  i < n /\ installationTask[i + 1] = Start
    BY <1>5
  <2>1. i = n - 1
    BY <1>6
  <2>2. i < n /\ i + 1 = n
    BY <2>1, <1>5
  <2> QED  BY <2>2, <1>5
<1>9. \A i, j \in 1..Len(installationTask) :
        i < j /\ installationTask[i].do = "start" => installationTask[j].do # "asset"
  <2> SUFFICES ASSUME NEW i \in 1..n, NEW j \in 1..n, i < j,
                      installationTask[i].do = "start"
               PROVE  FALSE
    BY <1>5
  <2>1. i = n
    BY <1>7
  <2> QED  BY <2>1, <1>5
<1> QED  BY <1>1, <1>5, <1>8, <1>9 DEF GoodQueue

\* The TAs before the start.
LEMMA GoodTAs ==
    ASSUME NEW a \in Activities, NEW q, GoodQueue(a, q), q # <<>>,
           NEW n \in 0..Len(TAs)
    PROVE  GoodQueue(a, WithTAs(q, SubSeq(TAs, 1, n)))
<1> DEFINE list == SubSeq(TAs, 1, n)
           front == AssetJobs(list)
<1>1. a \notin Requests
  BY EngineAssumption
<1>2. GoodQueue(a, Tail(q))
  BY GoodTail
<1>3. /\ front \in Seq(Jobs) /\ Len(front) = n /\ n \in Nat
      /\ \A i \in 1..n : front[i].do = "asset"
  <2>1. list \in Seq(STRING) /\ Len(list) = n /\ Elements(list) \subseteq Files
    BY PrefixFacts
  <2>2. /\ front \in Seq(Jobs) /\ Len(front) = Len(list)
        /\ \A i \in 1..Len(list) : front[i] = Asset(list[i])
    BY <2>1, AssetJobsFacts
  <2>3. n \in Nat
    BY EngineAssumption
  <2> HIDE DEF front, list
  <2>4. \A f : Asset(f).do = "asset"
    BY DEF Asset
  <2>5. \A i \in 1..n : front[i].do = "asset"
    BY <2>1, <2>2, <2>4
  <2> QED  BY <2>1, <2>2, <2>3, <2>5
<1> HIDE DEF front
<1> DEFINE r == Tail(q)
<1>4. r \in Seq(Jobs) /\ Len(r) \in Nat
  BY <1>2 DEF GoodQueue
<1>5. /\ front \o r \in Seq(Jobs) /\ Len(front \o r) = n + Len(r)
      /\ \A i \in 1..n : (front \o r)[i] = front[i]
      /\ \A i \in 1..n + Len(r) : i > n => (front \o r)[i] = r[i - n]
  BY <1>3, <1>4, ConcatFacts
<1> HIDE DEF r
<1>6. \A i \in 1..n + Len(r) : i > n => i - n \in 1..Len(r)
  BY <1>3, <1>4
<1>7. GoodQueue(a, r)
  BY <1>2 DEF r
<1>8. GoodQueue(a, front \o r)
  <2>1. \A i \in 1..n + Len(r) :
          (front \o r)[i].do = "setting" =>
             i < n + Len(r) /\ (front \o r)[i + 1] = Start
    <3> SUFFICES ASSUME NEW i \in 1..n + Len(r), (front \o r)[i].do = "setting"
                 PROVE  i < n + Len(r) /\ (front \o r)[i + 1] = Start
      OBVIOUS
    <3>1. i > n
      BY <1>3, <1>4, <1>5
    <3>2. i - n \in 1..Len(r) /\ r[i - n].do = "setting"
      BY <3>1, <1>5, <1>6
    <3>3. i - n < Len(r) /\ r[(i - n) + 1] = Start
      BY <3>2, <1>7 DEF GoodQueue
    <3>4. i + 1 \in 1..n + Len(r) /\ i + 1 > n /\ (i + 1) - n = (i - n) + 1
      BY <3>1, <3>3, <1>3, <1>4
    <3> QED  BY <3>3, <3>4, <1>3, <1>4, <1>5
  <2>2. \A i, j \in 1..n + Len(r) :
          i < j /\ (front \o r)[i].do = "start" => (front \o r)[j].do # "asset"
    <3> SUFFICES ASSUME NEW i \in 1..n + Len(r), NEW j \in 1..n + Len(r), i < j,
                        (front \o r)[i].do = "start"
                 PROVE  (front \o r)[j].do # "asset"
      OBVIOUS
    <3>1. i > n /\ j > n
      BY <1>3, <1>4, <1>5
    <3>2. /\ i - n \in 1..Len(r) /\ j - n \in 1..Len(r) /\ i - n < j - n
          /\ r[i - n].do = "start" /\ (front \o r)[j] = r[j - n]
      BY <3>1, <1>3, <1>4, <1>5, <1>6
    <3> QED  BY <3>2, <1>7 DEF GoodQueue
  <2> QED  BY <2>1, <2>2, <1>1, <1>5 DEF GoodQueue
<1> QED  BY <1>8 DEF WithTAs, front, r

\* A step that changes the queue of one thread.
LEMMA QueueStep ==
    ASSUME TypeOK, QueueInv, NEW t \in Threads, NEW q, GoodQueue(t, q),
           todo' = [todo EXCEPT ![t] = q],
           \A u \in Threads :
              life'[u] \in {"new", "lost"} => life[u] \in {"new", "lost"},
           life'[t] \in {"new", "lost"} => q = <<>>, requested \subseteq requested',
           t \in Requests => \A i \in 1..Len(q) : q[i].file \in requested'
    PROVE  QueueInv' /\ todo' \in [Threads -> Seq(Jobs)]
<1>1. todo \in [Threads -> Seq(Jobs)] /\ q \in Seq(Jobs)
  BY DEF TypeOK, GoodQueue
<1>2. todo' \in [Threads -> Seq(Jobs)]
  BY <1>1
<1>3. ASSUME NEW u \in Threads
      PROVE  /\ GoodQueue(u, todo'[u])
             /\ life'[u] \in {"new", "lost"} => todo'[u] = <<>>
             /\ u \in Requests =>
                  \A i \in 1..Len(todo'[u]) : todo'[u][i].file \in requested'
  BY <1>1, <1>3 DEF QueueInv
<1> QED  BY <1>2, <1>3 DEF QueueInv

\* A step that leaves the queues alone.
LEMMA SameQueues ==
    ASSUME TypeOK, QueueInv, todo' = todo, life' = life, requested' = requested
    PROVE  QueueInv' /\ todo' \in [Threads -> Seq(Jobs)]
  BY DEF QueueInv, TypeOK

\* What is known of a thread that is running a job.
LEMMA RunningFacts ==
    ASSUME TypeOK, QueueInv, NEW t \in Threads, todo[t] # <<>>
    PROVE  /\ todo[t] \in Seq(Jobs) /\ Head(todo[t]) \in Jobs
           /\ Head(todo[t]) = todo[t][1] /\ Len(todo[t]) \in Nat \ {0}
           /\ File(t) \in Files /\ life[t] \notin {"new", "lost"}
           /\ at[t] \in 0..Blocks + 1
           /\ GoodQueue(t, Tail(todo[t]))
           /\ Head(todo[t]).do # "asset" => t \in Activities
           /\ t \in Requests => File(t) \in requested
           /\ t \in Requests => \A i \in 1..Len(Tail(todo[t])) :
                Tail(todo[t])[i].file \in requested
<1>1. todo[t] \in Seq(Jobs) /\ at[t] \in 0..Blocks + 1
  BY DEF TypeOK
<1>2. Head(todo[t]) = todo[t][1] /\ Head(todo[t]) \in Jobs /\ Len(todo[t]) \in Nat \ {0}
  BY <1>1, TailFacts
<1>3. File(t) \in Files
  BY <1>2 DEF File, Jobs
<1>4. GoodQueue(t, todo[t]) /\ life[t] \notin {"new", "lost"}
  BY DEF QueueInv
<1>5. GoodQueue(t, Tail(todo[t]))
  BY <1>4, GoodTail
<1>6. t \in Requests => todo[t][1].do = "asset" /\ todo[t][1].file \in requested
  BY <1>2, <1>4 DEF GoodQueue, QueueInv
<1>7. \A i \in 1..Len(Tail(todo[t])) : i + 1 \in 1..Len(todo[t])
                                          /\ Tail(todo[t])[i] = todo[t][i + 1]
  BY <1>1, TailFacts
<1>8. t \in Requests => \A i \in 1..Len(Tail(todo[t])) :
                            Tail(todo[t])[i].file \in requested
  BY <1>7 DEF QueueInv
<1> QED  BY <1>1, <1>2, <1>3, <1>4, <1>5, <1>6, <1>8 DEF File, Threads

\* How long the file is that the thread installs.
LEMMA PiecesFacts ==
    ASSUME TypeOK, QueueInv, NEW t \in Threads, todo[t] # <<>>
    PROVE  /\ Source(t) \in Builds \cup Requests /\ Source(t) # None
           /\ Pieces(t) \in 1..Blocks /\ Blocks \in Nat \ {0}
<1>1. Source(t) \in Builds \cup Requests
  BY DEF Source, TypeOK
<1>2. File(t) \in Files
  BY RunningFacts
<1> QED  BY <1>1, <1>2, EngineAssumption DEF Pieces

\* A running job that ends or goes on.
LEMMA JobStep ==
    ASSUME TypeOK, QueueInv, NEW t \in Threads, todo[t] # <<>>, life' = life,
           requested' = requested,
           JobEnds(t) \/ (Advance(t) /\ at[t] <= Blocks)
    PROVE  QueueInv' /\ todo' \in [Threads -> Seq(Jobs)]
           /\ at' \in [Threads -> 0..Blocks + 1]
<1>1. at \in [Threads -> 0..Blocks + 1] /\ Blocks \in Nat \ {0}
  BY EngineAssumption DEF TypeOK
<1>2. CASE JobEnds(t)
  <2>1. todo' = [todo EXCEPT ![t] = Tail(todo[t])] /\ at' = [at EXCEPT ![t] = 0]
    BY <1>2 DEF JobEnds
  <2>2. QueueInv' /\ todo' \in [Threads -> Seq(Jobs)]
    BY <2>1, RunningFacts, QueueStep
  <2> QED  BY <1>1, <2>1, <2>2
<1>3. CASE Advance(t) /\ at[t] <= Blocks
  <2>1. todo' = todo /\ at' = [at EXCEPT ![t] = at[t] + 1]
    BY <1>3 DEF Advance
  <2>2. QueueInv' /\ todo' \in [Threads -> Seq(Jobs)]
    BY <2>1, SameQueues
  <2>3. at[t] + 1 \in 0..Blocks + 1
    BY <1>1, <1>3
  <2> QED  BY <1>1, <2>1, <2>2, <2>3
<1> QED  BY <1>2, <1>3

\* A thread is at the beginning of a job that has no steps, or of none; a file
\* that it has open is in the home directory, and the thread inside it.
OpenInv ==
    /\ \A t \in Threads :
         todo[t] = <<>> \/ Head(todo[t]).do \in {"setting", "start"} => at[t] = 0
    /\ \A t \in Threads, f \in Files : Writing(t, f) => f \in exists
    /\ \A t \in Threads : Writing(t, File(t)) => at[t] <= Pieces(t) + 1

\* What a step never takes back.
LEMMA NeverTakenBack ==
    ASSUME TypeOK, [Next]_vars
    PROVE  /\ exists \subseteq exists' /\ stopped \subseteq stopped'
           /\ requested \subseteq requested'
           /\ failures' = 0 => failures = 0
           /\ kills' = 0 => kills = 0
<1> USE DEF files, engine, faults
<1>0. kills \in Nat /\ failures \in Nat
  BY EngineAssumption DEF TypeOK
<1>1. CASE Kill \/ Upgrade \/ \E t \in Threads : SettingMissing(t)
  BY <1>0, <1>1 DEF Kill, Upgrade, SettingMissing, ProcessEnds
<1>2. CASE \E t \in Threads : LookUp(t) \/ Open(t) \/ Write(t) \/ InstallTAs(t)
  BY <1>2 DEF LookUp, Open, Write, InstallTAs
<1>3. CASE \E t \in Threads : startOpenTEEEngine(t) \/ stopOpenTEEEngine(t)
  BY <1>3 DEF startOpenTEEEngine, stopOpenTEEEngine
<1>4. CASE \E t \in Threads : IOFails(t)
  BY <1>0, <1>4 DEF IOFails
<1>5. CASE \/ \E a \in Activities : onCreate(a) \/ onDestroy(a)
           \/ \E r \in Requests : otInstallTa(r)
           \/ \E e \in Activities : EngineUp(e) \/ EngineYields(e)
           \/ UNCHANGED vars
  BY <1>5 DEF onCreate, onDestroy, otInstallTa, EngineUp, EngineYields, vars
<1> QED  BY <1>1, <1>2, <1>3, <1>4, <1>5 DEF Next, RunJob

\* A file is there once it is open, and its writer stays inside it.
LEMMA OpenStep ==
    ASSUME TypeOK, QueueInv, OpenInv, [Next]_vars
    PROVE  OpenInv'
<1> USE DEF files, engine, faults
<1>0. /\ todo \in [Threads -> Seq(Jobs)] /\ at \in [Threads -> 0..Blocks + 1]
      /\ Activities \subseteq Threads /\ Requests \subseteq Threads
      /\ exists \subseteq exists' /\ Blocks \in Nat
  BY EngineAssumption, NeverTakenBack DEF TypeOK, Threads
<1>1. ASSUME NEW t \in Threads, build' = build,
             \A u \in Threads \ {t} : todo'[u] = todo[u] /\ at'[u] = at[u],
             todo'[t] = <<>> \/ Head(todo'[t]).do \in {"setting", "start"}
               => at'[t] = 0,
             \A f \in Files : Writing(t, f)' => Writing(t, f) \/ f \in exists',
             Writing(t, File(t))' => at'[t] <= Pieces(t)' + 1
      PROVE  OpenInv'
  <2>1. ASSUME NEW u \in Threads
        PROVE  /\ todo'[u] = <<>> \/ Head(todo'[u]).do \in {"setting", "start"}
                    => at'[u] = 0
               /\ \A f \in Files : Writing(u, f)' => Writing(u, f) \/ f \in exists'
               /\ Writing(u, File(u))' => at'[u] <= Pieces(u)' + 1
    <3>1. CASE u = t
      BY <1>1, <3>1
    <3>2. CASE u # t
      BY <1>1, <3>2 DEF OpenInv, Writing, Running, File, Pieces, Source
    <3> QED  BY <3>1, <3>2
  <2> QED  BY <1>0, <2>1 DEF OpenInv
<1>2. ASSUME NEW t \in Threads, at'[t] \in {0, 1} PROVE \A f : ~Writing(t, f)'
  BY <1>2 DEF Writing
<1>3. ASSUME NEW t \in Threads, JobEnds(t), build' = build PROVE OpenInv'
  <2>1. at'[t] = 0 /\ \A u \in Threads \ {t} : todo'[u] = todo[u] /\ at'[u] = at[u]
    BY <1>0, <1>3 DEF JobEnds
  <2> QED  BY <1>1, <1>2, <1>3, <2>1
<1>4. ASSUME NEW t \in Threads, Advance(t), todo[t] # <<>>, build' = build,
             Head(todo[t]).do \in {"config", "asset", "stop"},
             at[t] = 1 => Head(todo[t]).do = "stop" \/ File(t) \in exists',
             at[t] >= 2 => Head(todo[t]).do = "stop" \/ ~WrittenUp(t)
      PROVE  OpenInv'
  <2>1. /\ todo' = todo /\ at'[t] = at[t] + 1 /\ at[t] \in Nat
        /\ \A u \in Threads \ {t} : at'[u] = at[u]
    BY <1>0, <1>4 DEF Advance
  <2>2. ASSUME NEW f \in Files, Writing(t, f)' PROVE Writing(t, f) \/ f \in exists'
    <3>1. Head(todo[t]).do # "stop" /\ File(t) = f
      BY <2>1, <2>2 DEF Writing, Running, File
    <3>2. CASE at[t] < 1
      BY <1>2, <2>1, <2>2, <3>2
    <3>3. CASE at[t] = 1
      BY <1>4, <3>1, <3>3
    <3>4. CASE at[t] >= 2
      BY <1>4, <3>1, <3>4 DEF Writing, Running
    <3> QED  BY <2>1, <3>2, <3>3, <3>4
  <2>3. ASSUME Writing(t, File(t))' PROVE at'[t] <= Pieces(t)' + 1
    <3>1. Head(todo[t]).do # "stop" /\ Pieces(t)' = Pieces(t)
      BY <1>4, <2>1, <2>3 DEF Writing, Running, File, Pieces, Source
    <3>2. Pieces(t) \in 1..Blocks
      BY <1>4, PiecesFacts
    <3>3. CASE at[t] < 2
      BY <1>0, <2>1, <3>1, <3>2, <3>3
    <3>4. CASE at[t] >= 2
      <4>1. Writing(t, File(t))
        BY <1>4, <3>1, <3>4 DEF Writing, Running
      <4>2. at[t] <= Pieces(t) + 1 /\ at[t] # Pieces(t) + 1
        BY <1>4, <3>1, <3>4, <4>1 DEF OpenInv, WrittenUp
      <4> QED  BY <1>0, <2>1, <3>1, <3>2, <4>2
    <3> QED  BY <2>1, <3>3, <3>4
  <2> QED  BY <1>1, <1>4, <2>1, <2>2, <2>3
<1>5. ASSUME NEW a \in Activities, onCreate(a) PROVE OpenInv'
  <2>1. at'[a] = 0 /\ \A u \in Threads \ {a} : todo'[u] = todo[u] /\ at'[u] = at[u]
    BY <1>0, <1>5 DEF onCreate, QueueInv, OpenInv
  <2>2. build' = build
    BY <1>5 DEF onCreate
  <2> QED  BY <1>0, <1>1, <1>2, <2>1, <2>2
<1>6. ASSUME NEW r \in Requests, otInstallTa(r) PROVE OpenInv'
  <2>1. at'[r] = 0 /\ \A u \in Threads \ {r} : todo'[u] = todo[u] /\ at'[u] = at[u]
    BY <1>0, <1>6 DEF otInstallTa, QueueInv, OpenInv
  <2>2. build' = build
    BY <1>6 DEF otInstallTa
  <2> QED  BY <1>0, <1>1, <1>2, <2>1, <2>2
<1>7. ASSUME NEW a \in Activities, onDestroy(a) PROVE OpenInv'
  <2>1. /\ todo'[a] = Append(todo[a], Stop) /\ at'[a] = at[a] /\ build' = build
        /\ \A u \in Threads \ {a} : todo'[u] = todo[u] /\ at'[u] = at[u]
    BY <1>0, <1>7 DEF onDestroy, quitSafely
  <2>2. /\ todo'[a] # <<>>
        /\ todo[a] = <<>> \/ Head(todo'[a]) = Head(todo[a])
    BY <1>0, <2>1, AppendFacts, FileFacts
  <2>3. CASE todo[a] = <<>>
    <3>1. at'[a] = 0
      BY <1>0, <2>1, <2>3 DEF OpenInv
    <3> QED  BY <1>0, <1>1, <1>2, <2>1, <3>1
  <2>4. CASE todo[a] # <<>>
    <3>1. Head(todo'[a]).do \in {"setting", "start"} => at'[a] = 0
      BY <1>0, <2>1, <2>2, <2>4 DEF OpenInv
    <3>2. \A f \in Files : Writing(a, f)' => Writing(a, f)
      BY <2>1, <2>2, <2>4 DEF Writing, Running, File
    <3>3. Writing(a, File(a))' => at'[a] <= Pieces(a)' + 1
      BY <1>0, <2>1, <2>2, <2>4 DEF OpenInv, Writing, Running, File, Pieces, Source
    <3> QED  BY <1>0, <1>1, <2>1, <2>2, <3>1, <3>2, <3>3
  <2> QED  BY <2>3, <2>4
<1>8. ASSUME NEW t \in Threads, LookUp(t) PROVE OpenInv'
  BY <1>3, <1>4, <1>8 DEF LookUp, Running
<1>9. ASSUME NEW t \in Threads, Open(t) PROVE OpenInv'
  BY <1>3, <1>4, <1>9 DEF Open, Running
<1>10. ASSUME NEW t \in Threads, Write(t) PROVE OpenInv'
  <2>1. /\ todo[t] # <<>> /\ Head(todo[t]).do \in {"config", "asset"} /\ at[t] >= 2
        /\ build' = build /\ (JobEnds(t) \/ (Advance(t) /\ ~WrittenUp(t)))
    BY <1>10 DEF Write, Running
  <2> QED  BY <1>0, <1>3, <1>4, <2>1
<1>11. ASSUME NEW t \in Threads, InstallTAs(t) PROVE OpenInv'
  <2>1. at'[t] = 0 /\ \A u \in Threads \ {t} : todo'[u] = todo[u] /\ at'[u] = at[u]
    BY <1>0, <1>11 DEF InstallTAs, Running, OpenInv
  <2>2. build' = build
    BY <1>11 DEF InstallTAs
  <2> QED  BY <1>1, <1>2, <2>1, <2>2
<1>12. ASSUME NEW t \in Threads, startOpenTEEEngine(t) \/ stopOpenTEEEngine(t)
       PROVE  OpenInv'
  BY <1>3, <1>4, <1>12 DEF startOpenTEEEngine, stopOpenTEEEngine, Running
<1>13. ASSUME NEW t \in Threads, IOFails(t) PROVE OpenInv'
  <2>0. build' = build
    BY <1>13 DEF IOFails
  <2>1. CASE Running(t, "config") /\ at[t] >= 2 /\ ~WrittenUp(t) /\ Advance(t)
    BY <1>0, <1>4, <2>0, <2>1 DEF Running
  <2>2. CASE /\ todo' = [todo EXCEPT ![t] = Tail(Tail(todo[t]))]
             /\ at' = [at EXCEPT ![t] = 0]
    <3>1. at'[t] = 0 /\ \A u \in Threads \ {t} : todo'[u] = todo[u] /\ at'[u] = at[u]
      BY <1>0, <2>2
    <3> QED  BY <1>1, <1>2, <2>0, <3>1
  <2> QED  BY <1>3, <1>13, <2>0, <2>1, <2>2 DEF IOFails
<1>14. ASSUME ProcessEnds PROVE OpenInv'
  <2>1. \A t \in Threads : todo'[t] = <<>> /\ at'[t] = 0
    BY <1>14 DEF ProcessEnds
  <2> QED  BY <2>1 DEF OpenInv, Writing, Running
<1>15. ASSUME (\E e \in Activities : EngineUp(e) \/ EngineYields(e)) \/ UNCHANGED vars
       PROVE  OpenInv'
  BY <1>15 DEF EngineUp, EngineYields, vars, OpenInv, Writing, Running, File, Pieces,
               Source
<1> QED
  BY <1>5, <1>6, <1>7, <1>8, <1>9, <1>10, <1>11, <1>12, <1>13, <1>14, <1>15
     DEF Next, RunJob, SettingMissing, Kill, Upgrade

\* The types and the queues are preserved by every step.
LEMMA TypeStep ==
    ASSUME TypeOK, QueueInv, OpenInv, [Next]_vars
    PROVE  TypeOK' /\ QueueInv'
<1> USE EngineAssumption DEF files, engine, faults
<1>0. /\ life \in [Threads -> {"new", "live", "destroyed", "lost"}]
      /\ exists \in SUBSET Files /\ spoiled \in SUBSET Files
      /\ disk \in [Files -> [1..Blocks -> Builds \cup Requests \cup {None}]]
      /\ build \in Builds /\ engines \in SUBSET Activities
      /\ booting \in SUBSET engines /\ stopped \in SUBSET Activities
      /\ pidFile \in Activities \cup {None} /\ socket \in Activities \cup {None}
      /\ kills \in 0..MaxKills /\ failures \in 0..MaxFailures
      /\ at \in [Threads -> 0..Blocks + 1] /\ requested \in SUBSET Files
  BY DEF TypeOK
<1>1. ASSUME NEW a \in Activities, onCreate(a) PROVE TypeOK' /\ QueueInv'
  <2>0. a \in Threads /\ a \notin Requests
    BY DEF Threads
  <2>1. QueueInv' /\ todo' \in [Threads -> Seq(Jobs)]
    BY <1>1, <1>0, <2>0, GoodInstallation, QueueStep DEF onCreate
  <2> QED  BY <1>1, <1>0, <2>1 DEF onCreate, TypeOK
<1>2. ASSUME NEW a \in Activities, onDestroy(a) PROVE TypeOK' /\ QueueInv'
  <2>0. a \in Threads /\ a \notin Requests
    BY DEF Threads
  <2>1. GoodQueue(a, quitSafely(todo[a]))
    BY <2>0, GoodStop DEF QueueInv
  <2>2. QueueInv' /\ todo' \in [Threads -> Seq(Jobs)]
    BY <1>2, <1>0, <2>0, <2>1, QueueStep DEF onDestroy
  <2> QED  BY <1>2, <1>0, <2>2 DEF onDestroy, TypeOK
<1>3. ASSUME NEW r \in Requests, otInstallTa(r) PROVE TypeOK' /\ QueueInv'
  <2>1. PICK f \in Files : /\ todo' = [todo EXCEPT ![r] = <<Asset(f)>>]
                           /\ requested' = requested \cup {f}
    BY <1>3 DEF otInstallTa
  <2>2. Asset(f) \in Jobs /\ Asset(f).do = "asset" /\ Asset(f).file = f
    BY DEF Asset, Jobs
  <2>3. GoodQueue(r, <<Asset(f)>>)
    BY <2>2 DEF GoodQueue
  <2>4. \A i \in 1..Len(<<Asset(f)>>) : <<Asset(f)>>[i].file \in requested'
    BY <2>1, <2>2
  <2>5. QueueInv' /\ todo' \in [Threads -> Seq(Jobs)]
    BY <1>3, <1>0, <2>1, <2>3, <2>4, QueueStep DEF otInstallTa, Threads
  <2>6. requested' \in SUBSET Files
    BY <1>0, <2>1
  <2> QED  BY <1>3, <1>0, <2>5, <2>6 DEF otInstallTa, TypeOK
<1>4. ASSUME NEW t \in Threads, LookUp(t) PROVE TypeOK' /\ QueueInv'
  <2>1. todo[t] # <<>> /\ at[t] = 0 /\ (JobEnds(t) \/ Advance(t))
    BY <1>4 DEF LookUp, Running
  <2>2. QueueInv' /\ todo' \in [Threads -> Seq(Jobs)] /\ at' \in [Threads -> 0..Blocks + 1]
    BY <1>4, <2>1, JobStep DEF LookUp
  <2> QED  BY <1>4, <1>0, <2>2 DEF LookUp, TypeOK
<1>5. ASSUME NEW t \in Threads, Open(t) PROVE TypeOK' /\ QueueInv'
  <2>1. todo[t] # <<>> /\ at[t] = 1 /\ (JobEnds(t) \/ Advance(t))
    BY <1>5 DEF Open, Running
  <2>2. QueueInv' /\ todo' \in [Threads -> Seq(Jobs)] /\ at' \in [Threads -> 0..Blocks + 1]
    BY <1>5, <2>1, JobStep DEF Open
  <2>3. File(t) \in Files
    BY <2>1, RunningFacts
  <2>4. Empty \in [1..Blocks -> Builds \cup Requests \cup {None}]
    BY DEF Empty
  <2>5. /\ disk' \in [Files -> [1..Blocks -> Builds \cup Requests \cup {None}]]
        /\ exists' \in SUBSET Files /\ spoiled' \in SUBSET Files
    <3>1. CASE UNCHANGED files
      BY <1>0, <3>1
    <3>2. CASE /\ exists' = exists \cup {File(t)}
               /\ disk' = [disk EXCEPT ![File(t)] = Empty]
               /\ spoiled' \in {spoiled \cup {File(t)}, spoiled \ {File(t)}}
      BY <1>0, <2>3, <2>4, <3>2
    <3> QED  BY <1>5, <3>1, <3>2 DEF Open
  <2> QED  BY <1>5, <1>0, <2>2, <2>5 DEF Open, TypeOK
<1>6. ASSUME NEW t \in Threads, Write(t) PROVE TypeOK' /\ QueueInv'
  <2>1. todo[t] # <<>> /\ at[t] >= 2 /\ at[t] \in 0..Blocks + 1
    BY <1>6, <1>0 DEF Write, Running
  <2>2. JobEnds(t) \/ (Advance(t) /\ at[t] <= Blocks)
    <3>1. Writing(t, File(t))
      BY <1>6 DEF Write, Writing
    <3>2. at[t] <= Pieces(t) + 1 /\ Pieces(t) \in 1..Blocks
      BY <2>1, <3>1, PiecesFacts DEF OpenInv
    <3> QED  BY <1>6, <2>1, <3>2 DEF Write, WrittenUp
  <2>3. QueueInv' /\ todo' \in [Threads -> Seq(Jobs)] /\ at' \in [Threads -> 0..Blocks + 1]
    BY <1>6, <2>1, <2>2, JobStep DEF Write
  <2>4. File(t) \in Files /\ at[t] - 1 \in 1..Blocks
    BY <2>1, RunningFacts
  <2>5. Source(t) \in Builds \cup Requests \cup {None}
    BY <1>0 DEF Source
  <2>6. disk' \in [Files -> [1..Blocks -> Builds \cup Requests \cup {None}]]
    BY <1>6, <1>0, <2>4, <2>5 DEF Write
  <2> QED  BY <1>6, <1>0, <2>3, <2>6 DEF Write, TypeOK
<1>7. ASSUME NEW t \in Threads, InstallTAs(t) PROVE TypeOK' /\ QueueInv'
  <2>1. todo[t] # <<>> /\ Head(todo[t]).do = "setting"
    BY <1>7 DEF InstallTAs, Running
  <2>2. t \in Activities /\ GoodQueue(t, todo[t]) /\ life[t] \notin {"new", "lost"}
    BY <2>1, RunningFacts DEF QueueInv
  <2>3. PICK n \in 0..Len(TAs) :
             todo' = [todo EXCEPT ![t] = WithTAs(todo[t], SubSeq(TAs, 1, n))]
    BY <1>7 DEF InstallTAs
  <2>4. GoodQueue(t, WithTAs(todo[t], SubSeq(TAs, 1, n)))
    BY <2>1, <2>2, GoodTAs
  <2>5. QueueInv' /\ todo' \in [Threads -> Seq(Jobs)]
    BY <1>7, <2>2, <2>3, <2>4, QueueStep DEF InstallTAs, Threads
  <2> QED  BY <1>7, <1>0, <2>5 DEF InstallTAs, TypeOK
<1>8. ASSUME NEW t \in Threads, startOpenTEEEngine(t) PROVE TypeOK' /\ QueueInv'
  <2>1. todo[t] # <<>> /\ Head(todo[t]).do = "start" /\ JobEnds(t)
    BY <1>8 DEF startOpenTEEEngine, Running
  <2>2. QueueInv' /\ todo' \in [Threads -> Seq(Jobs)] /\ at' \in [Threads -> 0..Blocks + 1]
    BY <1>8, <2>1, JobStep DEF startOpenTEEEngine
  <2>3. t \in Activities
    BY <2>1, RunningFacts
  <2> QED  BY <1>8, <1>0, <2>2, <2>3 DEF startOpenTEEEngine, TypeOK
<1>9. ASSUME NEW t \in Threads, stopOpenTEEEngine(t) PROVE TypeOK' /\ QueueInv'
  <2>1. todo[t] # <<>> /\ Head(todo[t]).do = "stop"
    BY <1>9 DEF stopOpenTEEEngine, Running
  <2>2. JobEnds(t) \/ (Advance(t) /\ at[t] <= Blocks)
    BY <1>9, <1>0 DEF stopOpenTEEEngine
  <2>3. QueueInv' /\ todo' \in [Threads -> Seq(Jobs)] /\ at' \in [Threads -> 0..Blocks + 1]
    BY <1>9, <2>1, <2>2, JobStep DEF stopOpenTEEEngine
  <2>4. t \in Activities
    BY <2>1, RunningFacts
  <2> QED  BY <1>9, <1>0, <2>3, <2>4 DEF stopOpenTEEEngine, TypeOK
<1>10. ASSUME NEW t \in Threads, IOFails(t) PROVE TypeOK' /\ QueueInv'
  <2>1. /\ todo[t] # <<>> /\ at[t] \in 0..Blocks + 1 /\ File(t) \in Files /\ life' = life
        /\ requested' = requested
    BY <1>10, <1>0, RunningFacts DEF IOFails
  <2>2. QueueInv' /\ todo' \in [Threads -> Seq(Jobs)] /\ at' \in [Threads -> 0..Blocks + 1]
    <3>1. CASE Running(t, "config") /\ at[t] >= 2 /\ ~WrittenUp(t) /\ Advance(t)
      <4>1. Writing(t, File(t))
        BY <3>1 DEF Writing
      <4>2. at[t] <= Pieces(t) + 1 /\ Pieces(t) \in 1..Blocks
        BY <2>1, <4>1, PiecesFacts DEF OpenInv
      <4>3. at[t] <= Blocks
        BY <2>1, <3>1, <4>2 DEF WrittenUp
      <4> QED  BY <3>1, <2>1, <4>3, JobStep
    <3>2. CASE JobEnds(t)
      BY <3>2, <2>1, JobStep
    <3>3. CASE /\ Running(t, "setting") /\ at' = [at EXCEPT ![t] = 0]
               /\ todo' = [todo EXCEPT ![t] = Tail(Tail(todo[t]))]
      <4>1. /\ GoodQueue(t, todo[t]) /\ todo[t][1].do = "setting" /\ life[t] \notin {"new", "lost"}
            /\ todo[t] \in Seq(Jobs) /\ Len(todo[t]) \in Nat \ {0} /\ t \notin Requests
        BY <3>3, <2>1, RunningFacts DEF QueueInv, Running
      <4>2. 1 < Len(todo[t])
        BY <4>1 DEF GoodQueue
      <4>3. Tail(todo[t]) # <<>>
        BY <4>1, <4>2, TailOfTwo
      <4>4. GoodQueue(t, Tail(Tail(todo[t])))
        BY <2>1, <4>1, <4>3, GoodTail
      <4>5. QueueInv' /\ todo' \in [Threads -> Seq(Jobs)]
        BY <3>3, <2>1, <4>1, <4>4, QueueStep
      <4> QED  BY <3>3, <1>0, <4>5
    <3> QED  BY <1>10, <3>1, <3>2, <3>3 DEF IOFails
  <2>3. Head(todo[t]).do = "stop" => t \in Activities
    BY <2>1, RunningFacts
  <2>4. spoiled' \in SUBSET Files /\ stopped' \in SUBSET Activities
    BY <1>10, <1>0, <2>1, <2>3 DEF IOFails, Running
  <2> QED  BY <1>10, <1>0, <2>2, <2>4 DEF IOFails, TypeOK
<1>11. ASSUME NEW e \in Activities, EngineUp(e) \/ EngineYields(e)
       PROVE  TypeOK' /\ QueueInv'
  <2>1. QueueInv' /\ todo' \in [Threads -> Seq(Jobs)]
    BY <1>11, SameQueues DEF EngineUp, EngineYields
  <2> QED  BY <1>11, <1>0, <2>1 DEF EngineUp, EngineYields, TypeOK
<1>12. ASSUME ProcessEnds, engines' \in SUBSET engines, booting' \in SUBSET engines',
              build' \in Builds, kills' \in 0..MaxKills, failures' \in 0..MaxFailures
       PROVE  TypeOK' /\ QueueInv'
  <2>1. todo' = [t \in Threads |-> <<>>] /\ at' = [t \in Threads |-> 0]
    BY <1>12 DEF ProcessEnds
  <2>2. ASSUME NEW t \in Threads PROVE GoodQueue(t, todo'[t]) /\ todo'[t] = <<>>
    BY <2>1, GoodEmpty
  <2>3. QueueInv'
    BY <2>2 DEF QueueInv
  <2>4. todo' \in [Threads -> Seq(Jobs)] /\ at' \in [Threads -> 0..Blocks + 1]
    BY <2>1
  <2> QED  BY <1>12, <1>0, <2>3, <2>4 DEF ProcessEnds, TypeOK
<1>13. ASSUME (\E t \in Threads : SettingMissing(t)) \/ Kill \/ Upgrade
       PROVE  TypeOK' /\ QueueInv'
  BY <1>12, <1>13, <1>0 DEF SettingMissing, Kill, Upgrade, EnginesRemain
<1>14. CASE UNCHANGED vars
  <2>1. QueueInv' /\ todo' \in [Threads -> Seq(Jobs)]
    BY <1>14, SameQueues DEF vars
  <2> QED  BY <1>14, <1>0, <2>1 DEF vars, TypeOK
<1> QED
  BY <1>1, <1>2, <1>3, <1>4, <1>5, <1>6, <1>7, <1>8, <1>9, <1>10, <1>11, <1>13, <1>14
     DEF Next, RunJob

\* The initial state has the types and empty queues.
LEMMA TypeInit == ASSUME Init PROVE TypeOK /\ QueueInv /\ OpenInv
<1>1. \A t \in Threads : GoodQueue(t, todo[t]) /\ todo[t] = <<>> /\ at[t] = 0
  BY GoodEmpty DEF Init
<1>2. TypeOK /\ QueueInv
  BY <1>1, EngineAssumption DEF Init, TypeOK, QueueInv, Empty
<1> QED  BY <1>1, <1>2 DEF OpenInv, Writing, Running

\* Every reachable state is type-correct: in particular only an activity's
\* thread starts or stops an engine, and no thread runs past its file.
THEOREM TypeCorrect == Spec => []TypeOK
<1>1. Init => TypeOK /\ QueueInv /\ OpenInv
  BY TypeInit
<1>2. TypeOK /\ QueueInv /\ OpenInv /\ [Next]_vars => TypeOK' /\ QueueInv' /\ OpenInv'
  BY TypeStep, OpenStep
<1> QED  BY <1>1, <1>2, PTL DEF Spec

-----------------------------------------------------------------------------
(* The holes of a file.                                                    *)

\* The thread is going to write this piece of the file.
Ahead(t, f, b) ==
    /\ Writing(t, f)
    /\ at[t] - 1 <= b /\ b <= Length[f][Source(t)]

\* The piece is there or is going to be.
Due(f, b) == disk[f][b] # None \/ \E t \in Threads : Ahead(t, f, b)

\* Unless the file is spoiled, the pieces that are due have no hole and reach
\* up to the end of each source that the file has a piece of.
HolesCovered ==
    \A f \in exists \ spoiled :
        /\ Due(f, 1)
        /\ \A b, c \in 1..Blocks : b < c /\ Due(f, c) => Due(f, b)
        /\ \A b, c \in 1..Blocks :
             disk[f][b] # None /\ c = Length[f][disk[f][b]] => Due(f, c)

\* A piece lies within the file that it comes from, and comes from a request
\* only if one has named the file.
DiskInv ==
    \A f \in Files, b \in 1..Blocks : disk[f][b] # None =>
        /\ b <= Length[f][disk[f][b]]
        /\ disk[f][b] \in Requests => f \in requested

\* A bounded set of pieces has a last one.
LEMMA LastPiece ==
    ASSUME NEW N \in Nat, NEW T, T \subseteq 1..N, T # {}
    PROVE  \E n \in T : \A b \in T : b <= n
<1> DEFINE U == {N - b : b \in T}
<1>1. U \subseteq Nat /\ U # {}
  <2>1. \A b \in T : N - b \in Nat
    OBVIOUS
  <2> QED  BY <2>1
<1> HIDE DEF U
<1> DEFINE R == OpToRel(<, Nat)
<1>2. IsWellFoundedOn(R, Nat)
  BY NatLessThanWellFounded
<1>3. \A x, y \in Nat : y < x => <<y, x>> \in R
  BY DEF OpToRel
<1> HIDE DEF R
<1>4. PICK x \in U : \A y \in U : ~(<<y, x>> \in R)
  BY <1>1, <1>2, WFMin
<1>5. \A y \in U : ~(y < x)
  BY <1>1, <1>3, <1>4
<1>6. PICK n \in T : x = N - n
  BY <1>4 DEF U
<1>7. ASSUME NEW b \in T PROVE b <= n
  <2>1. N - b \in U /\ b \in 1..N /\ n \in 1..N
    BY <1>6 DEF U
  <2>2. ~(N - b < N - n)
    BY <1>5, <1>6, <2>1
  <2> QED  BY <2>1, <2>2
<1> QED  BY <1>7

\* A file that nobody has open is complete.
LEMMA QuietComplete ==
    ASSUME TypeOK, DiskInv, HolesCovered, NEW f \in exists \ spoiled,
           \A t \in Threads : ~Writing(t, f)
    PROVE  Complete(f)
<1> DEFINE T == {b \in 1..Blocks : disk[f][b] # None}
<1>1. /\ f \in Files /\ f \in exists /\ Blocks \in Nat \ {0}
      /\ disk[f] \in [1..Blocks -> Builds \cup Requests \cup {None}]
      /\ None \notin Builds \cup Requests
      /\ \A s \in Builds \cup Requests : Length[f][s] \in 1..Blocks
  BY EngineAssumption DEF TypeOK
<1>2. \A b : Due(f, b) <=> disk[f][b] # None
  BY DEF Due, Ahead
<1>3. /\ disk[f][1] # None
      /\ \A b, c \in 1..Blocks : b < c /\ disk[f][c] # None => disk[f][b] # None
      /\ \A b \in 1..Blocks : disk[f][b] # None => disk[f][Length[f][disk[f][b]]] # None
  <2>1. ASSUME NEW b \in 1..Blocks, disk[f][b] # None
        PROVE  disk[f][Length[f][disk[f][b]]] # None
    <3>1. Length[f][disk[f][b]] \in 1..Blocks
      BY <1>1, <2>1
    <3> QED  BY <1>2, <2>1, <3>1 DEF HolesCovered
  <2> QED  BY <1>2, <2>1 DEF HolesCovered
<1>4. T \subseteq 1..Blocks /\ 1 \in T /\ Blocks \in Nat
  BY <1>1, <1>3
<1>5. PICK n \in T : \A b \in T : b <= n
  <2> HIDE DEF T
  <2>1. T # {}
    BY <1>4
  <2> QED  BY <1>4, <2>1, LastPiece
<1> DEFINE s == disk[f][n]
<1>6. n \in 1..Blocks /\ s \in Builds \cup Requests
  BY <1>1, <1>5
<1>7. Length[f][s] \in 1..Blocks /\ n <= Length[f][s] /\ Length[f][s] \in T
  BY <1>1, <1>3, <1>5, <1>6 DEF DiskInv
<1>8. Length[f][s] = n
  BY <1>5, <1>6, <1>7
<1>9. \A b \in 1..Blocks : disk[f][b] # None <=> b <= n
  BY <1>3, <1>5, <1>6
<1> HIDE DEF s
<1>10. disk[f][Length[f][s]] = s
  BY <1>8 DEF s
<1> QED  BY <1>1, <1>6, <1>8, <1>9, <1>10 DEF Complete

\* A job that is not the writing of a file has no file open.
LEMMA NotWriting ==
    ASSUME NEW t \in Threads,
           todo[t] = <<>> \/ at[t] \in {0, 1}
             \/ Head(todo[t]).do \in {"setting", "start", "stop"}
    PROVE  \A f : ~Writing(t, f)
  BY DEF Writing, Running

\* Nor has it after the step.
LEMMA NotWritingNext ==
    ASSUME NEW t \in Threads, at'[t] \in {0, 1} \/ todo'[t] = <<>>
             \/ Head(todo'[t]).do \in {"setting", "start", "stop"}
    PROVE  \A f : ~Writing(t, f)'
  BY DEF Writing, Running

\* The stop task is put behind the job that is running.
LEMMA HeadStays ==
    ASSUME NEW q \in Seq(Jobs), q # <<>>
    PROVE  Append(q, Stop) # <<>> /\ Head(Append(q, Stop)) = Head(q)
  BY FileFacts, AppendFacts

\* A step in which no thread opens a file, closes one or goes on in it leaves
\* what is due.
LEMMA QuietStep ==
    ASSUME TypeOK, HolesCovered, exists' = exists, disk' = disk,
           spoiled \subseteq spoiled',
           \A u \in Threads, f \in Files \ spoiled' :
              /\ Writing(u, f)' <=> Writing(u, f)
              /\ Writing(u, f) => at'[u] = at[u] /\ build' = build
    PROVE  HolesCovered'
<1> SUFFICES ASSUME NEW f \in exists \ spoiled'
             PROVE  /\ Due(f, 1)'
                    /\ \A b, c \in 1..Blocks : b < c /\ Due(f, c)' => Due(f, b)'
                    /\ \A b, c \in 1..Blocks :
                         disk[f][b] # None /\ c = Length[f][disk[f][b]] => Due(f, c)'
  BY DEF HolesCovered
<1>1. f \in Files \ spoiled' /\ f \in exists \ spoiled
  BY DEF TypeOK
<1>2. ASSUME NEW b PROVE Due(f, b)' <=> Due(f, b)
  <2>1. ASSUME NEW u \in Threads PROVE Ahead(u, f, b)' <=> Ahead(u, f, b)
    BY <1>1 DEF Ahead, Source
  <2> QED  BY <2>1 DEF Due
<1> QED  BY <1>1, <1>2 DEF HolesCovered

\* The step of one thread that has nothing open before and after it, or only a
\* file that is spoiled.
LEMMA IdleStep ==
    ASSUME TypeOK, HolesCovered, exists' = exists, disk' = disk, build' = build,
           spoiled \subseteq spoiled', NEW t \in Threads,
           \A f \in Files \ spoiled' : ~Writing(t, f) /\ ~Writing(t, f)',
           \A u \in Threads \ {t} : todo'[u] = todo[u] /\ at'[u] = at[u]
    PROVE  HolesCovered'
<1>1. ASSUME NEW u \in Threads, NEW f \in Files \ spoiled'
      PROVE  /\ Writing(u, f)' <=> Writing(u, f)
             /\ Writing(u, f) => at'[u] = at[u] /\ build' = build
  <2>1. CASE u = t
    BY <2>1
  <2>2. CASE u # t
    BY <2>2 DEF Writing, Running, File
  <2> QED  BY <2>1, <2>2
<1> QED  BY <1>1, QuietStep

\* Every step keeps the pieces within their files.
LEMMA DiskStep ==
    ASSUME TypeOK, QueueInv, OpenInv, DiskInv, [Next]_vars
    PROVE  DiskInv'
<1> USE EngineAssumption DEF files, engine, faults
<1>0. /\ at \in [Threads -> 0..Blocks + 1] /\ requested \subseteq requested'
      /\ disk \in [Files -> [1..Blocks -> Builds \cup Requests \cup {None}]]
  BY NeverTakenBack DEF TypeOK
<1>1. ASSUME disk' = disk PROVE DiskInv'
  BY <1>0, <1>1 DEF DiskInv
<1>2. ASSUME NEW t \in Threads, Open(t) PROVE DiskInv'
  <2>1. File(t) \in Files
    BY <1>2, RunningFacts DEF Open, Running
  <2>2. CASE UNCHANGED files
    BY <1>1, <2>2
  <2>3. CASE disk' = [disk EXCEPT ![File(t)] = Empty]
    <3>1. \A f \in Files, b \in 1..Blocks : disk'[f][b] # None => disk'[f][b] = disk[f][b]
      BY <1>0, <2>1, <2>3 DEF Empty
    <3> QED  BY <1>0, <3>1 DEF DiskInv
  <2> QED  BY <1>2, <2>2, <2>3 DEF Open
<1>3. ASSUME NEW t \in Threads, Write(t) PROVE DiskInv'
  <2>1. /\ todo[t] # <<>> /\ at[t] >= 2 /\ Writing(t, File(t))
        /\ disk' = [disk EXCEPT ![File(t)][at[t] - 1] = Source(t)]
    BY <1>3 DEF Write, Writing, Running
  <2>2. /\ File(t) \in Files /\ Pieces(t) \in 1..Blocks /\ at[t] <= Pieces(t) + 1
        /\ t \in Requests => File(t) \in requested
    BY <2>1, RunningFacts, PiecesFacts DEF OpenInv
  <2>3. at[t] - 1 \in 1..Blocks /\ at[t] - 1 <= Length[File(t)][Source(t)]
    BY <1>0, <2>1, <2>2 DEF Pieces
  <2>4. Source(t) \in Requests => File(t) \in requested
    <3>1. build \notin Requests
      BY DEF TypeOK
    <3> QED  BY <2>2, <3>1 DEF Source
  <2> SUFFICES ASSUME NEW f \in Files, NEW b \in 1..Blocks, disk'[f][b] # None
               PROVE  /\ b <= Length[f][disk'[f][b]]
                      /\ disk'[f][b] \in Requests => f \in requested'
    BY DEF DiskInv
  <2>5. CASE f = File(t) /\ b = at[t] - 1
    <3>1. disk'[f][b] = Source(t)
      BY <1>0, <2>1, <2>2, <2>3, <2>5
    <3> QED  BY <1>0, <2>3, <2>4, <2>5, <3>1
  <2>6. CASE ~(f = File(t) /\ b = at[t] - 1)
    <3>1. disk'[f][b] = disk[f][b]
      BY <1>0, <2>1, <2>2, <2>3, <2>6
    <3> QED  BY <1>0, <3>1 DEF DiskInv
  <2> QED  BY <2>5, <2>6
<1>4. CASE \/ \E a \in Activities : onCreate(a) \/ onDestroy(a)
           \/ \E r \in Requests : otInstallTa(r)
           \/ \E e \in Activities : EngineUp(e) \/ EngineYields(e)
           \/ UNCHANGED vars
  <2>1. disk' = disk
    BY <1>4 DEF onCreate, onDestroy, otInstallTa, EngineUp, EngineYields, vars
  <2> QED  BY <1>1, <2>1
<1>5. CASE \E t \in Threads : LookUp(t) \/ InstallTAs(t) \/ startOpenTEEEngine(t)
                                \/ stopOpenTEEEngine(t) \/ IOFails(t)
  <2>1. disk' = disk
    BY <1>5 DEF LookUp, InstallTAs, startOpenTEEEngine, stopOpenTEEEngine, IOFails
  <2> QED  BY <1>1, <2>1
<1>6. CASE Kill \/ Upgrade \/ \E t \in Threads : SettingMissing(t)
  <2>1. disk' = disk
    BY <1>6 DEF Kill, Upgrade, SettingMissing, ProcessEnds
  <2> QED  BY <1>1, <2>1
<1> QED  BY <1>2, <1>3, <1>4, <1>5, <1>6 DEF Next, RunJob

\* The cut of a file by a thread that no other is past: what was due up to the
\* end of its source is, and what the others still write follows on that.
LEMMA OpenHoles ==
    ASSUME TypeOK, QueueInv, OpenInv, HolesCovered, NEW t \in Threads,
           Open(t), Advance(t), exists' = exists \cup {File(t)},
           disk' = [disk EXCEPT ![File(t)] = Empty],
           spoiled' = IF LeavesHole(t) THEN spoiled \cup {File(t)}
                      ELSE spoiled \ {File(t)}
    PROVE  HolesCovered'
<1>0. /\ todo \in [Threads -> Seq(Jobs)] /\ at \in [Threads -> 0..Blocks + 1]
      /\ exists \in SUBSET Files /\ spoiled \in SUBSET Files
      /\ disk \in [Files -> [1..Blocks -> Builds \cup Requests \cup {None}]]
      /\ Blocks \in Nat \ {0}
  BY EngineAssumption DEF TypeOK
<1>1. /\ at[t] = 1 /\ todo[t] # <<>> /\ build' = build /\ todo' = todo
      /\ Head(todo[t]).do \in {"config", "asset"}
      /\ at'[t] = 2 /\ \A u \in Threads \ {t} : at'[u] = at[u]
  BY <1>0 DEF Open, Running, Advance
<1>2. File(t) \in Files /\ Pieces(t) \in 1..Blocks
  BY <1>1, RunningFacts, PiecesFacts
<1>3. \A u \in Threads \ {t} : \A f, b : Ahead(u, f, b)' <=> Ahead(u, f, b)
  BY <1>1 DEF Ahead, Writing, Running, File, Source
<1>4. \A f, b : f = File(t) => (Ahead(t, f, b)' <=> 1 <= b /\ b <= Pieces(t))
  BY <1>1 DEF Ahead, Writing, Running, File, Source, Pieces
<1>5. \A f : f # File(t) => \A b : ~Ahead(t, f, b)' /\ ~Ahead(t, f, b)
  BY <1>1 DEF Ahead, Writing, Running, File
<1> SUFFICES ASSUME NEW f \in exists' \ spoiled'
             PROVE  /\ Due(f, 1)'
                    /\ \A b, c \in 1..Blocks : b < c /\ Due(f, c)' => Due(f, b)'
                    /\ \A b, c \in 1..Blocks :
                         disk'[f][b] # None /\ c = Length[f][disk'[f][b]] => Due(f, c)'
  BY DEF HolesCovered
<1>6. CASE f # File(t)
  <2>1. f \in exists \ spoiled /\ disk'[f] = disk[f]
    BY <1>0, <1>2, <1>6
  <2>2. \A b : Due(f, b)' <=> Due(f, b)
    BY <1>3, <1>5, <1>6, <2>1 DEF Due
  <2> QED  BY <2>1, <2>2 DEF HolesCovered
<1>7. CASE f = File(t)
  <2>1. ~LeavesHole(t)
    BY <1>7
  <2>2. \A b \in 1..Blocks : disk'[f][b] = None
    BY <1>0, <1>2, <1>7 DEF Empty
  <2>3. ASSUME NEW b \in 1..Blocks, b <= Pieces(t) PROVE Due(f, b)'
    <3>1. Ahead(t, f, b)'
      BY <1>4, <1>7, <2>3
    <3> QED  BY <3>1 DEF Due
  <2>4. ASSUME NEW b \in 1..Blocks, NEW c \in 1..Blocks, b < c, Due(f, c)',
               b > Pieces(t)
        PROVE  Due(f, b)'
    <3>1. PICK u \in Threads : Ahead(u, f, c)'
      BY <2>2, <2>4 DEF Due
    <3>2. u # t
      BY <1>2, <1>4, <1>7, <2>4, <3>1
    <3>3. Ahead(u, f, c) /\ Writing(u, f) /\ at[u] \in Nat
      BY <1>0, <1>3, <3>1, <3>2 DEF Ahead
    <3>4. ~(at[u] - 2 > Pieces(t))
      BY <1>7, <2>1, <3>3 DEF LeavesHole
    <3>5. c <= Length[f][Source(u)] => b <= Length[f][Source(u)]
      <4>1. Length[f][Source(u)] \in Nat
        <5>1. todo[u] # <<>> /\ File(u) = f
          BY <3>3 DEF Writing, Running
        <5> QED  BY <5>1, PiecesFacts DEF Pieces
      <4> QED  BY <2>4, <4>1
    <3>6. Ahead(u, f, b)
      BY <1>2, <2>4, <3>3, <3>4, <3>5 DEF Ahead
    <3> QED  BY <1>3, <3>2, <3>6 DEF Due
  <2>5. \A b, c \in 1..Blocks : b < c /\ Due(f, c)' => Due(f, b)'
    BY <1>2, <2>3, <2>4
  <2>6. Due(f, 1)'
    BY <1>0, <1>2, <2>3
  <2> QED  BY <2>2, <2>5, <2>6
<1> QED  BY <1>6, <1>7

\* The writing of a piece: it was due, and what comes after it still is.
LEMMA WriteHoles ==
    ASSUME TypeOK, QueueInv, OpenInv, HolesCovered, NEW t \in Threads, Write(t)
    PROVE  HolesCovered'
<1>0. /\ todo \in [Threads -> Seq(Jobs)] /\ at \in [Threads -> 0..Blocks + 1]
      /\ exists \in SUBSET Files /\ spoiled \in SUBSET Files
      /\ disk \in [Files -> [1..Blocks -> Builds \cup Requests \cup {None}]]
      /\ Blocks \in Nat \ {0}
  BY EngineAssumption DEF TypeOK
<1> PICK F : F = File(t)
  OBVIOUS
<1> PICK p : p = at[t] - 1
  OBVIOUS
<1> PICK n : n = Pieces(t)
  OBVIOUS
<1>1. /\ at[t] >= 2 /\ todo[t] # <<>> /\ Writing(t, F)
      /\ disk' = [disk EXCEPT ![F][p] = Source(t)] /\ build' = build
      /\ exists' = exists /\ spoiled' = spoiled
      /\ \/ JobEnds(t) /\ at[t] = n + 1
         \/ Advance(t) /\ at[t] # n + 1
  BY DEF Write, Running, Writing, WrittenUp
<1>2. /\ F \in Files /\ n \in 1..Blocks /\ at[t] \in Nat /\ at[t] <= n + 1
      /\ Source(t) \in Builds \cup Requests /\ Source(t) # None
      /\ n = Length[F][Source(t)]
  BY <1>0, <1>1, RunningFacts, PiecesFacts DEF OpenInv, Pieces
<1>3. p \in 1..Blocks /\ p <= n
  BY <1>0, <1>1, <1>2
<1>4. \A u \in Threads \ {t} : \A f, b : Ahead(u, f, b)' <=> Ahead(u, f, b)
  <2>1. \A u \in Threads \ {t} : todo'[u] = todo[u] /\ at'[u] = at[u]
    BY <1>0, <1>1 DEF JobEnds, Advance
  <2> QED  BY <1>1, <2>1 DEF Ahead, Writing, Running, File, Source
<1>5. \A b : Ahead(t, F, b) <=> p <= b /\ b <= n
  BY <1>1, <1>2 DEF Ahead
<1>6. \A b \in 1..Blocks : Ahead(t, F, b)' <=> p < b /\ b <= n
  <2>1. CASE JobEnds(t) /\ at[t] = n + 1
    <3>1. at'[t] = 0
      BY <1>0, <2>1 DEF JobEnds
    <3>2. \A b : ~Ahead(t, F, b)'
      BY <3>1, NotWritingNext DEF Ahead
    <3> QED  BY <1>2, <2>1, <3>2
  <2>2. CASE Advance(t) /\ at[t] # n + 1
    <3>1. todo' = todo /\ at'[t] = at[t] + 1
      BY <1>0, <2>2 DEF Advance
    <3>2. Writing(t, F)' /\ Source(t)' = Source(t)
      BY <1>1, <1>2, <3>1 DEF Writing, Running, File, Source
    <3>3. \A b \in 1..Blocks : Ahead(t, F, b)' <=> at[t] <= b /\ b <= n
      BY <1>2, <3>1, <3>2 DEF Ahead
    <3> QED  BY <1>2, <3>3
  <2> QED  BY <1>1, <2>1, <2>2
<1>7. \A f : f # F => \A b : ~Ahead(t, f, b)' /\ ~Ahead(t, f, b)
  <2>1. CASE JobEnds(t)
    <3>1. at'[t] = 0
      BY <1>0, <2>1 DEF JobEnds
    <3> QED  BY <3>1, NotWritingNext DEF Ahead, Writing
  <2>2. CASE Advance(t)
    BY <2>2 DEF Advance, Ahead, Writing, File
  <2> QED  BY <1>1, <2>1, <2>2
<1> SUFFICES ASSUME NEW f \in exists \ spoiled
             PROVE  /\ Due(f, 1)'
                    /\ \A b, c \in 1..Blocks : b < c /\ Due(f, c)' => Due(f, b)'
                    /\ \A b, c \in 1..Blocks :
                         disk'[f][b] # None /\ c = Length[f][disk'[f][b]] => Due(f, c)'
  BY <1>1 DEF HolesCovered
<1>8. CASE f # F
  <2>1. disk'[f] = disk[f]
    BY <1>0, <1>1, <1>2, <1>8
  <2>2. \A b : Due(f, b)' <=> Due(f, b)
    BY <1>4, <1>7, <1>8, <2>1 DEF Due
  <2> QED  BY <2>1, <2>2 DEF HolesCovered
<1>9. CASE f = F
  <2>1. /\ disk'[f][p] = Source(t)
        /\ \A b \in 1..Blocks : b # p => disk'[f][b] = disk[f][b]
    BY <1>0, <1>1, <1>2, <1>3, <1>9
  <2>2. ASSUME NEW b \in 1..Blocks PROVE Due(f, b)' <=> Due(f, b)
    <3>1. CASE b = p
      <4>1. Due(f, b)'
        BY <1>2, <2>1, <3>1 DEF Due
      <4>2. Due(f, b)
        BY <1>3, <1>5, <1>9, <3>1 DEF Due
      <4> QED  BY <4>1, <4>2
    <3>2. CASE b # p
      <4>1. Ahead(t, f, b)' <=> Ahead(t, f, b)
        BY <1>3, <1>5, <1>6, <1>9, <3>2
      <4>2. \A u \in Threads : Ahead(u, f, b)' <=> Ahead(u, f, b)
        BY <1>4, <4>1
      <4> QED  BY <2>1, <3>2, <4>2 DEF Due
    <3> QED  BY <3>1, <3>2
  <2>4. ASSUME NEW b \in 1..Blocks, NEW c \in 1..Blocks, disk'[f][b] # None,
               c = Length[f][disk'[f][b]]
        PROVE  Due(f, c)'
    <3>1. CASE b = p
      <4>1. c = n
        BY <1>2, <1>9, <2>1, <2>4, <3>1
      <4>2. Due(f, c)
        BY <1>3, <1>5, <1>9, <4>1 DEF Due
      <4> QED  BY <2>2, <4>2
    <3>2. CASE b # p
      <4>1. disk'[f][b] = disk[f][b]
        BY <2>1, <3>2
      <4>2. Due(f, c)
        BY <2>4, <4>1 DEF HolesCovered
      <4> QED  BY <2>2, <4>2
    <3> QED  BY <3>1, <3>2
  <2>5. 1 \in 1..Blocks
    BY <1>0
  <2> QED  BY <2>2, <2>4, <2>5 DEF HolesCovered
<1> QED  BY <1>8, <1>9

\* Every step keeps the holes covered.
LEMMA HolesStep ==
    ASSUME TypeOK, QueueInv, OpenInv, HolesCovered, [Next]_vars
    PROVE  HolesCovered'
<1> USE EngineAssumption DEF files, engine, faults
<1>0. /\ todo \in [Threads -> Seq(Jobs)] /\ at \in [Threads -> 0..Blocks + 1]
      /\ exists \in SUBSET Files /\ spoiled \in SUBSET Files
      /\ disk \in [Files -> [1..Blocks -> Builds \cup Requests \cup {None}]]
      /\ build \in Builds
  BY DEF TypeOK
<1>1. ASSUME NEW t \in Threads, JobEnds(t) \/ Advance(t)
      PROVE  \A u \in Threads \ {t} : todo'[u] = todo[u] /\ at'[u] = at[u]
  BY <1>0, <1>1 DEF JobEnds, Advance
<1>2. ASSUME NEW a \in Activities, onCreate(a) PROVE HolesCovered'
  <2>1. a \in Threads /\ todo[a] = <<>> /\ at'[a] = 0
    BY <1>0, <1>2 DEF onCreate, QueueInv, OpenInv, Threads
  <2>2. \A u \in Threads \ {a} : todo'[u] = todo[u] /\ at'[u] = at[u]
    BY <1>0, <1>2 DEF onCreate
  <2> QED  BY <1>2, <2>1, <2>2, NotWriting, NotWritingNext, IdleStep DEF onCreate
<1>3. ASSUME NEW a \in Activities, onDestroy(a) PROVE HolesCovered'
  <2>1. a \in Threads /\ todo[a] \in Seq(Jobs) /\ Stop \in Jobs
    BY <1>0, FileFacts DEF Threads
  <2>2. todo' = [todo EXCEPT ![a] = Append(todo[a], Stop)] /\ at' = at
    BY <1>3 DEF onDestroy, quitSafely
  <2>3. /\ todo'[a] = Append(todo[a], Stop) /\ at' = at /\ build' = build
        /\ \A u \in Threads \ {a} : todo'[u] = todo[u]
    BY <1>0, <1>3, <2>1, <2>2 DEF onDestroy
  <2>4. ASSUME NEW u \in Threads, NEW f \in Files
        PROVE  Writing(u, f)' <=> Writing(u, f)
    <3>1. CASE u # a
      BY <2>3, <3>1 DEF Writing, Running, File
    <3>2. CASE u = a /\ todo[a] = <<>>
      <4>1. at'[a] = 0
        BY <2>1, <2>3, <3>2 DEF OpenInv
      <4> QED  BY <2>1, <3>2, <4>1, NotWriting, NotWritingNext
    <3>3. CASE u = a /\ todo[a] # <<>>
      <4>1. /\ Append(todo[a], Stop) # <<>>
            /\ Head(Append(todo[a], Stop)) = Head(todo[a])
        BY <2>1, <3>3, HeadStays
      <4> QED  BY <2>3, <3>3, <4>1 DEF Writing, Running, File
    <3> QED  BY <3>1, <3>2, <3>3
  <2> QED  BY <1>3, <2>3, <2>4, QuietStep DEF onDestroy
<1>4. ASSUME NEW r \in Requests, otInstallTa(r) PROVE HolesCovered'
  <2>1. r \in Threads /\ todo[r] = <<>> /\ at'[r] = 0
    BY <1>0, <1>4 DEF otInstallTa, QueueInv, OpenInv, Threads
  <2>2. \A u \in Threads \ {r} : todo'[u] = todo[u] /\ at'[u] = at[u]
    BY <1>0, <1>4 DEF otInstallTa
  <2> QED  BY <1>4, <2>1, <2>2, NotWriting, NotWritingNext, IdleStep DEF otInstallTa
<1>5. ASSUME NEW t \in Threads, LookUp(t) PROVE HolesCovered'
  <2>1. at[t] = 0 /\ (JobEnds(t) \/ Advance(t)) /\ build' = build
    BY <1>5 DEF LookUp
  <2>2. at'[t] \in {0, 1}
    BY <1>0, <2>1 DEF JobEnds, Advance
  <2> QED  BY <1>5, <2>1, <2>2, <1>1, NotWriting, NotWritingNext, IdleStep DEF LookUp
<1>6. ASSUME NEW t \in Threads, Open(t) PROVE HolesCovered'
  <2>1. at[t] = 1 /\ build' = build
    BY <1>6 DEF Open
  <2>2. CASE JobEnds(t) /\ UNCHANGED files
    <3>1. at'[t] = 0
      BY <1>0, <2>2 DEF JobEnds
    <3> QED  BY <2>1, <2>2, <3>1, <1>1, NotWriting, NotWritingNext, IdleStep
  <2>3. CASE ~(JobEnds(t) /\ UNCHANGED files)
    BY <1>6, <2>3, OpenHoles DEF Open
  <2> QED  BY <2>2, <2>3
<1>7. ASSUME NEW t \in Threads, Write(t) PROVE HolesCovered'
  BY <1>7, WriteHoles
<1>8. ASSUME NEW t \in Threads, InstallTAs(t) PROVE HolesCovered'
  <2>1. Head(todo[t]).do = "setting" /\ at'[t] = 0
    BY <1>0, <1>8 DEF InstallTAs, Running, OpenInv
  <2>2. \A u \in Threads \ {t} : todo'[u] = todo[u] /\ at'[u] = at[u]
    BY <1>0, <1>8 DEF InstallTAs
  <2> QED  BY <1>8, <2>1, <2>2, NotWriting, NotWritingNext, IdleStep DEF InstallTAs
<1>9. ASSUME NEW t \in Threads, startOpenTEEEngine(t) \/ stopOpenTEEEngine(t)
      PROVE  HolesCovered'
  <2>1. /\ Head(todo[t]).do \in {"start", "stop"} /\ (JobEnds(t) \/ Advance(t))
        /\ exists' = exists /\ disk' = disk /\ spoiled' = spoiled /\ build' = build
    BY <1>9 DEF startOpenTEEEngine, stopOpenTEEEngine, Running
  <2>2. at'[t] = 0 \/ todo'[t] = todo[t]
    BY <1>0, <2>1 DEF JobEnds, Advance
  <2> QED  BY <2>1, <2>2, <1>1, NotWriting, NotWritingNext, IdleStep
<1>10. ASSUME NEW t \in Threads, IOFails(t) PROVE HolesCovered'
  <2>1. \A u \in Threads \ {t} : todo'[u] = todo[u] /\ at'[u] = at[u]
    BY <1>0, <1>1, <1>10 DEF IOFails
  <2>2. \A f \in Files \ spoiled' : ~Writing(t, f) /\ ~Writing(t, f)'
    <3>1. \A f \in Files \ spoiled' : ~Writing(t, f)
      BY <1>10 DEF IOFails, Writing
    <3>2. CASE Advance(t) /\ Running(t, "config")
      BY <1>10, <3>1, <3>2 DEF IOFails, Advance, Writing, Running, File
    <3>3. CASE at'[t] = 0
      BY <3>1, <3>3, NotWritingNext
    <3>4. JobEnds(t) \/ at' = [at EXCEPT ![t] = 0] => at'[t] = 0
      BY <1>0 DEF JobEnds
    <3> QED  BY <1>10, <3>2, <3>3, <3>4 DEF IOFails
  <2>3. /\ exists' = exists /\ disk' = disk /\ spoiled \subseteq spoiled'
        /\ build' = build
    BY <1>10 DEF IOFails
  <2> QED  BY <2>1, <2>2, <2>3, IdleStep
<1>11. ASSUME NEW e \in Activities, EngineUp(e) \/ EngineYields(e) PROVE HolesCovered'
  <2>1. /\ todo' = todo /\ at' = at /\ exists' = exists /\ disk' = disk
        /\ spoiled' = spoiled /\ build' = build
    BY <1>11 DEF EngineUp, EngineYields
  <2>2. \A u \in Threads, f \in Files : Writing(u, f)' <=> Writing(u, f)
    BY <2>1 DEF Writing, Running, File
  <2> QED  BY <2>1, <2>2, QuietStep
<1>12. ASSUME ProcessEnds PROVE HolesCovered'
  <2>1. /\ exists' = exists /\ disk' = disk
        /\ spoiled' = spoiled \cup {f \in Files : ~Unwritten(f)}
    BY <1>12 DEF ProcessEnds
  <2>2. \A u \in Threads, f \in Files \ spoiled' : ~Writing(u, f) /\ ~Writing(u, f)'
    <3>1. \A u \in Threads : at'[u] = 0
      BY <1>12 DEF ProcessEnds
    <3> QED  BY <2>1, <3>1, NotWritingNext DEF Unwritten
  <2> QED  BY <2>1, <2>2, QuietStep
<1>13. CASE UNCHANGED vars
  <2>1. /\ todo' = todo /\ at' = at /\ exists' = exists /\ disk' = disk
        /\ spoiled' = spoiled /\ build' = build
    BY <1>13 DEF vars
  <2>2. \A u \in Threads, f \in Files : Writing(u, f)' <=> Writing(u, f)
    BY <2>1 DEF Writing, Running, File
  <2> QED  BY <2>1, <2>2, QuietStep
<1> QED
  BY <1>2, <1>3, <1>4, <1>5, <1>6, <1>7, <1>8, <1>9, <1>10, <1>11, <1>12, <1>13
     DEF Next, RunJob, SettingMissing, Kill, Upgrade

\* The invariants of the files together.
FileInv == TypeOK /\ QueueInv /\ OpenInv /\ DiskInv /\ HolesCovered

\* They hold in an empty home directory.
LEMMA FilesInit == ASSUME Init PROVE FileInv
<1>1. \A f \in Files, b \in 1..Blocks : disk[f][b] = None
  BY DEF Init, Empty
<1> QED  BY <1>1, TypeInit DEF Init, FileInv, DiskInv, HolesCovered

\* And every step preserves them.
LEMMA FilesStep == ASSUME FileInv, [Next]_vars PROVE FileInv'
  BY TypeStep, OpenStep, DiskStep, HolesStep DEF FileInv

\* installConfigToHomeDir and installBytesToHomeDir may cut and write one file
\* in any number of threads at once, with contents of any lengths: unless its
\* last writing failed, died with the process, or cut into one that was already
\* past the end of it, a file that nobody has open is complete.
THEOREM QuietFilesAreComplete == Spec => []QuietFilesComplete
<1>1. Init => FileInv
  BY FilesInit
<1>2. FileInv /\ [Next]_vars => FileInv'
  BY FilesStep
<1>3. FileInv => QuietFilesComplete
  BY QuietComplete DEF FileInv, QuietFilesComplete, Unwritten
<1> QED  BY <1>1, <1>2, <1>3, PTL DEF Spec

-----------------------------------------------------------------------------
(* Fresh assets.                                                           *)

OfBuild(f) == f \in exists /\ \A b \in 1..Blocks : disk[f][b] \in {build, None}

\* Of the assets that no client has named: what a thread has open is a copy of
\* the installed build as far as it goes; so is what an installation has passed;
\* and the program of a running engine is a copy that nobody has open.
FreshInv ==
    /\ \A t \in Threads, f \in Assets \ requested : Writing(t, f) => OfBuild(f)
    /\ \A a \in Activities, f \in Assets \ (spoiled \cup requested) :
         Past(a, f) => OfBuild(f)
    /\ engines # {} =>
         Unwritten(Bin) /\ (Bin \in spoiled \cup requested \/ Fresh(Bin))

\* A complete copy of the installed build as far as it goes is a fresh one.
LEMMA CompleteFresh ==
    ASSUME TypeOK, NEW f \in Files, Complete(f), OfBuild(f)
    PROVE  Fresh(f)
<1>1. build \in Builds /\ None \notin Builds \cup Requests
  BY EngineAssumption DEF TypeOK
<1>2. PICK s \in Builds \cup Requests :
         /\ disk[f][Length[f][s]] = s
         /\ \A b \in 1..Blocks : disk[f][b] # None <=> b <= Length[f][s]
  BY DEF Complete
<1>3. Length[f][s] \in 1..Blocks
  BY EngineAssumption
<1>4. s = build
  BY <1>1, <1>2, <1>3 DEF OfBuild
<1> QED  BY <1>1, <1>2, <1>4 DEF OfBuild, Fresh

\* A step that neither writes nor opens an asset, passes none and starts no
\* engine.
LEMMA FreshQuiet ==
    ASSUME FreshInv, exists' = exists, disk' = disk, build' = build,
           spoiled \subseteq spoiled', engines' \subseteq engines,
           requested \subseteq requested',
           \A t \in Threads, f \in Assets : Writing(t, f)' => Writing(t, f),
           \A a \in Activities, f \in Assets \ spoiled' : Past(a, f)' => Past(a, f)
    PROVE  FreshInv'
<1>1. \A f : OfBuild(f)' <=> OfBuild(f)
  BY DEF OfBuild
<1>2. Fresh(Bin)' <=> Fresh(Bin)
  BY DEF Fresh
<1>3. Unwritten(Bin) => Unwritten(Bin)'
  BY FileFacts DEF Unwritten
<1>4. engines' # {} => engines # {}
  OBVIOUS
<1>5. ASSUME NEW t \in Threads, NEW f \in Assets \ requested', Writing(t, f)'
      PROVE  OfBuild(f)'
  BY <1>1, <1>5 DEF FreshInv
<1>6. ASSUME NEW a \in Activities, NEW f \in Assets \ (spoiled' \cup requested'), Past(a, f)'
      PROVE  OfBuild(f)'
  BY <1>1, <1>6 DEF FreshInv
<1>7. engines' # {} =>
        Unwritten(Bin)' /\ (Bin \in spoiled' \cup requested' \/ Fresh(Bin)')
  BY <1>2, <1>3, <1>4 DEF FreshInv
<1> QED  BY <1>5, <1>6, <1>7 DEF FreshInv

\* The end of a job that is not the asset passes nothing.
LEMMA PastTail ==
    ASSUME TypeOK, NEW t \in Threads, todo[t] # <<>>, NEW f,
           Head(todo[t]) # Asset(f), todo'[t] = Tail(todo[t]), life' = life,
           Past(t, f)'
    PROVE  Past(t, f)
<1>1. todo[t] \in Seq(Jobs)
  BY DEF TypeOK
<1>2. /\ Len(todo[t]) \in Nat \ {0} /\ Head(todo[t]) = todo[t][1]
      /\ Len(Tail(todo[t])) = Len(todo[t]) - 1
      /\ \A i \in 1..Len(Tail(todo[t])) : Tail(todo[t])[i] = todo[t][i + 1]
  BY <1>1, TailFacts
<1>3. ASSUME NEW i \in 1..Len(todo[t]) PROVE todo[t][i] # Asset(f)
  <2>1. CASE i = 1
    BY <1>2, <2>1
  <2>2. CASE i # 1
    <3>1. i - 1 \in 1..Len(Tail(todo[t])) /\ (i - 1) + 1 = i
      BY <1>2, <2>2
    <3>2. Tail(todo[t])[i - 1] # Asset(f)
      BY <3>1 DEF Past
    <3> QED  BY <1>2, <3>1, <3>2
  <2> QED  BY <2>1, <2>2
<1> QED  BY <1>3 DEF Past

\* A thread whose queue stays has passed what it had passed.
LEMMA PastSame ==
    ASSUME NEW a, NEW f, todo'[a] = todo[a], life'[a] = life[a]
    PROVE  Past(a, f)' <=> Past(a, f)
  BY DEF Past

\* The end of a job, or its going on, that opens nothing.
LEMMA NoNewWriting ==
    ASSUME TypeOK, NEW t \in Threads, NEW f,
           JobEnds(t) \/ (Advance(t) /\ (at[t] # 1 \/ todo[t] = <<>> \/ File(t) # f))
    PROVE  \A u \in Threads : Writing(u, f)' => Writing(u, f)
<1>1. at \in [Threads -> 0..Blocks + 1] /\ todo \in [Threads -> Seq(Jobs)]
  BY DEF TypeOK
<1>2. \A u \in Threads \ {t} : todo'[u] = todo[u] /\ at'[u] = at[u]
  BY <1>1 DEF JobEnds, Advance
<1>3. \A u \in Threads \ {t} : Writing(u, f)' => Writing(u, f)
  BY <1>2 DEF Writing, Running, File
<1>4. CASE JobEnds(t)
  <2>1. at'[t] = 0
    BY <1>1, <1>4 DEF JobEnds
  <2>2. ~Writing(t, f)'
    BY <2>1 DEF Writing
  <2> QED  BY <1>3, <2>2
<1>5. CASE Advance(t) /\ (at[t] # 1 \/ todo[t] = <<>> \/ File(t) # f)
  <2>1. todo' = todo /\ at'[t] = at[t] + 1 /\ at[t] \in Int
    BY <1>1, <1>5, EngineAssumption DEF Advance
  <2>2. Writing(t, f)' => Writing(t, f)
    BY <1>5, <2>1 DEF Writing, Running, File
  <2> QED  BY <1>3, <2>2
<1> QED  BY <1>4, <1>5

\* A new installation has every asset before it.
LEMMA NothingPast ==
    ASSUME NEW a, NEW f \in Assets, todo'[a] = installationTask
    PROVE  ~Past(a, f)'
<1>1. CASE f = Bin
  <2>1. 3 \in 1..Len(installationTask) /\ installationTask[3] = Asset(f)
    BY <1>1, InstallationFacts
  <2> QED  BY <2>1 DEF Past
<1>2. CASE f \in Elements(Libraries)
  <2>1. PICK i \in 1..Len(Libraries) : f = Libraries[i]
    BY <1>2 DEF Elements
  <2>2. 3 + i \in 1..Len(installationTask) /\ installationTask[3 + i] = Asset(f)
    BY <2>1, InstallationFacts
  <2> QED  BY <2>2 DEF Past
<1> QED  BY <1>1, <1>2 DEF Assets

\* The end of one thread's job that is not the writing of an asset.
LEMMA FreshJob ==
    ASSUME TypeOK, FreshInv, exists' = exists, disk' = disk, build' = build,
           spoiled \subseteq spoiled', engines' \subseteq engines, life' = life,
           requested' = requested, NEW t \in Threads, todo[t] # <<>>,
           \/ JobEnds(t) /\ \A f \in Assets \ spoiled' : Head(todo[t]) # Asset(f)
           \/ Advance(t) /\ (at[t] # 1 \/ File(t) \notin Assets)
    PROVE  FreshInv'
<1>1. todo \in [Threads -> Seq(Jobs)]
  BY DEF TypeOK
<1>2. \A u \in Threads, f \in Assets : Writing(u, f)' => Writing(u, f)
  BY NoNewWriting
<1>3. ASSUME NEW a \in Activities, NEW f \in Assets \ spoiled', Past(a, f)'
      PROVE  Past(a, f)
  <2>1. a \in Threads
    BY DEF Threads
  <2>2. CASE todo'[a] = todo[a]
    BY <1>3, <2>2, PastSame
  <2>3. CASE todo'[a] # todo[a]
    <3>1. JobEnds(t) /\ a = t
      BY <1>1, <2>1, <2>3 DEF JobEnds, Advance
    <3>2. todo'[t] = Tail(todo[t]) /\ Head(todo[t]) # Asset(f)
      BY <1>1, <1>3, <2>1, <2>3, <3>1 DEF JobEnds, Advance
    <3> QED  BY <1>3, <3>1, <3>2, PastTail
  <2> QED  BY <2>2, <2>3
<1> QED  BY <1>2, <1>3, FreshQuiet

\* Every step keeps the assets of the installed build.
LEMMA FreshStep ==
    ASSUME TypeOK, QueueInv, OpenInv, FreshInv, [Next]_vars
    PROVE  FreshInv'
<1> USE EngineAssumption DEF files, engine, faults
<1>0. /\ todo \in [Threads -> Seq(Jobs)] /\ at \in [Threads -> 0..Blocks + 1]
      /\ exists \in SUBSET Files /\ spoiled \in SUBSET Files
      /\ disk \in [Files -> [1..Blocks -> Builds \cup Requests \cup {None}]]
      /\ build \in Builds /\ life \in [Threads -> {"new", "live", "destroyed", "lost"}]
  BY DEF TypeOK
<1>1. ASSUME NEW a \in Activities, onCreate(a) PROVE FreshInv'
  <2>1. a \in Threads /\ todo'[a] = installationTask
    BY <1>0, <1>1 DEF onCreate, Threads
  <2>2. \A u \in Threads \ {a} : todo'[u] = todo[u] /\ at'[u] = at[u] /\ life'[u] = life[u]
    BY <1>0, <1>1 DEF onCreate
  <2>3. ASSUME NEW u \in Threads, NEW f \in Assets, Writing(u, f)' PROVE Writing(u, f)
    <3>1. CASE u = a
      <4>1. Head(installationTask) = Config(Conf)
        BY InstallationFacts
      <4>2. Config(Conf).file = Conf /\ Conf \notin Assets
        BY FileFacts DEF Config, Configs
      <4> QED  BY <2>1, <2>3, <3>1, <4>1, <4>2 DEF Writing, File
    <3>2. CASE u # a
      BY <2>2, <2>3, <3>2 DEF Writing, Running, File
    <3> QED  BY <3>1, <3>2
  <2>4. ASSUME NEW u \in Activities, NEW f \in Assets, Past(u, f)' PROVE Past(u, f)
    <3>1. u # a
      BY <2>1, <2>4, NothingPast
    <3> QED  BY <2>2, <2>4, <3>1, PastSame DEF Threads
  <2> QED  BY <1>1, <2>3, <2>4, FreshQuiet DEF onCreate
<1>2. ASSUME NEW a \in Activities, onDestroy(a) PROVE FreshInv'
  <2>1. /\ a \in Threads /\ todo[a] \in Seq(Jobs) /\ Stop \in Jobs
        /\ todo'[a] = Append(todo[a], Stop) /\ at' = at
    BY <1>0, <1>2, FileFacts DEF Threads, onDestroy, quitSafely
  <2>2. \A u \in Threads \ {a} : todo'[u] = todo[u] /\ life'[u] = life[u]
    BY <1>0, <1>2 DEF onDestroy
  <2>3. /\ Len(todo[a]) \in Nat /\ Len(Append(todo[a], Stop)) = Len(todo[a]) + 1
        /\ \A i \in 1..Len(todo[a]) : Append(todo[a], Stop)[i] = todo[a][i]
        /\ todo[a] # <<>> => Head(Append(todo[a], Stop)) = Head(todo[a])
        /\ todo[a] = <<>> => Head(Append(todo[a], Stop)) = Stop
    BY <2>1, AppendFacts
  <2>4. ASSUME NEW u \in Threads, NEW f \in Assets, Writing(u, f)' PROVE Writing(u, f)
    <3>1. CASE u = a
      <4>1. todo[a] # <<>>
        BY <2>1, <2>3, <2>4, <3>1 DEF Writing, Running, Stop
      <4> QED  BY <2>1, <2>3, <2>4, <3>1, <4>1 DEF Writing, Running, File
    <3>2. CASE u # a
      BY <2>1, <2>2, <2>4, <3>2 DEF Writing, Running, File
    <3> QED  BY <3>1, <3>2
  <2>5. ASSUME NEW u \in Activities, NEW f \in Assets, Past(u, f)' PROVE Past(u, f)
    <3>1. CASE u = a
      <4>1. life[a] = "live"
        BY <1>2 DEF onDestroy
      <4>2. ASSUME NEW i \in 1..Len(todo[a]) PROVE todo[a][i] # Asset(f)
        <5>1. \A j \in 1..Len(todo'[a]) : todo'[a][j] # Asset(f)
          BY <2>5, <3>1 DEF Past
        <5>2. i \in 1..Len(todo'[a]) /\ todo'[a][i] = todo[a][i]
          BY <2>1, <2>3, <4>2
        <5> QED  BY <5>1, <5>2
      <4> QED  BY <3>1, <4>1, <4>2 DEF Past
    <3>2. CASE u # a
      BY <2>2, <2>5, <3>2, PastSame DEF Threads
    <3> QED  BY <3>1, <3>2
  <2> QED  BY <1>2, <2>4, <2>5, FreshQuiet DEF onDestroy
<1>3. ASSUME NEW r \in Requests, otInstallTa(r) PROVE FreshInv'
  <2>1. r \in Threads /\ r \notin Activities
    BY DEF Threads
  <2>2. PICK g \in Files : todo' = [todo EXCEPT ![r] = <<Asset(g)>>]
    BY <1>3 DEF otInstallTa
  <2>3. \A u \in Threads \ {r} : todo'[u] = todo[u] /\ at'[u] = at[u] /\ life'[u] = life[u]
    BY <1>0, <1>3, <2>2 DEF otInstallTa
  <2>4. ASSUME NEW u \in Threads, NEW f \in Assets, Writing(u, f)' PROVE Writing(u, f)
    <3>1. CASE u = r
      <4>1. at'[r] = 0
        BY <1>3, <2>1 DEF otInstallTa, QueueInv, OpenInv
      <4> QED  BY <2>4, <3>1, <4>1, NotWritingNext
    <3>2. CASE u # r
      BY <2>3, <2>4, <3>2 DEF Writing, Running, File
    <3> QED  BY <3>1, <3>2
  <2>5. ASSUME NEW u \in Activities, NEW f \in Assets, Past(u, f)' PROVE Past(u, f)
    BY <2>1, <2>3, <2>5, PastSame DEF Threads
  <2> QED  BY <1>3, <2>4, <2>5, FreshQuiet DEF otInstallTa
<1>4. ASSUME NEW t \in Threads, LookUp(t) PROVE FreshInv'
  <2>1. /\ todo[t] # <<>> /\ at[t] = 0
        /\ \/ JobEnds(t) /\ Head(todo[t]).do = "config"
           \/ Advance(t)
    BY <1>4 DEF LookUp, Running, toInstall
  <2>2. \A f : Asset(f).do = "asset"
    BY DEF Asset
  <2> QED  BY <1>4, <2>1, <2>2, FreshJob DEF LookUp
<1>5. ASSUME NEW t \in Threads, Open(t), File(t) = Bin, engines # {} PROVE FreshInv'
  <2>1. /\ JobEnds(t) /\ exists' = exists /\ disk' = disk /\ spoiled' = spoiled
        /\ build' = build /\ engines' = engines /\ life' = life /\ todo[t] # <<>>
        /\ requested' = requested
    BY <1>5 DEF Open, Running
  <2>2. \A u \in Threads, f \in Assets : Writing(u, f)' => Writing(u, f)
    BY <2>1, NoNewWriting
  <2>3. \A f : OfBuild(f)' <=> OfBuild(f)
    BY <2>1 DEF OfBuild
  <2>4. Unwritten(Bin)' /\ (Bin \in spoiled' \cup requested' \/ Fresh(Bin)')
    BY <1>5, <2>1, <2>2, FileFacts DEF FreshInv, Unwritten, Fresh
  <2>5. ASSUME NEW a \in Activities, NEW f \in Assets \ (spoiled' \cup requested'),
               Past(a, f)'
        PROVE  OfBuild(f)
    <3>1. CASE f = Bin
      BY <2>1, <2>4, <2>5, <3>1 DEF OfBuild, Fresh
    <3>2. CASE f # Bin
      <4>1. Head(todo[t]) # Asset(f)
        BY <1>5, <3>2 DEF File, Asset
      <4>2. Past(a, f)
        <5>1. a \in Threads
          BY DEF Threads
        <5>2. CASE a = t
          <6>1. todo'[t] = Tail(todo[t])
            BY <1>0, <2>1 DEF JobEnds
          <6> QED  BY <2>1, <2>5, <4>1, <5>2, <6>1, PastTail
        <5>3. CASE a # t
          <6>1. todo'[a] = todo[a] /\ life'[a] = life[a]
            BY <1>0, <2>1, <5>1, <5>3 DEF JobEnds
          <6> QED  BY <2>5, <6>1, PastSame
        <5> QED  BY <5>2, <5>3
      <4> QED  BY <2>1, <2>5, <4>2 DEF FreshInv
    <3> QED  BY <3>1, <3>2
  <2> QED  BY <2>1, <2>2, <2>3, <2>4, <2>5 DEF FreshInv
<1>6. ASSUME NEW t \in Threads, Open(t), ~(File(t) = Bin /\ engines # {}) PROVE FreshInv'
  <2>1. /\ Advance(t) /\ exists' = exists \cup {File(t)}
        /\ disk' = [disk EXCEPT ![File(t)] = Empty]
        /\ spoiled' \in {spoiled \cup {File(t)}, spoiled \ {File(t)}} /\ at[t] = 1
        /\ build' = build /\ engines' = engines /\ life' = life /\ todo[t] # <<>>
        /\ requested' = requested
    BY <1>6 DEF Open, Running
  <2>2. File(t) \in Files /\ todo' = todo
    BY <2>1, RunningFacts DEF Advance
  <2>3. \A f \in Files : f # File(t) => (OfBuild(f)' <=> OfBuild(f)) /\ (Fresh(f)' <=> Fresh(f))
    BY <1>0, <2>1, <2>2 DEF OfBuild, Fresh
  <2>4. \A f \in Files : f = File(t) => OfBuild(f)'
    BY <1>0, <2>1, <2>2 DEF OfBuild, Empty
  <2>5. \A u \in Threads, f \in Assets :
           f # File(t) => (Writing(u, f)' => Writing(u, f))
    BY <2>1, NoNewWriting
  <2>6. \A u \in Activities, f \in Assets : Past(u, f)' => Past(u, f)
    BY <2>1, <2>2 DEF Past
  <2>7. ASSUME NEW u \in Threads, NEW f \in Assets \ requested', Writing(u, f)'
        PROVE  OfBuild(f)'
    BY <2>1, <2>3, <2>4, <2>5, <2>7, FileFacts DEF FreshInv
  <2>8. ASSUME NEW u \in Activities, NEW f \in Assets \ (spoiled' \cup requested'),
               Past(u, f)'
        PROVE  OfBuild(f)'
    BY <2>1, <2>3, <2>4, <2>6, <2>8, FileFacts DEF FreshInv
  <2>9. ASSUME engines' # {} PROVE Unwritten(Bin)' /\ (Bin \in spoiled' \cup requested' \/ Fresh(Bin)')
    <3>1. File(t) # Bin /\ engines # {}
      BY <1>6, <2>1, <2>9
    <3>2. Unwritten(Bin)'
      BY <2>5, <3>1, FileFacts DEF FreshInv, Unwritten
    <3> QED  BY <2>1, <2>3, <3>1, <3>2, FileFacts DEF FreshInv
  <2> QED  BY <2>7, <2>8, <2>9 DEF FreshInv
<1>7. ASSUME NEW t \in Threads, Write(t) PROVE FreshInv'
  <2>1. /\ todo[t] # <<>> /\ at[t] >= 2 /\ at[t] \in 0..Blocks + 1
        /\ disk' = [disk EXCEPT ![File(t)][at[t] - 1] = Source(t)]
        /\ exists' = exists /\ spoiled' = spoiled /\ build' = build
        /\ engines' = engines /\ life' = life /\ requested' = requested
        /\ JobEnds(t) \/ Advance(t)
        /\ Writing(t, File(t))
    BY <1>0, <1>7 DEF Write, Running, Writing
  <2>2. File(t) \in Files /\ at[t] - 1 \in 1..Blocks
    BY <1>0, <2>1, RunningFacts
  <2>3. \A f \in Files : f # File(t) => (OfBuild(f)' <=> OfBuild(f)) /\ (Fresh(f)' <=> Fresh(f))
    BY <1>0, <2>1, <2>2 DEF OfBuild, Fresh
  <2>4. File(t) \in Assets \ requested => OfBuild(File(t)) /\ t \notin Requests
    <3>1. t \in Requests => File(t) \in requested
      BY <2>1, RunningFacts
    <3> QED  BY <2>1, <3>1 DEF FreshInv
  <2>5. ASSUME NEW f \in Assets \ requested, OfBuild(f) PROVE OfBuild(f)'
    <3>1. CASE f = File(t)
      <4>1. Source(t) = build
        BY <2>4, <3>1 DEF Source
      <4> QED  BY <1>0, <2>1, <2>2, <2>5, <3>1, <4>1 DEF OfBuild, File
    <3>2. CASE f # File(t)
      BY <2>3, <2>5, <3>2, FileFacts
    <3> QED  BY <3>1, <3>2
  <2>6. \A u \in Threads, f \in Assets : Writing(u, f)' => Writing(u, f)
    BY <2>1, NoNewWriting
  <2>7. ASSUME NEW u \in Activities, NEW f \in Assets \ (spoiled' \cup requested'),
               Past(u, f)'
        PROVE  OfBuild(f)
    <3>1. u \in Threads
      BY DEF Threads
    <3>2. CASE todo'[u] = todo[u]
      BY <2>1, <2>7, <3>2, PastSame DEF FreshInv
    <3>3. CASE todo'[u] # todo[u] /\ Head(todo[t]) = Asset(f)
      BY <2>1, <2>4, <3>3 DEF File, Asset
    <3>4. CASE todo'[u] # todo[u] /\ Head(todo[t]) # Asset(f)
      <4>1. u = t /\ todo'[t] = Tail(todo[t])
        BY <1>0, <2>1, <3>1, <3>4 DEF JobEnds, Advance
      <4>2. Past(u, f)
        BY <2>1, <2>7, <3>4, <4>1, PastTail
      <4> QED  BY <2>1, <4>2 DEF FreshInv
    <3> QED  BY <3>2, <3>3, <3>4
  <2>8. ASSUME engines' # {} PROVE Unwritten(Bin)' /\ (Bin \in spoiled' \cup requested' \/ Fresh(Bin)')
    <3>1. Unwritten(Bin) /\ (Bin \in spoiled \cup requested \/ Fresh(Bin))
      BY <2>1, <2>8 DEF FreshInv
    <3>2. File(t) # Bin
      BY <2>1, <3>1 DEF Unwritten
    <3>3. Unwritten(Bin)'
      BY <2>6, <3>1, FileFacts DEF Unwritten
    <3> QED  BY <2>1, <2>3, <3>1, <3>2, <3>3, FileFacts
  <2>9. ASSUME NEW u \in Threads, NEW f \in Assets \ requested', Writing(u, f)'
        PROVE  OfBuild(f)'
    BY <2>1, <2>5, <2>6, <2>9 DEF FreshInv
  <2>10. ASSUME NEW u \in Activities, NEW f \in Assets \ (spoiled' \cup requested'),
                Past(u, f)'
         PROVE  OfBuild(f)'
    BY <2>1, <2>5, <2>7, <2>10
  <2> QED  BY <2>8, <2>9, <2>10 DEF FreshInv
<1>8. ASSUME NEW t \in Threads, InstallTAs(t) PROVE FreshInv'
  <2>1. todo[t] # <<>> /\ Head(todo[t]).do = "setting"
    BY <1>8 DEF InstallTAs, Running
  <2>2. /\ t \in Activities /\ GoodQueue(t, todo[t]) /\ todo[t] \in Seq(Jobs)
        /\ Len(todo[t]) \in Nat \ {0} /\ todo[t][1].do = "setting"
    BY <2>1, RunningFacts DEF QueueInv
  <2>3. PICK n \in 0..Len(TAs) :
             todo' = [todo EXCEPT ![t] = WithTAs(todo[t], SubSeq(TAs, 1, n))]
    BY <1>8 DEF InstallTAs
  <2> DEFINE list == SubSeq(TAs, 1, n)
             front == AssetJobs(list)
             rest == Tail(todo[t])
  <2>4. /\ front \in Seq(Jobs) /\ Len(front) = n /\ n \in Nat
        /\ \A i \in 1..n : front[i] = Asset(list[i]) /\ list[i] \notin Assets
    <3>1. /\ list \in Seq(STRING) /\ Len(list) = n /\ Elements(list) \subseteq Files
          /\ \A i \in 1..n : list[i] \in Elements(TAs)
      BY PrefixFacts
    <3>2. /\ front \in Seq(Jobs) /\ Len(front) = Len(list)
          /\ \A i \in 1..Len(list) : front[i] = Asset(list[i])
      BY <3>1, AssetJobsFacts
    <3>3. n \in Nat
      OBVIOUS
    <3> HIDE DEF front, list
    <3> QED  BY <3>1, <3>2, <3>3, FileFacts
  <2>5. /\ rest \in Seq(Jobs) /\ Len(rest) = Len(todo[t]) - 1 /\ Len(rest) \in Nat
        /\ \A i \in 1..Len(rest) : rest[i] = todo[t][i + 1]
    BY <2>1, <2>2, TailFacts
  <2> HIDE DEF front, list, rest
  <2> DEFINE q == front \o rest
  <2>6. /\ q \in Seq(Jobs) /\ Len(q) = n + Len(rest)
        /\ \A i \in 1..n : q[i] = front[i]
        /\ \A i \in 1..Len(rest) : q[n + i] = rest[i]
    <3>1. /\ q \in Seq(Jobs) /\ Len(q) = Len(front) + Len(rest)
          /\ \A i \in 1..Len(front) : q[i] = front[i]
          /\ \A i \in 1..Len(rest) : q[Len(front) + i] = rest[i]
      <4>1. front \in Seq(Jobs) /\ rest \in Seq(Jobs)
        BY <2>4, <2>5
      <4> QED  BY <4>1, ConcatFacts
    <3> QED  BY <3>1, <2>4
  <2>7. todo'[t] = q
    BY <1>0, <2>3 DEF WithTAs, q, front, list, rest
  <2> HIDE DEF q
  <2>8. \A u \in Threads \ {t} : todo'[u] = todo[u] /\ at'[u] = at[u]
    BY <1>0, <1>8, <2>3 DEF InstallTAs
  <2>9. 1 < Len(todo[t]) /\ todo[t][2] = Start
    BY <2>2 DEF GoodQueue
  <2>10. ASSUME NEW f \in Assets PROVE ~Writing(t, f)'
    <3>1. CASE n = 0
      <4>1. 1 \in 1..Len(rest) /\ rest[1] = Start
        BY <2>5, <2>9
      <4>2. Head(q) = Start
        BY <2>4, <2>6, <3>1, <4>1
      <4> QED  BY <2>7, <4>2 DEF Writing, Running, Start
    <3>2. CASE n # 0
      <4>1. 1 \in 1..n /\ 1 <= Len(q)
        BY <2>4, <2>5, <2>6, <3>2
      <4>2. Head(q) = Asset(list[1]) /\ list[1] \notin Assets
        BY <2>4, <2>6, <4>1
      <4> QED  BY <2>7, <4>2 DEF Writing, File, Asset
    <3> QED  BY <3>1, <3>2
  <2>11. \A u \in Threads, f \in Assets : Writing(u, f)' => Writing(u, f)
    BY <2>8, <2>10 DEF Writing, Running, File
  <2>12. ASSUME NEW a \in Activities, NEW f \in Assets, Past(a, f)' PROVE Past(a, f)
    <3>1. a \in Threads /\ life' = life
      BY <1>8 DEF Threads, InstallTAs
    <3>2. CASE a # t
      BY <2>8, <2>12, <3>1, <3>2, PastSame
    <3>3. CASE a = t
      <4>1. ASSUME NEW i \in 1..Len(todo[t]) PROVE todo[t][i] # Asset(f)
        <5>1. CASE i = 1
          BY <2>2, <5>1 DEF Asset
        <5>2. CASE i # 1
          <6>1. i - 1 \in 1..Len(rest) /\ n + (i - 1) \in 1..Len(q) /\ (i - 1) + 1 = i
            BY <2>2, <2>4, <2>5, <2>6, <5>2
          <6>2. q[n + (i - 1)] = todo[t][i]
            BY <2>5, <2>6, <6>1
          <6>3. q[n + (i - 1)] # Asset(f)
            BY <2>7, <2>12, <3>3, <6>1 DEF Past
          <6> QED  BY <6>2, <6>3
        <5> QED  BY <5>1, <5>2
      <4> QED  BY <2>12, <3>1, <3>3, <4>1 DEF Past
    <3> QED  BY <3>2, <3>3
  <2> QED  BY <1>8, <2>11, <2>12, FreshQuiet DEF InstallTAs
<1>9. ASSUME NEW t \in Threads, startOpenTEEEngine(t), engines' = engines PROVE FreshInv'
  <2>1. todo[t] # <<>> /\ Head(todo[t]).do = "start" /\ JobEnds(t)
    BY <1>9 DEF startOpenTEEEngine, Running
  <2>2. \A f : Asset(f).do = "asset"
    BY DEF Asset
  <2> QED  BY <1>9, <2>1, <2>2, FreshJob DEF startOpenTEEEngine
<1>10. ASSUME NEW t \in Threads, startOpenTEEEngine(t), engines' # engines PROVE FreshInv'
  <2>1. /\ todo[t] # <<>> /\ Head(todo[t]).do = "start" /\ JobEnds(t) /\ Executable
        /\ exists' = exists /\ disk' = disk /\ spoiled' = spoiled
        /\ build' = build /\ life' = life /\ requested' = requested
    BY <1>10 DEF startOpenTEEEngine, Running
  <2>2. /\ t \in Activities /\ GoodQueue(t, todo[t]) /\ todo[t][1].do = "start"
        /\ Len(todo[t]) \in Nat \ {0} /\ life[t] \in {"live", "destroyed"}
    BY <1>0, <2>1, RunningFacts DEF QueueInv
  <2>3. \A f : Asset(f).do = "asset"
    BY DEF Asset
  <2>4. Past(t, Bin)
    <3>1. ASSUME NEW i \in 1..Len(todo[t]) PROVE todo[t][i].do # "asset"
      BY <2>2 DEF GoodQueue
    <3> QED  BY <2>2, <2>3, <3>1 DEF Past
  <2>5. Bin \in spoiled \cup requested \/ Fresh(Bin)
    <3>1. Bin \notin spoiled \cup requested => OfBuild(Bin)
      BY <2>2, <2>4, FileFacts DEF FreshInv
    <3> QED  BY <2>1, <3>1, CompleteFresh, FileFacts DEF Executable
  <2>6. \A u \in Threads, f \in Assets : Writing(u, f)' => Writing(u, f)
    BY <2>1, NoNewWriting
  <2>7. Unwritten(Bin)' /\ (Bin \in spoiled' \cup requested' \/ Fresh(Bin)')
    BY <2>1, <2>5, <2>6, FileFacts DEF Executable, Unwritten, Fresh
  <2>8. \A f : OfBuild(f)' <=> OfBuild(f)
    BY <2>1 DEF OfBuild
  <2>9. ASSUME NEW a \in Activities, NEW f \in Assets \ spoiled', Past(a, f)'
        PROVE  Past(a, f)
    <3>1. a \in Threads
      BY DEF Threads
    <3>2. CASE a = t
      <4>1. todo'[t] = Tail(todo[t]) /\ Head(todo[t]) # Asset(f)
        BY <1>0, <2>1, <2>3 DEF JobEnds
      <4> QED  BY <2>1, <2>9, <3>2, <4>1, PastTail
    <3>3. CASE a # t
      <4>1. todo'[a] = todo[a] /\ life'[a] = life[a]
        BY <1>0, <2>1, <3>1, <3>3 DEF JobEnds
      <4> QED  BY <2>9, <4>1, PastSame
    <3> QED  BY <3>2, <3>3
  <2> QED  BY <2>1, <2>6, <2>7, <2>8, <2>9 DEF FreshInv
<1>11. ASSUME NEW t \in Threads, stopOpenTEEEngine(t) PROVE FreshInv'
  <2>1. /\ todo[t] # <<>> /\ Head(todo[t]).do = "stop" /\ (JobEnds(t) \/ Advance(t))
        /\ engines' \subseteq engines
    BY <1>11 DEF stopOpenTEEEngine, Running
  <2>2. \A f : Asset(f).do = "asset"
    BY DEF Asset
  <2>3. CASE JobEnds(t) \/ at[t] # 1
    BY <1>11, <2>1, <2>2, <2>3, FreshJob DEF stopOpenTEEEngine
  <2>4. CASE Advance(t) /\ at[t] = 1
    <3>1. /\ todo' = todo /\ life' = life /\ exists' = exists /\ disk' = disk
          /\ build' = build /\ spoiled' = spoiled /\ requested' = requested
      BY <1>11, <2>4 DEF Advance, stopOpenTEEEngine
    <3>2. \A u \in Threads \ {t} : at'[u] = at[u]
      BY <1>0, <2>4 DEF Advance
    <3>3. \A u \in Threads, f \in Assets : Writing(u, f)' => Writing(u, f)
      BY <2>1, <3>1, <3>2 DEF Writing, Running, File
    <3>4. \A a \in Activities, f \in Assets : Past(a, f)' => Past(a, f)
      BY <3>1 DEF Past
    <3> QED  BY <2>1, <3>1, <3>3, <3>4, FreshQuiet
  <2> QED  BY <2>1, <2>3, <2>4
<1>12. ASSUME NEW t \in Threads, IOFails(t) PROVE FreshInv'
  <2>1. /\ todo[t] # <<>> /\ life' = life /\ exists' = exists /\ disk' = disk
        /\ build' = build /\ engines' = engines /\ spoiled \subseteq spoiled'
        /\ requested' = requested
    BY <1>12 DEF IOFails
  <2>2. \A f : Asset(f).do = "asset" /\ Asset(f).file = f
    BY DEF Asset
  <2>3. \A f \in Assets \ spoiled' : Head(todo[t]) # Asset(f)
    BY <1>12, <2>1, <2>2 DEF IOFails, Running, File
  <2>4. CASE JobEnds(t) \/ (Advance(t) /\ at[t] >= 2)
    BY <2>1, <2>3, <2>4, FreshJob
  <2>5. CASE /\ Running(t, "setting") /\ at' = [at EXCEPT ![t] = 0]
             /\ todo' = [todo EXCEPT ![t] = Tail(Tail(todo[t]))]
    <3>1. /\ GoodQueue(t, todo[t]) /\ todo[t] \in Seq(Jobs)
          /\ Len(todo[t]) \in Nat \ {0} /\ todo[t][1].do = "setting"
      BY <2>1, <2>5, RunningFacts DEF QueueInv, Running
    <3>2. 1 < Len(todo[t]) /\ todo[t][2] = Start
      BY <3>1 DEF GoodQueue
    <3>3. /\ Tail(todo[t]) \in Seq(Jobs) /\ Tail(todo[t]) # <<>>
          /\ Len(Tail(todo[t])) = Len(todo[t]) - 1
          /\ \A i \in 1..Len(Tail(todo[t])) : Tail(todo[t])[i] = todo[t][i + 1]
      <4>1. /\ Tail(todo[t]) \in Seq(Jobs) /\ Len(Tail(todo[t])) = Len(todo[t]) - 1
            /\ \A i \in 1..Len(Tail(todo[t])) : Tail(todo[t])[i] = todo[t][i + 1]
        BY <2>1, <3>1, TailFacts
      <4>2. Tail(todo[t]) # <<>>
        BY <2>1, <3>1, <3>2, TailOfTwo
      <4> QED  BY <4>1, <4>2
    <3> DEFINE rest == Tail(todo[t])
    <3>4. /\ Len(Tail(rest)) = Len(todo[t]) - 2
          /\ \A i \in 1..Len(Tail(rest)) : Tail(rest)[i] = rest[i + 1]
      <4> HIDE DEF rest
      <4>1. rest \in Seq(Jobs) /\ rest # <<>> /\ Len(rest) = Len(todo[t]) - 1
        BY <3>3 DEF rest
      <4>2. Len(Tail(rest)) = Len(rest) - 1
            /\ \A i \in 1..Len(Tail(rest)) : Tail(rest)[i] = rest[i + 1]
        BY <4>1, TailFacts
      <4> QED  BY <3>1, <4>1, <4>2
    <3>5. \A u \in Threads \ {t} : todo'[u] = todo[u] /\ at'[u] = at[u]
      BY <1>0, <2>5
    <3>6. at'[t] = 0 /\ todo'[t] = Tail(rest)
      BY <1>0, <2>5
    <3>7. \A u \in Threads, f \in Assets : Writing(u, f)' => Writing(u, f)
      BY <3>5, <3>6 DEF Writing, Running, File
    <3>8. ASSUME NEW a \in Activities, NEW f \in Assets, Past(a, f)' PROVE Past(a, f)
      <4>1. a \in Threads
        BY DEF Threads
      <4>2. CASE a # t
        BY <2>1, <3>5, <3>8, <4>1, <4>2, PastSame
      <4>3. CASE a = t
        <5>1. ASSUME NEW i \in 1..Len(todo[t]) PROVE todo[t][i] # Asset(f)
          <6>1. CASE i \in {1, 2}
            BY <3>1, <3>2, <6>1 DEF Asset, Start
          <6>2. CASE i \notin {1, 2}
            <7>1. /\ i - 2 \in 1..Len(Tail(rest)) /\ (i - 2) + 1 = i - 1
                  /\ i - 1 \in 1..Len(rest) /\ (i - 1) + 1 = i
              BY <3>1, <3>2, <3>3, <3>4, <6>2
            <7>2. Tail(rest)[i - 2] = todo[t][i]
              BY <3>3, <3>4, <7>1
            <7>3. Tail(rest)[i - 2] # Asset(f)
              BY <3>6, <3>8, <4>3, <7>1 DEF Past
            <7> QED  BY <7>2, <7>3
          <6> QED  BY <6>1, <6>2
        <5> QED  BY <2>1, <3>8, <4>3, <5>1 DEF Past
      <4> QED  BY <4>2, <4>3
    <3> QED  BY <2>1, <3>7, <3>8, FreshQuiet
  <2> QED  BY <1>12, <2>4, <2>5 DEF IOFails
<1>13. ASSUME ProcessEnds, engines' \subseteq engines,
              engines' = {} \/ build' = build
       PROVE  FreshInv'
  <2>1. /\ todo' = [t \in Threads |-> <<>>] /\ exists' = exists /\ disk' = disk
        /\ life' = [t \in Threads |-> IF life[t] = "new" THEN "new" ELSE "lost"]
        /\ spoiled \subseteq spoiled' /\ requested' = requested
    BY <1>13 DEF ProcessEnds
  <2>2. \A t \in Threads : \A f : ~Writing(t, f)'
    BY <2>1 DEF Writing, Running
  <2>3. \A a \in Activities : \A f : ~Past(a, f)'
    BY <2>1 DEF Past, Threads
  <2>4. engines' # {} => Unwritten(Bin)' /\ (Bin \in spoiled' \cup requested' \/ Fresh(Bin)')
    BY <1>13, <2>1, <2>2 DEF FreshInv, Unwritten, Fresh
  <2> QED  BY <2>2, <2>3, <2>4 DEF FreshInv
<1>14. ASSUME (\E t \in Threads : SettingMissing(t)) \/ Kill \/ Upgrade PROVE FreshInv'
  BY <1>13, <1>14 DEF SettingMissing, Kill, Upgrade, EnginesRemain
<1>15. ASSUME (\E e \in Activities : EngineUp(e) \/ EngineYields(e)) \/ UNCHANGED vars
       PROVE  FreshInv'
  <2>1. /\ todo' = todo /\ at' = at /\ life' = life /\ exists' = exists /\ disk' = disk
        /\ spoiled' = spoiled /\ build' = build /\ engines' \subseteq engines
        /\ requested' = requested
    BY <1>15 DEF EngineUp, EngineYields, vars
  <2>2. \A u \in Threads, f \in Assets : Writing(u, f)' => Writing(u, f)
    BY <2>1 DEF Writing, Running, File
  <2>3. \A a \in Activities, f \in Assets : Past(a, f)' => Past(a, f)
    BY <2>1 DEF Past
  <2> QED  BY <2>1, <2>2, <2>3, FreshQuiet
<1> QED
  BY <1>1, <1>2, <1>3, <1>4, <1>5, <1>6, <1>7, <1>8, <1>9, <1>10, <1>11, <1>12,
     <1>14, <1>15 DEF Next, RunJob

\* OT.installationTask, "fresh copy for open-tee and TAs": over upgrades, torn
\* files, other activities, requests for other files and running engines, what
\* an installation has passed is the installed build's, unless writing it failed
\* or a client has named it in otInstallTa.
THEOREM AssetsStayFresh == Spec => []AssetsAreFresh
<1>1. Init => FileInv /\ FreshInv
  <2>1. ASSUME Init PROVE FreshInv
    <3>1. \A t \in Threads : todo[t] = <<>> /\ life[t] = "new"
      BY <2>1 DEF Init
    <3>2. \A t \in Threads : \A f : ~Writing(t, f)
      BY <3>1 DEF Writing, Running
    <3>3. \A a \in Activities : \A f : ~Past(a, f)
      BY <3>1 DEF Past, Threads
    <3> QED  BY <2>1, <3>2, <3>3 DEF Init, FreshInv
  <2> QED  BY <2>1, FilesInit
<1>2. FileInv /\ FreshInv /\ [Next]_vars => FileInv' /\ FreshInv'
  BY FilesStep, FreshStep DEF FileInv
<1>3. FileInv /\ FreshInv => AssetsAreFresh
  <2> SUFFICES ASSUME FileInv, FreshInv, NEW a \in Activities,
                      NEW f \in Assets \ (spoiled \cup requested),
                      Past(a, f), Unwritten(f)
               PROVE  Fresh(f)
    BY DEF AssetsAreFresh
  <2>1. OfBuild(f)
    BY DEF FreshInv
  <2>2. f \in Files /\ f \in exists \ spoiled
    BY <2>1, FileFacts DEF OfBuild
  <2>3. Complete(f)
    BY <2>2, QuietComplete DEF FileInv, Unwritten
  <2> QED  BY <2>1, <2>2, <2>3, CompleteFresh DEF FileInv
<1> QED  BY <1>1, <1>2, <1>3, PTL DEF Spec

-----------------------------------------------------------------------------
(* The order of the jobs, and what holds while nothing is interrupted.     *)

\* The job that a queue ends with.
LastJob(q) == q[Len(q)]

\* The configurations are the first jobs of a queue, and the only files that
\* are installed as configurations.
ConfigsFirst(q) ==
    /\ \A i \in 1..Len(q) : q[i].do = "config" => q[i].file \in Configs
    /\ \A i, j \in 1..Len(q) : i < j /\ q[j].do = "config" => q[i].do = "config"

OrderInv == \A t \in Threads : ConfigsFirst(todo[t])

\* The stop task of a destroyed activity is its last, and runs.
StopInv ==
    /\ \A t \in Threads : life[t] # "destroyed" =>
         \A i \in 1..Len(todo[t]) : todo[t][i].do # "stop"
    /\ \A a \in Activities : life[a] = "destroyed" /\ a \notin stopped =>
         todo[a] # <<>> /\ LastJob(todo[a]) = Stop

\* Without an I/O error an installation leaves its configurations behind and
\* ends with the start of the engine.
StartInv ==
    failures = 0 => \A a \in Activities :
        /\ life[a] = "live" /\ todo[a] # <<>> => LastJob(todo[a]) = Start
        /\ life[a] \in {"live", "destroyed"} => \A f \in Configs :
             f \in exists \/ \E i \in 1..Len(todo[a]) : todo[a][i] = Config(f)

\* The process was not killed and no I/O has failed.
Undisturbed == kills = 0 /\ failures = 0

\* Then no writing was cut short, but by a client's, and no thread is gone.
CleanInv ==
    Undisturbed => spoiled \subseteq requested /\ \A t \in Threads : life[t] # "lost"

\* Clients have asked for TAs that the shipped setting lists, and nothing else.
OnlyTAs == requested \subseteq Elements(TAs)

\* An activity's thread has something left to do.
Pending == \E a \in Activities : todo[a] # <<>>

\* Without a stop the pid file and the socket name one engine that runs.
EngineInv ==
    Undisturbed /\ OnlyTAs /\ (\A a \in Activities : life[a] # "destroyed") =>
        /\ socket = pidFile /\ pidFile \in engines \cup {None}
        /\ engines # {} => booting # {} \/ pidFile # None
        /\ (\E a \in Activities : life[a] = "live") => engines # {} \/ Pending
-----------------------------------------------------------------------------
(* What a step does to a queue.                                            *)

\* The running job has ended; a configuration is there then, and a start has
\* been tried, unless I/O failed.
Ends(t) ==
    /\ life'[t] = life[t] /\ todo[t] # <<>> /\ todo'[t] = Tail(todo[t])
    /\ Head(todo[t]).do = "stop" => t \in stopped'
    /\ Head(todo[t]).do = "config" => failures' # 0 \/ File(t) \in exists'
    /\ Head(todo[t]).do = "start" => failures' # 0 \/ startOpenTEEEngine(t)

\* The setting has been read.
ListsTAs(t) ==
    /\ life'[t] = life[t] /\ t \in Activities /\ Running(t, "setting")
    /\ \E n \in 0..Len(TAs) : todo'[t] = WithTAs(todo[t], SubSeq(TAs, 1, n))

\* The setting could not be read, and nothing is started.
GivesUp(t) ==
    /\ life'[t] = life[t] /\ Running(t, "setting") /\ failures' # 0
    /\ todo'[t] = Tail(Tail(todo[t]))

Created(t) ==
    /\ t \in Activities /\ life[t] = "new" /\ life'[t] = "live"
    /\ todo'[t] = installationTask

Destroyed(t) ==
    /\ t \in Activities /\ life[t] = "live" /\ life'[t] = "destroyed"
    /\ todo'[t] = quitSafely(todo[t])

Requested(t) ==
    /\ t \in Requests /\ life'[t] = "live"
    /\ \E f \in Files : todo'[t] = <<Asset(f)>>

\* The process has ended.
Gone(t) ==
    /\ life'[t] = (IF life[t] = "new" THEN "new" ELSE "lost")
    /\ todo'[t] = <<>>

QueueChange(t) ==
    \/ life'[t] = life[t] /\ todo'[t] = todo[t]
    \/ Ends(t) \/ ListsTAs(t) \/ GivesUp(t)
    \/ Created(t) \/ Destroyed(t) \/ Requested(t)
    \/ Gone(t)

\* Every step is one of these changes to each queue.  A configuration that is
\* passed is there: it was found, or was open, and is not the engine's program.
LEMMA QueueChanges ==
    ASSUME TypeOK, QueueInv, OrderInv, OpenInv, [Next]_vars
    PROVE  \A t \in Threads : QueueChange(t)
<1> USE DEF files, engine, faults
<1>0. /\ life \in [Threads -> {"new", "live", "destroyed", "lost"}]
      /\ todo \in [Threads -> Seq(Jobs)] /\ at \in [Threads -> 0..Blocks + 1]
      /\ failures \in Nat /\ Activities \subseteq Threads /\ Requests \subseteq Threads
      /\ exists \in SUBSET Files
  BY EngineAssumption DEF TypeOK, Threads
<1> SUFFICES ASSUME NEW u \in Threads PROVE QueueChange(u)
  OBVIOUS
<1>1. ASSUME NEW t \in Threads, life' = life, JobEnds(t), todo[t] # <<>>,
             Head(todo[t]).do = "stop" => t \in stopped',
             Head(todo[t]).do = "config" => failures' # 0 \/ File(t) \in exists',
             Head(todo[t]).do = "start" => failures' # 0 \/ startOpenTEEEngine(t)
      PROVE  QueueChange(u)
  <2>1. CASE u = t
    <3>1. life'[t] = life[t] /\ todo'[t] = Tail(todo[t])
      BY <1>0, <1>1 DEF JobEnds
    <3>2. Ends(t)
      BY <1>1, <3>1 DEF Ends
    <3> QED  BY <2>1, <3>2 DEF QueueChange
  <2>2. CASE u # t
    BY <1>0, <1>1, <2>2 DEF JobEnds, QueueChange
  <2> QED  BY <2>1, <2>2
<1>2. ASSUME life' = life, todo' = todo PROVE QueueChange(u)
  BY <1>2 DEF QueueChange
<1>3. ASSUME NEW a \in Activities, onCreate(a) \/ onDestroy(a) PROVE QueueChange(u)
  <2>1. CASE u = a /\ onCreate(a)
    <3>1. Created(a)
      BY <1>0, <2>1 DEF onCreate, Created
    <3> QED  BY <2>1, <3>1 DEF QueueChange
  <2>2. CASE u = a /\ onDestroy(a)
    <3>1. Destroyed(a)
      BY <1>0, <2>2 DEF onDestroy, Destroyed
    <3> QED  BY <2>2, <3>1 DEF QueueChange
  <2>3. CASE u # a
    BY <1>0, <1>3, <2>3 DEF onCreate, onDestroy, QueueChange
  <2> QED  BY <1>3, <2>1, <2>2, <2>3
<1>4. ASSUME NEW r \in Requests, otInstallTa(r) PROVE QueueChange(u)
  <2>1. CASE u = r
    <3>1. Requested(r)
      BY <1>0, <1>4 DEF otInstallTa, Requested
    <3> QED  BY <2>1, <3>1 DEF QueueChange
  <2>2. CASE u # r
    BY <1>0, <1>4, <2>2 DEF otInstallTa, QueueChange
  <2> QED  BY <2>1, <2>2
<1>5. ASSUME NEW t \in Threads, LookUp(t) PROVE QueueChange(u)
  <2>1. /\ todo[t] # <<>> /\ Head(todo[t]).do \in {"config", "asset"}
        /\ life' = life /\ exists' = exists
    BY <1>5 DEF LookUp, Running
  <2>2. CASE toInstall(t)
    BY <1>2, <1>5, <2>1, <2>2 DEF LookUp, Advance
  <2>3. CASE ~toInstall(t)
    <3>1. JobEnds(t) /\ File(t) \in exists
      BY <1>5, <2>3 DEF LookUp, toInstall
    <3> QED  BY <1>1, <2>1, <3>1
  <2> QED  BY <2>2, <2>3
<1>6. ASSUME NEW t \in Threads, Open(t) PROVE QueueChange(u)
  <2>1. /\ todo[t] # <<>> /\ Head(todo[t]).do \in {"config", "asset"} /\ life' = life
    BY <1>6 DEF Open, Running
  <2>2. CASE Advance(t)
    BY <1>2, <2>1, <2>2 DEF Advance
  <2>3. CASE JobEnds(t) /\ File(t) = Bin
    <3>1. Head(todo[t]) = todo[t][1] /\ Len(todo[t]) \in Nat \ {0}
      BY <2>1, RunningFacts
    <3>2. Head(todo[t]).do = "config" => File(t) \in Configs
      BY <3>1 DEF OrderInv, ConfigsFirst, File
    <3>3. Bin \notin Configs
      BY FileFacts
    <3> QED  BY <1>1, <2>1, <2>3, <3>2, <3>3
  <2> QED  BY <1>6, <2>2, <2>3 DEF Open
<1>7. ASSUME NEW t \in Threads, Write(t) PROVE QueueChange(u)
  <2>1. /\ todo[t] # <<>> /\ Head(todo[t]).do \in {"config", "asset"}
        /\ life' = life /\ exists' = exists /\ Writing(t, File(t))
    BY <1>7 DEF Write, Running, Writing
  <2>2. File(t) \in exists
    BY <2>1, RunningFacts DEF OpenInv
  <2>3. CASE Advance(t)
    BY <1>2, <2>1, <2>3 DEF Advance
  <2>4. CASE JobEnds(t)
    BY <1>1, <2>1, <2>2, <2>4
  <2> QED  BY <1>7, <2>3, <2>4 DEF Write
<1>8. ASSUME NEW t \in Threads, InstallTAs(t) PROVE QueueChange(u)
  <2>1. todo[t] # <<>> /\ Head(todo[t]).do = "setting" /\ life' = life
    BY <1>8 DEF InstallTAs, Running
  <2>2. CASE u = t
    <3>1. t \in Activities
      BY <2>1, RunningFacts
    <3>2. PICK n \in 0..Len(TAs) :
               todo' = [todo EXCEPT ![t] = WithTAs(todo[t], SubSeq(TAs, 1, n))]
      BY <1>8 DEF InstallTAs
    <3>3. todo'[t] = WithTAs(todo[t], SubSeq(TAs, 1, n))
      BY <1>0, <3>2
    <3>4. ListsTAs(t)
      BY <2>1, <3>1, <3>3 DEF ListsTAs, Running
    <3> QED  BY <2>2, <3>4 DEF QueueChange
  <2>3. CASE u # t
    BY <1>0, <1>8, <2>3 DEF InstallTAs, QueueChange
  <2> QED  BY <2>2, <2>3
<1>9. ASSUME NEW t \in Threads, startOpenTEEEngine(t) PROVE QueueChange(u)
  <2>1. todo[t] # <<>> /\ Head(todo[t]).do = "start" /\ JobEnds(t) /\ life' = life
    BY <1>9 DEF startOpenTEEEngine, Running
  <2> QED  BY <1>1, <1>9, <2>1
<1>10. ASSUME NEW t \in Threads, stopOpenTEEEngine(t) PROVE QueueChange(u)
  <2>1. todo[t] # <<>> /\ Head(todo[t]).do = "stop" /\ life' = life
    BY <1>10 DEF stopOpenTEEEngine, Running
  <2>2. CASE Advance(t)
    BY <1>2, <2>1, <2>2 DEF Advance
  <2>3. CASE JobEnds(t) /\ t \in stopped'
    BY <1>1, <2>1, <2>3
  <2> QED  BY <1>10, <2>2, <2>3 DEF stopOpenTEEEngine
<1>11. ASSUME NEW t \in Threads, IOFails(t) PROVE QueueChange(u)
  <2>1. /\ todo[t] # <<>> /\ life' = life /\ failures' # 0
        /\ Head(todo[t]).do = "stop" => t \in stopped'
    BY <1>0, <1>11 DEF IOFails, Running
  <2>2. CASE Advance(t)
    BY <1>2, <2>1, <2>2 DEF Advance
  <2>3. CASE JobEnds(t)
    BY <1>1, <2>1, <2>3
  <2>4. CASE /\ Running(t, "setting")
             /\ todo' = [todo EXCEPT ![t] = Tail(Tail(todo[t]))]
    <3>1. CASE u = t
      <4>1. GivesUp(t)
        BY <1>0, <2>1, <2>4 DEF GivesUp
      <4> QED  BY <3>1, <4>1 DEF QueueChange
    <3>2. CASE u # t
      BY <1>0, <2>1, <2>4, <3>2 DEF QueueChange
    <3> QED  BY <3>1, <3>2
  <2> QED  BY <1>11, <2>2, <2>3, <2>4 DEF IOFails
<1>12. ASSUME ProcessEnds PROVE QueueChange(u)
  <2>1. Gone(u)
    BY <1>12 DEF ProcessEnds, Gone
  <2> QED  BY <2>1 DEF QueueChange
<1>13. ASSUME (\E e \in Activities : EngineUp(e) \/ EngineYields(e)) \/ UNCHANGED vars
       PROVE  QueueChange(u)
  BY <1>2, <1>13 DEF EngineUp, EngineYields, vars
<1> QED
  BY <1>3, <1>4, <1>5, <1>6, <1>7, <1>8, <1>9, <1>10, <1>11, <1>12, <1>13
     DEF Next, RunJob, SettingMissing, Kill, Upgrade

-----------------------------------------------------------------------------
(* The jobs of a changed queue.                                            *)

\* What a queue is once the TAs are listed.
LEMMA TAsFacts ==
    ASSUME NEW a \in Activities, NEW q, GoodQueue(a, q), q # <<>>,
           q[1].do = "setting", NEW n \in 0..Len(TAs)
    PROVE  LET r == WithTAs(q, SubSeq(TAs, 1, n)) IN
           /\ r \in Seq(Jobs) /\ r # <<>> /\ n \in Nat /\ Len(q) \in Nat /\ Len(q) > 1
           /\ Len(r) = n + (Len(q) - 1)
           /\ \A i \in 1..n : r[i].do = "asset"
           /\ \A i \in 1..Len(r) :
                i > n => (i - n) + 1 \in 2..Len(q) /\ r[i] = q[(i - n) + 1]
<1> DEFINE list  == SubSeq(TAs, 1, n)
           front == AssetJobs(list)
           rest  == Tail(q)
<1>1. q \in Seq(Jobs) /\ Len(q) \in Nat \ {0} /\ n \in Nat
  BY TailFacts, EngineAssumption DEF GoodQueue
<1>2. Len(q) > 1
  BY <1>1 DEF GoodQueue
<1>3. /\ rest \in Seq(Jobs) /\ Len(rest) = Len(q) - 1
      /\ \A i \in 1..Len(rest) : rest[i] = q[i + 1]
  BY <1>1, TailFacts
<1>4. /\ front \in Seq(Jobs) /\ Len(front) = n
      /\ \A i \in 1..n : front[i] = Asset(list[i])
  <2>1. list \in Seq(STRING) /\ Len(list) = n /\ Elements(list) \subseteq Files
    BY PrefixFacts
  <2> QED  BY <2>1, AssetJobsFacts
<1>5. \A f : Asset(f).do = "asset"
  BY DEF Asset
<1> HIDE DEF front, list, rest
<1> DEFINE r == front \o rest
<1>6. /\ r \in Seq(Jobs) /\ Len(r) = Len(front) + Len(rest)
      /\ \A i \in 1..Len(front) : r[i] = front[i]
      /\ \A i \in 1..Len(front) + Len(rest) : i > Len(front) => r[i] = rest[i - Len(front)]
  <2>1. front \in Seq(Jobs) /\ rest \in Seq(Jobs)
    BY <1>3, <1>4
  <2> QED  BY <2>1, ConcatFacts
<1>7. WithTAs(q, SubSeq(TAs, 1, n)) = r
  BY DEF WithTAs, r, front, list, rest
<1> HIDE DEF r
<1>8. Len(r) = n + (Len(q) - 1) /\ \A i \in 1..n : r[i].do = "asset"
  BY <1>1, <1>3, <1>4, <1>5, <1>6
<1>9. ASSUME NEW i \in 1..Len(r), i > n
      PROVE  (i - n) + 1 \in 2..Len(q) /\ r[i] = q[(i - n) + 1]
  <2>1. i - n \in 1..Len(rest) /\ (i - n) + 1 \in 2..Len(q)
    BY <1>1, <1>3, <1>8, <1>9
  <2>2. r[i] = rest[i - n]
    BY <1>3, <1>4, <1>6, <1>9
  <2> QED  BY <1>3, <2>1, <2>2
<1>10. r # <<>>
  <2>1. Len(r) # 0
    BY <1>1, <1>2, <1>8
  <2> QED  BY <2>1
<1> QED  BY <1>1, <1>2, <1>6, <1>7, <1>8, <1>9, <1>10

\* A queue that has lost its first job or its first two.
LEMMA TailTailFacts ==
    ASSUME NEW a, NEW q, GoodQueue(a, q), q # <<>>, q[1].do = "setting"
    PROVE  /\ Len(q) \in Nat /\ Len(q) > 1 /\ q[2] = Start
           /\ Tail(Tail(q)) \in Seq(Jobs) /\ Len(Tail(Tail(q))) = Len(q) - 2
           /\ \A i \in 1..Len(Tail(Tail(q))) :
                i + 2 \in 1..Len(q) /\ Tail(Tail(q))[i] = q[i + 2]
<1>1. q \in Seq(Jobs) /\ Len(q) \in Nat \ {0}
  BY TailFacts DEF GoodQueue
<1>2. Len(q) > 1 /\ q[2] = Start
  BY <1>1 DEF GoodQueue
<1> DEFINE rest == Tail(q)
<1>3. /\ rest \in Seq(Jobs) /\ Len(rest) = Len(q) - 1
      /\ \A i \in 1..Len(rest) : rest[i] = q[i + 1]
  BY <1>1, TailFacts
<1>4. rest # <<>>
  BY <1>1, <1>2, TailOfTwo
<1> HIDE DEF rest
<1>5. /\ Tail(rest) \in Seq(Jobs) /\ Len(Tail(rest)) = Len(rest) - 1
      /\ \A i \in 1..Len(Tail(rest)) : Tail(rest)[i] = rest[i + 1]
  BY <1>3, <1>4, TailFacts
<1>6. ASSUME NEW i \in 1..Len(Tail(rest))
      PROVE  i + 2 \in 1..Len(q) /\ Tail(rest)[i] = q[i + 2]
  <2>1. i + 1 \in 1..Len(rest) /\ (i + 1) + 1 = i + 2 /\ i + 2 \in 1..Len(q)
    BY <1>1, <1>3, <1>5
  <2> QED  BY <1>3, <1>5, <2>1
<1>7. Len(Tail(rest)) = Len(q) - 2
  BY <1>1, <1>3, <1>5
<1> QED  BY <1>1, <1>2, <1>5, <1>6, <1>7 DEF rest

\* The end of a queue has its configurations first, too.
LEMMA EndOfQueue ==
    ASSUME NEW q, NEW p, NEW k \in Nat, ConfigsFirst(q), Len(p) \in Nat,
           \A i \in 1..Len(p) : i + k \in 1..Len(q) /\ p[i] = q[i + k]
    PROVE  ConfigsFirst(p)
<1>1. ASSUME NEW i \in 1..Len(p), p[i].do = "config" PROVE p[i].file \in Configs
  <2>1. i + k \in 1..Len(q) /\ q[i + k].do = "config" /\ p[i] = q[i + k]
    BY <1>1
  <2> QED  BY <2>1 DEF ConfigsFirst
<1>2. ASSUME NEW i \in 1..Len(p), NEW j \in 1..Len(p), i < j, p[j].do = "config"
      PROVE  p[i].do = "config"
  <2>1. /\ i + k \in 1..Len(q) /\ j + k \in 1..Len(q) /\ i + k < j + k
        /\ q[j + k].do = "config" /\ p[i] = q[i + k]
    BY <1>2
  <2> QED  BY <2>1 DEF ConfigsFirst
<1> QED  BY <1>1, <1>2 DEF ConfigsFirst

\* Every job of a changed queue is one of the old queue, or one that the change
\* brought, and none of the old jobs change their order.
LEMMA OrderStep ==
    ASSUME TypeOK, QueueInv, OrderInv, \A t \in Threads : QueueChange(t)
    PROVE  OrderInv'
<1> SUFFICES ASSUME NEW t \in Threads PROVE ConfigsFirst(todo'[t])
  BY DEF OrderInv
<1> DEFINE q == todo[t]
           p == todo'[t]
<1>1. q \in Seq(Jobs) /\ GoodQueue(t, q) /\ ConfigsFirst(q) /\ Len(q) \in Nat
  BY DEF TypeOK, QueueInv, OrderInv
<1>2. CASE Ends(t)
  <2>1. /\ Len(q) \in Nat \ {0} /\ Len(p) = Len(q) - 1
        /\ \A i \in 1..Len(p) : p[i] = q[i + 1]
    BY <1>1, <1>2, TailFacts DEF Ends
  <2> HIDE DEF p, q
  <2>2. Len(p) \in Nat /\ \A i \in 1..Len(p) : i + 1 \in 1..Len(q)
    BY <2>1
  <2>3. ConfigsFirst(p)
    BY <1>1, <2>1, <2>2, EndOfQueue
  <2> QED  BY <2>3 DEF p
<1>3. CASE ListsTAs(t)
  <2>1. PICK n \in 0..Len(TAs) : p = WithTAs(q, SubSeq(TAs, 1, n))
    BY <1>3 DEF ListsTAs
  <2>2. t \in Activities /\ q # <<>> /\ q[1].do = "setting"
    BY <1>1, <1>3, TailFacts DEF ListsTAs, Running
  <2> HIDE DEF p, q
  <2>3. /\ n \in Nat /\ Len(q) > 1 /\ Len(p) = n + (Len(q) - 1)
        /\ \A i \in 1..n : p[i].do = "asset"
        /\ \A i \in 1..Len(p) :
             i > n => (i - n) + 1 \in 2..Len(q) /\ p[i] = q[(i - n) + 1]
    BY <1>1, <2>1, <2>2, TAsFacts
  <2>4. \A i \in 2..Len(q) : q[i].do # "config"
    <3> SUFFICES ASSUME NEW i \in 2..Len(q), q[i].do = "config" PROVE FALSE
      OBVIOUS
    <3>1. 1 \in 1..Len(q) /\ i \in 1..Len(q) /\ 1 < i
      BY <1>1
    <3> QED  BY <1>1, <2>2, <3>1 DEF ConfigsFirst
  <2>5. \A i \in 1..Len(p) : p[i].do # "config"
    <3> TAKE i \in 1..Len(p)
    <3>1. CASE i <= n
      BY <2>3, <3>1
    <3>2. CASE i > n
      BY <2>3, <2>4, <3>2
    <3> QED  BY <2>3, <3>1, <3>2
  <2>6. ConfigsFirst(p)
    BY <2>5 DEF ConfigsFirst
  <2> QED  BY <2>6 DEF p
<1>4. CASE GivesUp(t)
  <2>1. q # <<>> /\ q[1].do = "setting" /\ p = Tail(Tail(q))
    BY <1>1, <1>4, TailFacts DEF GivesUp, Running
  <2>2. \A i \in 1..Len(p) : i + 2 \in 1..Len(q) /\ p[i] = q[i + 2]
    BY <1>1, <2>1, TailTailFacts
  <2>3. Len(p) \in Nat
    BY <1>1, <2>1, TailTailFacts
  <2> HIDE DEF p, q
  <2>4. ConfigsFirst(p)
    BY <1>1, <2>2, <2>3, EndOfQueue
  <2> QED  BY <2>4 DEF p
<1>5. CASE Created(t)
  <2>1. /\ \A i \in 1..Len(installationTask) :
             \/ i \in 1..2 /\ installationTask[i].do = "config"
             \/ i > 2 /\ installationTask[i].do # "config"
        /\ Len(installationTask) \in Nat
    BY InstallationKinds, InstallationFacts
  <2>2. installationTask[1].file \in Configs /\ installationTask[2].file \in Configs
    BY InstallationFacts DEF Config, Configs
  <2>3. ConfigsFirst(installationTask)
    BY <2>1, <2>2 DEF ConfigsFirst
  <2> QED  BY <1>5, <2>3 DEF Created
<1>6. CASE Destroyed(t)
  <2>1. Stop \in Jobs /\ Stop.do = "stop"
    BY FileFacts DEF Stop
  <2>2. /\ Len(p) = Len(q) + 1 /\ p[Len(q) + 1].do = "stop"
        /\ \A i \in 1..Len(q) : p[i] = q[i]
    BY <1>1, <1>6, <2>1, AppendFacts DEF Destroyed, quitSafely
  <2> HIDE DEF p, q
  <2>3. ConfigsFirst(p)
    BY <1>1, <2>2 DEF ConfigsFirst
  <2> QED  BY <2>3 DEF p
<1>7. CASE Requested(t)
  <2>1. PICK f \in Files : p = <<Asset(f)>>
    BY <1>7 DEF Requested
  <2>2. Len(p) = 1 /\ p[1].do = "asset"
    BY <2>1 DEF Asset
  <2> HIDE DEF p
  <2>3. ConfigsFirst(p)
    BY <2>2 DEF ConfigsFirst
  <2> QED  BY <2>3 DEF p
<1>8. CASE Gone(t)
  BY <1>8 DEF Gone, ConfigsFirst
<1> QED
  BY <1>1, <1>2, <1>3, <1>4, <1>5, <1>6, <1>7, <1>8 DEF QueueChange

\* The last job of the end of a queue.
LEMMA LastOfEnd ==
    ASSUME NEW q, NEW p, NEW k \in Nat, Len(q) \in Nat, Len(p) = Len(q) - k,
           Len(p) \in Nat \ {0}, \A i \in 1..Len(p) : p[i] = q[i + k]
    PROVE  LastJob(p) = LastJob(q)
<1>1. Len(p) \in 1..Len(p) /\ Len(p) + k = Len(q)
  OBVIOUS
<1> QED  BY <1>1 DEF LastJob

\* Listing the TAs leaves the last job of a queue.
LEMMA LastWithTAs ==
    ASSUME NEW a \in Activities, NEW q, GoodQueue(a, q), q # <<>>,
           q[1].do = "setting", NEW n \in 0..Len(TAs)
    PROVE  LastJob(WithTAs(q, SubSeq(TAs, 1, n))) = LastJob(q)
<1> DEFINE r == WithTAs(q, SubSeq(TAs, 1, n))
<1>1. /\ n \in Nat /\ Len(q) \in Nat /\ Len(q) > 1 /\ Len(r) = n + (Len(q) - 1)
      /\ \A i \in 1..Len(r) : i > n => r[i] = q[(i - n) + 1]
  BY TAsFacts
<1> HIDE DEF r
<1>2. Len(r) \in 1..Len(r) /\ Len(r) > n /\ (Len(r) - n) + 1 = Len(q)
  BY <1>1
<1>3. r[Len(r)] = q[Len(q)]
  BY <1>1, <1>2
<1> QED  BY <1>3 DEF LastJob, r

\* No configuration is installed behind another job.
LEMMA NoConfigBehind ==
    ASSUME NEW q, ConfigsFirst(q), Len(q) \in Nat, q[1].do # "config",
           NEW i \in 1..Len(q), q[i].do = "config"
    PROVE  FALSE
<1>1. 1 \in 1..Len(q) /\ (i = 1 \/ 1 < i)
  OBVIOUS
<1> QED  BY <1>1 DEF ConfigsFirst

-----------------------------------------------------------------------------
(* The stop and the start are run.                                         *)

\* quitSafely: the stop task stays the last job of its thread until it is run.
LEMMA StopStep ==
    ASSUME TypeOK, QueueInv, StopInv, stopped \subseteq stopped',
           \A t \in Threads : QueueChange(t)
    PROVE  StopInv'
<1>0. Activities \subseteq Threads
  BY DEF Threads
<1> DEFINE NoStop(p) == \A i \in 1..Len(p) : p[i].do # "stop"
           StopLast(p) == p # <<>> /\ LastJob(p) = Stop
<1> SUFFICES ASSUME NEW t \in Threads
             PROVE  /\ life'[t] # "destroyed" => NoStop(todo'[t])
                    /\ t \in Activities /\ life'[t] = "destroyed" /\ t \notin stopped'
                         => StopLast(todo'[t])
  BY <1>0 DEF StopInv
<1> DEFINE q == todo[t]
           p == todo'[t]
<1>1. /\ q \in Seq(Jobs) /\ GoodQueue(t, q) /\ Len(q) \in Nat
      /\ life[t] # "destroyed" => NoStop(q)
      /\ t \in Activities /\ life[t] = "destroyed" /\ t \notin stopped => StopLast(q)
  BY DEF TypeOK, QueueInv, StopInv
<1>2. Stop.do = "stop" /\ Stop \in Jobs /\ Start.do = "start"
  BY FileFacts DEF Stop, Start
<1>3. CASE life'[t] = life[t] /\ p = q
  BY <1>1, <1>3
<1>4. CASE Ends(t)
  <2>1. /\ Len(q) \in Nat \ {0} /\ Len(p) = Len(q) - 1 /\ Head(q) = q[1]
        /\ \A i \in 1..Len(p) : p[i] = q[i + 1]
        /\ life'[t] = life[t] /\ p \in Seq(Jobs)
        /\ Head(q).do = "stop" => t \in stopped'
    BY <1>1, <1>4, TailFacts DEF Ends
  <2> HIDE DEF p, q
  <2>2. NoStop(q) => NoStop(p)
    BY <2>1
  <2>3. ASSUME StopLast(q), t \notin stopped' PROVE StopLast(p)
    <3>1. Len(q) # 1
      BY <1>2, <2>1, <2>3 DEF LastJob
    <3>2. Len(p) \in Nat \ {0} /\ p # <<>>
      BY <2>1, <3>1
    <3>3. LastJob(p) = LastJob(q)
      BY <2>1, <3>2, LastOfEnd
    <3> QED  BY <2>3, <3>2, <3>3
  <2>4. /\ life'[t] # "destroyed" => NoStop(p)
        /\ t \in Activities /\ life'[t] = "destroyed" /\ t \notin stopped' => StopLast(p)
    BY <1>1, <2>1, <2>2, <2>3
  <2> QED  BY <2>4 DEF p
<1>5. CASE ListsTAs(t)
  <2>1. PICK n \in 0..Len(TAs) : p = WithTAs(q, SubSeq(TAs, 1, n))
    BY <1>5 DEF ListsTAs
  <2>2. t \in Activities /\ q # <<>> /\ q[1].do = "setting" /\ life'[t] = life[t]
    BY <1>1, <1>5, TailFacts DEF ListsTAs, Running
  <2> HIDE DEF p, q
  <2>3. /\ n \in Nat /\ Len(p) = n + (Len(q) - 1) /\ p # <<>>
        /\ \A i \in 1..n : p[i].do = "asset"
        /\ \A i \in 1..Len(p) :
             i > n => (i - n) + 1 \in 2..Len(q) /\ p[i] = q[(i - n) + 1]
        /\ LastJob(p) = LastJob(q)
    BY <1>1, <2>1, <2>2, TAsFacts, LastWithTAs
  <2>4. ASSUME NoStop(q), NEW i \in 1..Len(p) PROVE p[i].do # "stop"
    <3>1. CASE i <= n
      BY <2>3, <3>1
    <3>2. CASE i > n
      <4>1. (i - n) + 1 \in 1..Len(q) /\ p[i] = q[(i - n) + 1]
        BY <1>1, <2>3, <3>2
      <4> QED  BY <2>4, <4>1
    <3> QED  BY <1>1, <2>3, <3>1, <3>2
  <2>5. /\ life'[t] # "destroyed" => NoStop(p)
        /\ t \in Activities /\ life'[t] = "destroyed" /\ t \notin stopped' => StopLast(p)
    BY <1>1, <2>2, <2>3, <2>4
  <2> QED  BY <2>5 DEF p
<1>6. CASE GivesUp(t)
  <2>1. q # <<>> /\ q[1].do = "setting" /\ p = Tail(Tail(q)) /\ life'[t] = life[t]
    BY <1>1, <1>6, TailFacts DEF GivesUp, Running
  <2>2. /\ Len(q) > 1 /\ q[2] = Start /\ Len(p) = Len(q) - 2 /\ p \in Seq(Jobs)
        /\ \A i \in 1..Len(p) : i + 2 \in 1..Len(q) /\ p[i] = q[i + 2]
    BY <1>1, <2>1, TailTailFacts
  <2> HIDE DEF p, q
  <2>3. NoStop(q) => NoStop(p)
    BY <2>2
  <2>4. ASSUME StopLast(q) PROVE StopLast(p)
    <3>1. Len(q) # 2
      BY <1>2, <2>2, <2>4 DEF LastJob
    <3>2. Len(p) \in Nat \ {0} /\ p # <<>>
      BY <1>1, <2>2, <3>1
    <3>3. LastJob(p) = LastJob(q)
      BY <1>1, <2>2, <3>2, LastOfEnd
    <3> QED  BY <2>4, <3>2, <3>3
  <2>5. /\ life'[t] # "destroyed" => NoStop(p)
        /\ t \in Activities /\ life'[t] = "destroyed" /\ t \notin stopped' => StopLast(p)
    BY <1>1, <2>1, <2>3, <2>4
  <2> QED  BY <2>5 DEF p
<1>7. CASE Created(t)
  <2>1. NoStop(installationTask)
    BY InstallationKinds
  <2> QED  BY <1>7, <2>1 DEF Created
<1>8. CASE Destroyed(t)
  <2>1. Len(p) = Len(q) + 1 /\ p[Len(q) + 1] = Stop /\ p # <<>>
    BY <1>1, <1>2, <1>8, AppendFacts DEF Destroyed, quitSafely
  <2>2. StopLast(p)
    BY <2>1 DEF LastJob
  <2> QED  BY <1>8, <2>2 DEF Destroyed
<1>9. CASE Requested(t)
  <2>1. PICK f \in Files : p = <<Asset(f)>>
    BY <1>9 DEF Requested
  <2>2. Len(p) = 1 /\ p[1].do = "asset"
    BY <2>1 DEF Asset
  <2> QED  BY <1>9, <2>2 DEF Requested
<1>10. CASE Gone(t)
  BY <1>10 DEF Gone
<1> QED
  BY <1>3, <1>4, <1>5, <1>6, <1>7, <1>8, <1>9, <1>10 DEF QueueChange

\* OT.installationTask runs to its end unless I/O fails.
LEMMA StartStep ==
    ASSUME TypeOK, QueueInv, OrderInv, StartInv, exists \subseteq exists',
           failures' = 0 => failures = 0, \A t \in Threads : QueueChange(t)
    PROVE  StartInv'
<1> DEFINE Left(p, f) == \E i \in 1..Len(p) : p[i] = Config(f)
<1> SUFFICES ASSUME NEW a \in Activities, failures' = 0
             PROVE  /\ life'[a] = "live" /\ todo'[a] # <<>> => LastJob(todo'[a]) = Start
                    /\ life'[a] \in {"live", "destroyed"} => \A f \in Configs :
                         f \in exists' \/ Left(todo'[a], f)
  BY DEF StartInv
<1>0. a \in Threads /\ a \notin Requests
  BY EngineAssumption DEF Threads
<1> DEFINE q == todo[a]
           p == todo'[a]
<1>1. /\ q \in Seq(Jobs) /\ GoodQueue(a, q) /\ ConfigsFirst(q) /\ Len(q) \in Nat
      /\ life[a] = "live" /\ q # <<>> => LastJob(q) = Start
      /\ life[a] \in {"live", "destroyed"} => \A f \in Configs : f \in exists \/ Left(q, f)
  BY <1>0 DEF TypeOK, QueueInv, OrderInv, StartInv
<1>2. \A f : Config(f).do = "config" /\ Config(f).file = f
  BY DEF Config
<1>3. CASE life'[a] = life[a] /\ p = q
  BY <1>1, <1>3
<1>4. CASE Ends(a)
  <2>1. /\ Len(q) \in Nat \ {0} /\ Len(p) = Len(q) - 1 /\ Head(q) = q[1] /\ q # <<>>
        /\ \A i \in 1..Len(p) : p[i] = q[i + 1]
        /\ life'[a] = life[a] /\ p \in Seq(Jobs)
        /\ Head(q).do = "config" => Head(q).file \in exists'
    BY <1>1, <1>4, TailFacts DEF Ends, File
  <2> HIDE DEF p, q
  <2>2. ASSUME life'[a] = "live", p # <<>> PROVE LastJob(p) = Start
    <3>1. Len(p) \in Nat \ {0}
      BY <2>1, <2>2
    <3>2. LastJob(p) = LastJob(q)
      BY <2>1, <3>1, LastOfEnd
    <3> QED  BY <1>1, <2>1, <2>2, <3>2
  <2>3. ASSUME NEW f, Left(q, f) PROVE f \in exists' \/ Left(p, f)
    <3>1. PICK i \in 1..Len(q) : q[i] = Config(f)
      BY <2>3
    <3>2. CASE i = 1
      BY <1>2, <2>1, <3>1, <3>2
    <3>3. CASE i # 1
      <4>1. i - 1 \in 1..Len(p) /\ (i - 1) + 1 = i
        BY <2>1, <3>3
      <4>2. p[i - 1] = Config(f)
        BY <2>1, <3>1, <4>1
      <4> QED  BY <4>1, <4>2
    <3> QED  BY <3>2, <3>3
  <2>4. /\ life'[a] = "live" /\ p # <<>> => LastJob(p) = Start
        /\ life'[a] \in {"live", "destroyed"} =>
             \A f \in Configs : f \in exists' \/ Left(p, f)
    <3> HIDE DEF Left
    <3> QED  BY <1>1, <2>1, <2>2, <2>3
  <2> QED  BY <2>4 DEF p
<1>5. CASE ListsTAs(a)
  <2>1. PICK n \in 0..Len(TAs) : p = WithTAs(q, SubSeq(TAs, 1, n))
    BY <1>5 DEF ListsTAs
  <2>2. q # <<>> /\ q[1].do = "setting" /\ life'[a] = life[a]
    BY <1>1, <1>5, TailFacts DEF ListsTAs, Running
  <2>3. LastJob(p) = LastJob(q)
    BY <1>1, <2>1, <2>2, LastWithTAs
  <2>4. ASSUME NEW f, Left(q, f) PROVE FALSE
    BY <1>1, <1>2, <2>2, <2>4, NoConfigBehind
  <2> QED  BY <1>1, <2>2, <2>3, <2>4
<1>6. CASE GivesUp(a)
  BY <1>6 DEF GivesUp
<1>7. CASE Created(a)
  <2>1. Len(installationTask) \in Nat /\ Len(installationTask) >= 5
    BY InstallationFacts
  <2>2. LastJob(installationTask) = Start
    BY InstallationFacts DEF LastJob
  <2>3. Left(installationTask, Conf) /\ Left(installationTask, Setting)
    <3>1. 1 \in 1..Len(installationTask) /\ 2 \in 1..Len(installationTask)
      BY <2>1
    <3> QED  BY <3>1, InstallationFacts
  <2> HIDE DEF Left
  <2>4. p = installationTask
    BY <1>7 DEF Created
  <2> QED  BY <2>2, <2>3, <2>4 DEF Configs
<1>8. CASE Destroyed(a)
  <2>1. Stop \in Jobs
    BY FileFacts
  <2>2. /\ Len(p) = Len(q) + 1 /\ \A i \in 1..Len(q) : p[i] = q[i]
        /\ life[a] = "live" /\ life'[a] = "destroyed"
    BY <1>1, <1>8, <2>1, AppendFacts DEF Destroyed, quitSafely
  <2> HIDE DEF p, q
  <2>3. ASSUME NEW f, Left(q, f) PROVE Left(p, f)
    <3>1. PICK i \in 1..Len(q) : q[i] = Config(f)
      BY <2>3
    <3>2. i \in 1..Len(p) /\ p[i] = Config(f)
      BY <1>1, <2>2, <3>1
    <3> QED  BY <3>2
  <2>4. \A f \in Configs : f \in exists' \/ Left(p, f)
    <3> HIDE DEF Left
    <3> QED  BY <1>1, <2>2, <2>3
  <2> QED  BY <2>2, <2>4 DEF p
<1>9. CASE Requested(a)
  BY <1>0, <1>9 DEF Requested
<1>10. CASE Gone(a)
  BY <1>10 DEF Gone
<1> QED
  BY <1>0, <1>3, <1>4, <1>5, <1>6, <1>7, <1>8, <1>9, <1>10 DEF QueueChange

\* Threads that install one build are in files of one length.
LEMMA NoHoleLeft ==
    ASSUME TypeOK, QueueInv, OpenInv, NEW t \in Threads, todo[t] # <<>>,
           File(t) \notin requested
    PROVE  ~LeavesHole(t)
<1> SUFFICES ASSUME NEW u \in Threads, Writing(u, File(t)), at[u] - 2 > Pieces(t)
             PROVE  FALSE
  BY DEF LeavesHole
<1>1. todo[u] # <<>> /\ File(u) = File(t) /\ Writing(u, File(u))
  BY DEF Writing, Running
<1>2. t \notin Requests /\ u \notin Requests
  BY <1>1, RunningFacts
<1>3. Pieces(u) = Pieces(t) /\ Pieces(t) \in 1..Blocks /\ Blocks \in Nat
  BY <1>1, <1>2, PiecesFacts DEF Pieces, Source
<1>4. at[u] <= Pieces(u) + 1 /\ at[u] \in 0..Blocks + 1
  BY <1>1, RunningFacts DEF OpenInv
<1> QED  BY <1>3, <1>4

\* Setting finds its file, and nothing is interrupted.
LEMMA CleanStep ==
    ASSUME TypeOK, QueueInv, OrderInv, OpenInv, StartInv, CleanInv, [Next]_vars
    PROVE  CleanInv'
<1> USE DEF files, engine, faults
<1>0. /\ kills \in Nat /\ failures \in Nat /\ Activities \subseteq Threads
      /\ life \in [Threads -> {"new", "live", "destroyed", "lost"}]
      /\ Requests \subseteq Threads /\ requested \subseteq requested'
  BY EngineAssumption, NeverTakenBack DEF TypeOK, Threads
<1> DEFINE Clean == spoiled' \subseteq requested' /\ \A t \in Threads : life'[t] # "lost"
<1> SUFFICES ASSUME Undisturbed' PROVE Clean
  BY DEF CleanInv
<1>1. kills' = 0 /\ failures' = 0 /\ Undisturbed
  BY NeverTakenBack DEF Undisturbed
<1>2. spoiled \subseteq requested /\ \A t \in Threads : life[t] # "lost"
  BY <1>1 DEF CleanInv
<1>3. ASSUME NEW t \in Threads, SettingMissing(t) PROVE FALSE
  <2>1. todo[t] # <<>> /\ Head(todo[t]).do = "setting" /\ Setting \notin exists
    BY <1>3 DEF SettingMissing, Running
  <2>2. /\ t \in Activities /\ todo[t][1].do = "setting" /\ Len(todo[t]) \in Nat \ {0}
        /\ life[t] \in {"live", "destroyed"}
    BY <1>0, <2>1, RunningFacts
  <2>3. Setting \in Configs
    BY DEF Configs
  <2>4. PICK i \in 1..Len(todo[t]) : todo[t][i] = Config(Setting)
    BY <1>1, <2>1, <2>2, <2>3 DEF StartInv, Undisturbed
  <2>5. todo[t][i].do = "config"
    BY <2>4 DEF Config
  <2> QED  BY <2>2, <2>5, NoConfigBehind DEF OrderInv
<1>4. ASSUME NEW t \in Threads, IOFails(t) PROVE FALSE
  BY <1>0, <1>1, <1>4 DEF IOFails
<1>5. ASSUME Kill \/ Upgrade PROVE FALSE
  BY <1>0, <1>1, <1>5 DEF Kill, Upgrade
<1>6. ASSUME NEW a \in Activities, onCreate(a) \/ onDestroy(a)
      PROVE  Clean
  BY <1>0, <1>2, <1>6 DEF onCreate, onDestroy
<1>7. ASSUME NEW r \in Requests, otInstallTa(r)
      PROVE  Clean
  BY <1>0, <1>2, <1>7 DEF otInstallTa
<1>8. ASSUME NEW t \in Threads, Open(t) PROVE Clean
  <2>1. /\ todo[t] # <<>> /\ life' = life
        /\ spoiled' \in {spoiled, spoiled \cup {File(t)}, spoiled \ {File(t)}}
        /\ ~LeavesHole(t) => spoiled' \subseteq spoiled
    BY <1>8 DEF Open, Running
  <2>2. File(t) \in requested \/ ~LeavesHole(t)
    BY <2>1, NoHoleLeft
  <2> QED  BY <1>0, <1>2, <2>1, <2>2
<1>9. ASSUME \/ \E t \in Threads : LookUp(t) \/ Write(t) \/ InstallTAs(t)
             \/ \E t \in Threads : startOpenTEEEngine(t) \/ stopOpenTEEEngine(t)
             \/ \E e \in Activities : EngineUp(e) \/ EngineYields(e)
             \/ UNCHANGED vars
      PROVE  Clean
  BY <1>0, <1>2, <1>9 DEF LookUp, Write, InstallTAs, startOpenTEEEngine,
     stopOpenTEEEngine, EngineUp, EngineYields, vars
<1> HIDE DEF Clean
<1> QED  BY <1>3, <1>4, <1>5, <1>6, <1>7, <1>8, <1>9 DEF Next, RunJob

\* Worker.startOpenTEEEngine of the last installation: the program is there,
\* has all its pieces, is the shipped one and is not open, and so is the
\* configuration.
LEMMA LastStart ==
    ASSUME TypeOK, QueueInv, DiskInv, HolesCovered, FreshInv, OrderInv, StartInv,
           CleanInv, Undisturbed, OnlyTAs, NEW t \in Threads, Running(t, "start"),
           \A u \in Activities \ {t} : todo[u] = <<>>
    PROVE  Executable /\ Complete(Conf) /\ Shipped(Bin) /\ Shipped(Conf)
<1>1. /\ todo[t] # <<>> /\ Head(todo[t]).do = "start" /\ failures = 0
      /\ spoiled \subseteq Elements(TAs) /\ requested \subseteq Elements(TAs)
  BY DEF Running, CleanInv, Undisturbed, OnlyTAs
<1>2. /\ t \in Activities /\ todo[t][1].do = "start" /\ Len(todo[t]) \in Nat \ {0}
      /\ GoodQueue(t, todo[t]) /\ life[t] \in {"live", "destroyed"}
  <2>1. life[t] \in {"new", "live", "destroyed", "lost"}
    BY DEF TypeOK
  <2> QED  BY <1>1, <2>1, RunningFacts DEF QueueInv
<1>3. ASSUME NEW f, f \notin Elements(TAs), NEW u \in Threads PROVE ~Writing(u, f)
  <2>1. CASE u = t
    BY <1>1, <2>1 DEF Writing, Running
  <2>2. CASE u \in Activities \ {t}
    BY <2>2 DEF Writing, Running
  <2>3. CASE u \in Requests
    <3>1. todo[u] # <<>> => File(u) \in Elements(TAs)
      BY <1>1, <2>3, RunningFacts
    <3> QED  BY <1>3, <3>1 DEF Writing, Running
  <2> QED  BY <2>1, <2>2, <2>3 DEF Threads
<1>4. Bin \notin Elements(TAs) /\ Conf \notin Elements(TAs) /\ Bin \in Assets
  BY EngineAssumption DEF Assets, Configs
<1>5. Bin \in exists
  <2>1. ASSUME NEW i \in 1..Len(todo[t]) PROVE todo[t][i].do # "asset"
    BY <1>2 DEF GoodQueue
  <2>2. \A f : Asset(f).do = "asset"
    BY DEF Asset
  <2>3. Past(t, Bin)
    BY <1>2, <2>1, <2>2 DEF Past
  <2> QED  BY <1>1, <1>2, <1>4, <2>3 DEF FreshInv, OfBuild
<1>6. Conf \in exists
  <2>1. \A i \in 1..Len(todo[t]) : todo[t][i].do # "config"
    BY <1>2, NoConfigBehind DEF OrderInv
  <2>2. \A f : Config(f).do = "config"
    BY DEF Config
  <2>3. Conf \in Configs
    BY DEF Configs
  <2> QED  BY <1>1, <1>2, <2>1, <2>2, <2>3 DEF StartInv
<1>7. Complete(Bin) /\ Complete(Conf)
  BY <1>1, <1>3, <1>4, <1>5, <1>6, QuietComplete
<1>8. Shipped(Bin) /\ Shipped(Conf)
  <2>1. None \notin Requests /\ Bin \in Files \ requested /\ Conf \in Files \ requested
    BY <1>1, <1>4, FileFacts, EngineAssumption
  <2> QED  BY <2>1 DEF DiskInv, Shipped
<1> QED  BY <1>3, <1>4, <1>7, <1>8 DEF Executable, Unwritten

\* A thread that has jobs left still has, unless it has come to its start.
LEMMA StillPending ==
    ASSUME TypeOK, QueueInv, StartInv, failures = 0, failures' = 0,
           NEW a \in Activities, QueueChange(a), life[a] # "destroyed",
           life'[a] \notin {"destroyed", "lost"}, todo[a] # <<>>,
           ~startOpenTEEEngine(a)
    PROVE  todo'[a] # <<>>
<1> DEFINE q == todo[a]
           p == todo'[a]
<1>1. a \in Threads /\ a \notin Requests
  BY EngineAssumption DEF Threads
<1>2. /\ life[a] = "live" /\ LastJob(q) = Start /\ Start.do = "start"
      /\ GoodQueue(a, q) /\ q \in Seq(Jobs)
  <2>1. life[a] \in {"new", "live", "destroyed", "lost"}
    BY <1>1 DEF TypeOK
  <2>2. life[a] = "live"
    BY <1>1, <2>1, RunningFacts
  <2> QED  BY <1>1, <2>2 DEF StartInv, Start, QueueInv, TypeOK
<1>3. CASE Ends(a)
  <2>1. /\ Len(q) \in Nat \ {0} /\ Head(q) = q[1] /\ Head(q).do # "start"
        /\ p = Tail(q)
    BY <1>2, <1>3, TailFacts DEF Ends
  <2>2. Len(q) > 1
    BY <1>2, <2>1 DEF LastJob
  <2> QED  BY <1>2, <2>1, <2>2, TailOfTwo
<1>4. CASE ListsTAs(a)
  <2>1. PICK n \in 0..Len(TAs) : p = WithTAs(q, SubSeq(TAs, 1, n))
    BY <1>4 DEF ListsTAs
  <2>2. q[1].do = "setting"
    BY <1>2, <1>4, TailFacts DEF ListsTAs, Running
  <2> QED  BY <1>2, <2>1, <2>2, TAsFacts
<1> QED
  BY <1>1, <1>2, <1>3, <1>4
     DEF QueueChange, GivesUp, Created, Destroyed, Requested, Gone

\* The installation that starts the last engine finds what it needs, and the
\* pid file and the socket follow the engines.
LEMMA EngineStep ==
    ASSUME FileInv, FreshInv, OrderInv, StopInv, StartInv, CleanInv, EngineInv,
           CleanInv', [Next]_vars
    PROVE  EngineInv'
<1> USE DEF files, engine, faults
<1> TypeOK /\ QueueInv /\ OpenInv /\ DiskInv /\ HolesCovered
  BY DEF FileInv
<1>0. /\ kills \in Nat /\ failures \in Nat /\ Activities \subseteq Threads
      /\ life \in [Threads -> {"new", "live", "destroyed", "lost"}]
      /\ todo \in [Threads -> Seq(Jobs)] /\ None \notin Activities
      /\ engines \in SUBSET Activities /\ booting \in SUBSET engines
      /\ Requests \subseteq Threads
  BY EngineAssumption DEF TypeOK, Threads
<1> SUFFICES ASSUME Undisturbed', OnlyTAs',
                    \A a \in Activities : life'[a] # "destroyed"
             PROVE  /\ socket' = pidFile' /\ pidFile' \in engines' \cup {None}
                    /\ engines' # {} => booting' # {} \/ pidFile' # None
                    /\ (\E a \in Activities : life'[a] = "live")
                         => engines' # {} \/ Pending'
  BY DEF EngineInv
<1>1. /\ Undisturbed /\ kills' = 0 /\ failures' = 0 /\ failures = 0 /\ OnlyTAs
      /\ \A t \in Threads : life'[t] # "lost"
  BY NeverTakenBack DEF Undisturbed, CleanInv, OnlyTAs
<1>2. \A t \in Threads : QueueChange(t)
  BY QueueChanges
<1>3. \A a \in Activities : a \notin Requests /\ life[a] # "destroyed"
  <2> SUFFICES ASSUME NEW a \in Activities PROVE a \notin Requests /\ life[a] # "destroyed"
    OBVIOUS
  <2>1. a \notin Requests /\ QueueChange(a)
    BY <1>0, <1>2, EngineAssumption
  <2>2. life'[a] \notin {"destroyed", "lost"}
    BY <1>0, <1>1
  <2> QED
    BY <2>1, <2>2
       DEF QueueChange, Ends, ListsTAs, GivesUp, Created, Destroyed, Requested, Gone
<1>4. /\ socket = pidFile /\ pidFile \in engines \cup {None}
      /\ engines # {} => booting # {} \/ pidFile # None
      /\ (\E a \in Activities : life[a] = "live") => engines # {} \/ Pending
  BY <1>1, <1>3 DEF EngineInv
<1>5. CASE \E e \in Activities : EngineUp(e) \/ EngineYields(e)
  BY <1>0, <1>4, <1>5 DEF EngineUp, EngineYields
<1>6. ASSUME NEW t \in Threads, startOpenTEEEngine(t)
      PROVE  /\ socket' = pidFile' /\ pidFile' \in engines' \cup {None}
             /\ engines' # {} => booting' # {} \/ pidFile' # None
             /\ engines' # {} \/ Pending'
  <2>1. CASE engines' = engines \cup {t} /\ booting' = booting \cup {t}
    BY <1>4, <1>6, <2>1 DEF startOpenTEEEngine
  <2>2. CASE /\ ~(Executable /\ Complete(Conf) /\ Shipped(Bin) /\ Shipped(Conf))
             /\ engines' = engines /\ booting' = booting
    <3>1. PICK u \in Activities \ {t} : todo[u] # <<>>
      BY <1>1, <1>6, <2>2, LastStart DEF startOpenTEEEngine
    <3>2. todo'[u] = todo[u]
      BY <1>0, <1>6, <3>1 DEF startOpenTEEEngine, JobEnds
    <3>3. Pending'
      BY <3>1, <3>2 DEF Pending
    <3> QED  BY <1>4, <1>6, <2>2, <3>3 DEF startOpenTEEEngine
  <2> QED  BY <1>6, <2>1, <2>2 DEF startOpenTEEEngine
<1>7. ASSUME NEW t \in Threads, stopOpenTEEEngine(t) PROVE FALSE
  <2>1. todo[t] # <<>> /\ Head(todo[t]).do = "stop"
    BY <1>7 DEF stopOpenTEEEngine, Running
  <2>2. t \in Activities /\ todo[t][1].do = "stop" /\ 1 \in 1..Len(todo[t])
    BY <2>1, RunningFacts
  <2> QED  BY <1>0, <1>3, <2>2 DEF StopInv
<1>8. ASSUME NEW t \in Threads, SettingMissing(t) PROVE FALSE
  <2>1. life[t] # "new"
    BY <1>8, RunningFacts DEF SettingMissing, Running
  <2>2. life'[t] = "lost"
    BY <1>8, <2>1 DEF SettingMissing, ProcessEnds
  <2> QED  BY <1>1, <2>2
<1>9. ASSUME Kill \/ Upgrade \/ \E t \in Threads : IOFails(t) PROVE FALSE
  BY <1>0, <1>1, <1>9 DEF Kill, Upgrade, IOFails
<1>10. ASSUME engines' = engines, booting' = booting, pidFile' = pidFile,
              socket' = socket, \A t \in Threads : ~startOpenTEEEngine(t),
              NEW a \in Activities, life'[a] = "live"
       PROVE  engines' # {} \/ Pending'
  <2>1. CASE life[a] = "live" /\ engines = {}
    <3>1. PICK u \in Activities : todo[u] # <<>>
      BY <1>4, <2>1 DEF Pending
    <3>2. todo'[u] # <<>>
      BY <1>0, <1>1, <1>2, <1>3, <1>10, <3>1, StillPending
    <3> QED  BY <3>2 DEF Pending
  <2>2. CASE life[a] # "live"
    <3>1. todo'[a] = installationTask
      BY <1>0, <1>2, <1>3, <1>10, <2>2
         DEF QueueChange, Ends, ListsTAs, GivesUp, Created, Destroyed, Requested, Gone
    <3>2. installationTask # <<>>
      BY InstallationFacts
    <3> QED  BY <3>1, <3>2 DEF Pending
  <2> QED  BY <1>10, <2>1, <2>2
<1>11. ASSUME \/ \E a \in Activities : onCreate(a) \/ onDestroy(a)
              \/ \E r \in Requests : otInstallTa(r)
              \/ \E t \in Threads : LookUp(t) \/ Open(t) \/ Write(t) \/ InstallTAs(t)
              \/ UNCHANGED vars
       PROVE  /\ engines' = engines /\ booting' = booting
              /\ pidFile' = pidFile /\ socket' = socket
  BY <1>11 DEF onCreate, onDestroy, otInstallTa, LookUp, Open, Write, InstallTAs, vars
<1>12. CASE /\ engines' = engines /\ booting' = booting
            /\ pidFile' = pidFile /\ socket' = socket
            /\ \A t \in Threads : ~startOpenTEEEngine(t)
  BY <1>4, <1>10, <1>12
<1> QED
  BY <1>5, <1>6, <1>7, <1>8, <1>9, <1>11, <1>12 DEF Next, RunJob

\* The invariants of the launcher together.
LaunchInv ==
    /\ FileInv /\ FreshInv /\ OrderInv /\ StopInv /\ StartInv /\ CleanInv
    /\ EngineInv

\* They hold when the application is first started.
LEMMA LaunchInit == ASSUME Init PROVE LaunchInv
<1>1. /\ \A t \in Threads : todo[t] = <<>> /\ life[t] = "new"
      /\ Activities \subseteq Threads
  BY DEF Init, Threads
<1>2. \A t \in Threads : \A f : ~Writing(t, f)
  BY <1>1 DEF Writing, Running
<1>3. \A a \in Activities : \A f : ~Past(a, f)
  BY <1>1 DEF Past
<1>4. FreshInv
  BY <1>2, <1>3 DEF Init, FreshInv
<1>5. OrderInv /\ StopInv /\ StartInv
  BY <1>1 DEF OrderInv, ConfigsFirst, StopInv, StartInv
<1>6. CleanInv /\ EngineInv
  BY <1>1 DEF Init, CleanInv, EngineInv
<1> QED  BY <1>4, <1>5, <1>6, FilesInit DEF LaunchInv

\* And every step preserves them.
LEMMA LaunchStep == ASSUME LaunchInv, [Next]_vars PROVE LaunchInv'
<1>1. /\ FileInv /\ FreshInv /\ OrderInv /\ StopInv /\ StartInv /\ CleanInv
      /\ EngineInv
  BY DEF LaunchInv
<1>2. TypeOK /\ QueueInv /\ OpenInv
  BY <1>1 DEF FileInv
<1>3. FileInv' /\ FreshInv'
  BY <1>1, <1>2, FilesStep, FreshStep
<1>4. \A t \in Threads : QueueChange(t)
  BY <1>1, <1>2, QueueChanges
<1>5. OrderInv' /\ StopInv' /\ StartInv'
  BY <1>1, <1>2, <1>4, NeverTakenBack, OrderStep, StopStep, StartStep
<1>6. CleanInv'
  BY <1>1, <1>2, CleanStep
<1>7. EngineInv'
  BY <1>1, <1>6, EngineStep
<1> QED  BY <1>3, <1>5, <1>6, <1>7 DEF LaunchInv

\* MainActivity.onDestroy: the stop task, posted before quitSafely, is run by
\* every destroyed activity whose thread has nothing left to do: whatever was
\* queued, whichever jobs failed, and however many activities there are.
THEOREM StopIsRun == Spec => []StopNeverDropped
<1>1. LaunchInv => StopNeverDropped
  BY DEF LaunchInv, StopInv, StopNeverDropped
<1>2. Init => LaunchInv
  BY LaunchInit
<1>3. LaunchInv /\ [Next]_vars => LaunchInv'
  BY LaunchStep
<1> QED  BY <1>1, <1>2, <1>3, PTL DEF Spec

\* MainActivity, "prepare and start the open-tee engine": however many
\* installations rewrite the program, the libraries and the configuration under
\* each other, the one that starts the engine last can; once all are done the
\* pid file and the socket name an engine that runs, unless an activity was
\* destroyed, the process killed, I/O failed or a request has named a file that
\* is not a listed TA.
THEOREM AnEngineIsUp == Spec => []SomeEngineComesUp
<1>1. LaunchInv => SomeEngineComesUp
  <2> SUFFICES ASSUME LaunchInv, Quiet, kills = 0, failures = 0,
                      requested \subseteq Elements(TAs),
                      NEW a \in Activities, life[a] = "live",
                      \A u \in Activities : life[u] # "destroyed"
               PROVE  socket \in engines /\ pidFile = socket
    BY DEF SomeEngineComesUp
  <2>1. booting = {} /\ ~Pending
    BY DEF Quiet, Pending, Threads
  <2>2. /\ socket = pidFile /\ pidFile \in engines \cup {None}
        /\ engines # {} => pidFile # None
        /\ engines # {}
    BY <2>1 DEF LaunchInv, EngineInv, Undisturbed, OnlyTAs
  <2> QED  BY <2>2
<1>2. Init => LaunchInv
  BY LaunchInit
<1>3. LaunchInv /\ [Next]_vars => LaunchInv'
  BY LaunchStep
<1> QED  BY <1>1, <1>2, <1>3, PTL DEF Spec
=============================================================================
