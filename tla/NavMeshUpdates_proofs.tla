------------------------ MODULE NavMeshUpdates_proofs ------------------------
(****************************************************************************)
(* Proofs about NavMeshUpdates, for any tiles, threads, tries and changes   *)
(* of the geometry.                                                         *)
(****************************************************************************)
EXTENDS NavMeshUpdates, FiniteSetTheorems, TLAPS

Working(w) == pc[w] \in {"read", "build", "built", "failed"}
Holding(w) == Working(w) \/ pc[w] \in {"repost", "push"}

\* A thread has a job from getNextJob until it is done with it, and a try it pushes
\* is not the last.
HeldInv ==
    \A w \in Threads :
        /\ Holding(w) <=> held[w] # Idle
        /\ pc[w] = "push" => held[w].try <= MaxTry

\* With several threads, one that works on a tile has its lock.
LockInv == Cardinality(Threads) > 1 => \A w \in Threads : Working(w) => locks[held[w].tile] = w

\* The destructor has begun when threads are to stop.
MainInv == main \in {"stopping", "joining"} <=> stop

\* What a thread has read is not older than what is built, nor newer than what
\* there is, and the same if the revision is.
SeenInv ==
    /\ \A t \in Tiles : built[t] <= version[t]
    /\ \A w \in Threads : pc[w] = "build" =>
        LET t == held[w].tile
        IN  /\ built[t] <= seen[w].version /\ seen[w].version <= version[t]
            /\ seen[w].version = version[t] => (seen[w].solid <=> t \in solid)

InQueue(t) == jobs[t] # NoJob \/ \E w \in Threads : own[w][t] # NoJob

\* A thread that has read what is no longer there will be followed by another.
StaleInv ==
    ~stop => \A w \in Threads : pc[w] = "build" =>
        LET t == held[w].tile
        IN  \/ seen[w].version = version[t]
            \/ t \in changed \cup missed
            \/ InQueue(t)
            \/ t \notin solid /\ t \notin meshed /\ ~seen[w].solid

InHand(t) ==
    \E w \in Threads :
        /\ held[w].tile = t
        /\ pc[w] \in {"read", "failed", "repost", "push"} \/ (pc[w] = "build" /\ seen[w].version = version[t])

\* What is posted is built, or will be; stronger than NoChangeLost in InHand.
PostedInv ==
    ~stop => \A t \in Tiles : Current(t) \/ t \in changed \cup lost \cup missed \/ InQueue(t) \/ InHand(t)

\* In the second half of wait all jobs that are queued have failed before.
WaitInv ==
    main \in {"between", "tiles", "tiles woken"} =>
        /\ \A t \in Tiles : jobs[t] # 0
        /\ \A w \in Threads, t \in Tiles : own[w][t] # 0

-----------------------------------------------------------------------------
(* Types. *)

Jobs == Tries \cup {NoJob}
HeldJobs == [tile : Tiles, try : Tries]
Reads == [version : 0 .. MaxVersion, solid : BOOLEAN]
Places == {"loop", "next", "read", "build", "built", "failed", "repost", "push", "stopped"}
Stations == {"free", "jobs", "jobs woken", "between", "tiles", "tiles woken", "stopping", "joining"}

LEMMA Single ==
    ASSUME Cardinality(Threads) <= 1, NEW u \in Threads, NEW w \in Threads
    PROVE  u = w
<1>1. Cardinality(Threads) = 1
    BY ThreadsAssumption, FS_CardinalityType, FS_EmptySet
<1> QED
    BY <1>1, ThreadsAssumption, FS_Singleton

LEMMA IdleFacts == Idle \notin HeldJobs /\ NoQueue \in [Tiles -> Jobs] /\ 0 \in Tries
BY TriesAssumption DEF Idle, HeldJobs, Tries, Jobs, NoQueue

\* TypeOK, with names for the sets.
Types ==
    /\ version \in [Tiles -> 0 .. MaxVersion] /\ built \in [Tiles -> 0 .. MaxVersion]
    /\ solid \subseteq Tiles /\ changed \subseteq Tiles /\ meshed \subseteq Tiles
    /\ lost \subseteq Tiles /\ missed \subseteq Tiles
    /\ jobs \in [Tiles -> Jobs]
    /\ waiting \subseteq {t \in Tiles : jobs[t] # NoJob}
    /\ own \in [Threads -> [Tiles -> Jobs]]
    /\ locks \in [Tiles -> Threads \cup {NoThread}]
    /\ pc \in [Threads -> Places]
    /\ held \in [Threads -> HeldJobs \cup {Idle}]
    /\ seen \in [Threads -> Reads]
    /\ main \in Stations
    /\ stop \in BOOLEAN /\ thrown \in BOOLEAN

LEMMA SameTypes == (TypeOK <=> Types) /\ (TypeOK' <=> Types')
BY DEF TypeOK, Types, Jobs, HeldJobs, Reads, Places, Stations

LEMMA ReadsFacts ==
    ASSUME NEW v \in 0 .. MaxVersion, NEW b \in BOOLEAN
    PROVE  [version |-> v, solid |-> b] \in Reads
BY DEF Reads

LEMMA NothingFacts == Nothing \in Reads /\ 0 \in 0 .. MaxVersion
<1>1. 0 \in 0 .. MaxVersion
    BY VersionAssumption
<1> QED
    BY <1>1, ReadsFacts DEF Nothing

LEMMA NameFacts ==
    /\ "loop" \in Places /\ "next" \in Places /\ "read" \in Places /\ "build" \in Places
    /\ "built" \in Places /\ "failed" \in Places /\ "repost" \in Places /\ "push" \in Places
    /\ "stopped" \in Places
    /\ "free" \in Stations /\ "jobs" \in Stations /\ "jobs woken" \in Stations
    /\ "between" \in Stations /\ "tiles" \in Stations /\ "tiles woken" \in Stations
    /\ "stopping" \in Stations /\ "joining" \in Stations
BY DEF Places, Stations

\* Thread w is at l with the job h, and the others are where they were.
LEMMA HeldStep ==
    ASSUME Types, HeldInv, NEW w \in Threads, NEW l \in Places, NEW h \in HeldJobs \cup {Idle},
           pc' = [pc EXCEPT ![w] = l], held' = [held EXCEPT ![w] = h],
           l \in {"read", "build", "built", "failed", "repost", "push"} <=> h # Idle,
           l = "push" => h.try <= MaxTry
    PROVE  pc' \in [Threads -> Places] /\ held' \in [Threads -> HeldJobs \cup {Idle}] /\ HeldInv'
<1>1. pc \in [Threads -> Places] /\ held \in [Threads -> HeldJobs \cup {Idle}]
    BY DEF Types
<1>2. pc' \in [Threads -> Places] /\ held' \in [Threads -> HeldJobs \cup {Idle}]
    BY <1>1
<1>3. pc'[w] = l /\ held'[w] = h /\ \A v \in Threads \ {w} : pc'[v] = pc[v] /\ held'[v] = held[v]
    BY <1>1
<1>4. ASSUME NEW v \in Threads PROVE (Holding(v)' <=> held'[v] # Idle) /\ (pc'[v] = "push" => held'[v].try <= MaxTry)
  <2>1. CASE v = w
      BY <1>3, <2>1 DEF Holding, Working
  <2>2. CASE v # w
      BY <1>3, <2>2 DEF Holding, Working, HeldInv
  <2> QED
      BY <2>1, <2>2
<1> QED
    BY <1>2, <1>4 DEF HeldInv

\* The same, if it keeps its job.
LEMMA HeldKept ==
    ASSUME Types, HeldInv, NEW w \in Threads, NEW l \in Places,
           pc' = [pc EXCEPT ![w] = l], held' = held,
           l \in {"read", "build", "built", "failed", "repost", "push"} <=> Holding(w),
           l = "push" => held[w].try <= MaxTry
    PROVE  pc' \in [Threads -> Places] /\ held' \in [Threads -> HeldJobs \cup {Idle}] /\ HeldInv'
<1>1. held' = [held EXCEPT ![w] = held[w]] /\ held[w] \in HeldJobs \cup {Idle}
    BY DEF Types
<1>2. Holding(w) <=> held[w] # Idle
    BY DEF HeldInv
<1> QED
    BY <1>1, <1>2, HeldStep

LEMMA HoldingFacts ==
    ASSUME Types, HeldInv, NEW w \in Threads, Holding(w)
    PROVE  held[w] \in HeldJobs /\ held[w].tile \in Tiles /\ held[w].try \in Tries
BY DEF Types, HeldInv, HeldJobs

\* lockTile gives the job to this thread, or postThreadJob to the one with the lock.
LEMMA RouteFacts ==
    ASSUME Types, NEW w \in Threads, NEW t \in Tiles, NEW try \in Tries,
           NEW queues \in [Threads -> [Tiles -> Jobs]], Route(w, t, try, queues)
    PROVE  /\ own' \in [Threads -> [Tiles -> Jobs]]
           /\ \/ /\ own' = queues
                 /\ locks' = Locked(w, t)
                 /\ held' = [held EXCEPT ![w] = [tile |-> t, try |-> try]]
                 /\ pc' = [pc EXCEPT ![w] = "read"]
                 /\ Cardinality(Threads) > 1 => locks[t] = NoThread \/ locks[t] = w
              \/ /\ Cardinality(Threads) > 1
                 /\ locks[t] \in Threads \ {w}
                 /\ own'[locks[t]][t] # NoJob
                 /\ \A v \in Threads, r \in Tiles :
                        own'[v][r] = queues[v][r] \/ (queues[v][r] = NoJob /\ own'[v][r] = try)
                 /\ UNCHANGED <<locks, held, pc>>
<1> DEFINE o == Owner(w, t)
<1>1. o \in Threads /\ locks[t] \in Threads \cup {NoThread}
    BY DEF Owner, Types
<1>2. Cardinality(Threads) \in Nat
    BY ThreadsAssumption, FS_CardinalityType
<1>3. CASE o = w
    BY <1>1, <1>2, <1>3 DEF Route, Owner
<1>4. CASE o # w
  <2>1. Cardinality(Threads) > 1 /\ locks[t] = o
      BY <1>1, <1>2, <1>4 DEF Owner
  <2>2. /\ UNCHANGED <<locks, held, pc>>
        /\ own' = IF queues[o][t] = NoJob THEN [queues EXCEPT ![o][t] = try] ELSE queues
      BY <1>4 DEF Route
  <2> HIDE DEF o
  <2>3. try # NoJob /\ try \in Jobs
      BY TriesAssumption DEF Tries, Jobs
  <2>4. CASE queues[o][t] = NoJob
    <3> DEFINE q == [queues[o] EXCEPT ![t] = try]
    <3>1. q \in [Tiles -> Jobs] /\ own' = [queues EXCEPT ![o] = q]
        BY <1>1, <2>2, <2>3, <2>4
    <3>2. q[t] = try /\ \A r \in Tiles \ {t} : q[r] = queues[o][r]
        BY <1>1
    <3> HIDE DEF q
    <3>3. own' \in [Threads -> [Tiles -> Jobs]] /\ own'[o] = q /\ \A v \in Threads \ {o} : own'[v] = queues[v]
        BY <1>1, <3>1
    <3> QED
        BY <1>1, <1>4, <2>1, <2>2, <2>3, <2>4, <3>2, <3>3
  <2>5. CASE queues[o][t] # NoJob
      BY <1>1, <1>4, <2>1, <2>2, <2>5
  <2> QED
      BY <2>4, <2>5
<1> QED
    BY <1>3, <1>4

\* getNextJob takes a job out of one queue.
LEMMA NextFacts ==
    ASSUME Types, NEW w \in Threads, NextOwnJob(w) \/ NextJob(w)
    PROVE  \E t \in Tiles, try \in Tries, queues \in [Threads -> [Tiles -> Jobs]] :
               /\ Route(w, t, try, queues)
               /\ pc[w] = "next" /\ (try = jobs[t] \/ try = own[w][t])
               /\ UNCHANGED <<dataVars, waiting, seen, main, stop, thrown>>
               /\ jobs' \in [Tiles -> Jobs]
               /\ \A r \in Tiles : \/ jobs'[r] = jobs[r]
                                   \/ jobs'[r] = NoJob /\ r = t /\ jobs[r] = try /\ t \notin waiting
               /\ \A v \in Threads, r \in Tiles :
                      \/ queues[v][r] = own[v][r]
                      \/ queues[v][r] = NoJob /\ v = w /\ r = t /\ own[v][r] = try
<1> USE DEF Types
<1>1. CASE NextOwnJob(w)
  <2>1. PICK t \in Tiles : own[w][t] # NoJob /\ Route(w, t, own[w][t], [own EXCEPT ![w][t] = NoJob])
      BY <1>1 DEF NextOwnJob
  <2> DEFINE q == [own[w] EXCEPT ![t] = NoJob]
             queues == [own EXCEPT ![w] = q]
  <2>1a. own \in [Threads -> [Tiles -> Tries \cup {NoJob}]]
      BY DEF Jobs
  <2>2. own[w][t] \in Tries /\ q \in [Tiles -> Jobs] /\ q[t] = NoJob
        /\ \A r \in Tiles \ {t} : q[r] = own[w][r]
      BY <2>1, <2>1a DEF Jobs
  <2>3. Route(w, t, own[w][t], queues)
      BY <2>1
  <2> HIDE DEF q
  <2>4. queues \in [Threads -> [Tiles -> Jobs]] /\ queues[w] = q /\ \A v \in Threads \ {w} : queues[v] = own[v]
      BY <2>2
  <2>5. pc[w] = "next" /\ UNCHANGED <<dataVars, jobs, waiting, seen, main, stop, thrown>>
      BY <1>1 DEF NextOwnJob
  <2> HIDE DEF queues
  <2>6. \A v \in Threads, r \in Tiles :
            queues[v][r] = own[v][r] \/ (queues[v][r] = NoJob /\ v = w /\ r = t /\ own[v][r] = own[w][t])
      BY <2>2, <2>4
  <2>7. jobs' \in [Tiles -> Jobs] /\ \A r \in Tiles : jobs'[r] = jobs[r]
      BY <2>5
  <2> HIDE DEF Types
  <2> QED
      BY <2>2, <2>3, <2>4, <2>5, <2>6, <2>7
<1>2. CASE NextJob(w)
  <2>1. PICK t \in Tiles : Due(t) /\ jobs' = [jobs EXCEPT ![t] = NoJob] /\ Route(w, t, jobs[t], own)
      BY <1>2 DEF NextJob
  <2>2. pc[w] = "next" /\ UNCHANGED <<dataVars, waiting, seen, main, stop, thrown>>
      BY <1>2 DEF NextJob
  <2>3. jobs[t] \in Tries /\ t \notin waiting /\ jobs' \in [Tiles -> Jobs]
        /\ jobs'[t] = NoJob /\ \A r \in Tiles \ {t} : jobs'[r] = jobs[r]
      BY <2>1 DEF Due, Jobs
  <2> QED
      BY <2>1, <2>2, <2>3
<1> QED
    BY <1>1, <1>2

LEMMA TypesKept ==
    ASSUME Types, HeldInv, [Next]_vars
    PROVE  Types' /\ HeldInv'
<1>1. ASSUME NEW t \in Tiles, Change(t) PROVE Types' /\ HeldInv'
  <2>1. UNCHANGED <<built, meshed, lost, missed, queueVars, locks, threadVars, main, stop, thrown>>
      BY <1>1 DEF Change
  <2>2. version' \in [Tiles -> 0 .. MaxVersion]
    <3>1. version[t] \in 0 .. MaxVersion /\ version[t] < MaxVersion /\ version' = [version EXCEPT ![t] = version[t] + 1]
        BY <1>1 DEF Change, Types
    <3>2. version[t] + 1 \in 0 .. MaxVersion
        BY <3>1, VersionAssumption
    <3> QED
        BY <3>1, <3>2 DEF Types
  <2>3. solid' \subseteq Tiles /\ changed' \subseteq Tiles
      BY <1>1 DEF Change, Types
  <2> QED
      BY <2>1, <2>2, <2>3 DEF Types, HeldInv, Holding, Working, queueVars, threadVars
<1>2. ASSUME Update PROVE Types' /\ HeldInv'
  <2>1. UNCHANGED <<version, solid, built, meshed, own, locks, threadVars, main, stop, thrown>>
      BY <1>2 DEF Update
  <2>2. changed' \subseteq Tiles /\ missed' \subseteq Tiles /\ lost' \subseteq Tiles
      BY <1>2 DEF Update, Types
  <2>3. jobs' \in [Tiles -> Jobs] /\ waiting' \subseteq {t \in Tiles : jobs'[t] # NoJob}
    <3> DEFINE new == {t \in ToPost : jobs[t] = NoJob}
    <3>1. jobs' = [t \in Tiles |-> IF t \in new THEN 0 ELSE jobs[t]]
          /\ waiting' \subseteq waiting \cup new
        BY <1>2 DEF Update
    <3>2. new \subseteq Tiles /\ 0 # NoJob /\ 0 \in Jobs /\ \A t \in Tiles : jobs[t] \in Jobs
        BY TriesAssumption, IdleFacts DEF ToPost, Types, Jobs
    <3> HIDE DEF new
    <3> QED
        BY <3>1, <3>2 DEF Types
  <2> QED
      BY <2>1, <2>2, <2>3 DEF Types, HeldInv, Holding, Working, threadVars
<1>3. ASSUME StartWait \/ Woken \/ Stop PROVE Types' /\ HeldInv'
  <2>1. UNCHANGED <<dataVars, queueVars, locks, threadVars, thrown>> /\ stop' \in BOOLEAN
      BY <1>3 DEF StartWait, Woken, Stop, Types
  <2>2. main' \in Stations
      BY <1>3, NameFacts DEF StartWait, Woken, Stop, WaitForJobs, WaitForTiles
  <2> QED
      BY <2>1, <2>2 DEF Types, HeldInv, Holding, Working, dataVars, queueVars, threadVars
<1>4. ASSUME ClearJobs PROVE Types' /\ HeldInv'
    BY <1>4, IdleFacts, NameFacts DEF ClearJobs, Types, HeldInv, Holding, Working, dataVars, threadVars
<1>5. ASSUME NEW t \in Tiles, Elapse(t) PROVE Types' /\ HeldInv'
    BY <1>5 DEF Elapse, Types, HeldInv, Holding, Working, dataVars, threadVars
<1>6. ASSUME NEW w \in Threads, EnterLoop(w) \/ Timeout(w) PROVE Types' /\ HeldInv'
  <2>1. UNCHANGED <<dataVars, queueVars, locks, held, seen, stop, thrown>> /\ main' \in {main, "jobs woken"}
      BY <1>6 DEF EnterLoop, Timeout
  <2>2. PICK l \in {"loop", "stopped", "next"} : pc' = [pc EXCEPT ![w] = l]
      BY <1>6 DEF EnterLoop, Timeout
  <2>3. ~Holding(w)
      BY <1>6 DEF EnterLoop, Timeout, Holding, Working
  <2>4. pc' \in [Threads -> Places] /\ HeldInv'
      BY <2>1, <2>2, <2>3, HeldKept, NameFacts
  <2> QED
      BY <2>1, <2>4, NameFacts DEF Types, dataVars, queueVars
<1>7. ASSUME NEW w \in Threads, NextOwnJob(w) \/ NextJob(w) PROVE Types' /\ HeldInv'
  <2>1. PICK t \in Tiles, try \in Tries, queues \in [Threads -> [Tiles -> Jobs]] :
               /\ Route(w, t, try, queues)
               /\ pc[w] = "next" /\ (try = jobs[t] \/ try = own[w][t])
               /\ UNCHANGED <<dataVars, waiting, seen, main, stop, thrown>>
               /\ jobs' \in [Tiles -> Jobs]
               /\ \A r \in Tiles : \/ jobs'[r] = jobs[r]
                                   \/ jobs'[r] = NoJob /\ r = t /\ jobs[r] = try /\ t \notin waiting
      BY <1>7, NextFacts
  <2>2. waiting' \subseteq {r \in Tiles : jobs'[r] # NoJob}
      BY <2>1 DEF Types
  <2>3. own' \in [Threads -> [Tiles -> Jobs]]
      BY <2>1, RouteFacts
  <2>4. \/ /\ locks' = Locked(w, t)
           /\ held' = [held EXCEPT ![w] = [tile |-> t, try |-> try]]
           /\ pc' = [pc EXCEPT ![w] = "read"]
        \/ UNCHANGED <<locks, held, pc>>
      BY <2>1, RouteFacts
  <2>5. [tile |-> t, try |-> try] \in HeldJobs
      BY DEF HeldJobs
  <2>6. locks' \in [Tiles -> Threads \cup {NoThread}]
    <3>1. locks \in [Tiles -> Threads \cup {NoThread}]
        BY DEF Types
    <3>2. Locked(w, t) \in [Tiles -> Threads \cup {NoThread}]
        BY <3>1 DEF Locked
    <3> QED
        BY <2>4, <3>1, <3>2
  <2>7. pc' \in [Threads -> Places] /\ held' \in [Threads -> HeldJobs \cup {Idle}] /\ HeldInv'
    <3>1. CASE held' = [held EXCEPT ![w] = [tile |-> t, try |-> try]] /\ pc' = [pc EXCEPT ![w] = "read"]
        BY <2>5, <3>1, HeldStep, IdleFacts, NameFacts
    <3>2. CASE UNCHANGED <<held, pc>>
        BY <3>2 DEF Types, HeldInv, Holding, Working
    <3> QED
        BY <2>4, <3>1, <3>2
  <2> QED
      BY <2>1, <2>2, <2>3, <2>6, <2>7 DEF Types, dataVars
<1>8. ASSUME NEW w \in Threads, ReadMesh(w) PROVE Types' /\ HeldInv'
  <2>1. Holding(w) /\ held[w].tile \in Tiles
      BY <1>8, HoldingFacts DEF ReadMesh, Holding, Working
  <2> DEFINE s == [version |-> version[held[w].tile], solid |-> held[w].tile \in solid]
  <2>2. version[held[w].tile] \in 0 .. MaxVersion
      BY <2>1 DEF Types
  <2>3. s \in Reads
    <3>1. (held[w].tile \in solid) \in BOOLEAN
        OBVIOUS
    <3> QED
        BY <2>2, <3>1, ReadsFacts
  <2>4. seen' = [seen EXCEPT ![w] = s]
      BY <1>8 DEF ReadMesh
  <2> HIDE DEF s
  <2>5. seen' \in [Threads -> Reads]
      BY <2>3, <2>4 DEF Types
  <2>6. pc' \in [Threads -> Places] /\ HeldInv'
      BY <1>8, <2>1, HeldKept, NameFacts DEF ReadMesh
  <2> QED
      BY <1>8, <2>5, <2>6 DEF ReadMesh, Types, dataVars, queueVars
<1>9. ASSUME NEW w \in Threads, Build(w) \/ Throw(w) PROVE Types' /\ HeldInv'
  <2>1. Holding(w) /\ held[w].tile \in Tiles /\ seen[w].version \in 0 .. MaxVersion
    <3>1. Holding(w) /\ seen[w] \in Reads
        BY <1>9 DEF Build, Throw, Holding, Working, Types
    <3> QED
        BY <3>1, HoldingFacts DEF Reads
  <2>2. /\ UNCHANGED <<version, solid, changed, missed, queueVars, locks, main, stop>>
        /\ seen' = [seen EXCEPT ![w] = Nothing]
        /\ thrown' \in BOOLEAN
      BY <1>9 DEF Build, Throw, Types
  <2>3. /\ built' = [built EXCEPT ![held[w].tile] = seen[w].version] \/ built' = built
        /\ meshed' \in {meshed, meshed \cup {held[w].tile}, meshed \ {held[w].tile}}
        /\ lost' \in {lost, lost \cup {held[w].tile}, lost \ {held[w].tile}}
      BY <1>9 DEF Build, Throw
  <2>4. built' \in [Tiles -> 0 .. MaxVersion] /\ meshed' \subseteq Tiles /\ lost' \subseteq Tiles
      BY <2>1, <2>3 DEF Types
  <2>5. seen' \in [Threads -> Reads]
      BY <2>2, NothingFacts DEF Types
  <2>6. pc' \in [Threads -> Places] /\ held' \in [Threads -> HeldJobs \cup {Idle}] /\ HeldInv'
    <3>1. CASE held' = held /\ \E l \in {"built", "failed"} : pc' = [pc EXCEPT ![w] = l]
        BY <2>1, <3>1, HeldKept, NameFacts
    <3>2. CASE held' = [held EXCEPT ![w] = Idle] /\ pc' = [pc EXCEPT ![w] = "loop"]
        BY <3>2, HeldStep, NameFacts
    <3> QED
        BY <1>9, <3>1, <3>2 DEF Build, Throw
  <2> QED
      BY <2>2, <2>4, <2>5, <2>6 DEF Types, queueVars
<1>10. ASSUME NEW w \in Threads, Unlock(w) PROVE Types' /\ HeldInv'
  <2>1. /\ UNCHANGED <<dataVars, queueVars, seen, stop, thrown>>
        /\ locks' = [locks EXCEPT ![held[w].tile] = NoThread]
        /\ main' \in {main, "tiles woken"}
        /\ Holding(w)
      BY <1>10 DEF Unlock, Holding, Working
  <2>2. locks' \in [Tiles -> Threads \cup {NoThread}]
      BY <2>1 DEF Types
  <2>3. pc' \in [Threads -> Places] /\ held' \in [Threads -> HeldJobs \cup {Idle}] /\ HeldInv'
    <3>1. CASE held' = held /\ pc' = [pc EXCEPT ![w] = "repost"]
        BY <2>1, <3>1, HeldKept, NameFacts
    <3>2. CASE held' = [held EXCEPT ![w] = Idle] /\ pc' = [pc EXCEPT ![w] = "loop"]
        BY <3>2, HeldStep, NameFacts
    <3> QED
        BY <1>10, <3>1, <3>2 DEF Unlock, Types
  <2> QED
      BY <2>1, <2>2, <2>3, NameFacts DEF Types, dataVars, queueVars
<1>11. ASSUME NEW w \in Threads, Repost(w) PROVE Types' /\ HeldInv'
  <2>1. Holding(w) /\ held[w].tile \in Tiles /\ held[w].try \in Tries
      BY <1>11, HoldingFacts DEF Repost, Holding, Working
  <2>2. UNCHANGED <<version, solid, changed, built, meshed, missed, queueVars, locks, seen, main, stop, thrown>>
        /\ lost' \in {lost, lost \cup {held[w].tile}}
      BY <1>11 DEF Repost
  <2>3. ~(held[w].try > MaxTry) => held[w].try <= MaxTry
      BY <2>1, TriesAssumption DEF Tries
  <2>4. pc' \in [Threads -> Places] /\ held' \in [Threads -> HeldJobs \cup {Idle}] /\ HeldInv'
    <3>1. CASE held' = held /\ pc' = [pc EXCEPT ![w] = "push"] /\ ~(held[w].try > MaxTry)
        BY <2>1, <2>3, <3>1, HeldKept, NameFacts
    <3>2. CASE held' = [held EXCEPT ![w] = Idle] /\ pc' = [pc EXCEPT ![w] = "loop"]
        BY <3>2, HeldStep, NameFacts
    <3> QED
        BY <1>11, <3>1, <3>2 DEF Repost
  <2> QED
      BY <2>1, <2>2, <2>4 DEF Types, queueVars
<1>12. ASSUME NEW w \in Threads, Push(w) PROVE Types' /\ HeldInv'
  <2>1. held[w].tile \in Tiles /\ held[w].try \in Tries /\ held[w].try <= MaxTry
      BY <1>12, HoldingFacts DEF Push, Holding, Working, HeldInv
  <2>2. held[w].try + 1 \in Jobs /\ held[w].try + 1 # NoJob
      BY <2>1, TriesAssumption DEF Tries, Jobs
  <2>3. jobs' \in [Tiles -> Jobs] /\ \A t \in Tiles : jobs[t] # NoJob => jobs'[t] # NoJob
      BY <1>12, <2>1, <2>2 DEF Push, Types
  <2>4. pc' \in [Threads -> Places] /\ held' \in [Threads -> HeldJobs \cup {Idle}] /\ HeldInv'
      BY <1>12, HeldStep, NameFacts DEF Push
  <2> QED
      BY <1>12, <2>3, <2>4 DEF Push, Types, dataVars
<1>13. ASSUME UNCHANGED vars PROVE Types' /\ HeldInv'
    BY <1>13 DEF vars, Types, HeldInv, Holding, Working, dataVars, queueVars, threadVars
<1> QED
    BY <1>1, <1>2, <1>3, <1>4, <1>5, <1>6, <1>7, <1>8, <1>9, <1>10, <1>11, <1>12, <1>13 DEF Next, Main, Thread

\* The queues, locks and meshes keep their types, and a thread that works has a job.
THEOREM TypeCorrect == Spec => [](TypeOK /\ HeldInv)
<1>1. Init => Types /\ HeldInv
  <2> SUFFICES ASSUME Init PROVE Types /\ HeldInv
      OBVIOUS
  <2>1. "loop" \in Places /\ "free" \in Stations
      BY DEF Places, Stations
  <2> QED
      BY <2>1, NothingFacts, IdleFacts DEF Init, Types, HeldInv, Holding, Working, Jobs
<1>2. Types /\ HeldInv /\ [Next]_vars => Types' /\ HeldInv'
    BY TypesKept
<1> QED
    BY <1>1, <1>2, SameTypes, PTL DEF Spec

-----------------------------------------------------------------------------
(* The locks. *)

LEMMA OneWorker ==
    ASSUME LockInv, NEW u \in Threads, NEW w \in Threads, Working(u), Working(w), held[u].tile = held[w].tile
    PROVE  u = w
<1>1. CASE Cardinality(Threads) > 1
    BY <1>1 DEF LockInv
<1>2. CASE ~(Cardinality(Threads) > 1)
    BY <1>2, Single, ThreadsAssumption, FS_CardinalityType
<1> QED
    BY <1>1, <1>2

\* The steps of a thread that leave its queue and the locks alone.
Step(w) == EnterLoop(w) \/ Timeout(w) \/ ReadMesh(w) \/ Build(w) \/ Throw(w) \/ Repost(w) \/ Push(w)

LEMMA StepFacts ==
    ASSUME Types, NEW w \in Threads, Step(w) \/ Unlock(w)
    PROVE  /\ UNCHANGED <<version, solid, changed, missed, waiting, own, stop>>
           /\ \A v \in Threads \ {w} : pc'[v] = pc[v] /\ held'[v] = held[v] /\ seen'[v] = seen[v]
           /\ pc'[w] \in {"read", "build", "built", "failed"} => Working(w) /\ held'[w] = held[w]
           /\ pc'[w] # "read"
           /\ Step(w) => UNCHANGED locks
<1>1. pc \in [Threads -> Places] /\ held \in [Threads -> HeldJobs \cup {Idle}] /\ seen \in [Threads -> Reads]
    BY DEF Types
<1>2. CASE EnterLoop(w) \/ Timeout(w)
    BY <1>1, <1>2 DEF EnterLoop, Timeout, dataVars, queueVars
<1>3. CASE ReadMesh(w)
    BY <1>1, <1>3 DEF ReadMesh, dataVars, queueVars, Working
<1>4. CASE Build(w) \/ Throw(w)
    BY <1>1, <1>4 DEF Build, Throw, dataVars, queueVars, Working
<1>5. CASE Unlock(w)
    BY <1>1, <1>5 DEF Unlock, Step, EnterLoop, Timeout, ReadMesh, Build, Throw, Repost, Push, dataVars, queueVars, Working
<1>6. CASE Repost(w) \/ Push(w)
    BY <1>1, <1>6 DEF Repost, Push, dataVars, queueVars, Working
<1> QED
    BY <1>2, <1>3, <1>4, <1>5, <1>6 DEF Step

\* What getNextJob does, over the tables: the job is taken, or left with another.
Taken(w, t) ==
    /\ locks' = Locked(w, t)
    /\ held'[w].tile = t /\ pc'[w] = "read"
    /\ \A v \in Threads \ {w} : pc'[v] = pc[v] /\ held'[v] = held[v]
    /\ Cardinality(Threads) > 1 => locks[t] = NoThread \/ locks[t] = w
    /\ \A r \in Tiles \ {t} : InQueue(r) => InQueue(r)'

LeftTo(w, t) ==
    /\ UNCHANGED <<locks, held, pc>>
    /\ \A r \in Tiles : InQueue(r) => InQueue(r)'

LEMMA NextTakes ==
    ASSUME Types, NEW w \in Threads, NextOwnJob(w) \/ NextJob(w)
    PROVE  /\ pc[w] = "next"
           /\ UNCHANGED <<dataVars, waiting, seen, main, stop, thrown>>
           /\ \E t \in Tiles : Taken(w, t) \/ LeftTo(w, t)
           /\ \A r \in Tiles : jobs'[r] \in {jobs[r], NoJob}
           /\ \A v \in Threads, r \in Tiles : own'[v][r] = 0 =>
                  (\E q \in Tiles : jobs[q] = 0) \/ (\E u \in Threads, q \in Tiles : own[u][q] = 0)
<1>1. PICK t \in Tiles, try \in Tries, queues \in [Threads -> [Tiles -> Jobs]] :
               /\ Route(w, t, try, queues)
               /\ pc[w] = "next" /\ (try = jobs[t] \/ try = own[w][t])
               /\ UNCHANGED <<dataVars, waiting, seen, main, stop, thrown>>
               /\ jobs' \in [Tiles -> Jobs]
               /\ \A r \in Tiles : \/ jobs'[r] = jobs[r]
                                   \/ jobs'[r] = NoJob /\ r = t /\ jobs[r] = try /\ t \notin waiting
               /\ \A v \in Threads, r \in Tiles :
                      \/ queues[v][r] = own[v][r]
                      \/ queues[v][r] = NoJob /\ v = w /\ r = t /\ own[v][r] = try
    BY NextFacts
<1>2. locks' = locks \/ locks' = Locked(w, t)
    BY <1>1, RouteFacts
<1>3. held \in [Threads -> HeldJobs \cup {Idle}] /\ pc \in [Threads -> Places] /\ NoJob # 0 /\ NoJob \notin Tries
    BY TriesAssumption DEF Types, Tries
<1>4. Taken(w, t) \/ LeftTo(w, t)
  <2>1. CASE /\ own' = queues
             /\ locks' = Locked(w, t)
             /\ held' = [held EXCEPT ![w] = [tile |-> t, try |-> try]]
             /\ pc' = [pc EXCEPT ![w] = "read"]
             /\ Cardinality(Threads) > 1 => locks[t] = NoThread \/ locks[t] = w
    <3>1. held'[w].tile = t /\ pc'[w] = "read"
          /\ \A v \in Threads \ {w} : pc'[v] = pc[v] /\ held'[v] = held[v]
        BY <1>3, <2>1
    <3>2. \A r \in Tiles \ {t} : jobs'[r] = jobs[r] /\ \A v \in Threads : own'[v][r] = own[v][r]
        BY <1>1, <2>1
    <3> QED
        BY <2>1, <3>1, <3>2 DEF Taken, InQueue
  <2>2. CASE /\ Cardinality(Threads) > 1
             /\ locks[t] \in Threads \ {w}
             /\ own'[locks[t]][t] # NoJob
             /\ \A v \in Threads, r \in Tiles :
                    own'[v][r] = queues[v][r] \/ (queues[v][r] = NoJob /\ own'[v][r] = try)
             /\ UNCHANGED <<locks, held, pc>>
    <3>1. ASSUME NEW r \in Tiles, InQueue(r) PROVE InQueue(r)'
      <4>1. CASE r = t
          BY <2>2, <4>1 DEF InQueue
      <4>2. CASE r # t
        <5>1. jobs'[r] = jobs[r] /\ \A v \in Threads : queues[v][r] = own[v][r]
            BY <1>1, <4>2
        <5>2. \A v \in Threads : own[v][r] # NoJob => own'[v][r] # NoJob
            BY <2>2, <5>1
        <5> QED
            BY <3>1, <5>1, <5>2 DEF InQueue
      <4> QED
          BY <4>1, <4>2
    <3> QED
        BY <2>2, <3>1 DEF LeftTo
  <2> QED
      BY <1>1, <2>1, <2>2, RouteFacts
<1>5. ASSUME NEW v \in Threads, NEW r \in Tiles, own'[v][r] = 0
      PROVE  (\E q \in Tiles : jobs[q] = 0) \/ (\E u \in Threads, q \in Tiles : own[u][q] = 0)
  <2>1. own'[v][r] = queues[v][r] \/ own'[v][r] = try
      BY <1>1, RouteFacts
  <2>2. CASE own'[v][r] = queues[v][r]
      BY <1>1, <1>3, <1>5, <2>2
  <2>3. CASE own'[v][r] = try
      BY <1>1, <1>5, <2>3
  <2> QED
      BY <2>1, <2>2, <2>3
<1>6. \A r \in Tiles : jobs'[r] \in {jobs[r], NoJob}
    BY <1>1
<1> QED
    BY <1>1, <1>4, <1>5, <1>6

\* The threads keep each other out of their tiles.
LEMMA LocksKept ==
    ASSUME Types, HeldInv, LockInv, [Next]_vars
    PROVE  LockInv'
<1> SUFFICES ASSUME Cardinality(Threads) > 1, NEW v \in Threads, Working(v)'
             PROVE  locks'[held'[v].tile] = v
    BY DEF LockInv
<1>1. ASSUME NEW w \in Threads, Step(w) PROVE locks'[held'[v].tile] = v
  <2>1. Working(v) /\ held'[v] = held[v] /\ locks' = locks
      BY <1>1, StepFacts DEF Working
  <2> QED
      BY <2>1 DEF LockInv
<1>2. ASSUME NEW w \in Threads, Unlock(w) PROVE locks'[held'[v].tile] = v
  <2>1. Working(v) /\ held'[v] = held[v] /\ locks[held[v].tile] = v
      BY <1>2, StepFacts DEF Working, LockInv
  <2>2. Working(w) /\ locks' = [locks EXCEPT ![held[w].tile] = NoThread]
      BY <1>2 DEF Unlock, Working
  <2>3. v # w
      BY <1>2, NameFacts DEF Unlock, Working, Types
  <2>4. held[v].tile # held[w].tile
      BY <2>1, <2>2, <2>3, OneWorker
  <2>5. held[v].tile \in Tiles
      BY <2>1, HoldingFacts DEF Holding
  <2> QED
      BY <2>1, <2>2, <2>4, <2>5 DEF Types
<1>3. ASSUME NEW w \in Threads, NextOwnJob(w) \/ NextJob(w) PROVE locks'[held'[v].tile] = v
  <2>1. pc[w] = "next"
      BY <1>3, NextTakes
  <2>2. PICK t \in Tiles : Taken(w, t) \/ LeftTo(w, t)
      BY <1>3, NextTakes
  <2>3. CASE LeftTo(w, t)
      BY <2>3 DEF LeftTo, Working, LockInv
  <2>4. CASE Taken(w, t)
    <3>1. locks \in [Tiles -> Threads \cup {NoThread}] /\ locks' = [locks EXCEPT ![t] = w]
      <4>1. ~(Cardinality(Threads) <= 1)
          BY ThreadsAssumption, FS_CardinalityType
      <4> QED
          BY <2>4, <4>1 DEF Taken, Types, Locked
    <3>2. CASE v = w
        BY <2>4, <3>1, <3>2 DEF Taken
    <3>3. CASE v # w
      <4>1. Working(v) /\ held'[v] = held[v] /\ locks[held[v].tile] = v
          BY <2>4, <3>3 DEF Taken, Working, LockInv
      <4>2. locks[t] # v
          BY <2>4, <3>3, ThreadsAssumption DEF Taken, NoThread
      <4>3. held[v].tile \in Tiles
          BY <4>1, HoldingFacts DEF Holding
      <4> QED
          BY <3>1, <4>1, <4>2, <4>3
    <3> QED
        BY <3>2, <3>3
  <2> QED
      BY <2>2, <2>3, <2>4
<1>4. ASSUME UNCHANGED <<locks, pc, held>> PROVE locks'[held'[v].tile] = v
    BY <1>4 DEF Working, LockInv
<1>5. \/ \E w \in Threads : Step(w) \/ Unlock(w) \/ NextOwnJob(w) \/ NextJob(w)
      \/ UNCHANGED <<locks, pc, held>>
    BY DEF Next, Main, Thread, Step, Change, Update, StartWait, Stop, ClearJobs, Woken, Elapse, threadVars, vars
<1> QED
    BY <1>1, <1>2, <1>3, <1>4, <1>5

-----------------------------------------------------------------------------
(* What threads have read. *)

LEMMA Versions ==
    ASSUME Types, HeldInv
    PROVE  /\ \A t \in Tiles : version[t] \in Nat /\ built[t] \in Nat
           /\ \A w \in Threads : seen[w].version \in Nat /\ seen[w].solid \in BOOLEAN
           /\ \A w \in Threads : Working(w) => held[w].tile \in Tiles
<1>1. \A t \in Tiles : version[t] \in 0 .. MaxVersion /\ built[t] \in 0 .. MaxVersion
    BY DEF Types
<1>2. \A w \in Threads : seen[w].version \in 0 .. MaxVersion /\ seen[w].solid \in BOOLEAN
    BY DEF Types, Reads
<1>3. \A w \in Threads : Working(w) => held[w].tile \in Tiles
    BY HoldingFacts DEF Holding
<1> QED
    BY <1>1, <1>2, <1>3, VersionAssumption

\* Nobody reads or builds.
LEMMA SameReads ==
    ASSUME SeenInv, UNCHANGED <<version, solid, built>>,
           \A w \in Threads : pc'[w] = "build" => pc[w] = "build" /\ held'[w] = held[w] /\ seen'[w] = seen[w]
    PROVE  SeenInv'
BY DEF SeenInv

LEMMA SeenKept ==
    ASSUME Types, HeldInv, LockInv, SeenInv, [Next]_vars
    PROVE  SeenInv'
<1>1. ASSUME NEW t \in Tiles, Change(t) PROVE SeenInv'
  <2>1. /\ UNCHANGED <<built, pc, held, seen>>
        /\ version' = [version EXCEPT ![t] = @ + 1]
        /\ \A r \in Tiles \ {t} : r \in solid' <=> r \in solid
      BY <1>1 DEF Change, threadVars
  <2>2. version'[t] = version[t] + 1 /\ \A r \in Tiles \ {t} : version'[r] = version[r]
      BY <2>1 DEF Types
  <2>3. \A r \in Tiles : built'[r] <= version'[r]
      BY <2>1, <2>2, Versions DEF SeenInv
  <2>4. ASSUME NEW w \in Threads, pc'[w] = "build", NEW r, r = held'[w].tile
        PROVE  /\ built'[r] <= seen'[w].version /\ seen'[w].version <= version'[r]
               /\ seen'[w].version = version'[r] => (seen'[w].solid <=> r \in solid')
    <3>1. r \in Tiles /\ r = held[w].tile /\ pc[w] = "build"
        BY <2>1, <2>4, Versions DEF Working
    <3>2. /\ built[r] <= seen[w].version /\ seen[w].version <= version[r]
          /\ seen[w].version = version[r] => (seen[w].solid <=> r \in solid)
        BY <3>1 DEF SeenInv
    <3>3. CASE r = t
        BY <2>1, <2>2, <3>1, <3>2, <3>3, Versions
    <3>4. CASE r # t
        BY <2>1, <2>2, <3>1, <3>2, <3>4
    <3> QED
        BY <3>3, <3>4
  <2> QED
      BY <2>3, <2>4 DEF SeenInv
<1>2. ASSUME NEW w \in Threads, ReadMesh(w) PROVE SeenInv'
  <2>1. /\ UNCHANGED <<version, solid, built, held>>
        /\ pc[w] = "read"
        /\ seen'[w].version = version[held[w].tile] /\ (seen'[w].solid <=> held[w].tile \in solid)
      BY <1>2 DEF ReadMesh, dataVars, Types
  <2>2. \A v \in Threads \ {w} : pc'[v] = pc[v] /\ seen'[v] = seen[v]
      BY <1>2, StepFacts DEF Step
  <2>3. held[w].tile \in Tiles
      BY <2>1, Versions DEF Working
  <2>4. ASSUME NEW v \in Threads, pc'[v] = "build", NEW r, r = held'[v].tile
        PROVE  /\ built'[r] <= seen'[v].version /\ seen'[v].version <= version'[r]
               /\ seen'[v].version = version'[r] => (seen'[v].solid <=> r \in solid')
    <3>1. CASE v = w
        BY <2>1, <2>3, <2>4, <3>1, Versions DEF SeenInv
    <3>2. CASE v # w
        BY <2>1, <2>2, <2>4, <3>2 DEF SeenInv
    <3> QED
        BY <3>1, <3>2
  <2> QED
      BY <2>1, <2>4 DEF SeenInv
<1>3. ASSUME NEW w \in Threads, Build(w) PROVE SeenInv'
  <2>1. /\ UNCHANGED <<version, solid, held>>
        /\ pc[w] = "build" /\ pc'[w] # "build"
        /\ built' = [built EXCEPT ![held[w].tile] = seen[w].version] \/ built' = built
      BY <1>3 DEF Build, Types
  <2>2. \A v \in Threads \ {w} : pc'[v] = pc[v] /\ seen'[v] = seen[v]
      BY <1>3, StepFacts DEF Step
  <2>3. held[w].tile \in Tiles /\ built \in [Tiles -> 0 .. MaxVersion]
      BY <2>1, Versions DEF Working, Types
  <2>4. \A r \in Tiles : built'[r] = IF r = held[w].tile /\ built' # built THEN seen[w].version ELSE built[r]
      BY <2>1, <2>3
  <2>5. \A r \in Tiles : built'[r] <= version'[r]
      BY <2>1, <2>4 DEF SeenInv
  <2>6. ASSUME NEW v \in Threads, pc'[v] = "build", NEW r, r = held'[v].tile
        PROVE  /\ built'[r] <= seen'[v].version /\ seen'[v].version <= version'[r]
               /\ seen'[v].version = version'[r] => (seen'[v].solid <=> r \in solid')
    <3>1. v # w /\ pc[v] = "build" /\ held[v].tile = r
        BY <2>1, <2>2, <2>6
    <3>2. r # held[w].tile /\ r \in Tiles
        BY <2>1, <3>1, OneWorker, Versions DEF Working
    <3> QED
        BY <2>1, <2>2, <2>4, <3>1, <3>2 DEF SeenInv
  <2> QED
      BY <2>5, <2>6 DEF SeenInv
<1>4. ASSUME NEW w \in Threads, Step(w) \/ Unlock(w), ~ReadMesh(w), ~Build(w) PROVE SeenInv'
  <2>1. UNCHANGED <<version, solid, built>> /\ pc'[w] # "build"
      BY <1>4 DEF Step, EnterLoop, Timeout, Throw, Unlock, Repost, Push, dataVars, Types
  <2> QED
      BY <1>4, <2>1, StepFacts, SameReads
<1>5. ASSUME NEW w \in Threads, NextOwnJob(w) \/ NextJob(w) PROVE SeenInv'
  <2>1. UNCHANGED <<version, solid, built, seen>>
      BY <1>5, NextTakes DEF dataVars
  <2>2. PICK t \in Tiles : Taken(w, t) \/ LeftTo(w, t)
      BY <1>5, NextTakes
  <2>3. \A v \in Threads : pc'[v] = "build" => pc[v] = "build" /\ held'[v] = held[v]
      BY <2>2 DEF Taken, LeftTo
  <2> QED
      BY <2>1, <2>3, SameReads
<1>6. ASSUME UNCHANGED <<version, solid, built, threadVars>> PROVE SeenInv'
    BY <1>6, SameReads DEF threadVars
<1>7. \/ \E t \in Tiles : Change(t)
      \/ \E w \in Threads : Step(w) \/ Unlock(w) \/ NextOwnJob(w) \/ NextJob(w)
      \/ UNCHANGED <<version, solid, built, threadVars>>
    BY DEF Next, Main, Thread, Step, Update, StartWait, Stop, ClearJobs, Woken, Elapse, vars, dataVars
<1> QED
    BY <1>1, <1>2, <1>3, <1>4, <1>5, <1>6, <1>7

\* A thread that has read older geometry never replaces what another has built.
THEOREM BuildsForward == Spec => NeverBackwards
<1>1. Init => LockInv /\ SeenInv
    BY DEF Init, LockInv, Working, SeenInv
<1>2. Types /\ HeldInv /\ LockInv /\ SeenInv /\ [Next]_vars => LockInv' /\ SeenInv'
    BY LocksKept, SeenKept
<1>3. Types /\ HeldInv /\ LockInv /\ SeenInv /\ [Next]_vars => [\A t \in Tiles : built'[t] >= built[t]]_vars
  <2> SUFFICES ASSUME Types, HeldInv, SeenInv, Next, NEW t \in Tiles
               PROVE  built'[t] >= built[t]
      OBVIOUS
  <2>1. ASSUME NEW w \in Threads, Build(w) PROVE built'[t] >= built[t]
    <3>1. pc[w] = "build" /\ (built' = [built EXCEPT ![held[w].tile] = seen[w].version] \/ built' = built)
        BY <2>1 DEF Build
    <3>2. CASE built'[t] = built[t]
        BY <3>2, Versions
    <3>3. CASE t = held[w].tile /\ built'[t] = seen[w].version
        BY <3>1, <3>3, Versions DEF SeenInv
    <3> QED
        BY <3>1, <3>2, <3>3 DEF Types
  <2>2. CASE built' = built
      BY <2>2, Versions
  <2>3. (\E w \in Threads : Build(w)) \/ built' = built
    <3>1. ASSUME NEW w \in Threads, NextOwnJob(w) \/ NextJob(w) PROVE built' = built
        BY <3>1, NextTakes DEF dataVars
    <3> QED
        BY <3>1 DEF Next, Main, Thread, Change, Update, StartWait, Stop, ClearJobs, Woken, Elapse, EnterLoop,
                    Timeout, ReadMesh, Throw, Unlock, Repost, Push, dataVars
  <2> QED
      BY <2>1, <2>2, <2>3
<1> QED
    BY <1>1, <1>2, <1>3, SameTypes, TypeCorrect, PTL DEF Spec, NeverBackwards

-----------------------------------------------------------------------------
(* What is posted. *)

\* What getNextJob takes from the queues is in the hands of the thread.
LEMMA NextLeaves ==
    ASSUME Types, HeldInv, LockInv, NEW w \in Threads, NextOwnJob(w) \/ NextJob(w)
    PROVE  \A r \in Tiles :
               InQueue(r) => \/ InQueue(r)'
                             \/ held'[w].tile = r /\ pc'[w] = "read"
                                /\ \A v \in Threads : ~(Working(v) /\ held[v].tile = r)
<1>1. PICK t \in Tiles : Taken(w, t) \/ LeftTo(w, t)
    BY NextTakes
<1>2. CASE LeftTo(w, t)
    BY <1>2 DEF LeftTo
<1>3. CASE Taken(w, t)
  <2>1. ASSUME NEW v \in Threads, Working(v), held[v].tile = t PROVE FALSE
    <3>1. v # w
        BY <2>1, NextTakes DEF Working
    <3>2. Cardinality(Threads) > 1
        BY <3>1, Single, ThreadsAssumption, FS_CardinalityType
    <3>3. locks[t] = v
        BY <2>1, <3>2 DEF LockInv
    <3> QED
        BY <1>3, <3>1, <3>2, <3>3, ThreadsAssumption DEF Taken, NoThread
  <2> QED
      BY <1>3, <2>1 DEF Taken
<1> QED
    BY <1>1, <1>2, <1>3

LEMMA UpdateFacts ==
    ASSUME Types, Update
    PROVE  /\ UNCHANGED <<version, solid, built, meshed, own, locks, threadVars, main, stop, thrown>>
           /\ \A r \in Tiles : /\ jobs'[r] \in {0, jobs[r]}
                               /\ r \in ToPost => jobs'[r] # NoJob
                               /\ InQueue(r) \/ r \in ToPost => InQueue(r)'
<1> DEFINE new == {t \in ToPost : jobs[t] = NoJob}
<1>1. jobs' = [t \in Tiles |-> IF t \in new THEN 0 ELSE jobs[t]]
    BY DEF Update
<1>2. \A r \in Tiles : jobs'[r] = IF r \in new THEN 0 ELSE jobs[r]
  <2> HIDE DEF new
  <2> QED
      BY <1>1
<1>3. UNCHANGED <<version, solid, built, meshed, own, locks, threadVars, main, stop, thrown>>
    BY DEF Update
<1>4. 0 # NoJob
    BY TriesAssumption
<1> QED
    BY <1>2, <1>3, <1>4 DEF InQueue

\* But for getNextJob, and the destructor, the queues lose nothing.
LEMMA QueuesKept ==
    ASSUME Types, HeldInv, NEW w \in Threads, Step(w) \/ Unlock(w)
    PROVE  \A r \in Tiles : InQueue(r) => InQueue(r)'
<1>1. CASE Push(w)
  <2>1. own' = own /\ held[w].tile \in Tiles /\ held[w].try \in Tries /\ held[w].try <= MaxTry
      BY <1>1, HoldingFacts DEF Push, Holding, Working, HeldInv
  <2>2. held[w].try + 1 # NoJob
      BY <2>1, TriesAssumption DEF Tries
  <2>3. \A r \in Tiles : jobs[r] # NoJob => jobs'[r] # NoJob
      BY <1>1, <2>1, <2>2 DEF Push, Types
  <2> QED
      BY <2>1, <2>3 DEF InQueue
<1>2. CASE ~Push(w)
  <2>1. UNCHANGED <<jobs, own>>
      BY <1>2 DEF Step, EnterLoop, Timeout, ReadMesh, Build, Throw, Unlock, Repost, queueVars
  <2> QED
      BY <2>1 DEF InQueue
<1> QED
    BY <1>1, <1>2

LEMMA MainKept ==
    ASSUME MainInv, [Next]_vars
    PROVE  MainInv'
<1>1. \/ UNCHANGED <<main, stop>>
      \/ UNCHANGED stop /\ main \notin {"stopping", "joining"} /\ main' \notin {"stopping", "joining"}
      \/ Stop \/ ClearJobs
  <2>1. ASSUME NEW w \in Threads, Thread(w)
        PROVE  UNCHANGED stop /\ main' \in {main, IF main = "jobs" THEN "jobs woken" ELSE main,
                                                  IF main = "tiles" THEN "tiles woken" ELSE main}
      BY <2>1 DEF Thread, EnterLoop, NextOwnJob, NextJob, Timeout, ReadMesh, Build, Throw, Unlock, Repost, Push
  <2>2. CASE StartWait \/ Woken
      BY <2>2 DEF StartWait, Woken, WaitForJobs, WaitForTiles
  <2>3. CASE (\E t \in Tiles : Change(t) \/ Elapse(t)) \/ Update \/ UNCHANGED vars
      BY <2>3 DEF Change, Elapse, Update, vars
  <2> QED
      BY <2>1, <2>2, <2>3 DEF Next, Main
<1> QED
    BY <1>1 DEF MainInv, Stop, ClearJobs

LEMMA StopKept ==
    ASSUME [Next]_vars, ~stop'
    PROVE  ~stop
BY DEF Next, Main, Thread, Change, Update, StartWait, Stop, ClearJobs, Woken, Elapse, EnterLoop, NextOwnJob, NextJob,
       Timeout, ReadMesh, Build, Throw, Unlock, Repost, Push, vars

\* Another thread will follow the one that builds w's tile from older geometry.
Followed(w) ==
    LET t == held[w].tile
    IN  \/ seen[w].version = version[t]
        \/ t \in changed \cup missed
        \/ InQueue(t)
        \/ t \notin solid /\ t \notin meshed /\ ~seen[w].solid

LEMMA StaleKept ==
    ASSUME Types, HeldInv, LockInv, MainInv, SeenInv, StaleInv, [Next]_vars
    PROVE  StaleInv'
<1> SUFFICES ASSUME ~stop', NEW v \in Threads, pc'[v] = "build" PROVE Followed(v)'
    BY DEF StaleInv, Followed
<1>0. ~stop
    BY StopKept
<1>1. ASSUME NEW t \in Tiles, Change(t) PROVE Followed(v)'
  <2>1. /\ UNCHANGED <<meshed, missed, jobs, own, pc, held, seen>>
        /\ changed' = changed \cup {t}
        /\ \A r \in Tiles \ {t} : (r \in solid' <=> r \in solid) /\ version'[r] = version[r]
      BY <1>1 DEF Change, threadVars, queueVars, Types
  <2>2. Followed(v) /\ held[v].tile \in Tiles
      BY <1>0, <2>1, Versions DEF StaleInv, Followed, Working
  <2> QED
      BY <2>1, <2>2 DEF Followed, InQueue
<1>2. ASSUME Update PROVE Followed(v)'
  <2>1. UNCHANGED <<version, solid, meshed, own, pc, held, seen>>
      BY <1>2, UpdateFacts DEF threadVars
  <2>2. Followed(v) /\ held[v].tile \in Tiles /\ seen[v].solid \in BOOLEAN
      BY <1>0, <2>1, Versions DEF StaleInv, Followed, Working
  <2> PICK r \in Tiles : r = held[v].tile
      BY <2>2
  <2>3. r \in ToPost \/ InQueue(r) => InQueue(r)'
      BY <1>2, <2>2, UpdateFacts
  <2>4. r \in changed /\ r \notin ToPost => r \notin solid /\ r \notin meshed
      BY DEF ToPost
  <2>5. r \in changed /\ r \notin ToPost /\ seen[v].solid => r \in missed'
    <3>1. seen[v].solid => BuiltUnseen(r)
        BY <2>1 DEF BuiltUnseen
    <3> QED
        BY <1>2, <2>2, <3>1 DEF Update
  <2>6. r \in missed /\ r \notin ToPost => r \in missed'
      BY <1>2 DEF Update
  <2> QED
      BY <2>1, <2>2, <2>3, <2>4, <2>5, <2>6 DEF Followed
<1>3. ASSUME NEW w \in Threads, ReadMesh(w) PROVE Followed(v)'
  <2>1. UNCHANGED <<version, solid, meshed, changed, missed, jobs, own, held>>
        /\ seen'[w].version = version[held[w].tile]
      BY <1>3 DEF ReadMesh, dataVars, queueVars, Types
  <2>2. CASE v = w
      BY <2>1, <2>2 DEF Followed
  <2>3. CASE v # w
    <3>1. pc[v] = "build" /\ seen'[v] = seen[v]
        BY <1>3, <2>3, StepFacts DEF Step
    <3> QED
        BY <1>0, <2>1, <3>1 DEF StaleInv, Followed, InQueue
  <2> QED
      BY <2>2, <2>3
<1>4. ASSUME NEW w \in Threads, Build(w) PROVE Followed(v)'
  <2>1. UNCHANGED <<version, solid, changed, missed, jobs, own, held>>
        /\ pc[w] = "build" /\ pc'[w] # "build"
        /\ meshed' \in {meshed, meshed \cup {held[w].tile}, meshed \ {held[w].tile}}
      BY <1>4 DEF Build, queueVars, Types
  <2>2. v # w /\ pc[v] = "build" /\ seen'[v] = seen[v]
      BY <1>4, <2>1, StepFacts DEF Step
  <2>3. held[v].tile # held[w].tile
      BY <2>1, <2>2, OneWorker DEF Working
  <2> QED
      BY <1>0, <2>1, <2>2, <2>3 DEF StaleInv, Followed, InQueue
<1>5. ASSUME NEW w \in Threads, Step(w) \/ Unlock(w), ~ReadMesh(w), ~Build(w) PROVE Followed(v)'
  <2>1. UNCHANGED <<version, solid, changed, missed, meshed>> /\ pc'[w] # "build"
      BY <1>5 DEF Step, EnterLoop, Timeout, Throw, Unlock, Repost, Push, dataVars, Types
  <2>2. pc[v] = "build" /\ seen'[v] = seen[v] /\ held'[v] = held[v]
      BY <1>5, <2>1, StepFacts
  <2>3. Followed(v) /\ held[v].tile \in Tiles
      BY <1>0, <2>2, Versions DEF StaleInv, Followed, Working
  <2>4. \A r \in Tiles : InQueue(r) => InQueue(r)'
      BY <1>5, QueuesKept
  <2> QED
      BY <2>1, <2>2, <2>3, <2>4 DEF Followed
<1>6. ASSUME NEW w \in Threads, NextOwnJob(w) \/ NextJob(w) PROVE Followed(v)'
  <2>1. UNCHANGED <<version, solid, changed, missed, meshed, seen>>
      BY <1>6, NextTakes DEF dataVars
  <2>2. PICK t \in Tiles : Taken(w, t) \/ LeftTo(w, t)
      BY <1>6, NextTakes
  <2>3. pc[v] = "build" /\ held'[v] = held[v]
      BY <2>2 DEF Taken, LeftTo
  <2>4. Followed(v) /\ held[v].tile \in Tiles
      BY <1>0, <2>3, Versions DEF StaleInv, Followed, Working
  <2>5. InQueue(held[v].tile) => InQueue(held[v].tile)'
      BY <1>6, <2>3, <2>4, NextLeaves DEF Working
  <2> QED
      BY <2>1, <2>3, <2>4, <2>5 DEF Followed
<1>7. ASSUME UNCHANGED <<dataVars, jobs, own, threadVars>> PROVE Followed(v)'
    BY <1>0, <1>7 DEF StaleInv, Followed, InQueue, dataVars, threadVars
<1>8. \/ \E t \in Tiles : Change(t)
      \/ Update
      \/ \E w \in Threads : Step(w) \/ Unlock(w) \/ NextOwnJob(w) \/ NextJob(w)
      \/ UNCHANGED <<dataVars, jobs, own, threadVars>>
  <2>1. ~ClearJobs
      BY <1>0 DEF ClearJobs, MainInv
  <2> QED
      BY <2>1 DEF Next, Main, Thread, Step, StartWait, Stop, Woken, Elapse, vars, queueVars
<1> QED
    BY <1>1, <1>2, <1>3, <1>4, <1>5, <1>6, <1>7, <1>8

\* Thread w has the tile in hand.
Hand(w, t) ==
    /\ held[w].tile = t
    /\ pc[w] \in {"read", "failed", "repost", "push"} \/ (pc[w] = "build" /\ seen[w].version = version[t])

\* What PostedInv says of a tile.
Posted(t) == Current(t) \/ t \in changed \cup lost \cup missed \/ InQueue(t) \/ \E w \in Threads : Hand(w, t)

LEMMA SamePosted == (PostedInv <=> (~stop => \A t \in Tiles : Posted(t)))
                    /\ (PostedInv' <=> (~stop' => \A t \in Tiles : Posted(t)'))
BY DEF PostedInv, Posted, Hand, InHand

\* A thread that takes a step leaves the tiles of the others posted.
LEMMA OtherHands ==
    ASSUME Types, NEW w \in Threads, Step(w) \/ Unlock(w), NEW r \in Tiles
    PROVE  \A v \in Threads \ {w} : Hand(v, r) => Hand(v, r)'
BY StepFacts DEF Hand

LEMMA PostedKept ==
    ASSUME Types, HeldInv, LockInv, MainInv, SeenInv, StaleInv, PostedInv, [Next]_vars
    PROVE  PostedInv'
<1> SUFFICES ASSUME ~stop', NEW r \in Tiles PROVE Posted(r)'
    BY SamePosted
<1>0. ~stop /\ Posted(r)
    BY StopKept, SamePosted
<1>1. ASSUME NEW t \in Tiles, Change(t) PROVE Posted(r)'
  <2>1. /\ UNCHANGED <<built, meshed, lost, missed, jobs, own, pc, held, seen>>
        /\ changed' = changed \cup {t}
        /\ r # t => (r \in solid' <=> r \in solid) /\ version'[r] = version[r]
      BY <1>1 DEF Change, threadVars, queueVars, Types
  <2> QED
      BY <1>0, <2>1 DEF Posted, Current, InQueue, Hand
<1>2. ASSUME Update PROVE Posted(r)'
  <2>1. UNCHANGED <<version, solid, built, meshed, own, pc, held, seen>>
        /\ (r \in ToPost \/ InQueue(r) => InQueue(r)')
      BY <1>2, UpdateFacts DEF threadVars
  <2>2. Current(r) \/ (\E w \in Threads : Hand(w, r)) => Posted(r)'
      BY <2>1 DEF Posted, Current, Hand
  <2>3. r \in changed /\ r \notin ToPost => Current(r)
      BY DEF ToPost, Current
  <2>4. r \in lost \cup missed /\ r \notin ToPost => r \in lost' \cup missed'
      BY <1>2 DEF Update
  <2> QED
      BY <1>0, <2>1, <2>2, <2>3, <2>4 DEF Posted
<1>3. ASSUME NEW w \in Threads, ReadMesh(w) PROVE Posted(r)'
  <2>1. UNCHANGED <<version, solid, built, meshed, changed, lost, missed, jobs, own, held>>
        /\ seen'[w].version = version[held[w].tile] /\ pc'[w] = "build"
      BY <1>3 DEF ReadMesh, dataVars, queueVars, Types
  <2>2. Hand(w, r) => Hand(w, r)'
      BY <2>1 DEF Hand
  <2> QED
      BY <1>0, <1>3, <2>1, <2>2, OtherHands DEF Posted, Current, InQueue, Step
<1>4. ASSUME NEW w \in Threads, Build(w) PROVE Posted(r)'
  <2> PICK t \in Tiles : t = held[w].tile
      BY <1>4, Versions DEF Build, Working
  <2>1. UNCHANGED <<version, solid, changed, missed, jobs, own, held>> /\ pc[w] = "build"
      BY <1>4 DEF Build, queueVars
  <2>2. CASE r # t
    <3>1. /\ built'[r] = built[r] /\ (r \in meshed' <=> r \in meshed) /\ (r \in lost' <=> r \in lost)
        BY <1>4, <2>2 DEF Build, Types
    <3>2. ~Hand(w, r)
        BY <2>2 DEF Hand
    <3> QED
        BY <1>0, <1>4, <2>1, <3>1, <3>2, OtherHands DEF Posted, Current, InQueue, Step
  <2>3. CASE r = t /\ pc'[w] = "failed"
    <3>1. Hand(w, r)'
        BY <2>1, <2>3 DEF Hand
    <3> QED
        BY <3>1 DEF Posted
  <2>4. CASE r = t /\ pc'[w] # "failed"
    <3>1. built'[r] = seen[w].version /\ (r \in meshed' <=> seen[w].solid)
        BY <1>4, <2>4 DEF Build, Types
    <3>2. CASE seen[w].version = version[r]
        BY <2>1, <2>4, <3>1, <3>2 DEF SeenInv, Posted, Current
    <3>3. CASE r \in changed \cup missed \/ InQueue(r)
        BY <2>1, <3>3 DEF Posted, InQueue
    <3>4. CASE r \notin solid /\ ~seen[w].solid
        BY <2>1, <3>1, <3>4 DEF Posted, Current
    <3> QED
        BY <1>0, <2>1, <2>4, <3>2, <3>3, <3>4 DEF StaleInv
  <2> QED
      BY <2>2, <2>3, <2>4
<1>5. ASSUME NEW w \in Threads, Throw(w) \/ Unlock(w) \/ Repost(w) \/ Push(w) PROVE Posted(r)'
  <2> PICK t \in Tiles : t = held[w].tile
      BY <1>5, HoldingFacts DEF Throw, Unlock, Repost, Push, Holding, Working
  <2>1. UNCHANGED <<version, solid, built, meshed, changed, missed>> /\ lost \subseteq lost'
      BY <1>5 DEF Throw, Unlock, Repost, Push, dataVars
  <2>2. InQueue(r) => InQueue(r)'
      BY <1>5, QueuesKept DEF Step
  <2>3. Hand(w, r) => r \in lost' \/ InQueue(r)' \/ Hand(w, r)'
    <3> SUFFICES ASSUME Hand(w, r) PROVE r \in lost' \/ InQueue(r)' \/ Hand(w, r)'
        OBVIOUS
    <3>1. held[w].tile = r /\ pc[w] # "built"
        BY DEF Hand
    <3>2. CASE Throw(w)
        BY <3>1, <3>2 DEF Throw
    <3>3. CASE Unlock(w)
        BY <3>1, <3>3 DEF Unlock, Types, Hand
    <3>4. CASE Repost(w)
        BY <3>1, <3>4 DEF Repost, Types, Hand
    <3>5. CASE Push(w)
      <4>1. held[w].try \in Tries /\ held[w].try <= MaxTry
          BY <3>5, HoldingFacts DEF Push, Holding, Working, HeldInv
      <4>2. held[w].try + 1 # NoJob
          BY <4>1, TriesAssumption DEF Tries
      <4> QED
          BY <3>1, <3>5, <4>2 DEF Push, Types, InQueue
    <3> QED
        BY <1>5, <3>2, <3>3, <3>4, <3>5
  <2> QED
      BY <1>0, <1>5, <2>1, <2>2, <2>3, OtherHands DEF Posted, Current, Step
<1>6. ASSUME NEW w \in Threads, EnterLoop(w) \/ Timeout(w) PROVE Posted(r)'
  <2>1. UNCHANGED <<version, solid, built, meshed, changed, lost, missed, jobs, own>> /\ ~Hand(w, r)
      BY <1>6 DEF EnterLoop, Timeout, dataVars, queueVars, Hand
  <2> QED
      BY <1>0, <1>6, <2>1, OtherHands DEF Posted, Current, InQueue, Step
<1>7. ASSUME NEW w \in Threads, NextOwnJob(w) \/ NextJob(w) PROVE Posted(r)'
  <2>1. UNCHANGED <<version, solid, built, meshed, changed, lost, missed, seen>> /\ pc[w] = "next"
      BY <1>7, NextTakes DEF dataVars
  <2>2. PICK t \in Tiles : Taken(w, t) \/ LeftTo(w, t)
      BY <1>7, NextTakes
  <2>3. \A v \in Threads : Hand(v, r) => Hand(v, r)'
      BY <2>1, <2>2 DEF Taken, LeftTo, Hand
  <2>4. InQueue(r) => InQueue(r)' \/ Hand(w, r)'
      BY <1>7, NextLeaves DEF Hand
  <2> QED
      BY <1>0, <2>1, <2>3, <2>4 DEF Posted, Current
<1>8. ASSUME UNCHANGED <<dataVars, jobs, own, threadVars>> PROVE Posted(r)'
    BY <1>0, <1>8 DEF Posted, Current, InQueue, Hand, dataVars, threadVars
<1>9. \/ \E t \in Tiles : Change(t)
      \/ Update
      \/ \E w \in Threads : Step(w) \/ Unlock(w) \/ NextOwnJob(w) \/ NextJob(w)
      \/ UNCHANGED <<dataVars, jobs, own, threadVars>>
  <2>1. ~ClearJobs
      BY <1>0 DEF ClearJobs, MainInv
  <2> QED
      BY <2>1 DEF Next, Main, Thread, Step, StartWait, Stop, Woken, Elapse, vars, queueVars
<1> QED
    BY <1>1, <1>2, <1>3, <1>4, <1>5, <1>6, <1>7, <1>8, <1>9 DEF Step

\* What a queue or a thread has is pending.
LEMMA PostedPends ==
    ASSUME PostedInv
    PROVE  NoChangeLost
<1> SUFFICES ASSUME ~stop, NEW t \in Tiles, Posted(t)
             PROVE  Current(t) \/ t \in changed \cup lost \cup missed \/ Pending(t)
    BY SamePosted DEF NoChangeLost
<1>1. InQueue(t) => Pending(t)
    BY DEF InQueue, Pending
<1>2. ASSUME NEW w \in Threads, Hand(w, t) PROVE Pending(t)
    BY <1>2 DEF Hand, Pending
<1> QED
    BY <1>1, <1>2 DEF Posted

\* A change that was posted is not forgotten, whatever the threads do meanwhile.
THEOREM ChangesKept == Spec => []NoChangeLost
<1> DEFINE Inv == LockInv /\ MainInv /\ SeenInv /\ StaleInv /\ PostedInv
<1>1. Init => Inv
    BY SamePosted DEF Init, LockInv, Working, MainInv, SeenInv, StaleInv, Posted
<1>2. Types /\ HeldInv /\ Inv /\ [Next]_vars => Inv'
    BY LocksKept, MainKept, SeenKept, StaleKept, PostedKept
<1>3. Inv => NoChangeLost
    BY PostedPends
<1> QED
    BY <1>1, <1>2, <1>3, SameTypes, TypeCorrect, PTL DEF Spec

-----------------------------------------------------------------------------
(* Waiting. *)

LEMMA TryFacts == \A n \in Tries : n + 1 # 0
<1>1. \A n \in 0 .. MaxTry + 1 : n \in Int /\ 0 <= n
    OBVIOUS
<1> QED
    BY <1>1 DEF Tries

LEMMA WaitKept ==
    ASSUME Types, HeldInv, WaitInv, [Next]_vars
    PROVE  WaitInv'
<1> DEFINE Second == {"between", "tiles", "tiles woken"}
<1>0. 0 # NoJob
    BY TriesAssumption
<1> SUFFICES ASSUME main' \in Second
             PROVE  (\A t \in Tiles : jobs'[t] # 0) /\ \A w \in Threads, t \in Tiles : own'[w][t] # 0
    BY DEF WaitInv
<1>1. ASSUME main \in Second, UNCHANGED <<jobs, own>>
      PROVE  (\A t \in Tiles : jobs'[t] # 0) /\ \A w \in Threads, t \in Tiles : own'[w][t] # 0
    BY <1>1 DEF WaitInv
<1>2. CASE (\E t \in Tiles : Change(t) \/ Elapse(t)) \/ Update \/ Stop \/ ClearJobs \/ UNCHANGED vars
    BY <1>1, <1>2 DEF Change, Elapse, Update, Stop, ClearJobs, vars, queueVars
<1>3. CASE StartWait \/ Woken
  <2>1. UNCHANGED <<jobs, own>> /\ (main \in Second \/ NoJobs)
      BY <1>3 DEF StartWait, Woken, WaitForJobs, WaitForTiles, queueVars
  <2>2. CASE NoJobs
    <3>1. \A t \in Tiles : NoQueue[t] # 0
        BY <1>0 DEF NoQueue
    <3> QED
        BY <2>1, <2>2, <3>1 DEF NoJobs
  <2> QED
      BY <1>1, <2>1, <2>2
<1>4. ASSUME NEW w \in Threads, Step(w) \/ Unlock(w)
      PROVE  (\A t \in Tiles : jobs'[t] # 0) /\ \A v \in Threads, t \in Tiles : own'[v][t] # 0
  <2>1. main \in Second /\ own' = own
      BY <1>4, StepFacts DEF Step, EnterLoop, Timeout, ReadMesh, Build, Throw, Unlock, Repost, Push
  <2>2. CASE Push(w)
    <3>1. held[w].tile \in Tiles /\ held[w].try \in Tries
        BY <2>2, HoldingFacts DEF Push, Holding, Working
    <3>2. held[w].try + 1 # 0
        BY <3>1, TryFacts
    <3> QED
        BY <2>1, <2>2, <3>1, <3>2 DEF Push, WaitInv, Types
  <2>3. CASE ~Push(w)
    <3>1. jobs' = jobs
        BY <1>4, <2>3 DEF Step, EnterLoop, Timeout, ReadMesh, Build, Throw, Unlock, Repost, queueVars
    <3> QED
        BY <1>1, <2>1, <3>1
  <2> QED
      BY <2>2, <2>3
<1>5. ASSUME NEW w \in Threads, NextOwnJob(w) \/ NextJob(w)
      PROVE  (\A t \in Tiles : jobs'[t] # 0) /\ \A v \in Threads, t \in Tiles : own'[v][t] # 0
  <2>1. (\A t \in Tiles : jobs[t] # 0) /\ \A v \in Threads, t \in Tiles : own[v][t] # 0
      BY <1>5, NextTakes DEF WaitInv
  <2>2. \A t \in Tiles : jobs'[t] # 0
      BY <1>0, <1>5, <2>1, NextTakes
  <2>3. ASSUME NEW v \in Threads, NEW t \in Tiles, own'[v][t] = 0 PROVE FALSE
    <3>1. (\E q \in Tiles : jobs[q] = 0) \/ (\E u \in Threads, q \in Tiles : own[u][q] = 0)
        BY <1>5, <2>3, NextTakes
    <3> QED
        BY <2>1, <3>1
  <2> QED
      BY <2>2, <2>3
<1> QED
    BY <1>2, <1>3, <1>4, <1>5 DEF Next, Main, Thread, Step

\* At the end of wait each tile has its mesh, or its job has failed: no thread works,
\* unless it is the only one, and what is queued has failed before.
LEMMA WaitSuffices ==
    ASSUME Types, LockInv, MainInv, PostedInv, WaitInv,
           [Next]_vars, Waiting, main' = "free", NEW t \in Tiles \ (changed \cup lost \cup missed)
    PROVE  Current(t) \/ Retried(t) \/ InSingleHand(t)
<1>1. ~stop /\ Posted(t)
    BY SamePosted DEF MainInv, Waiting, Stations, Types
<1>2. /\ \A r \in Tiles : locks[r] = NoThread
      /\ main \in {"between", "tiles woken"}
  <2>1. ASSUME NEW w \in Threads, Thread(w)
        PROVE  main' \in {main, "jobs woken", "tiles woken"}
      BY <2>1 DEF Thread, EnterLoop, NextOwnJob, NextJob, Timeout, ReadMesh, Build, Throw, Unlock, Repost, Push
  <2>2. Woken
      BY <2>1 DEF Next, Main, Change, Update, StartWait, Stop, ClearJobs, Elapse, vars, Waiting
  <2> QED
      BY <2>2 DEF Woken, WaitForJobs, WaitForTiles
<1>3. ASSUME InQueue(t) PROVE Retried(t)
    BY <1>2, <1>3 DEF InQueue, Retried, WaitInv
<1>4. ASSUME NEW w \in Threads, Hand(w, t), ~InSingleHand(t) PROVE Retried(t)
  <2>0. Cardinality(Threads) > 1
    <3>1. ~(Cardinality(Threads) = 1)
        BY <1>4 DEF InSingleHand, Hand
    <3> QED
        BY <3>1, ThreadsAssumption, FS_CardinalityType, FS_EmptySet
  <2>1. ~Working(w)
      BY <1>2, <1>4, <2>0, ThreadsAssumption DEF LockInv, Hand, NoThread
  <2>2. held[w].tile = t /\ pc[w] \in {"repost", "push"}
      BY <1>4, <2>1 DEF Hand, Working
  <2> QED
      BY <2>2 DEF Retried
<1> QED
    BY <1>1, <1>3, <1>4 DEF Posted

\* The main thread does not leave wait before every tile that was posted has its mesh
\* or has failed, but for the one that an only thread is at work on.
THEOREM WaitWaits == Spec => WaitLeavesOneJob
<1> DEFINE Inv == LockInv /\ MainInv /\ SeenInv /\ StaleInv /\ PostedInv /\ WaitInv
<1>1. Init => Inv
    BY SamePosted DEF Init, LockInv, Working, MainInv, SeenInv, StaleInv, Posted, WaitInv
<1>2. Types /\ HeldInv /\ Inv /\ [Next]_vars => Inv'
    BY LocksKept, MainKept, SeenKept, StaleKept, PostedKept, WaitKept
<1>3. Types /\ Inv /\ [Next]_vars =>
          [Waiting /\ main' = "free" =>
              \A t \in Tiles \ (changed \cup lost \cup missed) : Current(t) \/ Retried(t) \/ InSingleHand(t)]_vars
    BY WaitSuffices
<1> QED
    BY <1>1, <1>2, <1>3, SameTypes, TypeCorrect, PTL DEF Spec, WaitLeavesOneJob
=============================================================================
