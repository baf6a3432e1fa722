---------------------------- MODULE NavMeshUpdates ----------------------------
(****************************************************************************)
(* The threads that build the navigation mesh: AsyncNavMeshUpdater of       *)
(* components/detournavigator, and what NavMeshManager posts to it.  A      *)
(* thread takes a job from the common queue, or one that others have left   *)
(* in its own queue because it had the tile of the job locked; it reads the *)
(* geometry of the tile, builds the mesh, and tries again if that failed.   *)
(* The main thread changes geometry, posts the changed tiles, may wait for  *)
(* all of them, and at last stops the threads.                              *)
(*                                                                          *)
(* A tile stands for a tile of one agent, near enough to the player to be   *)
(* in the mesh.  A queue has a tile at most once (mPushed), so it is a      *)
(* function of the tiles.  Which of several jobs that are due comes first   *)
(* is left open.                                                            *)
(****************************************************************************)
EXTENDS Integers, FiniteSets

CONSTANTS
    Tiles,
    Threads,      \* mThreads, mAsyncNavMeshUpdaterThreads many
    NoJob,
    MaxTry,       \* the last mTryNumber that is tried again, 2 in the code
    MaxVersion    \* bound of the model: how often the geometry of a tile changes

ASSUME ThreadsAssumption == IsFiniteSet(Threads) /\ Threads # {} /\ "none" \notin Threads
ASSUME TriesAssumption   == MaxTry \in Nat /\ NoJob \notin 0 .. MaxTry + 1
ASSUME VersionAssumption == MaxVersion \in Nat

VARIABLES
    version,   \* the revision of the geometry of each tile
    solid,     \* the tiles that have geometry: those of TileCachedRecastMeshManager
    changed,   \* NavMeshManager::mChangedTiles
    built,     \* the revision that the mesh of each tile was last built from
    meshed,    \* the tiles that the mesh has
    lost,      \* history: the tiles whose last job was given up
    missed,    \* history: the tiles that are built from geometry that is gone, unposted
    jobs,      \* mJobs: the mTryNumber of the job of each tile
    waiting,   \* those of them whose mProcessTime is still to come
    own,       \* mThreadsQueues, of each thread
    locks,     \* mProcessingTiles: the thread that has each tile
    pc,        \* where each thread is
    held,      \* its job
    seen,      \* the geometry it has read
    main,      \* where the main thread is in wait, or in the destructor
    stop,      \* mShouldStop
    thrown     \* history: processJob has thrown an exception

dataVars == <<version, solid, changed, built, meshed, lost, missed>>
queueVars == <<jobs, waiting, own>>
threadVars == <<pc, held, seen>>
vars == <<dataVars, queueVars, locks, threadVars, main, stop, thrown>>

-----------------------------------------------------------------------------

NoThread == "none"
Tries == 0 .. MaxTry + 1
NoQueue == [t \in Tiles |-> NoJob]

\* MUTANT of NoJobs: the queues of the threads are not counted.
NoCommonJobs == jobs = NoQueue

\* mJobs is empty, and getTotalThreadJobsUnsafe is 0.
NoJobs == jobs = NoQueue /\ \A w \in Threads : own[w] = NoQueue

Idle == [tile |-> NoJob, try |-> NoJob]
Nothing == [version |-> 0, solid |-> FALSE]

\* lockTile: with a single thread nothing is locked.
Owner(w, t) == IF Cardinality(Threads) <= 1 \/ locks[t] = NoThread THEN w ELSE locks[t]
Locked(w, t) == IF Cardinality(Threads) <= 1 THEN locks ELSE [locks EXCEPT ![t] = w]

-----------------------------------------------------------------------------
(* The main thread. *)

\* NavMeshManager::addObject, updateObject and removeObject.
Change(t) ==
    /\ main = "free" /\ ~stop
    /\ version[t] < MaxVersion
    /\ version' = [version EXCEPT ![t] = @ + 1]
    /\ solid' \in {solid \cup {t}, solid \ {t}}
    /\ changed' = changed \cup {t}
    /\ UNCHANGED <<built, meshed, lost, missed, queueVars, locks, threadVars, main, stop, thrown>>

\* NavMeshManager::update: of the changed tiles those that the mesh has, and those
\* that it lacks.
ToPost == (changed \cap meshed) \cup (solid \ meshed)

\* A thread builds the first mesh of the tile from what it has read.
BuiltUnseen(t) == \E w \in Threads : pc[w] = "build" /\ held[w].tile = t /\ seen[w].solid

\* MUTANT of Update: a tile that a thread works on still counts as pushed.
UpdateUnlessHeld ==
    /\ main = "free" /\ ~stop /\ changed \cup ToPost # {}
    /\ changed' = {}
    /\ missed' = (missed \cup {t \in changed : BuiltUnseen(t)}) \ ToPost
    /\ lost' = lost \ ToPost
    /\ LET new == {t \in ToPost : jobs[t] = NoJob /\ \A w \in Threads : held[w].tile # t}
       IN  /\ jobs' = [t \in Tiles |-> IF t \in new THEN 0 ELSE jobs[t]]
           /\ \E later \in SUBSET (new \cap meshed) : waiting' = waiting \cup later
    /\ UNCHANGED <<version, solid, built, meshed, own, locks, threadVars, main, stop, thrown>>

\* ... and post.  The update of a tile that has been updated a moment ago waits for
\* mMinUpdateInterval.  With nothing changed since the last time, update goes on only
\* when the player has come to another tile, which it may have.
Update ==
    /\ main = "free" /\ ~stop /\ changed \cup ToPost # {}
    /\ changed' = {}
    /\ missed' = (missed \cup {t \in changed : BuiltUnseen(t)}) \ ToPost
    /\ lost' = lost \ ToPost
    /\ LET new == {t \in ToPost : jobs[t] = NoJob}
       IN  /\ jobs' = [t \in Tiles |-> IF t \in new THEN 0 ELSE jobs[t]]
           /\ \E later \in SUBSET (new \cap meshed) : waiting' = waiting \cup later
    /\ UNCHANGED <<version, solid, built, meshed, own, locks, threadVars, main, stop, thrown>>

\* The first half of wait: "mJobs.empty() && getTotalThreadJobsUnsafe() == 0".
WaitForJobs == main' = IF NoJobs THEN "between" ELSE "jobs"

\* The second half: no tile is locked.
WaitForTiles == main' = IF \A t \in Tiles : locks[t] = NoThread THEN "free" ELSE "tiles"

StartWait ==
    /\ main = "free" /\ ~stop
    /\ WaitForJobs
    /\ UNCHANGED <<dataVars, queueVars, locks, threadVars, stop, thrown>>

\* A thread of the updater has notified mDone or mProcessed.
Woken ==
    /\ \/ main = "jobs woken" /\ WaitForJobs
       \/ main = "between" /\ WaitForTiles
       \/ main = "tiles woken" /\ WaitForTiles
    /\ UNCHANGED <<dataVars, queueVars, locks, threadVars, stop, thrown>>

\* ~AsyncNavMeshUpdater, before it joins the threads.
Stop ==
    /\ main = "free" /\ ~stop
    /\ stop' = TRUE /\ main' = "stopping"
    /\ UNCHANGED <<dataVars, queueVars, locks, threadVars, thrown>>

ClearJobs ==
    /\ main = "stopping"
    /\ main' = "joining"
    /\ jobs' = NoQueue /\ waiting' = {}
    /\ UNCHANGED <<dataVars, own, locks, threadVars, stop, thrown>>

\* mProcessTime of a job has come.
Elapse(t) ==
    /\ t \in waiting
    /\ waiting' = waiting \ {t}
    /\ UNCHANGED <<dataVars, jobs, own, locks, threadVars, main, stop, thrown>>

-----------------------------------------------------------------------------
(* The threads: process. *)

EnterLoop(w) ==
    /\ pc[w] = "loop"
    /\ pc' = [pc EXCEPT ![w] = IF stop THEN "stopped" ELSE "next"]
    /\ UNCHANGED <<dataVars, queueVars, locks, held, seen, main, stop, thrown>>

HasOwnJob(w) == own[w] # NoQueue
Due(t) == jobs[t] # NoJob /\ t \notin waiting
HasJob(w) == HasOwnJob(w) \/ \E t \in Tiles : Due(t)

\* MUTANT of Route: the job is taken although another thread has the tile.
RouteAnyway(w, t, try, queues) ==
    /\ own' = queues
    /\ locks' = Locked(w, t)
    /\ held' = [held EXCEPT ![w] = [tile |-> t, try |-> try]]
    /\ pc' = [pc EXCEPT ![w] = "read"]

\* lockTile and postThreadJob: the job is ours, or that of the thread that has the
\* tile, unless that thread has one of this tile to do already.
Route(w, t, try, queues) ==
    LET o == Owner(w, t)
    IN  IF o = w
        THEN /\ own' = queues
             /\ locks' = Locked(w, t)
             /\ held' = [held EXCEPT ![w] = [tile |-> t, try |-> try]]
             /\ pc' = [pc EXCEPT ![w] = "read"]
        ELSE /\ own' = IF queues[o][t] = NoJob THEN [queues EXCEPT ![o][t] = try] ELSE queues
             /\ UNCHANGED <<locks, held, pc>>

\* getNextJob takes a job of our own, or else one of the common queue.
NextOwnJob(w) ==
    /\ pc[w] = "next"
    /\ \E t \in Tiles :
        /\ own[w][t] # NoJob
        /\ Route(w, t, own[w][t], [own EXCEPT ![w][t] = NoJob])
    /\ UNCHANGED <<dataVars, jobs, waiting, seen, main, stop, thrown>>

NextJob(w) ==
    /\ pc[w] = "next" /\ ~HasOwnJob(w)
    /\ \E t \in Tiles :
        /\ Due(t)
        /\ jobs' = [jobs EXCEPT ![t] = NoJob]
        /\ Route(w, t, jobs[t], own)
    /\ UNCHANGED <<dataVars, waiting, seen, main, stop, thrown>>

\* MUTANT of Timeout: the thread goes on waiting for a job.
TimeoutWaits(w) ==
    /\ pc[w] = "next" /\ ~HasJob(w)
    /\ main' = IF NoJobs /\ main = "jobs" THEN "jobs woken" ELSE main
    /\ UNCHANGED <<dataVars, queueVars, locks, threadVars, stop, thrown>>

\* For 10 ms there was nothing to do.
Timeout(w) ==
    /\ pc[w] = "next" /\ ~HasJob(w)
    /\ pc' = [pc EXCEPT ![w] = "loop"]
    /\ main' = IF NoJobs /\ main = "jobs" THEN "jobs woken" ELSE main
    /\ UNCHANGED <<dataVars, queueVars, locks, held, seen, stop, thrown>>

\* processJob: TileCachedRecastMeshManager::getMesh.
ReadMesh(w) ==
    /\ pc[w] = "read"
    /\ LET t == held[w].tile
       IN  seen' = [seen EXCEPT ![w] = [version |-> version[t], solid |-> t \in solid]]
    /\ pc' = [pc EXCEPT ![w] = "build"]
    /\ UNCHANGED <<dataVars, queueVars, locks, held, main, stop, thrown>>

\* updateNavMesh, which may fail when it adds a tile, after it has removed the old one.
Build(w) ==
    /\ pc[w] = "build"
    /\ LET t == held[w].tile
       IN  \/ /\ built' = [built EXCEPT ![t] = seen[w].version]
              /\ meshed' = IF seen[w].solid THEN meshed \cup {t} ELSE meshed \ {t}
              /\ lost' = lost \ {t}
              /\ pc' = [pc EXCEPT ![w] = "built"]
           \/ /\ seen[w].solid
              /\ meshed' = meshed \ {t}
              /\ pc' = [pc EXCEPT ![w] = "failed"]
              /\ UNCHANGED <<built, lost>>
    /\ seen' = [seen EXCEPT ![w] = Nothing]
    /\ UNCHANGED <<version, solid, changed, missed, queueVars, locks, held, main, stop, thrown>>

\* An exception: the tile stays locked.
Throw(w) ==
    /\ pc[w] = "build" /\ ~thrown   \* once: a bound of the model
    /\ thrown' = TRUE
    /\ lost' = lost \cup {held[w].tile}
    /\ pc' = [pc EXCEPT ![w] = "loop"]
    /\ held' = [held EXCEPT ![w] = Idle]
    /\ seen' = [seen EXCEPT ![w] = Nothing]
    /\ UNCHANGED <<version, solid, changed, built, meshed, missed, queueVars, locks, main, stop>>

\* MUTANT of Unlock: mProcessed is not notified.
UnlockSilently(w) ==
    /\ pc[w] \in {"built", "failed"}
    /\ locks' = [locks EXCEPT ![held[w].tile] = NoThread]
    /\ pc' = [pc EXCEPT ![w] = IF @ = "built" THEN "loop" ELSE "repost"]
    /\ held' = IF pc[w] = "built" THEN [held EXCEPT ![w] = Idle] ELSE held
    /\ UNCHANGED <<dataVars, queueVars, seen, main, stop, thrown>>

\* unlockTile.
Unlock(w) ==
    /\ pc[w] \in {"built", "failed"}
    /\ locks' = [locks EXCEPT ![held[w].tile] = NoThread]
    /\ main' = IF main = "tiles" /\ \A t \in Tiles : locks'[t] = NoThread THEN "tiles woken" ELSE main
    /\ pc' = [pc EXCEPT ![w] = IF @ = "built" THEN "loop" ELSE "repost"]
    /\ held' = IF pc[w] = "built" THEN [held EXCEPT ![w] = Idle] ELSE held
    /\ UNCHANGED <<dataVars, queueVars, seen, stop, thrown>>

\* MUTANT of Repost: the limit is one try too high.
RepostOnce(w) ==
    /\ pc[w] = "repost"
    /\ IF stop \/ held[w].try > MaxTry + 1
       THEN /\ pc' = [pc EXCEPT ![w] = "loop"]
            /\ held' = [held EXCEPT ![w] = Idle]
            /\ lost' = lost \cup {held[w].tile}
       ELSE /\ pc' = [pc EXCEPT ![w] = "push"]
            /\ UNCHANGED <<held, lost>>
    /\ UNCHANGED <<version, solid, changed, built, meshed, missed, queueVars, locks, seen, main, stop, thrown>>

\* repost: a job that is tried again goes to the common queue, unless that has one
\* of this tile already.
Repost(w) ==
    /\ pc[w] = "repost"
    /\ IF stop \/ held[w].try > MaxTry
       THEN /\ pc' = [pc EXCEPT ![w] = "loop"]
            /\ held' = [held EXCEPT ![w] = Idle]
            /\ lost' = lost \cup {held[w].tile}
       ELSE /\ pc' = [pc EXCEPT ![w] = "push"]
            /\ UNCHANGED <<held, lost>>
    /\ UNCHANGED <<version, solid, changed, built, meshed, missed, queueVars, locks, seen, main, stop, thrown>>

Push(w) ==
    /\ pc[w] = "push"
    /\ LET t == held[w].tile
       IN  jobs' = IF jobs[t] = NoJob THEN [jobs EXCEPT ![t] = held[w].try + 1] ELSE jobs
    /\ pc' = [pc EXCEPT ![w] = "loop"]
    /\ held' = [held EXCEPT ![w] = Idle]
    /\ UNCHANGED <<dataVars, waiting, own, locks, seen, main, stop, thrown>>

-----------------------------------------------------------------------------

Init ==
    /\ version = [t \in Tiles |-> 0]
    /\ solid = Tiles /\ changed = Tiles   \* added before the first update
    /\ built = [t \in Tiles |-> 0] /\ meshed = {}
    /\ lost = {} /\ missed = {}
    /\ jobs = NoQueue /\ waiting = {}
    /\ own = [w \in Threads |-> NoQueue]
    /\ locks = [t \in Tiles |-> NoThread]
    /\ pc = [w \in Threads |-> "loop"]
    /\ held = [w \in Threads |-> Idle]
    /\ seen = [w \in Threads |-> Nothing]
    /\ main = "free"
    /\ stop = FALSE
    /\ thrown = FALSE

Thread(w) ==
    \/ EnterLoop(w) \/ NextOwnJob(w) \/ NextJob(w) \/ Timeout(w)
    \/ ReadMesh(w) \/ Build(w) \/ Throw(w) \/ Unlock(w) \/ Repost(w) \/ Push(w)

Main ==
    \/ \E t \in Tiles : Change(t)
    \/ Update \/ StartWait \/ Stop

Next ==
    \/ Main \/ ClearJobs \/ Woken
    \/ \E t \in Tiles : Elapse(t)
    \/ \E w \in Threads : Thread(w)

Spec == Init /\ [][Next]_vars

\* The operating system runs every thread, and time passes.
Fairness ==
    /\ \A w \in Threads : WF_vars(Thread(w))
    /\ WF_vars(ClearJobs \/ Woken)
    /\ WF_vars(\E t \in Tiles : Elapse(t))

FairSpec == Spec /\ Fairness

-----------------------------------------------------------------------------

TypeOK ==
    /\ version \in [Tiles -> 0 .. MaxVersion] /\ built \in [Tiles -> 0 .. MaxVersion]
    /\ solid \subseteq Tiles /\ changed \subseteq Tiles /\ meshed \subseteq Tiles
    /\ lost \subseteq Tiles /\ missed \subseteq Tiles
    /\ jobs \in [Tiles -> Tries \cup {NoJob}]
    /\ waiting \subseteq {t \in Tiles : jobs[t] # NoJob}
    /\ own \in [Threads -> [Tiles -> Tries \cup {NoJob}]]
    /\ locks \in [Tiles -> Threads \cup {NoThread}]
    /\ pc \in [Threads -> {"loop", "next", "read", "build", "built", "failed", "repost", "push", "stopped"}]
    /\ held \in [Threads -> [tile : Tiles, try : Tries] \cup {Idle}]
    /\ seen \in [Threads -> [version : 0 .. MaxVersion, solid : BOOLEAN]]
    /\ main \in {"free", "jobs", "jobs woken", "between", "tiles", "tiles woken", "stopping", "joining"}
    /\ stop \in BOOLEAN /\ thrown \in BOOLEAN

\* The mesh of the tile is that of its geometry.
Current(t) == IF t \in solid THEN t \in meshed /\ built[t] = version[t] ELSE t \notin meshed

\* A job of the tile is still to read the geometry, or to be tried again.
Pending(t) ==
    \/ jobs[t] # NoJob
    \/ \E w \in Threads : own[w][t] # NoJob
    \/ \E w \in Threads : held[w].tile = t /\ (pc[w] \in {"read", "failed", "repost", "push"} \/ seen[w].version = version[t])

\* A change that was posted is not forgotten: not when its tile is queued already,
\* not when a thread builds the tile just now, and not when the job goes from one
\* queue to another.
NoChangeLost ==
    ~stop => \A t \in Tiles : Current(t) \/ t \in changed \cup lost \cup missed \/ Pending(t)

\* A thread that has read older geometry never replaces what another has built
\* from newer: that is what the locks of the tiles are for.
NeverBackwards == [][\A t \in Tiles : built'[t] >= built[t]]_vars

\* A job of the tile has failed, and goes on.
Retried(t) ==
    \/ jobs[t] \notin {0, NoJob}
    \/ \E w \in Threads : own[w][t] \notin {0, NoJob}
    \/ \E w \in Threads : held[w].tile = t /\ (held[w].try > 0 \/ pc[w] \in {"repost", "push"})

Waiting == main \notin {"free", "stopping", "joining"}

\* "wait locks thread until all tiles are updated from last update call"
\* (navigator.hpp:163), except for those whose update has failed.  It fails twice: with
\* a single thread, which locks nothing, wait returns while that thread has the last job
\* in its hands; and a removal that update did not post is not waited for by any.
WaitIsEnough ==
    [][Waiting /\ main' = "free" =>
        \A t \in Tiles \ (changed \cup lost) : Current(t) \/ Retried(t)]_vars

\* A single thread is at work on the tile.
InSingleHand(t) == Cardinality(Threads) = 1 /\ \E w \in Threads : held[w].tile = t

\* That is all that wait leaves undone of what was posted: it does not return while a queue has a job that
\* has not failed, nor, with several threads, while one of them has such a job.
WaitLeavesOneJob ==
    [][Waiting /\ main' = "free" =>
        \A t \in Tiles \ (changed \cup lost \cup missed) : Current(t) \/ Retried(t) \/ InSingleHand(t)]_vars

\* The main thread does not wait for ever, unless an exception has left a tile locked.
WaitEnds == Waiting ~> main = "free" \/ thrown

\* The destructor joins all threads, even those with jobs in their own queues.
ThreadsEnd == stop ~> \A w \in Threads : pc[w] = "stopped"
=============================================================================
