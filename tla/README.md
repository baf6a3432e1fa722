# A formal model of TES3MP's multiplayer core

TES3MP is OpenMW with multiplayer: a game server (`apps/openmw-mp`), a client built into the
OpenMW engine (`apps/openmw/mwmp`), the packets they exchange (`components/openmw-mp`) and a
master server that lists game servers (`apps/master`). The rest of the repository is OpenMW
itself. This directory holds TLA+ models of the multiplayer core, TLC configurations that check
them on small instances, and proofs that TLAPS checks for every size of instance.

`PROJECT.json` gives, for every definition, the source lines it stands for.

## 1. Inventory

### The system and its parts

| Part | State it keeps | Operations | Talks to |
|---|---|---|---|
| **Sessions** (`openmw-mp/Networking.cpp`, `Player.cpp`) | `Players::players` (by guid), `Players::slots` (by id), load state, handshake counter | `preInit`, `processSystemPacket`, `processPlayerPacket`, actor/object/worldstate packets, `disconnectPlayer`, `Kick` | RakNet's queue; scripts through callbacks; the cell tables |
| **Loaded cells** (`openmw-mp/CellController.cpp`, `Cell.cpp`) | the deque of `Cell`s, each with its players; each `Player`'s cells | `update` (a packet of LOAD/UNLOAD states), `deletePlayer`, `addCell`, `removeCell` | fed by the client's scene; read by every relay to "players who have the cell loaded" |
| **Cell authority** (`openmw-mp/Cell.cpp`, `processors/actor/*`, client `Cell.cpp`, `CellController.cpp`, `LocalActor`, `DedicatedActor`) | authority guid and recorded actors per cell; on the client, local and dedicated actors per cell and two global indexes | `SendActorAuthority`, `ActorCellChange`, `readActorList`, (un)initialising actors | scripts choose the authority; the sole authority's actor packets are relayed |
| **Player directory** (client `PlayerList.cpp`, `DedicatedPlayer.cpp`; server `newPlayer`, `disconnectPlayer`) | what each client knows of the other players | `ID_PLAYER_BASEINFO`, `ID_USER_DISCONNECTED`, `ID_LOADED` | sessions |
| **Script timers** (`Script/API/TimerAPI.cpp`) | `timers`, `pointer` | create, start, restart, stop, free, `Tick` | the main loop ticks them; their callbacks call back into everything |
| **Script interface** (`Script/*`) | loaded scripts, the current packet's "read" and "write" objects | callbacks, several hundred getters and setters | all of the server |
| **Server listing** (`MasterClient.cpp`, `apps/master/*`) | the announcement under construction, `updated`; on the master, the server map and pending acknowledgements | announce, update, keep-alive, expiry, REST | its own thread in the game server; UDP and HTTP |
| **Client networking** (client `Networking.cpp`, `Main.cpp`, `LocalPlayer.cpp`) | connection, what has been asked of the local player | `preInit` handshake, character generation, per-frame change detection | server |
| **Objects and containers** (client `ObjectList.cpp`; server relays) | container contents, object placement by (refNum, mpNum) | container SET/ADD/REMOVE, spawn, delete, lock, scale | server chooses what is applied |
| **World state and records** (client `Worldstate.cpp`, `RecordHelper.cpp`) | time, weather, dynamic records, map tiles | per-packet application | server |
| **OpenMW engine** (`apps/openmw/*` outside `mwmp`) | the game world | mechanics, scripts, physics, rendering, saves | the client hooks |
| **OpenMW libraries** (`components/*` outside `openmw-mp`) | caches, navigation meshes, compiled scripts | resource loading, navigation mesh updates, bytecode | engine |
| **Tools** (`opencs`, `launcher`, `wizard`, `browser`, `esmtool`, ...) | documents, settings | editing, conversion | files |

### How they interact

The game server runs its game in one thread: `Networking::mainLoop` drains RakNet's queue, hands each packet
to a handler, runs the script timers, sleeps a millisecond and starts again. Handlers call
scripts and scripts call back into the server, so a script callback can kick the very player a
handler is in the middle of serving. The only other thread announces the server to the master.

A client plays in one thread as well; helper threads build navigation meshes, preload cells and
load resources. It applies what arrives once a frame and sends what it finds has changed. It also changes its scene at any time, and tells the server which cells it has
loaded; the server's tables of who has which cell loaded decide who is sent what.

RakNet delivers packets of one channel in order, and gives no order between channels. It ends a
connection some time after `CloseConnection` is called, with packets of it possibly still in the
queue.

### What is hard

* *Two tables, one object.* A `Player` is reached by guid and by id, a `Cell` and a `Player`
  point at each other; all are freed by hand in loops that call scripts.
* *Late packets.* A session can be kicked, refused or lost with its packets still in the queue,
  in any of its load states.
* *Deferred deletion.* `CellController::update` decides what to delete before it has applied the
  whole packet.
* *Two sides that must agree.* The client's active cells and the server's lists; the sessions of
  the server and the player lists of the clients; the master's list and the running servers.
* *Re-entrancy.* Timer callbacks create and free timers while the timers are iterated.
* *Order across channels.* `ID_LOADED` and `ID_USER_DISCONNECTED` travel on another channel than
  `ID_PLAYER_BASEINFO`.
* *Flags without a lock.* The announcing thread and the main thread of the server share `updated`
  and a packet object.
* *Jobs on the move.* A job of the navigation mesh is in one of several queues, in the hands of a
  thread, or between two of these, while the main thread looks whether anything is left to do.

`PROJECT.json` lists each hazard at its line under "hazards".

### What makes each part correct

* **Sessions.** The two tables agree; an id belongs to one session and never changes; a free id is
  always found; a session does not outlive its connection; nothing of a session is processed
  before the scripts were told of it.
* **Loaded cells.** `Cell` and `Player` point at each other or not at all; a cell is deleted once,
  only when empty, and always when empty; the lists are what the clients have loaded.
* **Script timers.** An id leads to the timer it was returned for, and never to one of another
  script; a callback comes only if its script waits for it, and then does come.
* **Player directory.** Players in the game end up knowing each other by name, whatever the order
  in which they join; a player who has left is forgotten.
* **Cell authority.** One client at most simulates the actors of a cell once the news about it has
  arrived; a client whose cell was given to another is about to learn it; what another client did
  to the actors never reaches the one that simulates them.
* **Client cells and actors.** The two records lead to objects that exist, in cells that are
  initialised; no actor is moved by the client and by the packets of others at once.
* **Server listing.** A server that keeps announcing gets back into the list and stays there; what
  the master lists is what the server last set.
* **Navigation mesh updates.** No change that was posted is forgotten; the mesh of an older geometry
  never replaces that of a newer one; `wait` and the destructor return, and not too early.

## 2. Modules

| Module | Stands for | Extends or uses |
|---|---|---|
| `PidAllocation` | abstract: what scripts are promised of player ids | |
| `ServerSessions` | `openmw-mp/Networking.cpp`, `Player.cpp` | implements `PidAllocation` |
| `ServerSessions_proofs` | proofs | `ServerSessions`, TLAPS |
| `ServerCells` | `openmw-mp/CellController.cpp`, `Cell.cpp`; on the client, what `Scene` and `LocalPlayer` store and send | |
| `ServerCells_proofs` | proofs | `ServerCells`, TLAPS |
| `ScriptTimers` | `openmw-mp/Script/API/TimerAPI.cpp` | |
| `ScriptTimers_proofs` | proofs | `ScriptTimers`, TLAPS |
| `PlayerDirectory` | client `PlayerList.cpp` and its processors; `newPlayer`, `disconnectPlayer` of the server | |
| `PlayerDirectory_proofs` | proofs | `PlayerDirectory`, TLAPS |
| `CellAuthority` | server `processors/actor/*`, `SendActorAuthority`; client `ProcessorActorAuthority`, and of its cells which it believes to be its own | |
| `CellAuthority_proofs` | proofs | `CellAuthority`, TLAPS |
| `ClientActors` | client `CellController.cpp`, `Cell.cpp`: `LocalActor`s and `DedicatedActor`s, with what `World` and `CellStore` do to actors | |
| `ClientActors_proofs` | proofs | `ClientActors`, TLAPS |
| `ServerListing` | `openmw-mp/MasterClient.cpp`, `apps/master/MasterServer.cpp` | |
| `ServerListing_proofs` | proofs | `ServerListing`, TLAPS |
| `NavMeshUpdates` | `components/detournavigator`: `AsyncNavMeshUpdater`, `NavMeshManager::update` | |
| `NavMeshUpdates_proofs` | proofs | `NavMeshUpdates`, TLAPS |
| `MC...` | the instances that TLC checks | |

Definitions marked `MUTANT of X` are `X` with a plausible mistake. No specification uses them:
with `X` replaced by its mutant, the property that `PROJECT.json` names for it is violated, which
shows that the property depends on that code.

### ServerSessions

The server is one thread, so the handling of one message of the queue is one action: `PreInit`,
`Handshake` (`processSystemPacket`), `BeforeHandshake`, `Loaded`, `BaseInfo`, `PlayerPacket`
(the branches of `processPlayerPacket`), `GamePacket` (actor, object and world state packets),
`UnknownPacket`, and `DisconnectPlayer`. `ScriptKick` is a script that kicks a player from a
timer or from the callback of another player; kicking inside `OnPlayerConnect` is part of `Loaded`.

| Variable | Code |
|---|---|
| `conn`, `inbox` | RakNet: the state of each connection and the queue `peer->Receive()` drains |
| `players`, `slots` | `Players::players`, `Players::slots` |
| `pid`, `load`, `attempts` | `Player::id`, `loadState`, `handshakeCounter` |
| `greeted`, `served` | history: `OnPlayerConnect` was called; a packet processor was run |

Plugin lists and passwords are replaced by what comparing them gives. A client may send any packet
at any time. Entries of a deleted session are reset, because the program cannot see them any more.

### ServerCells

The client half is the scene changing cells: `MoveTo`, then `UnloadCell`s and `LoadCell`s in any
order within the two phases, then `EndMove`, which sends what `storeCellState` has collected if
the player is logged in and keeps it otherwise. The server half is `CellController::update` and
`deletePlayer`, modelled one loop iteration at a time (`ApplyLoad`, `ApplyUnload`, `LeaveCell`,
`RemoveCell`), because the scripts that each iteration calls see the tables in between. `busy`
says whose loop is running; `changes` is the rest of the packet and `emptied` is `toDelete`.
`Adds` and `Finds` are the comparisons of the lookups, interior cells' grid coordinates included;
`Apart` are the cells that they tell from all others, whatever the game data. The properties are
about those: of a cell that is not `Apart`, another one's list may be changed instead (section 5).
Inside an iteration one more moment can be seen: `Cell::addPlayer` calls `OnCellLoad` after it has
entered the cell in `player->cells` and before it enters the player in `players`. `AddPlayer` is one
step, and `PointersMutual` speaks of what is seen between iterations. A cell that is twice on
`toDelete` is not found the second time; the code then reads the freed cell for its log line.

### ScriptTimers

One action per function that scripts call, `StartTick`/`Visit`/`EndTick` for the loop of
`TimerAPI::Tick` over an `unordered_map`, and `Return` for the end of a callback. Within a round
the timers are visited in any order. A timer created during it may or may not be visited: an
insertion may rehash the table. `todo` holds what the round has still to visit. `wait` is what is
left of the interval, `asked` the history of what the scripts have asked for. `Pass` is time.
A timer created while the table has a freed entry is not entered, and its script gets the freed id
(section 5). `crashed` is a call through a null pointer, which such an id leads to. Two things are
left out: freeing the timer whose callback is running, and `Terminate`.

### PlayerDirectory

A client goes through the `stage`s of its life and sends its base information, `ID_LOADED`, and
other packets about itself; it may end at any time with any of its latest packets lost. The server
relays base information from any session, answers `ID_LOADED` with `newPlayer` and the end of a
connection with `disconnectPlayer`. `list` is `PlayerList::playerList`; an entry is absent, a null
pointer, a player without base information, or one with it. The packets that `newPlayer` sends
after the base information, and requests other than the first, change nothing that `list` shows.
`overtake` is chosen once, at the start: if it holds, a packet may overtake those of the other
channel, as RakNet allows. A property that needs the order sent says `~overtake`.

### CellAuthority

Both ends of the actor packets, which all travel on one ordered channel: `up[p]` and `down[p]` hold
those on their way from and to a player.

| Variable | Code |
|---|---|
| `authority`, `members` | server: `Cell::authorityGuid` and `Cell::players`; a cell without players is deleted, and its authority with it |
| `active`, `believed` | client: the active cells of its world, and `Cell::authorityGuid` of its own `mwmp::Cell`s |
| `online` | the sessions |

`Receive` takes a packet, `Frame` is `CellController::updateLocal` with what the world loads and
unloads afterwards, `Teleport` is a packet that moves the player before the frame goes on,
`SendActors` what the client sends of its actors. On the server, `Relay` is `ActorProcessor::Process`
with the test of each processor (`Accepts`) and its recipients, and `SendActorAuthority` the function
scripts call, for any player at any time. When players enter and leave the server's cells is left
open here (`EnterCell`, `LeaveCell`): `ServerCells` has the protocol for that, so what holds here
holds with it. A disconnection empties the channels at once.

A teleport may bring a cell back before a frame has dropped it, with the authority the client knew
before. `missed` is the history of that: the cells about which a client has ignored news because they
were inactive, until it learns something newer or a frame drops them. Section 5 tells what happens
in such a cell; the properties are exact about it, and hold of all others without exception.

### ClientActors

What is inside one client of the above: for each cell its `LocalActor`s (`locals`) and
`DedicatedActor`s (`dedicated`), each with the cell in its `Ptr`, and the global records
`localActorsToCells` and `dedicatedActorsToCells`. `known`, `mine` and `eligible` are
`cellsInitialized`, the authority, and `shouldInitializeActors`. `phase` is where in the frame the
client is: "packets" come in any order; then `UpdateDedicated`, and the first loop of `updateLocal`
over the "cells", of which `todo` has those it has still to visit: in any order, `DropCell` for one
that is no longer active and `UpdateCell` for one that is; then `UpdateEligible`, its second loop;
and then the "world" moves actors (`MoveActor`), merges references (`MergeRefs`) and changes the
active cells (`ChangeActive`). Packets do these three as well. An exception inside `updateDedicated`
is left out.

The packets are all that `CellAuthority` and scripts let through: `ReceiveAuthority`,
`ReceiveMovement` (the readers that only initialise: a cell, and some of them its
actors), `ReceiveState` (those that also uninitialise
under our authority, where `dedicatedActors.at` may throw in the middle of the packet),
`ReceiveCellChange` with the part of `World::moveObject` that it calls, and so on. Actors are
enabled and have an index; what else a packet says of them is left out. Cells may come and go at
any time, back before a frame has dropped them included.

### ServerListing

The thread of `MasterClient` one shared access at a time, `pc` being where it is: `Wake` and
`SetPlayers`, `Compare` and `Build` (the loop over players and the choice of announcing), `Connect`,
`Send`, `Clear` (the flag set to false once more). The main thread sets data (`SetMode` stands for all
setters), adds and deletes players, and takes the master's answer in two steps (`ReadAnswer` puts it
into the packet object that the thread uses too; `ActOnAnswer` lowers the rate). `Handle`, `Expire`
and `Acknowledged` are the master's loop; `entry` is what it has of this server.

Whatever is rare is a *mishap*, and `MaxMishaps` bounds how many there are: no connection, a lost
one, an expiry that the rate does not explain, a round that starts before the last one's packets
have arrived, a setter or an answer while the thread is sending.

### NavMeshUpdates

| Variable | Code |
|---|---|
| `version`, `solid`, `changed` | the geometry of each tile, whether it has any, and `NavMeshManager::mChangedTiles` |
| `jobs`, `waiting`, `own` | `mJobs`, those of it that are not due yet, `mThreadsQueues` |
| `locks` | `mProcessingTiles` |
| `pc`, `held`, `seen` | where each thread of the updater is, its job, and the geometry it has read |
| `built`, `meshed` | the mesh: the geometry each tile was built from, and the tiles it has |
| `main` | where the main thread is in `wait` or in the destructor |
| `lost`, `missed`, `thrown` | history: jobs given up, removals that `update` did not post, an exception |

Each step of a thread is what it does under one lock, or between two: `EnterLoop`, `NextOwnJob`,
`NextJob` and `Timeout` (`getNextJob`), `ReadMesh`, `Build` (which may fail) or `Throw`, `Unlock`,
`Repost`, `Push`. The main thread changes geometry, posts it (`Update`), waits, and stops the updater.
Left out are agents, the player's distance and the priorities that come from it, off-mesh
connections and the cache of tiles. Off-mesh connections do not change the revision of the
geometry, so `NavMeshManager::update` may return early and post them with the next change only.
It also returns early when neither the revision nor the tile of the player has changed. The player may
come to another tile at any time, so `Update` may post what has changed at any time.

## 3. Runs

| Run | Instance | Shows |
|---|---|---|
| `sessions` | 3 clients, 2 ids, 2 messages queued, one handshake attempt allowed, plugin lists not enforced | types, `SlotsMatchPlayers`, `PlayersHaveSlots`, `NoOrphanSession`, `FloodCutOff`, `ServedAfterGreeting`, `StablePid`, and that the tables implement `PidAllocation` |
| `cells` | 2 players, 2 exterior cells and an interior one, 2 cells loaded at a time, 1 packet in flight | types, `PointersMutual`, `NoDanglingCells`, `DeletesEmptyCells`, `CellsInUse`, `MembersHaveCellLoaded` |
| `timers` | 3 timers, intervals 0 and 2, created, freed and created again | types, `OneOwner`, `CalledAsAsked`, `AskedIsCalled` |
| `timers_ids` | 2 timers, interval 0 | violated: `IdsLeadToTimers` |
| `directory` | 2 players, 1 further packet each, packets in the order sent and overtaking each other | types, `EveryoneKnown`, `InfosNamed`, `LeaversForgotten` |
| `authority` | 2 players, 1 cell, 2 packets on their way to a client and 1 from it, one type of each kind | types, `OneSimulator`, `OldAuthorityTold`, `NotMovedByOthers` |
| `actors` | 2 cells, 2 actors, one of which changes cells | types, `RecordsLead`, `OwnActorsFree` |
| `actors_records` | the same | violated: `LocalsRecorded` |
| `listing` | 1 player, 2 game modes, rates 1 to 3 of which 2 and 3 are too slow, 1 mishap | types, `UpToDate`, `Relisted`, `StaysListed` |
| `listing_mode` | the same | violated: `GameModeDisplayed` |
| `navmesh` | 2 threads, 1 tile, which changes once, builds that fail or throw | types, `NoChangeLost`, `NeverBackwards`, `WaitLeavesOneJob`, `WaitEnds`, `ThreadsEnd` |
| `navmesh_wait` | 1 thread, 1 tile | violated: `WaitIsEnough` |

Why the bounds are enough:

* *Sessions.* More clients than ids, so that ids run out and are used again; a third client takes
  the slot of one that is closing while the second keeps its own. Two messages let the end of one
  connection wait behind a late packet, and the first packet of another. With one allowed attempt
  the counter passes its limit. A client that connects again is a new session of the same guid.
  All of these properties are also proved for any bounds. That a session that is being closed does leave
  is in `NoOrphanSession`, for `mainLoop` polls its queue for ever: its connection, or the end of it, remains.
* *Cells.* Two players are one who keeps a cell and one who leaves it; two exterior cells can be
  loaded together, and an interior one replaces them. One packet in flight already lets both
  players' packets wait for each other while the scenes go on moving and collecting states.
  All of these properties are also proved for any bounds.
* *Timers.* One timer that a callback runs for, one that it changes, one that is neither.
  Interval 0 is a timer that is due at once, 2 one that is passed over in between. The safety
  properties are also proved for any timers and intervals.
* *Directory.* No action about one pair of players reads anything of a third. In `directory` every
  process makes one more step (a packet about itself) than its way into the game needs. The safety
  properties are also proved for any players and packets.
* *Authority.* No action relates two cells, so one is enough; two players are the one that has the
  cell and the one that gets it. Two packets to a client let news about the authority wait behind a
  packet of the former one, and behind older news. Of the types that differ only in what they carry,
  one is taken: a checked one, one sent to everybody, and one that is not checked.
  All four properties are also proved for any bounds.
* *Actors.* An actor moves between two cells; with the second actor a packet is about more than one,
  and can stop in the middle. Nothing else is bounded. What the passing run checks is also proved, for
  any cells and actors.
* *Listing.* The rate goes down from the first to one that is fast enough and could go on to the
  floor. With one mishap, each kind occurs at every point of a round. The run was repeated once with
  two mishaps, and passed. `UpToDate` is also proved, for any players, modes and rates.
* *Navigation mesh.* Threads interfere in one tile only, for locks and queues are per tile; with two
  of them one builds while the other takes the next job of the tile. `MaxTry = 0` still has a first
  try, one that is tried again and one given up. One change follows the first geometry.
  `WaitLeavesOneJob` was checked once with a single thread, the default, and holds there too. The safety
  properties were checked once with two tiles (11.9 million states), which pass too, and are proved for
  any threads and tiles.

## 4. Fairness

Safety needs none. The liveness runs assume what the loops of the program do:

* `timers`: `mainLoop` calls `TimerAPI::Tick` in every round, a callback returns, and time passes.
  Scripts need not call anything. No fairness is assumed among timers: that a loop visits each of
  them is in `EndTick`, which waits for `todo` to be empty.
* `directory`: what is sent to a player is received and what it has sent is handled. Channels are
  reliable and both sides poll.
* `listing`: something of a round happens: a step of the announcing thread, of the main thread
  taking an answer, or of the master. The programs run in loops and RakNet delivers or reports a lost
  connection. One weak fairness of the whole is enough, because a round that starts before the last
  is over counts as a mishap, and mishaps are bounded. That setters, players and expiries stop is
  assumed nowhere but in the premise of `StaysListed`.
* `navmesh`: the operating system runs every thread, the main thread too once it waits or destroys,
  and time passes. That builds succeed is not assumed: tries are bounded by the code.

## 5. What the runs and proofs found

Four statements that the repository makes of itself do not hold; each is a `violation` run, and
`PROJECT.json` quotes both sides under "findings":

1. `actors_records`: an actor that has moved from one cell of the client to another, which then
   comes under the client's authority, loses its record with the old cell: it stays a `LocalActor`
   that `isLocalActor` denies.
2. `listing_mode`: what a script sets while the announcing thread is in `Send` is announced only when
   something else changes.
3. `timers_ids`: `CreateTimer` is to return the id of the timer it creates. A timer created while
   the table has a freed entry is entered nowhere (`TimerAPI.cpp:72-78` and `96-102` assign to a copy
   of the entry): the id leads to a null pointer.
4. `navmesh_wait`: with one updater thread, the default, no tile is locked, and `wait` returns
   while that thread does the last job. `WaitLeavesOneJob` says that this is all that it leaves undone of
   what was posted.

Other observations, each with the change of an instance that shows it:

* *Silent clients.* `tes3mp-changelog.md:34` has the server kick clients that do not answer the
  handshake. Attempts are counted in handling packets (`Networking.cpp:145-157`), so a client that
  sends nothing is never kicked.
* *Removed while it is built* (`navmeshmanager.cpp:160-181`). When the last object of a tile is removed
  while a thread builds the tile for the first time, `update` finds it neither in the mesh nor in the
  geometry and posts nothing; the tile that the thread adds stays. With two threads in
  `MCNavMeshUpdatesWait.cfg`, `WaitIsEnough` is violated in this way. The history `missed` has these
  tiles, and the passing properties except them.
* *Interior cells have coordinates* (`CellController.cpp:53`). `getCellByXY` does not ask for an exterior
  cell: a player who leaves an exterior cell may be taken out of the list of an interior one with the
  same coordinates, and stay in that of the cell it has left. With `Grids` that give `house` those of
  `wild`, without the symmetry of the exterior cells, and with `Cells` in place of `Apart`,
  `MembersHaveCellLoaded` fails.
* *`ID_LOADED` overtakes the base information* (`Networking.cpp:360`). Without `~overtake` in
  `InfosNamed`, it fails: `newPlayer` sends base information that has not come yet.
* *Kicked on connection.* A player kicked inside `OnPlayerConnect` has had its base information relayed
  already (`Networking.cpp:166`), and only that player is told: `list[c][g] = "named"` stays.
* *Null entries.* `PlayerList::getPlayer` (`PlayerList.cpp:62-65`) leaves a null pointer for a guid
  it does not know, which `getPlayersInCell` reads; `list[c][g] = "null"` is reachable.
* *Back before a frame.* A client teleported away ignores that its cell was given to another, and when it
  is teleported back within the same batch of packets it still believes in what it was: without `missed`,
  `OneSimulator`, `OldAuthorityTold` and `NotMovedByOthers` fail. No text of the repository excludes it.
* *A flag acted upon later.* `shouldInitializeActors` is set while the client is the authority, and
  acted upon without asking again (`CellController.cpp:63-72`); a cell given away in between gets
  `LocalActors`, until the next packet about its authority.
* *Objects without record.* `readEquipment` and its like remove the record of a dedicated actor
  before `at` throws for it (`Cell.cpp:560`), which may leave a `DedicatedActor` of the same index in
  another cell without one, until that cell is released.
* *Rules of the announcement.* `MasterClient.cpp:82` inserts without overwriting, so a rule that is
  set again keeps its value. `SetUpdateRate` (250-257) clamps the value it is about to replace. The
  announcing thread iterates over the players without a lock.
* *An exception in `processJob`* skips `unlockTile`; `WaitEnds` excepts that case, because `wait`
  does not return then.

## 6. Proofs

All statements hold for any constants that satisfy the named assumptions, which TLC evaluates in
each run.

* `ServerSessions_proofs`. `TypeCorrect`, and from it `SlotsConsistent`, `PidsStable` and
  `PidsImplemented`, along one lemma: every step creates a session, deletes one or leaves the
  tables alone (`TableSteps`). The refinement maps `PidAllocation!owner` to `slots`.
  `SessionsBacked` (`NoOrphanSession` and `FloodCutOff`) needs a stronger invariant, `QueueInv`:
  every *message* in the queue has a connection or the end of it further back in the queue
  (`PacketsBacked`); otherwise handling an end could leave a packet of that client behind, which
  would create a session that nothing ends. `GreetedFirst` follows from `GreetingInv`, which ties
  the load state to the history. `AlwaysRoom` (`PlayersHaveSlots`) counts: `RoomInv` says, for
  each prefix of the queue, that those who may have a session when it has been handled are no more
  than the connections RakNet admits. Counting the sessions of now alone is not inductive: a new
  connection's first packet may wait behind the end of an old one.
* `ServerCells_proofs`. `TypeCorrect`, then `TablesInvariant`: the deque has no cell twice, a
  packet has at most one state for a cell (in the client's hands, on its way, and being applied),
  a cell on the list to be deleted is not named by the rest of the packet and is empty, and every
  empty cell is on that list. The middle one is what makes the deferred deletion right: without
  it a packet that unloads a cell and loads it again would leave a player in a freed cell.
  `PointersStayMutual`, `CellsNeverDangle`, `OnlyEmptyDeleted` and `EmptyCellsDeleted` follow.
  `ScenesReachTables` (`MembersHaveCellLoaded`) compares what the client and the server have of a
  cell: its invariant says that the last state of the cell that is stored, on its way or being
  applied is LOAD if it is in the scene and UNLOAD if not, and that there is none only if the
  list of the cell is right already. Nothing is assumed of the game data: all of it is said of each
  cell that is `Apart`, and no iteration about another cell changes anything of such a one.
* `ScriptTimers_proofs`. `TimersInvariant`: an entry is null or the timer whose id leads to it, it
  waits exactly as the scripts asked, and scripts wait for nothing of a timer they have freed.
  `TypeCorrect` adds that a round visits entries of the table only, and that no more is left of an
  interval than was set.
  `OnlyAskedCalled` follows. `OneOwnerHolds` says that a timer in the table belongs to one script,
  although freed ids are returned again, to several scripts at a time.
* `CellAuthority_proofs`. `TypeCorrect`, then `AuthorityInvariant`. Its parts look ahead over what is
  on its way to a client: *agreement* says that for each cell there is one player, the server's
  authority if it has one, whom every client will take for the authority after the last news it has
  coming; *foreign packets* says that when a checked packet arrives, after the news before it, its
  receiver does not simulate the cell; *senders* that a player sends in its own name; *sessions* that
  only players with a session simulate. Agreement alone must allow for a deleted cell, whose
  authority the server has forgotten and the clients have not. `OneSimulatorHolds`,
  `OldAuthorityIsTold` and `NotMovedByOthersHolds` follow. Nothing is assumed of teleports: a client that
  has ignored news about a cell is in `missed`, and only then is it not to be trusted about the cell.
* `PlayerDirectory_proofs`. `TypeCorrect`, then `LifeInvariant`, which relates the stage of a client, the
  session and the two queues: the answer to joining comes before anything else, nobody is told of
  the end of a session that goes on, and the server will learn of a client that is gone.
  `InfosHaveNames` (`InfosNamed`) needs `OrderInv`: a session has its name, or the name comes before
  `ID_LOADED`. `EveryoneIsKnown` (`EveryoneKnown`) needs two more, which hold with packets overtaking each other:
  `NameInv`, that who is in the game without a name will send it or end, and `KnownInv`, that of
  two players in the game the first has the name of the second, *or* is being told it and not told
  otherwise after it, *or* the second is still to send it, *or* the first is about to end. The
  request in `newPlayer` is what keeps it: with overtaking, nothing else makes a player send its
  name again.
* `ServerListing_proofs`. `TypeCorrect`, then `ListingInvariant`: without mishaps a round starts only when
  the last is over, so what the thread has built, what is on its way and what the master answers
  with all carry the data of the server, or `updated` is set. `ListedAsItIs` (`UpToDate`) follows.
* `NavMeshUpdates_proofs`. `TypeCorrect`, with `HeldInv`: a thread has a job exactly while it works on it.
  `LockInv`, that a thread that works on a tile has its lock if there are several threads, makes
  `SeenInv` hold: what a thread has read is not older than what is built. `BuildsForward`
  (`NeverBackwards`) follows. `ChangesKept` (`NoChangeLost`) needs `StaleInv`, that a thread that has
  read what is no longer there will be followed by another job of the tile, and `PostedInv`, that a
  change is in a queue or in the hands of a thread that has read it or is still to read it.
  `WaitWaits` (`WaitLeavesOneJob`) is for any number of threads: with several, a job in the hands of one
  keeps its tile locked; with a single one, it may be what `wait` leaves undone.
* `ClientActors_proofs`. A lemma for each of the loops over the actors of a cell says what it does to the
  types and to `Leads`, that each record leads to an object in an initialized cell. A `DedicatedActor` always has a cell
  in its `Ptr`, which `ReceiveCellChange` may hand on to a `LocalActor`. `ActorsInv`
  is these for both kinds of actors, that `todo` is empty outside the loop over the cells, and
  `FreeInv`: from `updateDedicated` to the end of the frame, cells of ours have no DedicatedActor.
  `UpdateDedicated` establishes the last, whatever the packets have left, and the steps after it
  can add cells to those of ours only by a packet of the next frame. `TypeCorrect`,
  `RecordsAlwaysLead` and `OwnActorsAlwaysFree` follow.

The modules begin with the facts about sequences that they need: what appending to a sequence, joining
two and removing an element of one do to types, positions and uniqueness.

Each inductive invariant was checked with TLC on the instance of the run before it was proved.

All safety properties that hold in the runs are proved. Only model-checked is everything about
liveness, which is out of the prover's reach.

## 7. Plan

1. `Containers`: concurrent changes of a container, serialised by the server's scripts.
2. The barrier of the physics threads, and the preloading of cells.

## 8. What is not modelled

The contents of packets and their encoding; the several hundred script functions that get and set
one value; start-up and configuration; the engine's rules, physics, rendering, sound and
interface; file formats; the editor, launcher and other tools; vendored code. `PROJECT.json` lists
each of them as a component, with the reason.
