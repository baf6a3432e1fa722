---------------------------- MODULE CellAuthority ----------------------------
(****************************************************************************)
(* Who simulates the actors of a cell.  The server's scripts make a player  *)
(* the authority of a cell (Script/Functions/Actors.cpp); the processors    *)
(* under apps/openmw-mp/processors/actor relay what that player sends about *)
(* the actors; a client simulates them in the cells that are active in its  *)
(* world and, as far as its mwmp::Cell knows, under its own authority.      *)
(*                                                                          *)
(* All packets are RELIABLE_ORDERED on CHANNEL_ACTOR, so one sequence holds *)
(* those on their way to a client, and one those from it.  ServerCells has  *)
(* the protocol that puts players into the server's cells and takes them    *)
(* out; here that happens at any time.  ClientActors has what a client does *)
(* to the actors themselves.                                                *)
(****************************************************************************)
EXTENDS Integers, Sequences, FiniteSets

CONSTANTS
    Players,       \* client processes, each with a guid of its own
    Nobody,        \* UNASSIGNED_RAKNET_GUID
    Cells,
    SentTypes,     \* the packet types about actors that clients send
    MaxInFlight,   \* bound of the model: packets on their way to a client
    MaxSent        \* bound of the model: packets on their way from a client

ASSUME NobodyAssumption      == Nobody \notin Players
ASSUME TypesAssumption       == SentTypes \subseteq {"POSITION", "EQUIPMENT", "CELL_CHANGE", "FOLLOWER"}
ASSUME BoundsAssumption      == MaxInFlight \in Nat \ {0} /\ MaxSent \in Nat \ {0}

VARIABLES
    online,      \* the players with a session
    active,      \* client: the active cells of its world
    believed,    \* client: Cell::authorityGuid, Nobody for a cell without mwmp::Cell
    members,     \* server: Cell::players; a cell without players is deleted
    authority,   \* server: Cell::authorityGuid, Nobody for a deleted cell
    up,          \* packets on their way to the server, oldest first
    down,        \* packets on their way to the client, oldest first
    missed       \* history: the cells a client has ignored news about, and not dropped since

clientVars == <<active, believed, missed>>
serverVars == <<members, authority>>
vars == <<online, active, believed, members, authority, up, down, missed>>

-----------------------------------------------------------------------------

\* What clients send about the actors of a cell.  POSITION stands for the types
\* that are checked for the authority (ANIM_FLAGS, STATS_DYNAMIC, ATTACK, ...),
\* EQUIPMENT for those that are not (LIST); FOLLOWER is ID_ACTOR_CELL_CHANGE with
\* isFollowerCellChange, which is not checked either.
Checked == {"POSITION", "CELL_CHANGE"}
ToEveryone == {"CELL_CHANGE", "FOLLOWER"}

ActorPackets == [type : SentTypes, cell : Cells, guid : Players]
AuthorityPackets == [type : {"AUTHORITY"}, cell : Cells, guid : Players]

Authority(X, p) == [type |-> "AUTHORITY", cell |-> X, guid |-> p]

\* Cell::hasLocalAuthority of an active cell: its actors are LocalActors.
Simulates(c, X) == X \in active[c] /\ believed[c][X] = c

\* The packet is sent to the given players that are connected.
SentTo(to, packet) == [c \in Players |-> IF c \in to \cap online THEN Append(down[c], packet) ELSE down[c]]

-----------------------------------------------------------------------------
(* The client. *)

\* ProcessorActorAuthority: "Never initialize LocalActors in a cell that is no
\* longer loaded, if the server's packet arrived too late".
ReceiveAuthority(c, packet) ==
    IF packet.cell \in active[c]
    THEN /\ believed' = [believed EXCEPT ![c][packet.cell] = packet.guid]
         /\ missed' = missed \ {<<c, packet.cell>>}
    ELSE /\ missed' = missed \cup {<<c, packet.cell>>}
         /\ UNCHANGED believed

\* CellController::readPositions and the others of its kind: at most an mwmp::Cell
\* without authority is added.
ReceiveActors(c, packet) == UNCHANGED <<believed, missed>>

Receive(c) ==
    /\ down[c] # <<>>
    /\ down' = [down EXCEPT ![c] = Tail(@)]
    /\ \/ Head(down[c]).type = "AUTHORITY" /\ ReceiveAuthority(c, Head(down[c]))
       \/ Head(down[c]).type \in SentTypes /\ ReceiveActors(c, Head(down[c]))
    /\ UNCHANGED <<online, active, serverVars, up>>

\* MUTANT of Frame: inactive cells are kept.
FrameKeeps(c) ==
    /\ c \in online
    /\ missed' = {m \in missed : m[1] = c => m[2] \in active[c]}
    /\ \E A \in SUBSET Cells : active' = [active EXCEPT ![c] = A]
    /\ UNCHANGED <<online, believed, serverVars, up, down>>

\* The frame after Networking::update: CellController::updateLocal deletes the
\* inactive cells, and then the world loads and unloads cells.
Frame(c) ==
    /\ c \in online
    /\ believed' = [believed EXCEPT ![c] = [X \in Cells |-> IF X \in active[c] THEN @[X] ELSE Nobody]]
    /\ missed' = {m \in missed : m[1] = c => m[2] \in active[c]}
    /\ \E A \in SUBSET Cells : active' = [active EXCEPT ![c] = A]
    /\ UNCHANGED <<online, serverVars, up, down>>

\* A packet handled within Networking::update moves the player, as
\* ID_PLAYER_CELL_CHANGE from the server's scripts does.  Nothing is dropped: a
\* second one may bring a cell back with the authority the client knew before.
Teleport(c) ==
    /\ c \in online
    /\ \E A \in SUBSET Cells : active' = [active EXCEPT ![c] = A]
    /\ UNCHANGED <<online, believed, serverVars, up, down, missed>>

\* Cell::updateLocal sends what its LocalActors do; a player who walks through
\* a door sends the cell change of each follower, whoever the authority is.
SendActors(c, X, type) ==
    /\ c \in online
    /\ Len(up[c]) < MaxSent
    /\ IF type = "FOLLOWER" THEN X \in active[c] ELSE Simulates(c, X)
    /\ up' = [up EXCEPT ![c] = Append(@, [type |-> type, cell |-> X, guid |-> c])]
    /\ UNCHANGED <<online, clientVars, serverVars, down>>

-----------------------------------------------------------------------------
(* The server. *)

\* MUTANT of SendActorAuthority: only those who have the cell loaded are told.
SendActorAuthorityToLoaded(X, p) ==
    /\ members[X] # {}
    /\ \A c \in online : Len(down[c]) < MaxInFlight
    /\ authority' = [authority EXCEPT ![X] = p]
    /\ down' = SentTo(members[X] \cup {p}, Authority(X, p))
    /\ UNCHANGED <<online, clientVars, members, up>>

\* ActorFunctions::SendActorAuthority, called by a script for any connected
\* player: "Always send the packet to everyone on the server".
SendActorAuthority(X, p) ==
    /\ members[X] # {} /\ p \in online
    /\ \A c \in online : Len(down[c]) < MaxInFlight
    /\ authority' = [authority EXCEPT ![X] = p]
    /\ down' = SentTo(Players, Authority(X, p))
    /\ UNCHANGED <<online, clientVars, members, up>>

\* MUTANT of Accepts: whoever has the cell loaded may send about its actors.
AcceptsMembers(packet) == packet.guid \in members[packet.cell]

\* The test of the actor processors.
Accepts(packet) ==
    /\ members[packet.cell] # {}
    /\ packet.type \in Checked => authority[packet.cell] = packet.guid

\* ActorProcessor::Process: Cell::sendToLoaded, or Send(true).
Relay(p) ==
    /\ up[p] # <<>>
    /\ LET packet == Head(up[p])
           to == (IF packet.type \in ToEveryone THEN Players ELSE members[packet.cell]) \ {p}
       IN  /\ \A c \in to \cap online : Len(down[c]) < MaxInFlight
           /\ down' = IF Accepts(packet) THEN SentTo(to, packet) ELSE down
    /\ up' = [up EXCEPT ![p] = Tail(@)]
    /\ UNCHANGED <<online, clientVars, serverVars>>

\* Cell::addPlayer and Cell::removePlayer, for a packet of cell states of p.
EnterCell(X, p) ==
    /\ p \in online \ members[X]
    /\ members' = [members EXCEPT ![X] = @ \cup {p}]
    /\ UNCHANGED <<online, clientVars, authority, up, down>>

\* The cells that are left without players are deleted, with their authority.
Left(m) ==
    /\ members' = m
    /\ authority' = [X \in Cells |-> IF m[X] = {} THEN Nobody ELSE authority[X]]

LeaveCell(X, p) ==
    /\ p \in members[X]
    /\ Left([members EXCEPT ![X] = @ \ {p}])
    /\ UNCHANGED <<online, clientVars, up, down>>

\* MUTANT of Disconnect: the cells keep the player.
DisconnectKeepsMember(p) ==
    /\ p \in online
    /\ online' = online \ {p}
    /\ active' = [active EXCEPT ![p] = {}]
    /\ believed' = [believed EXCEPT ![p] = [X \in Cells |-> Nobody]]
    /\ up' = [up EXCEPT ![p] = <<>>]
    /\ down' = [down EXCEPT ![p] = <<>>]
    /\ missed' = {m \in missed : m[1] # p}
    /\ UNCHANGED serverVars

\* A client is gone, and CellController::deletePlayer.  What it has sent is lost.
Disconnect(p) ==
    /\ p \in online
    /\ online' = online \ {p}
    /\ Left([X \in Cells |-> members[X] \ {p}])
    /\ active' = [active EXCEPT ![p] = {}]
    /\ believed' = [believed EXCEPT ![p] = [X \in Cells |-> Nobody]]
    /\ up' = [up EXCEPT ![p] = <<>>]
    /\ down' = [down EXCEPT ![p] = <<>>]
    /\ missed' = {m \in missed : m[1] # p}

-----------------------------------------------------------------------------

Init ==
    /\ online = Players
    /\ active = [c \in Players |-> {}]
    /\ believed = [c \in Players |-> [X \in Cells |-> Nobody]]
    /\ members = [X \in Cells |-> {}]
    /\ authority = [X \in Cells |-> Nobody]
    /\ up = [c \in Players |-> <<>>]
    /\ down = [c \in Players |-> <<>>]
    /\ missed = {}

Client(c) ==
    \/ Receive(c)
    \/ Frame(c)
    \/ Teleport(c)
    \/ \E X \in Cells, type \in SentTypes : SendActors(c, X, type)

Server(p) ==
    \/ Relay(p)
    \/ \E X \in Cells : SendActorAuthority(X, p) \/ EnterCell(X, p) \/ LeaveCell(X, p)
    \/ Disconnect(p)

Next == \E p \in Players : Client(p) \/ Server(p)

Spec == Init /\ [][Next]_vars

-----------------------------------------------------------------------------

TypeOK ==
    /\ online \subseteq Players
    /\ active \in [Players -> SUBSET Cells]
    /\ believed \in [Players -> [Cells -> Players \cup {Nobody}]]
    /\ members \in [Cells -> SUBSET online]
    /\ authority \in [Cells -> Players \cup {Nobody}]
    /\ up \in [Players -> Seq(ActorPackets)]
    /\ down \in [Players -> Seq(ActorPackets \cup AuthorityPackets)]
    /\ missed \subseteq Players \X Cells

\* All news about who simulates the cell has reached the client, and it has not
\* ignored the last of it while the cell was inactive, to come back before a frame.
Informed(c, X) ==
    /\ \A i \in DOMAIN down[c] : down[c][i].type = "AUTHORITY" => down[c][i].cell # X
    /\ <<c, X>> \notin missed

\* Once the last ID_ACTOR_AUTHORITY about a cell has arrived, at most one client
\* simulates its actors, whoever entered, left and was chosen in between, and
\* even when the server has deleted the cell since.
OneSimulator ==
    \A c, d \in Players, X \in Cells :
        Informed(c, X) /\ Informed(d, X) /\ Simulates(c, X) /\ Simulates(d, X) => c = d

\* A client that simulates a cell the server has given to another is about to
\* learn it, however many packets are before that one: the last of those about
\* the authority of the cell names the server's choice.  The one exception is a
\* client that has ignored such news and that a teleport has brought back since.
OldAuthorityTold ==
    \A c \in online, X \in Cells :
        Simulates(c, X) /\ authority[X] \notin {c, Nobody} =>
            \/ <<c, X>> \in missed
            \/ \E i \in DOMAIN down[c] :
                /\ down[c][i] = Authority(X, authority[X])
                /\ \A j \in i + 1 .. Len(down[c]) : down[c][j].type = "AUTHORITY" => down[c][j].cell # X

\* What another client did with the actors of a cell never reaches the client that
\* simulates them, unless that one has ignored news of it: each checked packet that
\* does was sent by the authority of its time.
NotMovedByOthers ==
    \A c \in online : down[c] # <<>> =>
        LET packet == Head(down[c])
        IN  packet.type \in Checked /\ Simulates(c, packet.cell) => <<c, packet.cell>> \in missed
=============================================================================
