---------------------------- MODULE ServerSessions ----------------------------
(****************************************************************************)
(* The life of a session on the game server: apps/openmw-mp/Networking.cpp  *)
(* (mainLoop, preInit, update, the process*Packet handlers, disconnect) and *)
(* Player.cpp (the Players tables).                                         *)
(*                                                                          *)
(* The server is one thread that drains one queue.  RakNet, which is not    *)
(* part of the repository, puts packets and the end of a connection in that *)
(* queue in the order they happened; CloseConnection only asks RakNet to    *)
(* end a connection, so packets of a closed connection may still be handled *)
(* before its end is.                                                       *)
(****************************************************************************)
EXTENDS Integers, Sequences, FiniteSets

CONSTANTS
    Guids,            \* RakNet identities of the clients
    NoPlayer,         \* an empty slot (a null pointer in Players::slots)
    MaxConnections,   \* peer->GetMaximumIncomingConnections()
    AttemptLimit,     \* packets tolerated before the handshake (5 in the code)
    Enforce,          \* dataFileEnforcementState
    Passworded,       \* isPassworded()
    MaxInbox          \* bound of the model: packets waiting in the queue

ASSUME GuidsAssumption   == NoPlayer \notin Guids
ASSUME LimitsAssumption  == /\ MaxConnections \in Nat \ {0}
                            /\ AttemptLimit \in Nat
                            /\ MaxInbox \in Nat \ {0}
ASSUME OptionsAssumption == Enforce \in BOOLEAN /\ Passworded \in BOOLEAN

VARIABLES
    conn,      \* RakNet's view of each connection
    inbox,     \* what peer->Receive() has still to return, oldest first
    players,   \* keys of Players::players
    slots,     \* Players::slots
    pid,       \* Player::id
    attempts,  \* Player::handshakeCounter
    load,      \* Player::loadState
    greeted,   \* history: sessions OnPlayerConnect was called for
    served     \* history: sessions with a packet given to a packet processor

sessionVars == <<players, slots, pid, attempts, load, greeted, served>>
vars == <<conn, inbox, players, slots, pid, attempts, load, greeted, served>>

-----------------------------------------------------------------------------

Slots == 0 .. MaxConnections - 1

\* Player::id of a session for which Players::newPlayer found no free slot: the
\* member is then never initialised.  PlayersHaveSlots says this cannot happen.
NoId == -1

\* std::numeric_limits<int>::max(), the counter of a session whose handshake is
\* done.  Counts above AttemptLimit are not told apart by any handler.
HandshakeDone == AttemptLimit + 2

Counts == 0 .. HandshakeDone

LoadStates == {"NOTLOADED", "LOADED", "POSTLOADED", "KICKED"}

\* The packets the handlers tell apart.  PREINIT: the client's plugin list
\* does not parse (or is empty), differs from the server's, or matches it.
\* HANDSHAKE: it does not parse, or carries a wrong or the right password.
\* BASEINFO is ID_PLAYER_BASEINFO, PLAYER every other player packet, GAME the
\* actor, object and worldstate packets.  END: ID_DISCONNECTION_NOTIFICATION, ID_CONNECTION_LOST.
Packets ==
    [type : {"PREINIT"}, body : {"invalid", "mismatch", "match"}]
    \cup [type : {"HANDSHAKE"}, body : {"invalid", "wrong", "right"}]
    \cup [type : {"LOADED", "BASEINFO", "PLAYER", "GAME"}, body : {"none"}]

EndPacket == [type |-> "END", body |-> "none"]

Messages == [from : Guids, packet : Packets \cup {EndPacket}]

Handshaked(g) == attempts[g] = HandshakeDone

-----------------------------------------------------------------------------
(* RakNet. *)

Connected == {g \in Guids : conn[g] # "none"}

\* peer->CloseConnection(g): an open connection starts to close.
Closed(g) == [conn EXCEPT ![g] = IF @ = "open" THEN "closing" ELSE @]

\* A client connects, if RakNet has room for it.
Connect(g) ==
    /\ conn[g] = "none"
    /\ Cardinality(Connected) < MaxConnections
    /\ Len(inbox) < MaxInbox
    /\ conn' = [conn EXCEPT ![g] = "open"]
    /\ UNCHANGED <<inbox, sessionVars>>

\* A packet of a client reaches the queue.
Arrive(g, p) ==
    /\ conn[g] # "none"
    /\ Len(inbox) < MaxInbox
    /\ inbox' = Append(inbox, [from |-> g, packet |-> p])
    /\ UNCHANGED <<conn, sessionVars>>

\* A connection ends: the client left or was lost, or a close took effect.
End(g) ==
    /\ inbox' = Append(inbox, [from |-> g, packet |-> EndPacket])
    /\ conn' = [conn EXCEPT ![g] = "none"]
    /\ UNCHANGED sessionVars

ClientGone(g) == conn[g] # "none" /\ End(g)

CloseCompletes(g) == conn[g] = "closing" /\ End(g)

-----------------------------------------------------------------------------
(* Players::newPlayer and Players::deletePlayer. *)

\* MUTANT of FreeSlot: does not look whether the slot is taken.
TakenSlot(s) == \A t \in Slots : t < s => slots[t] # NoPlayer

\* MUTANT of FreeSlot: any free slot instead of the lowest.
AnyFreeSlot(s) == slots[s] = NoPlayer

FreeSlot(s) == slots[s] = NoPlayer /\ \A t \in Slots : t < s => slots[t] # NoPlayer

\* MUTANT of NewPlayer: ids counted from one.
NewPlayerFromOne(g) ==
    /\ players' = players \cup {g}
    /\ \E s \in Slots :
            /\ FreeSlot(s)
            /\ slots' = [slots EXCEPT ![s] = g]
            /\ pid' = [pid EXCEPT ![g] = s + 1]
    /\ attempts' = [attempts EXCEPT ![g] = 0]
    /\ load' = [load EXCEPT ![g] = "NOTLOADED"]
    /\ UNCHANGED <<greeted, served>>

NewPlayer(g) ==
    /\ players' = players \cup {g}
    /\ \/ \E s \in Slots :
            /\ FreeSlot(s)
            /\ slots' = [slots EXCEPT ![s] = g]
            /\ pid' = [pid EXCEPT ![g] = s]
       \/ /\ \A s \in Slots : slots[s] # NoPlayer
          /\ pid' = [pid EXCEPT ![g] = NoId]
          /\ UNCHANGED slots
    /\ attempts' = [attempts EXCEPT ![g] = 0]
    /\ load' = [load EXCEPT ![g] = "NOTLOADED"]
    /\ UNCHANGED <<greeted, served>>

\* MUTANT of DeletePlayer: the slot is not freed.
DeletePlayerKeepsSlot(g) ==
    /\ players' = players \ {g}
    /\ pid' = [pid EXCEPT ![g] = NoId]
    /\ attempts' = [attempts EXCEPT ![g] = 0]
    /\ load' = [load EXCEPT ![g] = "NOTLOADED"]
    /\ greeted' = greeted \ {g}
    /\ served' = served \ {g}
    /\ UNCHANGED slots

\* The entries of a session that is gone are reset, so that states differ only
\* in what the program can still see.
DeletePlayer(g) ==
    /\ players' = players \ {g}
    /\ slots' = IF pid[g] \in Slots THEN [slots EXCEPT ![pid[g]] = NoPlayer] ELSE slots
    /\ pid' = [pid EXCEPT ![g] = NoId]
    /\ attempts' = [attempts EXCEPT ![g] = 0]
    /\ load' = [load EXCEPT ![g] = "NOTLOADED"]
    /\ greeted' = greeted \ {g}
    /\ served' = served \ {g}

-----------------------------------------------------------------------------
(* The handlers.  Each takes the oldest message of the queue.               *)

Take(g, types) ==
    /\ inbox # <<>>
    /\ Head(inbox).from = g
    /\ Head(inbox).packet.type \in types
    /\ inbox' = Tail(inbox)

Body == Head(inbox).packet.body

\* MUTANT of DisconnectPlayer: a kicked player is taken for one already deleted.
DisconnectUnlessKicked(g) ==
    /\ Take(g, {"END"})
    /\ IF g \in players /\ load[g] # "KICKED" THEN DeletePlayer(g) ELSE UNCHANGED sessionVars
    /\ UNCHANGED conn

\* mainLoop on ID_DISCONNECTION_NOTIFICATION or ID_CONNECTION_LOST.
DisconnectPlayer(g) ==
    /\ Take(g, {"END"})
    /\ IF g \in players THEN DeletePlayer(g) ELSE UNCHANGED sessionVars
    /\ UNCHANGED conn

\* preInit, the outcome of reading the packet as a plugin list.  A first packet
\* of another type has its connection closed and is read as a list all the
\* same: nothing says what that yields, except that it does not name the
\* server's own plugins.
ReadsAs(files) ==
    IF Head(inbox).packet.type = "PREINIT" THEN files = Body ELSE files \in {"invalid", "mismatch"}

\* MUTANT of PreInit: run for a session that exists already.
PreInitAgain(g, files) ==
    /\ Take(g, {"PREINIT"})
    /\ ReadsAs(files)
    /\ files = "match"
    /\ NewPlayer(g)
    /\ UNCHANGED conn

PreInit(g, files) ==
    /\ g \notin players
    /\ Take(g, {"PREINIT", "HANDSHAKE", "LOADED", "BASEINFO", "PLAYER", "GAME"})
    /\ ReadsAs(files)
    /\ IF files = "invalid" \/ (Enforce /\ files = "mismatch")
       THEN /\ conn' = Closed(g)
            /\ UNCHANGED sessionVars
       ELSE /\ conn' = IF Head(inbox).packet.type = "PREINIT" THEN conn ELSE Closed(g)
            /\ NewPlayer(g)

\* processSystemPacket.
Handshake(g) ==
    /\ g \in players
    /\ Take(g, {"HANDSHAKE"})
    /\ IF \/ Body = "invalid"
          \/ Handshaked(g)
          \/ Body = "wrong" /\ Passworded
       THEN /\ conn' = Closed(g)
            /\ UNCHANGED sessionVars
       ELSE /\ attempts' = [attempts EXCEPT ![g] = HandshakeDone]
            /\ UNCHANGED <<conn, players, slots, pid, load, greeted, served>>

\* MUTANT of BeforeHandshake: cut off one packet too late.
CutOffLate(g) ==
    /\ g \in players /\ ~Handshaked(g)
    /\ Take(g, {"LOADED", "BASEINFO", "PLAYER"})
    /\ attempts' = [attempts EXCEPT ![g] = IF @ > AttemptLimit THEN @ ELSE @ + 1]
    /\ conn' = IF attempts[g] > AttemptLimit THEN Closed(g) ELSE conn
    /\ UNCHANGED <<players, slots, pid, load, greeted, served>>

\* processPlayerPacket of a session whose handshake is not done.
BeforeHandshake(g) ==
    /\ g \in players /\ ~Handshaked(g)
    /\ Take(g, {"LOADED", "BASEINFO", "PLAYER"})
    /\ LET count == IF attempts[g] > AttemptLimit THEN attempts[g] ELSE attempts[g] + 1
       IN  /\ attempts' = [attempts EXCEPT ![g] = count]
           /\ conn' = IF count > AttemptLimit THEN Closed(g) ELSE conn
    /\ UNCHANGED <<players, slots, pid, load, greeted, served>>

\* processPlayerPacket, ID_LOADED.  The script's OnPlayerConnect may kick the
\* player: it is then deleted at once, with its connection only closing.
Loaded(g) ==
    /\ g \in players /\ Handshaked(g)
    /\ Take(g, {"LOADED"})
    /\ \/ /\ load' = [load EXCEPT ![g] = "POSTLOADED"]
          /\ greeted' = greeted \cup {g}
          /\ UNCHANGED <<conn, players, slots, pid, attempts, served>>
       \/ /\ conn' = Closed(g)
          /\ DeletePlayer(g)

\* processPlayerPacket, ID_PLAYER_BASEINFO: read and sent on to all the others,
\* whatever the load state.  No packet processor is registered for it.
BaseInfo(g) ==
    /\ g \in players /\ Handshaked(g)
    /\ Take(g, {"BASEINFO"})
    /\ UNCHANGED <<conn, sessionVars>>

\* MUTANT of PlayerPacket: the load state is not looked at.
PlayerPacketAnyLoad(g) ==
    /\ g \in players /\ Handshaked(g)
    /\ Take(g, {"PLAYER"})
    /\ served' = served \cup {g}
    /\ UNCHANGED <<conn, players, slots, pid, attempts, load, greeted>>

\* processPlayerPacket, any other packet.
PlayerPacket(g) ==
    /\ g \in players /\ Handshaked(g)
    /\ Take(g, {"PLAYER"})
    /\ served' = IF load[g] = "NOTLOADED" THEN served ELSE served \cup {g}
    /\ UNCHANGED <<conn, players, slots, pid, attempts, load, greeted>>

\* processActorPacket, processObjectPacket and processWorldstatePacket.
GamePacket(g) ==
    /\ g \in players
    /\ Take(g, {"GAME"})
    /\ served' = IF Handshaked(g) /\ load[g] = "POSTLOADED" THEN served \cup {g} ELSE served
    /\ UNCHANGED <<conn, players, slots, pid, attempts, load, greeted>>

\* update: an identifier that no packet controller knows.
UnknownPacket(g) ==
    /\ g \in players
    /\ Take(g, {"PREINIT"})
    /\ UNCHANGED <<conn, sessionVars>>

\* ServerFunctions::Kick, called by a script from a timer, a command or the
\* callback of another player.  The script names the player by its id.
ScriptKick(g) ==
    /\ g \in players
    /\ pid[g] \in Slots
    /\ conn' = Closed(g)
    /\ load' = [load EXCEPT ![g] = "KICKED"]
    /\ UNCHANGED <<inbox, players, slots, pid, attempts, greeted, served>>

-----------------------------------------------------------------------------

Init ==
    /\ conn = [g \in Guids |-> "none"]
    /\ inbox = <<>>
    /\ players = {}
    /\ slots = [s \in Slots |-> NoPlayer]
    /\ pid = [g \in Guids |-> NoId]
    /\ attempts = [g \in Guids |-> 0]
    /\ load = [g \in Guids |-> "NOTLOADED"]
    /\ greeted = {}
    /\ served = {}

Handle(g) ==
    \/ DisconnectPlayer(g)
    \/ \E files \in {"invalid", "mismatch", "match"} : PreInit(g, files)
    \/ Handshake(g)
    \/ BeforeHandshake(g)
    \/ Loaded(g)
    \/ BaseInfo(g)
    \/ PlayerPacket(g)
    \/ GamePacket(g)
    \/ UnknownPacket(g)

MainLoop == \E g \in Guids : Handle(g)

Network(g) ==
    \/ Connect(g)
    \/ \E p \in Packets : Arrive(g, p)
    \/ ClientGone(g)
    \/ CloseCompletes(g)

Next == MainLoop \/ \E g \in Guids : Network(g) \/ ScriptKick(g)

Spec == Init /\ [][Next]_vars

-----------------------------------------------------------------------------

TypeOK ==
    /\ conn \in [Guids -> {"none", "open", "closing"}]
    /\ inbox \in Seq(Messages)
    /\ players \subseteq Guids
    /\ slots \in [Slots -> Guids \cup {NoPlayer}]
    /\ pid \in [Guids -> Slots \cup {NoId}]
    /\ attempts \in [Guids -> Counts]
    /\ load \in [Guids -> LoadStates]
    /\ greeted \subseteq players
    /\ served \subseteq players

\* A slot names a live session and that session's id names the slot back, so
\* that no id a script uses leads to a deleted Player or to another client's:
\* Players::slots and Players::players, two maps written apart, agree.
SlotsMatchPlayers ==
    /\ \A s \in Slots : slots[s] # NoPlayer => slots[s] \in players /\ pid[slots[s]] = s
    /\ \A g \in players : pid[g] \in Slots => slots[pid[g]] = g

\* Players::newPlayer always finds a free slot, so Player::id is never read
\* uninitialised: RakNet admits MaxConnections connections at a time, and the
\* end of an old one is handled before any packet of the one that replaces it.
PlayersHaveSlots == \A g \in players : pid[g] \in Slots

EndPending(g) == \E i \in DOMAIN inbox : inbox[i] = [from |-> g, packet |-> EndPacket]

\* Every session has a connection, or the end of one still to be handled: no
\* Player outlives its client, whatever closes, kicks and late packets do.
NoOrphanSession == \A g \in players : conn[g] # "none" \/ EndPending(g)

\* A client that keeps sending player packets without answering the handshake
\* request has lost its connection by the time the limit is passed.
FloodCutOff ==
    \A g \in players : ~Handshaked(g) /\ attempts[g] > AttemptLimit => conn[g] # "open" \/ EndPending(g)

\* No packet of a session reaches a packet processor before OnPlayerConnect has
\* introduced the player to the scripts, unless the scripts were kicking it.
ServedAfterGreeting == \A g \in served : g \in greeted \/ load[g] = "KICKED"

\* The session's id does not change while the session lasts.
StablePid == [][\A g \in players \cap players' : pid'[g] = pid[g]]_vars

\* The id table, as scripts see it.
Pids == INSTANCE PidAllocation WITH owner <- slots
PidsAllocated == Pids!PidSpec
=============================================================================
