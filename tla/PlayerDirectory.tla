---------------------------- MODULE PlayerDirectory ----------------------------
(****************************************************************************)
(* What each client knows of the other players: mwmp::PlayerList of the     *)
(* client, kept by the packets that the server's processPlayerPacket,       *)
(* newPlayer and disconnectPlayer send and pass on.                         *)
(*                                                                          *)
(* A session is reduced here to what these packets depend on; ServerSessions *)
(* has all of it.  Packets are reliable, and in order within each of        *)
(* RakNet's channels: ID_LOADED, ID_USER_DISCONNECTED and ID_GAME_PREINIT   *)
(* use CHANNEL_SYSTEM, the others here CHANNEL_PLAYER.                      *)
(****************************************************************************)
EXTENDS Integers, Sequences, FiniteSets

CONSTANTS
    Players,     \* client processes, each with a guid of its own
    MaxUpdates   \* bound of the model: other packets a player sends about itself

ASSUME PlayersAssumption    == IsFiniteSet(Players)
ASSUME MaxUpdatesAssumption == MaxUpdates \in Nat

VARIABLES
    stage,     \* client: where it is in its life
    list,      \* client: PlayerList::playerList
    up,        \* packets on their way to the server, oldest first
    down,      \* packets on their way to the client, oldest first
    session,   \* server: Player::loadState, and whether the session is over
    named,     \* server: the Player has its base information
    overtake,  \* network, never changed: packets of one channel overtake those of another
    updates    \* bound of the model: other packets sent so far

vars == <<stage, list, up, down, session, named, overtake, updates>>

-----------------------------------------------------------------------------

\* out: not connected.  joining: in Networking::preInit.  creating: the player
\* is asked for a name.  playing: ID_LOADED is sent.  gone: the process ended.
Stages == {"out", "joining", "creating", "playing", "gone"}

\* left: ended by disconnectPlayer.  kicked: ended within OnPlayerConnect.
SessionStates == {"none", "NOTLOADED", "POSTLOADED", "left", "kicked"}

\* null: a null pointer, which operator[] inserts for a guid it does not know.
\* blank, named: a DedicatedPlayer, without and with base information.
Entries == {"absent", "null", "blank", "named"}

InSession(g) == session[g] \in {"NOTLOADED", "POSTLOADED"}

UpTypes == {"BASEINFO", "LOADED", "UPDATE", "END"}

\* full: whether the base information is there.
Packet(type, about, full) == [type |-> type, about |-> about, full |-> full]
DownPackets ==
    [type : {"PREINIT", "REQUEST", "UPDATE", "DISCONNECTED"}, about : Players, full : {TRUE}]
    \cup [type : {"BASEINFO"}, about : Players, full : BOOLEAN]

Channel(type) == IF type \in {"PREINIT", "LOADED", "DISCONNECTED"} THEN "SYSTEM" ELSE "PLAYER"

\* Which packets of a connection may be delivered next.  The end of it is last.
MayCome(types, i) ==
    IF overtake /\ types[i] # "END"
    THEN \A j \in 1 .. i - 1 : Channel(types[j]) # Channel(types[i])
    ELSE i = 1

Others(g) == {c \in Players : InSession(c) /\ c # g}

\* Packets for each of the given clients.  Nothing reaches a process that is gone.
Queued(to, packets) == [c \in Players |-> IF c \in to /\ stage[c] # "gone" THEN down[c] \o packets ELSE down[c]]
Sent(to, packet) == Queued(to, <<packet>>)

DropAt(s, i) == SubSeq(s, 1, i - 1) \o SubSeq(s, i + 1, Len(s))

-----------------------------------------------------------------------------
(* The client. *)

\* The plugin list is accepted, and answered.  What was sent to the client
\* before is thrown away by Networking::preInit, which waits for that answer.
Join(g) ==
    /\ stage[g] = "out"
    /\ stage' = [stage EXCEPT ![g] = "joining"]
    /\ session' = [session EXCEPT ![g] = "NOTLOADED"]
    /\ down' = [down EXCEPT ![g] = <<Packet("PREINIT", g, TRUE)>>]
    /\ UNCHANGED <<list, up, named, overtake, updates>>

\* LocalPlayer::processCharGen ends, and Main::updateWorld goes on: each of
\* them sends the base information.
EnterGame(g) ==
    /\ stage[g] = "creating"
    /\ stage' = [stage EXCEPT ![g] = "playing"]
    /\ up' = [up EXCEPT ![g] = @ \o <<"BASEINFO", "BASEINFO", "LOADED">>]
    /\ UNCHANGED <<list, down, session, named, overtake, updates>>

\* A packet that the server sends on to everybody, such as ID_PLAYER_CELL_CHANGE,
\* or the base information again after a second round of processCharGen.
SendUpdate(g) ==
    /\ stage[g] = "playing"
    /\ updates[g] < MaxUpdates
    /\ updates' = [updates EXCEPT ![g] = @ + 1]
    /\ \E type \in {"UPDATE", "BASEINFO"} : up' = [up EXCEPT ![g] = Append(@, type)]
    /\ UNCHANGED <<stage, list, down, session, named, overtake>>

\* The client ends or is lost, with any of the latest packets it has sent.
Quit(g) ==
    /\ stage[g] \in {"joining", "creating", "playing"}
    /\ stage' = [stage EXCEPT ![g] = "gone"]
    /\ \E n \in 0 .. Len(up[g]) : up' = [up EXCEPT ![g] = SubSeq(@, 1, n) \o <<"END">>]
    /\ down' = [down EXCEPT ![g] = <<>>]
    /\ list' = [list EXCEPT ![g] = [h \in Players |-> "absent"]]
    /\ UNCHANGED <<session, named, overtake, updates>>

\* What PlayerProcessor::Process and the processor make of the entry of the
\* player that the packet is about.
Entered(entry, packet) ==
    CASE packet.type = "BASEINFO" -> IF packet.full THEN "named" ELSE "blank"
      [] packet.type = "DISCONNECTED" /\ entry \in {"blank", "named"} -> "absent"
      [] OTHER -> IF entry = "absent" THEN "null" ELSE entry

Receive(c, i) ==
    LET packet == down[c][i]
        about == packet.about
    IN  /\ MayCome([j \in DOMAIN down[c] |-> down[c][j].type], i)
        /\ IF packet.type = "DISCONNECTED" /\ about = c
           THEN \* requestQuit.
                /\ stage' = [stage EXCEPT ![c] = "gone"]
                /\ up' = [up EXCEPT ![c] = <<"END">>]
                /\ down' = [down EXCEPT ![c] = <<>>]
                /\ list' = [list EXCEPT ![c] = [h \in Players |-> "absent"]]
           ELSE /\ down' = [down EXCEPT ![c] = DropAt(@, i)]
                /\ stage' = IF packet.type = "PREINIT" THEN [stage EXCEPT ![c] = "creating"] ELSE stage
                /\ up' = IF packet.type = "REQUEST" THEN [up EXCEPT ![c] = Append(@, "BASEINFO")] ELSE up
                /\ list' = IF stage[c] # "joining" /\ about # c
                           THEN [list EXCEPT ![c][about] = Entered(@, packet)]
                           ELSE list
        /\ UNCHANGED <<session, named, overtake, updates>>

-----------------------------------------------------------------------------
(* The server. *)

\* processPlayerPacket, ID_PLAYER_BASEINFO.
BaseInfo(g) ==
    /\ named' = [named EXCEPT ![g] = TRUE]
    /\ down' = Sent(Others(g), Packet("BASEINFO", g, TRUE))
    /\ UNCHANGED session

\* MUTANT of NewPlayer: the information of everybody with a session is sent.
NewPlayerAnybody(g) ==
    LET others == Others(g)
    IN  \E infos \in [1 .. Cardinality(others) -> [type : {"BASEINFO"}, about : others, full : BOOLEAN]] :
            /\ {infos[i].about : i \in DOMAIN infos} = others
            /\ \A i \in DOMAIN infos : infos[i].full = named[infos[i].about]
            /\ down' = Queued({g}, <<Packet("REQUEST", g, TRUE)>> \o infos)

\* MUTANT of NewPlayer: the base information of the newcomer is not requested.
NewPlayerUnasked(g) ==
    LET others == {h \in Others(g) : session[h] = "POSTLOADED"}
    IN  \E infos \in [1 .. Cardinality(others) -> [type : {"BASEINFO"}, about : others, full : BOOLEAN]] :
            /\ {infos[i].about : i \in DOMAIN infos} = others
            /\ \A i \in DOMAIN infos : infos[i].full = named[infos[i].about]
            /\ down' = Queued({g}, infos)

\* Networking::newPlayer: the newcomer is asked for its own base information,
\* and is sent that of the others in the game, in the order of a map keyed by guid.
NewPlayer(g) ==
    LET others == {h \in Others(g) : session[h] = "POSTLOADED"}
    IN  \E infos \in [1 .. Cardinality(others) -> [type : {"BASEINFO"}, about : others, full : BOOLEAN]] :
            /\ {infos[i].about : i \in DOMAIN infos} = others
            /\ \A i \in DOMAIN infos : infos[i].full = named[infos[i].about]
            /\ down' = Queued({g}, <<Packet("REQUEST", g, TRUE)>> \o infos)

\* MUTANT of Loaded: the load state stays LOADED.
LoadedOnly(g) ==
    /\ session' = [session EXCEPT ![g] = "LOADED"]
    /\ NewPlayer(g)
    /\ UNCHANGED named

\* processPlayerPacket, ID_LOADED.  A second one does not come from the client.
Loaded(g) ==
    /\ \/ /\ session' = [session EXCEPT ![g] = "POSTLOADED"]
          /\ NewPlayer(g)
       \/ \* kicked inside OnPlayerConnect
          /\ session' = [session EXCEPT ![g] = "kicked"]
          /\ down' = Sent({g}, Packet("DISCONNECTED", g, TRUE))
    /\ UNCHANGED named

\* The packet processors of ID_PLAYER_CELL_CHANGE, DEATH, SHAPESHIFT, ...
Update(g) ==
    /\ down' = IF session[g] = "POSTLOADED" THEN Sent(Others(g), Packet("UPDATE", g, TRUE)) ELSE down
    /\ UNCHANGED <<session, named>>

\* MUTANT of DisconnectPlayer: only those in the game are told.
DisconnectTellsFewer(g) ==
    /\ session' = [session EXCEPT ![g] = "left"]
    /\ named' = [named EXCEPT ![g] = FALSE]
    /\ down' = Sent({c \in Others(g) : session[c] = "POSTLOADED"}, Packet("DISCONNECTED", g, TRUE))

\* disconnectPlayer.
DisconnectPlayer(g) ==
    /\ session' = [session EXCEPT ![g] = "left"]
    /\ named' = [named EXCEPT ![g] = FALSE]
    /\ down' = Sent(Others(g), Packet("DISCONNECTED", g, TRUE))

\* A packet of g is handled.  Those of a session that is over are not.
Handle(g, i) ==
    LET type == up[g][i]
    IN  /\ MayCome(up[g], i)
        /\ up' = [up EXCEPT ![g] = DropAt(@, i)]
        /\ \/ ~InSession(g) /\ UNCHANGED <<session, named, down>>
           \/ InSession(g) /\ type = "BASEINFO" /\ BaseInfo(g)
           \/ InSession(g) /\ type = "LOADED" /\ Loaded(g)
           \/ InSession(g) /\ type = "UPDATE" /\ Update(g)
           \/ InSession(g) /\ type = "END" /\ DisconnectPlayer(g)
        /\ UNCHANGED <<stage, list, overtake, updates>>

-----------------------------------------------------------------------------

Init ==
    /\ stage = [g \in Players |-> "out"]
    /\ list = [c \in Players |-> [g \in Players |-> "absent"]]
    /\ up = [g \in Players |-> <<>>]
    /\ down = [c \in Players |-> <<>>]
    /\ session = [g \in Players |-> "none"]
    /\ named = [g \in Players |-> FALSE]
    /\ overtake \in BOOLEAN
    /\ updates = [g \in Players |-> 0]

Clients(g) == Join(g) \/ EnterGame(g) \/ SendUpdate(g) \/ Quit(g)

Deliver(g) ==
    \/ \E i \in DOMAIN down[g] : Receive(g, i)
    \/ \E i \in DOMAIN up[g] : Handle(g, i)

Next == \E g \in Players : Clients(g) \/ Deliver(g)

Spec == Init /\ [][Next]_vars

\* What is sent arrives, and is handled: both sides poll their queues for ever.
FairSpec == Spec /\ \A g \in Players : WF_vars(Deliver(g))

-----------------------------------------------------------------------------

TypeOK ==
    /\ stage \in [Players -> Stages]
    /\ list \in [Players -> [Players -> Entries]]
    /\ up \in [Players -> Seq(UpTypes)]
    /\ down \in [Players -> Seq(DownPackets)]
    /\ session \in [Players -> SessionStates]
    /\ named \in [Players -> BOOLEAN]
    /\ overtake \in BOOLEAN
    /\ updates \in [Players -> 0 .. MaxUpdates]

Quiet == \A g \in Players : up[g] = <<>> /\ down[g] = <<>>

\* Once everything sent has arrived, any two players in the game know each
\* other by name, whether or not packets overtake each other, in whatever order
\* they joined, created their characters and loaded, and whatever one was sent
\* before it could use it.
EveryoneKnown ==
    Quiet => \A c, g \in Players :
        c # g /\ session[c] = "POSTLOADED" /\ session[g] = "POSTLOADED" => list[c][g] = "named"

\* "If we are iterating over a player who has inputted their name, proceed"
\* (Networking.cpp:359): the information sent of a player has its name, as long
\* as ID_LOADED does not overtake the ID_PLAYER_BASEINFO before it.
InfosNamed == ~overtake => \A c \in Players : \A i \in DOMAIN down[c] : down[c][i].full

\* A player whose session has ended in a disconnection is forgotten by all in the
\* end, unless packets overtake each other: an overtaking disconnection would leave
\* it in a list for ever.
LeaversForgotten ==
    ~overtake => \A c, g \in Players : session[g] = "left" ~> list[c][g] \in {"absent", "null"}
=============================================================================
