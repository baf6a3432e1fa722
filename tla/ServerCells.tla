------------------------------ MODULE ServerCells ------------------------------
(****************************************************************************)
(* Which players have which cells loaded, as the server knows it:           *)
(* apps/openmw-mp/CellController.cpp and Cell.cpp, fed by the cell states   *)
(* that the clients' scenes store and send (apps/openmw/mwworld/scene.cpp,  *)
(* mwmp/LocalPlayer.cpp).  The relay of positions, attacks, actors and      *)
(* objects to "everybody who has the cell loaded" reads these tables.       *)
(*                                                                          *)
(* A Cell and a Player point at each other, and both are freed by hand.     *)
(* CellController::update and deletePlayer are loops over several cells;    *)
(* they are modelled one iteration at a time, with the server busy until    *)
(* the loop is over, so that the tables are seen between the iterations:   *)
(* there the scripts' OnCellLoad, OnCellUnload and OnCellDeletion look.     *)
(****************************************************************************)
EXTENDS Integers, Sequences, FiniteSets

CONSTANTS
    Players,     \* the clients
    Nobody,      \* the server is not busy with anybody's cells
    Cells,       \* the cells of the game data
    Exteriors,   \* those of them that are exterior cells
    GridAt,      \* GridAt[c]: mData.mX and mY, which interiors have as well
    NameOf,      \* NameOf[c]: mName, empty for much of the wilderness
    ViewSize,    \* cells a client has loaded at most (the active grid)
    MaxSent      \* bound of the model: cell state packets of a client in flight

ASSUME PlayersAssumption == Nobody \notin Players
ASSUME CellsAssumption   == Exteriors \subseteq Cells
ASSUME BoundsAssumption  == ViewSize \in Nat \ {0} /\ MaxSent \in Nat \ {0}

VARIABLES
    view,      \* client: Scene::mActiveCells
    target,    \* client: the cells the scene is to have active after its move
    moving,    \* client: the scene is within changeCellGrid or changeToInteriorCell
    online,    \* client: LocalPlayer::isLoggedIn
    pending,   \* client: LocalPlayer::cellStateChanges
    sent,      \* ID_PLAYER_CELL_STATE packets on their way, oldest first
    present,   \* server: the players with a session
    cells,     \* server: CellController::cells
    members,   \* server: Cell::players, none for a cell not in cells
    held,      \* server: Player::cells
    busy,      \* server: whose cells are being changed, and by which loop
    changes,   \* server: what update has still to apply of the packet
    emptied    \* server: toDelete

clientVars == <<view, target, moving, online, pending>>
serverVars == <<present, cells, members, held, busy, changes, emptied>>
vars == <<view, target, moving, online, pending, sent, present, cells, members, held, busy, changes, emptied>>

-----------------------------------------------------------------------------

Changes == [type : {"LOAD", "UNLOAD"}, cell : Cells]

Idle == [loop |-> "none", player |-> Nobody]

Loaded == {cells[i] : i \in DOMAIN cells}

-----------------------------------------------------------------------------
(* The client. *)

\* What the scene can have active: one interior, or part of the exterior.
Views == {{c} : c \in Cells \ Exteriors} \cup {V \in SUBSET Exteriors : V # {} /\ Cardinality(V) <= ViewSize}

\* LocalPlayer::storeCellState: a state stored before for the same cell is
\* dropped.  There is at most one.
Without(states, c) ==
    IF \E i \in DOMAIN states : states[i].cell = c
    THEN LET i == CHOOSE i \in DOMAIN states : states[i].cell = c
         IN  SubSeq(states, 1, i - 1) \o SubSeq(states, i + 1, Len(states))
    ELSE states

\* MUTANT of Stored: the state stored before stays.
StoredTwice(states, c, type) == Append(states, [type |-> type, cell |-> c])

Stored(states, c, type) == Append(Without(states, c), [type |-> type, cell |-> c])

\* Scene::changeCellGrid or changeToInteriorCell starts.
MoveTo(p, V) ==
    /\ p \in present
    /\ view[p] = target[p] /\ ~moving[p]
    /\ V # view[p]
    /\ target' = [target EXCEPT ![p] = V]
    /\ moving' = [moving EXCEPT ![p] = TRUE]
    /\ UNCHANGED <<view, online, pending, sent, serverVars>>

\* Scene::unloadCell, for the active cells the move leaves behind, in any order:
\* mActiveCells is ordered by address.
UnloadCell(p, c) ==
    /\ c \in view[p] \ target[p]
    /\ view' = [view EXCEPT ![p] = @ \ {c}]
    /\ pending' = [pending EXCEPT ![p] = Stored(@, c, "UNLOAD")]
    /\ UNCHANGED <<target, moving, online, sent, serverVars>>

\* Scene::loadCell, after the unloading.
LoadCell(p, c) ==
    /\ view[p] \subseteq target[p]
    /\ c \in target[p] \ view[p]
    /\ view' = [view EXCEPT ![p] = @ \cup {c}]
    /\ pending' = [pending EXCEPT ![p] = Stored(@, c, "LOAD")]
    /\ UNCHANGED <<target, moving, online, sent, serverVars>>

\* MUTANT of EndMove: the states are cleared whether or not they were sent.
EndMoveForgets(p) ==
    /\ moving[p] /\ view[p] = target[p]
    /\ Len(sent[p]) < MaxSent
    /\ sent' = IF online[p] THEN [sent EXCEPT ![p] = Append(@, pending[p])] ELSE sent
    /\ pending' = [pending EXCEPT ![p] = <<>>]
    /\ moving' = [moving EXCEPT ![p] = FALSE]
    /\ UNCHANGED <<view, target, online, serverVars>>

\* Their last lines: the stored states are sent, unless the player is not
\* logged in yet; then they stay stored.
EndMove(p) ==
    /\ moving[p] /\ view[p] = target[p]
    /\ IF online[p]
       THEN /\ Len(sent[p]) < MaxSent
            /\ sent' = [sent EXCEPT ![p] = Append(@, pending[p])]
            /\ pending' = [pending EXCEPT ![p] = <<>>]
       ELSE UNCHANGED <<sent, pending>>
    /\ moving' = [moving EXCEPT ![p] = FALSE]
    /\ UNCHANGED <<view, target, online, serverVars>>

\* The player has finished the character generation the server asked for.
LogIn(p) ==
    /\ p \in present /\ ~online[p] /\ ~moving[p]
    /\ online' = [online EXCEPT ![p] = TRUE]
    /\ UNCHANGED <<view, target, moving, pending, sent, serverVars>>

-----------------------------------------------------------------------------
(* The server's tables. *)

\* The comparison of addCell, and those of getCellByXY and getCellByName as
\* update chooses between them.
Adds(c, x) == IF c \in Exteriors /\ x \in Exteriors THEN GridAt[x] = GridAt[c] ELSE NameOf[x] = NameOf[c]
Finds(c, x) == IF c \in Exteriors THEN GridAt[x] = GridAt[c] ELSE NameOf[x] = NameOf[c]

\* find_if: the first cell of the deque that compares equal.
FirstOf(I) == CHOOSE i \in I : \A j \in I : i <= j
AddMatches(c) == {i \in DOMAIN cells : Adds(c, cells[i])}
FindMatches(c) == {i \in DOMAIN cells : Finds(c, cells[i])}

\* MUTANT of AddPlayer: the cell gets the player, the player does not get the cell.
AddPlayerOneWay(p, c) ==
    /\ members' = [members EXCEPT ![c] = @ \cup {p}]
    /\ UNCHANGED held

\* Cell::addPlayer.  It calls the scripts' OnCellLoad between its two writes: there
\* alone the player has the cell and the cell has not got the player yet.
AddPlayer(p, c) ==
    IF p \in members[c]
    THEN UNCHANGED <<members, held>>
    ELSE /\ held' = [held EXCEPT ![p] = @ \cup {c}]
         /\ members' = [members EXCEPT ![c] = @ \cup {p}]

\* MUTANT of RemovePlayer: called with cleanPlayer = false.
RemovePlayerOneWay(p, c) ==
    /\ members' = [members EXCEPT ![c] = @ \ {p}]
    /\ emptied' = IF members'[c] = {} THEN Append(emptied, c) ELSE emptied
    /\ UNCHANGED held

\* Cell::removePlayer, and the test that follows each of its calls.
RemovePlayer(p, c) ==
    /\ IF p \in members[c]
       THEN /\ held' = [held EXCEPT ![p] = @ \ {c}]
            /\ members' = [members EXCEPT ![c] = @ \ {p}]
       ELSE UNCHANGED <<members, held>>
    /\ emptied' = IF members'[c] = {} THEN Append(emptied, c) ELSE emptied

-----------------------------------------------------------------------------
(* CellController::update. *)

\* A packet of cell states is read.
StartUpdate(p) ==
    /\ busy = Idle
    /\ p \in present /\ sent[p] # <<>>
    /\ busy' = [loop |-> "update", player |-> p]
    /\ changes' = Head(sent[p])
    /\ sent' = [sent EXCEPT ![p] = Tail(@)]
    /\ UNCHANGED <<clientVars, present, cells, members, held, emptied>>

TakeChange(type) ==
    /\ busy.loop = "update" /\ changes # <<>>
    /\ Head(changes).type = type
    /\ changes' = Tail(changes)

\* addCell and Cell::addPlayer.
ApplyLoad ==
    /\ TakeChange("LOAD")
    /\ LET c == Head(changes).cell
           found == AddMatches(c)
       IN  IF found = {}
           THEN cells' = Append(cells, c) /\ AddPlayer(busy.player, c)
           ELSE UNCHANGED cells /\ AddPlayer(busy.player, cells[FirstOf(found)])
    /\ UNCHANGED <<clientVars, sent, present, busy, emptied>>

\* getCellByName or getCellByXY, and Cell::removePlayer.
ApplyUnload ==
    /\ TakeChange("UNLOAD")
    /\ LET found == FindMatches(Head(changes).cell)
       IN  IF found = {}
           THEN UNCHANGED <<members, held, emptied>>
           ELSE RemovePlayer(busy.player, cells[FirstOf(found)])
    /\ UNCHANGED <<clientVars, sent, present, cells, busy>>

-----------------------------------------------------------------------------
(* CellController::deletePlayer, called when the session ends.              *)

\* The client is gone, with the packets of its that were not yet handled.
StartDelete(p) ==
    /\ busy = Idle
    /\ p \in present
    /\ busy' = [loop |-> "delete", player |-> p]
    /\ present' = present \ {p}
    /\ sent' = [sent EXCEPT ![p] = <<>>]
    /\ view' = [view EXCEPT ![p] = {}]
    /\ target' = [target EXCEPT ![p] = {}]
    /\ moving' = [moving EXCEPT ![p] = FALSE]
    /\ online' = [online EXCEPT ![p] = FALSE]
    /\ pending' = [pending EXCEPT ![p] = <<>>]
    /\ UNCHANGED <<cells, members, held, changes, emptied>>

\* MUTANT of LeaveCell: cells left empty by a departing player are not deleted.
LeaveCellStanding(c) ==
    /\ busy.loop = "delete"
    /\ c \in held[busy.player]
    /\ held' = [held EXCEPT ![busy.player] = @ \ {c}]
    /\ members' = [members EXCEPT ![c] = @ \ {busy.player}]
    /\ UNCHANGED <<clientVars, sent, present, cells, busy, changes, emptied>>

\* One iteration.  The code keeps the visited cells in Player::cells, which is
\* freed after the loop; here they leave held as they are visited.
LeaveCell(c) ==
    /\ busy.loop = "delete"
    /\ c \in held[busy.player]
    /\ held' = [held EXCEPT ![busy.player] = @ \ {c}]
    /\ members' = [members EXCEPT ![c] = @ \ {busy.player}]
    /\ emptied' = IF members'[c] = {} THEN Append(emptied, c) ELSE emptied
    /\ UNCHANGED <<clientVars, sent, present, cells, busy, changes>>

-----------------------------------------------------------------------------
(* The end of both loops. *)

LoopDone == IF busy.loop = "delete" THEN held[busy.player] = {} ELSE changes = <<>>

\* removeCell for the oldest entry of toDelete.  A cell is deleted with its list
\* of players, whatever is in it.  One that is listed twice is not found again.
RemoveCell ==
    /\ busy # Idle /\ LoopDone /\ emptied # <<>>
    /\ IF Head(emptied) \in Loaded
       THEN \E i \in DOMAIN cells :
                /\ cells[i] = Head(emptied)
                /\ cells' = SubSeq(cells, 1, i - 1) \o SubSeq(cells, i + 1, Len(cells))
       ELSE UNCHANGED cells
    /\ members' = [members EXCEPT ![Head(emptied)] = {}]
    /\ emptied' = Tail(emptied)
    /\ UNCHANGED <<clientVars, sent, present, held, busy, changes>>

\* MUTANT of Finish: the player of the finished loop is remembered.
FinishRemembers ==
    /\ busy # Idle /\ LoopDone /\ emptied = <<>>
    /\ busy' = [busy EXCEPT !.loop = "none"]
    /\ UNCHANGED <<clientVars, sent, present, cells, members, held, changes, emptied>>

Finish ==
    /\ busy # Idle /\ LoopDone /\ emptied = <<>>
    /\ busy' = Idle
    /\ UNCHANGED <<clientVars, sent, present, cells, members, held, changes, emptied>>

\* A session starts.
Join(p) ==
    /\ busy = Idle
    /\ p \notin present
    /\ present' = present \cup {p}
    /\ UNCHANGED <<clientVars, sent, cells, members, held, busy, changes, emptied>>

-----------------------------------------------------------------------------

Init ==
    /\ view = [p \in Players |-> {}]
    /\ target = [p \in Players |-> {}]
    /\ moving = [p \in Players |-> FALSE]
    /\ online = [p \in Players |-> FALSE]
    /\ pending = [p \in Players |-> <<>>]
    /\ sent = [p \in Players |-> <<>>]
    /\ present = {}
    /\ cells = <<>>
    /\ members = [c \in Cells |-> {}]
    /\ held = [p \in Players |-> {}]
    /\ busy = Idle
    /\ changes = <<>>
    /\ emptied = <<>>

Client(p) ==
    \/ LogIn(p)
    \/ \E V \in Views : MoveTo(p, V)
    \/ \E c \in Cells : UnloadCell(p, c) \/ LoadCell(p, c)
    \/ EndMove(p)

Server ==
    \/ \E p \in Players : Join(p) \/ StartUpdate(p) \/ StartDelete(p)
    \/ ApplyLoad
    \/ ApplyUnload
    \/ \E c \in Cells : LeaveCell(c)
    \/ RemoveCell
    \/ Finish

Next == Server \/ \E p \in Players : Client(p)

Spec == Init /\ [][Next]_vars

-----------------------------------------------------------------------------

TypeOK ==
    /\ view \in [Players -> SUBSET Cells]
    /\ target \in [Players -> SUBSET Cells]
    /\ moving \in [Players -> BOOLEAN]
    /\ online \in [Players -> BOOLEAN]
    /\ pending \in [Players -> Seq(Changes)]
    /\ sent \in [Players -> Seq(Seq(Changes))]
    /\ present \subseteq Players
    /\ cells \in Seq(Cells)
    /\ members \in [Cells -> SUBSET Players]
    /\ held \in [Players -> SUBSET Cells]
    /\ busy \in {Idle} \cup [loop : {"update", "delete"}, player : Players]
    /\ changes \in Seq(Changes)
    /\ emptied \in Seq(Cells)

\* The cells that the comparisons tell from all others.  An exterior cell with whose
\* coordinates an interior one is listed is not among them: getCellByXY does not ask
\* which of them is an exterior cell.
Apart ==
    {c \in Cells : \A x \in Cells : Adds(c, x) \/ Adds(x, c) \/ Finds(c, x) \/ Finds(x, c) => x = c}

\* A player points at exactly the cells that point at it, before and after every
\* iteration of the loops.  deletePlayer only visits the cells the player points at:
\* any other would keep a pointer to the freed Player.
PointersMutual == \A p \in Players, c \in Apart : c \in held[p] <=> p \in members[c]

\* No player points at a deleted cell, not even within update, which decides
\* what to delete before it has applied the rest of the packet.
NoDanglingCells == \A p \in Players : held[p] \cap Apart \subseteq Loaded

\* A cell on the list to be deleted is still there, is there once, and has no
\* player: nothing is deleted twice, and nothing in use is deleted.
DeletesEmptyCells ==
    \A i \in DOMAIN emptied : emptied[i] \in Apart =>
        /\ emptied[i] \in Loaded
        /\ members[emptied[i]] = {}
        /\ \A j \in DOMAIN emptied : emptied[i] = emptied[j] => i = j

\* "not deleting empty cells upon players disconnecting" crashed the server
\* once (tes3mp-changelog.md:95): between packets every cell has a player, and
\* it is one with a session.
CellsInUse ==
    busy = Idle => \A c \in Loaded \cap Apart : members[c] # {} /\ members[c] \subseteq present

\* A player whose packets have all been handled is in the list of exactly the
\* cells it has loaded, whatever the others did: what is sent to those who have
\* a cell loaded reaches them, and nobody else.
Settled(p) == online[p] /\ ~moving[p] /\ pending[p] = <<>> /\ sent[p] = <<>> /\ busy.player # p

MembersHaveCellLoaded == \A p \in Players : Settled(p) => \A c \in Apart : p \in members[c] <=> c \in view[p]
=============================================================================
