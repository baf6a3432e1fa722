----------------------------- MODULE ClientActors -----------------------------
(****************************************************************************)
(* The actors of one client: mwmp::CellController and mwmp::Cell of         *)
(* apps/openmw/mwmp, which keep a LocalActor for each actor that the client *)
(* simulates and a DedicatedActor for each that follows the packets of      *)
(* others, per cell, and two global records that tell the cell of each.     *)
(* The rest of the client asks the records, and takes the object from the   *)
(* tables with std::map::at, which throws when it is not there.             *)
(*                                                                          *)
(* One thread does a frame after the other: the packets, then updateDedicated *)
(* and the two loops of updateLocal, then the world moves actors and loads   *)
(* and unloads cells.                                                       *)
(* The packets are those CellAuthority lets through, in any order, and      *)
(* those that scripts send.  Every actor has an index and is enabled.       *)
(****************************************************************************)

CONSTANTS
    Cells,
    Actors,
    Movers,    \* bound of the model: the actors that change cells
    NoCell     \* what is not there

ASSUME MoversAssumption  == Movers \subseteq Actors
ASSUME NoCellAssumption  == NoCell \notin Cells

VARIABLES
    phase,             \* where in the frame the client is
    todo,              \* the cells that the first loop of updateLocal has still to visit
    place,             \* world: the CellStore that has the actor
    active,            \* world: the active cells
    known,             \* CellController::cellsInitialized
    mine,              \* those of them whose authorityGuid is this client
    eligible,          \* those of them with shouldInitializeActors
    locals,            \* Cell::localActors: the cell in the Ptr of each
    dedicated,         \* Cell::dedicatedActors: the cell member, and that in the Ptr
    localRecord,       \* CellController::localActorsToCells
    dedicatedRecord    \* CellController::dedicatedActorsToCells

cellVars == <<known, mine, eligible>>
localVars == <<locals, localRecord>>
dedicatedVars == <<dedicated, dedicatedRecord>>
vars == <<phase, todo, place, active, known, mine, eligible, locals, dedicated, localRecord, dedicatedRecord>>

-----------------------------------------------------------------------------

NoActor == [cell |-> NoCell, ptr |-> NoCell]

\* hasLocalAuthority: "isInitializedCell(cell) && isActiveWorldCell(cell)", and
\* Cell::hasLocalAuthority.
HasLocalAuthority(X) == X \in known \cap active \cap mine

IsLocal(X, a) == locals[X][a] # NoCell
IsDedicated(X, a) == dedicated[X][a] # NoActor
AnyDedicated(table, X) == \E a \in Actors : table[X][a] # NoActor

\* The four loops over the local actors of a cell.  Each gives the tables and
\* the records after it; some are called one after the other.

\* Cell::initializeLocalActors.
InitializeLocals(t, X) ==
    LET new == {a \in Actors : place[a] = X /\ t.of[X][a] = NoCell}
    IN  [of |-> [t.of EXCEPT ![X] = [a \in Actors |-> IF a \in new THEN X ELSE @[a]]],
         record |-> [a \in Actors |-> IF a \in new THEN X ELSE t.record[a]]]

\* MUTANT of UninitializeLocals: the records stay.
UninitializeLocalsOnly(t, X) == [t EXCEPT !.of[X] = [a \in Actors |-> NoCell]]

\* Cell::uninitializeLocalActors.
UninitializeLocals(t, X) ==
    [of |-> [t.of EXCEPT ![X] = [a \in Actors |-> NoCell]],
     record |-> [a \in Actors |-> IF t.of[X][a] # NoCell THEN NoCell ELSE t.record[a]]]

\* Cell::updateLocal: the actors that have moved to another cell follow there,
\* if it is under our authority, and are deleted otherwise.
UpdateLocals(t, X) ==
    LET gone == {a \in Actors : t.of[X][a] \notin {NoCell, X}}
        kept == {a \in gone : HasLocalAuthority(t.of[X][a])}
    IN  [of |-> [Y \in Cells |-> [a \in Actors |->
                    IF a \in gone /\ Y = X THEN NoCell
                    ELSE IF a \in kept /\ Y = t.of[X][a] THEN Y ELSE t.of[Y][a]]],
         record |-> [a \in Actors |->
                    IF a \in kept THEN t.of[X][a] ELSE IF a \in gone THEN NoCell ELSE t.record[a]]]

Locals == [of |-> locals, record |-> localRecord]
BecomeLocals(t) == locals' = t.of /\ localRecord' = t.record

\* Cell::initializeDedicatedActors, of the actors a packet is about.
InitializeDedicated(t, X, S) ==
    LET new == {a \in S : place[a] = X /\ t.of[X][a] = NoActor}
    IN  [of |-> [t.of EXCEPT ![X] = [a \in Actors |-> IF a \in new THEN [cell |-> X, ptr |-> X] ELSE @[a]]],
         record |-> [a \in Actors |-> IF a \in new THEN X ELSE t.record[a]]]

\* Cell::uninitializeDedicatedActors, of the given actors that are there.
UninitializeDedicated(t, X, S) ==
    [of |-> [t.of EXCEPT ![X] = [a \in Actors |-> IF a \in S THEN NoActor ELSE @[a]]],
     record |-> [a \in Actors |-> IF a \in S /\ t.of[X][a] # NoActor THEN NoCell ELSE t.record[a]]]

Dedicated == [of |-> dedicated, record |-> dedicatedRecord]
BecomeDedicated(t) == dedicated' = t.of /\ dedicatedRecord' = t.record

\* CellStore::updateMergedRefs, of both cells of a move: those under our
\* authority are to be looked at again.
Merged(S) == eligible \cup {X \in S : HasLocalAuthority(X)}

-----------------------------------------------------------------------------
(* Packets. *)

\* ProcessorActorAuthority.
ReceiveAuthority(X, own) ==
    /\ phase = "packets" /\ X \in active
    /\ known' = known \cup {X}
    /\ IF own
       THEN /\ mine' = mine \cup {X}
            /\ BecomeDedicated(UninitializeDedicated(Dedicated, X, Actors))
            /\ BecomeLocals(UpdateLocals(InitializeLocals(Locals, X), X))
       ELSE /\ mine' = mine \ {X}
            /\ BecomeLocals(UninitializeLocals(Locals, X))
            /\ UNCHANGED dedicatedVars
    /\ UNCHANGED <<phase, todo, place, active, eligible>>

\* CellController::readPositions, readStatsDynamic and readDeath, of the actors S.
\* readAnimFlags, readAnimPlay, readAttack and readCast initialize the cell and no actor.
ReceiveMovement(X, S) ==
    /\ phase = "packets"
    /\ known' = known \cup {X}
    /\ BecomeDedicated(InitializeDedicated(Dedicated, X, S))
    /\ UNCHANGED <<phase, todo, place, active, mine, eligible, localVars>>

\* readEquipment, readSpeech, readSpellsActive and readAi: under our authority the
\* actors of the packet are uninitialized again, each after its record, until one is
\* not there: dedicatedActors.at throws, and the frame ends.
ReceiveState(X, S) ==
    /\ phase = "packets"
    /\ known' = known \cup {X}
    /\ LET t == InitializeDedicated(Dedicated, X, S)
           present == {a \in S : t.of[X][a] # NoActor}
       IN  IF X \notin mine \/ ~AnyDedicated(t.of, X)
           THEN BecomeDedicated(t)
           ELSE IF present = S
           THEN BecomeDedicated(UninitializeDedicated(t, X, S))
           ELSE \E done \in SUBSET present, missing \in S \ present :
                    LET u == UninitializeDedicated(t, X, done)
                    IN  BecomeDedicated([u EXCEPT !.record[missing] = NoCell])
    /\ UNCHANGED <<phase, todo, place, active, mine, eligible, localVars>>

\* readCellChange, and World::moveObject within it.  e is the DedicatedActor.
\* moveObject denies the move if the record leads to another DedicatedActor, of
\* another cell, and else throws if the Ptr is not of the cell that has the actor.
ReceiveCellChange(X, a, Y) ==
    LET t == InitializeDedicated(Dedicated, X, {a})
        e == t.of[X][a]
        told == [t.of EXCEPT ![X][a].cell = Y]
        denied == t.record[a] # NoCell /\ told[t.record[a]][a].cell # Y
        lost == e.ptr # Y /\ ~denied /\ e.ptr # place[a]
        moves == e.ptr # Y /\ ~denied
        there == [cell |-> Y, ptr |-> IF moves THEN Y ELSE e.ptr]
        \* moveObject sets the Ptr of what the records lead to.
        moved == IF ~moves THEN Locals.of
                 ELSE IF localRecord[a] # NoCell THEN [locals EXCEPT ![localRecord[a]][a] = Y] ELSE locals
        others == IF moves /\ localRecord[a] = NoCell /\ t.record[a] # NoCell
                  THEN [told EXCEPT ![t.record[a]][a].ptr = Y] ELSE told
    IN  /\ phase = "packets"
        /\ \/ /\ e = NoActor \/ X = Y
              /\ known' = known \cup {X}
              /\ BecomeDedicated(t)
              /\ UNCHANGED <<place, eligible, localVars>>
           \/ /\ e # NoActor /\ X # Y /\ lost
              /\ known' = known \cup {X}
              /\ BecomeDedicated([t EXCEPT !.of = told])
              /\ UNCHANGED <<place, eligible, localVars>>
           \/ /\ e # NoActor /\ X # Y /\ ~lost
              /\ place' = IF moves THEN [place EXCEPT ![a] = Y] ELSE place
              /\ eligible' = IF moves THEN Merged({e.ptr, Y}) ELSE eligible
              /\ IF Y \in active /\ ~HasLocalAuthority(Y)
                 THEN /\ known' = known \cup {X, Y}
                      /\ dedicated' = [others EXCEPT ![X][a] = NoActor, ![Y][a] = there]
                      /\ dedicatedRecord' = [t.record EXCEPT ![a] = Y]
                      /\ locals' = moved /\ UNCHANGED localRecord
                 ELSE /\ known' = known \cup {X}
                      /\ dedicated' = [others EXCEPT ![X][a] = NoActor]
                      /\ dedicatedRecord' = [t.record EXCEPT ![a] = NoCell]
                      /\ IF HasLocalAuthority(Y)
                         THEN /\ locals' = [moved EXCEPT ![Y][a] = there.ptr]
                              /\ localRecord' = [localRecord EXCEPT ![a] = Y]
                         ELSE locals' = moved /\ UNCHANGED localRecord
        /\ UNCHANGED <<phase, todo, active, mine>>

\* ObjectList: an actor under our authority is enabled.  One that is there
\* already is replaced.
EnableActor(a) ==
    /\ phase = "packets" /\ HasLocalAuthority(place[a])
    /\ locals' = [locals EXCEPT ![place[a]][a] = place[a]]
    /\ localRecord' = [localRecord EXCEPT ![a] = place[a]]
    /\ UNCHANGED <<phase, todo, place, active, cellVars, dedicatedVars>>

\* DedicatedPlayer::setCell: another player enters a cell under our authority.
UpdateForNewcomer(X) ==
    /\ phase = "packets" /\ HasLocalAuthority(X)
    /\ BecomeLocals(UpdateLocals(Locals, X))
    /\ UNCHANGED <<phase, todo, place, active, cellVars, dedicatedVars>>

\* CellController::uninitializeCells, when the server resets cells; the player
\* waits in a placeholder cell meanwhile.
UninitializeCells ==
    /\ phase = "packets"
    /\ active' = {}
    /\ known' = {} /\ mine' = {} /\ eligible' = {}
    /\ locals' = [X \in Cells |-> [a \in Actors |-> NoCell]]
    /\ dedicated' = [X \in Cells |-> [a \in Actors |-> NoActor]]
    /\ localRecord' = [a \in Actors |-> IF \E X \in Cells : IsLocal(X, a) THEN NoCell ELSE localRecord[a]]
    /\ dedicatedRecord' = [a \in Actors |-> IF \E X \in Cells : IsDedicated(X, a) THEN NoCell ELSE dedicatedRecord[a]]
    /\ UNCHANGED <<phase, todo, place>>

-----------------------------------------------------------------------------
(* The frame after the packets. *)

\* MUTANT of Released: those that have no LocalActors.
ReleasedEmpty == {X \in mine : \A a \in Actors : ~IsLocal(X, a)}

\* The cells whose DedicatedActors are deleted: "Are we the authority over this
\* cell? If so, uninitialize DedicatedActors after the above update".
Released == mine

\* Cell::updateDedicated of each cell.
UpdateDedicated ==
    /\ phase = "packets"
    /\ phase' = "cells" /\ todo' = known
    /\ dedicated' = [X \in Cells |-> IF X \in Released THEN [a \in Actors |-> NoActor] ELSE dedicated[X]]
    /\ dedicatedRecord' =
           [a \in Actors |-> IF \E X \in Released : IsDedicated(X, a) THEN NoCell ELSE dedicatedRecord[a]]
    /\ UNCHANGED <<place, active, cellVars, localVars>>

\* MUTANT of DropCell: whether we are the authority of a cell is kept elsewhere.
DropCellOnly(X) ==
    /\ phase = "cells" /\ X \in todo \ active
    /\ todo' = todo \ {X}
    /\ BecomeLocals(UninitializeLocals(Locals, X))
    /\ BecomeDedicated(UninitializeDedicated(Dedicated, X, Actors))
    /\ known' = known \ {X} /\ eligible' = eligible \ {X}
    /\ UNCHANGED <<phase, place, active, mine>>

\* CellController::updateLocal, first loop: a cell that is inactive is deleted.
DropCell(X) ==
    /\ phase = "cells" /\ X \in todo \ active
    /\ todo' = todo \ {X}
    /\ BecomeLocals(UninitializeLocals(Locals, X))
    /\ BecomeDedicated(UninitializeDedicated(Dedicated, X, Actors))
    /\ known' = known \ {X} /\ mine' = mine \ {X} /\ eligible' = eligible \ {X}
    /\ UNCHANGED <<phase, place, active>>

\* The others are updated, if the timer of the cell lets them: it runs for 25 ms,
\* which may be more than a frame takes.
UpdateCell(X) ==
    /\ phase = "cells" /\ X \in todo \cap active
    /\ todo' = todo \ {X}
    /\ BecomeLocals(UpdateLocals(Locals, X)) \/ UNCHANGED localVars
    /\ UNCHANGED <<phase, place, active, cellVars, dedicatedVars>>

\* The second loop: initializeLocalActors of each cell with shouldInitializeActors.
UpdateEligible ==
    /\ phase = "cells" /\ todo = {}
    /\ phase' = "world"
    /\ LET new == {a \in Actors : place[a] \in eligible /\ ~IsLocal(place[a], a)}
       IN  /\ locals' = [X \in Cells |-> [a \in Actors |-> IF a \in new /\ place[a] = X THEN X ELSE locals[X][a]]]
           /\ localRecord' = [a \in Actors |-> IF a \in new THEN place[a] ELSE localRecord[a]]
    /\ eligible' = {}
    /\ UNCHANGED <<todo, place, active, known, mine, dedicatedVars>>

-----------------------------------------------------------------------------
(* The world. *)

\* World::moveObject, of an actor by itself, because a packet or its DedicatedActor
\* sets its position, or of one that follows the player through a door: ActionTeleport
\* first sets the cell of its DedicatedActor.
MoveActor(a, Y, follows) ==
    LET X == place[a]
        r == dedicatedRecord[a]
        told == IF follows /\ r # NoCell THEN [dedicated EXCEPT ![r][a].cell = Y] ELSE dedicated
    IN  /\ phase \in {"packets", "world"} /\ Y # X
        /\ follows => X \in active
        /\ r # NoCell => told[r][a].cell = Y
        /\ place' = [place EXCEPT ![a] = Y]
        /\ eligible' = Merged({X, Y})
        /\ IF localRecord[a] # NoCell
           THEN /\ locals' = [locals EXCEPT ![localRecord[a]][a] = Y]
                /\ dedicated' = told
           ELSE /\ dedicated' = IF r # NoCell THEN [told EXCEPT ![r][a].ptr = Y] ELSE told
                /\ UNCHANGED locals
        /\ UNCHANGED <<phase, todo, active, known, mine, localRecord, dedicatedRecord>>

\* Something is placed in a cell, or taken from it.
MergeRefs(X) ==
    /\ phase \in {"packets", "world"}
    /\ eligible' = Merged({X})
    /\ UNCHANGED <<phase, todo, place, active, known, mine, localVars, dedicatedVars>>

\* The player moves, by itself or because a packet says so: then it may be back
\* before a frame has dropped the cells it had left.
ChangeActive ==
    /\ phase \in {"packets", "world"}
    /\ active' \in SUBSET Cells
    /\ UNCHANGED <<phase, todo, place, cellVars, localVars, dedicatedVars>>

NextFrame ==
    /\ phase = "world"
    /\ phase' = "packets"
    /\ UNCHANGED <<todo, place, active, cellVars, localVars, dedicatedVars>>

-----------------------------------------------------------------------------

Init ==
    /\ phase = "packets" /\ todo = {}
    /\ place \in [Actors -> Cells]
    /\ active = {}
    /\ known = {} /\ mine = {} /\ eligible = {}
    /\ locals = [X \in Cells |-> [a \in Actors |-> NoCell]]
    /\ dedicated = [X \in Cells |-> [a \in Actors |-> NoActor]]
    /\ localRecord = [a \in Actors |-> NoCell]
    /\ dedicatedRecord = [a \in Actors |-> NoCell]

Packets ==
    \/ \E X \in Cells, own \in BOOLEAN : ReceiveAuthority(X, own)
    \/ \E X \in Cells, S \in SUBSET Actors : ReceiveMovement(X, S)
    \/ \E X \in Cells, S \in SUBSET Actors \ {{}} : ReceiveState(X, S)
    \/ \E X, Y \in Cells, a \in Movers : ReceiveCellChange(X, a, Y)
    \/ \E a \in Actors : EnableActor(a)
    \/ \E X \in Cells : UpdateForNewcomer(X)
    \/ UninitializeCells

Update ==
    \/ UpdateDedicated
    \/ \E X \in Cells : DropCell(X) \/ UpdateCell(X)
    \/ UpdateEligible

World ==
    \/ \E a \in Movers, Y \in Cells, follows \in BOOLEAN : MoveActor(a, Y, follows)
    \/ \E X \in Cells : MergeRefs(X)
    \/ ChangeActive
    \/ NextFrame

Next == Packets \/ Update \/ World

Spec == Init /\ [][Next]_vars

-----------------------------------------------------------------------------

Places == Cells \cup {NoCell}

TypeOK ==
    /\ phase \in {"packets", "cells", "world"}
    /\ todo \subseteq known
    /\ place \in [Actors -> Cells]
    /\ active \subseteq Cells /\ known \subseteq Cells
    /\ mine \subseteq known /\ eligible \subseteq known
    /\ locals \in [Cells -> [Actors -> Places]]
    /\ dedicated \in [Cells -> [Actors -> [cell : Places, ptr : Places]]]
    /\ localRecord \in [Actors -> Places]
    /\ dedicatedRecord \in [Actors -> Places]

\* A record leads to an initialized cell with an object for the actor: isLocalActor
\* and isDedicatedActor ask the record, and what follows takes the object with at.
RecordsLead ==
    \A a \in Actors :
        /\ localRecord[a] # NoCell => localRecord[a] \in known /\ IsLocal(localRecord[a], a)
        /\ dedicatedRecord[a] # NoCell => dedicatedRecord[a] \in known /\ IsDedicated(dedicatedRecord[a], a)

\* While the world is updated no actor of a cell under our authority follows the
\* packets of another, in whatever order packets and authority came.
OwnActorsFree == phase = "world" => \A X \in mine, a \in Actors : ~IsDedicated(X, a)

\* "initializing LocalActors in a Cell before they are deleted from their previous
\* one can make their records stay deleted" (CellController.cpp:59).  An actor
\* without record is no LocalActor for the rest of the client.
LocalsRecorded == phase = "world" => \A X \in Cells, a \in Actors : IsLocal(X, a) => localRecord[a] # NoCell
=============================================================================
