---------------------------- MODULE ServerListing ----------------------------
(****************************************************************************)
(* How a server gets into the list of the server browser.  A thread of      *)
(* MasterClient (apps/openmw-mp) wakes up every `timeout` milliseconds and  *)
(* sends the master server (apps/master) the data of the server, or only    *)
(* that it is still there.  The main thread changes the data meanwhile, and *)
(* receives the master's answers.  The master forgets a server it has not   *)
(* heard of for a minute, and closes the connection once its answer is      *)
(* acknowledged; the next round connects again.                             *)
(*                                                                          *)
(* The thread and the main thread share `updated` and the function of the   *)
(* packet object without a lock.  Both also iterate over Players::players;  *)
(* here each iteration sees the players of one moment.                      *)
(****************************************************************************)
EXTENDS Integers, Sequences, FiniteSets

CONSTANTS
    Names,        \* the players that come and go
    Modes,        \* game modes, for all that setters of the main thread change
    FirstMode,
    NotListed,    \* no entry in the master's servers
    FirstRate,    \* timeout, in units of step_rate
    Slow,         \* with this timeout and above the master may forget the server in between
    MaxMishaps    \* bound of the model: what goes wrong in all

ASSUME NamesAssumption  == IsFiniteSet(Names)
ASSUME ModeAssumption   == FirstMode \in Modes
ASSUME RateAssumption   == FirstRate \in Nat /\ Slow \in Nat /\ 2 <= Slow /\ Slow <= FirstRate
ASSUME MishapAssumption == MaxMishaps \in Nat

VARIABLES
    pc,           \* where MasterClient::Thread is
    whole,        \* its pIt != players->end(), until that is used
    job,          \* what it calls Send with, until that is used
    players,      \* Players::players
    named,        \* those whose base information has come
    data,         \* MasterClient::queryData
    updated,
    rate,         \* timeout
    func,         \* of the one PacketMasterAnnounce, pma
    main,         \* whether the main thread is between reading an answer and acting on it
    connected,    \* the connection with the master
    requests,     \* packets on their way to the master
    answers,      \* and back
    acks,         \* receipts of answers on their way to the master
    entry,        \* master: what servers has for this server
    mishaps       \* how often something went wrong

threadVars == <<pc, whole, job>>
dataVars == <<players, named, data>>
netVars == <<connected, requests, answers, acks>>
vars == <<threadVars, dataVars, updated, rate, func, main, netVars, entry, mishaps>>

-----------------------------------------------------------------------------

Data == [mode : Modes, count : 0 .. Cardinality(Names), list : SUBSET Names]
Funcs == {"ANNOUNCE", "KEEP", "DELETE"}

Mishap == mishaps < MaxMishaps /\ mishaps' = mishaps + 1

\* The last round is over, with its answer and the receipt of that.
Quiet == requests = <<>> /\ answers = <<>> /\ acks = 0 /\ main = "idle"

Sending == pc \in {"connect", "send", "clear"}

-----------------------------------------------------------------------------
(* MasterClient::Thread. *)

\* RakSleep(timeout) is over, and SetPlayers.  That is before the last round is
\* over only when the network is slower than 8 seconds, the least timeout.
Wake ==
    /\ pc = "asleep"
    /\ pc' = "compare"
    /\ IF Quiet THEN UNCHANGED mishaps ELSE Mishap
    /\ data' = [data EXCEPT !.count = Cardinality(players)]
    /\ updated' = (updated \/ data.count # Cardinality(players))
    /\ UNCHANGED <<whole, job, players, named, rate, func, main, netVars, entry>>

\* The names are those of the list.  One without a name is never in it.
SameNames == data.list = players /\ named = players

Compare ==
    /\ pc = "compare"
    /\ pc' = "build"
    /\ IF SameNames
       THEN whole' = FALSE /\ UNCHANGED <<data, updated>>
       ELSE /\ whole' = (players # {})
            /\ data' = [data EXCEPT !.list = {}]
            /\ updated' = TRUE
    /\ UNCHANGED <<job, players, named, rate, func, main, netVars, entry, mishaps>>

Build ==
    /\ pc = "build"
    /\ pc' = "connect"
    /\ updated' = FALSE
    /\ IF updated
       THEN /\ job' = "ANNOUNCE"
            /\ data' = IF whole THEN [data EXCEPT !.list = @ \cup named] ELSE data
       ELSE job' = "KEEP" /\ UNCHANGED data
    /\ whole' = FALSE
    /\ UNCHANGED <<players, named, rate, func, main, netVars, entry, mishaps>>

\* MasterClient::Send: there is a connection at last, and SetFunc.
Connect ==
    /\ pc = "connect"
    /\ pc' = "send"
    /\ connected' = TRUE
    /\ func' = job
    /\ job' = "KEEP"
    /\ UNCHANGED <<whole, dataVars, updated, rate, main, requests, answers, acks, entry, mishaps>>

\* "Cannot connect to master server".
CannotConnect ==
    /\ pc = "connect" /\ ~connected
    /\ pc' = "asleep"
    /\ job' = "KEEP"
    /\ Mishap
    /\ UNCHANGED <<whole, dataVars, updated, rate, func, main, netVars, entry>>

\* PacketMasterAnnounce::Packet: the data are there only with ANNOUNCE.
Packet == [func |-> func, data |-> IF func = "ANNOUNCE" THEN data ELSE NotListed]

Send ==
    /\ pc = "send"
    /\ pc' = "clear"
    /\ requests' = IF connected THEN Append(requests, Packet) ELSE requests
    /\ UNCHANGED <<whole, job, dataVars, updated, rate, func, main, connected, answers, acks, entry, mishaps>>

Clear ==
    /\ pc = "clear"
    /\ pc' = "asleep"
    /\ updated' = FALSE
    /\ UNCHANGED <<whole, job, dataVars, rate, func, main, netVars, entry, mishaps>>

-----------------------------------------------------------------------------
(* The main thread. *)

\* SetModname, and the other setters.  It goes wrong while the thread is in Send:
\* Clear forgets it.
SetMode(mode) ==
    /\ mode # data.mode
    /\ IF Sending THEN Mishap ELSE UNCHANGED mishaps
    /\ data' = [data EXCEPT !.mode = mode]
    /\ updated' = TRUE
    /\ UNCHANGED <<threadVars, players, named, rate, func, main, netVars, entry>>

\* Players::newPlayer, the base information, and Players::deletePlayer.
ChangePlayers ==
    /\ \E n \in Names :
        \/ n \notin players /\ players' = players \cup {n} /\ UNCHANGED named
        \/ n \in players \ named /\ named' = named \cup {n} /\ UNCHANGED players
        \/ n \in players /\ players' = players \ {n} /\ named' = named \ {n}
    /\ UNCHANGED <<threadVars, data, updated, rate, func, main, netVars, entry, mishaps>>

\* Process: pma.Read puts the answer into the packet object of the thread.
ReadAnswer ==
    /\ main = "idle" /\ answers # <<>>
    /\ main' = "read"
    /\ func' = Head(answers)
    /\ answers' = Tail(answers)
    /\ acks' = acks + 1
    /\ UNCHANGED <<threadVars, dataVars, updated, rate, connected, requests, entry, mishaps>>

\* MUTANT of ActOnAnswer: the rate goes down to 0.
ActWithoutFloor ==
    /\ main = "read"
    /\ main' = "idle"
    /\ IF func = "DELETE" /\ Sending THEN Mishap ELSE UNCHANGED mishaps
    /\ updated' = (updated \/ func = "DELETE")
    /\ rate' = IF func = "DELETE" THEN rate - 1 ELSE rate
    /\ UNCHANGED <<threadVars, dataVars, func, netVars, entry>>

\* MUTANT of ActOnAnswer: the rate stays.
ActKeepsRate ==
    /\ main = "read"
    /\ main' = "idle"
    /\ IF func = "DELETE" /\ Sending THEN Mishap ELSE UNCHANGED mishaps
    /\ updated' = (updated \/ func = "DELETE")
    /\ UNCHANGED <<threadVars, dataVars, rate, func, netVars, entry>>

\* MUTANT of ActOnAnswer: nothing is announced again.
ActLowersOnly ==
    /\ main = "read"
    /\ main' = "idle"
    /\ IF func = "DELETE" /\ Sending THEN Mishap ELSE UNCHANGED mishaps
    /\ rate' = IF func = "DELETE" /\ rate >= 2 THEN rate - 1 ELSE rate
    /\ UNCHANGED <<threadVars, dataVars, updated, func, netVars, entry>>

\* "Update rate is too low, and the master server has deleted information about
\* the server. Trying low rate..."  That goes wrong too while the thread is in Send,
\* for which the answer is late, or overtakes the line after the one that sent.
ActOnAnswer ==
    /\ main = "read"
    /\ main' = "idle"
    /\ IF func = "DELETE" /\ Sending THEN Mishap ELSE UNCHANGED mishaps
    /\ IF func = "DELETE"
       THEN updated' = TRUE /\ rate' = IF rate >= 2 THEN rate - 1 ELSE rate
       ELSE UNCHANGED <<updated, rate>>
    /\ UNCHANGED <<threadVars, dataVars, func, netVars, entry>>

-----------------------------------------------------------------------------
(* MasterServer::Thread. *)

Answer(f) == answers' = IF connected THEN Append(answers, f) ELSE answers

\* MUTANT of Handle: a known server is only kept alive.
HandleKeeps ==
    /\ requests # <<>>
    /\ requests' = Tail(requests)
    /\ LET f == Head(requests).func
           keeps == f = "ANNOUNCE" \/ (f = "KEEP" /\ entry # NotListed)
       IN  /\ entry' = IF f = "ANNOUNCE" /\ entry = NotListed THEN Head(requests).data
                       ELSE IF keeps THEN entry ELSE NotListed
           /\ Answer(IF keeps THEN "KEEP" ELSE "DELETE")
    /\ UNCHANGED <<threadVars, dataVars, updated, rate, func, main, connected, acks, mishaps>>

\* ID_MASTER_ANNOUNCE.  DELETE comes from a server that has read an answer between
\* SetFunc and Send.
Handle ==
    /\ requests # <<>>
    /\ requests' = Tail(requests)
    /\ LET f == Head(requests).func
           keeps == f = "ANNOUNCE" \/ (f = "KEEP" /\ entry # NotListed)
       IN  /\ entry' = IF f = "ANNOUNCE" THEN Head(requests).data ELSE IF keeps THEN entry ELSE NotListed
           /\ Answer(IF keeps THEN "KEEP" ELSE "DELETE")
    /\ UNCHANGED <<threadVars, dataVars, updated, rate, func, main, connected, acks, mishaps>>

\* "lastUpdate + 60s <= now": with a slow server in between two rounds; with
\* others when the master restarts, or connections take long.
Expire ==
    /\ entry # NotListed
    /\ IF rate >= Slow THEN UNCHANGED mishaps ELSE Mishap
    /\ entry' = NotListed
    /\ UNCHANGED <<threadVars, dataVars, updated, rate, func, main, netVars>>

\* ID_SND_RECEIPT_ACKED: the master closes the connection.  What is under way is
\* lost or not.
Acknowledged ==
    /\ acks > 0
    /\ acks' = acks - 1
    /\ connected' = FALSE
    /\ \/ UNCHANGED <<requests, answers>>
       \/ requests' = <<>> /\ answers' = <<>>
    /\ UNCHANGED <<threadVars, dataVars, updated, rate, func, main, entry, mishaps>>

\* The connection is lost.
Lose ==
    /\ connected
    /\ Mishap
    /\ connected' = FALSE
    /\ requests' = <<>> /\ answers' = <<>> /\ acks' = 0
    /\ UNCHANGED <<threadVars, dataVars, updated, rate, func, main, entry>>

-----------------------------------------------------------------------------

Init ==
    /\ pc = "asleep" /\ whole = FALSE /\ job = "KEEP"
    /\ players = {} /\ named = {}
    /\ data = [mode |-> FirstMode, count |-> 0, list |-> {}]
    /\ updated = TRUE
    /\ rate = FirstRate
    /\ func = "KEEP"
    /\ main = "idle"
    /\ connected = FALSE /\ requests = <<>> /\ answers = <<>> /\ acks = 0
    /\ entry = NotListed
    /\ mishaps = 0

Thread == Wake \/ Compare \/ Build \/ Connect \/ Send \/ Clear
Process == ReadAnswer \/ ActOnAnswer

Next ==
    \/ Thread \/ CannotConnect
    \/ \E mode \in Modes : SetMode(mode)
    \/ ChangePlayers
    \/ Process
    \/ Handle \/ Expire \/ Acknowledged
    \/ Lose

Spec == Init /\ [][Next]_vars

\* The programs run and RakNet delivers: something of a round happens.  No more
\* is needed, for a round that does not wait for the last one is a mishap.
Fairness == WF_vars(Thread \/ Process \/ Handle \/ Acknowledged)

FairSpec == Spec /\ Fairness

-----------------------------------------------------------------------------

TypeOK ==
    /\ pc \in {"asleep", "compare", "build", "connect", "send", "clear"}
    /\ whole \in BOOLEAN /\ job \in {"ANNOUNCE", "KEEP"}
    /\ players \subseteq Names /\ named \subseteq players
    /\ data \in Data
    /\ updated \in BOOLEAN
    /\ rate \in 1 .. FirstRate
    /\ func \in Funcs
    /\ main \in {"idle", "read"}
    /\ connected \in BOOLEAN
    /\ requests \in Seq([func : Funcs, data : Data \cup {NotListed}])
    /\ answers \in Seq({"KEEP", "DELETE"})
    /\ acks \in Nat
    /\ entry \in Data \cup {NotListed}
    /\ mishaps \in 0 .. MaxMishaps

\* As long as nothing went wrong, a server that is listed is listed with what it
\* has, except for what the next round announces: no interleaving of rounds,
\* answers, changes of players and expiries makes the list stale.
UpToDate ==
    mishaps = 0 /\ pc = "asleep" /\ Quiet /\ ~updated /\ entry # NotListed => entry = data

\* A server that runs gets into the list again whenever it drops out of it, after
\* lost connections, late answers and a master that forgets it between any two
\* rounds.
Relisted == entry = NotListed ~> entry # NotListed

\* Nobody changes anything any more.
Settled ==
    /\ <>[](named = players)
    /\ <>[][UNCHANGED <<players, named, data.mode>>]_vars

\* "Trying low rate": then the server finds a timeout with which it stays listed.
StaysListed == Settled => <>[](entry # NotListed)

\* SetGameMode: "Set the game mode of the server, as displayed in the server
\* browser" (Server.hpp:231).
GameModeDisplayed ==
    \A mode \in Modes : data.mode = mode ~> data.mode # mode \/ (entry # NotListed /\ entry.mode = mode)
=============================================================================
