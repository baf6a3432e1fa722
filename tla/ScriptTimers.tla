----------------------------- MODULE ScriptTimers -----------------------------
(****************************************************************************)
(* The timers of the server's scripts: apps/openmw-mp/Script/API/           *)
(* TimerAPI.cpp, behind the timer functions of Script/ScriptFunctions.hpp.  *)
(*                                                                          *)
(* The main loop calls TimerAPI::Tick once a round; the callbacks of the    *)
(* timers that are due call the same functions while the table is being     *)
(* iterated, as other callbacks do between the rounds.                      *)
(****************************************************************************)
EXTENDS Integers, Sequences, FiniteSets

CONSTANTS
    Timers,      \* the timers the scripts create
    NoTimer,     \* a null pointer in the table; no callback running
    Intervals    \* intervals the scripts ask for, in milliseconds

ASSUME TimersAssumption    == NoTimer \notin Timers
ASSUME IntervalsAssumption == Intervals \subseteq Nat /\ Intervals # {}

VARIABLES
    timers,    \* TimerAPI::timers, with ids from 1; its length is pointer
    id,        \* the id a script was given for the timer; 0 for none
    interval,  \* Timer::targetMsec
    wait,      \* what is left of the interval since startTime, Off if isEnded
    ticking,   \* TimerAPI::Tick is running
    todo,      \* the ids it has still to visit
    calling,   \* the timer whose callback is running
    crashed,   \* a null pointer was dereferenced
    asked      \* history: what the scripts wait for; Off for nothing

vars == <<timers, id, interval, wait, ticking, todo, calling, crashed, asked>>

-----------------------------------------------------------------------------

Off == -1

\* What is left of an interval is never more than the longest.
Waits == {Off, 0} \cup UNION {0 .. n : n \in Intervals}

Freed == {i \in DOMAIN timers : timers[i] = NoTimer}

\* Scripts run in the callback of a timer, or in another one between two rounds.
ScriptsRun == ~crashed /\ (ticking => calling # NoTimer)

\* MUTANT of Inserted: a new timer takes the place of the newest one.
InsertedOver(t) == IF timers = <<>> THEN <<t>> ELSE [timers EXCEPT ![Len(timers)] = t]

Inserted(t) == Append(timers, t)

\* TimerAPI::CreateTimer and CreateTimerLua.  The loop over the table goes by
\* copies: with a freed entry in it the timer is made, but not entered, and the
\* freed id returned.  To insert into an unordered_map during its iteration
\* is undefined if it rehashes: the entries still visited are then any others.
CreateTimer(t, msec) ==
    /\ ScriptsRun
    /\ id[t] = 0
    /\ interval' = [interval EXCEPT ![t] = msec]
    /\ wait' = [wait EXCEPT ![t] = Off]
    /\ IF Freed = {}
       THEN /\ timers' = Inserted(t)
            /\ id' = [id EXCEPT ![t] = Len(timers')]
            /\ todo' \in IF ticking THEN SUBSET (DOMAIN timers' \ {id[calling]}) ELSE {{}}
       ELSE /\ \E i \in Freed : id' = [id EXCEPT ![t] = i]
            /\ UNCHANGED <<timers, todo>>
    /\ UNCHANGED <<ticking, calling, crashed, asked>>

\* The timer that the id of t leads to.
Entry(t) == timers[id[t]]

\* TimerAPI::StartTimer.
StartTimer(t) ==
    /\ ScriptsRun
    /\ id[t] # 0
    /\ asked' = [asked EXCEPT ![t] = interval[t]]
    /\ IF Entry(t) = NoTimer
       THEN UNCHANGED wait
       ELSE wait' = [wait EXCEPT ![Entry(t)] = interval[Entry(t)]]
    /\ UNCHANGED <<timers, id, interval, ticking, todo, calling, crashed>>

\* TimerAPI::ResetTimer.
ResetTimer(t, msec) ==
    /\ ScriptsRun
    /\ id[t] # 0
    /\ IF Entry(t) = NoTimer
       THEN /\ crashed' = TRUE
            /\ UNCHANGED <<interval, wait, asked>>
       ELSE /\ interval' = [interval EXCEPT ![Entry(t)] = msec]
            /\ wait' = [wait EXCEPT ![Entry(t)] = msec]
            /\ asked' = [asked EXCEPT ![t] = msec]
            /\ UNCHANGED crashed
    /\ UNCHANGED <<timers, id, ticking, todo, calling>>

\* TimerAPI::StopTimer.
StopTimer(t) ==
    /\ ScriptsRun
    /\ id[t] # 0
    /\ IF Entry(t) = NoTimer
       THEN /\ crashed' = TRUE
            /\ UNCHANGED <<wait, asked>>
       ELSE /\ wait' = [wait EXCEPT ![Entry(t)] = Off]
            /\ asked' = [asked EXCEPT ![t] = Off]
            /\ UNCHANGED crashed
    /\ UNCHANGED <<timers, id, interval, ticking, todo, calling>>

\* TimerAPI::IsTimerElapsed.  The catch does not stop a null pointer.
IsTimerElapsed(t) ==
    /\ ScriptsRun
    /\ id[t] # 0
    /\ crashed' = (Entry(t) = NoTimer)
    /\ UNCHANGED <<timers, id, interval, wait, ticking, todo, calling, asked>>

\* MUTANT of FreeTimer: the timer is deleted, its entry kept.
FreeTimerDangling(t) ==
    /\ ScriptsRun
    /\ id[t] # 0 /\ t # calling
    /\ id' = [id EXCEPT ![t] = 0]
    /\ asked' = [asked EXCEPT ![t] = Off]
    /\ UNCHANGED <<timers, interval, wait, ticking, todo, calling, crashed>>

\* TimerAPI::FreeTimer.  The scripts do not use the id again, and do not free
\* the timer whose callback is running: ScriptFunction::Call would go on in it.
FreeTimer(t) ==
    /\ ScriptsRun
    /\ id[t] # 0 /\ t # calling
    /\ timers' = [timers EXCEPT ![id[t]] = NoTimer]
    /\ wait' = IF Entry(t) = NoTimer THEN wait ELSE [wait EXCEPT ![Entry(t)] = Off]
    /\ id' = [id EXCEPT ![t] = 0]
    /\ asked' = [asked EXCEPT ![t] = Off]
    /\ UNCHANGED <<interval, ticking, todo, calling, crashed>>

-----------------------------------------------------------------------------
(* TimerAPI::Tick. *)

StartTick ==
    /\ ~crashed /\ ~ticking
    /\ ticking' = TRUE
    /\ todo' = DOMAIN timers
    /\ UNCHANGED <<timers, id, interval, wait, calling, crashed, asked>>

\* MUTANT of Visit: the round ends with the first timer that is called.
VisitOne(i) ==
    /\ calling = NoTimer
    /\ i \in todo
    /\ LET t == timers[i]
           due == t # NoTimer /\ wait[t] = 0
       IN  /\ calling' = IF due THEN t ELSE NoTimer
           /\ todo' = IF due THEN {} ELSE todo \ {i}
           /\ wait' = IF due THEN [wait EXCEPT ![t] = Off] ELSE wait
           /\ asked' = IF due THEN [asked EXCEPT ![t] = Off] ELSE asked
    /\ UNCHANGED <<timers, id, interval, ticking, crashed>>

\* Timer::Tick of the next entry, in the order of an unordered_map.
Visit(i) ==
    /\ calling = NoTimer
    /\ i \in todo
    /\ todo' = todo \ {i}
    /\ LET t == timers[i]
           due == t # NoTimer /\ wait[t] = 0
       IN  /\ calling' = IF due THEN t ELSE NoTimer
           /\ wait' = IF due THEN [wait EXCEPT ![t] = Off] ELSE wait
           /\ asked' = IF due THEN [asked EXCEPT ![t] = Off] ELSE asked
    /\ UNCHANGED <<timers, id, interval, ticking, crashed>>

\* The callback returns.
Return ==
    /\ ~crashed
    /\ calling # NoTimer
    /\ calling' = NoTimer
    /\ UNCHANGED <<timers, id, interval, wait, ticking, todo, crashed, asked>>

\* MUTANT of EndTick: the round ends with entries not yet visited.
EndTickEarly ==
    /\ ticking /\ calling = NoTimer
    /\ ticking' = FALSE
    /\ UNCHANGED <<timers, id, interval, wait, todo, calling, crashed, asked>>

EndTick ==
    /\ ticking /\ calling = NoTimer /\ todo = {}
    /\ ticking' = FALSE
    /\ UNCHANGED <<timers, id, interval, wait, todo, calling, crashed, asked>>

\* A millisecond passes.
Less(w) == [t \in Timers |-> IF w[t] > 0 THEN w[t] - 1 ELSE w[t]]

Pass ==
    /\ ~crashed
    /\ \E t \in Timers : wait[t] > 0 \/ asked[t] > 0
    /\ wait' = Less(wait)
    /\ asked' = Less(asked)
    /\ UNCHANGED <<timers, id, interval, ticking, todo, calling, crashed>>

-----------------------------------------------------------------------------

Init ==
    /\ timers = <<>>
    /\ id = [t \in Timers |-> 0]
    /\ interval = [t \in Timers |-> 0]
    /\ wait = [t \in Timers |-> Off]
    /\ ticking = FALSE
    /\ todo = {}
    /\ calling = NoTimer
    /\ crashed = FALSE
    /\ asked = [t \in Timers |-> Off]

Scripts(t) ==
    \/ \E msec \in Intervals : CreateTimer(t, msec) \/ ResetTimer(t, msec)
    \/ StartTimer(t)
    \/ StopTimer(t)
    \/ IsTimerElapsed(t)
    \/ FreeTimer(t)

Tick == StartTick \/ (\E i \in DOMAIN timers : Visit(i)) \/ EndTick

Next == Tick \/ Return \/ Pass \/ \E t \in Timers : Scripts(t)

Spec == Init /\ [][Next]_vars

\* The main loop goes on for ever, callbacks return, and time passes.
Fairness == WF_vars(Tick) /\ WF_vars(Return) /\ WF_vars(Pass)

FairSpec == Spec /\ Fairness

-----------------------------------------------------------------------------

TypeOK ==
    /\ timers \in Seq(Timers \cup {NoTimer})
    /\ id \in [Timers -> 0 .. Len(timers)]
    /\ interval \in [Timers -> Intervals \cup {0}]
    /\ wait \in [Timers -> Waits]
    /\ asked \in [Timers -> Waits]
    /\ ticking \in BOOLEAN
    /\ crashed \in BOOLEAN
    /\ todo \subseteq IF ticking THEN DOMAIN timers ELSE {}
    /\ calling \in IF ticking THEN Timers \cup {NoTimer} ELSE {NoTimer}

\* A script that is given the id of the timer it created can use it until it frees
\* the timer: "\return The ID of the timer thus created" (ScriptFunctions.hpp:58).
\* It fails: with a freed entry in the table, the id leads to a null pointer.
IdsLeadToTimers == \A t \in Timers : id[t] # 0 => Entry(t) = t

\* A timer in the table is there for one script, the one it was made for: although
\* freed ids are handed out again, to several scripts at a time, none of them ever
\* leads to a timer of another script, and no timer outlives the id it can be freed by.
OneOwner == \A i \in DOMAIN timers : timers[i] # NoTimer => {t \in Timers : id[t] = i} = {timers[i]}

\* A callback is called when its script has started the timer, the interval it
\* asked for last is over, and no script, and no callback called earlier in the
\* same round, has stopped, restarted or freed it since.
CalledAsAsked == [][calling' # calling /\ calling' # NoTimer => asked[calling'] = 0]_vars

\* What a script waits for comes, if its timer was entered: a timer that is due is
\* called, unless a script stops, restarts or frees it before, or stops the server
\* with the id of a timer that was not entered.  Timers that start themselves again
\* at once, and timers created while the table is iterated, do not starve others.
AskedIsCalled == \A t \in Timers : (asked[t] = 0 /\ Entry(t) = t) ~> (asked[t] # 0 \/ crashed)
=============================================================================
