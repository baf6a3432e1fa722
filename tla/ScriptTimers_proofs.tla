-------------------------- MODULE ScriptTimers_proofs --------------------------
(****************************************************************************)
(* Proofs about ScriptTimers, for any number of timers and any intervals.   *)
(****************************************************************************)
EXTENDS ScriptTimers, SequenceTheorems, TLAPS

-----------------------------------------------------------------------------
(* Facts about sequences. *)

\* s with e at the end.
LEMMA AppendFacts ==
    ASSUME NEW S, NEW s \in Seq(S), NEW e \in S
    PROVE  /\ Append(s, e) \in Seq(S)
           /\ DOMAIN Append(s, e) = DOMAIN s \cup {Len(s) + 1}
           /\ Len(s) + 1 \notin DOMAIN s
           /\ \A i \in DOMAIN s : Append(s, e)[i] = s[i]
           /\ Append(s, e)[Len(s) + 1] = e
OBVIOUS

USE TimersAssumption, IntervalsAssumption

\* What the proofs need to know of the types.
Types ==
    /\ timers \in Seq(Timers \cup {NoTimer})
    /\ id \in [Timers -> Nat]
    /\ wait \in [Timers -> Int]
    /\ asked \in [Timers -> Int]
    /\ interval \in [Timers -> Nat]
    /\ todo \subseteq DOMAIN timers
    /\ calling \in Timers \cup {NoTimer}
    /\ calling # NoTimer => id[calling] # 0
    /\ \A t \in Timers : id[t] # 0 => id[t] \in DOMAIN timers

\* An entry is the timer the id was returned for, and waits as the scripts asked.
EntryInv ==
    \A i \in DOMAIN timers : timers[i] # NoTimer => id[timers[i]] = i /\ wait[timers[i]] = asked[timers[i]]

\* An id that leads to a timer belongs to that timer alone.
OwnerInv == \A t \in Timers : id[t] # 0 /\ Entry(t) # NoTimer => Entry(t) = t

\* Scripts wait for nothing of a timer they have no id of.
AskedInv == \A t \in Timers : id[t] = 0 => asked[t] = Off

\* The inductive invariant.
TimersInv == Types /\ EntryInv /\ OwnerInv /\ AskedInv

LEMMA EntryFacts ==
    ASSUME TimersInv, NEW t \in Timers, id[t] # 0
    PROVE  /\ id[t] \in DOMAIN timers /\ Entry(t) \in Timers \cup {NoTimer}
           /\ Entry(t) # NoTimer => Entry(t) = t
BY DEF TimersInv, Types, OwnerInv, Entry

LEMMA CreateKeeps ==
    ASSUME TimersInv, NEW t \in Timers, NEW msec \in Intervals, CreateTimer(t, msec)
    PROVE  TimersInv'
<1> USE DEF TimersInv
<1>1. /\ id[t] = 0 /\ asked[t] = Off
      /\ interval' = [interval EXCEPT ![t] = msec] /\ wait' = [wait EXCEPT ![t] = Off]
      /\ UNCHANGED <<calling, asked>>
    BY DEF CreateTimer, AskedInv
<1>2. \A i \in DOMAIN timers : timers[i] # t
  <2> SUFFICES ASSUME NEW i \in DOMAIN timers, timers[i] = t PROVE FALSE
      OBVIOUS
  <2>1. timers[i] # NoTimer
      BY <1>1
  <2>2. id[t] = i
      BY <2>1 DEF EntryInv
  <2>3. i # 0
      BY DEF Types
  <2> QED
      BY <1>1, <2>2, <2>3
<1>3. wait' \in [Timers -> Int] /\ interval' \in [Timers -> Nat] /\ wait'[t] = Off
      /\ \A u \in Timers : u # t => wait'[u] = wait[u]
    BY <1>1 DEF Types, Off
<1>4. CASE Freed = {}
  <2>1. /\ timers' = Append(timers, t) /\ id' = [id EXCEPT ![t] = Len(timers')]
        /\ todo' \in IF ticking THEN SUBSET (DOMAIN timers' \ {id[calling]}) ELSE {{}}
      BY <1>4 DEF CreateTimer, Inserted
  <2>2. /\ timers' \in Seq(Timers \cup {NoTimer})
        /\ DOMAIN timers' = DOMAIN timers \cup {Len(timers) + 1}
        /\ Len(timers) + 1 \notin DOMAIN timers
        /\ \A i \in DOMAIN timers : timers'[i] = timers[i]
        /\ timers'[Len(timers) + 1] = t
      BY <2>1, AppendFacts DEF Types
  <2>3. Len(timers') = Len(timers) + 1 /\ Len(timers) \in Nat
      BY <2>1 DEF Types
  <2>4. id' \in [Timers -> Nat] /\ \A u \in Timers : id'[u] = IF u = t THEN Len(timers) + 1 ELSE id[u]
      BY <2>1, <2>3 DEF Types
  <2>5. Types'
    <3>1. todo' \subseteq DOMAIN timers'
        BY <2>1
    <3>2. calling # NoTimer => id'[calling] # 0
        BY <2>3, <2>4 DEF Types
    <3>3. \A u \in Timers : id'[u] # 0 => id'[u] \in DOMAIN timers'
        BY <2>2, <2>4 DEF Types
    <3> QED
        BY <1>1, <1>3, <2>2, <2>4, <3>1, <3>2, <3>3 DEF Types
  <2>6. EntryInv'
    <3> SUFFICES ASSUME NEW i \in DOMAIN timers', timers'[i] # NoTimer
                 PROVE  id'[timers'[i]] = i /\ wait'[timers'[i]] = asked[timers'[i]]
        BY <1>1 DEF EntryInv
    <3>1. CASE i = Len(timers) + 1
        BY <1>1, <1>3, <2>2, <2>4, <3>1
    <3>2. CASE i \in DOMAIN timers
      <4>1. timers[i] \in Timers /\ timers[i] # t /\ timers'[i] = timers[i]
          BY <1>2, <2>2, <3>2 DEF Types
      <4>2. id[timers[i]] = i /\ wait[timers[i]] = asked[timers[i]]
          BY <3>2, <4>1 DEF EntryInv
      <4>3. id'[timers[i]] = id[timers[i]] /\ wait'[timers[i]] = wait[timers[i]]
          BY <1>3, <2>4, <4>1
      <4> QED
          BY <4>1, <4>2, <4>3
    <3> QED
        BY <2>2, <3>1, <3>2
  <2>7. OwnerInv'
    <3> SUFFICES ASSUME NEW u \in Timers, id'[u] # 0, timers'[id'[u]] # NoTimer PROVE timers'[id'[u]] = u
        BY DEF OwnerInv, Entry
    <3>1. CASE u = t
        BY <2>2, <2>4, <3>1
    <3>2. CASE u # t
        BY <2>2, <2>4, <3>2 DEF OwnerInv, Entry, Types
    <3> QED
        BY <3>1, <3>2
  <2>8. AskedInv'
      BY <1>1, <2>3, <2>4 DEF AskedInv
  <2> QED
      BY <2>5, <2>6, <2>7, <2>8
<1>5. CASE Freed # {}
  <2>1. PICK i \in Freed : id' = [id EXCEPT ![t] = i]
      BY <1>5 DEF CreateTimer
  <2>2. UNCHANGED <<timers, todo>>
      BY <1>5 DEF CreateTimer
  <2>3. i \in DOMAIN timers /\ timers[i] = NoTimer /\ i \in Nat /\ i # 0
      BY <2>1 DEF Freed, Types
  <2>4. id' \in [Timers -> Nat] /\ \A u \in Timers : id'[u] = IF u = t THEN i ELSE id[u]
      BY <2>1, <2>3 DEF Types
  <2>5. Types'
      BY <1>1, <1>3, <2>2, <2>3, <2>4 DEF Types
  <2>6. EntryInv'
    <3> SUFFICES ASSUME NEW j \in DOMAIN timers, timers[j] # NoTimer
                 PROVE  id'[timers[j]] = j /\ wait'[timers[j]] = asked[timers[j]]
        BY <1>1, <2>2 DEF EntryInv
    <3>1. timers[j] \in Timers /\ timers[j] # t
        BY <1>2 DEF Types
    <3> QED
        BY <1>3, <2>4, <3>1 DEF EntryInv
  <2>7. OwnerInv' /\ AskedInv'
      BY <1>1, <2>2, <2>3, <2>4 DEF OwnerInv, Entry, AskedInv
  <2> QED
      BY <2>5, <2>6, <2>7
<1> QED
    BY <1>4, <1>5

\* StartTimer, ResetTimer and StopTimer of an entry that is there.
LEMMA AskKeeps ==
    ASSUME TimersInv, NEW t \in Timers, NEW w \in Int, id[t] # 0,
           UNCHANGED <<timers, id, todo, calling>>, interval' \in [Timers -> Nat],
           asked' = [asked EXCEPT ![t] = w],
           wait' = IF Entry(t) = NoTimer THEN wait ELSE [wait EXCEPT ![t] = w]
    PROVE  TimersInv'
<1> USE DEF TimersInv
<1>1. Types'
    BY DEF Types
<1>2. EntryInv'
  <2> SUFFICES ASSUME NEW i \in DOMAIN timers, timers[i] # NoTimer
               PROVE  id[timers[i]] = i /\ wait'[timers[i]] = asked'[timers[i]]
      BY DEF EntryInv
  <2>1. timers[i] \in Timers /\ id[timers[i]] = i /\ wait[timers[i]] = asked[timers[i]]
      BY DEF Types, EntryInv
  <2>2. CASE timers[i] = t
      BY <2>1, <2>2 DEF Types, Entry
  <2>3. CASE timers[i] # t
      BY <2>1, <2>3 DEF Types
  <2> QED
      BY <2>1, <2>2, <2>3
<1>3. OwnerInv' /\ AskedInv'
    BY DEF OwnerInv, Entry, AskedInv, Types
<1> QED
    BY <1>1, <1>2, <1>3

LEMMA FreeKeeps ==
    ASSUME TimersInv, NEW t \in Timers, FreeTimer(t)
    PROVE  TimersInv'
<1> USE DEF TimersInv
<1>1. /\ id[t] # 0 /\ t # calling
      /\ timers' = [timers EXCEPT ![id[t]] = NoTimer]
      /\ wait' = IF Entry(t) = NoTimer THEN wait ELSE [wait EXCEPT ![Entry(t)] = Off]
      /\ id' = [id EXCEPT ![t] = 0] /\ asked' = [asked EXCEPT ![t] = Off]
      /\ UNCHANGED <<interval, todo, calling>>
    BY DEF FreeTimer
<1>2. id[t] \in DOMAIN timers /\ (Entry(t) # NoTimer => Entry(t) = t)
    BY <1>1, EntryFacts
<1>3. /\ timers' \in Seq(Timers \cup {NoTimer}) /\ DOMAIN timers' = DOMAIN timers
      /\ \A i \in DOMAIN timers : timers'[i] = IF i = id[t] THEN NoTimer ELSE timers[i]
    BY <1>1, <1>2 DEF Types
<1>4. wait' = IF Entry(t) = NoTimer THEN wait ELSE [wait EXCEPT ![t] = Off]
    BY <1>1, <1>2
<1>5. /\ id' \in [Timers -> Nat] /\ wait' \in [Timers -> Int] /\ asked' \in [Timers -> Int]
      /\ \A u \in Timers : /\ id'[u] = IF u = t THEN 0 ELSE id[u]
                           /\ asked'[u] = IF u = t THEN Off ELSE asked[u]
                           /\ u # t => wait'[u] = wait[u]
  <2>1. wait \in [Timers -> Int] /\ asked \in [Timers -> Int] /\ id \in [Timers -> Nat] /\ Off \in Int
      BY DEF Types, Off
  <2>2. id' \in [Timers -> Nat] /\ \A u \in Timers : id'[u] = IF u = t THEN 0 ELSE id[u]
      BY <1>1, <2>1
  <2>3. asked' \in [Timers -> Int] /\ \A u \in Timers : asked'[u] = IF u = t THEN Off ELSE asked[u]
      BY <1>1, <2>1
  <2>4. wait' \in [Timers -> Int] /\ \A u \in Timers : u # t => wait'[u] = wait[u]
      BY <1>4, <2>1
  <2> QED
      BY <2>2, <2>3, <2>4
<1>6. Types'
    BY <1>1, <1>3, <1>5 DEF Types
<1>7. EntryInv'
  <2> SUFFICES ASSUME NEW i \in DOMAIN timers, timers'[i] # NoTimer
               PROVE  id'[timers'[i]] = i /\ wait'[timers'[i]] = asked'[timers'[i]]
      BY <1>3 DEF EntryInv
  <2>1. i # id[t] /\ timers'[i] = timers[i] /\ timers[i] \in Timers
      BY <1>3 DEF Types
  <2>2. id[timers[i]] = i /\ wait[timers[i]] = asked[timers[i]]
      BY <2>1 DEF EntryInv
  <2> QED
      BY <1>5, <2>1, <2>2
<1>8. OwnerInv'
  <2> SUFFICES ASSUME NEW u \in Timers, id'[u] # 0, timers'[id'[u]] # NoTimer PROVE timers'[id'[u]] = u
      BY DEF OwnerInv, Entry
  <2>1. u # t /\ id'[u] = id[u] /\ id[u] \in DOMAIN timers
      BY <1>5 DEF Types
  <2> QED
      BY <1>3, <2>1 DEF OwnerInv, Entry
<1>9. AskedInv'
    BY <1>5 DEF AskedInv
<1> QED
    BY <1>6, <1>7, <1>8, <1>9

LEMMA VisitKeeps ==
    ASSUME TimersInv, NEW i \in DOMAIN timers, Visit(i)
    PROVE  TimersInv' /\ (calling' # NoTimer => asked[calling'] = 0)
<1> USE DEF TimersInv
<1> DEFINE t == timers[i]
           due == t # NoTimer /\ wait[t] = 0
<1>1. /\ todo' = todo \ {i} /\ calling' = IF due THEN t ELSE NoTimer
      /\ wait' = IF due THEN [wait EXCEPT ![t] = Off] ELSE wait
      /\ asked' = IF due THEN [asked EXCEPT ![t] = Off] ELSE asked
      /\ UNCHANGED <<timers, id, interval>>
    BY DEF Visit
<1>2. t # NoTimer => t \in Timers /\ id[t] = i /\ i # 0 /\ wait[t] = asked[t]
    BY DEF Types, EntryInv
<1> HIDE DEF t
<1>3. CASE due
  <2>1. /\ wait' = [wait EXCEPT ![t] = Off] /\ asked' = [asked EXCEPT ![t] = Off] /\ calling' = t
        /\ t \in Timers /\ id[t] # 0 /\ asked[t] = 0 /\ t # NoTimer
      BY <1>1, <1>2, <1>3
  <2>2. Types'
      BY <1>1, <2>1 DEF Types, Off
  <2>3. EntryInv'
      BY <1>1, <2>1 DEF EntryInv, Types
  <2>4. OwnerInv' /\ AskedInv'
      BY <1>1, <2>1 DEF OwnerInv, Entry, AskedInv, Types
  <2> QED
      BY <2>1, <2>2, <2>3, <2>4
<1>4. CASE ~due
    BY <1>1, <1>4 DEF Types, EntryInv, OwnerInv, Entry, AskedInv
<1> QED
    BY <1>3, <1>4

LEMMA PassKeeps ==
    ASSUME TimersInv, Pass
    PROVE  TimersInv'
<1> USE DEF TimersInv
<1>1. wait' = Less(wait) /\ asked' = Less(asked) /\ UNCHANGED <<timers, id, interval, todo, calling>>
    BY DEF Pass
<1>2. wait' \in [Timers -> Int] /\ asked' \in [Timers -> Int]
    BY <1>1 DEF Less, Types
<1>3. Types'
    BY <1>1, <1>2 DEF Types
<1>4. EntryInv'
    BY <1>1 DEF Less, EntryInv, Types
<1>5. OwnerInv' /\ AskedInv'
    BY <1>1 DEF Less, OwnerInv, Entry, AskedInv, Off
<1> QED
    BY <1>3, <1>4, <1>5

-----------------------------------------------------------------------------

LEMMA StepKeeps ==
    ASSUME TimersInv, [Next]_vars
    PROVE  TimersInv' /\ (calling' # calling /\ calling' # NoTimer => asked[calling'] = 0)
<1>1. ASSUME NEW t \in Timers, NEW msec \in Intervals, CreateTimer(t, msec)
      PROVE  TimersInv' /\ calling' = calling
    BY <1>1, CreateKeeps DEF CreateTimer
<1>2. ASSUME NEW t \in Timers, NEW msec \in Intervals, ResetTimer(t, msec)
      PROVE  TimersInv' /\ calling' = calling
  <2>1. id[t] # 0 /\ UNCHANGED <<timers, id, todo, calling>>
      BY <1>2 DEF ResetTimer
  <2>2. CASE Entry(t) = NoTimer
      BY <1>2, <2>1, <2>2 DEF ResetTimer, TimersInv, Types, EntryInv, OwnerInv, Entry, AskedInv
  <2>3. CASE Entry(t) # NoTimer
    <3>1. Entry(t) = t
        BY <2>1, <2>3, EntryFacts
    <3>2. /\ wait' = [wait EXCEPT ![t] = msec] /\ asked' = [asked EXCEPT ![t] = msec]
          /\ interval' = [interval EXCEPT ![t] = msec]
        BY <1>2, <2>3, <3>1 DEF ResetTimer
    <3>3. interval' \in [Timers -> Nat] /\ msec \in Int
        BY <3>2 DEF TimersInv, Types
    <3> QED
        BY <2>1, <2>3, <3>2, <3>3, AskKeeps
  <2> QED
      BY <2>2, <2>3
<1>3. ASSUME NEW t \in Timers, StartTimer(t) PROVE TimersInv' /\ calling' = calling
  <2>1. /\ id[t] # 0 /\ UNCHANGED <<timers, id, interval, todo, calling>>
        /\ asked' = [asked EXCEPT ![t] = interval[t]]
      BY <1>3 DEF StartTimer
  <2>2. interval \in [Timers -> Nat] /\ interval[t] \in Int
      BY DEF TimersInv, Types
  <2>3. wait' = IF Entry(t) = NoTimer THEN wait ELSE [wait EXCEPT ![t] = interval[t]]
      BY <1>3, <2>1, EntryFacts DEF StartTimer
  <2> QED
      BY <2>1, <2>2, <2>3, AskKeeps
<1>4. ASSUME NEW t \in Timers, StopTimer(t) PROVE TimersInv' /\ calling' = calling
  <2>1. id[t] # 0 /\ UNCHANGED <<timers, id, interval, todo, calling>>
      BY <1>4 DEF StopTimer
  <2>2. CASE Entry(t) = NoTimer
      BY <1>4, <2>1, <2>2 DEF StopTimer, TimersInv, Types, EntryInv, OwnerInv, Entry, AskedInv
  <2>3. CASE Entry(t) # NoTimer
    <3>1. wait' = [wait EXCEPT ![t] = Off] /\ asked' = [asked EXCEPT ![t] = Off]
        BY <1>4, <2>1, <2>3, EntryFacts DEF StopTimer
    <3>2. interval \in [Timers -> Nat] /\ Off \in Int
        BY DEF TimersInv, Types, Off
    <3> QED
        BY <2>1, <2>3, <3>1, <3>2, AskKeeps
  <2> QED
      BY <2>2, <2>3
<1>5. ASSUME NEW t \in Timers, IsTimerElapsed(t) PROVE TimersInv' /\ calling' = calling
    BY <1>5 DEF IsTimerElapsed, TimersInv, Types, EntryInv, OwnerInv, Entry, AskedInv
<1>6. ASSUME NEW t \in Timers, FreeTimer(t) PROVE TimersInv' /\ calling' = calling
    BY <1>6, FreeKeeps DEF FreeTimer
<1>7. CASE StartTick \/ EndTick \/ Return
    BY <1>7 DEF StartTick, EndTick, Return, TimersInv, Types, EntryInv, OwnerInv, Entry, AskedInv
<1>8. ASSUME NEW i \in DOMAIN timers, Visit(i)
      PROVE  TimersInv' /\ (calling' # NoTimer => asked[calling'] = 0)
    BY <1>8, VisitKeeps
<1>9. CASE Pass
    BY <1>9, PassKeeps DEF Pass
<1>10. CASE UNCHANGED vars
    BY <1>10 DEF vars, TimersInv, Types, EntryInv, OwnerInv, Entry, AskedInv
<1> QED
    BY <1>1, <1>2, <1>3, <1>4, <1>5, <1>6, <1>7, <1>8, <1>9, <1>10 DEF Next, Scripts, Tick

\* An entry of TimerAPI's table is null or the timer that its id was returned for, and
\* waits exactly as the scripts have asked.
THEOREM TimersInvariant == Spec => []TimersInv
<1>1. Init => TimersInv
  <2>1. <<>> \in Seq(Timers \cup {NoTimer}) /\ DOMAIN <<>> = {} /\ Off \in Int
      BY DEF Off
  <2> QED
      BY <2>1 DEF Init, TimersInv, Types, EntryInv, OwnerInv, Entry, AskedInv
<1>2. TimersInv /\ [Next]_vars => TimersInv'
    BY StepKeeps
<1> QED
    BY <1>1, <1>2, PTL DEF Spec

\* A callback is called only when its script waits for it and the interval is
\* over, whatever is started, stopped, freed and created during the round.
THEOREM OnlyAskedCalled == Spec => CalledAsAsked
<1>1. TimersInv /\ [Next]_vars => [calling' # calling /\ calling' # NoTimer => asked[calling'] = 0]_vars
    BY StepKeeps
<1> QED
    BY <1>1, TimersInvariant, PTL DEF Spec, CalledAsAsked

\* Whatever ids are handed out again: a timer in the table belongs to the one script
\* that it was made for, and no id leads to a timer of another script.
THEOREM OneOwnerHolds == Spec => []OneOwner
<1>1. TimersInv => OneOwner
  <2> SUFFICES ASSUME TimersInv, NEW i \in DOMAIN timers, timers[i] # NoTimer
               PROVE  {t \in Timers : id[t] = i} = {timers[i]}
      BY DEF OneOwner
  <2>1. timers[i] \in Timers /\ id[timers[i]] = i /\ i # 0
      BY DEF TimersInv, Types, EntryInv
  <2>2. ASSUME NEW t \in Timers, id[t] = i PROVE t = timers[i]
      BY <2>1, <2>2 DEF TimersInv, OwnerInv, Entry
  <2> QED
      BY <2>1, <2>2
<1> QED
    BY <1>1, TimersInvariant, PTL
-----------------------------------------------------------------------------
(* Types.  The invariant above says all of it but what intervals are made of. *)

\* A millisecond less is still part of the same interval.
LEMMA LessInInterval ==
    ASSUME NEW n \in Waits, n > 0
    PROVE  n - 1 \in Waits
<1>1. PICK m \in Intervals : n \in 0 .. m
    BY DEF Waits, Off
<1>2. n - 1 \in 0 .. m
    BY <1>1
<1> QED
    BY <1>1, <1>2 DEF Waits

\* What one interval or another can have left, and an interval as a whole.
LEMMA WaitsFacts == /\ Waits \subseteq Int /\ Off \in Waits /\ 0 \in Waits
                    /\ Intervals \cup {0} \subseteq Waits
<1>1. ASSUME NEW n \in Intervals PROVE n \in 0 .. n
    OBVIOUS
<1>2. Intervals \subseteq UNION {0 .. n : n \in Intervals}
    BY <1>1
<1> QED
    BY <1>2 DEF Waits, Off

\* What the steps do to the parts of the type invariant that intervals are part of.
TimesOK ==
    /\ interval \in [Timers -> Intervals \cup {0}]
    /\ wait \in [Timers -> Waits]
    /\ asked \in [Timers -> Waits]

\* When callbacks run, and which entries are still to be visited.
RoundOK ==
    /\ ticking \in BOOLEAN
    /\ crashed \in BOOLEAN
    /\ todo \subseteq IF ticking THEN DOMAIN timers ELSE {}
    /\ calling \in IF ticking THEN Timers \cup {NoTimer} ELSE {NoTimer}

LEMMA TimesKept ==
    ASSUME TimersInv, TimesOK, [Next]_vars
    PROVE  TimesOK'
<1>1. ASSUME NEW t \in Timers, NEW msec \in Intervals, CreateTimer(t, msec) PROVE TimesOK'
    BY <1>1, WaitsFacts DEF CreateTimer, TimesOK
<1>2. ASSUME NEW t \in Timers, NEW msec \in Intervals, ResetTimer(t, msec) PROVE TimesOK'
  <2>1. /\ msec \in Waits /\ msec \in Intervals \cup {0}
        /\ Entry(t) # NoTimer => Entry(t) \in Timers
      BY <1>2, EntryFacts, WaitsFacts DEF ResetTimer
  <2> QED
      BY <1>2, <2>1 DEF ResetTimer, TimesOK
<1>3. ASSUME NEW t \in Timers, StartTimer(t) PROVE TimesOK'
  <2>1. /\ interval[t] \in Waits
        /\ Entry(t) # NoTimer => Entry(t) \in Timers /\ interval[Entry(t)] \in Waits
      BY <1>3, EntryFacts, WaitsFacts DEF StartTimer, TimesOK
  <2> QED
      BY <1>3, <2>1 DEF StartTimer, TimesOK
<1>4. ASSUME NEW t \in Timers, StopTimer(t) PROVE TimesOK'
    BY <1>4, WaitsFacts DEF StopTimer, TimesOK
<1>5. ASSUME NEW t \in Timers, IsTimerElapsed(t) PROVE TimesOK'
    BY <1>5 DEF IsTimerElapsed, TimesOK
<1>6. ASSUME NEW t \in Timers, FreeTimer(t) PROVE TimesOK'
    BY <1>6, WaitsFacts DEF FreeTimer, TimesOK
<1>7. CASE StartTick \/ EndTick \/ Return \/ UNCHANGED vars
    BY <1>7 DEF StartTick, EndTick, Return, vars, TimesOK
<1>8. ASSUME NEW i \in DOMAIN timers, Visit(i) PROVE TimesOK'
    BY <1>8, WaitsFacts DEF Visit, TimesOK
<1>9. CASE Pass
  <2>1. ASSUME NEW w \in [Timers -> Waits] PROVE Less(w) \in [Timers -> Waits]
      BY <2>1, LessInInterval DEF Less
  <2> QED
      BY <1>9, <2>1 DEF Pass, TimesOK
<1> QED
    BY <1>1, <1>2, <1>3, <1>4, <1>5, <1>6, <1>7, <1>8, <1>9 DEF Next, Scripts, Tick

LEMMA RoundKept ==
    ASSUME TimersInv, RoundOK, [Next]_vars
    PROVE  RoundOK'
<1>1. ASSUME NEW t \in Timers, NEW msec \in Intervals, CreateTimer(t, msec) PROVE RoundOK'
  <2>1. todo' \subseteq IF ticking THEN DOMAIN timers' ELSE {}
    <3>1. CASE Freed = {}
        BY <1>1, <3>1 DEF CreateTimer
    <3>2. CASE Freed # {}
        BY <1>1, <3>2 DEF CreateTimer, RoundOK
    <3> QED
        BY <3>1, <3>2
  <2> QED
      BY <1>1, <2>1 DEF CreateTimer, RoundOK
<1>2. ASSUME NEW t \in Timers, FreeTimer(t) PROVE RoundOK'
  <2>1. DOMAIN timers' = DOMAIN timers
      BY <1>2 DEF FreeTimer
  <2> QED
      BY <1>2, <2>1 DEF FreeTimer, RoundOK
<1>3. ASSUME NEW t \in Timers, NEW msec \in Intervals, ResetTimer(t, msec) PROVE RoundOK'
    BY <1>3 DEF ResetTimer, RoundOK
<1>4. ASSUME NEW t \in Timers, StartTimer(t) \/ StopTimer(t) \/ IsTimerElapsed(t) PROVE RoundOK'
    BY <1>4 DEF StartTimer, StopTimer, IsTimerElapsed, RoundOK
<1>5. CASE StartTick \/ EndTick \/ Return \/ Pass \/ UNCHANGED vars
    BY <1>5 DEF StartTick, EndTick, Return, Pass, vars, RoundOK
<1>6. ASSUME NEW i \in DOMAIN timers, Visit(i) PROVE RoundOK'
  <2>1. ticking /\ timers[i] \in Timers \cup {NoTimer}
      BY <1>6 DEF Visit, RoundOK, TimersInv, Types
  <2> QED
      BY <1>6, <2>1 DEF Visit, RoundOK
<1> QED
    BY <1>1, <1>2, <1>3, <1>4, <1>5, <1>6 DEF Next, Scripts, Tick

\* Type correctness: ids lie in the table, what is left of an interval is never
\* more than the longest, and no callback runs, nor is an entry waiting to be
\* visited, outside a round of TimerAPI::Tick.
THEOREM TypeCorrect == Spec => []TypeOK
<1>1. Init => TimesOK /\ RoundOK
    BY WaitsFacts DEF Init, TimesOK, RoundOK
<1>2. TimersInv /\ TimesOK /\ RoundOK /\ [Next]_vars => TimesOK' /\ RoundOK'
    BY TimesKept, RoundKept
<1>3. TimersInv /\ TimesOK /\ RoundOK => TypeOK
  <2> SUFFICES ASSUME TimersInv, TimesOK, RoundOK PROVE TypeOK
      OBVIOUS
  <2>1. timers \in Seq(Timers \cup {NoTimer}) /\ DOMAIN timers = 1 .. Len(timers) /\ Len(timers) \in Nat
      BY DEF TimersInv, Types
  <2>2. ASSUME NEW t \in Timers PROVE id[t] \in 0 .. Len(timers)
    <3>1. id[t] \in Nat /\ (id[t] # 0 => id[t] \in DOMAIN timers)
        BY DEF TimersInv, Types
    <3> QED
        BY <2>1, <3>1
  <2>3. id \in [Timers -> 0 .. Len(timers)]
      BY <2>2 DEF TimersInv, Types
  <2> QED
      BY <2>1, <2>3 DEF TypeOK, TimesOK, RoundOK
<1> QED
    BY <1>1, <1>2, <1>3, TimersInvariant, PTL DEF Spec
===============================================================================
