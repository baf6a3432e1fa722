-------------------------- MODULE ServerListing_proofs --------------------------
(****************************************************************************)
(* Proofs about ServerListing: for any players and game modes, any timeout, *)
(* and any number of mishaps, what a server is listed with is what it has.  *)
(****************************************************************************)
EXTENDS ServerListing, SequenceTheorems, FiniteSetTheorems, TLAPS

-----------------------------------------------------------------------------
(* Types. *)

\* The number of players fits into the data.
LEMMA CountInRange ==
    ASSUME TypeOK
    PROVE  Cardinality(players) \in 0 .. Cardinality(Names)
<1>1. players \subseteq Names
    BY DEF TypeOK
<1>2. /\ IsFiniteSet(players) /\ Cardinality(players) <= Cardinality(Names)
      /\ Cardinality(Names) \in Nat
    BY <1>1, NamesAssumption, FS_Subset, FS_CardinalityType
<1>3. Cardinality(players) \in Nat
    BY <1>2, FS_CardinalityType
<1> QED
    BY <1>2, <1>3

\* The parts of the data, one at a time.
LEMMA DataFacts ==
    ASSUME NEW d \in Data
    PROVE  /\ \A n \in 0 .. Cardinality(Names) : [d EXCEPT !.count = n] \in Data
           /\ \A l \in SUBSET Names : [d EXCEPT !.list = l] \in Data
           /\ \A m \in Modes : [d EXCEPT !.mode = m] \in Data
           /\ [d EXCEPT !.count = d.count] = d
           /\ d.list \in SUBSET Names
BY DEF Data

\* What is sent to the master.
Requests == [func : Funcs, data : Data \cup {NotListed}]

LEMMA PacketType ==
    ASSUME TypeOK
    PROVE  Packet \in Requests
BY DEF Packet, TypeOK, Requests, Funcs

\* The thread keeps the types.
LEMMA ThreadTypes ==
    ASSUME TypeOK, Thread \/ CannotConnect
    PROVE  TypeOK'
<1>1. CASE Wake
  <2>1. data' \in Data
      BY <1>1, CountInRange, DataFacts DEF Wake, TypeOK
  <2>2. mishaps' \in 0 .. MaxMishaps
      BY <1>1, MishapAssumption DEF Wake, Mishap, TypeOK
  <2> QED
      BY <1>1, <2>1, <2>2 DEF Wake, TypeOK, netVars
<1>2. CASE Compare
  <2>1. data' \in Data
      BY <1>2, DataFacts DEF Compare, TypeOK
  <2> QED
      BY <1>2, <2>1 DEF Compare, TypeOK, netVars
<1>3. CASE Build
  <2>1. data.list \cup named \in SUBSET Names
      BY DataFacts DEF TypeOK
  <2>2. data' = data \/ data' = [data EXCEPT !.list = data.list \cup named]
      BY <1>3 DEF Build
  <2>3. data \in Data
      BY DEF TypeOK
  <2>4. data' \in Data
      BY <2>1, <2>2, <2>3, DataFacts
  <2> QED
      BY <1>3, <2>4 DEF Build, TypeOK, netVars
<1>4. CASE Connect
    BY <1>4 DEF Connect, TypeOK, dataVars, Funcs
<1>5. CASE Send
  <2>1. requests' \in Seq(Requests)
    <3>1. requests \in Seq(Requests)
        BY DEF TypeOK, Requests
    <3>2. requests' = requests \/ requests' = Append(requests, Packet)
        BY <1>5 DEF Send
    <3> QED
        BY <3>1, <3>2, PacketType
  <2> QED
      BY <1>5, <2>1 DEF Send, TypeOK, dataVars, Requests
<1>6. CASE Clear
    BY <1>6 DEF Clear, TypeOK, dataVars, netVars
<1>7. CASE CannotConnect
    BY <1>7, MishapAssumption DEF CannotConnect, Mishap, TypeOK, dataVars, netVars
<1> QED
    BY <1>1, <1>2, <1>3, <1>4, <1>5, <1>6, <1>7 DEF Thread

\* Nothing is under way to the master, or back.
LEMMA NothingUnderWay ==
    <<>> \in Seq([func : Funcs, data : Data \cup {NotListed}]) /\ <<>> \in Seq({"KEEP", "DELETE"})
OBVIOUS

\* What is under way is kept or lost, and the connection is gone.
LEMMA UnderWayTypes ==
    ASSUME TypeOK, connected' = FALSE, acks' \in Nat, mishaps' \in 0 .. MaxMishaps,
           requests' = requests \/ requests' = <<>>,
           answers' = answers \/ answers' = <<>>,
           UNCHANGED <<pc, whole, job, players, named, data, updated, rate, func, main, entry>>
    PROVE  TypeOK'
<1>1. connected' \in BOOLEAN /\ (requests \in Seq([func : Funcs, data : Data \cup {NotListed}]))'
      /\ answers' \in Seq({"KEEP", "DELETE"})
    BY NothingUnderWay DEF TypeOK
<1> QED
    BY <1>1 DEF TypeOK

\* So do the main thread, the master and the network.
LEMMA OtherTypes ==
    ASSUME TypeOK, \/ (\E mode \in Modes : SetMode(mode)) \/ ChangePlayers \/ Process
                   \/ Handle \/ Expire \/ Acknowledged \/ Lose
    PROVE  TypeOK'
<1>0. ASSUME Mishap PROVE mishaps' \in 0 .. MaxMishaps
    BY <1>0, MishapAssumption DEF Mishap, TypeOK
<1>1. ASSUME NEW mode \in Modes, SetMode(mode) PROVE TypeOK'
  <2>1. data' \in Data
      BY <1>1, DataFacts DEF SetMode, TypeOK
  <2>2. mishaps' \in 0 .. MaxMishaps
      BY <1>0, <1>1 DEF SetMode, TypeOK
  <2> QED
      BY <1>1, <2>1, <2>2 DEF SetMode, TypeOK, threadVars, netVars
<1>2. CASE ChangePlayers
  <2>1. players' \subseteq Names /\ named' \subseteq players'
      BY <1>2 DEF ChangePlayers, TypeOK
  <2> QED
      BY <1>2, <2>1 DEF ChangePlayers, TypeOK, threadVars, netVars
<1>3. CASE ReadAnswer
  <2>1. Head(answers) \in {"KEEP", "DELETE"} /\ Tail(answers) \in Seq({"KEEP", "DELETE"})
      BY <1>3 DEF ReadAnswer, TypeOK
  <2> QED
      BY <1>3, <2>1 DEF ReadAnswer, TypeOK, threadVars, dataVars, Funcs
<1>4. CASE ActOnAnswer
  <2>1. rate' \in 1 .. FirstRate
      BY <1>4, RateAssumption DEF ActOnAnswer, TypeOK
  <2>2. mishaps' \in 0 .. MaxMishaps
      BY <1>0, <1>4 DEF ActOnAnswer, TypeOK
  <2> QED
      BY <1>4, <2>1, <2>2 DEF ActOnAnswer, TypeOK, threadVars, dataVars, netVars
<1>5. CASE Handle
  <2>1. requests \in Seq(Requests) /\ requests # <<>>
      BY <1>5 DEF Handle, TypeOK, Requests
  <2>2. Head(requests) \in Requests /\ Tail(requests) \in Seq(Requests)
      BY <2>1
  <2>3. entry' \in Data \cup {NotListed}
      BY <1>5, <2>2 DEF Handle, TypeOK, Requests
  <2>4. answers' \in Seq({"KEEP", "DELETE"})
      BY <1>5 DEF Handle, Answer, TypeOK
  <2> QED
      BY <1>5, <2>2, <2>3, <2>4 DEF Handle, TypeOK, threadVars, dataVars, Requests
<1>6. CASE Expire
  <2>1. mishaps' \in 0 .. MaxMishaps
      BY <1>0, <1>6 DEF Expire, TypeOK
  <2>2. entry' = NotListed
        /\ UNCHANGED <<pc, whole, job, players, named, data, updated, rate, func, main,
                      connected, requests, answers, acks>>
      BY <1>6 DEF Expire, threadVars, dataVars, netVars
  <2> QED
      BY <2>1, <2>2 DEF TypeOK
<1>7. CASE Acknowledged
  <2>1. acks' \in Nat
      BY <1>7 DEF Acknowledged, TypeOK
  <2>2. /\ connected' = FALSE /\ (requests' = requests \/ requests' = <<>>) /\ (answers' = answers \/ answers' = <<>>)
        /\ UNCHANGED <<pc, whole, job, players, named, data, updated, rate, func, main, entry, mishaps>>
      BY <1>7 DEF Acknowledged, threadVars, dataVars
  <2>3. mishaps' \in 0 .. MaxMishaps
      BY <2>2 DEF TypeOK
  <2> QED
      BY <2>1, <2>2, <2>3, UnderWayTypes
<1>8. CASE Lose
  <2>1. mishaps' \in 0 .. MaxMishaps
      BY <1>0, <1>8 DEF Lose
  <2>2. /\ connected' = FALSE /\ requests' = <<>> /\ answers' = <<>> /\ acks' = 0
        /\ UNCHANGED <<pc, whole, job, players, named, data, updated, rate, func, main, entry>>
      BY <1>8 DEF Lose, threadVars, dataVars
  <2> QED
      BY <2>1, <2>2, UnderWayTypes
<1> QED
    BY <1>1, <1>2, <1>3, <1>4, <1>5, <1>6, <1>7, <1>8 DEF Process

\* Type correctness.  Two facts in it are not plain: the timeout never gets down to
\* zero, with which MasterClient's thread would not sleep at all, and the data never
\* count or name players there cannot be.
THEOREM TypeCorrect == Spec => []TypeOK
<1>1. Init => TypeOK
  <2> SUFFICES ASSUME Init PROVE TypeOK
      OBVIOUS
  <2>1. Cardinality(Names) \in Nat
      BY NamesAssumption, FS_CardinalityType
  <2>2. data \in Data
      BY <2>1, ModeAssumption DEF Init, Data
  <2>3. rate \in 1 .. FirstRate
      BY RateAssumption DEF Init
  <2>4. requests \in Seq([func : Funcs, data : Data \cup {NotListed}]) /\ answers \in Seq({"KEEP", "DELETE"})
      BY NothingUnderWay DEF Init
  <2>5. acks \in Nat /\ mishaps \in 0 .. MaxMishaps
      BY MishapAssumption DEF Init
  <2> QED
      BY <2>2, <2>3, <2>4, <2>5, Zenon DEF Init, TypeOK, Funcs
<1>2. TypeOK /\ [Next]_vars => TypeOK'
  <2> SUFFICES ASSUME TypeOK, [Next]_vars PROVE TypeOK'
      OBVIOUS
  <2>1. CASE UNCHANGED vars
      BY <2>1 DEF vars, threadVars, dataVars, netVars, TypeOK
  <2> QED
      BY <2>1, ThreadTypes, OtherTypes DEF Next
<1> QED
    BY <1>1, <1>2, PTL DEF Spec
-----------------------------------------------------------------------------
(* The entry and the data.  As long as nothing went wrong, each round waits *)
(* for the last one, and what the master has yet to learn is remembered: by *)
(* updated, by what Send is called with, by the function of the packet      *)
(* object, or by the packet that is under way, one after the other.         *)

\* The master has nothing else than what the server has.
Fresh == entry # NotListed => entry = data

\* What is sent with function f makes up for what the master does not have.
Bears(f) == f = "ANNOUNCE" \/ (f = "KEEP" /\ Fresh)

\* The packet does.
Carries(packet) == \/ packet.func = "ANNOUNCE" /\ packet.data = data
                   \/ packet.func = "KEEP" /\ Fresh

\* One packet or answer at a time, none of them while the next one is made.
RoundInv ==
    /\ pc \in {"compare", "build", "connect", "send"} => Quiet
    /\ requests # <<>> => Len(requests) = 1 /\ answers = <<>> /\ acks = 0 /\ main = "idle"
    /\ pc = "send" => connected
    /\ Sending => ~updated

CarryInv ==
    /\ pc = "connect" => Bears(job)
    /\ pc = "send" => Bears(func)
    /\ requests # <<>> /\ ~updated => Carries(Head(requests))

FreshInv == pc \in {"asleep", "compare", "build", "clear"} /\ ~updated /\ requests = <<>> => Fresh

\* The inductive invariant.
ListingInv == mishaps = 0 => RoundInv /\ CarryInv /\ FreshInv

\* A round: the thread.
LEMMA ThreadKeeps ==
    ASSUME TypeOK, RoundInv, CarryInv, FreshInv, Thread \/ CannotConnect, mishaps = 0, mishaps' = 0
    PROVE  RoundInv' /\ CarryInv' /\ FreshInv'
<1>1. CASE Wake
  <2>1. /\ pc = "asleep" /\ pc' = "compare" /\ Quiet
        /\ data' = [data EXCEPT !.count = Cardinality(players)]
        /\ updated' = (updated \/ data.count # Cardinality(players))
        /\ UNCHANGED <<main, connected, requests, answers, acks, entry>>
      BY <1>1 DEF Wake, Mishap, netVars
  <2>2. ~updated' => data' = data /\ ~updated
      BY <2>1, DataFacts DEF TypeOK
  <2>3. ~updated' => Fresh'
      BY <2>1, <2>2 DEF FreshInv, Fresh, Quiet
  <2> QED
      BY <2>1, <2>3 DEF RoundInv, CarryInv, FreshInv, Quiet, Sending
<1>2. CASE Compare
  <2>1. /\ pc = "compare" /\ pc' = "build" /\ (updated' \/ (updated' = updated /\ data' = data))
        /\ UNCHANGED <<main, connected, requests, answers, acks, entry>>
      BY <1>2 DEF Compare, netVars
  <2> QED
      BY <2>1 DEF RoundInv, CarryInv, FreshInv, Fresh, Quiet, Sending
<1>3. CASE Build
  <2>1. /\ pc = "build" /\ pc' = "connect" /\ updated' = FALSE
        /\ updated => job' = "ANNOUNCE"
        /\ ~updated => job' = "KEEP" /\ data' = data
        /\ UNCHANGED <<main, connected, requests, answers, acks, entry>>
      BY <1>3 DEF Build, netVars
  <2>2. requests = <<>>
      BY <2>1 DEF RoundInv, Quiet
  <2>3. Bears(job)'
      BY <2>1, <2>2 DEF FreshInv, Bears, Fresh
  <2> QED
      BY <2>1, <2>2, <2>3 DEF RoundInv, CarryInv, FreshInv, Quiet, Sending
<1>4. CASE Connect
  <2>1. /\ pc = "connect" /\ pc' = "send" /\ connected' = TRUE /\ func' = job
        /\ UNCHANGED <<data, updated, main, requests, answers, acks, entry>>
      BY <1>4 DEF Connect, dataVars
  <2>2. Bears(func)' /\ requests = <<>>
      BY <2>1 DEF RoundInv, CarryInv, Bears, Fresh, Quiet
  <2> QED
      BY <2>1, <2>2 DEF RoundInv, CarryInv, FreshInv, Quiet, Sending
<1>5. CASE Send
  <2>1. /\ pc = "send" /\ pc' = "clear" /\ requests' = IF connected THEN Append(requests, Packet) ELSE requests
        /\ UNCHANGED <<data, updated, main, connected, answers, acks, entry>>
      BY <1>5 DEF Send, dataVars
  <2>2. connected /\ Quiet /\ Bears(func) /\ ~updated
      BY <2>1 DEF RoundInv, CarryInv, Sending
  <2>3. PICK packet : packet = Packet
      OBVIOUS
  <2>4. Carries(packet)'
    <3>1. packet.func = func /\ (func = "ANNOUNCE" => packet.data = data)
        BY <2>3 DEF Packet
    <3> QED
        BY <2>1, <2>2, <3>1 DEF Carries, Bears, Fresh
  <2>5. requests' = <<packet>> /\ Len(requests') = 1 /\ Head(requests') = packet
      BY <2>1, <2>2, <2>3 DEF Quiet
  <2>6. RoundInv'
      BY <2>1, <2>2, <2>5 DEF RoundInv, Quiet, Sending
  <2>7. CarryInv' /\ FreshInv'
      BY <2>1, <2>4, <2>5 DEF CarryInv, FreshInv
  <2> QED
      BY <2>6, <2>7
<1>6. CASE Clear
  <2>1. /\ pc = "clear" /\ pc' = "asleep" /\ updated' = FALSE
        /\ UNCHANGED <<data, main, connected, requests, answers, acks, entry>>
      BY <1>6 DEF Clear, dataVars, netVars
  <2>2. ~updated
      BY <2>1 DEF RoundInv, Sending
  <2> QED
      BY <2>1, <2>2 DEF RoundInv, CarryInv, FreshInv, Carries, Fresh, Quiet, Sending
<1>7. CASE CannotConnect
    BY <1>7 DEF CannotConnect, Mishap
<1> QED
    BY <1>1, <1>2, <1>3, <1>4, <1>5, <1>6, <1>7 DEF Thread

\* The main thread, the master and the network in between.
LEMMA OthersKeep ==
    ASSUME TypeOK, RoundInv, CarryInv, FreshInv, mishaps = 0, mishaps' = 0,
           \/ (\E mode \in Modes : SetMode(mode)) \/ ChangePlayers \/ Process
           \/ Handle \/ Expire \/ Acknowledged \/ Lose
    PROVE  RoundInv' /\ CarryInv' /\ FreshInv'
<1>1. ASSUME NEW mode \in Modes, SetMode(mode) PROVE RoundInv' /\ CarryInv' /\ FreshInv'
  <2>1. /\ ~Sending /\ updated' = TRUE
        /\ UNCHANGED <<pc, main, connected, requests, answers, acks, entry>>
      BY <1>1 DEF SetMode, Mishap, threadVars, netVars
  <2> QED
      BY <2>1 DEF RoundInv, CarryInv, FreshInv, Quiet, Sending
<1>2. CASE ChangePlayers
  <2>1. UNCHANGED <<pc, job, data, updated, func, main, connected, requests, answers, acks, entry>>
      BY <1>2 DEF ChangePlayers, threadVars, netVars
  <2> QED
      BY <2>1 DEF RoundInv, CarryInv, FreshInv, Quiet, Sending, Bears, Carries, Fresh
<1>3. CASE ReadAnswer
  <2>1. /\ main' = "read" /\ answers # <<>> /\ acks' = acks + 1
        /\ UNCHANGED <<pc, job, data, updated, connected, requests, entry>>
      BY <1>3 DEF ReadAnswer, threadVars, dataVars
  <2>2. pc \notin {"compare", "build", "connect", "send"} /\ requests = <<>>
      BY <2>1 DEF RoundInv, Quiet
  <2> QED
      BY <2>1, <2>2 DEF RoundInv, CarryInv, FreshInv, Quiet, Sending, Fresh
<1>4. CASE ActOnAnswer
  <2>1. /\ main = "read" /\ main' = "idle"
        /\ updated' = updated \/ (updated' = TRUE /\ ~Sending)
        /\ UNCHANGED <<pc, job, data, func, connected, requests, answers, acks, entry>>
      BY <1>4 DEF ActOnAnswer, Mishap, threadVars, dataVars, netVars
  <2>2. pc \notin {"compare", "build", "connect", "send"} /\ requests = <<>>
      BY <2>1 DEF RoundInv, Quiet
  <2> QED
      BY <2>1, <2>2 DEF RoundInv, CarryInv, FreshInv, Sending, Fresh
<1>5. CASE Handle
  <2>1. requests # <<>> /\ requests' = Tail(requests)
        /\ UNCHANGED <<pc, job, data, updated, func, main, connected, acks>>
      BY <1>5 DEF Handle, threadVars, dataVars
  <2>2. pc \notin {"compare", "build", "connect", "send"} /\ requests' = <<>> /\ main = "idle"
      BY <2>1 DEF RoundInv, Quiet, TypeOK
  <2>3. ~updated => Fresh'
    <3>1. PICK packet : packet = Head(requests)
        OBVIOUS
    <3>2. \/ packet.func = "ANNOUNCE" /\ entry' = packet.data
          \/ packet.func = "KEEP" /\ entry' \in {entry, NotListed}
          \/ packet.func \notin {"ANNOUNCE", "KEEP"}
        BY <1>5, <3>1 DEF Handle
    <3>3. ~updated => Carries(packet)
        BY <2>1, <3>1 DEF CarryInv
    <3> QED
        BY <2>1, <3>2, <3>3 DEF Carries, Fresh
  <2> QED
      BY <2>1, <2>2, <2>3 DEF RoundInv, CarryInv, FreshInv, Sending
<1>6. CASE Expire
  <2>1. /\ entry' = NotListed /\ UNCHANGED <<pc, job, data, updated, func, main, connected, requests, answers, acks>>
      BY <1>6 DEF Expire, threadVars, dataVars, netVars
  <2> QED
      BY <2>1 DEF RoundInv, CarryInv, FreshInv, Quiet, Sending, Bears, Carries, Fresh
<1>7. CASE Acknowledged
  <2>1. /\ acks > 0 /\ (answers' = answers \/ answers' = <<>>)
        /\ UNCHANGED <<pc, job, data, updated, func, main, entry>>
        /\ requests' = requests \/ requests' = <<>>
      BY <1>7 DEF Acknowledged, threadVars, dataVars
  <2>2. pc \notin {"compare", "build", "connect", "send"} /\ requests = <<>> /\ requests' = <<>>
      BY <2>1 DEF RoundInv, Quiet
  <2> QED
      BY <2>1, <2>2 DEF RoundInv, CarryInv, FreshInv, Sending, Fresh
<1>8. CASE Lose
    BY <1>8 DEF Lose, Mishap
<1> QED
    BY <1>1, <1>2, <1>3, <1>4, <1>5, <1>6, <1>7, <1>8 DEF Process

\* What went wrong is not made good again.
LEMMA MishapsStay ==
    ASSUME TypeOK, [Next]_vars, mishaps' = 0
    PROVE  mishaps = 0
<1>1. ASSUME Mishap PROVE FALSE
    BY <1>1 DEF Mishap, TypeOK
<1>2. mishaps' = mishaps
    BY <1>1 DEF Next, Thread, Process, Wake, Compare, Build, Connect, Send, Clear, CannotConnect, SetMode,
                ChangePlayers, ReadAnswer, ActOnAnswer, Handle, Expire, Acknowledged, Lose, vars
<1> QED
    BY <1>2

\* Without mishaps, what is announced in a round, what the packets of it carry and what
\* the master has of the last one are the data of the server, or it has to announce again.
THEOREM ListingInvariant == Spec => []ListingInv
<1>1. Init => ListingInv
    BY DEF Init, ListingInv, RoundInv, CarryInv, FreshInv, Quiet, Sending, Fresh
<1>2. TypeOK /\ ListingInv /\ [Next]_vars => ListingInv'
  <2> SUFFICES ASSUME TypeOK, ListingInv, [Next]_vars, mishaps' = 0 PROVE RoundInv' /\ CarryInv' /\ FreshInv'
      BY DEF ListingInv
  <2>1. mishaps = 0
      BY MishapsStay
  <2>2. RoundInv /\ CarryInv /\ FreshInv
      BY <2>1 DEF ListingInv
  <2>3. CASE Next
      BY <2>1, <2>2, <2>3, ThreadKeeps, OthersKeep DEF Next
  <2>4. CASE UNCHANGED vars
      BY <2>2, <2>4 DEF vars, threadVars, dataVars, netVars, RoundInv, CarryInv, FreshInv, Quiet, Sending, Bears,
                        Carries, Fresh
  <2> QED
      BY <2>3, <2>4
<1> QED
    BY <1>1, <1>2, TypeCorrect, PTL DEF Spec

\* Unless something went wrong, a server that is listed is listed with the data it
\* has whenever nothing of them waits for the next round, however the threads of
\* the server, the master and the network took turns.
THEOREM ListedAsItIs == Spec => []UpToDate
<1>1. ListingInv => UpToDate
    BY DEF ListingInv, FreshInv, Fresh, UpToDate, Quiet
<1> QED
    BY <1>1, ListingInvariant, PTL
===============================================================================
