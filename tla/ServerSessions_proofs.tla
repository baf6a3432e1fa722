------------------------ MODULE ServerSessions_proofs ------------------------
(****************************************************************************)
(* Proofs about ServerSessions, for any set of clients, any number of slots *)
(* and any length of the queue.                                             *)
(****************************************************************************)
EXTENDS ServerSessions, FiniteSetTheorems, TLAPS

USE GuidsAssumption, LimitsAssumption, OptionsAssumption

\* Every step of the server changes Players::players, Players::slots and the
\* ids in one of three ways: it creates a session, deletes one, or leaves the
\* three alone.
TableStep ==
    \/ \E g \in Guids : g \notin players /\ NewPlayer(g)
    \/ \E g \in Guids : g \in players /\ DeletePlayer(g)
    \/ UNCHANGED <<players, slots, pid>>

LEMMA TableSteps == [Next]_vars => TableStep
<1> SUFFICES ASSUME [Next]_vars PROVE TableStep
    OBVIOUS
<1>1. CASE UNCHANGED vars
    BY <1>1 DEF TableStep, vars
<1>2. ASSUME NEW g \in Guids, DisconnectPlayer(g) PROVE TableStep
    BY <1>2 DEF TableStep, DisconnectPlayer, sessionVars
<1>3. ASSUME NEW g \in Guids, NEW files \in {"invalid", "mismatch", "match"}, PreInit(g, files)
      PROVE TableStep
    BY <1>3 DEF TableStep, PreInit, sessionVars
<1>4. ASSUME NEW g \in Guids, Handshake(g) PROVE TableStep
    BY <1>4 DEF TableStep, Handshake, sessionVars
<1>5. ASSUME NEW g \in Guids, BeforeHandshake(g) PROVE TableStep
    BY <1>5 DEF TableStep, BeforeHandshake
<1>6. ASSUME NEW g \in Guids, Loaded(g) PROVE TableStep
    BY <1>6 DEF TableStep, Loaded
<1>7. ASSUME NEW g \in Guids, BaseInfo(g) \/ PlayerPacket(g) \/ GamePacket(g) \/ UnknownPacket(g) PROVE TableStep
    BY <1>7 DEF TableStep, PlayerPacket, GamePacket, UnknownPacket, BaseInfo, sessionVars
<1>8. ASSUME NEW g \in Guids, Network(g) PROVE TableStep
    BY <1>8 DEF TableStep, Network, Connect, Arrive, ClientGone, CloseCompletes, End, sessionVars
<1>9. ASSUME NEW g \in Guids, ScriptKick(g) PROVE TableStep
    BY <1>9 DEF TableStep, ScriptKick
<1> QED
    BY <1>1, <1>2, <1>3, <1>4, <1>5, <1>6, <1>7, <1>8, <1>9 DEF Next, MainLoop, Handle

-----------------------------------------------------------------------------
(* Types. *)

LEMMA ClosedType ==
    ASSUME NEW g \in Guids, TypeOK
    PROVE  Closed(g) \in [Guids -> {"none", "open", "closing"}]
BY DEF Closed, TypeOK

LEMMA EndPacketIsMessage ==
    ASSUME NEW g \in Guids
    PROVE  [from |-> g, packet |-> EndPacket] \in Messages
BY DEF Messages

LEMMA NewPlayerType ==
    ASSUME NEW g \in Guids, TypeOK, NewPlayer(g)
    PROVE  /\ players' \subseteq Guids
           /\ slots' \in [Slots -> Guids \cup {NoPlayer}]
           /\ pid' \in [Guids -> Slots \cup {NoId}]
           /\ attempts' \in [Guids -> Counts]
           /\ load' \in [Guids -> LoadStates]
           /\ greeted' \subseteq players'
           /\ served' \subseteq players'
<1>1. 0 \in Counts /\ "NOTLOADED" \in LoadStates
    BY DEF Counts, HandshakeDone, LoadStates
<1> QED
    BY <1>1 DEF TypeOK, NewPlayer

LEMMA DeletePlayerType ==
    ASSUME NEW g \in Guids, TypeOK, DeletePlayer(g)
    PROVE  /\ players' \subseteq Guids
           /\ slots' \in [Slots -> Guids \cup {NoPlayer}]
           /\ pid' \in [Guids -> Slots \cup {NoId}]
           /\ attempts' \in [Guids -> Counts]
           /\ load' \in [Guids -> LoadStates]
           /\ greeted' \subseteq players'
           /\ served' \subseteq players'
<1>1. 0 \in Counts /\ "NOTLOADED" \in LoadStates
    BY DEF Counts, HandshakeDone, LoadStates
<1> QED
    BY <1>1 DEF TypeOK, DeletePlayer

\* The variables always have the types TypeOK gives them, and only live
\* sessions are recorded as greeted or served.
THEOREM TypeCorrect == Spec => []TypeOK
<1>1. Init => TypeOK
    BY DEF Init, TypeOK, Counts, HandshakeDone, LoadStates
<1>2. TypeOK /\ [Next]_vars => TypeOK'
  <2> SUFFICES ASSUME TypeOK, [Next]_vars PROVE TypeOK'
      OBVIOUS
  <2>1. ASSUME NEW g \in Guids, NEW types, Take(g, types) PROVE inbox' \in Seq(Messages)
      BY <2>1 DEF Take, TypeOK
  <2>2. ASSUME NEW g \in Guids, DisconnectPlayer(g) PROVE TypeOK'
      BY <2>1, <2>2, DeletePlayerType DEF DisconnectPlayer, TypeOK, sessionVars
  <2>3. ASSUME NEW g \in Guids, NEW files \in {"invalid", "mismatch", "match"}, PreInit(g, files)
        PROVE TypeOK'
      BY <2>1, <2>3, NewPlayerType, ClosedType DEF PreInit, TypeOK, sessionVars
  <2>4. ASSUME NEW g \in Guids, Handshake(g) PROVE TypeOK'
    <3>1. HandshakeDone \in Counts
        BY DEF Counts, HandshakeDone
    <3>2. inbox' \in Seq(Messages)
        BY <2>1, <2>4 DEF Handshake
    <3>3. CASE conn' = Closed(g) /\ UNCHANGED sessionVars
        BY <3>2, <3>3, ClosedType DEF TypeOK, sessionVars
    <3>4. CASE /\ attempts' = [attempts EXCEPT ![g] = HandshakeDone]
               /\ UNCHANGED <<conn, players, slots, pid, load, greeted, served>>
        BY <3>1, <3>2, <3>4 DEF TypeOK
    <3> QED
        BY <2>4, <3>3, <3>4 DEF Handshake
  <2>5. ASSUME NEW g \in Guids, BeforeHandshake(g) PROVE TypeOK'
    <3>1. \A n \in Counts : n <= AttemptLimit => n + 1 \in Counts
        BY DEF Counts, HandshakeDone
    <3>2. attempts[g] \in Counts /\ attempts[g] \in Nat
        BY DEF TypeOK, Counts
    <3>3. (IF attempts[g] > AttemptLimit THEN attempts[g] ELSE attempts[g] + 1) \in Counts
        BY <3>1, <3>2
    <3>4. inbox' \in Seq(Messages)
        BY <2>1, <2>5 DEF BeforeHandshake
    <3>5. conn' \in [Guids -> {"none", "open", "closing"}]
        BY <2>5, ClosedType DEF BeforeHandshake, TypeOK
    <3>6. attempts' \in [Guids -> Counts]
        BY <2>5, <3>3 DEF BeforeHandshake, TypeOK
    <3> QED
        BY <2>5, <3>4, <3>5, <3>6 DEF BeforeHandshake, TypeOK
  <2>6. ASSUME NEW g \in Guids, Loaded(g) PROVE TypeOK'
    <3>1. "POSTLOADED" \in LoadStates
        BY DEF LoadStates
    <3>2. inbox' \in Seq(Messages)
        BY <2>1, <2>6 DEF Loaded
    <3>3. CASE conn' = Closed(g) /\ DeletePlayer(g)
        BY <3>2, <3>3, ClosedType, DeletePlayerType DEF TypeOK
    <3>4. CASE ~(conn' = Closed(g) /\ DeletePlayer(g))
        BY <2>6, <3>1, <3>2, <3>4 DEF Loaded, TypeOK
    <3> QED
        BY <3>3, <3>4
  <2>7. ASSUME NEW g \in Guids, BaseInfo(g) \/ PlayerPacket(g) \/ GamePacket(g) \/ UnknownPacket(g) PROVE TypeOK'
      BY <2>1, <2>7 DEF PlayerPacket, GamePacket, UnknownPacket, BaseInfo, TypeOK, sessionVars
  <2>8. ASSUME NEW g \in Guids, Network(g) PROVE TypeOK'
    <3>1. CASE Connect(g)
        BY <3>1 DEF Connect, TypeOK, sessionVars
    <3>2. ASSUME NEW p \in Packets, Arrive(g, p) PROVE TypeOK'
      <4>1. [from |-> g, packet |-> p] \in Messages
          BY DEF Messages
      <4> QED
          BY <3>2, <4>1 DEF Arrive, TypeOK, sessionVars
    <3>3. CASE ClientGone(g) \/ CloseCompletes(g)
      <4>1. /\ inbox' = Append(inbox, [from |-> g, packet |-> EndPacket])
            /\ conn' = [conn EXCEPT ![g] = "none"]
            /\ UNCHANGED sessionVars
          BY <3>3 DEF ClientGone, CloseCompletes, End
      <4>2. inbox' \in Seq(Messages)
          BY <4>1, EndPacketIsMessage DEF TypeOK
      <4> QED
          BY <4>1, <4>2 DEF TypeOK, sessionVars
    <3> QED
        BY <2>8, <3>1, <3>2, <3>3 DEF Network
  <2>9. ASSUME NEW g \in Guids, ScriptKick(g) PROVE TypeOK'
      BY <2>9, ClosedType DEF ScriptKick, TypeOK, LoadStates
  <2>10. CASE UNCHANGED vars
      BY <2>10 DEF TypeOK, vars
  <2> QED
      BY <2>2, <2>3, <2>4, <2>5, <2>6, <2>7, <2>8, <2>9, <2>10 DEF Next, MainLoop, Handle
<1> QED
    BY <1>1, <1>2, PTL DEF Spec

-----------------------------------------------------------------------------
(* The id table. *)

\* No id leads to a deleted session or to the session of another client.
THEOREM SlotsConsistent == Spec => []SlotsMatchPlayers
<1>1. Init => SlotsMatchPlayers
    BY DEF Init, SlotsMatchPlayers
<1>2. TypeOK /\ SlotsMatchPlayers /\ [Next]_vars => SlotsMatchPlayers'
  <2> SUFFICES ASSUME TypeOK, SlotsMatchPlayers, TableStep PROVE SlotsMatchPlayers'
      BY TableSteps
  <2>1. NoId \notin Slots
      BY DEF NoId, Slots
  <2>2. CASE \E g \in Guids : g \notin players /\ NewPlayer(g)
      BY <2>1, <2>2 DEF NewPlayer, FreeSlot, SlotsMatchPlayers, TypeOK
  <2>3. CASE \E g \in Guids : g \in players /\ DeletePlayer(g)
      BY <2>1, <2>3 DEF DeletePlayer, SlotsMatchPlayers, TypeOK
  <2>4. CASE UNCHANGED <<players, slots, pid>>
      BY <2>4 DEF SlotsMatchPlayers
  <2> QED
      BY <2>2, <2>3, <2>4 DEF TableStep
<1> QED
    BY <1>1, <1>2, TypeCorrect, PTL DEF Spec

\* A session keeps its id for as long as it lasts.
THEOREM PidsStable == Spec => StablePid
<1>1. TypeOK /\ [Next]_vars => [\A g \in players \cap players' : pid'[g] = pid[g]]_vars
  <2> SUFFICES ASSUME TypeOK, TableStep, NEW g \in players \cap players' PROVE pid'[g] = pid[g]
      BY TableSteps
  <2> QED
      BY DEF TableStep, NewPlayer, DeletePlayer, TypeOK
<1> QED
    BY <1>1, TypeCorrect, PTL DEF Spec, StablePid

\* The table is an implementation of PidAllocation: ids are given and taken
\* back exactly as the abstract specification allows.
THEOREM PidsImplemented == Spec => PidsAllocated
<1>1. Init => Pids!PidInit
    BY DEF Init, Pids!PidInit, Pids!Ids, Slots
<1>2. TypeOK /\ SlotsMatchPlayers /\ [Next]_vars => [Pids!PidNext]_slots
  <2> SUFFICES ASSUME TypeOK, SlotsMatchPlayers, TableStep, slots' # slots PROVE Pids!PidNext
      BY TableSteps
  <2>1. Slots = Pids!Ids
      BY DEF Slots, Pids!Ids
  <2>2. ASSUME NEW g \in Guids, g \notin players, NewPlayer(g) PROVE Pids!PidNext
    <3>1. PICK s \in Slots : FreeSlot(s) /\ slots' = [slots EXCEPT ![s] = g]
        BY <2>2 DEF NewPlayer
    <3>2. \A t \in Slots : slots[t] # g
        BY <2>2 DEF SlotsMatchPlayers
    <3>3. Pids!Join(g, s)
        BY <2>1, <3>1, <3>2 DEF FreeSlot, Pids!Join
    <3> QED
        BY <2>1, <3>3 DEF Pids!PidNext
  <2>3. ASSUME NEW g \in Guids, g \in players, DeletePlayer(g) PROVE Pids!PidNext
    <3>1. pid[g] \in Slots /\ slots[pid[g]] = g
        BY <2>3 DEF DeletePlayer, SlotsMatchPlayers
    <3>2. Pids!Leave(g, pid[g])
        BY <2>3, <3>1 DEF DeletePlayer, Pids!Leave
    <3> QED
        BY <2>1, <3>1, <3>2 DEF Pids!PidNext
  <2> QED
      BY <2>2, <2>3 DEF TableStep
<1> QED
    BY <1>1, <1>2, TypeCorrect, SlotsConsistent, PTL DEF Spec, PidsAllocated, Pids!PidSpec

-----------------------------------------------------------------------------
(* Connections and the queue. *)

\* The end of g's connection is queued behind position i, or the connection
\* has not ended.
BackedAfter(g, i) ==
    conn[g] # "none" \/ \E j \in DOMAIN inbox : j > i /\ inbox[j] = [from |-> g, packet |-> EndPacket]

\* What makes NoOrphanSession inductive: a packet in the queue comes from a
\* connection that is still there, or whose end is queued behind the packet.
PacketsBacked ==
    \A i \in DOMAIN inbox : inbox[i].packet # EndPacket => BackedAfter(inbox[i].from, i)

\* The handler of the oldest message takes it and at most starts to close the
\* connection of its sender.
TakeStep(g) ==
    /\ inbox # <<>> /\ Head(inbox).from = g /\ inbox' = Tail(inbox)
    /\ conn' = conn \/ conn' = Closed(g)

\* The state of the queue after a take: everything moved up by one.
LEMMA TakeShifts ==
    ASSUME TypeOK, NEW h \in Guids, TakeStep(h)
    PROVE  /\ DOMAIN inbox = 1 .. Len(inbox) /\ Len(inbox) \in Nat \ {0}
           /\ DOMAIN inbox' = 1 .. Len(inbox) - 1
           /\ \A i \in DOMAIN inbox' : i + 1 \in DOMAIN inbox /\ inbox'[i] = inbox[i + 1]
           /\ inbox[1] = Head(inbox)
           /\ \A g \in Guids : conn'[g] = "none" <=> conn[g] = "none"
           /\ \A g \in Guids : conn'[g] = "open" => conn[g] = "open"
<1>1. inbox \in Seq(Messages) /\ inbox # <<>> /\ inbox' = Tail(inbox)
    BY DEF TypeOK, TakeStep
<1>2. /\ DOMAIN inbox = 1 .. Len(inbox) /\ Len(inbox) \in Nat \ {0}
      /\ DOMAIN inbox' = 1 .. Len(inbox) - 1
      /\ \A i \in DOMAIN inbox' : i + 1 \in DOMAIN inbox /\ inbox'[i] = inbox[i + 1]
      /\ inbox[1] = Head(inbox)
    BY <1>1
<1>3. \A g \in Guids : conn'[g] = "none" <=> conn[g] = "none"
    BY DEF TypeOK, TakeStep, Closed
<1>4. \A g \in Guids : conn'[g] = "open" => conn[g] = "open"
    BY DEF TypeOK, TakeStep, Closed
<1> QED
    BY <1>2, <1>3, <1>4

LEMMA BackedShifts ==
    ASSUME TypeOK, NEW h \in Guids, TakeStep(h), NEW g \in Guids, NEW i \in Nat, BackedAfter(g, i + 1)
    PROVE  BackedAfter(g, i)'
<1>1. CASE conn[g] # "none"
    BY <1>1, TakeShifts DEF BackedAfter
<1>2. CASE \E j \in DOMAIN inbox : j > i + 1 /\ inbox[j] = [from |-> g, packet |-> EndPacket]
  <2>1. PICK j \in DOMAIN inbox : j > i + 1 /\ inbox[j] = [from |-> g, packet |-> EndPacket]
      BY <1>2
  <2>2. j - 1 \in DOMAIN inbox' /\ j - 1 > i /\ inbox'[j - 1] = inbox[j]
      BY <2>1, TakeShifts
  <2> QED
      BY <2>1, <2>2 DEF BackedAfter
<1> QED
    BY <1>1, <1>2 DEF BackedAfter

\* Taking a message leaves the rest of the queue backed, and so every session
\* except the one whose end was taken.
LEMMA TakeKeepsBacked ==
    ASSUME TypeOK, PacketsBacked, NEW h \in Guids, TakeStep(h)
    PROVE  /\ PacketsBacked'
           /\ Head(inbox).packet # EndPacket => BackedAfter(h, 0)'
           /\ \A g \in Guids : /\ BackedAfter(g, 0)
                               /\ Head(inbox) # [from |-> g, packet |-> EndPacket]
                               => BackedAfter(g, 0)'
<1>1. ASSUME NEW i \in DOMAIN inbox', inbox'[i].packet # EndPacket
      PROVE  (i \in DOMAIN inbox /\ inbox[i].packet # EndPacket => BackedAfter(inbox[i].from, i))'
  <2>1. i \in Nat /\ i + 1 \in DOMAIN inbox /\ inbox'[i] = inbox[i + 1]
      BY TakeShifts
  <2>2. inbox[i + 1] \in Messages
      BY <2>1 DEF TypeOK
  <2>3. PICK g \in Guids : g = inbox[i + 1].from
      BY <2>2 DEF Messages
  <2>4. BackedAfter(g, i + 1)
      BY <1>1, <2>1, <2>3 DEF PacketsBacked
  <2>5. BackedAfter(g, i)'
      BY <2>1, <2>4, BackedShifts
  <2> QED
      BY <2>1, <2>3, <2>5
<1>2. PacketsBacked'
    BY <1>1 DEF PacketsBacked
<1>3. ASSUME Head(inbox).packet # EndPacket PROVE BackedAfter(h, 0)'
  <2>1. BackedAfter(h, 1)
      BY <1>3, TakeShifts DEF PacketsBacked, TakeStep
  <2> QED
      BY <2>1, BackedShifts
<1>4. ASSUME NEW g \in Guids, BackedAfter(g, 0), Head(inbox) # [from |-> g, packet |-> EndPacket]
      PROVE  BackedAfter(g, 0)'
  <2>1. BackedAfter(g, 1)
      BY <1>4, TakeShifts DEF BackedAfter
  <2> QED
      BY <2>1, BackedShifts
<1> QED
    BY <1>2, <1>3, <1>4

\* Every handler takes one message, and DisconnectPlayer takes only ends.
LEMMA HandlersTake ==
    ASSUME NEW g \in Guids, Handle(g)
    PROVE  TakeStep(g) /\ (DisconnectPlayer(g) \/ Head(inbox).packet # EndPacket)
<1>1. ASSUME DisconnectPlayer(g) PROVE TakeStep(g)
    BY <1>1 DEF DisconnectPlayer, Take, TakeStep
<1>2. ASSUME NEW files \in {"invalid", "mismatch", "match"}, PreInit(g, files)
      PROVE  TakeStep(g) /\ Head(inbox).packet # EndPacket
    BY <1>2 DEF PreInit, Take, TakeStep, EndPacket
<1>3. ASSUME Handshake(g) PROVE TakeStep(g) /\ Head(inbox).packet # EndPacket
    BY <1>3 DEF Handshake, Take, TakeStep, EndPacket
<1>4. ASSUME BeforeHandshake(g) PROVE TakeStep(g) /\ Head(inbox).packet # EndPacket
    BY <1>4 DEF BeforeHandshake, Take, TakeStep, EndPacket
<1>5. ASSUME Loaded(g) PROVE TakeStep(g) /\ Head(inbox).packet # EndPacket
    BY <1>5 DEF Loaded, Take, TakeStep, EndPacket
<1>6. ASSUME BaseInfo(g) \/ PlayerPacket(g) \/ GamePacket(g) \/ UnknownPacket(g)
      PROVE  TakeStep(g) /\ Head(inbox).packet # EndPacket
    BY <1>6 DEF PlayerPacket, GamePacket, UnknownPacket, BaseInfo, Take, TakeStep, EndPacket
<1> QED
    BY <1>1, <1>2, <1>3, <1>4, <1>5, <1>6 DEF Handle

\* A handler leaves the sessions of all clients but the sender alone; the one
\* of the sender it may create, delete or keep.
LEMMA HandlersLeaveOthers ==
    ASSUME TypeOK, NEW h \in Guids, Handle(h)
    PROVE  \A g \in Guids \ {h} : (g \in players <=> g \in players') /\ attempts'[g] = attempts[g]
<1>1. ASSUME DisconnectPlayer(h) PROVE \A g \in Guids \ {h} : (g \in players <=> g \in players') /\ attempts'[g] = attempts[g]
    BY <1>1 DEF DisconnectPlayer, DeletePlayer, TypeOK, sessionVars
<1>2. ASSUME NEW files \in {"invalid", "mismatch", "match"}, PreInit(h, files)
      PROVE  \A g \in Guids \ {h} : (g \in players <=> g \in players') /\ attempts'[g] = attempts[g]
    BY <1>2 DEF PreInit, NewPlayer, TypeOK, sessionVars
<1>3. ASSUME Handshake(h) \/ BeforeHandshake(h) \/ Loaded(h)
      PROVE  \A g \in Guids \ {h} : (g \in players <=> g \in players') /\ attempts'[g] = attempts[g]
    BY <1>3 DEF Handshake, BeforeHandshake, Loaded, DeletePlayer, TypeOK, sessionVars
<1>4. ASSUME BaseInfo(h) \/ PlayerPacket(h) \/ GamePacket(h) \/ UnknownPacket(h)
      PROVE  \A g \in Guids \ {h} : (g \in players <=> g \in players') /\ attempts'[g] = attempts[g]
    BY <1>4 DEF PlayerPacket, GamePacket, UnknownPacket, BaseInfo, sessionVars
<1> QED
    BY <1>1, <1>2, <1>3, <1>4 DEF Handle

\* What the handler does to the count of the sender's own session.
LEMMA HandlersCount ==
    ASSUME TypeOK, NEW g \in Guids, Handle(g), g \in players'
    PROVE  \/ attempts'[g] <= AttemptLimit
           \/ Handshaked(g)'
           \/ conn'[g] # "open"
           \/ attempts'[g] = attempts[g] /\ g \in players
<1>1. ASSUME DisconnectPlayer(g) PROVE FALSE
    BY <1>1 DEF DisconnectPlayer, DeletePlayer, sessionVars
<1>2. ASSUME NEW files \in {"invalid", "mismatch", "match"}, PreInit(g, files)
      PROVE  attempts'[g] <= AttemptLimit
    BY <1>2 DEF PreInit, NewPlayer, TypeOK, sessionVars
<1>3. ASSUME Handshake(g)
      PROVE  Handshaked(g)' \/ (attempts'[g] = attempts[g] /\ g \in players)
    BY <1>3 DEF Handshake, Handshaked, HandshakeDone, TypeOK, sessionVars
<1>4. ASSUME BeforeHandshake(g) PROVE attempts'[g] <= AttemptLimit \/ conn'[g] # "open"
    BY <1>4 DEF BeforeHandshake, Closed, TypeOK, Counts, HandshakeDone
<1>5. ASSUME Loaded(g) \/ BaseInfo(g) \/ PlayerPacket(g) \/ GamePacket(g) \/ UnknownPacket(g)
      PROVE  attempts'[g] = attempts[g] /\ g \in players
    BY <1>5 DEF Loaded, DeletePlayer, PlayerPacket, GamePacket, UnknownPacket, BaseInfo, TypeOK, sessionVars
<1> QED
    BY <1>1, <1>2, <1>3, <1>4, <1>5 DEF Handle

\* NoOrphanSession in terms of BackedAfter, which counts from before the queue.
LEMMA OrphanBacked ==
    ASSUME TypeOK, NEW g \in Guids
    PROVE  (conn[g] # "none" \/ EndPending(g)) <=> BackedAfter(g, 0)
BY DEF TypeOK, EndPending, BackedAfter

\* The strengthening of NoOrphanSession and FloodCutOff that steps preserve.
QueueInv == PacketsBacked /\ NoOrphanSession /\ FloodCutOff

LEMMA HandlersKeepQueueInv ==
    ASSUME TypeOK, TypeOK', QueueInv, NEW h \in Guids, Handle(h)
    PROVE  QueueInv'
<1>1. TakeStep(h) /\ (DisconnectPlayer(h) \/ Head(inbox).packet # EndPacket)
    BY HandlersTake
<1>2. PacketsBacked'
    BY <1>1, TakeKeepsBacked DEF QueueInv
<1>3. ASSUME NEW g \in players' PROVE BackedAfter(g, 0)'
  <2>1. g \in Guids
      BY DEF TypeOK
  <2>2. CASE g # h
    <3>1. g \in players
        BY <2>1, <2>2, HandlersLeaveOthers
    <3>2. BackedAfter(g, 0)
        BY <2>1, <3>1, OrphanBacked DEF QueueInv, NoOrphanSession
    <3>3. Head(inbox) # [from |-> g, packet |-> EndPacket]
        BY <1>1, <2>2 DEF TakeStep
    <3> QED
        BY <1>1, <2>1, <3>2, <3>3, TakeKeepsBacked DEF QueueInv
  <2>3. CASE g = h
    <3>1. ~DisconnectPlayer(h)
        BY <2>3 DEF DisconnectPlayer, DeletePlayer, sessionVars
    <3> QED
        BY <1>1, <2>3, <3>1, TakeKeepsBacked DEF QueueInv
  <2> QED
      BY <2>2, <2>3
<1>4. NoOrphanSession'
  <2>1. ASSUME NEW g \in players' PROVE (conn[g] # "none" \/ EndPending(g))'
    <3>1. g \in Guids
        BY DEF TypeOK
    <3>2. \E n \in Guids : n = g /\ BackedAfter(n, 0)'
        BY <1>3, <3>1
    <3> QED
        BY <3>2 DEF BackedAfter, EndPending
  <2> QED
      BY <2>1 DEF NoOrphanSession
<1>5. FloodCutOff'
  <2> SUFFICES ASSUME NEW g \in players', ~Handshaked(g)', attempts'[g] > AttemptLimit, conn'[g] = "open"
               PROVE  EndPending(g)'
      BY DEF FloodCutOff
  <2>1. g \in Guids /\ attempts'[g] \in Nat
      BY DEF TypeOK, Counts
  <2>2. attempts'[g] = attempts[g] /\ g \in players
    <3>1. CASE g = h
        BY <2>1, <3>1, HandlersCount
    <3>2. CASE g # h
        BY <2>1, <3>2, HandlersLeaveOthers
    <3> QED
        BY <3>1, <3>2
  <2>3. conn[g] = "open"
      BY <1>1, <2>1, TakeShifts
  <2>4. EndPending(g)
      BY <2>2, <2>3 DEF QueueInv, FloodCutOff, Handshaked
  <2>5. Head(inbox) # [from |-> g, packet |-> EndPacket]
    <3>1. CASE g = h
      <4>1. ~DisconnectPlayer(h)
          BY <3>1 DEF DisconnectPlayer, DeletePlayer, sessionVars
      <4> QED
          BY <1>1, <4>1
    <3>2. CASE g # h
        BY <1>1, <3>2 DEF TakeStep
    <3> QED
        BY <3>1, <3>2
  <2>6. PICK j \in DOMAIN inbox : inbox[j] = [from |-> g, packet |-> EndPacket]
      BY <2>4 DEF EndPending
  <2>7. j # 1 /\ j - 1 \in DOMAIN inbox' /\ inbox'[j - 1] = inbox[j]
      BY <1>1, <2>5, <2>6, TakeShifts
  <2> QED
      BY <2>6, <2>7 DEF EndPending
<1> QED
    BY <1>2, <1>4, <1>5 DEF QueueInv

\* The queue after an arrival: one message more at the back.
LEMMA AppendKeeps ==
    ASSUME TypeOK, NEW m \in Messages, inbox' = Append(inbox, m)
    PROVE  /\ Len(inbox) \in Nat /\ DOMAIN inbox = 1 .. Len(inbox) /\ DOMAIN inbox' = 1 .. Len(inbox) + 1
           /\ \A i \in DOMAIN inbox : inbox'[i] = inbox[i]
           /\ inbox'[Len(inbox) + 1] = m
BY DEF TypeOK

\* A step that leaves the queue alone and ends no connection.
LEMMA SameQueueBacked ==
    ASSUME TypeOK, PacketsBacked, UNCHANGED inbox, \A g \in Guids : conn[g] # "none" => conn'[g] # "none"
    PROVE  PacketsBacked'
<1> SUFFICES ASSUME NEW i \in DOMAIN inbox, inbox[i].packet # EndPacket
             PROVE  BackedAfter(inbox[i].from, i)'
    BY DEF PacketsBacked
<1>1. inbox[i] \in Messages
    BY DEF TypeOK
<1>2. PICK g \in Guids : g = inbox[i].from
    BY <1>1 DEF Messages
<1>3. BackedAfter(g, i)
    BY <1>2 DEF PacketsBacked
<1>4. BackedAfter(g, i)'
    BY <1>3 DEF BackedAfter
<1> QED
    BY <1>2, <1>4 DEF BackedAfter

LEMMA NetworkKeepsQueueInv ==
    ASSUME TypeOK, TypeOK', QueueInv, NEW h \in Guids, Network(h)
    PROVE  QueueInv'
<1>1. ASSUME Connect(h) PROVE QueueInv'
  <2>1. /\ conn[h] = "none" /\ conn' = [conn EXCEPT ![h] = "open"]
        /\ UNCHANGED <<inbox, players, attempts>>
      BY <1>1 DEF Connect, sessionVars
  <2>2. \A g \in Guids : conn[g] # "none" => conn'[g] # "none"
      BY <2>1 DEF TypeOK
  <2>3. PacketsBacked'
      BY <2>1, <2>2, SameQueueBacked DEF QueueInv
  <2>4. NoOrphanSession'
      BY <2>1, <2>2 DEF QueueInv, NoOrphanSession, EndPending, TypeOK
  <2>5. FloodCutOff'
    <3> SUFFICES ASSUME NEW g \in players, ~Handshaked(g), attempts[g] > AttemptLimit, conn'[g] = "open"
                 PROVE  EndPending(g)
        BY <2>1 DEF FloodCutOff, EndPending, Handshaked
    <3>1. CASE g = h
        BY <2>1, <3>1 DEF QueueInv, NoOrphanSession
    <3>2. CASE g # h
        BY <2>1, <3>2 DEF QueueInv, FloodCutOff, TypeOK
    <3> QED
        BY <3>1, <3>2
  <2> QED
      BY <2>3, <2>4, <2>5 DEF QueueInv
<1>2. ASSUME NEW p \in Packets, Arrive(h, p) PROVE QueueInv'
  <2> DEFINE m == [from |-> h, packet |-> p]
  <2>1. m \in Messages /\ inbox' = Append(inbox, m) /\ conn[h] # "none"
        /\ UNCHANGED <<conn, players, attempts>>
      BY <1>2 DEF Arrive, Messages, sessionVars
  <2>2. \A g, i : BackedAfter(g, i) => BackedAfter(g, i)'
      BY <2>1, AppendKeeps DEF BackedAfter
  <2>3. PacketsBacked'
    <3> SUFFICES ASSUME NEW i \in DOMAIN inbox', inbox'[i].packet # EndPacket
                 PROVE  \A g : g = inbox'[i].from => BackedAfter(g, i)'
        BY DEF PacketsBacked
    <3>1. CASE i \in DOMAIN inbox
        BY <2>1, <2>2, <3>1, AppendKeeps DEF QueueInv, PacketsBacked
    <3>2. CASE i \notin DOMAIN inbox
      <4>1. inbox'[i] = m
          BY <2>1, <3>2, AppendKeeps
      <4> QED
          BY <2>1, <4>1 DEF BackedAfter
    <3> QED
        BY <3>1, <3>2
  <2>4. \A g : EndPending(g) => EndPending(g)'
      BY <2>1, AppendKeeps DEF EndPending
  <2>5. NoOrphanSession' /\ FloodCutOff'
      BY <2>1, <2>4 DEF QueueInv, NoOrphanSession, FloodCutOff, Handshaked
  <2> QED
      BY <2>3, <2>5 DEF QueueInv
<1>3. ASSUME ClientGone(h) \/ CloseCompletes(h) PROVE QueueInv'
  <2> DEFINE m == [from |-> h, packet |-> EndPacket]
  <2>1. m \in Messages /\ inbox' = Append(inbox, m) /\ conn' = [conn EXCEPT ![h] = "none"]
        /\ UNCHANGED <<players, attempts>>
      BY <1>3, EndPacketIsMessage DEF ClientGone, CloseCompletes, End, sessionVars
  <2>2. \A g, i : g # h /\ BackedAfter(g, i) => BackedAfter(g, i)'
      BY <2>1, AppendKeeps DEF BackedAfter, TypeOK
  <2>3. \A i \in DOMAIN inbox : BackedAfter(h, i)'
      BY <2>1, AppendKeeps DEF BackedAfter
  <2>4. PacketsBacked'
    <3> SUFFICES ASSUME NEW i \in DOMAIN inbox', inbox'[i].packet # EndPacket
                 PROVE  \A g : g = inbox'[i].from => BackedAfter(g, i)'
        BY DEF PacketsBacked
    <3>1. i \in DOMAIN inbox /\ inbox'[i] = inbox[i]
        BY <2>1, AppendKeeps
    <3> QED
        BY <2>2, <2>3, <3>1 DEF QueueInv, PacketsBacked
  <2>5. EndPending(h)' /\ \A g : EndPending(g) => EndPending(g)'
      BY <2>1, AppendKeeps DEF EndPending
  <2>6. NoOrphanSession'
      BY <2>1, <2>5 DEF QueueInv, NoOrphanSession, TypeOK
  <2>7. FloodCutOff'
      BY <2>1, <2>5 DEF QueueInv, FloodCutOff, Handshaked, TypeOK
  <2> QED
      BY <2>4, <2>6, <2>7 DEF QueueInv
<1> QED
    BY <1>1, <1>2, <1>3 DEF Network

\* No session outlives its client, and no client that keeps sending without a
\* handshake keeps its connection.
THEOREM SessionsBacked == Spec => [](NoOrphanSession /\ FloodCutOff)
<1>1. Init => QueueInv
    BY DEF Init, QueueInv, PacketsBacked, NoOrphanSession, FloodCutOff
<1>2. TypeOK /\ TypeOK' /\ QueueInv /\ [Next]_vars => QueueInv'
  <2> SUFFICES ASSUME TypeOK, TypeOK', QueueInv, [Next]_vars PROVE QueueInv'
      OBVIOUS
  <2>1. ASSUME NEW g \in Guids, ScriptKick(g) PROVE QueueInv'
    <3>1. /\ UNCHANGED <<inbox, players, attempts>>
          /\ \A h \in Guids : (conn'[h] # "none" <=> conn[h] # "none") /\ (conn'[h] = "open" => conn[h] = "open")
        BY <2>1 DEF ScriptKick, Closed, TypeOK
    <3>2. PacketsBacked'
        BY <3>1, SameQueueBacked DEF QueueInv
    <3>3. NoOrphanSession' /\ FloodCutOff'
        BY <3>1 DEF QueueInv, NoOrphanSession, FloodCutOff, EndPending, Handshaked, TypeOK
    <3> QED
        BY <3>2, <3>3 DEF QueueInv
  <2>2. CASE UNCHANGED vars
      BY <2>2 DEF vars, QueueInv, PacketsBacked, BackedAfter, NoOrphanSession, FloodCutOff, EndPending, Handshaked
  <2> QED
      BY <2>1, <2>2, HandlersKeepQueueInv, NetworkKeepsQueueInv DEF Next, MainLoop
<1>3. QueueInv => NoOrphanSession /\ FloodCutOff
    BY DEF QueueInv
<1> QED
    BY <1>1, <1>2, <1>3, TypeCorrect, PTL DEF Spec

\* A client that keeps sending without answering the handshake request loses its
\* connection in Player::incrementHandshakeAttempts.
THEOREM FloodersCutOff == Spec => []FloodCutOff
BY SessionsBacked, PTL

-----------------------------------------------------------------------------
(* The order in which scripts and packet processors meet a session. *)

\* The strengthening: LOADED is left within the handler that enters it, and
\* POSTLOADED is only entered by the handler that calls OnPlayerConnect.
GreetingInv ==
    /\ ServedAfterGreeting
    /\ \A g \in players : load[g] # "LOADED" /\ (load[g] = "POSTLOADED" => g \in greeted)

\* No packet of a session is processed before the scripts know the player.
THEOREM GreetedFirst == Spec => []ServedAfterGreeting
<1>1. Init => GreetingInv
    BY DEF Init, GreetingInv, ServedAfterGreeting
<1>2. TypeOK /\ GreetingInv /\ [Next]_vars => GreetingInv'
  <2> SUFFICES ASSUME TypeOK, GreetingInv, [Next]_vars PROVE GreetingInv'
      OBVIOUS
  <2> USE DEF GreetingInv, ServedAfterGreeting
  <2>1. CASE UNCHANGED <<players, load, greeted, served>>
      BY <2>1
  <2>2. ASSUME NEW g \in Guids, DeletePlayer(g) PROVE GreetingInv'
      BY <2>2 DEF DeletePlayer, TypeOK
  <2>3. ASSUME NEW g \in Guids, g \notin players, NewPlayer(g) PROVE GreetingInv'
      BY <2>3 DEF NewPlayer, TypeOK
  <2>4. ASSUME NEW g \in Guids, Loaded(g) PROVE GreetingInv'
      BY <2>2, <2>4 DEF Loaded, TypeOK
  <2>5. ASSUME NEW g \in Guids, PlayerPacket(g) PROVE GreetingInv'
    <3>1. load[g] \in LoadStates /\ g \in players
        BY <2>5 DEF PlayerPacket, TypeOK
    <3> QED
        BY <2>5, <3>1 DEF PlayerPacket, LoadStates
  <2>6. ASSUME NEW g \in Guids, GamePacket(g) PROVE GreetingInv'
      BY <2>6 DEF GamePacket
  <2>7. ASSUME NEW g \in Guids, ScriptKick(g) PROVE GreetingInv'
      BY <2>7 DEF ScriptKick, TypeOK
  <2>8. ASSUME NEW g \in Guids, DisconnectPlayer(g) PROVE GreetingInv'
      BY <2>1, <2>2, <2>8 DEF DisconnectPlayer, sessionVars
  <2>9. ASSUME NEW g \in Guids, NEW files \in {"invalid", "mismatch", "match"}, PreInit(g, files)
        PROVE GreetingInv'
      BY <2>1, <2>3, <2>9 DEF PreInit, sessionVars
  <2>10. ASSUME NEW g \in Guids, Handshake(g) \/ BeforeHandshake(g) \/ BaseInfo(g) \/ UnknownPacket(g) \/ Network(g)
         PROVE GreetingInv'
    <3>1. UNCHANGED <<players, load, greeted, served>>
        BY <2>10 DEF Handshake, BeforeHandshake, BaseInfo, UnknownPacket, Network, Connect, Arrive,
                     ClientGone, CloseCompletes, End, sessionVars
    <3> QED
        BY <2>1, <3>1
  <2>11. CASE UNCHANGED vars
      BY <2>1, <2>11 DEF vars
  <2> QED
      BY <2>4, <2>5, <2>6, <2>7, <2>8, <2>9, <2>10, <2>11 DEF Next, MainLoop, Handle
<1>3. GreetingInv => ServedAfterGreeting
    BY DEF GreetingInv
<1> QED
    BY <1>1, <1>2, <1>3, TypeCorrect, PTL DEF Spec

-----------------------------------------------------------------------------
(* Room for every session. *)

Ended(g, k) == inbox[k] = [from |-> g, packet |-> EndPacket]

\* When the first i messages of the queue have been handled, g may have a session:
\* it has one now, or has sent a packet, and its connection had not ended by then.
MayHaveSession(g, i) ==
    \/ g \in players /\ \A k \in 1 .. i : ~Ended(g, k)
    \/ \E k \in 1 .. i : /\ inbox[k].from = g /\ inbox[k].packet # EndPacket
                         /\ \A m \in k + 1 .. i : ~Ended(g, m)

Sessions(i) == {g \in Guids : MayHaveSession(g, i)}

\* RakNet's limit holds for the connections of now, and for those there were when
\* each message of the queue was sent.
RoomInv ==
    /\ IsFiniteSet(Connected) /\ Cardinality(Connected) <= MaxConnections
    /\ Sessions(Len(inbox)) \subseteq Connected
    /\ \A i \in 0 .. Len(inbox) : IsFiniteSet(Sessions(i)) /\ Cardinality(Sessions(i)) <= MaxConnections

\* Some of what there is room for.
LEMMA RoomForSome ==
    ASSUME NEW S, NEW T, IsFiniteSet(S), Cardinality(S) <= MaxConnections, T \subseteq S
    PROVE  IsFiniteSet(T) /\ Cardinality(T) <= MaxConnections
<1>1. IsFiniteSet(T) /\ Cardinality(T) <= Cardinality(S)
    BY FS_Subset
<1>2. Cardinality(T) \in Nat /\ Cardinality(S) \in Nat /\ MaxConnections \in Nat
    BY <1>1, FS_CardinalityType
<1> QED
    BY <1>1, <1>2

\* Who has a session after a handler had one before, or sent what was handled.
LEMMA HandlersAdmit ==
    ASSUME TypeOK, NEW h \in Guids, Handle(h), NEW g \in Guids, g \in players'
    PROVE  MayHaveSession(g, 1)
<1>1. /\ Head(inbox).from = h /\ (DisconnectPlayer(h) \/ Head(inbox).packet # EndPacket)
      /\ inbox[1] = Head(inbox)
    BY HandlersTake, TakeShifts DEF TakeStep
<1>2. CASE g = h
  <2>1. ~DisconnectPlayer(h)
      BY <1>2 DEF DisconnectPlayer, DeletePlayer, sessionVars
  <2> QED
      BY <1>1, <1>2, <2>1 DEF MayHaveSession
<1>3. CASE g # h
  <2>1. g \in players /\ ~Ended(g, 1)
      BY <1>1, <1>3, HandlersLeaveOthers DEF Ended
  <2> QED
      BY <2>1 DEF MayHaveSession
<1> QED
    BY <1>2, <1>3

LEMMA SessionsShift ==
    ASSUME TypeOK, NEW h \in Guids, Handle(h), NEW i \in 0 .. Len(inbox) - 1
    PROVE  Sessions(i)' \subseteq Sessions(i + 1)
<1> SUFFICES ASSUME NEW g \in Guids, MayHaveSession(g, i)' PROVE MayHaveSession(g, i + 1)
    BY DEF Sessions
<1>1. /\ Len(inbox) \in Nat \ {0}
      /\ \A k \in 1 .. i : k + 1 \in 1 .. i + 1 /\ inbox'[k] = inbox[k + 1]
  <2>1. \A k \in 1 .. i : k \in DOMAIN inbox'
      BY HandlersTake, TakeShifts
  <2> QED
      BY <2>1, HandlersTake, TakeShifts
<1>2. CASE g \in players' /\ \A k \in 1 .. i : ~Ended(g, k)'
  <2>1. \A k \in 2 .. i + 1 : ~Ended(g, k)
    <3> SUFFICES ASSUME NEW k \in 2 .. i + 1, Ended(g, k) PROVE FALSE
        OBVIOUS
    <3>1. k - 1 \in 1 .. i /\ inbox'[k - 1] = inbox[k]
        BY <1>1
    <3> QED
        BY <1>2, <3>1 DEF Ended
  <2>2. CASE g \in players /\ ~Ended(g, 1)
      BY <2>1, <2>2 DEF MayHaveSession
  <2>3. CASE inbox[1].from = g /\ inbox[1].packet # EndPacket
    <3>1. 1 \in 1 .. i + 1 /\ \A m \in 1 + 1 .. i + 1 : ~Ended(g, m)
        BY <2>1
    <3> QED
        BY <2>3, <3>1 DEF MayHaveSession
  <2> QED
      BY <1>2, <2>2, <2>3, HandlersAdmit DEF MayHaveSession
<1>3. ASSUME NEW k \in 1 .. i, inbox'[k].from = g, inbox'[k].packet # EndPacket,
             \A m \in k + 1 .. i : ~Ended(g, m)'
      PROVE  MayHaveSession(g, i + 1)
  <2>1. k + 1 \in 1 .. i + 1 /\ inbox[k + 1].from = g /\ inbox[k + 1].packet # EndPacket
      BY <1>1, <1>3
  <2>2. ASSUME NEW m \in (k + 1) + 1 .. i + 1, Ended(g, m) PROVE FALSE
    <3>1. m - 1 \in k + 1 .. i /\ m - 1 \in 1 .. i /\ inbox'[m - 1] = inbox[m]
        BY <1>1
    <3> QED
        BY <1>3, <2>2, <3>1 DEF Ended
  <2> QED
      BY <2>1, <2>2 DEF MayHaveSession
<1> QED
    BY <1>2, <1>3 DEF MayHaveSession

\* A message that arrives changes nothing about those before it.
LEMMA SessionsAppend ==
    ASSUME TypeOK, NEW m \in Messages, inbox' = Append(inbox, m), players' = players, NEW n \in Nat, n = Len(inbox)
    PROVE  /\ \A i \in 0 .. n : Sessions(i)' = Sessions(i)
           /\ Sessions(n + 1)' \subseteq IF m.packet = EndPacket THEN Sessions(n) \ {m.from} ELSE Sessions(n) \cup {m.from}
<1>1. n \in Nat /\ (\A k \in 1 .. n : inbox'[k] = inbox[k]) /\ inbox'[n + 1] = m
    BY AppendKeeps
<1>2. ASSUME NEW i \in 0 .. n, NEW g \in Guids PROVE MayHaveSession(g, i)' <=> MayHaveSession(g, i)
  <2>1. \A k \in 1 .. i : inbox'[k] = inbox[k] /\ (Ended(g, k)' <=> Ended(g, k))
      BY <1>1 DEF Ended
  <2>2. \A k \in 1 .. i : \A l \in k + 1 .. i : l \in 1 .. i
      BY <1>1
  <2> QED
      BY <2>1, <2>2 DEF MayHaveSession
<1>3. ASSUME NEW g \in Guids, MayHaveSession(g, n + 1)', m # [from |-> m.from, packet |-> EndPacket] \/ g # m.from
      PROVE  MayHaveSession(g, n) \/ (g = m.from /\ m.packet # EndPacket)
  <2> SUFFICES ASSUME ~(g = m.from /\ m.packet # EndPacket) PROVE MayHaveSession(g, n)'
      BY <1>1, <1>2
  <2>1. CASE g \in players' /\ \A k \in 1 .. n + 1 : ~Ended(g, k)'
      BY <1>1, <2>1 DEF MayHaveSession
  <2>2. ASSUME NEW k \in 1 .. n + 1, inbox'[k].from = g, inbox'[k].packet # EndPacket,
               \A l \in k + 1 .. n + 1 : ~Ended(g, l)'
        PROVE  MayHaveSession(g, n)'
    <3>1. k # n + 1
        BY <1>1, <2>2
    <3>2. k \in 1 .. n /\ \A l \in k + 1 .. n : ~Ended(g, l)'
        BY <1>1, <2>2, <3>1
    <3> QED
        BY <2>2, <3>2 DEF MayHaveSession
  <2> QED
      BY <1>3, <2>1, <2>2 DEF MayHaveSession
<1>4. ASSUME m.packet = EndPacket, NEW g \in Guids, g = m.from PROVE ~MayHaveSession(g, n + 1)'
  <2>1. m = [from |-> g, packet |-> EndPacket]
      BY <1>4 DEF Messages
  <2>2. Ended(g, n + 1)' /\ inbox'[n + 1].packet = EndPacket
      BY <1>1, <1>4, <2>1 DEF Ended
  <2>3. n + 1 \in 1 .. n + 1 /\ \A k \in 1 .. n : n + 1 \in k + 1 .. n + 1
      BY <1>1
  <2>4. ASSUME NEW k \in 1 .. n + 1, k # n + 1 PROVE k \in 1 .. n
      BY <1>1, <2>4
  <2> QED
      BY <2>2, <2>3, <2>4 DEF MayHaveSession
<1>5. \A i \in 0 .. n : Sessions(i)' = Sessions(i)
    BY <1>2 DEF Sessions
<1>6. Sessions(n + 1)' \subseteq IF m.packet = EndPacket THEN Sessions(n) \ {m.from} ELSE Sessions(n) \cup {m.from}
    BY <1>3, <1>4 DEF Sessions
<1> QED
    BY <1>5, <1>6

LEMMA RoomKept ==
    ASSUME TypeOK, RoomInv, [Next]_vars
    PROVE  RoomInv'
<1> PICK n \in Nat : n = Len(inbox)
    BY DEF TypeOK
<1>1. ASSUME NEW g \in Guids, Handle(g) PROVE RoomInv'
  <2>1. Len(inbox') = n - 1 /\ n # 0 /\ Connected' = Connected
      BY <1>1, HandlersTake, TakeShifts DEF TakeStep, TypeOK, Connected
  <2>2. ASSUME NEW i \in 0 .. n - 1 PROVE i + 1 \in 0 .. n /\ Sessions(i)' \subseteq Sessions(i + 1)
      BY <1>1, SessionsShift
  <2>3. Sessions(n - 1)' \subseteq Connected
    <3>1. n - 1 \in 0 .. n - 1 /\ (n - 1) + 1 = n
        BY <2>1
    <3> QED
        BY <2>2, <3>1 DEF RoomInv
  <2>4. ASSUME NEW i \in 0 .. n - 1
        PROVE  IsFiniteSet(Sessions(i)') /\ Cardinality(Sessions(i)') <= MaxConnections
    <3>1. IsFiniteSet(Sessions(i + 1)) /\ Cardinality(Sessions(i + 1)) <= MaxConnections
        BY <2>2 DEF RoomInv
    <3> QED
        BY <2>2, <3>1, RoomForSome
  <2>5. Sessions(Len(inbox))' \subseteq Connected'
    <3>1. ASSUME NEW k \in Nat, k = Len(inbox') PROVE Sessions(k)' = Sessions(Len(inbox))'
        BY <3>1 DEF Sessions, MayHaveSession
    <3> QED
        BY <2>1, <2>3, <3>1
  <2> QED
      BY <2>1, <2>4, <2>5 DEF RoomInv
<1>0. ASSUME UNCHANGED <<inbox, players>>, Connected \subseteq Connected',
             IsFiniteSet(Connected'), Cardinality(Connected') <= MaxConnections
      PROVE  RoomInv'
  <2>1. \A i \in 0 .. Len(inbox) : Sessions(i)' = Sessions(i)
      BY <1>0 DEF Sessions, MayHaveSession, Ended
  <2>2. Sessions(Len(inbox))' = Sessions(Len(inbox))
      BY <1>0 DEF Sessions, MayHaveSession, Ended
  <2> QED
      BY <1>0, <2>1, <2>2 DEF RoomInv
<1>2. ASSUME NEW g \in Guids, Connect(g) PROVE RoomInv'
  <2>1. /\ UNCHANGED <<inbox, players>> /\ Connected' = Connected \cup {g} /\ g \notin Connected
        /\ Cardinality(Connected) < MaxConnections
      BY <1>2 DEF Connect, Connected, sessionVars, TypeOK
  <2>2. IsFiniteSet(Connected') /\ Cardinality(Connected') <= MaxConnections
    <3>1. IsFiniteSet(Connected) /\ Cardinality(Connected) \in Nat
        BY FS_CardinalityType DEF RoomInv
    <3>2. IsFiniteSet(Connected \cup {g}) /\ Cardinality(Connected \cup {g}) = Cardinality(Connected) + 1
        BY <2>1, <3>1, FS_AddElement
    <3> QED
        BY <2>1, <3>1, <3>2
  <2> QED
      BY <1>0, <2>1, <2>2
<1>3. ASSUME NEW g \in Guids, NEW m \in Messages, m.from = g, inbox' = Append(inbox, m), UNCHANGED players,
             IF m.packet = EndPacket THEN Connected' = Connected \ {g} ELSE Connected' = Connected /\ g \in Connected
      PROVE  RoomInv'
  <2>1. Len(inbox') = n + 1
      BY <1>3 DEF TypeOK
  <2>2. IsFiniteSet(Connected') /\ Cardinality(Connected') <= MaxConnections
      BY <1>3, RoomForSome DEF RoomInv
  <2>3. Sessions(n + 1)' \subseteq Connected'
      BY <1>3, SessionsAppend DEF RoomInv
  <2>4. ASSUME NEW i \in 0 .. n + 1
        PROVE  IsFiniteSet(Sessions(i)') /\ Cardinality(Sessions(i)') <= MaxConnections
    <3>1. CASE i = n + 1
        BY <2>2, <2>3, <3>1, RoomForSome
    <3>2. CASE i # n + 1
      <4>1. i \in 0 .. n
          BY <3>2
      <4> QED
          BY <1>3, <4>1, SessionsAppend DEF RoomInv
    <3> QED
        BY <3>1, <3>2
  <2>5. Sessions(Len(inbox))' \subseteq Connected'
    <3>1. ASSUME NEW k \in Nat, k = Len(inbox') PROVE Sessions(k)' = Sessions(Len(inbox))'
        BY <3>1 DEF Sessions, MayHaveSession
    <3> QED
        BY <2>1, <2>3, <3>1
  <2> QED
      BY <2>1, <2>2, <2>4, <2>5 DEF RoomInv
<1>4. ASSUME NEW g \in Guids, NEW p \in Packets, Arrive(g, p) PROVE RoomInv'
  <2>1. [from |-> g, packet |-> p] \in Messages /\ p # EndPacket
      BY DEF Messages, Packets, EndPacket
  <2>2. UNCHANGED <<conn, players>> /\ inbox' = Append(inbox, [from |-> g, packet |-> p]) /\ conn[g] # "none"
      BY <1>4 DEF Arrive, sessionVars
  <2> QED
      BY <1>3, <2>1, <2>2 DEF Connected
<1>5. ASSUME NEW g \in Guids, ClientGone(g) \/ CloseCompletes(g) PROVE RoomInv'
  <2>1. UNCHANGED players /\ inbox' = Append(inbox, [from |-> g, packet |-> EndPacket])
        /\ Connected' = Connected \ {g}
      BY <1>5 DEF ClientGone, CloseCompletes, End, sessionVars, Connected, TypeOK
  <2> QED
      BY <1>3, <2>1, EndPacketIsMessage
<1>6. ASSUME UNCHANGED <<inbox, players>>, Connected' = Connected PROVE RoomInv'
  <2>1. IsFiniteSet(Connected) /\ Cardinality(Connected) <= MaxConnections
      BY DEF RoomInv
  <2> QED
      BY <1>0, <1>6, <2>1
<1>7. ASSUME NEW g \in Guids, ScriptKick(g) PROVE UNCHANGED <<inbox, players>> /\ Connected' = Connected
    BY <1>7 DEF ScriptKick, Closed, Connected, TypeOK
<1>8. UNCHANGED vars => UNCHANGED <<inbox, players>> /\ Connected' = Connected
    BY DEF vars, Connected
<1> QED
    BY <1>1, <1>2, <1>4, <1>5, <1>6, <1>7, <1>8 DEF Next, MainLoop, Network

\* When a packet of a client without a session is handled, the sessions there are and
\* the one to come all had a connection when it was sent: so not all slots are taken.
LEMMA SlotIsFree ==
    ASSUME TypeOK, SlotsMatchPlayers, RoomInv, NEW g \in Guids, Handle(g), g \notin players, g \in players'
    PROVE  \E s \in Slots : slots[s] = NoPlayer
<1>1. players \cup {g} \subseteq Sessions(1)
  <2>1. \A h \in Guids \ {g} : h \in players => h \in players'
      BY HandlersLeaveOthers
  <2> QED
      BY <2>1, HandlersAdmit DEF Sessions, TypeOK
<1>2. IsFiniteSet(players \cup {g}) /\ Cardinality(players \cup {g}) <= MaxConnections
  <2>1. 1 \in 0 .. Len(inbox)
      BY HandlersTake, TakeShifts
  <2> QED
      BY <1>1, <2>1, RoomForSome DEF RoomInv
<1>3. IsFiniteSet(players) /\ Cardinality(players) \in Nat /\ Cardinality(players) + 1 <= MaxConnections
  <2>1. IsFiniteSet(players)
      BY <1>2, FS_Subset
  <2> QED
      BY <1>2, <2>1, FS_AddElement, FS_CardinalityType
<1>4. Cardinality(Slots) = MaxConnections
    BY FS_Interval DEF Slots
<1> SUFFICES ASSUME \A s \in Slots : slots[s] # NoPlayer PROVE FALSE
    OBVIOUS
<1>5. slots \in Injection(Slots, players)
    BY DEF SlotsMatchPlayers, TypeOK, Injection, IsInjective
<1>6. Cardinality(Slots) <= Cardinality(players)
    BY <1>3, <1>5, FS_Injection
<1> QED
    BY <1>3, <1>4, <1>6

\* Players::newPlayer finds a slot for every session, so that Player::id is set.
THEOREM AlwaysRoom == Spec => []PlayersHaveSlots
<1>1. Init => RoomInv /\ PlayersHaveSlots
  <2> SUFFICES ASSUME Init PROVE RoomInv
      BY DEF Init, PlayersHaveSlots
  <2>1. Len(inbox) = 0 /\ Connected = {} /\ \A i \in 0 .. 0 : Sessions(i) = {}
      BY DEF Init, Connected, Sessions, MayHaveSession
  <2>2. Sessions(Len(inbox)) = {}
      BY <2>1
  <2>3. IsFiniteSet({}) /\ Cardinality({}) <= MaxConnections
      BY FS_EmptySet
  <2> QED
      BY <2>1, <2>2, <2>3 DEF RoomInv
<1>2. TypeOK /\ SlotsMatchPlayers /\ RoomInv /\ PlayersHaveSlots /\ [Next]_vars => RoomInv' /\ PlayersHaveSlots'
  <2> SUFFICES ASSUME TypeOK, SlotsMatchPlayers, RoomInv, PlayersHaveSlots, [Next]_vars PROVE PlayersHaveSlots'
      BY RoomKept
  <2>1. ASSUME NEW g \in Guids, g \notin players, NewPlayer(g), Handle(g) PROVE PlayersHaveSlots'
    <3>1. \E s \in Slots : slots[s] = NoPlayer
        BY <2>1, SlotIsFree DEF NewPlayer
    <3>2. PICK s \in Slots : pid' = [pid EXCEPT ![g] = s]
        BY <2>1, <3>1 DEF NewPlayer
    <3> QED
        BY <2>1, <3>2 DEF NewPlayer, PlayersHaveSlots, TypeOK
  <2>2. ASSUME NEW g \in Guids, DeletePlayer(g) PROVE PlayersHaveSlots'
      BY <2>2 DEF DeletePlayer, PlayersHaveSlots, TypeOK
  <2>3. CASE UNCHANGED <<players, slots, pid>>
      BY <2>3 DEF PlayersHaveSlots
  <2>4. \/ \E g \in Guids : g \notin players /\ NewPlayer(g) /\ Handle(g)
        \/ \E g \in Guids : DeletePlayer(g)
        \/ UNCHANGED <<players, slots, pid>>
    <3>1. ASSUME NEW g \in Guids, NEW files \in {"invalid", "mismatch", "match"}, PreInit(g, files)
          PROVE  g \notin players /\ (NewPlayer(g) \/ UNCHANGED <<players, slots, pid>>) /\ Handle(g)
        BY <3>1 DEF PreInit, sessionVars, Handle
    <3>2. ASSUME NEW g \in Guids, Handle(g), ~\E files \in {"invalid", "mismatch", "match"} : PreInit(g, files)
          PROVE  DeletePlayer(g) \/ UNCHANGED <<players, slots, pid>>
        BY <3>2 DEF Handle, DisconnectPlayer, Handshake, BeforeHandshake, Loaded, BaseInfo, PlayerPacket,
                    GamePacket, UnknownPacket, sessionVars
    <3>3. ASSUME NEW g \in Guids, Network(g) \/ ScriptKick(g) PROVE UNCHANGED <<players, slots, pid>>
        BY <3>3 DEF Network, Connect, Arrive, ClientGone, CloseCompletes, End, ScriptKick, sessionVars
    <3> QED
        BY <3>1, <3>2, <3>3 DEF Next, MainLoop, vars
  <2> QED
      BY <2>1, <2>2, <2>3, <2>4
<1> QED
    BY <1>1, <1>2, TypeCorrect, SlotsConsistent, PTL DEF Spec
=============================================================================
