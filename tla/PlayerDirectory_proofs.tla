------------------------- MODULE PlayerDirectory_proofs -------------------------
(****************************************************************************)
(* Proofs about PlayerDirectory, for any number of players, any number of   *)
(* packets of each, and both kinds of network.                              *)
(****************************************************************************)
EXTENDS PlayerDirectory, SequenceTheorems, FiniteSetTheorems, TLAPS

-----------------------------------------------------------------------------
(* Facts about sequences. *)

\* s followed by t.
LEMMA ConcatFacts ==
    ASSUME NEW S, NEW s \in Seq(S), NEW t \in Seq(S)
    PROVE  /\ s \o t \in Seq(S) /\ Len(s \o t) = Len(s) + Len(t)
           /\ \A i \in DOMAIN s : i \in DOMAIN (s \o t) /\ (s \o t)[i] = s[i]
           /\ \A j \in DOMAIN t : Len(s) + j \in DOMAIN (s \o t) /\ (s \o t)[Len(s) + j] = t[j]
<1>1. /\ s \o t \in Seq(S) /\ Len(s \o t) = Len(s) + Len(t)
      /\ \A k \in 1 .. Len(s) + Len(t) : (s \o t)[k] = IF k <= Len(s) THEN s[k] ELSE t[k - Len(s)]
    BY ConcatProperties
<1>2. /\ Len(s) \in Nat /\ Len(t) \in Nat /\ DOMAIN s = 1 .. Len(s) /\ DOMAIN t = 1 .. Len(t)
      /\ DOMAIN (s \o t) = 1 .. Len(s) + Len(t)
    BY <1>1
<1>3. ASSUME NEW j \in DOMAIN t PROVE Len(s) + j \in DOMAIN (s \o t) /\ (s \o t)[Len(s) + j] = t[j]
  <2>1. Len(s) + j \in 1 .. Len(s) + Len(t) /\ ~(Len(s) + j <= Len(s)) /\ (Len(s) + j) - Len(s) = j
      BY <1>2
  <2> QED
      BY <1>1, <1>2, <2>1
<1>4. \A i \in DOMAIN s : i \in DOMAIN (s \o t) /\ (s \o t)[i] = s[i]
    BY <1>1, <1>2
<1> QED
    BY <1>1, <1>3, <1>4

\* Each of its elements is one of s, or one of t.
LEMMA ConcatElements ==
    ASSUME NEW S, NEW s \in Seq(S), NEW t \in Seq(S)
    PROVE  \A k \in DOMAIN (s \o t) : \/ k \in DOMAIN s /\ (s \o t)[k] = s[k]
                                    \/ \E j \in DOMAIN t : k = Len(s) + j /\ (s \o t)[k] = t[j]
<1>1. /\ Len(s) \in Nat /\ Len(t) \in Nat /\ DOMAIN s = 1 .. Len(s) /\ DOMAIN t = 1 .. Len(t)
      /\ DOMAIN (s \o t) = 1 .. Len(s) + Len(t)
    BY ConcatFacts
<1>2. ASSUME NEW k \in DOMAIN (s \o t), k <= Len(s)
      PROVE  k \in DOMAIN s /\ (s \o t)[k] = s[k]
  <2>1. k \in DOMAIN s
      BY <1>1, <1>2
  <2> QED
      BY <2>1, ConcatFacts
<1>3. ASSUME NEW k \in DOMAIN (s \o t), k > Len(s)
      PROVE  \E j \in DOMAIN t : k = Len(s) + j /\ (s \o t)[k] = t[j]
  <2>1. PICK j \in DOMAIN t : k = Len(s) + j
    <3>1. k - Len(s) \in DOMAIN t /\ k = Len(s) + (k - Len(s))
        BY <1>1, <1>3
    <3> QED
        BY <3>1
  <2> QED
      BY <2>1, ConcatFacts
<1> QED
    BY <1>1, <1>2, <1>3

\* The sequence s without its i-th element.
Removed(s, i) == SubSeq(s, 1, i - 1) \o SubSeq(s, i + 1, Len(s))

LEMMA RemovedFacts ==
    ASSUME NEW S, NEW s \in Seq(S), NEW i \in DOMAIN s
    PROVE  /\ Removed(s, i) \in Seq(S)
           /\ \A j \in DOMAIN Removed(s, i) :
                  /\ j < i => j \in DOMAIN s /\ Removed(s, i)[j] = s[j]
                  /\ j >= i => j + 1 \in DOMAIN s /\ Removed(s, i)[j] = s[j + 1]
           /\ \A j \in DOMAIN s :
                  /\ j < i => j \in DOMAIN Removed(s, i) /\ Removed(s, i)[j] = s[j]
                  /\ j > i => j - 1 \in DOMAIN Removed(s, i) /\ Removed(s, i)[j - 1] = s[j]
<1> DEFINE a == SubSeq(s, 1, i - 1)
           b == SubSeq(s, i + 1, Len(s))
           t == a \o b
<1>0. Removed(s, i) = t
    BY DEF Removed
<1>1. i \in 1 .. Len(s) /\ Len(s) \in Nat /\ \A j \in 1 .. Len(s) : s[j] \in S
    OBVIOUS
<1>2. a \in Seq(S) /\ Len(a) = i - 1 /\ \A j \in 1 .. i - 1 : a[j] = s[j]
  <2>1. \A j \in 1 .. i - 1 : s[j] \in S
      BY <1>1
  <2>2. /\ a \in Seq(S)
        /\ Len(a) = IF 1 <= i - 1 THEN (i - 1) - 1 + 1 ELSE 0
        /\ \A j \in 1 .. (i - 1) - 1 + 1 : a[j] = s[1 + j - 1]
      BY <1>1, <2>1, SubSeqProperties
  <2> HIDE DEF a
  <2>3. \A j \in 1 .. i - 1 : 1 + j - 1 = j
      BY <1>1
  <2> QED
      BY <1>1, <2>2, <2>3
<1>3. b \in Seq(S) /\ Len(b) = Len(s) - i /\ \A j \in 1 .. Len(s) - i : b[j] = s[i + j]
  <2>1. \A j \in i + 1 .. Len(s) : s[j] \in S
      BY <1>1
  <2>2. /\ b \in Seq(S)
        /\ Len(b) = IF i + 1 <= Len(s) THEN Len(s) - (i + 1) + 1 ELSE 0
        /\ \A j \in 1 .. Len(s) - (i + 1) + 1 : b[j] = s[(i + 1) + j - 1]
      BY <1>1, <2>1, SubSeqProperties
  <2> HIDE DEF b
  <2>3. \A j \in 1 .. Len(s) - i : (i + 1) + j - 1 = i + j
      BY <1>1
  <2> QED
      BY <1>1, <2>2, <2>3
<1> HIDE DEF a, b
<1>4. /\ t \in Seq(S) /\ Len(t) = Len(s) - 1
      /\ \A j \in 1 .. Len(s) - 1 : t[j] = IF j <= i - 1 THEN a[j] ELSE b[j - (i - 1)]
  <2>1. /\ t \in Seq(S) /\ Len(t) = Len(a) + Len(b)
        /\ \A j \in 1 .. Len(a) + Len(b) : t[j] = IF j <= Len(a) THEN a[j] ELSE b[j - Len(a)]
      BY <1>2, <1>3, ConcatProperties
  <2> HIDE DEF t
  <2>2. Len(a) = i - 1 /\ Len(a) + Len(b) = Len(s) - 1
      BY <1>1, <1>2, <1>3
  <2> QED
      BY <2>1, <2>2
<1> HIDE DEF t
<1>5. DOMAIN t = 1 .. Len(s) - 1
  <2>1. t \in Seq(S) /\ Len(t) = Len(s) - 1
      BY <1>4
  <2>2. DOMAIN t = 1 .. Len(t)
      BY <2>1, LenProperties
  <2> QED
      BY <2>1, <2>2, Zenon
<1>6. \A j \in 1 .. Len(s) - 1 : t[j] = IF j < i THEN s[j] ELSE s[j + 1]
  <2> TAKE j \in 1 .. Len(s) - 1
  <2>1. CASE j < i
    <3>1. j \in 1 .. i - 1 /\ j <= i - 1
        BY <1>1, <2>1
    <3>2. t[j] = a[j]
        BY <1>4, <3>1
    <3>3. a[j] = s[j]
        BY <1>2, <3>1
    <3> QED
        BY <2>1, <3>2, <3>3
  <2>2. CASE j >= i
    <3>1. j - (i - 1) \in 1 .. Len(s) - i /\ i + (j - (i - 1)) = j + 1
        BY <1>1, <2>2
    <3>2. b[j - (i - 1)] = s[j + 1]
        BY <1>3, <3>1
    <3> QED
        BY <1>1, <1>4, <2>2, <3>2
  <2> QED
      BY <1>1, <2>1, <2>2
<1>7. \A j \in DOMAIN t : /\ j < i => j \in DOMAIN s /\ t[j] = s[j]
                          /\ j >= i => j + 1 \in DOMAIN s /\ t[j] = s[j + 1]
    BY <1>1, <1>5, <1>6
<1>8. \A j \in DOMAIN s : /\ j < i => j \in DOMAIN t /\ t[j] = s[j]
                          /\ j > i => j - 1 \in DOMAIN t /\ t[j - 1] = s[j]
    BY <1>1, <1>5, <1>6
<1> QED
    BY <1>0, <1>4, <1>7, <1>8

-----------------------------------------------------------------------------
(* Packets and queues. *)

LEMMA PacketFacts ==
    ASSUME NEW g \in Players
    PROVE  /\ \A type \in {"PREINIT", "REQUEST", "UPDATE", "DISCONNECTED", "BASEINFO"} :
                  /\ Packet(type, g, TRUE) \in DownPackets
                  /\ Packet(type, g, TRUE).type = type
                  /\ Packet(type, g, TRUE).about = g
                  /\ Packet(type, g, TRUE).full = TRUE
BY DEF Packet, DownPackets

LEMMA PacketTypes ==
    ASSUME NEW packet \in DownPackets
    PROVE  /\ packet.type \in {"PREINIT", "REQUEST", "UPDATE", "DISCONNECTED", "BASEINFO"}
           /\ packet.about \in Players
           /\ packet.full \in BOOLEAN
           /\ packet.type # "BASEINFO" => packet.full
BY DEF DownPackets

\* A sequence of one packet.
LEMMA OneFacts ==
    ASSUME NEW S, NEW e \in S
    PROVE  <<e>> \in Seq(S) /\ DOMAIN <<e>> = {1} /\ <<e>>[1] = e
OBVIOUS

\* What is queued comes after what is there.
LEMMA QueuedFacts ==
    ASSUME TypeOK, NEW to, NEW packets \in Seq(DownPackets)
    PROVE  /\ Queued(to, packets) \in [Players -> Seq(DownPackets)]
           /\ \A c \in Players :
                  Queued(to, packets)[c] = IF c \in to /\ stage[c] # "gone" THEN down[c] \o packets ELSE down[c]
<1>1. \A c \in Players : down[c] \in Seq(DownPackets)
    BY DEF TypeOK
<1>2. \A c \in Players : down[c] \o packets \in Seq(DownPackets)
    BY <1>1, ConcatFacts
<1> QED
    BY <1>1, <1>2 DEF Queued

LEMMA SentFacts ==
    ASSUME TypeOK, NEW to, NEW packet \in DownPackets
    PROVE  /\ Sent(to, packet) \in [Players -> Seq(DownPackets)]
           /\ \A c \in Players :
                  Sent(to, packet)[c] = IF c \in to /\ stage[c] # "gone" THEN down[c] \o <<packet>> ELSE down[c]
<1>1. <<packet>> \in Seq(DownPackets)
    BY OneFacts
<1> QED
    BY <1>1, QueuedFacts DEF Sent

\* What Networking::newPlayer sends: a request, and the information of everybody
\* else in the game, with the name of those whose name is there.
Infos(g, infos) ==
    /\ \A j \in DOMAIN infos : /\ infos[j].type = "BASEINFO" /\ infos[j].about \in Players \ {g}
                               /\ session[infos[j].about] = "POSTLOADED"
                               /\ infos[j].full = named[infos[j].about]
    /\ \A h \in Players : h # g /\ session[h] = "POSTLOADED" => \E j \in DOMAIN infos : infos[j].about = h

LEMMA NewPlayerFacts ==
    ASSUME TypeOK, NEW g \in Players, NewPlayer(g)
    PROVE  \E infos \in Seq(DownPackets) : Infos(g, infos) /\ down' = Queued({g}, <<Packet("REQUEST", g, TRUE)>> \o infos)
<1> DEFINE others == {h \in Others(g) : session[h] = "POSTLOADED"}
           Info == [type : {"BASEINFO"}, about : others, full : BOOLEAN]
<1>1. PICK infos \in [1 .. Cardinality(others) -> Info] :
          /\ {infos[i].about : i \in DOMAIN infos} = others
          /\ \A i \in DOMAIN infos : infos[i].full = named[infos[i].about]
          /\ down' = Queued({g}, <<Packet("REQUEST", g, TRUE)>> \o infos)
    BY DEF NewPlayer
<1>2. others \subseteq Players
    BY DEF Others
<1>3. Cardinality(others) \in Nat
    BY <1>2, PlayersAssumption, FS_Subset, FS_CardinalityType
<1>4. Info \subseteq DownPackets
    BY <1>2 DEF DownPackets
<1>5. \A h \in Players : h \in others <=> h # g /\ session[h] = "POSTLOADED"
    BY DEF Others, InSession
<1>6. \A j \in DOMAIN infos : infos[j] \in Info /\ infos[j].type = "BASEINFO" /\ infos[j].about \in others
    BY <1>1
<1> HIDE DEF Info, others
<1>7. infos \in Seq(DownPackets)
    BY <1>1, <1>3, <1>4
<1>8. \A h \in others : \E j \in DOMAIN infos : infos[j].about = h
    BY <1>1
<1>9. Infos(g, infos)
    BY <1>1, <1>2, <1>5, <1>6, <1>8 DEF Infos
<1> QED
    BY <1>1, <1>7, <1>9

\* NewPlayer for one client at a time.
LEMMA NewPlayerDown ==
    ASSUME TypeOK, NEW g \in Players, NewPlayer(g)
    PROVE  /\ down' \in [Players -> Seq(DownPackets)]
           /\ \E infos \in Seq(DownPackets) :
                  /\ Infos(g, infos)
                  /\ <<Packet("REQUEST", g, TRUE)>> \o infos \in Seq(DownPackets)
                  /\ \A c \in Players :
                         down'[c] = IF c = g /\ stage[c] # "gone"
                                    THEN down[c] \o (<<Packet("REQUEST", g, TRUE)>> \o infos) ELSE down[c]
<1>1. PICK infos \in Seq(DownPackets) : Infos(g, infos) /\ down' = Queued({g}, <<Packet("REQUEST", g, TRUE)>> \o infos)
    BY NewPlayerFacts
<1>2. <<Packet("REQUEST", g, TRUE)>> \in Seq(DownPackets)
    BY PacketFacts, OneFacts
<1>3. <<Packet("REQUEST", g, TRUE)>> \o infos \in Seq(DownPackets)
    BY <1>2, ConcatFacts
<1>4. PICK packets \in Seq(DownPackets) : packets = <<Packet("REQUEST", g, TRUE)>> \o infos
    BY <1>3
<1>5. down' = Queued({g}, packets)
    BY <1>1, <1>4
<1>6. /\ Queued({g}, packets) \in [Players -> Seq(DownPackets)]
      /\ \A c \in Players :
             Queued({g}, packets)[c] = IF c \in {g} /\ stage[c] # "gone" THEN down[c] \o packets ELSE down[c]
    BY QueuedFacts
<1>7. \A c \in Players : down'[c] = IF c = g /\ stage[c] # "gone" THEN down[c] \o packets ELSE down[c]
    BY <1>5, <1>6
<1> QED
    BY <1>1, <1>3, <1>4, <1>5, <1>6, <1>7

-----------------------------------------------------------------------------
(* What the steps do to the queues of one player at a time. *)

LEMMA DropIsRemoved == \A s, i : DropAt(s, i) = Removed(s, i)
BY DEF DropAt, Removed

\* Sequences of types of packets, and the types themselves.
LEMMA UpFacts ==
    /\ <<"END">> \in Seq(UpTypes) /\ <<"BASEINFO", "BASEINFO", "LOADED">> \in Seq(UpTypes) /\ <<>> \in Seq(UpTypes)
    /\ {"BASEINFO", "LOADED", "UPDATE", "END"} \subseteq UpTypes
    /\ DOMAIN <<"END">> = {1} /\ <<"END">>[1] = "END"
BY DEF UpTypes

NameFirst(s) == \A i \in DOMAIN s : s[i] = "LOADED" => \E j \in DOMAIN s : j < i /\ s[j] = "BASEINFO"

\* LocalPlayer, Main::updateWorld and the packets a player sends about itself.
\* ID_LOADED comes after base information.
LEMMA ClientAdds ==
    ASSUME TypeOK, NEW g \in Players, EnterGame(g) \/ SendUpdate(g)
    PROVE  /\ \E t \in Seq(UpTypes) : up' = [up EXCEPT ![g] = @ \o t] /\ NameFirst(t)
           /\ stage[g] \in {"creating", "playing"} /\ stage' = [stage EXCEPT ![g] = "playing"]
           /\ UNCHANGED <<list, down, session, named, overtake>>
<1>1. CASE EnterGame(g)
  <2>1. NameFirst(<<"BASEINFO", "BASEINFO", "LOADED">>)
      BY DEF NameFirst
  <2> QED
      BY <1>1, <2>1, UpFacts DEF EnterGame, TypeOK
<1>2. CASE SendUpdate(g)
  <2>1. PICK type \in {"UPDATE", "BASEINFO"} : up' = [up EXCEPT ![g] = Append(@, type)]
      BY <1>2 DEF SendUpdate
  <2>2. <<type>> \in Seq(UpTypes)
      BY UpFacts, OneFacts
  <2>3. Append(up[g], type) = up[g] \o <<type>>
    <3>1. up[g] \in Seq(UpTypes) /\ type \in UpTypes
        BY UpFacts DEF TypeOK
    <3> QED
        BY <3>1, AppendIsConcat
  <2>4. stage' = [stage EXCEPT ![g] = "playing"] /\ stage[g] = "playing"
        /\ UNCHANGED <<list, down, session, named, overtake>>
      BY <1>2 DEF SendUpdate, TypeOK
  <2>5. up' = [up EXCEPT ![g] = @ \o <<type>>]
      BY <2>1, <2>3
  <2>6. NameFirst(<<type>>)
      BY DEF NameFirst
  <2> QED
      BY <2>2, <2>4, <2>5, <2>6
<1> QED
    BY <1>1, <1>2

\* A player leaves: Quit, or an answer that makes it quit.  What it has sent may
\* be cut short, and ends with the end of the connection.
Leaves(g) ==
    /\ stage' = [stage EXCEPT ![g] = "gone"]
    /\ \E s \in Seq(UpTypes) : /\ up' = [up EXCEPT ![g] = s \o <<"END">>]
                               /\ \A k \in DOMAIN s : k \in DOMAIN up[g] /\ s[k] = up[g][k]
    /\ down' = [down EXCEPT ![g] = <<>>]
    /\ list' = [list EXCEPT ![g] = [h \in Players |-> "absent"]]
    /\ UNCHANGED <<session, named, overtake, updates>>

LEMMA QuitLeaves ==
    ASSUME TypeOK, NEW g \in Players, Quit(g)
    PROVE  Leaves(g)
<1>1. PICK n \in 0 .. Len(up[g]) : up' = [up EXCEPT ![g] = SubSeq(@, 1, n) \o <<"END">>]
    BY DEF Quit
<1>2. PICK u \in Seq(UpTypes) : u = up[g]
    BY DEF TypeOK
<1>3. SubSeq(u, 1, n) \in Seq(UpTypes) /\ \A k \in DOMAIN SubSeq(u, 1, n) : k \in DOMAIN u /\ SubSeq(u, 1, n)[k] = u[k]
    BY <1>1, <1>2
<1>4. up' = [up EXCEPT ![g] = SubSeq(u, 1, n) \o <<"END">>]
    BY <1>1, <1>2
<1>5. /\ stage' = [stage EXCEPT ![g] = "gone"] /\ down' = [down EXCEPT ![g] = <<>>]
      /\ list' = [list EXCEPT ![g] = [h \in Players |-> "absent"]]
      /\ UNCHANGED <<session, named, overtake, updates>>
    BY DEF Quit
<1> QED
    BY <1>2, <1>3, <1>4, <1>5 DEF Leaves

\* A packet that does not make the client quit.
Takes(c, i) ==
    LET packet == down[c][i]
        about == packet.about
    IN  /\ down' = [down EXCEPT ![c] = Removed(down[c], i)]
        /\ stage' = IF packet.type = "PREINIT" THEN [stage EXCEPT ![c] = "creating"] ELSE stage
        /\ up' = IF packet.type = "REQUEST" THEN [up EXCEPT ![c] = up[c] \o <<"BASEINFO">>] ELSE up
        /\ list' = IF stage[c] # "joining" /\ about # c
                   THEN [list EXCEPT ![c][about] = Entered(list[c][about], packet)]
                   ELSE list
        /\ UNCHANGED <<session, named, overtake, updates>>

LEMMA ReceiveCases ==
    ASSUME TypeOK, NEW c \in Players, NEW i \in DOMAIN down[c], Receive(c, i)
    PROVE  /\ MayCome([j \in DOMAIN down[c] |-> down[c][j].type], i)
           /\ \/ Leaves(c)
              \/ Takes(c, i) /\ ~(down[c][i].type = "DISCONNECTED" /\ down[c][i].about = c)
<1>1. MayCome([j \in DOMAIN down[c] |-> down[c][j].type], i)
    BY DEF Receive
<1>2. CASE down[c][i].type = "DISCONNECTED" /\ down[c][i].about = c
  <2>1. /\ stage' = [stage EXCEPT ![c] = "gone"]
        /\ up' = [up EXCEPT ![c] = <<"END">>]
        /\ down' = [down EXCEPT ![c] = <<>>]
        /\ list' = [list EXCEPT ![c] = [h \in Players |-> "absent"]]
        /\ UNCHANGED <<session, named, overtake, updates>>
      BY <1>2 DEF Receive
  <2>2. <<>> \in Seq(UpTypes) /\ <<>> \o <<"END">> = <<"END">> /\ DOMAIN <<>> = {}
      BY UpFacts, ConcatEmptySeq
  <2>3. up' = [up EXCEPT ![c] = <<>> \o <<"END">>] /\ \A k \in DOMAIN <<>> : k \in DOMAIN up[c] /\ <<>>[k] = up[c][k]
      BY <2>1, <2>2
  <2>4. \E s \in Seq(UpTypes) : /\ up' = [up EXCEPT ![c] = s \o <<"END">>]
                                /\ \A k \in DOMAIN s : k \in DOMAIN up[c] /\ s[k] = up[c][k]
      BY <2>2, <2>3
  <2> QED
      BY <1>1, <2>1, <2>4 DEF Leaves
<1>3. CASE ~(down[c][i].type = "DISCONNECTED" /\ down[c][i].about = c)
  <2>1. Append(up[c], "BASEINFO") = up[c] \o <<"BASEINFO">>
    <3>1. up[c] \in Seq(UpTypes) /\ "BASEINFO" \in UpTypes
        BY UpFacts DEF TypeOK
    <3> QED
        BY <3>1, AppendIsConcat
  <2>2. /\ down' = [down EXCEPT ![c] = DropAt(down[c], i)]
        /\ stage' = IF down[c][i].type = "PREINIT" THEN [stage EXCEPT ![c] = "creating"] ELSE stage
        /\ up' = IF down[c][i].type = "REQUEST" THEN [up EXCEPT ![c] = Append(up[c], "BASEINFO")] ELSE up
        /\ list' = IF stage[c] # "joining" /\ down[c][i].about # c
                   THEN [list EXCEPT ![c][down[c][i].about] = Entered(list[c][down[c][i].about], down[c][i])]
                   ELSE list
        /\ UNCHANGED <<session, named, overtake, updates>>
      BY <1>3 DEF Receive
  <2> QED
      BY <1>1, <1>3, <2>1, <2>2, DropIsRemoved DEF Takes
<1> QED
    BY <1>2, <1>3

\* The sessions and names of the others stay.
Sessions(g) ==
    /\ session' \in [Players -> SessionStates] /\ named' \in [Players -> BOOLEAN]
    /\ \A h \in Players \ {g} : session'[h] = session[h] /\ named'[h] = named[h]
    /\ session'[g] \in {"POSTLOADED", "left", "kicked"} \/ session'[g] = session[g]

\* A packet of g is handled: what all handlers share.
Handled(g, i) ==
    /\ up' = [up EXCEPT ![g] = Removed(up[g], i)]
    /\ MayCome(up[g], i)
    /\ UNCHANGED <<stage, list, overtake, updates>>
    /\ Sessions(g)

\* What is sent to c meanwhile: no answer to joining, disconnections of sessions
\* that are over, and information without a name only of those without.
Added(c, t) ==
    /\ down'[c] = down[c] \o t
    /\ stage[c] = "gone" => t = <<>>
    /\ \A j \in DOMAIN t :
           /\ t[j].type # "PREINIT"
           /\ t[j].type = "DISCONNECTED" => session'[t[j].about] \in {"left", "kicked"}
           /\ ~t[j].full => session'[t[j].about] = "POSTLOADED" /\ ~named'[t[j].about]

AddedToAll ==
    down' \in [Players -> Seq(DownPackets)] /\ \A c \in Players : \E t \in Seq(DownPackets) : Added(c, t)

LEMMA NothingAdded ==
    ASSUME TypeOK, NEW c \in Players, down'[c] = down[c]
    PROVE  \E t \in Seq(DownPackets) : Added(c, t)
<1>1. down[c] \in Seq(DownPackets) /\ <<>> \in Seq(DownPackets)
    BY DEF TypeOK
<1>2. down[c] \o <<>> = down[c] /\ DOMAIN <<>> = {}
    BY <1>1, ConcatEmptySeq
<1>3. Added(c, <<>>)
    BY <1>2 DEF Added
<1> QED
    BY <1>1, <1>3

LEMMA OneAdded ==
    ASSUME TypeOK, NEW packet \in DownPackets, packet.type # "PREINIT", packet.full,
           packet.type = "DISCONNECTED" => session'[packet.about] \in {"left", "kicked"},
           NEW to, down' = Sent(to, packet)
    PROVE  AddedToAll
<1>1. /\ down' \in [Players -> Seq(DownPackets)]
      /\ \A c \in Players : down'[c] = IF c \in to /\ stage[c] # "gone" THEN down[c] \o <<packet>> ELSE down[c]
    BY SentFacts
<1>2. <<packet>> \in Seq(DownPackets) /\ DOMAIN <<packet>> = {1} /\ <<packet>>[1] = packet
    BY OneFacts
<1>3. ASSUME NEW c \in Players PROVE \E t \in Seq(DownPackets) : Added(c, t)
  <2>1. CASE c \in to /\ stage[c] # "gone"
    <3>1. PICK t \in Seq(DownPackets) : t = <<packet>>
        BY <1>2
    <3>2. down'[c] = down[c] \o t /\ \A j \in DOMAIN t : t[j] = packet
        BY <1>1, <1>2, <2>1, <3>1
    <3>3. Added(c, t)
        BY <2>1, <3>2 DEF Added
    <3> QED
        BY <3>3
  <2>2. CASE ~(c \in to /\ stage[c] # "gone")
      BY <1>1, <2>2, NothingAdded
  <2> QED
      BY <2>1, <2>2
<1> QED
    BY <1>1, <1>3 DEF AddedToAll

LEMMA IgnoredHandled ==
    ASSUME TypeOK, NEW g \in Players, UNCHANGED <<session, named, down>>
    PROVE  Sessions(g) /\ AddedToAll
<1>1. \A c \in Players : down'[c] = down[c]
    OBVIOUS
<1>2. \A c \in Players : \E t \in Seq(DownPackets) : Added(c, t)
    BY <1>1, NothingAdded
<1>3. /\ session' \in [Players -> SessionStates] /\ named' \in [Players -> BOOLEAN]
      /\ down' \in [Players -> Seq(DownPackets)]
    BY DEF TypeOK
<1> QED
    BY <1>2, <1>3 DEF Sessions, AddedToAll

\* The request for the base information, and the information of the others.
LEMMA InfosAdded ==
    ASSUME TypeOK, NEW g \in Players, NewPlayer(g), UNCHANGED named,
           \A h \in Players \ {g} : session'[h] = session[h]
    PROVE  AddedToAll
<1>1. PICK infos \in Seq(DownPackets) :
          /\ Infos(g, infos)
          /\ <<Packet("REQUEST", g, TRUE)>> \o infos \in Seq(DownPackets)
          /\ \A c \in Players :
                 down'[c] = IF c = g /\ stage[c] # "gone"
                            THEN down[c] \o (<<Packet("REQUEST", g, TRUE)>> \o infos) ELSE down[c]
    BY NewPlayerDown
<1>2. down' \in [Players -> Seq(DownPackets)]
    BY NewPlayerDown
<1>3. PICK t \in Seq(DownPackets) : t = <<Packet("REQUEST", g, TRUE)>> \o infos
    BY <1>1
<1>4. \A j \in DOMAIN t : t[j] = Packet("REQUEST", g, TRUE) \/ \E k \in DOMAIN infos : t[j] = infos[k]
  <2>1. PICK packet \in DownPackets : packet = Packet("REQUEST", g, TRUE)
      BY PacketFacts
  <2>2. <<packet>> \in Seq(DownPackets) /\ DOMAIN <<packet>> = {1} /\ <<packet>>[1] = packet
      BY OneFacts
  <2>3. PICK one \in Seq(DownPackets) : one = <<packet>>
      BY <2>2
  <2>4. \A k \in DOMAIN (one \o infos) : \/ k \in DOMAIN one /\ (one \o infos)[k] = one[k]
                                         \/ \E j \in DOMAIN infos : (one \o infos)[k] = infos[j]
    <3>1. \A k \in DOMAIN (one \o infos) : \/ k \in DOMAIN one /\ (one \o infos)[k] = one[k]
                                           \/ \E j \in DOMAIN infos : k = Len(one) + j /\ (one \o infos)[k] = infos[j]
        BY ConcatElements
    <3> QED
        BY <3>1
  <2>5. t = one \o infos
      BY <1>3, <2>1, <2>3
  <2> QED
      BY <2>1, <2>2, <2>3, <2>4, <2>5
<1>5. ASSUME NEW j \in DOMAIN t
      PROVE  /\ t[j].type # "PREINIT" /\ t[j].type # "DISCONNECTED"
             /\ ~t[j].full => session'[t[j].about] = "POSTLOADED" /\ ~named'[t[j].about]
  <2>1. CASE t[j] = Packet("REQUEST", g, TRUE)
    <3>1. Packet("REQUEST", g, TRUE).type = "REQUEST" /\ Packet("REQUEST", g, TRUE).full = TRUE
        BY DEF Packet
    <3>2. t[j].type = "REQUEST" /\ t[j].full = TRUE
        BY <2>1, <3>1
    <3> QED
        BY <3>2
  <2>2. ASSUME NEW k \in DOMAIN infos, t[j] = infos[k]
        PROVE  /\ t[j].type # "PREINIT" /\ t[j].type # "DISCONNECTED"
               /\ ~t[j].full => session'[t[j].about] = "POSTLOADED" /\ ~named'[t[j].about]
      BY <1>1, <2>2 DEF Infos
  <2> QED
      BY <1>4, <2>1, <2>2
<1>6. ASSUME NEW c \in Players PROVE \E s \in Seq(DownPackets) : Added(c, s)
  <2>1. CASE c = g /\ stage[c] # "gone"
    <3>1. down'[c] = down[c] \o t
        BY <1>1, <1>3, <2>1
    <3>2. Added(c, t)
        BY <1>5, <2>1, <3>1 DEF Added
    <3> QED
        BY <3>2
  <2>2. CASE ~(c = g /\ stage[c] # "gone")
      BY <1>1, <2>2, NothingAdded
  <2> QED
      BY <2>1, <2>2
<1> QED
    BY <1>2, <1>6 DEF AddedToAll

\* All of that for any packet.
LEMMA HandleFacts ==
    ASSUME TypeOK, NEW g \in Players, NEW i \in DOMAIN up[g], Handle(g, i)
    PROVE  Handled(g, i) /\ AddedToAll
<1>1. /\ MayCome(up[g], i) /\ up' = [up EXCEPT ![g] = Removed(up[g], i)]
      /\ UNCHANGED <<stage, list, overtake, updates>>
    BY DropIsRemoved DEF Handle
<1>2. session \in [Players -> SessionStates] /\ named \in [Players -> BOOLEAN]
    BY DEF TypeOK
<1>3. ASSUME UNCHANGED <<session, named, down>> PROVE Sessions(g) /\ AddedToAll
    BY <1>3, IgnoredHandled
<1>4. ASSUME BaseInfo(g) PROVE Sessions(g) /\ AddedToAll
  <2>1. Sessions(g)
      BY <1>2, <1>4 DEF Sessions, BaseInfo
  <2>2. Packet("BASEINFO", g, TRUE) \in DownPackets /\ Packet("BASEINFO", g, TRUE).type = "BASEINFO"
        /\ Packet("BASEINFO", g, TRUE).full
      BY DEF Packet, DownPackets
  <2>3. down' = Sent(Others(g), Packet("BASEINFO", g, TRUE))
      BY <1>4 DEF BaseInfo
  <2> QED
      BY <2>1, <2>2, <2>3, OneAdded
<1>5. ASSUME Loaded(g) PROVE Sessions(g) /\ AddedToAll
  <2>1. named' = named
      BY <1>5 DEF Loaded
  <2>2. CASE session' = [session EXCEPT ![g] = "POSTLOADED"] /\ NewPlayer(g)
    <3>1. Sessions(g)
        BY <1>2, <2>1, <2>2 DEF Sessions, SessionStates
    <3> QED
        BY <2>1, <2>2, <3>1, InfosAdded
  <2>3. CASE session' = [session EXCEPT ![g] = "kicked"] /\ down' = Sent({g}, Packet("DISCONNECTED", g, TRUE))
    <3>1. Sessions(g) /\ session'[g] = "kicked"
        BY <1>2, <2>1, <2>3 DEF Sessions, SessionStates
    <3>2. Packet("DISCONNECTED", g, TRUE) \in DownPackets /\ Packet("DISCONNECTED", g, TRUE).type = "DISCONNECTED"
          /\ Packet("DISCONNECTED", g, TRUE).full /\ Packet("DISCONNECTED", g, TRUE).about = g
        BY DEF Packet, DownPackets
    <3> QED
        BY <2>3, <3>1, <3>2, OneAdded
  <2> QED
      BY <1>5, <2>2, <2>3 DEF Loaded
<1>6. ASSUME Update(g) PROVE Sessions(g) /\ AddedToAll
  <2>1. Sessions(g)
      BY <1>2, <1>6 DEF Sessions, Update
  <2>2. Packet("UPDATE", g, TRUE) \in DownPackets /\ Packet("UPDATE", g, TRUE).type = "UPDATE"
        /\ Packet("UPDATE", g, TRUE).full
      BY DEF Packet, DownPackets
  <2>3. UNCHANGED <<session, named, down>> \/ down' = Sent(Others(g), Packet("UPDATE", g, TRUE))
      BY <1>6 DEF Update
  <2> QED
      BY <1>3, <2>1, <2>2, <2>3, OneAdded
<1>7. ASSUME DisconnectPlayer(g) PROVE Sessions(g) /\ AddedToAll
  <2>1. Sessions(g) /\ session'[g] = "left"
      BY <1>2, <1>7 DEF Sessions, DisconnectPlayer, SessionStates
  <2>2. Packet("DISCONNECTED", g, TRUE) \in DownPackets /\ Packet("DISCONNECTED", g, TRUE).type = "DISCONNECTED"
        /\ Packet("DISCONNECTED", g, TRUE).full /\ Packet("DISCONNECTED", g, TRUE).about = g
      BY DEF Packet, DownPackets
  <2>3. down' = Sent(Others(g), Packet("DISCONNECTED", g, TRUE))
      BY <1>7 DEF DisconnectPlayer
  <2> QED
      BY <2>1, <2>2, <2>3, OneAdded
<1>8. Sessions(g) /\ AddedToAll
    BY <1>3, <1>4, <1>5, <1>6, <1>7 DEF Handle
<1> QED
    BY <1>1, <1>8 DEF Handled

-----------------------------------------------------------------------------
(* Types. *)

LEMMA EnteredType ==
    ASSUME NEW entry \in Entries, NEW packet \in DownPackets
    PROVE  Entered(entry, packet) \in Entries
BY DEF Entered, Entries

LEMMA JoinTypes ==
    ASSUME TypeOK, NEW g \in Players, Join(g)
    PROVE  TypeOK'
<1>1. Packet("PREINIT", g, TRUE) \in DownPackets
    BY PacketFacts
<1>2. <<Packet("PREINIT", g, TRUE)>> \in Seq(DownPackets)
    BY <1>1, OneFacts
<1>3. down' \in [Players -> Seq(DownPackets)]
    BY <1>2 DEF Join, TypeOK
<1>4. stage' \in [Players -> Stages] /\ session' \in [Players -> SessionStates]
    BY DEF Join, TypeOK, Stages, SessionStates
<1> QED
    BY <1>3, <1>4 DEF Join, TypeOK

LEMMA ClientTypes ==
    ASSUME TypeOK, NEW g \in Players, EnterGame(g) \/ SendUpdate(g)
    PROVE  TypeOK'
<1>1. PICK t \in Seq(UpTypes) : up' = [up EXCEPT ![g] = @ \o t]
    BY ClientAdds
<1>2. up[g] \o t \in Seq(UpTypes)
  <2>1. up[g] \in Seq(UpTypes)
      BY DEF TypeOK
  <2> QED
      BY <2>1, ConcatFacts
<1>3. up' \in [Players -> Seq(UpTypes)]
    BY <1>1, <1>2 DEF TypeOK
<1>4. stage' \in [Players -> Stages] /\ UNCHANGED <<list, down, session, named, overtake>>
    BY ClientAdds DEF TypeOK, Stages
<1>5. updates' \in [Players -> 0 .. MaxUpdates]
  <2>1. CASE EnterGame(g)
      BY <2>1 DEF EnterGame, TypeOK
  <2>2. CASE SendUpdate(g)
    <3>1. updates[g] + 1 \in 0 .. MaxUpdates
        BY <2>2, MaxUpdatesAssumption DEF SendUpdate, TypeOK
    <3> QED
        BY <2>2, <3>1 DEF SendUpdate, TypeOK
  <2> QED
      BY <2>1, <2>2
<1> QED
    BY <1>3, <1>4, <1>5 DEF TypeOK

LEMMA LeaveTypes ==
    ASSUME TypeOK, NEW g \in Players, Leaves(g)
    PROVE  TypeOK'
<1>1. PICK s \in Seq(UpTypes) : up' = [up EXCEPT ![g] = s \o <<"END">>]
    BY DEF Leaves
<1>2. s \o <<"END">> \in Seq(UpTypes)
    BY UpFacts, ConcatFacts
<1>3. up' \in [Players -> Seq(UpTypes)]
    BY <1>1, <1>2 DEF TypeOK
<1>4. down' \in [Players -> Seq(DownPackets)]
    BY DEF Leaves, TypeOK
<1>5. [h \in Players |-> "absent"] \in [Players -> Entries]
    BY DEF Entries
<1>6. list' \in [Players -> [Players -> Entries]]
    BY <1>5 DEF Leaves, TypeOK
<1>7. stage' \in [Players -> Stages] /\ UNCHANGED <<session, named, overtake, updates>>
    BY DEF Leaves, TypeOK, Stages
<1> QED
    BY <1>3, <1>4, <1>6, <1>7 DEF TypeOK

LEMMA TakeTypes ==
    ASSUME TypeOK, NEW c \in Players, NEW i \in DOMAIN down[c], Takes(c, i)
    PROVE  TypeOK'
<1>1. PICK d \in Seq(DownPackets) : d = down[c]
    BY DEF TypeOK
<1>2. d[i] \in DownPackets /\ i \in DOMAIN d
    BY <1>1
<1>3. Removed(d, i) \in Seq(DownPackets)
    BY <1>2, RemovedFacts
<1>4. down' \in [Players -> Seq(DownPackets)]
    BY <1>1, <1>3 DEF Takes, TypeOK
<1>5. up[c] \o <<"BASEINFO">> \in Seq(UpTypes)
  <2>1. up[c] \in Seq(UpTypes) /\ <<"BASEINFO">> \in Seq(UpTypes)
      BY UpFacts, OneFacts DEF TypeOK
  <2> QED
      BY <2>1, ConcatFacts
<1>6. up' \in [Players -> Seq(UpTypes)]
    BY <1>5 DEF Takes, TypeOK
<1>7. list' \in [Players -> [Players -> Entries]]
  <2>1. PICK about \in Players : about = d[i].about
      BY <1>2, PacketTypes
  <2>2. list[c] \in [Players -> Entries] /\ list[c][about] \in Entries
      BY DEF TypeOK
  <2>3. PICK e \in Entries : e = Entered(list[c][about], d[i])
      BY <1>2, <2>2, EnteredType
  <2>4. list' = list \/ list' = [list EXCEPT ![c][about] = e]
      BY <1>1, <2>1, <2>3 DEF Takes
  <2>5. PICK row \in [Players -> Entries] : row = [list[c] EXCEPT ![about] = e]
      BY <2>2
  <2>6. list' = list \/ list' = [list EXCEPT ![c] = row]
      BY <2>4, <2>5
  <2> QED
      BY <2>6 DEF TypeOK
<1>8. stage' \in [Players -> Stages] /\ UNCHANGED <<session, named, overtake, updates>>
    BY DEF Takes, TypeOK, Stages
<1> QED
    BY <1>4, <1>6, <1>7, <1>8 DEF TypeOK

LEMMA HandleTypes ==
    ASSUME TypeOK, NEW g \in Players, NEW i \in DOMAIN up[g], Handled(g, i), AddedToAll
    PROVE  TypeOK'
<1>1. up[g] \in Seq(UpTypes)
    BY DEF TypeOK
<1>2. Removed(up[g], i) \in Seq(UpTypes)
    BY <1>1, RemovedFacts
<1>3. up' \in [Players -> Seq(UpTypes)]
    BY <1>2 DEF Handled, TypeOK
<1> QED
    BY <1>3 DEF Handled, Sessions, AddedToAll, TypeOK

\* The steps, as these proofs know them.
LEMMA NextCases ==
    ASSUME TypeOK, [Next]_vars
    PROVE  \/ \E g \in Players : Join(g) \/ EnterGame(g) \/ SendUpdate(g) \/ Leaves(g)
           \/ \E c \in Players : \E i \in DOMAIN down[c] :
                  /\ Takes(c, i) /\ ~(down[c][i].type = "DISCONNECTED" /\ down[c][i].about = c)
                  /\ MayCome([j \in DOMAIN down[c] |-> down[c][j].type], i)
           \/ \E g \in Players : \E i \in DOMAIN up[g] : Handle(g, i) /\ Handled(g, i) /\ AddedToAll
           \/ UNCHANGED vars
BY QuitLeaves, ReceiveCases, HandleFacts DEF Next, Clients, Deliver

\* What the client h does leaves the others alone.
Clientlike(h) == Join(h) \/ EnterGame(h) \/ SendUpdate(h) \/ Leaves(h) \/ \E i \in DOMAIN down[h] : Takes(h, i)

LEMMA ClientsApart ==
    ASSUME TypeOK, NEW h \in Players, NEW g \in Players, h # g, Clientlike(h)
    PROVE  /\ session'[g] = session[g] /\ named'[g] = named[g] /\ up'[g] = up[g]
           /\ down'[g] = down[g] /\ list'[g] = list[g] /\ stage'[g] = stage[g]
<1>1. CASE Join(h)
    BY <1>1 DEF Join, TypeOK
<1>2. CASE EnterGame(h) \/ SendUpdate(h)
    BY <1>2, ClientAdds DEF TypeOK
<1>3. CASE Leaves(h)
    BY <1>3 DEF Leaves, TypeOK
<1>4. ASSUME NEW i \in DOMAIN down[h], Takes(h, i)
      PROVE  /\ session'[g] = session[g] /\ named'[g] = named[g] /\ up'[g] = up[g]
             /\ down'[g] = down[g] /\ list'[g] = list[g] /\ stage'[g] = stage[g]
    BY <1>4 DEF Takes, TypeOK
<1> QED
    BY <1>1, <1>2, <1>3, <1>4 DEF Clientlike

\* Type correctness.
THEOREM TypeCorrect == Spec => []TypeOK
<1>1. Init => TypeOK
  <2> SUFFICES ASSUME Init PROVE TypeOK
      OBVIOUS
  <2>1. [h \in Players |-> "absent"] \in [Players -> Entries]
      BY DEF Entries
  <2>2. list \in [Players -> [Players -> Entries]]
      BY <2>1 DEF Init
  <2>3. updates \in [Players -> 0 .. MaxUpdates]
      BY MaxUpdatesAssumption DEF Init
  <2> QED
      BY <2>2, <2>3 DEF Init, TypeOK, Stages, SessionStates
<1>2. TypeOK /\ [Next]_vars => TypeOK'
  <2> SUFFICES ASSUME TypeOK, [Next]_vars PROVE TypeOK'
      OBVIOUS
  <2>1. CASE UNCHANGED vars
      BY <2>1 DEF vars, TypeOK
  <2> QED
      BY <2>1, NextCases, JoinTypes, ClientTypes, LeaveTypes, TakeTypes, HandleTypes
<1> QED
    BY <1>1, <1>2, PTL DEF Spec

-----------------------------------------------------------------------------
(* A player's way through its life, as stage, session and the queues show it. *)

Has(s, type) == \E i \in DOMAIN s : s[i] = type

StagesInv ==
    \A g \in Players : /\ stage[g] = "out" => session[g] = "none"
                       /\ session[g] = "POSTLOADED" => stage[g] \in {"playing", "gone"}
                       /\ Has(up[g], "LOADED") => stage[g] \in {"playing", "gone"}

\* The server will learn that a player has left.
GoneInv == \A g \in Players : stage[g] = "gone" => down[g] = <<>> /\ (InSession(g) => Has(up[g], "END"))

\* The answer to joining is for those who wait for it, and comes first.
JoiningInv ==
    \A g \in Players : \A i \in DOMAIN down[g] : down[g][i].type = "PREINIT" => i = 1 /\ stage[g] = "joining"

\* Nobody is told of the end of a session that goes on.
EndsInv ==
    \A c \in Players : \A i \in DOMAIN down[c] :
        down[c][i].type = "DISCONNECTED" => session[down[c][i].about] \in {"left", "kicked"}

LifeInv == StagesInv /\ GoneInv /\ JoiningInv /\ EndsInv

\* What follows for the queues, once and for all.
LEMMA HasFacts ==
    ASSUME NEW S, NEW s \in Seq(S), NEW t \in Seq(S), NEW type
    PROVE  /\ Has(s \o t, type) <=> Has(s, type) \/ Has(t, type)
           /\ \A i \in DOMAIN s : /\ Has(Removed(s, i), type) => Has(s, type)
                                  /\ Has(s, type) /\ s[i] # type => Has(Removed(s, i), type)
<1>1. Has(s \o t, type) <=> Has(s, type) \/ Has(t, type)
  <2>1. \A k \in DOMAIN (s \o t) : \/ k \in DOMAIN s /\ (s \o t)[k] = s[k]
                                   \/ \E j \in DOMAIN t : k = Len(s) + j /\ (s \o t)[k] = t[j]
      BY ConcatElements
  <2>2. Has(s \o t, type) => Has(s, type) \/ Has(t, type)
      BY <2>1 DEF Has
  <2>3. \A i \in DOMAIN s : i \in DOMAIN (s \o t) /\ (s \o t)[i] = s[i]
      BY ConcatFacts
  <2>4. \A j \in DOMAIN t : Len(s) + j \in DOMAIN (s \o t) /\ (s \o t)[Len(s) + j] = t[j]
      BY ConcatFacts
  <2>5. Has(s, type) => Has(s \o t, type)
      BY <2>3 DEF Has
  <2>6. Has(t, type) => Has(s \o t, type)
      BY <2>4 DEF Has
  <2> QED
      BY <2>2, <2>5, <2>6
<1>2. ASSUME NEW i \in DOMAIN s
      PROVE  /\ Has(Removed(s, i), type) => Has(s, type)
             /\ Has(s, type) /\ s[i] # type => Has(Removed(s, i), type)
  <2>1. /\ \A j \in DOMAIN Removed(s, i) :
               /\ j < i => j \in DOMAIN s /\ Removed(s, i)[j] = s[j]
               /\ j >= i => j + 1 \in DOMAIN s /\ Removed(s, i)[j] = s[j + 1]
        /\ \A j \in DOMAIN s :
               /\ j < i => j \in DOMAIN Removed(s, i) /\ Removed(s, i)[j] = s[j]
               /\ j > i => j - 1 \in DOMAIN Removed(s, i) /\ Removed(s, i)[j - 1] = s[j]
      BY RemovedFacts
  <2>2. /\ \A j \in DOMAIN s : j \in Int /\ i \in Int
        /\ \A j \in DOMAIN Removed(s, i) : j \in Int
      BY RemovedFacts
  <2> QED
      BY <2>1, <2>2 DEF Has
<1> QED
    BY <1>1, <1>2

LEMMA JoinLife ==
    ASSUME TypeOK, LifeInv, NEW g \in Players, Join(g)
    PROVE  LifeInv'
<1>1. /\ stage[g] = "out" /\ UNCHANGED <<list, up, named>>
      /\ \A p \in Players : /\ stage'[p] = IF p = g THEN "joining" ELSE stage[p]
                            /\ session'[p] = IF p = g THEN "NOTLOADED" ELSE session[p]
                            /\ down'[p] = IF p = g THEN <<Packet("PREINIT", g, TRUE)>> ELSE down[p]
    BY DEF Join, TypeOK
<1>2. session[g] = "none"
    BY <1>1 DEF LifeInv, StagesInv
<1>3. DOMAIN <<Packet("PREINIT", g, TRUE)>> = {1} /\ <<Packet("PREINIT", g, TRUE)>>[1].type = "PREINIT"
    BY DEF Packet
<1>4. ~Has(up[g], "LOADED")
    BY <1>1 DEF LifeInv, StagesInv
<1>5. StagesInv'
    BY <1>1, <1>4 DEF LifeInv, StagesInv
<1>6. GoneInv'
    BY <1>1 DEF LifeInv, GoneInv, InSession
<1>7. JoiningInv'
    BY <1>1, <1>3 DEF LifeInv, JoiningInv
<1>8. EndsInv'
  <2>1. ASSUME NEW h \in Players, session[h] \in {"left", "kicked"} PROVE session'[h] \in {"left", "kicked"}
      BY <1>1, <1>2, <2>1
  <2>2. \A c \in Players : \A i \in DOMAIN down[c] : down[c][i].about \in Players
    <3>1. \A c \in Players : \A i \in DOMAIN down[c] : down[c][i] \in DownPackets
        BY DEF TypeOK
    <3> QED
        BY <3>1, PacketTypes
  <2>3. ASSUME NEW c \in Players, NEW i \in DOMAIN down'[c], down'[c][i].type = "DISCONNECTED"
        PROVE  session'[down'[c][i].about] \in {"left", "kicked"}
    <3>1. c # g
        BY <1>1, <1>3, <2>3
    <3>2. i \in DOMAIN down[c] /\ down'[c][i] = down[c][i]
        BY <1>1, <2>3, <3>1
    <3>3. session[down[c][i].about] \in {"left", "kicked"}
        BY <2>3, <3>2 DEF LifeInv, EndsInv
    <3> QED
        BY <2>1, <2>2, <3>2, <3>3
  <2> QED
      BY <2>3 DEF EndsInv
<1> QED
    BY <1>5, <1>6, <1>7, <1>8 DEF LifeInv

LEMMA ClientLife ==
    ASSUME TypeOK, LifeInv, NEW g \in Players, EnterGame(g) \/ SendUpdate(g)
    PROVE  LifeInv'
<1>1. PICK t \in Seq(UpTypes) : up' = [up EXCEPT ![g] = @ \o t]
    BY ClientAdds
<1>2. /\ stage[g] \in {"creating", "playing"} /\ stage' = [stage EXCEPT ![g] = "playing"]
      /\ UNCHANGED <<list, down, session, named, overtake>>
    BY ClientAdds
<1>3. /\ \A p \in Players : stage'[p] = IF p = g THEN "playing" ELSE stage[p]
      /\ \A p \in Players \ {g} : up'[p] = up[p]
    BY <1>1, <1>2 DEF TypeOK
<1>4. session[g] # "none" \/ stage[g] # "out"
    BY <1>2
<1>5. StagesInv'
    BY <1>2, <1>3 DEF LifeInv, StagesInv
<1>6. GoneInv'
    BY <1>2, <1>3 DEF LifeInv, GoneInv, InSession
<1>7. JoiningInv' /\ EndsInv'
    BY <1>2, <1>3 DEF LifeInv, JoiningInv, EndsInv
<1> QED
    BY <1>5, <1>6, <1>7 DEF LifeInv

LEMMA LeaveLife ==
    ASSUME TypeOK, LifeInv, NEW g \in Players, Leaves(g)
    PROVE  LifeInv' /\ Has(up'[g], "END")
<1>1. PICK s \in Seq(UpTypes) : up' = [up EXCEPT ![g] = s \o <<"END">>]
    BY DEF Leaves
<1>2. Has(s \o <<"END">>, "END")
  <2>1. Has(<<"END">>, "END") /\ <<"END">> \in Seq(UpTypes)
      BY UpFacts DEF Has
  <2> QED
      BY <2>1, HasFacts
<1>3. /\ \A p \in Players : /\ stage'[p] = IF p = g THEN "gone" ELSE stage[p]
                            /\ down'[p] = IF p = g THEN <<>> ELSE down[p]
                            /\ up'[p] = IF p = g THEN s \o <<"END">> ELSE up[p]
      /\ session' = session
    BY <1>1 DEF Leaves, TypeOK
<1>4. Has(up'[g], "END")
    BY <1>2, <1>3
<1>5. StagesInv' /\ GoneInv'
    BY <1>3, <1>4 DEF LifeInv, StagesInv, GoneInv, InSession
<1>6. JoiningInv' /\ EndsInv'
    BY <1>3 DEF LifeInv, JoiningInv, EndsInv
<1> QED
    BY <1>4, <1>5, <1>6 DEF LifeInv

LEMMA TakeLife ==
    ASSUME TypeOK, LifeInv, NEW c \in Players, NEW i \in DOMAIN down[c], Takes(c, i)
    PROVE  LifeInv'
<1>1. PICK d \in Seq(DownPackets), u \in Seq(UpTypes) : d = down[c] /\ u = up[c]
    BY DEF TypeOK
<1>2. i \in DOMAIN d /\ i \in Int /\ d # <<>>
    BY <1>1
<1>3. /\ \A p \in Players : /\ down'[p] = IF p = c THEN Removed(d, i) ELSE down[p]
                            /\ stage'[p] = IF p = c /\ d[i].type = "PREINIT" THEN "creating" ELSE stage[p]
                            /\ up'[p] = IF p = c /\ d[i].type = "REQUEST" THEN u \o <<"BASEINFO">> ELSE up[p]
      /\ session' = session
    BY <1>1 DEF Takes, TypeOK
<1>4. d[i].type = "PREINIT" => i = 1 /\ stage[c] = "joining"
    BY <1>1, <1>2 DEF LifeInv, JoiningInv
<1>5. stage[c] # "gone"
    BY <1>1, <1>2 DEF LifeInv, GoneInv
<1>6. \A k \in DOMAIN Removed(d, i) : /\ k \in Int /\ k >= 1
                                      /\ k < i => k \in DOMAIN d /\ Removed(d, i)[k] = d[k]
                                      /\ k >= i => k + 1 \in DOMAIN d /\ Removed(d, i)[k] = d[k + 1]
  <2>1. Removed(d, i) \in Seq(DownPackets)
      BY <1>2, RemovedFacts
  <2>2. \A k \in DOMAIN Removed(d, i) : k \in Int /\ k >= 1
      BY <2>1
  <2> QED
      BY <1>2, <2>2, RemovedFacts
<1>7. Has(u \o <<"BASEINFO">>, "LOADED") <=> Has(u, "LOADED")
  <2>1. <<"BASEINFO">> \in Seq(UpTypes) /\ ~Has(<<"BASEINFO">>, "LOADED")
      BY UpFacts, OneFacts DEF Has
  <2> QED
      BY <2>1, HasFacts
<1>8. StagesInv'
    BY <1>1, <1>3, <1>4, <1>5, <1>7 DEF LifeInv, StagesInv
<1>9. GoneInv'
    BY <1>3, <1>5 DEF LifeInv, GoneInv, InSession
<1>10. JoiningInv'
  <2> SUFFICES ASSUME NEW p \in Players, NEW k \in DOMAIN down'[p], down'[p][k].type = "PREINIT"
               PROVE  k = 1 /\ stage'[p] = "joining"
      BY DEF JoiningInv
  <2>1. CASE p # c
      BY <1>3, <2>1 DEF LifeInv, JoiningInv
  <2>2. CASE p = c
    <3>1. k \in DOMAIN Removed(d, i) /\ Removed(d, i)[k].type = "PREINIT"
        BY <1>3, <2>2
    <3>2. \A m \in DOMAIN d : d[m].type = "PREINIT" => m = 1 /\ stage[c] = "joining"
        BY <1>1 DEF LifeInv, JoiningInv
    <3>3. k < i
        BY <1>2, <1>6, <3>1, <3>2
    <3>4. k = 1 /\ stage[c] = "joining"
        BY <1>6, <3>1, <3>2, <3>3
    <3>5. d[i].type # "PREINIT"
        BY <1>2, <1>4, <3>3, <3>4
    <3> QED
        BY <1>3, <2>2, <3>4, <3>5
  <2> QED
      BY <2>1, <2>2
<1>11. EndsInv'
  <2>1. \A k \in DOMAIN Removed(d, i) : \E m \in DOMAIN d : Removed(d, i)[k] = d[m]
      BY <1>2, <1>6
  <2> QED
      BY <1>1, <1>3, <2>1 DEF LifeInv, EndsInv
<1> QED
    BY <1>8, <1>9, <1>10, <1>11 DEF LifeInv

\* How the session of g itself changes.
LEMMA HandleSession ==
    ASSUME TypeOK, NEW g \in Players, NEW i \in DOMAIN up[g], Handle(g, i)
    PROVE  /\ session'[g] = "POSTLOADED" /\ session[g] # "POSTLOADED" => up[g][i] = "LOADED" /\ NewPlayer(g) /\ InSession(g)
           /\ up[g][i] = "END" => ~InSession(g)'
           /\ InSession(g)' => InSession(g)
           /\ ~InSession(g) => session'[g] = session[g]
           /\ InSession(g) /\ up[g][i] = "BASEINFO" => BaseInfo(g)
<1>1. session \in [Players -> SessionStates]
    BY DEF TypeOK
<1>2. CASE ~InSession(g) /\ UNCHANGED <<session, named, down>>
    BY <1>2 DEF InSession
<1>3. CASE InSession(g) /\ up[g][i] = "BASEINFO" /\ BaseInfo(g)
    BY <1>3 DEF BaseInfo, InSession
<1>4. CASE InSession(g) /\ up[g][i] = "LOADED" /\ Loaded(g)
    BY <1>1, <1>4 DEF Loaded, InSession
<1>5. CASE InSession(g) /\ up[g][i] = "UPDATE" /\ Update(g)
    BY <1>5 DEF Update, InSession
<1>6. CASE InSession(g) /\ up[g][i] = "END" /\ DisconnectPlayer(g)
    BY <1>1, <1>6 DEF DisconnectPlayer, InSession
<1> QED
    BY <1>2, <1>3, <1>4, <1>5, <1>6 DEF Handle

LEMMA HandleLife ==
    ASSUME TypeOK, LifeInv, NEW g \in Players, NEW i \in DOMAIN up[g], Handle(g, i), Handled(g, i), AddedToAll
    PROVE  LifeInv'
<1>1. PICK u \in Seq(UpTypes) : u = up[g] /\ i \in DOMAIN u
    BY DEF TypeOK
<1>2. /\ \A p \in Players : up'[p] = IF p = g THEN Removed(u, i) ELSE up[p]
      /\ \A p \in Players \ {g} : session'[p] = session[p]
      /\ stage' = stage
    BY <1>1 DEF Handled, Sessions, TypeOK
<1>3. /\ session'[g] = "POSTLOADED" /\ session[g] # "POSTLOADED" => Has(u, "LOADED")
      /\ u[i] = "END" => ~InSession(g)'
      /\ InSession(g)' => InSession(g)
      /\ ~InSession(g) => session'[g] = session[g]
    BY <1>1, HandleSession DEF Has
<1>4. /\ Has(Removed(u, i), "LOADED") => Has(u, "LOADED")
      /\ Has(u, "END") /\ u[i] # "END" => Has(Removed(u, i), "END")
    BY <1>1, HasFacts
<1>5. \A p \in Players : session[p] \in {"none", "left", "kicked"} => session'[p] = session[p]
    BY <1>2, <1>3 DEF InSession
<1>6. StagesInv'
    BY <1>1, <1>2, <1>3, <1>4, <1>5 DEF LifeInv, StagesInv
<1>7. GoneInv'
  <2> SUFFICES ASSUME NEW p \in Players, stage[p] = "gone"
               PROVE  down'[p] = <<>> /\ (InSession(p)' => Has(up'[p], "END"))
      BY <1>2 DEF GoneInv
  <2>1. down[p] = <<>> /\ (InSession(p) => Has(up[p], "END"))
      BY DEF LifeInv, GoneInv
  <2>2. down'[p] = down[p] \o <<>>
      BY DEF AddedToAll, Added
  <2>3. down'[p] = <<>>
      BY <2>1, <2>2
  <2>4. CASE p = g
      BY <1>1, <1>2, <1>3, <1>4, <2>1, <2>3, <2>4
  <2>5. CASE p # g
      BY <1>2, <2>1, <2>3, <2>5 DEF InSession
  <2> QED
      BY <2>4, <2>5
<1>8. ASSUME NEW p \in Players
      PROVE  \A k \in DOMAIN down'[p] : /\ down'[p][k].type = "PREINIT" => k = 1 /\ stage'[p] = "joining"
                                        /\ down'[p][k].type = "DISCONNECTED" =>
                                               session'[down'[p][k].about] \in {"left", "kicked"}
  <2>1. PICK d \in Seq(DownPackets) : d = down[p]
      BY DEF TypeOK
  <2>2. PICK t \in Seq(DownPackets) : Added(p, t)
      BY DEF AddedToAll
  <2>3. \A k \in DOMAIN d : /\ d[k].type = "PREINIT" => k = 1 /\ stage[p] = "joining"
                            /\ d[k].type = "DISCONNECTED" => session[d[k].about] \in {"left", "kicked"}
                            /\ d[k].about \in Players
    <3>1. \A k \in DOMAIN d : d[k] \in DownPackets
        OBVIOUS
    <3> QED
        BY <2>1, <3>1, PacketTypes DEF LifeInv, JoiningInv, EndsInv
  <2>4. \A k \in DOMAIN (d \o t) : \/ k \in DOMAIN d /\ (d \o t)[k] = d[k]
                                   \/ \E j \in DOMAIN t : k = Len(d) + j /\ (d \o t)[k] = t[j]
      BY ConcatElements
  <2>5. \A k \in DOMAIN (d \o t) : (k \in DOMAIN d /\ (d \o t)[k] = d[k]) \/ \E j \in DOMAIN t : (d \o t)[k] = t[j]
      BY <2>4
  <2>6. down'[p] = d \o t
      BY <2>1, <2>2 DEF Added
  <2>7. \A j \in DOMAIN t : /\ t[j].type # "PREINIT"
                            /\ t[j].type = "DISCONNECTED" => session'[t[j].about] \in {"left", "kicked"}
      BY <2>2 DEF Added
  <2>8. \A k \in DOMAIN d : /\ d[k].type = "PREINIT" => k = 1 /\ stage'[p] = "joining"
                            /\ d[k].type = "DISCONNECTED" => session'[d[k].about] \in {"left", "kicked"}
      BY <1>2, <1>5, <2>3
  <2> SUFFICES ASSUME NEW k \in DOMAIN (d \o t)
               PROVE  /\ (d \o t)[k].type = "PREINIT" => k = 1 /\ stage'[p] = "joining"
                      /\ (d \o t)[k].type = "DISCONNECTED" => session'[(d \o t)[k].about] \in {"left", "kicked"}
      BY <2>6
  <2>9. CASE k \in DOMAIN d /\ (d \o t)[k] = d[k]
      BY <2>8, <2>9
  <2>10. CASE \E j \in DOMAIN t : (d \o t)[k] = t[j]
      BY <2>7, <2>10
  <2> QED
      BY <2>5, <2>9, <2>10
<1>9. JoiningInv' /\ EndsInv'
    BY <1>8 DEF JoiningInv, EndsInv
<1> QED
    BY <1>6, <1>7, <1>9 DEF LifeInv

\* Client and server agree on a player's life as far as packets can tell them: it is
\* answered when it joins and before anything else, it is only said to have left when
\* its session is over, and the server will learn it when the process ends.
THEOREM LifeInvariant == Spec => []LifeInv
<1>1. Init => LifeInv
    BY DEF Init, LifeInv, StagesInv, GoneInv, JoiningInv, EndsInv, Has
<1>2. TypeOK /\ LifeInv /\ [Next]_vars => LifeInv'
  <2> SUFFICES ASSUME TypeOK, LifeInv, [Next]_vars PROVE LifeInv'
      OBVIOUS
  <2>1. CASE UNCHANGED vars
      BY <2>1 DEF vars, LifeInv, StagesInv, GoneInv, JoiningInv, EndsInv, InSession
  <2> QED
      BY <2>1, NextCases, JoinLife, ClientLife, LeaveLife, TakeLife, HandleLife
<1> QED
    BY <1>1, <1>2, TypeCorrect, PTL DEF Spec

-----------------------------------------------------------------------------
(* What a client will make of the packets that are on their way to it. *)

Tells(packet, g) == packet.type = "BASEINFO" /\ packet.about = g

\* With these packets to come and this entry of g, the client will have the name of
\* g in the end: it has it, or is told, and is not told otherwise later.
Told(s, entry, g) ==
    \E k \in {0} \cup DOMAIN s :
        /\ IF k = 0 THEN entry = "named" ELSE Tells(s[k], g) /\ s[k].full
        /\ \A j \in DOMAIN s : j > k /\ Tells(s[j], g) => s[j].full

\* Packets without information of g that lack the name change nothing.
LEMMA ToldMore ==
    ASSUME NEW s \in Seq(DownPackets), NEW t \in Seq(DownPackets), NEW entry, NEW g, Told(s, entry, g),
           \A j \in DOMAIN t : Tells(t[j], g) => t[j].full
    PROVE  Told(s \o t, entry, g)
<1>1. PICK k \in {0} \cup DOMAIN s :
          /\ IF k = 0 THEN entry = "named" ELSE Tells(s[k], g) /\ s[k].full
          /\ \A j \in DOMAIN s : j > k /\ Tells(s[j], g) => s[j].full
    BY DEF Told
<1>2. \A m \in DOMAIN (s \o t) : \/ m \in DOMAIN s /\ (s \o t)[m] = s[m]
                                 \/ \E j \in DOMAIN t : m = Len(s) + j /\ (s \o t)[m] = t[j]
    BY ConcatElements
<1>3. \A i \in DOMAIN s : i \in DOMAIN (s \o t) /\ (s \o t)[i] = s[i]
    BY ConcatFacts
<1>4. k \in {0} \cup DOMAIN (s \o t)
    BY <1>1, <1>3
<1>5. IF k = 0 THEN entry = "named" ELSE Tells((s \o t)[k], g) /\ (s \o t)[k].full
    BY <1>1, <1>3
<1>6. \A j \in DOMAIN (s \o t) : j > k /\ Tells((s \o t)[j], g) => (s \o t)[j].full
    BY <1>1, <1>2
<1> QED
    BY <1>4, <1>5, <1>6 DEF Told

\* Whatever was before, a packet with the name settles it.
LEMMA ToldNow ==
    ASSUME NEW s \in Seq(DownPackets), NEW t \in Seq(DownPackets), NEW entry, NEW g,
           NEW i \in DOMAIN t, Tells(t[i], g), \A j \in DOMAIN t : Tells(t[j], g) => t[j].full
    PROVE  Told(s \o t, entry, g)
<1>1. /\ \A j \in DOMAIN t : Len(s) + j \in DOMAIN (s \o t) /\ (s \o t)[Len(s) + j] = t[j]
      /\ \A m \in DOMAIN (s \o t) : \/ m \in DOMAIN s /\ (s \o t)[m] = s[m]
                                    \/ \E j \in DOMAIN t : m = Len(s) + j /\ (s \o t)[m] = t[j]
  <2>1. \A j \in DOMAIN t : Len(s) + j \in DOMAIN (s \o t) /\ (s \o t)[Len(s) + j] = t[j]
      BY ConcatFacts
  <2>2. \A m \in DOMAIN (s \o t) : \/ m \in DOMAIN s /\ (s \o t)[m] = s[m]
                                   \/ \E j \in DOMAIN t : m = Len(s) + j /\ (s \o t)[m] = t[j]
      BY ConcatElements
  <2> QED
      BY <2>1, <2>2
<1>2. PICK k : k = Len(s) + i
    OBVIOUS
<1>3. k \in DOMAIN (s \o t) /\ k # 0 /\ k \in Int
    BY <1>1, <1>2
<1>4. Tells((s \o t)[k], g) /\ (s \o t)[k].full
    BY <1>1, <1>2
<1>5. ASSUME NEW m \in DOMAIN (s \o t), m > k, Tells((s \o t)[m], g) PROVE (s \o t)[m].full
  <2>1. m \notin DOMAIN s
    <3> SUFFICES ASSUME m \in DOMAIN s PROVE FALSE
        OBVIOUS
    <3>1. m < k /\ m \in Int
        BY <1>2, LenProperties
    <3> QED
        BY <1>3, <1>5, <3>1
  <2>2. PICK j \in DOMAIN t : m = Len(s) + j
      BY <1>1, <2>1
  <2> QED
      BY <1>1, <1>5, <2>2
<1> QED
    BY <1>3, <1>4, <1>5 DEF Told

\* A packet is taken, before which there is none with information of g if it has some.
LEMMA ToldAfter ==
    ASSUME NEW s \in Seq(DownPackets), NEW i \in DOMAIN s, NEW entry, NEW after, NEW g, Told(s, entry, g),
           \A j \in DOMAIN s : j < i /\ Tells(s[i], g) => ~Tells(s[j], g),
           Tells(s[i], g) /\ s[i].full => after = "named",
           ~Tells(s[i], g) /\ entry = "named" => after = "named"
    PROVE  Told(Removed(s, i), after, g)
<1>1. PICK k \in {0} \cup DOMAIN s :
          /\ IF k = 0 THEN entry = "named" ELSE Tells(s[k], g) /\ s[k].full
          /\ \A j \in DOMAIN s : j > k /\ Tells(s[j], g) => s[j].full
    BY DEF Told
<1>2. PICK r \in Seq(DownPackets) : r = Removed(s, i)
    BY RemovedFacts
<1>3. /\ \A j \in DOMAIN r : /\ j < i => j \in DOMAIN s /\ r[j] = s[j]
                             /\ j >= i => j + 1 \in DOMAIN s /\ r[j] = s[j + 1]
      /\ \A j \in DOMAIN s : /\ j < i => j \in DOMAIN r /\ r[j] = s[j]
                             /\ j > i => j - 1 \in DOMAIN r /\ r[j - 1] = s[j]
    BY <1>2, RemovedFacts
<1>4. i \in Nat \ {0} /\ k \in Nat /\ DOMAIN s \subseteq Nat \ {0} /\ DOMAIN r \subseteq Nat \ {0}
    OBVIOUS
<1>5. CASE k = 0 \/ k = i
  <2>1. Tells(s[i], g) => s[i].full
      BY <1>1, <1>4, <1>5
  <2>2. after = "named"
      BY <1>1, <1>4, <1>5, <2>1
  <2>3. ASSUME NEW j \in DOMAIN r, Tells(r[j], g) PROVE r[j].full
    <3>1. CASE j < i
        BY <1>1, <1>3, <1>4, <1>5, <2>3, <3>1
    <3>2. CASE j >= i
      <4>1. j + 1 \in DOMAIN s /\ r[j] = s[j + 1] /\ j + 1 > k
          BY <1>3, <1>4, <1>5, <3>2
      <4> QED
          BY <1>1, <2>3, <4>1
    <3> QED
        BY <1>4, <3>1, <3>2
  <2> QED
      BY <1>2, <2>2, <2>3 DEF Told
<1>6. CASE k # 0 /\ k < i
  <2>1. k \in DOMAIN r /\ r[k] = s[k]
      BY <1>1, <1>3, <1>6
  <2>2. ASSUME NEW j \in DOMAIN r, j > k, Tells(r[j], g) PROVE r[j].full
    <3>1. CASE j < i
        BY <1>1, <1>3, <2>2, <3>1
    <3>2. CASE j >= i
      <4>1. j + 1 \in DOMAIN s /\ r[j] = s[j + 1] /\ j + 1 > k
          BY <1>3, <1>4, <2>2, <3>2
      <4> QED
          BY <1>1, <2>2, <4>1
    <3> QED
        BY <1>4, <3>1, <3>2
  <2> QED
      BY <1>1, <1>2, <1>6, <2>1, <2>2 DEF Told
<1>7. CASE k > i
  <2>1. PICK l \in DOMAIN r : l = k - 1 /\ r[l] = s[k]
      BY <1>1, <1>3, <1>4, <1>7
  <2>2. ASSUME NEW j \in DOMAIN r, j > l, Tells(r[j], g) PROVE r[j].full
    <3>1. j >= i /\ j + 1 > k
        BY <1>4, <1>7, <2>1, <2>2
    <3>2. j + 1 \in DOMAIN s /\ r[j] = s[j + 1]
        BY <1>3, <3>1
    <3> QED
        BY <1>1, <2>2, <3>1, <3>2
  <2>3. k # 0 /\ l # 0
      BY <1>4, <1>7, <2>1
  <2>4. Tells(r[l], g) /\ r[l].full
      BY <1>1, <2>1, <2>3
  <2> QED
      BY <1>2, <2>2, <2>3, <2>4 DEF Told
<1> QED
    BY <1>4, <1>5, <1>6, <1>7

\* A request for the base information is among the packets.
Asked(s) == \E i \in DOMAIN s : s[i].type = "REQUEST"

LEMMA AskedFacts ==
    ASSUME NEW s \in Seq(DownPackets), NEW t \in Seq(DownPackets)
    PROVE  /\ Asked(s) => Asked(s \o t)
           /\ Asked(t) => Asked(s \o t)
           /\ \A i \in DOMAIN s : Asked(s) /\ s[i].type # "REQUEST" => Asked(Removed(s, i))
<1>1. /\ \A i \in DOMAIN s : i \in DOMAIN (s \o t) /\ (s \o t)[i] = s[i]
      /\ \A j \in DOMAIN t : Len(s) + j \in DOMAIN (s \o t) /\ (s \o t)[Len(s) + j] = t[j]
    BY ConcatFacts
<1>2. ASSUME NEW i \in DOMAIN s, Asked(s), s[i].type # "REQUEST" PROVE Asked(Removed(s, i))
  <2>1. PICK j \in DOMAIN s : s[j].type = "REQUEST"
      BY <1>2 DEF Asked
  <2>2. j < i \/ j > i
      BY <1>2, <2>1
  <2>3. /\ j < i => j \in DOMAIN Removed(s, i) /\ Removed(s, i)[j] = s[j]
        /\ j > i => j - 1 \in DOMAIN Removed(s, i) /\ Removed(s, i)[j - 1] = s[j]
      BY RemovedFacts
  <2> QED
      BY <2>1, <2>2, <2>3 DEF Asked
<1> QED
    BY <1>1, <1>2 DEF Asked

-----------------------------------------------------------------------------
(* Without overtaking, the name is there before the player is in the game. *)

OrderInv ==
    ~overtake => \A g \in Players :
        InSession(g) => /\ named[g] \/ NameFirst(up[g])
                        /\ session[g] = "POSTLOADED" => named[g]

\* A session that goes on keeps its name, and gets it from the base information.
LEMMA NamedStays ==
    ASSUME TypeOK, NEW g \in Players, NEW i \in DOMAIN up[g], Handle(g, i)
    PROVE  /\ InSession(g)' /\ named[g] => named'[g]
           /\ InSession(g)' /\ up[g][i] = "BASEINFO" => named'[g]
<1>1. /\ ~InSession(g) => session'[g] = session[g]
      /\ InSession(g) /\ up[g][i] = "BASEINFO" => BaseInfo(g)
    BY HandleSession
<1>2. InSession(g)' => InSession(g)
    BY HandleSession
<1>3. BaseInfo(g) => named'[g] = TRUE
    BY DEF BaseInfo, TypeOK
<1>4. \/ UNCHANGED named
      \/ BaseInfo(g)
      \/ ~InSession(g)'
    BY DEF Handle, Loaded, Update, DisconnectPlayer, InSession, TypeOK
<1> QED
    BY <1>1, <1>2, <1>3, <1>4

\* In the order they were sent, without the first one.
LEMMA NameFirstTail ==
    ASSUME NEW u \in Seq(UpTypes), 1 \in DOMAIN u, NameFirst(u), u[1] # "BASEINFO"
    PROVE  u[1] # "LOADED" /\ NameFirst(Removed(u, 1))
<1>1. u[1] # "LOADED"
    BY DEF NameFirst
<1>2. PICK r \in Seq(UpTypes) : r = Removed(u, 1)
    BY RemovedFacts
<1>3. /\ \A j \in DOMAIN r : j >= 1 => j + 1 \in DOMAIN u /\ r[j] = u[j + 1]
      /\ \A j \in DOMAIN u : j > 1 => j - 1 \in DOMAIN r /\ r[j - 1] = u[j]
    BY <1>2, RemovedFacts
<1>4. ASSUME NEW k \in DOMAIN r, r[k] = "LOADED" PROVE \E j \in DOMAIN r : j < k /\ r[j] = "BASEINFO"
  <2>1. k >= 1 /\ k \in Int
      OBVIOUS
  <2>2. PICK j \in DOMAIN u : j < k + 1 /\ u[j] = "BASEINFO"
      BY <1>3, <1>4, <2>1 DEF NameFirst
  <2>3. j > 1 /\ j - 1 < k
      BY <2>1, <2>2
  <2> QED
      BY <1>3, <2>2, <2>3
<1> QED
    BY <1>1, <1>2, <1>4 DEF NameFirst

\* More of the same, in order.
LEMMA NameFirstMore ==
    ASSUME NEW u \in Seq(UpTypes), NEW t \in Seq(UpTypes), NameFirst(u), NameFirst(t)
    PROVE  NameFirst(u \o t)
<1>1. \A i \in DOMAIN u : i \in DOMAIN (u \o t) /\ (u \o t)[i] = u[i]
    BY ConcatFacts
<1>2. \A j \in DOMAIN t : Len(u) + j \in DOMAIN (u \o t) /\ (u \o t)[Len(u) + j] = t[j]
    BY ConcatFacts
<1>3. \A k \in DOMAIN (u \o t) : \/ k \in DOMAIN u /\ (u \o t)[k] = u[k]
                                 \/ \E j \in DOMAIN t : k = Len(u) + j /\ (u \o t)[k] = t[j]
    BY ConcatElements
<1>4. ASSUME NEW k \in DOMAIN (u \o t), (u \o t)[k] = "LOADED"
      PROVE  \E j \in DOMAIN (u \o t) : j < k /\ (u \o t)[j] = "BASEINFO"
  <2>1. CASE k \in DOMAIN u
      BY <1>1, <1>4, <2>1 DEF NameFirst
  <2>2. ASSUME NEW m \in DOMAIN t, k = Len(u) + m
        PROVE  \E j \in DOMAIN (u \o t) : j < k /\ (u \o t)[j] = "BASEINFO"
    <3>1. PICK n \in DOMAIN t : n < m /\ t[n] = "BASEINFO"
        BY <1>2, <1>4, <2>2 DEF NameFirst
    <3>2. Len(u) + n < k
        BY <2>2, <3>1, LenProperties
    <3> QED
        BY <1>2, <3>1, <3>2
  <2> QED
      BY <1>3, <2>1, <2>2
<1> QED
    BY <1>4 DEF NameFirst

LEMMA OrderKept ==
    ASSUME TypeOK, LifeInv, OrderInv, [Next]_vars
    PROVE  OrderInv'
<1>0. overtake' = overtake
    BY DEF Next, Clients, Deliver, Join, EnterGame, SendUpdate, Quit, Receive, Handle, vars
<1> SUFFICES ASSUME ~overtake, NEW g \in Players, InSession(g)'
             PROVE  (named'[g] \/ NameFirst(up'[g])) /\ (session'[g] = "POSTLOADED" => named'[g])
    BY <1>0 DEF OrderInv, InSession
<1>1. InSession(g) => (named[g] \/ NameFirst(up[g])) /\ (session[g] = "POSTLOADED" => named[g])
    BY DEF OrderInv
<1>2. PICK u \in Seq(UpTypes) : u = up[g]
    BY DEF TypeOK
<1>3. CASE session'[g] = session[g] /\ named'[g] = named[g] /\ up'[g] = up[g]
    BY <1>1, <1>3 DEF InSession
<1>4. CASE Join(g)
  <2>1. /\ stage[g] = "out" /\ session'[g] = "NOTLOADED" /\ up'[g] = up[g]
      BY <1>4 DEF Join, TypeOK
  <2>2. ~Has(up[g], "LOADED")
      BY <2>1 DEF LifeInv, StagesInv
  <2> QED
      BY <2>1, <2>2 DEF Has, NameFirst
<1>5. CASE EnterGame(g) \/ SendUpdate(g)
  <2>1. PICK t \in Seq(UpTypes) : up' = [up EXCEPT ![g] = @ \o t] /\ NameFirst(t)
      BY <1>5, ClientAdds
  <2>2. up'[g] = u \o t
      BY <1>2, <2>1 DEF TypeOK
  <2>3. UNCHANGED <<session, named>>
      BY <1>5, ClientAdds
  <2> QED
      BY <1>1, <1>2, <2>1, <2>2, <2>3, NameFirstMore DEF InSession
<1>6. CASE Leaves(g)
  <2>1. PICK s \in Seq(UpTypes) : /\ up' = [up EXCEPT ![g] = s \o <<"END">>]
                                  /\ \A k \in DOMAIN s : k \in DOMAIN up[g] /\ s[k] = up[g][k]
      BY <1>6 DEF Leaves
  <2>2. up'[g] = s \o <<"END">>
      BY <2>1 DEF TypeOK
  <2>3. NameFirst(<<"END">>) /\ <<"END">> \in Seq(UpTypes)
      BY UpFacts DEF NameFirst
  <2>4. NameFirst(u) => NameFirst(s)
    <3> SUFFICES ASSUME NameFirst(u), NEW k \in DOMAIN s, s[k] = "LOADED"
                 PROVE  \E j \in DOMAIN s : j < k /\ s[j] = "BASEINFO"
        BY DEF NameFirst
    <3>1. PICK j \in DOMAIN u : j < k /\ u[j] = "BASEINFO"
        BY <1>2, <2>1 DEF NameFirst
    <3>2. j \in DOMAIN s
        BY <3>1
    <3> QED
        BY <1>2, <2>1, <3>1, <3>2
  <2>5. UNCHANGED <<session, named>>
      BY <1>6 DEF Leaves
  <2> QED
      BY <1>1, <1>2, <2>2, <2>3, <2>4, <2>5, NameFirstMore DEF InSession
<1>7. ASSUME NEW i \in DOMAIN down[g], Takes(g, i)
      PROVE  (named'[g] \/ NameFirst(up'[g])) /\ (session'[g] = "POSTLOADED" => named'[g])
  <2>1. UNCHANGED <<session, named>> /\ (up'[g] = u \/ up'[g] = u \o <<"BASEINFO">>)
      BY <1>2, <1>7 DEF Takes, TypeOK
  <2>2. NameFirst(<<"BASEINFO">>) /\ <<"BASEINFO">> \in Seq(UpTypes)
      BY UpFacts, OneFacts DEF NameFirst
  <2> QED
      BY <1>1, <1>2, <2>1, <2>2, NameFirstMore DEF InSession
<1>8. ASSUME NEW i \in DOMAIN up[g], Handle(g, i), Handled(g, i)
      PROVE  (named'[g] \/ NameFirst(up'[g])) /\ (session'[g] = "POSTLOADED" => named'[g])
  <2>1. i = 1 /\ up'[g] = Removed(u, i)
      BY <1>2, <1>8 DEF Handled, MayCome, TypeOK
  <2>2. /\ named[g] => named'[g]
        /\ u[1] = "BASEINFO" => named'[g]
      BY <1>2, <1>8, <2>1, NamedStays
  <2>3. /\ session'[g] = "POSTLOADED" /\ session[g] # "POSTLOADED" => u[1] = "LOADED"
        /\ InSession(g)
      BY <1>2, <1>8, <2>1, HandleSession
  <2>4. CASE named[g]
      BY <2>2, <2>4
  <2>5. CASE ~named[g] /\ u[1] # "BASEINFO"
    <3>1. u[1] # "LOADED" /\ NameFirst(Removed(u, 1))
        BY <1>1, <1>2, <1>8, <2>1, <2>3, <2>5, NameFirstTail
    <3> QED
        BY <1>1, <2>1, <2>3, <2>5, <3>1
  <2> QED
      BY <2>2, <2>4, <2>5
<1>9. ASSUME NEW h \in Players, h # g, Clientlike(h)
      PROVE  session'[g] = session[g] /\ named'[g] = named[g] /\ up'[g] = up[g]
    BY <1>9, ClientsApart
<1>10. ASSUME NEW h \in Players, h # g, NEW i \in DOMAIN up[h], Handled(h, i)
       PROVE  session'[g] = session[g] /\ named'[g] = named[g] /\ up'[g] = up[g]
    BY <1>10 DEF Handled, Sessions, TypeOK
<1>11. CASE UNCHANGED vars
    BY <1>3, <1>11 DEF vars
<1> QED
    BY <1>3, <1>4, <1>5, <1>6, <1>7, <1>8, <1>9, <1>10, <1>11, NextCases DEF Clientlike

\* In the order sent, the server has the name of a player, or it comes before ID_LOADED
\* does; so everybody in the game has one.
THEOREM OrderInvariant == Spec => []OrderInv
<1>1. Init => OrderInv
    BY DEF Init, OrderInv, InSession
<1>2. TypeOK /\ LifeInv /\ OrderInv /\ [Next]_vars => OrderInv'
    BY OrderKept
<1> QED
    BY <1>1, <1>2, TypeCorrect, LifeInvariant, PTL DEF Spec

\* As long as packets do not overtake each other, no information of a player is
\* sent that lacks its name, whatever the order in which players come and go.
THEOREM InfosHaveNames == Spec => []InfosNamed
<1>1. Init => InfosNamed
    BY DEF Init, InfosNamed
<1>2. TypeOK /\ OrderInv' /\ InfosNamed /\ [Next]_vars => InfosNamed'
  <2> SUFFICES ASSUME TypeOK, OrderInv', InfosNamed, [Next]_vars PROVE InfosNamed'
      OBVIOUS
  <2>0. overtake' = overtake
      BY DEF Next, Clients, Deliver, Join, EnterGame, SendUpdate, Quit, Receive, Handle, vars
  <2> SUFFICES ASSUME ~overtake, NEW c \in Players PROVE \A k \in DOMAIN down'[c] : down'[c][k].full
      BY <2>0 DEF InfosNamed
  <2>1. PICK d \in Seq(DownPackets) : d = down[c] /\ \A k \in DOMAIN d : d[k].full
      BY DEF InfosNamed, TypeOK
  <2>2. CASE down'[c] = down[c]
      BY <2>1, <2>2
  <2>3. CASE Join(c)
    <3>1. down'[c] = <<Packet("PREINIT", c, TRUE)>>
        BY <2>3 DEF Join, TypeOK
    <3>2. PICK packet \in DownPackets : packet = Packet("PREINIT", c, TRUE) /\ packet.full
      <4>1. Packet("PREINIT", c, TRUE) \in DownPackets
          BY DEF Packet, DownPackets
      <4>2. Packet("PREINIT", c, TRUE).full
          BY DEF Packet
      <4> QED
          BY <4>1, <4>2, Zenon
    <3>3. DOMAIN <<packet>> = {1} /\ <<packet>>[1] = packet
        OBVIOUS
    <3> QED
        BY <3>1, <3>2, <3>3
  <2>4. CASE EnterGame(c) \/ SendUpdate(c)
      BY <2>2, <2>4, ClientAdds
  <2>5. CASE Leaves(c)
      BY <2>5 DEF Leaves, TypeOK
  <2>6. ASSUME NEW i \in DOMAIN down[c], Takes(c, i) PROVE \A k \in DOMAIN down'[c] : down'[c][k].full
    <3>1. down'[c] = Removed(d, i)
        BY <2>1, <2>6 DEF Takes, TypeOK
    <3>2. PICK r \in Seq(DownPackets) : r = Removed(d, i)
        BY <2>1, <2>6, RemovedFacts
    <3>3. \A k \in DOMAIN r : /\ k < i => k \in DOMAIN d /\ r[k] = d[k]
                              /\ k >= i => k + 1 \in DOMAIN d /\ r[k] = d[k + 1]
        BY <2>1, <2>6, <3>2, RemovedFacts
    <3>4. i \in Int /\ \A k \in DOMAIN r : k \in Int
        BY <2>1, <2>6
    <3> QED
        BY <2>1, <3>1, <3>2, <3>3, <3>4
  <2>7. ASSUME NEW h \in Players, h # c, Clientlike(h) PROVE down'[c] = down[c]
      BY <2>7, ClientsApart
  <2>8. CASE AddedToAll
    <3>1. PICK t \in Seq(DownPackets) : Added(c, t)
        BY <2>8 DEF AddedToAll
    <3>2. ASSUME NEW j \in DOMAIN t PROVE t[j].full
      <4>1. t[j].about \in Players /\ t[j].full \in BOOLEAN
          BY PacketTypes
      <4>2. session'[t[j].about] = "POSTLOADED" => named'[t[j].about]
          BY <2>0, <4>1 DEF OrderInv, InSession
      <4> QED
          BY <3>1, <4>1, <4>2 DEF Added
    <3>3. down'[c] = d \o t
        BY <2>1, <3>1 DEF Added
    <3>4. \A k \in DOMAIN (d \o t) : \/ k \in DOMAIN d /\ (d \o t)[k] = d[k]
                                     \/ \E j \in DOMAIN t : k = Len(d) + j /\ (d \o t)[k] = t[j]
        BY ConcatElements
    <3> QED
        BY <2>1, <3>2, <3>3, <3>4
  <2>9. CASE UNCHANGED vars
      BY <2>2, <2>9 DEF vars
  <2> QED
      BY <2>2, <2>3, <2>4, <2>5, <2>6, <2>7, <2>8, <2>9, NextCases DEF Clientlike
<1> QED
    BY <1>1, <1>2, TypeCorrect, OrderInvariant, PTL DEF Spec

-----------------------------------------------------------------------------
(* Whether or not packets overtake each other: who is in the game without   *)
(* a name will send it, or ends.                                            *)

\* Base information of g, or its end, is on the way, or g is asked for it.
Coming(g) == Has(up[g], "BASEINFO") \/ Has(up[g], "END") \/ Asked(down[g])

NameInv == \A g \in Players : session[g] = "POSTLOADED" => named[g] \/ Coming(g)

\* What comes keeps coming until it is there.
LEMMA ComingStays ==
    ASSUME TypeOK, LifeInv, [Next]_vars, NEW g \in Players, Coming(g), session[g] = "POSTLOADED", InSession(g)'
    PROVE  \/ Coming(g)'
           \/ \E i \in DOMAIN up[g] : Handle(g, i) /\ BaseInfo(g)
<1>1. PICK u \in Seq(UpTypes), d \in Seq(DownPackets) : u = up[g] /\ d = down[g]
    BY DEF TypeOK
<1>2. CASE up'[g] = up[g] /\ down'[g] = down[g]
    BY <1>2 DEF Coming
<1>3. CASE Join(g)
    BY <1>3 DEF Join, LifeInv, StagesInv
<1>4. CASE EnterGame(g) \/ SendUpdate(g)
  <2>1. PICK t \in Seq(UpTypes) : up' = [up EXCEPT ![g] = @ \o t]
      BY <1>4, ClientAdds
  <2>2. up'[g] = u \o t /\ down'[g] = d
      BY <1>1, <1>4, <2>1, ClientAdds DEF TypeOK
  <2> QED
      BY <1>1, <2>2, HasFacts DEF Coming
<1>5. CASE Leaves(g)
    BY <1>5, LeaveLife DEF Coming
<1>6. ASSUME NEW i \in DOMAIN down[g], Takes(g, i) PROVE Coming(g)'
  <2>1. /\ up'[g] = IF d[i].type = "REQUEST" THEN u \o <<"BASEINFO">> ELSE u
        /\ down'[g] = Removed(d, i)
      BY <1>1, <1>6 DEF Takes, TypeOK
  <2>2. <<"BASEINFO">> \in Seq(UpTypes) /\ Has(<<"BASEINFO">>, "BASEINFO")
      BY UpFacts, OneFacts DEF Has
  <2>3. Has(u \o <<"BASEINFO">>, "BASEINFO")
      BY <2>2, HasFacts
  <2>4. Asked(d) /\ d[i].type # "REQUEST" => Asked(Removed(d, i))
      BY <1>1, <1>6, AskedFacts
  <2> QED
      BY <1>1, <2>1, <2>3, <2>4 DEF Coming
<1>7. ASSUME NEW i \in DOMAIN up[g], Handle(g, i), Handled(g, i), AddedToAll
      PROVE  Coming(g)' \/ BaseInfo(g)
  <2>1. up'[g] = Removed(u, i)
      BY <1>1, <1>7 DEF Handled, TypeOK
  <2>2. PICK t \in Seq(DownPackets) : down'[g] = d \o t
      BY <1>1, <1>7 DEF AddedToAll, Added
  <2>3. u[i] # "END" /\ (u[i] = "BASEINFO" => BaseInfo(g))
      BY <1>1, <1>7, HandleSession
  <2>4. /\ Has(u, "BASEINFO") /\ u[i] # "BASEINFO" => Has(Removed(u, i), "BASEINFO")
        /\ Has(u, "END") /\ u[i] # "END" => Has(Removed(u, i), "END")
      BY <1>1, <1>7, HasFacts
  <2>5. Asked(d) => Asked(d \o t)
      BY AskedFacts
  <2> QED
      BY <1>1, <2>1, <2>2, <2>3, <2>4, <2>5 DEF Coming
<1>8. ASSUME NEW h \in Players, h # g, Clientlike(h) PROVE up'[g] = up[g] /\ down'[g] = down[g]
    BY <1>8, ClientsApart
<1>9. ASSUME NEW h \in Players, h # g, NEW i \in DOMAIN up[h], Handled(h, i), AddedToAll PROVE Coming(g)'
  <2>1. up'[g] = up[g]
      BY <1>9 DEF Handled, TypeOK
  <2>2. PICK t \in Seq(DownPackets) : down'[g] = d \o t
      BY <1>1, <1>9 DEF AddedToAll, Added
  <2>3. Asked(d) => Asked(d \o t)
      BY AskedFacts
  <2> QED
      BY <1>1, <2>1, <2>2, <2>3 DEF Coming
<1>10. CASE UNCHANGED vars
    BY <1>2, <1>10 DEF vars
<1> QED
    BY <1>2, <1>3, <1>4, <1>5, <1>6, <1>7, <1>8, <1>9, <1>10, NextCases DEF Clientlike

\* That is what newPlayer sends first.
LEMMA RequestAsks ==
    ASSUME NEW g \in Players, NEW infos \in Seq(DownPackets)
    PROVE  Asked(<<Packet("REQUEST", g, TRUE)>> \o infos)
<1>1. Packet("REQUEST", g, TRUE) \in DownPackets /\ Packet("REQUEST", g, TRUE).type = "REQUEST"
    BY DEF Packet, DownPackets
<1>2. PICK packet \in DownPackets : packet = Packet("REQUEST", g, TRUE)
    BY <1>1
<1>3. <<packet>> \in Seq(DownPackets) /\ DOMAIN <<packet>> = {1} /\ <<packet>>[1] = packet
    BY OneFacts
<1>4. Asked(<<packet>>)
    BY <1>1, <1>2, <1>3 DEF Asked
<1> QED
    BY <1>2, <1>3, <1>4, AskedFacts

\* Who gets into the game is asked for its base information, or has left.
LEMMA AskedWhenLoaded ==
    ASSUME TypeOK, LifeInv', [Next]_vars, NEW g \in Players, session[g] # "POSTLOADED", session'[g] = "POSTLOADED"
    PROVE  /\ Coming(g)'
           /\ \E i \in DOMAIN up[g] : Handle(g, i) /\ Handled(g, i) /\ NewPlayer(g)
<1>1. ASSUME NEW h \in Players, Join(h) \/ EnterGame(h) \/ SendUpdate(h) \/ Leaves(h) PROVE session'[g] # "POSTLOADED"
  <2>1. CASE Join(h)
      BY <2>1 DEF Join, TypeOK
  <2>2. CASE EnterGame(h) \/ SendUpdate(h)
      BY <2>2, ClientAdds
  <2>3. CASE Leaves(h)
      BY <2>3 DEF Leaves
  <2> QED
      BY <1>1, <2>1, <2>2, <2>3
<1>2. ASSUME NEW h \in Players, NEW i \in DOMAIN down[h], Takes(h, i) PROVE FALSE
    BY <1>2 DEF Takes
<1>3. ASSUME UNCHANGED vars PROVE FALSE
    BY <1>3 DEF vars
<1>4. PICK h \in Players : \E i \in DOMAIN up[h] : Handle(h, i) /\ Handled(h, i) /\ AddedToAll
    BY <1>1, <1>2, <1>3, NextCases
<1>5. h = g
    BY <1>4 DEF Handled, Sessions
<1>6. NewPlayer(g)
    BY <1>4, <1>5, HandleSession
<1>7. Coming(g)'
  <2>1. CASE stage[g] = "gone"
    <3>1. stage'[g] = "gone" /\ InSession(g)'
        BY <1>4, <2>1 DEF Handled, InSession
    <3> QED
        BY <3>1 DEF Coming, LifeInv, GoneInv
  <2>2. CASE stage[g] # "gone"
    <3>1. PICK infos \in Seq(DownPackets) :
              /\ <<Packet("REQUEST", g, TRUE)>> \o infos \in Seq(DownPackets)
              /\ down'[g] = down[g] \o (<<Packet("REQUEST", g, TRUE)>> \o infos)
        BY <1>6, <2>2, NewPlayerDown
    <3>2. PICK t \in Seq(DownPackets) : t = <<Packet("REQUEST", g, TRUE)>> \o infos
        BY <3>1
    <3>3. Asked(t)
        BY <3>2, RequestAsks
    <3>4. PICK d \in Seq(DownPackets) : d = down[g]
        BY DEF TypeOK
    <3>5. Asked(d \o t)
        BY <3>3, AskedFacts
    <3>6. down'[g] = d \o t
        BY <3>1, <3>2, <3>4
    <3> QED
        BY <3>5, <3>6 DEF Coming
  <2> QED
      BY <2>1, <2>2
<1> QED
    BY <1>4, <1>5, <1>6, <1>7

LEMMA NameKept ==
    ASSUME TypeOK, LifeInv, LifeInv', NameInv, [Next]_vars
    PROVE  NameInv'
<1> SUFFICES ASSUME NEW g \in Players, session'[g] = "POSTLOADED" PROVE named'[g] \/ Coming(g)'
    BY DEF NameInv
<1>1. CASE session[g] # "POSTLOADED"
    BY <1>1, AskedWhenLoaded
<1>2. CASE session[g] = "POSTLOADED"
  <2>1. InSession(g)'
      BY DEF InSession
  <2>2. ASSUME NEW i \in DOMAIN up[g], Handle(g, i), BaseInfo(g) PROVE named'[g]
      BY <2>2 DEF BaseInfo, TypeOK
  <2>3. CASE Coming(g)
      BY <1>2, <2>1, <2>2, <2>3, ComingStays
  <2>4. CASE named[g]
    <3>1. ASSUME NEW i \in DOMAIN up[g], Handle(g, i) PROVE named'[g]
        BY <2>1, <2>4, <3>1, NamedStays
    <3>2. ASSUME NEW h \in Players, h # g, NEW i \in DOMAIN up[h], Handled(h, i) PROVE named'[g]
        BY <2>4, <3>2 DEF Handled, Sessions
    <3>3. ASSUME NEW h \in Players, Clientlike(h) PROVE named'[g]
      <4>1. CASE Join(h)
          BY <2>4, <4>1 DEF Join
      <4>2. CASE EnterGame(h) \/ SendUpdate(h)
          BY <2>4, <4>2, ClientAdds
      <4>3. CASE Leaves(h)
          BY <2>4, <4>3 DEF Leaves
      <4>4. ASSUME NEW i \in DOMAIN down[h], Takes(h, i) PROVE named'[g]
          BY <2>4, <4>4 DEF Takes
      <4> QED
          BY <3>3, <4>1, <4>2, <4>3, <4>4 DEF Clientlike
    <3>4. CASE UNCHANGED vars
        BY <2>4, <3>4 DEF vars
    <3> QED
        BY <3>1, <3>2, <3>3, <3>4, NextCases DEF Clientlike
  <2> QED
      BY <1>2, <2>3, <2>4 DEF NameInv
<1> QED
    BY <1>1, <1>2

-----------------------------------------------------------------------------
(* Everyone is known: the client c has the name of g, or will be told, or   *)
(* one of the two is still to send it, or to end.                           *)

KnownInv ==
    \A c, g \in Players :
        c # g /\ session[c] = "POSTLOADED" /\ session[g] = "POSTLOADED" =>
            Told(down[c], list[c][g], g) \/ Coming(g) \/ Has(up[c], "END")

\* The end of a connection stays until the session ends.
LEMMA EndStays ==
    ASSUME TypeOK, LifeInv, [Next]_vars, NEW c \in Players, Has(up[c], "END"), session[c] = "POSTLOADED", InSession(c)'
    PROVE  Has(up'[c], "END")
<1>1. PICK u \in Seq(UpTypes) : u = up[c]
    BY DEF TypeOK
<1>2. ASSUME NEW t \in Seq(UpTypes) PROVE Has(u \o t, "END")
    BY <1>1, HasFacts
<1>3. CASE Join(c)
    BY <1>3 DEF Join, LifeInv, StagesInv
<1>4. CASE EnterGame(c) \/ SendUpdate(c)
  <2>1. PICK t \in Seq(UpTypes) : up' = [up EXCEPT ![c] = @ \o t]
      BY <1>4, ClientAdds
  <2>2. up'[c] = u \o t
      BY <1>1, <2>1 DEF TypeOK
  <2> QED
      BY <1>2, <2>2
<1>5. CASE Leaves(c)
    BY <1>5, LeaveLife
<1>6. ASSUME NEW i \in DOMAIN down[c], Takes(c, i) PROVE Has(up'[c], "END")
  <2>1. up'[c] = u \/ up'[c] = u \o <<"BASEINFO">>
      BY <1>1, <1>6 DEF Takes, TypeOK
  <2>2. <<"BASEINFO">> \in Seq(UpTypes)
      BY UpFacts, OneFacts
  <2> QED
      BY <1>1, <1>2, <2>1, <2>2
<1>7. ASSUME NEW i \in DOMAIN up[c], Handle(c, i), Handled(c, i) PROVE Has(up'[c], "END")
  <2>1. up'[c] = Removed(u, i) /\ u[i] # "END"
      BY <1>1, <1>7, HandleSession DEF Handled, TypeOK
  <2>2. Has(Removed(u, i), "END")
      BY <1>1, <1>7, <2>1, HasFacts
  <2> QED
      BY <2>1, <2>2
<1>8. ASSUME NEW h \in Players, h # c, Clientlike(h) PROVE up'[c] = up[c]
    BY <1>8, ClientsApart
<1>9. ASSUME NEW h \in Players, h # c, NEW i \in DOMAIN up[h], Handled(h, i) PROVE up'[c] = up[c]
    BY <1>9 DEF Handled, TypeOK
<1>10. CASE UNCHANGED vars
    BY <1>10 DEF vars
<1> QED
    BY <1>3, <1>4, <1>5, <1>6, <1>7, <1>8, <1>9, <1>10, NextCases DEF Clientlike

\* What newPlayer sends has the name of g, if that is there.
LEMMA InfosTell ==
    ASSUME NEW c \in Players, NEW infos \in Seq(DownPackets), Infos(c, infos),
           NEW g \in Players, g # c, session[g] = "POSTLOADED", named[g]
    PROVE  LET t == <<Packet("REQUEST", c, TRUE)>> \o infos
           IN  /\ \E j \in DOMAIN t : Tells(t[j], g)
               /\ \A j \in DOMAIN t : Tells(t[j], g) => t[j].full
<1>1. Packet("REQUEST", c, TRUE) \in DownPackets /\ Packet("REQUEST", c, TRUE).type = "REQUEST"
    BY DEF Packet, DownPackets
<1>2. PICK packet \in DownPackets : packet = Packet("REQUEST", c, TRUE)
    BY <1>1
<1>3. PICK one \in Seq(DownPackets) : one = <<packet>> /\ DOMAIN one = {1} /\ one[1] = packet
    BY OneFacts
<1>4. ~Tells(one[1], g)
    BY <1>1, <1>2, <1>3 DEF Tells
<1>5. \A j \in DOMAIN infos : Len(one) + j \in DOMAIN (one \o infos) /\ (one \o infos)[Len(one) + j] = infos[j]
    BY ConcatFacts
<1>6. \A k \in DOMAIN one : (one \o infos)[k] = one[k]
    BY ConcatFacts
<1>7. \A k \in DOMAIN (one \o infos) : \/ k \in DOMAIN one /\ (one \o infos)[k] = one[k]
                                       \/ \E j \in DOMAIN infos : k = Len(one) + j /\ (one \o infos)[k] = infos[j]
    BY ConcatElements
<1>8. \E j \in DOMAIN (one \o infos) : Tells((one \o infos)[j], g)
  <2>1. PICK j \in DOMAIN infos : infos[j].about = g
      BY DEF Infos
  <2>2. Tells(infos[j], g)
      BY <2>1 DEF Infos, Tells
  <2> QED
      BY <1>5, <2>2
<1>9. \A j \in DOMAIN (one \o infos) : Tells((one \o infos)[j], g) => (one \o infos)[j].full
  <2>1. \A j \in DOMAIN infos : Tells(infos[j], g) => infos[j].full
      BY DEF Infos, Tells
  <2> QED
      BY <1>3, <1>4, <1>5, <1>6, <1>7, <2>1
<1> QED
    BY <1>2, <1>3, <1>8, <1>9

\* BaseInfo tells everybody with a session that is still there.
LEMMA BaseInfoTells ==
    ASSUME TypeOK, NEW g \in Players, BaseInfo(g), NEW c \in Players, c # g, InSession(c), stage[c] # "gone", NEW entry
    PROVE  Told(down'[c], entry, g)
<1>1. /\ Packet("BASEINFO", g, TRUE) \in DownPackets /\ Packet("BASEINFO", g, TRUE).type = "BASEINFO"
      /\ Packet("BASEINFO", g, TRUE).about = g /\ Packet("BASEINFO", g, TRUE).full = TRUE
    BY DEF Packet, DownPackets
<1>2. PICK packet \in DownPackets : packet = Packet("BASEINFO", g, TRUE)
    BY <1>1
<1>3. c \in Others(g)
    BY DEF Others
<1>4. down' = Sent(Others(g), packet)
    BY <1>2 DEF BaseInfo
<1>5. down'[c] = down[c] \o <<packet>>
  <2>1. PICK to : to = Others(g)
      OBVIOUS
  <2>2. Sent(to, packet)[c] = IF c \in to /\ stage[c] # "gone" THEN down[c] \o <<packet>> ELSE down[c]
      BY SentFacts
  <2>3. Sent(to, packet)[c] = down[c] \o <<packet>>
      BY <1>3, <2>1, <2>2
  <2> QED
      BY <1>4, <2>1, <2>3
<1>6. PICK t \in Seq(DownPackets) : t = <<packet>> /\ DOMAIN t = {1} /\ t[1] = packet
    BY OneFacts
<1>7. PICK d \in Seq(DownPackets) : d = down[c]
    BY DEF TypeOK
<1>8. 1 \in DOMAIN t /\ Tells(t[1], g) /\ \A j \in DOMAIN t : t[j].full
    BY <1>1, <1>2, <1>6 DEF Tells
<1>9. Told(d \o t, entry, g)
    BY <1>8, ToldNow
<1> QED
    BY <1>5, <1>6, <1>7, <1>9

\* What c makes of a packet it takes, with respect to g.
LEMMA TakeTells ==
    ASSUME TypeOK, LifeInv, NEW c \in Players, NEW i \in DOMAIN down[c], Takes(c, i),
           MayCome([j \in DOMAIN down[c] |-> down[c][j].type], i),
           session[c] = "POSTLOADED", NEW g \in Players, c # g, session[g] = "POSTLOADED",
           Told(down[c], list[c][g], g)
    PROVE  Told(down'[c], list'[c][g], g)
<1>1. PICK d \in Seq(DownPackets) : d = down[c] /\ i \in DOMAIN d
    BY DEF TypeOK
<1>2. d[i] \in DownPackets /\ d[i].about \in Players /\ d # <<>>
    BY <1>1, PacketTypes
<1>3. stage[c] = "playing"
    BY <1>1, <1>2 DEF LifeInv, StagesInv, GoneInv
<1>4. down'[c] = Removed(d, i)
    BY <1>1 DEF Takes, TypeOK
<1>5. list'[c][g] = IF d[i].about = g THEN Entered(list[c][g], d[i]) ELSE list[c][g]
  <2>1. list \in [Players -> [Players -> Entries]]
      BY DEF TypeOK
  <2>2. list' = IF d[i].about # c
                THEN [list EXCEPT ![c][d[i].about] = Entered(list[c][d[i].about], d[i])]
                ELSE list
      BY <1>1, <1>3 DEF Takes
  <2> QED
      BY <1>2, <2>1, <2>2
<1>6. Tells(d[i], g) /\ d[i].full => list'[c][g] = "named"
    BY <1>5 DEF Tells, Entered
<1>7. ~Tells(d[i], g) /\ list[c][g] = "named" => list'[c][g] = "named"
  <2>1. d[i].type = "DISCONNECTED" => d[i].about # g
      BY <1>1 DEF LifeInv, EndsInv
  <2> QED
      BY <1>5, <2>1 DEF Tells, Entered
<1>8. ASSUME NEW j \in DOMAIN d, j < i, Tells(d[i], g) PROVE ~Tells(d[j], g)
  <2>1. i \in Int /\ j \in 1 .. i - 1 /\ i # 1
      BY <1>1, <1>8
  <2>2. \A k \in 1 .. i - 1 : Channel([m \in DOMAIN d |-> d[m].type][k]) # Channel([m \in DOMAIN d |-> d[m].type][i])
      BY <1>1, <2>1 DEF MayCome
  <2>3. Channel(d[j].type) # Channel(d[i].type)
      BY <1>1, <1>8, <2>1, <2>2
  <2> QED
      BY <1>8, <2>3 DEF Tells
<1>9. Told(Removed(d, i), list'[c][g], g)
    BY <1>1, <1>6, <1>7, <1>8, ToldAfter
<1> QED
    BY <1>4, <1>9

\* What is being said of g to a client in the game stays, or g itself has yet to
\* say its name.
LEMMA ToldStays ==
    ASSUME TypeOK, LifeInv, LifeInv', NameInv', [Next]_vars, NEW c \in Players, NEW g \in Players, c # g,
           session[c] = "POSTLOADED", session[g] = "POSTLOADED", session'[c] = "POSTLOADED", session'[g] = "POSTLOADED",
           Told(down[c], list[c][g], g)
    PROVE  Told(down'[c], list'[c][g], g) \/ Coming(g)' \/ Has(up'[c], "END")
<1>1. InSession(c)'
    BY DEF InSession
<1>2. PICK d \in Seq(DownPackets) : d = down[c]
    BY DEF TypeOK
<1>3. ASSUME Join(c) PROVE FALSE
    BY <1>3 DEF Join, LifeInv, StagesInv
<1>4. CASE EnterGame(c) \/ SendUpdate(c)
  <2>1. UNCHANGED <<list, down>>
      BY <1>4, ClientAdds
  <2> QED
      BY <2>1
<1>5. CASE Leaves(c)
    BY <1>5, LeaveLife
<1>6. ASSUME NEW i \in DOMAIN down[c], Takes(c, i), MayCome([j \in DOMAIN down[c] |-> down[c][j].type], i)
      PROVE  Told(down'[c], list'[c][g], g)
    BY <1>6, TakeTells
<1>7. ASSUME NEW h \in Players, h # c, Clientlike(h) PROVE Told(down'[c], list'[c][g], g)
  <2>1. down'[c] = down[c] /\ list'[c] = list[c]
      BY <1>7, ClientsApart
  <2> QED
      BY <2>1
<1>8. ASSUME NEW h \in Players, NEW i \in DOMAIN up[h], Handled(h, i), AddedToAll
      PROVE  Told(down'[c], list'[c][g], g) \/ Coming(g)'
  <2>1. PICK t \in Seq(DownPackets) : Added(c, t)
      BY <1>8 DEF AddedToAll
  <2>2. down'[c] = d \o t
      BY <1>2, <2>1 DEF Added
  <2>3. list' = list
      BY <1>8 DEF Handled
  <2>4. CASE \E j \in DOMAIN t : Tells(t[j], g) /\ ~t[j].full
    <3>1. ~named'[g]
        BY <2>1, <2>4 DEF Added, Tells
    <3> QED
        BY <3>1 DEF NameInv
  <2>5. CASE \A j \in DOMAIN t : Tells(t[j], g) => t[j].full
    <3>1. Told(d, list[c][g], g)
        BY <1>2
    <3>2. Told(d \o t, list[c][g], g)
        BY <2>5, <3>1, ToldMore
    <3> QED
        BY <2>2, <2>3, <3>2
  <2> QED
      BY <2>4, <2>5
<1>9. CASE UNCHANGED vars
    BY <1>9 DEF vars
<1> QED
    BY <1>3, <1>4, <1>5, <1>6, <1>7, <1>8, <1>9, NextCases DEF Clientlike

\* Who comes into the game is told of everybody there who has a name.
LEMMA NewcomerIsTold ==
    ASSUME TypeOK, LifeInv', NameInv', [Next]_vars, NEW c \in Players, NEW g \in Players, c # g,
           session[c] # "POSTLOADED", session[g] = "POSTLOADED", session'[c] = "POSTLOADED", session'[g] = "POSTLOADED"
    PROVE  Told(down'[c], list'[c][g], g) \/ Coming(g)' \/ Has(up'[c], "END")
<1>1. PICK i \in DOMAIN up[c] : Handle(c, i) /\ Handled(c, i) /\ NewPlayer(c)
    BY AskedWhenLoaded
<1>2. stage' = stage /\ list' = list /\ named'[g] = named[g]
    BY <1>1 DEF Handled, Sessions
<1>3. CASE stage[c] = "gone"
  <2>1. stage'[c] = "gone" /\ InSession(c)'
      BY <1>2, <1>3 DEF InSession
  <2> QED
      BY <2>1 DEF LifeInv, GoneInv
<1>4. CASE ~named[g]
    BY <1>2, <1>4 DEF NameInv
<1>5. CASE stage[c] # "gone" /\ named[g]
  <2>1. PICK infos \in Seq(DownPackets) :
            /\ Infos(c, infos)
            /\ <<Packet("REQUEST", c, TRUE)>> \o infos \in Seq(DownPackets)
            /\ down'[c] = down[c] \o (<<Packet("REQUEST", c, TRUE)>> \o infos)
      BY <1>1, <1>5, NewPlayerDown
  <2>2. PICK t \in Seq(DownPackets) : t = <<Packet("REQUEST", c, TRUE)>> \o infos
      BY <2>1
  <2>3. (\E j \in DOMAIN t : Tells(t[j], g)) /\ (\A j \in DOMAIN t : Tells(t[j], g) => t[j].full)
      BY <1>5, <2>1, <2>2, InfosTell
  <2>4. PICK d \in Seq(DownPackets) : d = down[c]
      BY DEF TypeOK
  <2>5. PICK entry : entry = list'[c][g]
      OBVIOUS
  <2>6. Told(d \o t, entry, g)
      BY <2>3, ToldNow
  <2>7. down'[c] = d \o t
      BY <2>1, <2>2, <2>4
  <2> QED
      BY <2>5, <2>6, <2>7
<1> QED
    BY <1>3, <1>4, <1>5

LEMMA KnownKept ==
    ASSUME TypeOK, LifeInv, LifeInv', NameInv', KnownInv, [Next]_vars
    PROVE  KnownInv'
<1> SUFFICES ASSUME NEW c \in Players, NEW g \in Players, c # g, session'[c] = "POSTLOADED", session'[g] = "POSTLOADED"
             PROVE  Told(down'[c], list'[c][g], g) \/ Coming(g)' \/ Has(up'[c], "END")
    BY DEF KnownInv
<1>1. InSession(c)' /\ InSession(g)'
    BY DEF InSession
<1>2. CASE session[g] # "POSTLOADED"
    BY <1>2, AskedWhenLoaded
<1>3. CASE session[g] = "POSTLOADED" /\ session[c] # "POSTLOADED"
    BY <1>3, NewcomerIsTold
<1>4. CASE session[g] = "POSTLOADED" /\ session[c] = "POSTLOADED"
  <2>1. CASE Told(down[c], list[c][g], g)
      BY <1>4, <2>1, ToldStays
  <2>2. CASE Has(up[c], "END")
      BY <1>1, <1>4, <2>2, EndStays
  <2>3. CASE Coming(g)
    <3>1. CASE \E i \in DOMAIN up[g] : Handle(g, i) /\ BaseInfo(g)
      <4>1. stage' = stage
          BY <3>1 DEF Handle
      <4>2. CASE stage[c] = "gone"
        <5>1. stage'[c] = "gone"
            BY <4>1, <4>2
        <5> QED
            BY <1>1, <5>1 DEF LifeInv, GoneInv
      <4>3. CASE stage[c] # "gone"
        <5>1. InSession(c)
            BY <1>4 DEF InSession
        <5>2. PICK entry : entry = list'[c][g]
            OBVIOUS
        <5>3. Told(down'[c], entry, g)
            BY <3>1, <4>3, <5>1, BaseInfoTells
        <5> QED
            BY <5>2, <5>3
      <4> QED
          BY <4>2, <4>3
    <3> QED
        BY <1>1, <1>4, <2>3, <3>1, ComingStays
  <2> QED
      BY <1>4, <2>1, <2>2, <2>3 DEF KnownInv
<1> QED
    BY <1>2, <1>3, <1>4

\* Whoever is in the game without a name will send it or leave, and each player there
\* has the name of each other, or will be told it after all that contradicts it.
THEOREM KnownInvariant == Spec => [](NameInv /\ KnownInv)
<1>1. Init => NameInv /\ KnownInv
    BY DEF Init, NameInv, KnownInv
<1>2. TypeOK /\ LifeInv /\ LifeInv' /\ NameInv /\ KnownInv /\ [Next]_vars => NameInv' /\ KnownInv'
    BY NameKept, KnownKept
<1> QED
    BY <1>1, <1>2, TypeCorrect, LifeInvariant, PTL DEF Spec

\* Once everything sent has arrived, any two players in the game know each other
\* by name, whether or not packets overtake each other, in whatever order they
\* joined, created their characters and loaded, and for any number of them.
THEOREM EveryoneIsKnown == Spec => []EveryoneKnown
<1>1. NameInv /\ KnownInv => EveryoneKnown
  <2> SUFFICES ASSUME KnownInv, Quiet, NEW c \in Players, NEW g \in Players, c # g,
                      session[c] = "POSTLOADED", session[g] = "POSTLOADED"
               PROVE  list[c][g] = "named"
      BY DEF EveryoneKnown
  <2>1. up[g] = <<>> /\ up[c] = <<>> /\ down[g] = <<>> /\ down[c] = <<>>
      BY DEF Quiet
  <2>2. ~Coming(g) /\ ~Has(up[c], "END")
      BY <2>1 DEF Coming, Has, Asked
  <2>3. Told(<<>>, list[c][g], g)
      BY <2>1, <2>2 DEF KnownInv
  <2> QED
      BY <2>3 DEF Told
<1> QED
    BY <1>1, KnownInvariant, PTL
===============================================================================
