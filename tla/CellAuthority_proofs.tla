------------------------- MODULE CellAuthority_proofs -------------------------
(****************************************************************************)
(* Proofs about CellAuthority, for any players, cells, packet types and     *)
(* lengths of the channels.                                                 *)
(****************************************************************************)
EXTENDS CellAuthority, SequenceTheorems, WellFoundedInduction, TLAPS

-----------------------------------------------------------------------------
(* Facts about sequences. *)

\* Every set of naturals that is not empty has a least element.  CHOOSE of a
\* first index, and inductions, rest on it.
LEMMA LeastElement ==
    ASSUME NEW T \in SUBSET Nat, T # {}
    PROVE  \E x \in T : \A y \in T : x <= y
<1> DEFINE R == {ss \in Nat \X Nat : ss[1] < ss[2]}
<1>1. IsWellFoundedOn(R, Nat)
    BY NatLessThanWellFounded DEF OpToRel
<1>2. PICK x \in T : \A y \in T : ~ (<<y, x>> \in R)
    BY <1>1, WFMin
<1>3. ASSUME NEW y \in T PROVE x <= y
  <2>1. x \in Nat /\ y \in Nat
      OBVIOUS
  <2>2. ~(y < x)
    <3> SUFFICES ASSUME y < x PROVE <<y, x>> \in R
        BY <1>2
    <3> QED
        BY <2>1
  <2> QED
      BY <2>1, <2>2
<1> QED
    BY <1>3

\* The first element of s, and the others.
LEMMA TailFacts ==
    ASSUME NEW S, NEW s \in Seq(S), s # <<>>
    PROVE  /\ Tail(s) \in Seq(S) /\ Head(s) = s[1] /\ 1 \in DOMAIN s
           /\ \A i \in DOMAIN Tail(s) : i + 1 \in DOMAIN s /\ Tail(s)[i] = s[i + 1]
           /\ \A i \in DOMAIN s : i # 1 => i - 1 \in DOMAIN Tail(s) /\ Tail(s)[i - 1] = s[i]
OBVIOUS

\* s with e at the end.
LEMMA AppendFacts ==
    ASSUME NEW S, NEW s \in Seq(S), NEW e \in S
    PROVE  /\ Append(s, e) \in Seq(S)
           /\ DOMAIN Append(s, e) = DOMAIN s \cup {Len(s) + 1}
           /\ Len(s) + 1 \notin DOMAIN s
           /\ \A i \in DOMAIN s : Append(s, e)[i] = s[i]
           /\ Append(s, e)[Len(s) + 1] = e
OBVIOUS

USE NobodyAssumption, TypesAssumption, BoundsAssumption

DownPackets == ActorPackets \cup AuthorityPackets

\* Among the packets of s, the i-th is news about the authority of X.
News(s, X, i) == s[i].type = "AUTHORITY" /\ s[i].cell = X

\* Among the first n packets of s there is none, or the i-th is the last.
Silent(s, X, n) == \A j \in 1 .. n : ~News(s, X, j)
Latest(s, X, n, i) == i \in 1 .. n /\ News(s, X, i) /\ \A j \in i + 1 .. n : ~News(s, X, j)

\* c takes itself for the authority of X, active or not, and has ignored no news of it.
Trusts(c, X) == believed[c][X] = c /\ <<c, X>> \notin missed

\* After the first n packets on their way to c it trusts that, if X stays active.
Would(c, X, n) ==
    \/ \E i \in 1 .. n : Latest(down[c], X, n, i) /\ down[c][i].guid = c
    \/ Silent(down[c], X, n) /\ Trusts(c, X)

\* After all packets on their way, no client but p will take itself for the authority.
Agreed(X, p) ==
    \A c \in online :
        /\ \A i \in DOMAIN down[c] : Latest(down[c], X, Len(down[c]), i) => down[c][i].guid = p
        /\ Silent(down[c], X, Len(down[c])) /\ Trusts(c, X) => c = p

\* All clients will agree on one authority, which is the server's if it has one.
AgreementInv ==
    \A X \in Cells : \E p \in Players \cup {Nobody} : Agreed(X, p) /\ (authority[X] # Nobody => p = authority[X])

\* Only players with a session simulate anything.
SessionsInv == \A c \in Players \ online : active[c] = {}

\* A player sends packets of its own.
SendersInv == \A p \in Players : \A i \in DOMAIN up[p] : up[p][i].guid = p

\* When a checked packet about X arrives, its receiver does not simulate X.
ForeignInv ==
    \A c \in online : \A i \in DOMAIN down[c] :
        down[c][i].type \in Checked => ~Would(c, down[c][i].cell, i - 1)

AuthorityInv == AgreementInv /\ SessionsInv /\ SendersInv /\ ForeignInv

-----------------------------------------------------------------------------
(* Types. *)

LEMMA SentToFacts ==
    ASSUME TypeOK, NEW to, NEW packet \in DownPackets, down' = SentTo(to, packet)
    PROVE  /\ down' \in [Players -> Seq(DownPackets)]
           /\ \A c \in Players : down'[c] = IF c \in to \cap online THEN Append(down[c], packet) ELSE down[c]
<1>1. \A c \in Players : Append(down[c], packet) \in Seq(DownPackets) /\ down[c] \in Seq(DownPackets)
    BY AppendFacts DEF TypeOK, DownPackets
<1> QED
    BY <1>1 DEF SentTo

LEMMA TypesKept ==
    ASSUME TypeOK, [Next]_vars
    PROVE  TypeOK'
<1>0. missed' \subseteq Players \X Cells
  <2>1. ASSUME NEW c \in Players, Receive(c) PROVE missed' \subseteq Players \X Cells
    <3>1. Head(down[c]) \in DownPackets
        BY <2>1 DEF Receive, TypeOK, DownPackets
    <3>2. Head(down[c]).cell \in Cells
        BY <3>1 DEF DownPackets, ActorPackets, AuthorityPackets
    <3>3. missed' \subseteq missed \cup {<<c, Head(down[c]).cell>>}
        BY <2>1 DEF Receive, ReceiveAuthority, ReceiveActors
    <3> QED
        BY <3>2, <3>3 DEF TypeOK
  <2>2. ASSUME NEW c \in Players, Frame(c) \/ Disconnect(c) PROVE missed' \subseteq missed
      BY <2>2 DEF Frame, Disconnect
  <2>3. \/ \E c \in Players : Receive(c) \/ Frame(c) \/ Disconnect(c)
        \/ UNCHANGED missed
      BY DEF Next, Client, Server, Teleport, SendActors, SendActorAuthority, Relay, EnterCell, LeaveCell, clientVars, vars
  <2> QED
      BY <2>1, <2>2, <2>3 DEF TypeOK
<1>1. ASSUME NEW c \in Players, Receive(c) PROVE TypeOK'
  <2>1. /\ down[c] \in Seq(DownPackets) /\ down[c] # <<>>
        /\ down' = [down EXCEPT ![c] = Tail(@)]
        /\ UNCHANGED <<online, active, members, authority, up>>
      BY <1>1 DEF Receive, TypeOK, DownPackets, serverVars
  <2>2. Tail(down[c]) \in Seq(DownPackets) /\ Head(down[c]) \in DownPackets
      BY <2>1
  <2>3. down' \in [Players -> Seq(ActorPackets \cup AuthorityPackets)]
      BY <2>1, <2>2 DEF TypeOK, DownPackets
  <2>4. believed' \in [Players -> [Cells -> Players \cup {Nobody}]]
    <3>1. CASE Head(down[c]).type = "AUTHORITY" /\ ReceiveAuthority(c, Head(down[c]))
      <4>1. Head(down[c]).guid \in Players
          BY <2>2 DEF DownPackets, ActorPackets, AuthorityPackets
      <4> DEFINE b == [believed[c] EXCEPT ![Head(down[c]).cell] = Head(down[c]).guid]
      <4>2. believed[c] \in [Cells -> Players \cup {Nobody}]
          BY DEF TypeOK
      <4>3. b \in [Cells -> Players \cup {Nobody}]
          BY <4>1, <4>2
      <4>4. believed' = [believed EXCEPT ![c] = b] \/ believed' = believed
          BY <3>1 DEF ReceiveAuthority
      <4> HIDE DEF b
      <4> QED
          BY <4>3, <4>4 DEF TypeOK
    <3>2. CASE ReceiveActors(c, Head(down[c]))
        BY <3>2 DEF ReceiveActors, TypeOK
    <3> QED
        BY <1>1, <3>1, <3>2 DEF Receive
  <2> QED
      BY <1>0, <2>1, <2>3, <2>4 DEF TypeOK
<1>2. ASSUME NEW c \in Players, Frame(c) \/ Teleport(c) PROVE TypeOK'
  <2>1. UNCHANGED <<online, members, authority, up, down>>
      BY <1>2 DEF Frame, Teleport, serverVars
  <2>2. active' \in [Players -> SUBSET Cells]
    <3>1. PICK A \in SUBSET Cells : active' = [active EXCEPT ![c] = A]
        BY <1>2 DEF Frame, Teleport
    <3> QED
        BY <3>1 DEF TypeOK
  <2>3. believed' \in [Players -> [Cells -> Players \cup {Nobody}]]
    <3> DEFINE b == [X \in Cells |-> IF X \in active[c] THEN believed[c][X] ELSE Nobody]
    <3>1. b \in [Cells -> Players \cup {Nobody}]
        BY DEF TypeOK
    <3>2. believed' = [believed EXCEPT ![c] = b] \/ believed' = believed
        BY <1>2 DEF Frame, Teleport
    <3> HIDE DEF b
    <3> QED
        BY <3>1, <3>2 DEF TypeOK
  <2> QED
      BY <1>0, <2>1, <2>2, <2>3 DEF TypeOK
<1>3. ASSUME NEW c \in Players, NEW X \in Cells, NEW type \in SentTypes, SendActors(c, X, type) PROVE TypeOK'
  <2>1. /\ UNCHANGED <<online, active, believed, members, authority, down>>
        /\ up' = [up EXCEPT ![c] = Append(@, [type |-> type, cell |-> X, guid |-> c])]
      BY <1>3 DEF SendActors, clientVars, serverVars
  <2>2. [type |-> type, cell |-> X, guid |-> c] \in ActorPackets
      BY DEF ActorPackets
  <2>3. up' \in [Players -> Seq(ActorPackets)]
      BY <2>1, <2>2 DEF TypeOK
  <2> QED
      BY <1>0, <2>1, <2>3 DEF TypeOK
<1>4. ASSUME NEW p \in Players, Relay(p) PROVE TypeOK'
  <2>1. /\ UNCHANGED <<online, active, believed, members, authority>>
        /\ up[p] \in Seq(ActorPackets) /\ up[p] # <<>> /\ up' = [up EXCEPT ![p] = Tail(@)]
        /\ \E to : down' = IF Accepts(Head(up[p])) THEN SentTo(to, Head(up[p])) ELSE down
      BY <1>4 DEF Relay, clientVars, serverVars, TypeOK
  <2>2. Tail(up[p]) \in Seq(ActorPackets) /\ Head(up[p]) \in DownPackets
      BY <2>1 DEF DownPackets
  <2>3. down' \in [Players -> Seq(DownPackets)]
      BY <2>1, <2>2, SentToFacts DEF TypeOK, DownPackets
  <2>4. up' \in [Players -> Seq(ActorPackets)]
      BY <2>1, <2>2 DEF TypeOK
  <2> QED
      BY <1>0, <2>1, <2>3, <2>4 DEF TypeOK, DownPackets
<1>5. ASSUME NEW p \in Players, NEW X \in Cells, SendActorAuthority(X, p) PROVE TypeOK'
  <2>1. /\ UNCHANGED <<online, active, believed, members, up>>
        /\ authority' = [authority EXCEPT ![X] = p]
        /\ down' = SentTo(Players, Authority(X, p))
      BY <1>5 DEF SendActorAuthority, clientVars
  <2>2. Authority(X, p) \in DownPackets
      BY DEF Authority, DownPackets, AuthorityPackets
  <2>3. down' \in [Players -> Seq(DownPackets)]
      BY <2>1, <2>2, SentToFacts
  <2> QED
      BY <1>0, <2>1, <2>3 DEF TypeOK, DownPackets
<1>6. ASSUME NEW p \in Players, NEW X \in Cells, EnterCell(X, p) \/ LeaveCell(X, p) PROVE TypeOK'
  <2>1. UNCHANGED <<online, active, believed, up, down>>
      BY <1>6 DEF EnterCell, LeaveCell, clientVars
  <2>2. members' \in [Cells -> SUBSET online]
    <3>1. members \in [Cells -> SUBSET online]
        BY DEF TypeOK
    <3> QED
        BY <1>6, <3>1 DEF EnterCell, LeaveCell, Left
  <2>3. authority' \in [Cells -> Players \cup {Nobody}]
      BY <1>6 DEF EnterCell, LeaveCell, Left, TypeOK
  <2> QED
      BY <1>0, <2>1, <2>2, <2>3 DEF TypeOK
<1>7. ASSUME NEW p \in Players, Disconnect(p) PROVE TypeOK'
  <2>1. members' \in [Cells -> SUBSET online']
      BY <1>7 DEF Disconnect, Left, TypeOK
  <2>2. authority' \in [Cells -> Players \cup {Nobody}] /\ online' \subseteq Players
      BY <1>7 DEF Disconnect, Left, TypeOK
  <2>3. /\ active' \in [Players -> SUBSET Cells]
        /\ believed' \in [Players -> [Cells -> Players \cup {Nobody}]]
      BY <1>7 DEF Disconnect, TypeOK
  <2>4. /\ up' \in [Players -> Seq(ActorPackets)]
        /\ down' \in [Players -> Seq(ActorPackets \cup AuthorityPackets)]
      BY <1>7 DEF Disconnect, TypeOK
  <2> QED
      BY <1>0, <2>1, <2>2, <2>3, <2>4 DEF TypeOK
<1>8. CASE UNCHANGED vars
    BY <1>8 DEF vars, TypeOK
<1> QED
    BY <1>1, <1>2, <1>3, <1>4, <1>5, <1>6, <1>7, <1>8 DEF Next, Client, Server

\* The variables keep their types: members are players with a session, and the
\* channels carry packets that their senders know.
THEOREM TypeCorrect == Spec => []TypeOK
<1>1. Init => TypeOK
    BY DEF Init, TypeOK
<1>2. TypeOK /\ [Next]_vars => TypeOK'
    BY TypesKept
<1> QED
    BY <1>1, <1>2, PTL DEF Spec

-----------------------------------------------------------------------------
(* News in a channel, and in what is left of it. *)

LEMMA NewsAppended ==
    ASSUME NEW S, NEW s \in Seq(S), NEW e \in S, NEW X, NEW n \in 0 .. Len(s)
    PROVE  /\ Silent(Append(s, e), X, n) <=> Silent(s, X, n)
           /\ \A i \in 1 .. n : Latest(Append(s, e), X, n, i) <=> Latest(s, X, n, i)
           /\ \A i \in 1 .. Len(s) : Append(s, e)[i] = s[i]
<1>1. \A i \in 1 .. Len(s) : Append(s, e)[i] = s[i]
    BY AppendFacts
<1>2. \A i \in 1 .. n : i \in 1 .. Len(s)
    OBVIOUS
<1>3. \A i \in 1 .. n : News(Append(s, e), X, i) <=> News(s, X, i)
    BY <1>1, <1>2 DEF News
<1>4. \A i \in 1 .. n : \A j \in i + 1 .. n : j \in 1 .. n
    OBVIOUS
<1> QED
    BY <1>1, <1>3, <1>4 DEF Silent, Latest

LEMMA OtherAppended ==
    ASSUME NEW S, NEW s \in Seq(S), NEW e \in S, NEW X, e.type # "AUTHORITY" \/ e.cell # X
    PROVE  LET n == Len(s) + 1
           IN  /\ Len(Append(s, e)) = n
               /\ Silent(Append(s, e), X, n) => Silent(s, X, Len(s))
               /\ \A i \in 1 .. n : Latest(Append(s, e), X, n, i) => i \in 1 .. Len(s) /\ Latest(s, X, Len(s), i)
<1>1. /\ Len(Append(s, e)) = Len(s) + 1 /\ Len(s) \in Nat
      /\ Append(s, e)[Len(s) + 1] = e
      /\ \A i \in 1 .. Len(s) : Append(s, e)[i] = s[i]
    BY AppendFacts
<1>2. ~News(Append(s, e), X, Len(s) + 1)
    BY <1>1 DEF News
<1>3. \A i \in 1 .. Len(s) : News(Append(s, e), X, i) <=> News(s, X, i)
    BY <1>1 DEF News
<1>4. Silent(Append(s, e), X, Len(s) + 1) => Silent(s, X, Len(s))
    BY <1>1, <1>3 DEF Silent
<1>5. ASSUME NEW i \in 1 .. Len(s) + 1, Latest(Append(s, e), X, Len(s) + 1, i)
      PROVE  i \in 1 .. Len(s) /\ Latest(s, X, Len(s), i)
  <2>1. i # Len(s) + 1
      BY <1>2, <1>5 DEF Latest
  <2>2. i \in 1 .. Len(s)
      BY <1>1, <2>1
  <2>3. \A j \in i + 1 .. Len(s) : j \in 1 .. Len(s) /\ j \in i + 1 .. Len(s) + 1
      BY <1>1, <2>2
  <2> QED
      BY <1>3, <1>5, <2>2, <2>3 DEF Latest
<1> QED
    BY <1>1, <1>4, <1>5

LEMMA NewsTaken ==
    ASSUME NEW S, NEW s \in Seq(S), s # <<>>, NEW X, NEW n \in 0 .. Len(s) - 1
    PROVE  /\ \A i \in 1 .. n : Tail(s)[i] = s[i + 1]
           /\ \A i \in 1 .. n : Latest(Tail(s), X, n, i) => Latest(s, X, n + 1, i + 1)
           /\ Silent(Tail(s), X, n) /\ ~News(s, X, 1) => Silent(s, X, n + 1)
           /\ Silent(Tail(s), X, n) /\ News(s, X, 1) => Latest(s, X, n + 1, 1)
<1>1. Len(s) \in Nat /\ Len(Tail(s)) = Len(s) - 1 /\ \A i \in 1 .. Len(s) - 1 : Tail(s)[i] = s[i + 1]
    OBVIOUS
<1>2. \A i \in 1 .. n : Tail(s)[i] = s[i + 1]
    BY <1>1
<1>3. \A j \in 2 .. n + 1 : j - 1 \in 1 .. n /\ (News(s, X, j) <=> News(Tail(s), X, j - 1))
  <2>1. \A j \in 2 .. n + 1 : j - 1 \in 1 .. n /\ s[j] = Tail(s)[j - 1]
      BY <1>1, <1>2
  <2> QED
      BY <2>1 DEF News
<1>4. ASSUME NEW i \in 1 .. n, Latest(Tail(s), X, n, i) PROVE Latest(s, X, n + 1, i + 1)
  <2>1. i + 1 \in 1 .. n + 1 /\ i + 1 \in 2 .. n + 1 /\ (i + 1) - 1 = i
      BY <1>1
  <2>2. News(s, X, i + 1)
      BY <1>3, <1>4, <2>1 DEF Latest
  <2>3. \A j \in (i + 1) + 1 .. n + 1 : j \in 2 .. n + 1 /\ j - 1 \in i + 1 .. n
      BY <1>1
  <2> QED
      BY <1>3, <1>4, <2>1, <2>2, <2>3 DEF Latest
<1>5. ASSUME Silent(Tail(s), X, n), ~News(s, X, 1) PROVE Silent(s, X, n + 1)
  <2>1. \A j \in 1 .. n + 1 : j = 1 \/ j \in 2 .. n + 1
      BY <1>1
  <2> QED
      BY <1>3, <1>5, <2>1 DEF Silent
<1>6. ASSUME Silent(Tail(s), X, n), News(s, X, 1) PROVE Latest(s, X, n + 1, 1)
  <2>1. 1 \in 1 .. n + 1 /\ \A j \in 1 + 1 .. n + 1 : j \in 2 .. n + 1
      BY <1>1
  <2> QED
      BY <1>3, <1>6, <2>1 DEF Silent, Latest
<1> QED
    BY <1>2, <1>4, <1>5, <1>6

-----------------------------------------------------------------------------
(* The steps. *)

\* What c would simulate it would have simulated before, if the packets are the
\* same and c simulates nothing new.
LEMMA WouldKept ==
    ASSUME NEW c \in Players, NEW X \in Cells, NEW n \in Nat,
           \A i \in 1 .. n : down'[c][i] = down[c][i],
           Trusts(c, X)' => Trusts(c, X),
           Would(c, X, n)'
    PROVE  Would(c, X, n)
<1>1. \A i \in 1 .. n : News(down[c], X, i)' <=> News(down[c], X, i)
    BY DEF News
<1>2. Silent(down[c], X, n)' => Silent(down[c], X, n)
    BY <1>1 DEF Silent
<1>3. \A i \in 1 .. n : Latest(down[c], X, n, i)' => Latest(down[c], X, n, i)
  <2>1. \A i \in 1 .. n : \A j \in i + 1 .. n : j \in 1 .. n
      OBVIOUS
  <2> QED
      BY <1>1, <2>1 DEF Latest
<1> QED
    BY <1>2, <1>3 DEF Would

\* Steps that send and receive nothing, after which nobody simulates more.
LEMMA QuietStep ==
    ASSUME TypeOK, AuthorityInv, online' \subseteq online,
           \A c \in online' : down'[c] = down[c] /\ \A X \in Cells : Trusts(c, X)' => Trusts(c, X),
           \A X \in Cells : authority'[X] \in {authority[X], Nobody}
    PROVE  AgreementInv' /\ ForeignInv'
<1>1. AgreementInv'
  <2> SUFFICES ASSUME NEW X \in Cells
               PROVE  \E p \in Players \cup {Nobody} : Agreed(X, p)' /\ (authority'[X] # Nobody => p = authority'[X])
      BY DEF AgreementInv
  <2>1. PICK p \in Players \cup {Nobody} : Agreed(X, p) /\ (authority[X] # Nobody => p = authority[X])
      BY DEF AuthorityInv, AgreementInv
  <2>2. Agreed(X, p)'
    <3> SUFFICES ASSUME NEW c \in online'
                 PROVE  /\ \A i \in DOMAIN down'[c] :
                               Latest(down'[c], X, Len(down'[c]), i) => down'[c][i].guid = p
                        /\ Silent(down'[c], X, Len(down'[c])) /\ Trusts(c, X)' => c = p
        BY DEF Agreed
    <3>1. down'[c] = down[c] /\ c \in online
        OBVIOUS
    <3> QED
        BY <2>1, <3>1 DEF Agreed
  <2>3. authority'[X] # Nobody => p = authority'[X]
      BY <2>1
  <2> QED
      BY <2>2, <2>3
<1>2. ForeignInv'
  <2> SUFFICES ASSUME NEW c \in online', NEW i \in DOMAIN down'[c], NEW X \in Cells,
                      down'[c][i].type \in Checked, X = down'[c][i].cell, Would(c, X, i - 1)'
               PROVE  FALSE
    <3>1. \A c \in online' : c \in Players /\ down'[c] = down[c] /\ down[c] \in Seq(DownPackets)
        BY DEF TypeOK, DownPackets
    <3>2. \A c \in online' : \A i \in DOMAIN down'[c] : down'[c][i].cell \in Cells
        BY <3>1 DEF DownPackets, ActorPackets, AuthorityPackets
    <3> QED
        BY <3>2 DEF ForeignInv
  <2>1. c \in online /\ c \in Players /\ down'[c] = down[c] /\ i \in 1 .. Len(down[c]) /\ Len(down[c]) \in Nat
      BY DEF TypeOK
  <2>2. Would(c, X, i - 1)
      BY <2>1, WouldKept
  <2> QED
      BY <2>1, <2>2 DEF AuthorityInv, ForeignInv
<1> QED
    BY <1>1, <1>2

\* A client takes a packet: what it would have simulated after it, it simulates now.
LEMMA ReceiveFacts ==
    ASSUME TypeOK, NEW c \in Players, Receive(c), NEW X \in Cells
    PROVE  /\ Trusts(c, X)' => \/ News(down[c], X, 1) /\ down[c][1].guid = c
                               \/ ~News(down[c], X, 1) /\ Trusts(c, X)
           /\ \A d \in Players : d # c => down'[d] = down[d] /\ (Trusts(d, X)' <=> Trusts(d, X))
           /\ down[c] \in Seq(DownPackets) /\ down[c] # <<>> /\ down'[c] = Tail(down[c])
<1>1. /\ down[c] \in Seq(DownPackets) /\ down[c] # <<>> /\ Head(down[c]) = down[c][1]
      /\ down' = [down EXCEPT ![c] = Tail(@)]
    BY DEF Receive, TypeOK, DownPackets
<1>2. down[c][1] \in DownPackets
    BY <1>1
<1>3. \/ /\ down[c][1].type = "AUTHORITY"
         /\ believed' = [believed EXCEPT ![c][down[c][1].cell] = down[c][1].guid]
         /\ missed' = missed \ {<<c, down[c][1].cell>>}
      \/ /\ down[c][1].type = "AUTHORITY"
         /\ believed' = believed
         /\ missed' = missed \cup {<<c, down[c][1].cell>>}
      \/ down[c][1].type # "AUTHORITY" /\ believed' = believed /\ missed' = missed
    BY <1>1 DEF Receive, ReceiveAuthority, ReceiveActors
<1>4. \A d \in Players : d # c => /\ down'[d] = down[d] /\ believed'[d] = believed[d]
                                  /\ <<d, X>> \in missed' <=> <<d, X>> \in missed
  <2>1. \A d \in Players : d # c => down'[d] = down[d] /\ believed'[d] = believed[d]
      BY <1>1, <1>3 DEF TypeOK
  <2>2. \A d \in Players : d # c => <<d, X>> # <<c, down[c][1].cell>>
      OBVIOUS
  <2> QED
      BY <1>3, <2>1, <2>2
<1>5. Trusts(c, X)' => \/ News(down[c], X, 1) /\ down[c][1].guid = c
                       \/ ~News(down[c], X, 1) /\ Trusts(c, X)
  <2> SUFFICES ASSUME believed'[c][X] = c, <<c, X>> \notin missed'
               PROVE  \/ News(down[c], X, 1) /\ down[c][1].guid = c
                      \/ ~News(down[c], X, 1) /\ believed[c][X] = c /\ <<c, X>> \notin missed
      BY DEF Trusts
  <2>1. CASE News(down[c], X, 1)
    <3>1. believed' = [believed EXCEPT ![c][X] = down[c][1].guid]
        BY <1>3, <2>1 DEF News
    <3>2. believed'[c][X] = down[c][1].guid
        BY <3>1 DEF TypeOK
    <3> QED
        BY <2>1, <3>2
  <2>2. CASE ~News(down[c], X, 1)
    <3>1. believed'[c][X] = believed[c][X]
        BY <1>3, <2>2 DEF News, TypeOK
    <3>2. <<c, X>> \notin missed
      <4>1. down[c][1].type = "AUTHORITY" => <<c, X>> # <<c, down[c][1].cell>>
          BY <2>2 DEF News
      <4> QED
          BY <1>3, <4>1
    <3> QED
        BY <2>2, <3>1, <3>2
  <2> QED
      BY <2>1, <2>2
<1>6. down'[c] = Tail(down[c])
    BY <1>1 DEF TypeOK
<1>7. ASSUME NEW d \in Players, d # c
      PROVE  down'[d] = down[d] /\ (Trusts(d, X)' <=> Trusts(d, X))
  <2>1. believed'[d][X] = believed[d][X] /\ (<<d, X>> \in missed' <=> <<d, X>> \in missed)
      BY <1>4, <1>7
  <2> QED
      BY <1>4, <1>7, <2>1 DEF Trusts
<1>8. \A d \in Players : d # c => down'[d] = down[d] /\ (Trusts(d, X)' <=> Trusts(d, X))
    BY <1>7
<1> QED
  <2>1. down[c] \in Seq(DownPackets) /\ down[c] # <<>> /\ down'[c] = Tail(down[c])
      BY <1>1, <1>6
  <2> QED
      BY <1>5, <1>8, <2>1

LEMMA ReceiveWould ==
    ASSUME TypeOK, NEW c \in Players, Receive(c), NEW X \in Cells,
           NEW n \in 0 .. Len(down[c]) - 1, Would(c, X, n)'
    PROVE  Would(c, X, n + 1)
<1>1. /\ down[c] \in Seq(DownPackets) /\ down[c] # <<>> /\ down'[c] = Tail(down[c])
      /\ Trusts(c, X)' => \/ News(down[c], X, 1) /\ down[c][1].guid = c
                          \/ ~News(down[c], X, 1) /\ Trusts(c, X)
    BY ReceiveFacts
<1>2. /\ \A i \in 1 .. n : Tail(down[c])[i] = down[c][i + 1]
      /\ \A i \in 1 .. n : Latest(Tail(down[c]), X, n, i) => Latest(down[c], X, n + 1, i + 1)
      /\ Silent(Tail(down[c]), X, n) /\ ~News(down[c], X, 1) => Silent(down[c], X, n + 1)
      /\ Silent(Tail(down[c]), X, n) /\ News(down[c], X, 1) => Latest(down[c], X, n + 1, 1)
    BY <1>1, NewsTaken
<1>3. \/ \E i \in 1 .. n : Latest(Tail(down[c]), X, n, i) /\ Tail(down[c])[i].guid = c
      \/ Silent(Tail(down[c]), X, n) /\ Trusts(c, X)'
    BY <1>1 DEF Would
<1>4. n \in Nat /\ 1 \in 1 .. n + 1 /\ \A i \in 1 .. n : i + 1 \in 1 .. n + 1
    BY <1>1
<1> QED
    BY <1>1, <1>2, <1>3, <1>4 DEF Would

LEMMA ReceiveKeeps ==
    ASSUME TypeOK, AuthorityInv, NEW c \in Players, Receive(c)
    PROVE  AgreementInv' /\ ForeignInv'
<1>1. /\ down[c] \in Seq(DownPackets) /\ down[c] # <<>> /\ down'[c] = Tail(down[c])
      /\ Len(down'[c]) = Len(down[c]) - 1 /\ Len(down[c]) \in Nat
      /\ DOMAIN down'[c] = 1 .. Len(down[c]) - 1
      /\ UNCHANGED <<online, authority>>
  <2>1. down[c] \in Seq(DownPackets) /\ down[c] # <<>> /\ down' = [down EXCEPT ![c] = Tail(@)]
      BY DEF Receive, TypeOK, DownPackets
  <2> QED
      BY <2>1 DEF Receive, TypeOK, serverVars
<1>2. AgreementInv'
  <2> SUFFICES ASSUME NEW X \in Cells
               PROVE  \E p \in Players \cup {Nobody} : Agreed(X, p)' /\ (authority'[X] # Nobody => p = authority'[X])
      BY DEF AgreementInv
  <2>1. PICK p \in Players \cup {Nobody} : Agreed(X, p) /\ (authority[X] # Nobody => p = authority[X])
      BY DEF AuthorityInv, AgreementInv
  <2>2. ASSUME NEW d \in online
        PROVE  /\ \A i \in DOMAIN down'[d] :
                      Latest(down'[d], X, Len(down'[d]), i) => down'[d][i].guid = p
               /\ Silent(down'[d], X, Len(down'[d])) /\ Trusts(d, X)' => d = p
    <3>1. CASE d # c
      <4>1. d \in Players /\ down'[d] = down[d] /\ (Trusts(d, X)' <=> Trusts(d, X))
          BY <3>1, ReceiveFacts DEF TypeOK
      <4> QED
          BY <2>1, <4>1 DEF Agreed
    <3>2. CASE d = c
      <4> DEFINE n == Len(down[c]) - 1
      <4>1. n \in 0 .. Len(down[c]) - 1 /\ n + 1 = Len(down[c])
          BY <1>1
      <4>2. /\ \A i \in 1 .. n : Tail(down[c])[i] = down[c][i + 1]
            /\ \A i \in 1 .. n : Latest(Tail(down[c]), X, n, i) => Latest(down[c], X, n + 1, i + 1)
            /\ Silent(Tail(down[c]), X, n) /\ ~News(down[c], X, 1) => Silent(down[c], X, n + 1)
            /\ Silent(Tail(down[c]), X, n) /\ News(down[c], X, 1) => Latest(down[c], X, n + 1, 1)
          BY <1>1, <4>1, NewsTaken
      <4>3. /\ \A i \in DOMAIN down[c] : Latest(down[c], X, n + 1, i) => down[c][i].guid = p
            /\ Silent(down[c], X, n + 1) /\ Trusts(c, X) => c = p
          BY <2>1, <3>2, <4>1 DEF Agreed
      <4>4. 1 \in DOMAIN down[c] /\ \A i \in 1 .. n : i + 1 \in DOMAIN down[c]
          BY <1>1, <4>1
      <4>5. Trusts(c, X)' => \/ News(down[c], X, 1) /\ down[c][1].guid = c
                             \/ ~News(down[c], X, 1) /\ Trusts(c, X)
          BY ReceiveFacts
      <4>6. \A i \in 1 .. n : Latest(Tail(down[c]), X, n, i) => Tail(down[c])[i].guid = p
          BY <4>2, <4>3, <4>4
      <4>7. Silent(Tail(down[c]), X, n) /\ Trusts(c, X)' => c = p
          BY <4>2, <4>3, <4>4, <4>5
      <4> QED
          BY <1>1, <3>2, <4>6, <4>7
    <3> QED
        BY <3>1, <3>2
  <2>3. Agreed(X, p)'
      BY <1>1, <2>2 DEF Agreed
  <2> QED
      BY <1>1, <2>1, <2>3
<1>3. ForeignInv'
  <2> SUFFICES ASSUME NEW d \in online, NEW i \in DOMAIN down'[d], NEW X \in Cells,
                      down'[d][i].type \in Checked, X = down'[d][i].cell, Would(d, X, i - 1)'
               PROVE  FALSE
    <3>1. \A d \in online : \A i \in DOMAIN down'[d] : down'[d][i].cell \in Cells
      <4>1. \A d \in online : down'[d] \in Seq(DownPackets)
          BY TypesKept DEF Next, Client, TypeOK, DownPackets
      <4> QED
          BY <4>1 DEF DownPackets, ActorPackets, AuthorityPackets
    <3> QED
        BY <1>1, <3>1 DEF ForeignInv
  <2>1. CASE d # c
    <3>1. d \in Players /\ down'[d] = down[d] /\ (Trusts(d, X)' <=> Trusts(d, X))
          /\ i \in 1 .. Len(down[d]) /\ i \in DOMAIN down[d] /\ Len(down[d]) \in Nat
        BY <2>1, ReceiveFacts DEF TypeOK
    <3>2. Would(d, X, i - 1)
        BY <3>1, WouldKept
    <3> QED
        BY <3>1, <3>2 DEF AuthorityInv, ForeignInv
  <2>2. CASE d = c
    <3>0. i \in 1 .. Len(down[c]) - 1
        BY <1>1, <2>2
    <3>1. /\ i + 1 \in DOMAIN down[c] /\ Tail(down[c])[i] = down[c][i + 1]
          /\ i - 1 \in 0 .. Len(down[c]) - 1 /\ (i + 1) - 1 = (i - 1) + 1
      <4>1. i + 1 \in 1 .. Len(down[c]) /\ i - 1 \in 0 .. Len(down[c]) - 1 /\ (i + 1) - 1 = (i - 1) + 1
          BY <1>1, <3>0
      <4>2. Tail(down[c])[i] = down[c][i + 1]
        <5>1. Len(down[c]) - 1 \in 0 .. Len(down[c]) - 1
            BY <1>1, <3>0
        <5> QED
            BY <1>1, <3>0, <5>1, NewsTaken
      <4>3. DOMAIN down[c] = 1 .. Len(down[c])
          BY <1>1
      <4> QED
          BY <4>1, <4>2, <4>3
    <3>2. Would(c, X, (i - 1) + 1)
        BY <2>2, <3>1, ReceiveWould
    <3>3. down[c][i + 1].type \in Checked /\ down[c][i + 1].cell = X /\ c \in online
        BY <1>1, <2>2, <3>1
    <3> QED
        BY <3>1, <3>2, <3>3 DEF AuthorityInv, ForeignInv
  <2> QED
      BY <2>1, <2>2
<1> QED
    BY <1>2, <1>3

\* A packet for some of the clients changes nothing about what they will believe
\* of the cells it brings no news about.
LEMMA OthersAgreed ==
    ASSUME TypeOK, NEW X \in Cells, NEW p \in Players \cup {Nobody}, NEW packet \in DownPackets,
           packet.type # "AUTHORITY" \/ packet.cell # X,
           UNCHANGED <<online, believed, missed>>,
           \A c \in online : down'[c] = down[c] \/ down'[c] = Append(down[c], packet),
           Agreed(X, p)
    PROVE  Agreed(X, p)'
<1> SUFFICES ASSUME NEW c \in online
             PROVE  /\ \A i \in DOMAIN down'[c] :
                           Latest(down'[c], X, Len(down'[c]), i) => down'[c][i].guid = p
                    /\ Silent(down'[c], X, Len(down'[c])) /\ Trusts(c, X)' => c = p
    BY DEF Agreed
<1>1. (Trusts(c, X)' <=> Trusts(c, X)) /\ down[c] \in Seq(DownPackets)
    BY DEF Trusts, TypeOK, DownPackets
<1>2. /\ \A i \in DOMAIN down[c] : Latest(down[c], X, Len(down[c]), i) => down[c][i].guid = p
      /\ Silent(down[c], X, Len(down[c])) /\ Trusts(c, X) => c = p
    BY DEF Agreed
<1>3. CASE down'[c] = down[c]
    BY <1>1, <1>2, <1>3
<1>4. CASE down'[c] = Append(down[c], packet)
  <2> DEFINE s == Append(down[c], packet)
             n == Len(down[c]) + 1
  <2>1. /\ Len(s) = n
        /\ Silent(s, X, n) => Silent(down[c], X, Len(down[c]))
        /\ \A i \in 1 .. n : Latest(s, X, n, i) => i \in 1 .. Len(down[c]) /\ Latest(down[c], X, Len(down[c]), i)
      BY <1>1, OtherAppended
  <2>2. /\ \A i \in 1 .. Len(down[c]) : s[i] = down[c][i]
        /\ DOMAIN down[c] = 1 .. Len(down[c])
        /\ DOMAIN s = 1 .. Len(s)
      BY <1>1, AppendFacts
  <2> HIDE DEF s, n
  <2>3. \A i \in DOMAIN s : Latest(s, X, Len(s), i) => s[i].guid = p
      BY <1>2, <2>1, <2>2
  <2>4. Silent(s, X, Len(s)) /\ Trusts(c, X)' => c = p
      BY <1>1, <1>2, <2>1
  <2>5. down'[c] = s
      BY <1>4 DEF s
  <2> QED
      BY <2>3, <2>4, <2>5
<1> QED
    BY <1>3, <1>4

\* When a packet is sent, what clients would simulate before those that are on
\* their way already stays; the packet itself must be right.
LEMMA SentForeign ==
    ASSUME TypeOK, ForeignInv, NEW packet \in DownPackets,
           UNCHANGED <<online, believed, missed>>,
           \A c \in online : down'[c] = down[c] \/ down'[c] = Append(down[c], packet),
           \A c \in online : down'[c] # down[c] /\ packet.type \in Checked =>
               ~Would(c, packet.cell, Len(down[c]))
    PROVE  ForeignInv'
<1> SUFFICES ASSUME NEW c \in online, NEW i \in DOMAIN down'[c], NEW X \in Cells,
                    down'[c][i].type \in Checked, X = down'[c][i].cell, Would(c, X, i - 1)'
             PROVE  FALSE
  <2>1. ASSUME NEW c \in online, NEW i \in DOMAIN down'[c] PROVE down'[c][i].cell \in Cells
    <3>1. down[c] \in Seq(DownPackets)
        BY DEF TypeOK, DownPackets
    <3>2. Append(down[c], packet) \in Seq(DownPackets)
        BY <3>1, AppendFacts
    <3>3. down'[c] \in Seq(DownPackets)
        BY <3>1, <3>2
    <3> QED
        BY <3>3 DEF DownPackets, ActorPackets, AuthorityPackets
  <2> QED
      BY <2>1 DEF ForeignInv
<1>1. down[c] \in Seq(DownPackets) /\ Len(down[c]) \in Nat /\ DOMAIN down[c] = 1 .. Len(down[c])
      /\ c \in Players /\ (Trusts(c, X)' => Trusts(c, X))
    BY DEF Trusts, TypeOK, DownPackets
<1>2. CASE i \in DOMAIN down[c]
  <2>1. \A j \in 1 .. i : j \in DOMAIN down[c] /\ down'[c][j] = down[c][j]
      BY <1>1, <1>2, AppendFacts
  <2>2. i - 1 \in Nat /\ \A j \in 1 .. i - 1 : j \in 1 .. i
      BY <1>1, <1>2
  <2>3. Would(c, X, i - 1)
      BY <1>1, <2>1, <2>2, WouldKept
  <2>4. i \in 1 .. i
      BY <1>1, <1>2
  <2>5. down[c][i].type \in Checked /\ down[c][i].cell = X
      BY <2>1, <2>4
  <2> QED
      BY <1>2, <2>3, <2>5 DEF ForeignInv
<1>3. CASE i \notin DOMAIN down[c]
  <2>1. down'[c] # down[c] /\ down'[c] = Append(down[c], packet)
      BY <1>3
  <2>2. i = Len(down[c]) + 1 /\ down'[c][i] = packet /\ \A j \in 1 .. Len(down[c]) : down'[c][j] = down[c][j]
      BY <1>1, <1>3, <2>1, AppendFacts
  <2>3. i - 1 = Len(down[c])
      BY <1>1, <2>2
  <2>4. Would(c, X, Len(down[c]))
      BY <1>1, <2>2, <2>3, WouldKept
  <2> QED
      BY <2>1, <2>2, <2>4
<1> QED
    BY <1>2, <1>3

LEMMA RelayKeeps ==
    ASSUME TypeOK, AuthorityInv, NEW p \in Players, Relay(p)
    PROVE  AgreementInv' /\ ForeignInv'
<1> DEFINE packet == Head(up[p])
           to == (IF packet.type \in ToEveryone THEN Players ELSE members[packet.cell]) \ {p}
<1>1. /\ UNCHANGED <<online, believed, missed, authority>>
      /\ up[p] \in Seq(ActorPackets) /\ up[p] # <<>>
      /\ down' = IF Accepts(packet) THEN SentTo(to, packet) ELSE down
    BY DEF Relay, clientVars, serverVars, TypeOK
<1>2. packet \in ActorPackets /\ packet \in DownPackets /\ packet.guid = p
  <2>1. packet = up[p][1] /\ 1 \in DOMAIN up[p] /\ packet \in ActorPackets
      BY <1>1
  <2> QED
      BY <2>1 DEF AuthorityInv, SendersInv, DownPackets
<1>3. packet.type # "AUTHORITY" /\ packet.cell \in Cells
    BY <1>2 DEF ActorPackets
<1>4. \A c \in online : /\ down'[c] = down[c] \/ down'[c] = Append(down[c], packet)
                        /\ down'[c] # down[c] => c # p /\ Accepts(packet)
  <2>1. CASE Accepts(packet)
    <3>1. \A c \in Players : down'[c] = IF c \in to \cap online THEN Append(down[c], packet) ELSE down[c]
        BY <1>1, <1>2, <2>1 DEF SentTo
    <3> QED
        BY <2>1, <3>1 DEF TypeOK
  <2>2. CASE ~Accepts(packet)
      BY <1>1, <2>2
  <2> QED
      BY <2>1, <2>2
<1> HIDE DEF packet, to
<1>5. AgreementInv'
  <2> SUFFICES ASSUME NEW X \in Cells
               PROVE  \E q \in Players \cup {Nobody} : Agreed(X, q)' /\ (authority'[X] # Nobody => q = authority'[X])
      BY DEF AgreementInv
  <2>1. PICK q \in Players \cup {Nobody} : Agreed(X, q) /\ (authority[X] # Nobody => q = authority[X])
      BY DEF AuthorityInv, AgreementInv
  <2>2. Agreed(X, q)'
    <3>1. PICK k \in DownPackets : k = packet
        BY <1>2
    <3>2. k.type # "AUTHORITY" /\ \A c \in online : down'[c] = down[c] \/ down'[c] = Append(down[c], k)
        BY <1>3, <1>4, <3>1
    <3> QED
        BY <1>1, <2>1, <3>2, OthersAgreed
  <2> QED
      BY <1>1, <2>1, <2>2
<1>6. ASSUME NEW c \in online, down'[c] # down[c], packet.type \in Checked
      PROVE  ~Would(c, packet.cell, Len(down[c]))
  <2>1. c # p /\ authority[packet.cell] = p
      BY <1>2, <1>4, <1>6 DEF Accepts
  <2>2. Agreed(packet.cell, p)
      BY <1>3, <2>1 DEF AuthorityInv, AgreementInv
  <2>3. \A i \in 1 .. Len(down[c]) : i \in DOMAIN down[c]
      BY DEF TypeOK
  <2> QED
      BY <2>1, <2>2, <2>3 DEF Would, Agreed
<1>7. ForeignInv'
  <2>1. PICK k \in DownPackets : k = packet
      BY <1>2
  <2>2. /\ \A c \in online : down'[c] = down[c] \/ down'[c] = Append(down[c], k)
        /\ \A c \in online : down'[c] # down[c] /\ k.type \in Checked => ~Would(c, k.cell, Len(down[c]))
      BY <1>4, <1>6, <2>1
  <2> QED
      BY <1>1, <2>2, SentForeign DEF AuthorityInv
<1> QED
    BY <1>5, <1>7

LEMMA SendAuthorityKeeps ==
    ASSUME TypeOK, AuthorityInv, NEW X \in Cells, NEW p \in Players, SendActorAuthority(X, p)
    PROVE  AgreementInv' /\ ForeignInv'
<1> DEFINE packet == Authority(X, p)
<1>1. /\ UNCHANGED <<online, believed, missed>>
      /\ authority' = [authority EXCEPT ![X] = p]
      /\ down' = SentTo(Players, packet)
    BY DEF SendActorAuthority, clientVars
<1>2. packet \in DownPackets /\ packet.type = "AUTHORITY" /\ packet.cell = X /\ packet.guid = p
    BY DEF Authority, DownPackets, AuthorityPackets
<1> HIDE DEF packet
<1>3. \A c \in online : down'[c] = Append(down[c], packet)
    BY <1>1 DEF SentTo, TypeOK
<1>4. Agreed(X, p)'
  <2> SUFFICES ASSUME NEW c \in online
               PROVE  /\ \A i \in DOMAIN down'[c] :
                             Latest(down'[c], X, Len(down'[c]), i) => down'[c][i].guid = p
                      /\ ~Silent(down'[c], X, Len(down'[c]))
      BY <1>1 DEF Agreed
  <2> DEFINE s == Append(down[c], packet)
  <2>1. /\ down[c] \in Seq(DownPackets) /\ Len(s) = Len(down[c]) + 1 /\ Len(down[c]) \in Nat
        /\ s[Len(s)] = packet /\ DOMAIN s = 1 .. Len(s)
    <3>1. down[c] \in Seq(DownPackets)
        BY DEF TypeOK, DownPackets
    <3> QED
        BY <1>2, <3>1, AppendFacts
  <2> HIDE DEF s
  <2>2. News(s, X, Len(s)) /\ Len(s) \in 1 .. Len(s)
      BY <1>2, <2>1 DEF News
  <2>3. ~Silent(s, X, Len(s))
      BY <2>2 DEF Silent
  <2>4. ASSUME NEW i \in DOMAIN s, Latest(s, X, Len(s), i) PROVE s[i].guid = p
    <3>1. i \in 1 .. Len(s) /\ ~(Len(s) \in i + 1 .. Len(s))
        BY <2>1, <2>2, <2>4 DEF Latest
    <3>2. i = Len(s)
        BY <2>1, <3>1
    <3> QED
        BY <1>2, <2>1, <3>2
  <2>5. down'[c] = s
      BY <1>3 DEF s
  <2> QED
      BY <2>3, <2>4, <2>5
<1>5. ASSUME NEW Y \in Cells, Y # X
      PROVE  \E q \in Players \cup {Nobody} : Agreed(Y, q)' /\ (authority'[Y] # Nobody => q = authority'[Y])
  <2>1. PICK q \in Players \cup {Nobody} : Agreed(Y, q) /\ (authority[Y] # Nobody => q = authority[Y])
      BY DEF AuthorityInv, AgreementInv
  <2>2. PICK k \in DownPackets : k = packet
      BY <1>2
  <2>3. k.cell # Y /\ \A c \in online : down'[c] = down[c] \/ down'[c] = Append(down[c], k)
      BY <1>2, <1>3, <1>5, <2>2
  <2>4. Agreed(Y, q)'
      BY <1>1, <2>1, <2>3, OthersAgreed
  <2>5. authority'[Y] = authority[Y]
      BY <1>1, <1>5 DEF TypeOK
  <2> QED
      BY <2>1, <2>4, <2>5
<1>6. AgreementInv'
  <2>1. authority'[X] = p
      BY <1>1 DEF TypeOK
  <2> QED
      BY <1>4, <1>5, <2>1 DEF AgreementInv
<1>7. ForeignInv'
  <2>1. PICK k \in DownPackets : k = packet
      BY <1>2
  <2>2. k.type \notin Checked /\ \A c \in online : down'[c] = down[c] \/ down'[c] = Append(down[c], k)
      BY <1>2, <1>3, <2>1 DEF Checked
  <2> QED
      BY <1>1, <2>2, SentForeign DEF AuthorityInv
<1> QED
    BY <1>6, <1>7

-----------------------------------------------------------------------------
(* The theorem.  A cell that comes back before a frame has dropped it brings an *)
(* old belief back: the invariant is about those that no ignored news is about. *)

\* Frame and Teleport.
LEMMA WorldKeeps ==
    ASSUME TypeOK, AuthorityInv, NEW c \in Players, Frame(c) \/ Teleport(c)
    PROVE  AgreementInv' /\ ForeignInv'
<1>1. UNCHANGED <<online, authority, down>>
    BY DEF Frame, Teleport, serverVars
<1>2. ASSUME NEW d \in Players, NEW X \in Cells, Trusts(d, X)' PROVE Trusts(d, X)
  <2>1. CASE Teleport(c)
      BY <1>2, <2>1 DEF Teleport, Trusts
  <2>2. CASE Frame(c)
    <3>1. /\ believed'[c][X] = IF X \in active[c] THEN believed[c][X] ELSE Nobody
          /\ d # c => believed'[d] = believed[d]
        BY <2>2 DEF Frame, TypeOK
    <3>2. \A m : m \in missed' <=> m \in missed /\ (m[1] = c => m[2] \in active[c])
        BY <2>2 DEF Frame
    <3>3. <<d, X>> \in missed' <=> <<d, X>> \in missed /\ (d = c => X \in active[c])
        BY <3>2
    <3> QED
        BY <1>2, <3>1, <3>3 DEF Trusts
  <2> QED
      BY <2>1, <2>2
<1> QED
    BY <1>1, <1>2, QuietStep DEF TypeOK

LEMMA SendActorsKeeps ==
    ASSUME TypeOK, AuthorityInv, NEW c \in Players, NEW X \in Cells, NEW type \in SentTypes, SendActors(c, X, type)
    PROVE  AuthorityInv'
<1>1. /\ UNCHANGED <<online, believed, missed, authority, down>>
      /\ up' = [up EXCEPT ![c] = Append(@, [type |-> type, cell |-> X, guid |-> c])]
    BY DEF SendActors, clientVars, serverVars
<1>2. \A d \in Players, Y \in Cells : Trusts(d, Y)' => Trusts(d, Y)
    BY <1>1 DEF Trusts
<1>3. AgreementInv' /\ ForeignInv'
    BY <1>1, <1>2, QuietStep DEF TypeOK
<1>4. SendersInv'
  <2> SUFFICES ASSUME NEW p \in Players, NEW i \in DOMAIN up'[p] PROVE up'[p][i].guid = p
      BY DEF SendersInv
  <2>1. CASE p # c
    <3>1. up'[p] = up[p]
        BY <1>1, <2>1 DEF TypeOK
    <3> QED
        BY <3>1 DEF AuthorityInv, SendersInv
  <2>2. CASE p = c
    <3> DEFINE k == [type |-> type, cell |-> X, guid |-> c]
    <3>1. k \in ActorPackets /\ k.guid = c /\ up[c] \in Seq(ActorPackets) /\ up'[c] = Append(up[c], k)
        BY <1>1 DEF ActorPackets, TypeOK
    <3> HIDE DEF k
    <3>2. i \in DOMAIN up[c] \cup {Len(up[c]) + 1} /\ up'[c][Len(up[c]) + 1] = k
          /\ \A j \in DOMAIN up[c] : up'[c][j] = up[c][j]
        BY <2>2, <3>1, AppendFacts
    <3> QED
        BY <2>2, <3>1, <3>2 DEF AuthorityInv, SendersInv
  <2> QED
      BY <2>1, <2>2
<1>5. SessionsInv'
  <2>1. UNCHANGED <<online, active>>
      BY DEF SendActors, clientVars
  <2> QED
      BY <2>1 DEF AuthorityInv, SessionsInv
<1> QED
    BY <1>3, <1>4, <1>5 DEF AuthorityInv

LEMMA ServerKeeps ==
    ASSUME TypeOK, AuthorityInv, NEW p \in Players,
           (\E X \in Cells : EnterCell(X, p) \/ LeaveCell(X, p)) \/ Disconnect(p)
    PROVE  AgreementInv' /\ ForeignInv'
<1>1. online' \subseteq online /\ \A Y \in Cells : authority'[Y] \in {authority[Y], Nobody}
  <2>1. CASE \E X \in Cells : EnterCell(X, p) \/ LeaveCell(X, p)
      BY <2>1 DEF EnterCell, LeaveCell, Left, clientVars
  <2>2. CASE Disconnect(p)
      BY <2>2 DEF Disconnect, Left
  <2> QED
      BY <2>1, <2>2
<1>2. ASSUME NEW c \in online'
      PROVE  down'[c] = down[c] /\ \A Y \in Cells : Trusts(c, Y)' => Trusts(c, Y)
  <2>1. CASE \E X \in Cells : EnterCell(X, p) \/ LeaveCell(X, p)
      BY <2>1 DEF EnterCell, LeaveCell, clientVars, Trusts
  <2>2. CASE Disconnect(p)
    <3>1. down'[c] = down[c] /\ believed'[c] = believed[c] /\ c # p
        BY <2>2 DEF Disconnect, TypeOK
    <3>2. \A m : m \in missed' <=> m \in missed /\ m[1] # p
        BY <2>2 DEF Disconnect
    <3>3. \A Y \in Cells : <<c, Y>> \in missed' <=> <<c, Y>> \in missed
        BY <3>1, <3>2
    <3> QED
        BY <3>1, <3>3 DEF Trusts
  <2> QED
      BY <2>1, <2>2
<1> QED
    BY <1>1, <1>2, QuietStep

\* What is not about news: players without a session, and who sends what.
LEMMA OthersKept ==
    ASSUME TypeOK, AuthorityInv, Next
    PROVE  SessionsInv' /\ (SendersInv' \/ \E c \in Players, X \in Cells, type \in SentTypes : SendActors(c, X, type))
<1>1. SessionsInv'
  <2>1. ASSUME NEW c \in Players, Frame(c) \/ Teleport(c) PROVE SessionsInv'
    <3>1. c \in online /\ online' = online /\ \A d \in Players : d # c => active'[d] = active[d]
        BY <2>1 DEF Frame, Teleport, TypeOK
    <3> QED
        BY <3>1 DEF AuthorityInv, SessionsInv
  <2>2. ASSUME NEW p \in Players, Disconnect(p) PROVE SessionsInv'
      BY <2>2 DEF Disconnect, TypeOK, AuthorityInv, SessionsInv
  <2>3. ASSUME UNCHANGED <<online, active>> PROVE SessionsInv'
      BY <2>3 DEF AuthorityInv, SessionsInv
  <2>4. \/ \E c \in Players : Frame(c) \/ Teleport(c) \/ Disconnect(c)
        \/ UNCHANGED <<online, active>>
      BY DEF Next, Client, Server, Receive, SendActors, Relay, SendActorAuthority, EnterCell, LeaveCell, clientVars
  <2> QED
      BY <2>1, <2>2, <2>3, <2>4
<1>2. SendersInv' \/ \E c \in Players, X \in Cells, type \in SentTypes : SendActors(c, X, type)
  <2>1. ASSUME NEW p \in Players, Relay(p) PROVE SendersInv'
    <3>1. up[p] \in Seq(ActorPackets) /\ up[p] # <<>> /\ up' = [up EXCEPT ![p] = Tail(@)]
        BY <2>1 DEF Relay, TypeOK
    <3>2. \A i \in DOMAIN Tail(up[p]) : i + 1 \in DOMAIN up[p] /\ Tail(up[p])[i] = up[p][i + 1]
        BY <3>1, TailFacts
    <3>3. \A i \in DOMAIN Tail(up[p]) : Tail(up[p])[i].guid = p
        BY <3>2 DEF AuthorityInv, SendersInv
    <3>4. \A q \in Players : up'[q] = IF q = p THEN Tail(up[p]) ELSE up[q]
        BY <3>1 DEF TypeOK
    <3> QED
        BY <3>3, <3>4 DEF AuthorityInv, SendersInv
  <2>2. ASSUME NEW p \in Players, Disconnect(p) PROVE SendersInv'
    <3>1. \A q \in Players : up'[q] = IF q = p THEN <<>> ELSE up[q]
        BY <2>2 DEF Disconnect, TypeOK
    <3> QED
        BY <3>1 DEF AuthorityInv, SendersInv
  <2>3. ASSUME UNCHANGED up PROVE SendersInv'
      BY <2>3 DEF AuthorityInv, SendersInv
  <2>4. \/ \E p \in Players : Relay(p) \/ Disconnect(p)
        \/ \E c \in Players, X \in Cells, type \in SentTypes : SendActors(c, X, type)
        \/ UNCHANGED up
      BY DEF Next, Client, Server, Receive, Frame, Teleport, SendActorAuthority, EnterCell, LeaveCell
  <2> QED
      BY <2>1, <2>2, <2>3, <2>4
<1> QED
    BY <1>1, <1>2

\* All clients agree, once their packets have arrived, on one authority of each cell,
\* the server's if it has one; and every checked packet on its way was sent by the
\* one its receiver will take for the authority when it comes.
THEOREM AuthorityInvariant == Spec => []AuthorityInv
<1>1. Init => AuthorityInv
  <2> SUFFICES ASSUME Init PROVE AuthorityInv
      OBVIOUS
  <2>1. \A X \in Cells : Agreed(X, Nobody) /\ authority[X] = Nobody
      BY DEF Init, Agreed, Trusts
  <2>2. AgreementInv
      BY <2>1 DEF AgreementInv
  <2>3. SessionsInv /\ SendersInv /\ ForeignInv
      BY DEF Init, SessionsInv, SendersInv, ForeignInv
  <2> QED
      BY <2>2, <2>3 DEF AuthorityInv
<1>2. TypeOK /\ AuthorityInv /\ [Next]_vars => AuthorityInv'
  <2> SUFFICES ASSUME TypeOK, AuthorityInv, [Next]_vars PROVE AuthorityInv'
      OBVIOUS
  <2>1. CASE \E c \in Players, X \in Cells, type \in SentTypes : SendActors(c, X, type)
      BY <2>1, SendActorsKeeps
  <2>2. CASE Next /\ ~\E c \in Players, X \in Cells, type \in SentTypes : SendActors(c, X, type)
    <3>1. AgreementInv' /\ ForeignInv'
      <4>1. ASSUME NEW c \in Players, Receive(c) PROVE AgreementInv' /\ ForeignInv'
          BY <4>1, ReceiveKeeps
      <4>2. ASSUME NEW c \in Players, Frame(c) \/ Teleport(c) PROVE AgreementInv' /\ ForeignInv'
          BY <4>2, WorldKeeps
      <4>3. ASSUME NEW p \in Players, Relay(p) PROVE AgreementInv' /\ ForeignInv'
          BY <4>3, RelayKeeps
      <4>4. ASSUME NEW p \in Players, NEW X \in Cells, SendActorAuthority(X, p) PROVE AgreementInv' /\ ForeignInv'
          BY <4>4, SendAuthorityKeeps
      <4>5. ASSUME NEW p \in Players, NEW X \in Cells, EnterCell(X, p) \/ LeaveCell(X, p)
            PROVE  AgreementInv' /\ ForeignInv'
          BY <4>5, ServerKeeps
      <4>6. ASSUME NEW p \in Players, Disconnect(p) PROVE AgreementInv' /\ ForeignInv'
          BY <4>6, ServerKeeps
      <4> QED
          BY <2>2, <4>1, <4>2, <4>3, <4>4, <4>5, <4>6 DEF Next, Client, Server
    <3> QED
        BY <2>2, <3>1, OthersKept DEF AuthorityInv
  <2>3. CASE UNCHANGED vars
      BY <2>3 DEF vars, AuthorityInv, AgreementInv, Agreed, SessionsInv, SendersInv, ForeignInv, Would, Trusts
  <2> QED
      BY <2>1, <2>2, <2>3
<1> QED
    BY <1>1, <1>2, TypeCorrect, PTL DEF Spec

-----------------------------------------------------------------------------
(* The properties that TLC checks, from the invariant. *)

LEMMA NewsFacts ==
    ASSUME TypeOK, NEW c \in Players, NEW X \in Cells
    PROVE  Informed(c, X) <=> Silent(down[c], X, Len(down[c])) /\ <<c, X>> \notin missed
<1>1. DOMAIN down[c] = 1 .. Len(down[c])
    BY DEF TypeOK
<1> QED
    BY <1>1 DEF Informed, Silent, News

\* If there is news among n packets, some packet is the last of it.
LEMMA LatestExists ==
    ASSUME NEW s, NEW X, NEW n \in Nat, ~Silent(s, X, n)
    PROVE  \E i \in 1 .. n : Latest(s, X, n, i)
<1> DEFINE T == {d \in Nat : d < n /\ News(s, X, n - d)}
<1>1. T # {}
  <2>1. PICK j \in 1 .. n : News(s, X, j)
      BY DEF Silent
  <2>2. n - j \in Nat /\ n - j < n /\ n - (n - j) = j
      OBVIOUS
  <2> QED
      BY <2>1, <2>2
<1>2. PICK d \in T : \A e \in T : d <= e
  <2> HIDE DEF T
  <2>1. T \in SUBSET Nat
      BY DEF T
  <2> QED
      BY <1>1, <2>1, LeastElement
<1>3. d \in Nat /\ d < n /\ n - d \in 1 .. n
    OBVIOUS
<1>4. ASSUME NEW j \in n - d + 1 .. n PROVE ~News(s, X, j)
  <2>1. n - j \in Nat /\ n - j < n /\ n - j < d /\ n - (n - j) = j
    <3> HIDE DEF T
    <3> QED
        BY <1>3
  <2>2. n - j \notin T
    <3>1. d \in T /\ ~(d <= n - j)
        BY <1>3, <2>1
    <3> HIDE DEF T
    <3> QED
        BY <1>2, <3>1
  <2>3. ~News(s, X, n - (n - j))
      BY <2>1, <2>2
  <2> QED
      BY <2>1, <2>3
<1> QED
    BY <1>3, <1>4 DEF Latest

\* Once the last ID_ACTOR_AUTHORITY about a cell has arrived everywhere, at most one
\* client simulates its actors.
THEOREM OneSimulatorHolds == Spec => []OneSimulator
<1>1. TypeOK /\ AuthorityInv => OneSimulator
  <2> SUFFICES ASSUME TypeOK, AuthorityInv, NEW c \in Players, NEW d \in Players, NEW X \in Cells,
                      Informed(c, X), Informed(d, X), Simulates(c, X), Simulates(d, X)
               PROVE  c = d
      BY DEF OneSimulator
  <2>1. PICK p \in Players \cup {Nobody} : Agreed(X, p)
      BY DEF AuthorityInv, AgreementInv
  <2>2. c \in online /\ d \in online
      BY DEF AuthorityInv, SessionsInv, Simulates
  <2> QED
      BY <2>1, <2>2, NewsFacts DEF Agreed, Simulates, Trusts, Informed
<1> QED
    BY <1>1, TypeCorrect, AuthorityInvariant, PTL

\* A client that still simulates a cell the server has given to another has the
\* news on its way, and nothing after it says otherwise.
THEOREM OldAuthorityIsTold == Spec => []OldAuthorityTold
<1>1. TypeOK /\ AuthorityInv => OldAuthorityTold
  <2> SUFFICES ASSUME TypeOK, AuthorityInv, NEW c \in online, NEW X \in Cells,
                      Simulates(c, X), authority[X] \notin {c, Nobody}, <<c, X>> \notin missed
               PROVE  \E i \in DOMAIN down[c] :
                          /\ down[c][i] = Authority(X, authority[X])
                          /\ \A j \in i + 1 .. Len(down[c]) :
                                 down[c][j].type = "AUTHORITY" => down[c][j].cell # X
      BY DEF OldAuthorityTold
  <2>1. Agreed(X, authority[X])
      BY DEF AuthorityInv, AgreementInv
  <2>2. down[c] \in Seq(DownPackets) /\ Len(down[c]) \in Nat /\ DOMAIN down[c] = 1 .. Len(down[c])
      BY DEF TypeOK, DownPackets
  <2>3. ~Silent(down[c], X, Len(down[c]))
      BY <2>1 DEF Agreed, Simulates, Trusts
  <2>4. PICK i \in DOMAIN down[c] : Latest(down[c], X, Len(down[c]), i)
      BY <2>2, <2>3, LatestExists
  <2>5. down[c][i].guid = authority[X] /\ News(down[c], X, i)
      BY <2>1, <2>4 DEF Agreed, Latest
  <2>6. down[c][i] \in AuthorityPackets
      BY <2>2, <2>5 DEF DownPackets, ActorPackets, News
  <2>7. down[c][i] = Authority(X, authority[X])
      BY <2>5, <2>6 DEF AuthorityPackets, Authority, News
  <2> QED
      BY <2>4, <2>7 DEF Latest, News
<1> QED
    BY <1>1, TypeCorrect, AuthorityInvariant, PTL

\* No checked packet of another client reaches the one that simulates the cell.
THEOREM NotMovedByOthersHolds == Spec => []NotMovedByOthers
<1>1. TypeOK /\ AuthorityInv => NotMovedByOthers
  <2> SUFFICES ASSUME TypeOK, AuthorityInv, NEW c \in online, down[c] # <<>>,
                      Head(down[c]).type \in Checked, Simulates(c, Head(down[c]).cell),
                      <<c, Head(down[c]).cell>> \notin missed
               PROVE  FALSE
      BY DEF NotMovedByOthers
  <2>1. down[c] \in Seq(DownPackets) /\ c \in Players
      BY DEF TypeOK, DownPackets
  <2>2. Head(down[c]) = down[c][1] /\ 1 \in DOMAIN down[c]
      BY <2>1, TailFacts
  <2>3. Would(c, Head(down[c]).cell, 0)
      BY DEF Would, Silent, Simulates, Trusts
  <2> QED
      BY <2>2, <2>3 DEF AuthorityInv, ForeignInv
<1> QED
    BY <1>1, TypeCorrect, AuthorityInvariant, PTL
=============================================================================
