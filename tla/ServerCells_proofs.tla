-------------------------- MODULE ServerCells_proofs --------------------------
(****************************************************************************)
(* Proofs about ServerCells, for any players, any cells and any number of   *)
(* packets in flight.                                                       *)
(****************************************************************************)
EXTENDS ServerCells, SequenceTheorems, WellFoundedInduction, TLAPS

-----------------------------------------------------------------------------
(* Facts about sequences. *)

\* Every set of naturals that is not empty has a least element.  CHOOSE of a
\* first index, and inductions, rest on it.
LEMMA LeastElement ==
    ASSUME NEW T \in SUBSET Nat, T # {}
    PROVE  \E x \in T : \A y \in T : x <= y
<1> DEFINE R == {ss \in Nat \X Nat : ss[1] < ss[2]}
<1>1. IsWellFoundedOn(R, Nat)
    BY NatLessThanWellFounded DEF OpToRel
<1>2. PICK x \in T : \A y \in T : ~ (<<y, x>> \in R)
    BY <1>1, WFMin
<1>3. ASSUME NEW y \in T PROVE x <= y
  <2>1. x \in Nat /\ y \in Nat
      OBVIOUS
  <2>2. ~(y < x)
    <3> SUFFICES ASSUME y < x PROVE <<y, x>> \in R
        BY <1>2
    <3> QED
        BY <2>1
  <2> QED
      BY <2>1, <2>2
<1> QED
    BY <1>3

\* The first element of s, and the others.
LEMMA TailFacts ==
    ASSUME NEW S, NEW s \in Seq(S), s # <<>>
    PROVE  /\ Tail(s) \in Seq(S) /\ Head(s) = s[1] /\ 1 \in DOMAIN s
           /\ \A i \in DOMAIN Tail(s) : i + 1 \in DOMAIN s /\ Tail(s)[i] = s[i + 1]
           /\ \A i \in DOMAIN s : i # 1 => i - 1 \in DOMAIN Tail(s) /\ Tail(s)[i - 1] = s[i]
OBVIOUS

\* s with e at the end.
LEMMA AppendFacts ==
    ASSUME NEW S, NEW s \in Seq(S), NEW e \in S
    PROVE  /\ Append(s, e) \in Seq(S)
           /\ DOMAIN Append(s, e) = DOMAIN s \cup {Len(s) + 1}
           /\ Len(s) + 1 \notin DOMAIN s
           /\ \A i \in DOMAIN s : Append(s, e)[i] = s[i]
           /\ Append(s, e)[Len(s) + 1] = e
OBVIOUS

\* The sequence s without its i-th element.
Removed(s, i) == SubSeq(s, 1, i - 1) \o SubSeq(s, i + 1, Len(s))

LEMMA RemovedFacts ==
    ASSUME NEW S, NEW s \in Seq(S), NEW i \in DOMAIN s
    PROVE  /\ Removed(s, i) \in Seq(S)
           /\ \A j \in DOMAIN Removed(s, i) :
                  /\ j < i => j \in DOMAIN s /\ Removed(s, i)[j] = s[j]
                  /\ j >= i => j + 1 \in DOMAIN s /\ Removed(s, i)[j] = s[j + 1]
           /\ \A j \in DOMAIN s :
                  /\ j < i => j \in DOMAIN Removed(s, i) /\ Removed(s, i)[j] = s[j]
                  /\ j > i => j - 1 \in DOMAIN Removed(s, i) /\ Removed(s, i)[j - 1] = s[j]
<1> DEFINE a == SubSeq(s, 1, i - 1)
           b == SubSeq(s, i + 1, Len(s))
           t == a \o b
<1>0. Removed(s, i) = t
    BY DEF Removed
<1>1. i \in 1 .. Len(s) /\ Len(s) \in Nat /\ \A j \in 1 .. Len(s) : s[j] \in S
    OBVIOUS
<1>2. a \in Seq(S) /\ Len(a) = i - 1 /\ \A j \in 1 .. i - 1 : a[j] = s[j]
  <2>1. \A j \in 1 .. i - 1 : s[j] \in S
      BY <1>1
  <2>2. /\ a \in Seq(S)
        /\ Len(a) = IF 1 <= i - 1 THEN (i - 1) - 1 + 1 ELSE 0
        /\ \A j \in 1 .. (i - 1) - 1 + 1 : a[j] = s[1 + j - 1]
      BY <1>1, <2>1, SubSeqProperties
  <2> HIDE DEF a
  <2>3. \A j \in 1 .. i - 1 : 1 + j - 1 = j
      BY <1>1
  <2> QED
      BY <1>1, <2>2, <2>3
<1>3. b \in Seq(S) /\ Len(b) = Len(s) - i /\ \A j \in 1 .. Len(s) - i : b[j] = s[i + j]
  <2>1. \A j \in i + 1 .. Len(s) : s[j] \in S
      BY <1>1
  <2>2. /\ b \in Seq(S)
        /\ Len(b) = IF i + 1 <= Len(s) THEN Len(s) - (i + 1) + 1 ELSE 0
        /\ \A j \in 1 .. Len(s) - (i + 1) + 1 : b[j] = s[(i + 1) + j - 1]
      BY <1>1, <2>1, SubSeqProperties
  <2> HIDE DEF b
  <2>3. \A j \in 1 .. Len(s) - i : (i + 1) + j - 1 = i + j
      BY <1>1
  <2> QED
      BY <1>1, <2>2, <2>3
<1> HIDE DEF a, b
<1>4. /\ t \in Seq(S) /\ Len(t) = Len(s) - 1
      /\ \A j \in 1 .. Len(s) - 1 : t[j] = IF j <= i - 1 THEN a[j] ELSE b[j - (i - 1)]
  <2>1. /\ t \in Seq(S) /\ Len(t) = Len(a) + Len(b)
        /\ \A j \in 1 .. Len(a) + Len(b) : t[j] = IF j <= Len(a) THEN a[j] ELSE b[j - Len(a)]
      BY <1>2, <1>3, ConcatProperties
  <2> HIDE DEF t
  <2>2. Len(a) = i - 1 /\ Len(a) + Len(b) = Len(s) - 1
      BY <1>1, <1>2, <1>3
  <2> QED
      BY <2>1, <2>2
<1> HIDE DEF t
<1>5. DOMAIN t = 1 .. Len(s) - 1
  <2>1. t \in Seq(S) /\ Len(t) = Len(s) - 1
      BY <1>4
  <2>2. DOMAIN t = 1 .. Len(t)
      BY <2>1, LenProperties
  <2> QED
      BY <2>1, <2>2, Zenon
<1>6. \A j \in 1 .. Len(s) - 1 : t[j] = IF j < i THEN s[j] ELSE s[j + 1]
  <2> TAKE j \in 1 .. Len(s) - 1
  <2>1. CASE j < i
    <3>1. j \in 1 .. i - 1 /\ j <= i - 1
        BY <1>1, <2>1
    <3>2. t[j] = a[j]
        BY <1>4, <3>1
    <3>3. a[j] = s[j]
        BY <1>2, <3>1
    <3> QED
        BY <2>1, <3>2, <3>3
  <2>2. CASE j >= i
    <3>1. j - (i - 1) \in 1 .. Len(s) - i /\ i + (j - (i - 1)) = j + 1
        BY <1>1, <2>2
    <3>2. b[j - (i - 1)] = s[j + 1]
        BY <1>3, <3>1
    <3> QED
        BY <1>1, <1>4, <2>2, <3>2
  <2> QED
      BY <1>1, <2>1, <2>2
<1>7. \A j \in DOMAIN t : /\ j < i => j \in DOMAIN s /\ t[j] = s[j]
                          /\ j >= i => j + 1 \in DOMAIN s /\ t[j] = s[j + 1]
    BY <1>1, <1>5, <1>6
<1>8. \A j \in DOMAIN s : /\ j < i => j \in DOMAIN t /\ t[j] = s[j]
                          /\ j > i => j - 1 \in DOMAIN t /\ t[j - 1] = s[j]
    BY <1>1, <1>5, <1>6
<1> QED
    BY <1>0, <1>4, <1>7, <1>8

\* In a sequence without repetitions, exactly the element removed is gone.
LEMMA RemovedUnique ==
    ASSUME NEW S, NEW s \in Seq(S), NEW i \in DOMAIN s,
           \A j, k \in DOMAIN s : s[j] = s[k] => j = k
    PROVE  /\ {Removed(s, i)[j] : j \in DOMAIN Removed(s, i)} = {s[j] : j \in DOMAIN s} \ {s[i]}
           /\ \A j, k \in DOMAIN Removed(s, i) : Removed(s, i)[j] = Removed(s, i)[k] => j = k
<1> DEFINE t == Removed(s, i)
           at(n) == IF n < i THEN n ELSE n + 1
<1>1. t \in Seq(S)
    BY RemovedFacts
<1>2. /\ \A j \in DOMAIN t : /\ j < i => j \in DOMAIN s /\ t[j] = s[j]
                             /\ j >= i => j + 1 \in DOMAIN s /\ t[j] = s[j + 1]
      /\ \A j \in DOMAIN s : /\ j < i => j \in DOMAIN t /\ t[j] = s[j]
                             /\ j > i => j - 1 \in DOMAIN t /\ t[j - 1] = s[j]
    BY RemovedFacts
<1> HIDE DEF t
<1>3. DOMAIN t \subseteq Int /\ DOMAIN s \subseteq Int /\ i \in Int
    BY <1>1
<1>4. \A j \in DOMAIN t : at(j) \in DOMAIN s /\ t[j] = s[at(j)] /\ at(j) # i
    BY <1>2, <1>3
<1>5. \A j, k \in DOMAIN t : at(j) = at(k) => j = k
    BY <1>3
<1>6. \A j \in DOMAIN s : j # i => \E k \in DOMAIN t : t[k] = s[j]
  <2> TAKE j \in DOMAIN s
  <2>1. CASE j < i
      BY <1>2, <2>1
  <2>2. CASE j > i
      BY <1>2, <2>2
  <2> QED
      BY <1>3, <2>1, <2>2
<1> HIDE DEF at
<1>7. \A j, k \in DOMAIN t : t[j] = t[k] => j = k
  <2> SUFFICES ASSUME NEW j \in DOMAIN t, NEW k \in DOMAIN t, t[j] = t[k] PROVE j = k
      OBVIOUS
  <2>1. at(j) = at(k)
      BY <1>4
  <2> QED
      BY <1>5, <2>1
<1>8. {t[j] : j \in DOMAIN t} = {s[j] : j \in DOMAIN s} \ {s[i]}
  <2>1. ASSUME NEW j \in DOMAIN t PROVE t[j] \in {s[k] : k \in DOMAIN s} \ {s[i]}
      BY <1>4
  <2>2. ASSUME NEW j \in DOMAIN s, s[j] # s[i] PROVE s[j] \in {t[k] : k \in DOMAIN t}
      BY <1>6, <2>2
  <2> QED
      BY <2>1, <2>2
<1> QED
    BY <1>7, <1>8 DEF t

USE PlayersAssumption, CellsAssumption, BoundsAssumption

-----------------------------------------------------------------------------
(* Cell states. *)

\* At most one state per cell.
Once(states) == \A i, j \in DOMAIN states : states[i].cell = states[j].cell => i = j

\* storeCellState keeps it so: the state it adds replaces the one for the cell.
LEMMA StoredFacts ==
    ASSUME NEW states \in Seq(Changes), NEW c \in Cells, NEW type \in {"LOAD", "UNLOAD"}
    PROVE  /\ Stored(states, c, type) \in Seq(Changes)
           /\ Once(states) => Once(Stored(states, c, type))
<1> DEFINE w == Without(states, c)
           e == [type |-> type, cell |-> c]
<1>1. e \in Changes /\ e.cell = c
    BY DEF Changes
<1>2. /\ w \in Seq(Changes)
      /\ Once(states) => Once(w) /\ \A i \in DOMAIN w : w[i].cell # c
  <2>1. CASE \E i \in DOMAIN states : states[i].cell = c
    <3> DEFINE k == CHOOSE i \in DOMAIN states : states[i].cell = c
    <3>1. k \in DOMAIN states /\ states[k].cell = c
        BY <2>1
    <3>2. w = Removed(states, k)
        BY <2>1 DEF Without, Removed
    <3>3. k \in Int /\ DOMAIN states \subseteq Int
        BY <3>1
    <3> HIDE DEF k, w
    <3>4. w \in Seq(Changes)
        BY <3>1, <3>2, RemovedFacts
    <3>5. \A j \in DOMAIN w : /\ j < k => j \in DOMAIN states /\ w[j] = states[j]
                              /\ j >= k => j + 1 \in DOMAIN states /\ w[j] = states[j + 1]
        BY <3>1, <3>2, RemovedFacts
    <3>6. DOMAIN w \subseteq Int
        BY <3>4
    <3>7. ASSUME Once(states) PROVE Once(w) /\ \A i \in DOMAIN w : w[i].cell # c
      <4>0. \A i, j \in DOMAIN states : states[i].cell = states[j].cell => i = j
          BY <3>7 DEF Once
      <4>1. ASSUME NEW i \in DOMAIN w PROVE w[i].cell # c
        <5>1. i \in Int
            BY <3>6
        <5>2. CASE i < k
          <6>1. i \in DOMAIN states /\ w[i] = states[i] /\ i # k
              BY <3>3, <3>5, <5>1, <5>2
          <6> QED
              BY <3>1, <4>0, <6>1
        <5>3. CASE i >= k
          <6>1. i + 1 \in DOMAIN states /\ w[i] = states[i + 1] /\ i + 1 # k
              BY <3>3, <3>5, <5>1, <5>3
          <6> QED
              BY <3>1, <4>0, <6>1
        <5> QED
            BY <3>3, <5>1, <5>2, <5>3
      <4>2. ASSUME NEW i \in DOMAIN w, NEW j \in DOMAIN w, w[i].cell = w[j].cell PROVE i = j
        <5> DEFINE at(n) == IF n < k THEN n ELSE n + 1
        <5>1. i \in Int /\ j \in Int
            BY <3>6
        <5>2. /\ at(i) \in DOMAIN states /\ w[i] = states[at(i)]
              /\ at(j) \in DOMAIN states /\ w[j] = states[at(j)]
            BY <3>3, <3>5, <5>1
        <5> HIDE DEF at
        <5>3. at(i) = at(j)
            BY <4>0, <4>2, <5>2
        <5> QED
            BY <3>3, <5>1, <5>3 DEF at
      <4> QED
          BY <4>1, <4>2 DEF Once
    <3> QED
        BY <3>4, <3>7
  <2>2. CASE ~\E i \in DOMAIN states : states[i].cell = c
      BY <2>2 DEF Without
  <2> QED
      BY <2>1, <2>2
<1> HIDE DEF w, e
<1>3. Stored(states, c, type) = Append(w, e)
    BY DEF Stored, w, e
<1>4. /\ Append(w, e) \in Seq(Changes)
      /\ DOMAIN Append(w, e) = DOMAIN w \cup {Len(w) + 1}
      /\ \A i \in DOMAIN w : Append(w, e)[i] = w[i]
      /\ Append(w, e)[Len(w) + 1] = e
    BY <1>1, <1>2, AppendFacts
<1>5. Once(states) => Once(Append(w, e))
    BY <1>1, <1>2, <1>4 DEF Once
<1> QED
    BY <1>3, <1>4, <1>5

-----------------------------------------------------------------------------
(* Types. *)

LEMMA FirstOfFacts ==
    ASSUME NEW I \in SUBSET DOMAIN cells, TypeOK, I # {}
    PROVE  FirstOf(I) \in I
<1>1. I \subseteq Nat
    BY DEF TypeOK
<1>2. \E i \in I : \A j \in I : i <= j
    BY <1>1, LeastElement
<1> QED
    BY <1>2 DEF FirstOf

LEMMA BusyFacts ==
    ASSUME TypeOK, busy # Idle
    PROVE  busy.player \in Players /\ busy.loop \in {"update", "delete"}
BY DEF TypeOK

LEMMA TakeChangeFacts ==
    ASSUME TypeOK, NEW type, TakeChange(type)
    PROVE  /\ busy # Idle /\ busy.player \in Players
           /\ Head(changes) = changes[1] /\ 1 \in DOMAIN changes
           /\ Head(changes).cell \in Cells
           /\ changes' \in Seq(Changes)
<1>1. changes \in Seq(Changes) /\ changes # <<>> /\ changes' = Tail(changes)
    BY DEF TakeChange, TypeOK
<1>2. Head(changes) = changes[1] /\ 1 \in DOMAIN changes /\ changes' \in Seq(Changes)
    BY <1>1, TailFacts
<1>3. Head(changes) \in Changes
    BY <1>1
<1>4. busy # Idle
    BY DEF TakeChange, Idle
<1> QED
    BY <1>2, <1>3, <1>4, BusyFacts DEF Changes

LEMMA AddPlayerType ==
    ASSUME TypeOK, NEW p \in Players, NEW c \in Cells, AddPlayer(p, c)
    PROVE  members' \in [Cells -> SUBSET Players] /\ held' \in [Players -> SUBSET Cells]
<1>1. members \in [Cells -> SUBSET Players] /\ held \in [Players -> SUBSET Cells]
    BY DEF TypeOK
<1>2. CASE UNCHANGED <<members, held>>
    BY <1>1, <1>2
<1>3. CASE /\ held' = [held EXCEPT ![p] = @ \cup {c}]
           /\ members' = [members EXCEPT ![c] = @ \cup {p}]
    BY <1>1, <1>3
<1> QED
    BY <1>2, <1>3 DEF AddPlayer

LEMMA RemovePlayerType ==
    ASSUME TypeOK, NEW p \in Players, NEW c \in Cells, RemovePlayer(p, c)
    PROVE  /\ members' \in [Cells -> SUBSET Players] /\ held' \in [Players -> SUBSET Cells]
           /\ emptied' \in Seq(Cells)
<1>1. Append(emptied, c) \in Seq(Cells)
    BY DEF TypeOK
<1>2. /\ members \in [Cells -> SUBSET Players] /\ held \in [Players -> SUBSET Cells]
      /\ emptied \in Seq(Cells)
    BY DEF TypeOK
<1>3. CASE UNCHANGED <<members, held>>
    BY <1>1, <1>2, <1>3 DEF RemovePlayer
<1>4. CASE /\ held' = [held EXCEPT ![p] = @ \ {c}]
           /\ members' = [members EXCEPT ![c] = @ \ {p}]
    BY <1>1, <1>2, <1>4 DEF RemovePlayer
<1> QED
    BY <1>3, <1>4 DEF RemovePlayer

\* Every variable keeps its type; in particular an index that find_if returned
\* is one of the deque.
THEOREM TypeCorrect == Spec => []TypeOK
<1>1. Init => TypeOK
    BY DEF Init, TypeOK
<1>2. TypeOK /\ [Next]_vars => TypeOK'
  <2> SUFFICES ASSUME TypeOK, [Next]_vars PROVE TypeOK'
      OBVIOUS
  <2>1. ASSUME NEW p \in Players, LogIn(p) PROVE TypeOK'
      BY <2>1 DEF LogIn, serverVars, TypeOK
  <2>2. ASSUME NEW p \in Players, NEW V \in Views, MoveTo(p, V) PROVE TypeOK'
    <3>1. V \subseteq Cells
        BY DEF Views
    <3> QED
        BY <2>2, <3>1 DEF MoveTo, serverVars, TypeOK
  <2>3. ASSUME NEW p \in Players, NEW c \in Cells, UnloadCell(p, c) PROVE TypeOK'
    <3>1. Stored(pending[p], c, "UNLOAD") \in Seq(Changes)
        BY StoredFacts DEF TypeOK
    <3> QED
        BY <2>3, <3>1 DEF UnloadCell, serverVars, TypeOK
  <2>4. ASSUME NEW p \in Players, NEW c \in Cells, LoadCell(p, c) PROVE TypeOK'
    <3>1. Stored(pending[p], c, "LOAD") \in Seq(Changes)
        BY StoredFacts DEF TypeOK
    <3> QED
        BY <2>4, <3>1 DEF LoadCell, serverVars, TypeOK
  <2>5. ASSUME NEW p \in Players, EndMove(p) PROVE TypeOK'
    <3>1. sent[p] \in Seq(Seq(Changes)) /\ pending[p] \in Seq(Changes)
        BY DEF TypeOK
    <3>2. Append(sent[p], pending[p]) \in Seq(Seq(Changes)) /\ <<>> \in Seq(Changes)
        BY <3>1
    <3>3. sent' \in [Players -> Seq(Seq(Changes))] /\ pending' \in [Players -> Seq(Changes)]
      <4>1. sent \in [Players -> Seq(Seq(Changes))] /\ pending \in [Players -> Seq(Changes)]
          BY DEF TypeOK
      <4>2. CASE online[p]
        <5>1. /\ sent' = [sent EXCEPT ![p] = Append(sent[p], pending[p])]
              /\ pending' = [pending EXCEPT ![p] = <<>>]
            BY <2>5, <4>2 DEF EndMove
        <5> QED
            BY <3>2, <4>1, <5>1
      <4>3. CASE ~online[p]
          BY <2>5, <4>1, <4>3 DEF EndMove
      <4> QED
          BY <4>2, <4>3
    <3> QED
        BY <2>5, <3>3 DEF EndMove, serverVars, TypeOK
  <2>6. ASSUME NEW p \in Players, Join(p) PROVE TypeOK'
      BY <2>6 DEF Join, clientVars, TypeOK
  <2>7. ASSUME NEW p \in Players, StartUpdate(p) PROVE TypeOK'
    <3>1. sent[p] \in Seq(Seq(Changes)) /\ sent[p] # <<>>
        BY <2>7 DEF StartUpdate, TypeOK
    <3>2. Head(sent[p]) \in Seq(Changes) /\ Tail(sent[p]) \in Seq(Seq(Changes))
        BY <3>1
    <3> QED
        BY <2>7, <3>2 DEF StartUpdate, clientVars, TypeOK
  <2>8. ASSUME NEW p \in Players, StartDelete(p) PROVE TypeOK'
    <3>1. <<>> \in Seq(Changes) /\ <<>> \in Seq(Seq(Changes))
        OBVIOUS
    <3> QED
        BY <2>8, <3>1 DEF StartDelete, TypeOK
  <2>9. ASSUME ApplyLoad PROVE TypeOK'
    <3> DEFINE c == Head(changes).cell
    <3>1. c \in Cells /\ busy.player \in Players /\ changes' \in Seq(Changes)
        BY <2>9, TakeChangeFacts DEF ApplyLoad
    <3>2. CASE AddMatches(c) = {}
      <4>1. Append(cells, c) \in Seq(Cells)
          BY <3>1 DEF TypeOK
      <4> QED
          BY <2>9, <3>1, <3>2, <4>1, AddPlayerType DEF ApplyLoad, clientVars, TypeOK
    <3>3. CASE AddMatches(c) # {}
      <4>1. FirstOf(AddMatches(c)) \in DOMAIN cells
          BY <3>3, FirstOfFacts DEF AddMatches
      <4>2. cells[FirstOf(AddMatches(c))] \in Cells
          BY <4>1 DEF TypeOK
      <4> QED
          BY <2>9, <3>1, <3>3, <4>2, AddPlayerType DEF ApplyLoad, clientVars, TypeOK
    <3> QED
        BY <3>2, <3>3
  <2>10. ASSUME ApplyUnload PROVE TypeOK'
    <3> DEFINE c == Head(changes).cell
    <3>1. c \in Cells /\ busy.player \in Players /\ changes' \in Seq(Changes)
        BY <2>10, TakeChangeFacts DEF ApplyUnload
    <3>2. CASE FindMatches(c) = {}
        BY <2>10, <3>1, <3>2 DEF ApplyUnload, clientVars, TypeOK
    <3>3. CASE FindMatches(c) # {}
      <4>1. FirstOf(FindMatches(c)) \in DOMAIN cells
          BY <3>3, FirstOfFacts DEF FindMatches
      <4>2. cells[FirstOf(FindMatches(c))] \in Cells
          BY <4>1 DEF TypeOK
      <4> QED
          BY <2>10, <3>1, <3>3, <4>2, RemovePlayerType DEF ApplyUnload, clientVars, TypeOK
    <3> QED
        BY <3>2, <3>3
  <2>11. ASSUME NEW c \in Cells, LeaveCell(c) PROVE TypeOK'
    <3>1. Append(emptied, c) \in Seq(Cells)
        BY DEF TypeOK
    <3> QED
        BY <2>11, <3>1 DEF LeaveCell, clientVars, TypeOK
  <2>12. ASSUME RemoveCell PROVE TypeOK'
    <3>1. emptied \in Seq(Cells) /\ emptied # <<>> /\ emptied' = Tail(emptied)
        BY <2>12 DEF RemoveCell, TypeOK
    <3>2. emptied' \in Seq(Cells) /\ Head(emptied) \in Cells
        BY <3>1
    <3>3. cells' = cells \/ \E i \in DOMAIN cells : cells' = Removed(cells, i)
        BY <2>12 DEF RemoveCell, Removed
    <3>4. cells' \in Seq(Cells)
        BY <3>3, RemovedFacts DEF TypeOK
    <3> QED
        BY <2>12, <3>2, <3>4 DEF RemoveCell, clientVars, TypeOK
  <2>13. ASSUME Finish PROVE TypeOK'
      BY <2>13 DEF Finish, clientVars, TypeOK
  <2>14. CASE UNCHANGED vars
      BY <2>14 DEF vars, TypeOK
  <2> QED
      BY <2>1, <2>2, <2>3, <2>4, <2>5, <2>6, <2>7, <2>8, <2>9, <2>10, <2>11, <2>12, <2>13, <2>14
         DEF Next, Server, Client
<1> QED
    BY <1>1, <1>2, PTL DEF Spec

-----------------------------------------------------------------------------
(* The tables, as far as they concern a cell that the comparisons tell from *)
(* all others.  What happens to the other cells leaves it alone.            *)

LEMMA ComparisonsTellCells ==
    ASSUME NEW c \in Apart, NEW x \in Cells
    PROVE  /\ c \in Cells
           /\ Adds(c, x) <=> x = c
           /\ Adds(x, c) <=> x = c
           /\ Finds(c, x) <=> x = c
           /\ Finds(x, c) <=> x = c
BY DEF Apart, Adds, Finds

\* Whether it is the cell of Apart that find_if found.
Is(x, h) == \A c \in Apart : x = c <=> h = c

\* find_if finds a cell that is there, itself if it is one of Apart, and it finds none
\* of Apart when it looks for another.
LEMMA CellFound ==
    ASSUME TypeOK, NEW h \in Cells
    PROVE  /\ h \in Loaded => AddMatches(h) # {} /\ FindMatches(h) # {}
           /\ AddMatches(h) # {} => cells[FirstOf(AddMatches(h))] \in Loaded /\ Is(cells[FirstOf(AddMatches(h))], h)
           /\ FindMatches(h) # {} => cells[FirstOf(FindMatches(h))] \in Loaded /\ Is(cells[FirstOf(FindMatches(h))], h)
<1>1. \A i \in DOMAIN cells : cells[i] \in Cells /\ cells[i] \in Loaded
    BY DEF TypeOK, Loaded
<1>2. h \in Loaded => AddMatches(h) # {} /\ FindMatches(h) # {}
    BY DEF AddMatches, FindMatches, Adds, Finds, Loaded
<1>3. AddMatches(h) # {} => cells[FirstOf(AddMatches(h))] \in Loaded /\ Is(cells[FirstOf(AddMatches(h))], h)
  <2> SUFFICES ASSUME AddMatches(h) # {}
               PROVE  cells[FirstOf(AddMatches(h))] \in Loaded /\ Is(cells[FirstOf(AddMatches(h))], h)
      OBVIOUS
  <2>1. FirstOf(AddMatches(h)) \in AddMatches(h)
      BY FirstOfFacts DEF AddMatches
  <2> PICK i \in DOMAIN cells : i = FirstOf(AddMatches(h)) /\ Adds(h, cells[i])
      BY <2>1 DEF AddMatches
  <2> QED
      BY <1>1, ComparisonsTellCells DEF Is
<1>4. FindMatches(h) # {} => cells[FirstOf(FindMatches(h))] \in Loaded /\ Is(cells[FirstOf(FindMatches(h))], h)
  <2> SUFFICES ASSUME FindMatches(h) # {}
               PROVE  cells[FirstOf(FindMatches(h))] \in Loaded /\ Is(cells[FirstOf(FindMatches(h))], h)
      OBVIOUS
  <2>1. FirstOf(FindMatches(h)) \in FindMatches(h)
      BY FirstOfFacts DEF FindMatches
  <2> PICK i \in DOMAIN cells : i = FirstOf(FindMatches(h)) /\ Finds(h, cells[i])
      BY <2>1 DEF FindMatches
  <2> QED
      BY <1>1, ComparisonsTellCells DEF Is
<1> QED
    BY <1>2, <1>3, <1>4

\* addCell appends the cell only when it is not there.
LEMMA LoadEffect ==
    ASSUME TypeOK, ApplyLoad
    PROVE  \E x \in Cells :
               /\ AddPlayer(busy.player, x) /\ Is(x, Head(changes).cell)
               /\ cells' = IF x \in Loaded THEN cells ELSE Append(cells, x)
<1>1. Head(changes).cell \in Cells /\ Loaded \subseteq Cells
    BY TakeChangeFacts DEF ApplyLoad, Loaded, TypeOK
<1> PICK h \in Cells : h = Head(changes).cell
    BY <1>1
<1>2. CASE AddMatches(h) = {}
  <2>1. h \notin Loaded /\ cells' = Append(cells, h) /\ AddPlayer(busy.player, h)
      BY <1>2, CellFound DEF ApplyLoad
  <2> QED
      BY <2>1 DEF Is
<1>3. CASE AddMatches(h) # {}
  <2> PICK x \in Loaded : x = cells[FirstOf(AddMatches(h))] /\ Is(x, h)
      BY <1>3, CellFound
  <2>1. cells' = cells /\ AddPlayer(busy.player, x)
      BY <1>3 DEF ApplyLoad
  <2> QED
      BY <1>1, <2>1
<1> QED
    BY <1>2, <1>3

LEMMA UnloadEffect ==
    ASSUME TypeOK, ApplyUnload
    PROVE  \/ Head(changes).cell \notin Loaded /\ UNCHANGED <<members, held, emptied>>
           \/ \E x \in Loaded : RemovePlayer(busy.player, x) /\ Is(x, Head(changes).cell)
<1> PICK h \in Cells : h = Head(changes).cell
    BY TakeChangeFacts DEF ApplyUnload
<1>1. CASE FindMatches(h) = {}
  <2>1. h \notin Loaded /\ UNCHANGED <<members, held, emptied>>
      BY <1>1, CellFound DEF ApplyUnload
  <2> QED
      BY <2>1
<1>2. CASE FindMatches(h) # {}
  <2> PICK x \in Loaded : x = cells[FirstOf(FindMatches(h))] /\ Is(x, h)
      BY <1>2, CellFound
  <2>1. RemovePlayer(busy.player, x)
      BY <1>2 DEF ApplyUnload
  <2> QED
      BY <2>1
<1> QED
    BY <1>1, <1>2

UniqueCells == \A i, j \in DOMAIN cells : cells[i] = cells[j] => i = j

\* No packet names a cell twice.
StatesOnce ==
    /\ Once(changes)
    /\ \A p \in Players : Once(pending[p]) /\ \A k \in DOMAIN sent[p] : Once(sent[p][k])

\* What is going to be deleted is not loaded again by the rest of the packet.
EmptiedDone ==
    \A i \in DOMAIN emptied : emptied[i] \in Apart => \A j \in DOMAIN changes : changes[j].cell # emptied[i]

EmptyListed == \A c \in Loaded \cap Apart : members[c] = {} => \E i \in DOMAIN emptied : emptied[i] = c

LoopInv ==
    /\ busy = Idle => changes = <<>> /\ emptied = <<>>
    /\ busy.loop = "delete" => changes = <<>> /\ busy.player \notin present
    /\ busy.loop = "update" => busy.player \in present

AbsentOut == \A p \in Players : p \notin present /\ busy.player # p => held[p] = {}

\* The inductive invariant.
TablesInv ==
    /\ UniqueCells /\ StatesOnce /\ EmptiedDone /\ EmptyListed /\ LoopInv /\ AbsentOut
    /\ PointersMutual /\ NoDanglingCells /\ DeletesEmptyCells

\* The client's steps, and the arrival of its packets, concern StatesOnce alone.
LEMMA ClientKeepsTables ==
    ASSUME TypeOK, TablesInv, NEW p \in Players, Client(p)
    PROVE  TablesInv'
<1>1. UNCHANGED serverVars
    BY DEF Client, LogIn, MoveTo, UnloadCell, LoadCell, EndMove
<1>2. StatesOnce'
  <2>1. ASSUME NEW c \in Cells, UnloadCell(p, c) \/ LoadCell(p, c) PROVE StatesOnce'
    <3>1. PICK type \in {"LOAD", "UNLOAD"} :
              /\ pending' = [pending EXCEPT ![p] = Stored(pending[p], c, type)]
              /\ UNCHANGED <<sent, changes>>
        BY <2>1 DEF UnloadCell, LoadCell, serverVars
    <3>2. Once(Stored(pending[p], c, type))
        BY StoredFacts DEF TablesInv, StatesOnce, TypeOK
    <3>3. \A q \in Players : Once(pending'[q])
        BY <3>1, <3>2 DEF TablesInv, StatesOnce, TypeOK
    <3> QED
        BY <3>1, <3>3 DEF TablesInv, StatesOnce
  <2>2. ASSUME EndMove(p) PROVE StatesOnce'
    <3>1. CASE ~online[p]
        BY <2>2, <3>1 DEF EndMove, TablesInv, StatesOnce, serverVars
    <3>2. CASE online[p]
      <4>1. /\ sent' = [sent EXCEPT ![p] = Append(sent[p], pending[p])]
            /\ pending' = [pending EXCEPT ![p] = <<>>]
            /\ UNCHANGED changes
          BY <2>2, <3>2 DEF EndMove, serverVars
      <4>2. Once(<<>>)
          BY DEF Once
      <4>3. \A q \in Players : Once(pending'[q])
          BY <4>1, <4>2 DEF TablesInv, StatesOnce, TypeOK
      <4>4. sent[p] \in Seq(Seq(Changes)) /\ pending[p] \in Seq(Changes)
          BY DEF TypeOK
      <4>5. \A k \in DOMAIN Append(sent[p], pending[p]) : Once(Append(sent[p], pending[p])[k])
          BY <4>4, AppendFacts DEF TablesInv, StatesOnce
      <4>6. \A q \in Players : \A k \in DOMAIN sent'[q] : Once(sent'[q][k])
        <5> TAKE q \in Players
        <5>1. sent'[q] = IF q = p THEN Append(sent[p], pending[p]) ELSE sent[q]
            BY <4>1 DEF TypeOK
        <5> QED
            BY <4>5, <5>1 DEF TablesInv, StatesOnce
      <4> QED
          BY <4>1, <4>3, <4>6 DEF TablesInv, StatesOnce
    <3> QED
        BY <3>1, <3>2
  <2>3. ASSUME LogIn(p) \/ \E V \in Views : MoveTo(p, V) PROVE StatesOnce'
      BY <2>3 DEF LogIn, MoveTo, serverVars, TablesInv, StatesOnce
  <2> QED
      BY <2>1, <2>2, <2>3 DEF Client
<1> QED
    BY <1>1, <1>2 DEF serverVars, TablesInv, UniqueCells, EmptiedDone, EmptyListed, LoopInv, AbsentOut,
                      PointersMutual, NoDanglingCells, DeletesEmptyCells, Loaded

\* The loops start and end.
LEMMA LoopsKeepTables ==
    ASSUME TypeOK, TablesInv, NEW p \in Players, Join(p) \/ StartUpdate(p) \/ StartDelete(p)
    PROVE  TablesInv'
<1> USE DEF TablesInv
<1>1. ASSUME Join(p) PROVE TablesInv'
  <2>1. UNCHANGED <<cells, members, held, busy, changes, emptied, pending, sent>> /\ present \subseteq present'
        /\ busy = Idle
      BY <1>1 DEF Join, clientVars
  <2>2. LoopInv' /\ AbsentOut'
      BY <2>1 DEF LoopInv, AbsentOut, Idle
  <2> QED
      BY <2>1, <2>2 DEF UniqueCells, StatesOnce, EmptiedDone, EmptyListed, PointersMutual, NoDanglingCells,
                        DeletesEmptyCells, Loaded
<1>2. ASSUME StartUpdate(p) PROVE TablesInv'
  <2>1. /\ UNCHANGED <<cells, members, held, emptied, pending, present>>
        /\ busy = Idle /\ busy' = [loop |-> "update", player |-> p] /\ p \in present
        /\ sent[p] # <<>> /\ changes' = Head(sent[p]) /\ sent' = [sent EXCEPT ![p] = Tail(sent[p])]
      BY <1>2 DEF StartUpdate, clientVars
  <2>2. sent \in [Players -> Seq(Seq(Changes))]
      BY DEF TypeOK
  <2>3. /\ Head(sent[p]) = sent[p][1] /\ 1 \in DOMAIN sent[p]
        /\ \A k \in DOMAIN Tail(sent[p]) : k + 1 \in DOMAIN sent[p] /\ Tail(sent[p])[k] = sent[p][k + 1]
      BY <2>1, <2>2, TailFacts
  <2>4. \A k \in DOMAIN Tail(sent[p]) : Once(Tail(sent[p])[k])
      BY <2>3 DEF StatesOnce
  <2>5. StatesOnce'
    <3>1. Once(changes')
        BY <2>1, <2>3 DEF StatesOnce
    <3>2. \A q \in Players : sent'[q] = IF q = p THEN Tail(sent[p]) ELSE sent[q]
        BY <2>1, <2>2
    <3> QED
        BY <2>1, <2>4, <3>1, <3>2 DEF StatesOnce
  <2>6. emptied = <<>>
      BY <2>1 DEF LoopInv
  <2>7. EmptiedDone' /\ DeletesEmptyCells'
      BY <2>1, <2>6 DEF EmptiedDone, DeletesEmptyCells
  <2>8. LoopInv' /\ AbsentOut'
      BY <2>1 DEF LoopInv, AbsentOut, Idle
  <2> QED
      BY <2>1, <2>5, <2>7, <2>8 DEF UniqueCells, EmptyListed, PointersMutual, NoDanglingCells, Loaded
<1>3. ASSUME StartDelete(p) PROVE TablesInv'
  <2>1. /\ UNCHANGED <<cells, members, held, changes, emptied>>
        /\ busy = Idle /\ busy' = [loop |-> "delete", player |-> p] /\ present' = present \ {p}
        /\ sent' = [sent EXCEPT ![p] = <<>>] /\ pending' = [pending EXCEPT ![p] = <<>>]
      BY <1>3 DEF StartDelete
  <2>2. StatesOnce'
    <3>1. Once(<<>>) /\ DOMAIN <<>> = {}
        BY DEF Once
    <3>2. \A q \in Players : /\ sent'[q] = IF q = p THEN <<>> ELSE sent[q]
                            /\ pending'[q] = IF q = p THEN <<>> ELSE pending[q]
        BY <2>1 DEF TypeOK
    <3> QED
        BY <2>1, <3>1, <3>2 DEF StatesOnce
  <2>3. LoopInv' /\ AbsentOut'
      BY <2>1 DEF LoopInv, AbsentOut, Idle
  <2> QED
      BY <2>1, <2>2, <2>3 DEF UniqueCells, EmptiedDone, EmptyListed, PointersMutual, NoDanglingCells,
                              DeletesEmptyCells, Loaded
<1> QED
    BY <1>1, <1>2, <1>3

LEMMA FinishKeepsTables ==
    ASSUME TypeOK, TablesInv, Finish
    PROVE  TablesInv'
<1> USE DEF TablesInv
<1>1. /\ UNCHANGED <<cells, members, held, changes, emptied, pending, sent, present>>
      /\ busy # Idle /\ LoopDone /\ emptied = <<>> /\ busy' = Idle
    BY DEF Finish, clientVars
<1>2. changes = <<>>
    BY <1>1, BusyFacts DEF LoopDone, LoopInv
<1>3. AbsentOut'
  <2> SUFFICES ASSUME NEW q \in Players, q \notin present PROVE held[q] = {}
      BY <1>1 DEF AbsentOut
  <2>1. CASE q = busy.player
    <3>1. busy.loop = "delete"
        BY <1>1, <2>1, BusyFacts DEF LoopInv
    <3> QED
        BY <1>1, <2>1, <3>1 DEF LoopDone
  <2> QED
      BY <2>1 DEF AbsentOut
<1>4. LoopInv'
    BY <1>1, <1>2 DEF LoopInv, Idle
<1> QED
    BY <1>1, <1>3, <1>4 DEF UniqueCells, StatesOnce, EmptiedDone, EmptyListed, PointersMutual, NoDanglingCells,
                            DeletesEmptyCells, Loaded

\* The rest of the packet after one of its states was taken.
LEMMA ChangesShrink ==
    ASSUME TypeOK, TablesInv, NEW type, TakeChange(type)
    PROVE  /\ Once(changes)' /\ busy.loop = "update"
           /\ \A j \in DOMAIN changes' : /\ changes'[j].cell # Head(changes).cell
                                         /\ \E k \in DOMAIN changes : changes'[j] = changes[k]
<1>1. changes \in Seq(Changes) /\ changes # <<>> /\ changes' = Tail(changes)
    BY DEF TakeChange, TypeOK
<1>2. /\ Head(changes) = changes[1] /\ 1 \in DOMAIN changes
      /\ \A j \in DOMAIN Tail(changes) : j + 1 \in DOMAIN changes /\ Tail(changes)[j] = changes[j + 1]
    BY <1>1, TailFacts
<1>3. DOMAIN Tail(changes) \subseteq Nat \ {0}
    BY <1>1
<1>4. \A i, j \in DOMAIN changes : changes[i].cell = changes[j].cell => i = j
    BY DEF TablesInv, StatesOnce, Once
<1>5. ASSUME NEW i \in DOMAIN Tail(changes), NEW j \in DOMAIN Tail(changes),
             Tail(changes)[i].cell = Tail(changes)[j].cell
      PROVE  i = j
  <2>1. i + 1 = j + 1
      BY <1>2, <1>4, <1>5
  <2> QED
      BY <1>3, <2>1
<1>6. ASSUME NEW j \in DOMAIN Tail(changes) PROVE Tail(changes)[j].cell # changes[1].cell
  <2>1. j + 1 # 1
      BY <1>3
  <2> QED
      BY <1>2, <1>4, <2>1
<1> QED
    BY <1>1, <1>2, <1>5, <1>6 DEF Once, TakeChange

LEMMA LoadKeepsTables ==
    ASSUME TypeOK, TypeOK', TablesInv, ApplyLoad
    PROVE  TablesInv'
<1> USE DEF TablesInv
<1> DEFINE p == busy.player
           h == Head(changes).cell
<1>1. /\ p \in Players /\ h \in Cells /\ Once(changes)' /\ busy.loop = "update"
      /\ 1 \in DOMAIN changes /\ h = changes[1].cell
      /\ \A j \in DOMAIN changes' : \E k \in DOMAIN changes : changes'[j] = changes[k]
      /\ UNCHANGED <<pending, sent, present, busy, emptied>>
    BY TakeChangeFacts, ChangesShrink DEF ApplyLoad, clientVars
<1> PICK c \in Cells : /\ cells' = IF c \in Loaded THEN cells ELSE Append(cells, c)
                       /\ AddPlayer(p, c) /\ Is(c, h)
    BY LoadEffect
<1> HIDE DEF p, h
<1>3. cells \in Seq(Cells) /\ members \in [Cells -> SUBSET Players] /\ held \in [Players -> SUBSET Cells]
    BY DEF TypeOK
<1>4. Loaded' = Loaded \cup {c} /\ UniqueCells'
  <2>1. CASE c \in Loaded
      BY <2>1 DEF Loaded, UniqueCells
  <2>2. CASE c \notin Loaded
    <3>1. cells' = Append(cells, c)
        BY <2>2
    <3>2. /\ DOMAIN cells' = DOMAIN cells \cup {Len(cells) + 1}
          /\ \A i \in DOMAIN cells : cells'[i] = cells[i]
          /\ cells'[Len(cells) + 1] = c
        BY <1>3, <3>1, AppendFacts
    <3>3. \A i \in DOMAIN cells : cells[i] # c
        BY <2>2 DEF Loaded
    <3>4. UniqueCells'
        BY <3>2, <3>3 DEF UniqueCells
    <3>5. Loaded' = Loaded \cup {c}
        BY <3>2 DEF Loaded
    <3> QED
        BY <3>4, <3>5
  <2> QED
      BY <2>1, <2>2
<1>5. /\ \A d \in Cells : members'[d] = IF d = c THEN members[c] \cup {p} ELSE members[d]
      /\ \A q \in Players : q # p => held'[q] = held[q]
      /\ \A q \in Players, d \in Apart : d \in held'[q] <=> d \in held[q] \/ (q = p /\ d = c)
  <2>1. c \in Apart => (p \in members[c] <=> c \in held[p])
      BY <1>1 DEF PointersMutual
  <2>2. CASE p \in members[c]
    <3>1. members' = members /\ held' = held
        BY <2>2 DEF AddPlayer
    <3>2. members[c] = members[c] \cup {p} /\ (c \in Apart => c \in held[p])
        BY <2>1, <2>2
    <3> QED
        BY <1>3, <3>1, <3>2
  <2>3. CASE p \notin members[c]
    <3>1. /\ held' = [held EXCEPT ![p] = held[p] \cup {c}]
          /\ members' = [members EXCEPT ![c] = members[c] \cup {p}]
        BY <2>3 DEF AddPlayer
    <3> QED
        BY <1>1, <1>3, <3>1
  <2> QED
      BY <2>2, <2>3
<1>6. Apart \subseteq Cells /\ \A i \in DOMAIN emptied : emptied[i] \in Apart => emptied[i] # c
    BY <1>1 DEF EmptiedDone, Is, Apart
<1>7. PointersMutual' /\ NoDanglingCells'
  <2>1. PointersMutual'
      BY <1>1, <1>5, <1>6 DEF PointersMutual
  <2>2. NoDanglingCells'
      BY <1>4, <1>5 DEF NoDanglingCells
  <2> QED
      BY <2>1, <2>2
<1>8. DeletesEmptyCells' /\ EmptyListed'
  <2>1. DeletesEmptyCells'
      BY <1>1, <1>4, <1>5, <1>6 DEF DeletesEmptyCells
  <2>2. ASSUME NEW d \in Loaded' \cap Apart, members'[d] = {} PROVE \E i \in DOMAIN emptied : emptied[i] = d
    <3>1. d \in Cells
        BY <1>6
    <3>2. d # c /\ members[d] = {} /\ d \in Loaded \cap Apart
        BY <1>4, <1>5, <2>2, <3>1
    <3> QED
        BY <3>2 DEF EmptyListed
  <2> QED
      BY <1>1, <2>1, <2>2 DEF EmptyListed
<1>9. EmptiedDone' /\ StatesOnce'
  <2>1. EmptiedDone'
      BY <1>1 DEF EmptiedDone
  <2>2. StatesOnce'
      BY <1>1 DEF StatesOnce
  <2> QED
      BY <2>1, <2>2
<1>10. LoopInv' /\ AbsentOut'
  <2>1. LoopInv'
      BY <1>1 DEF LoopInv, Idle
  <2>2. AbsentOut'
      BY <1>1, <1>5 DEF AbsentOut, p
  <2> QED
      BY <2>1, <2>2
<1> QED
    BY <1>4, <1>7, <1>8, <1>9, <1>10

\* Cell::removePlayer, in both loops: the cell is put on the list when, and only
\* when, it has become empty.
LEMMA RemovalKeepsTables ==
    ASSUME TypeOK, TablesInv, NEW p \in Players, NEW c \in held[p] \cap Apart,
           held' = [held EXCEPT ![p] = @ \ {c}],
           members' = [members EXCEPT ![c] = @ \ {p}],
           emptied' = IF members'[c] = {} THEN Append(emptied, c) ELSE emptied,
           cells' = cells,
           \A j \in DOMAIN changes' : /\ changes'[j].cell # c
                                      /\ \E k \in DOMAIN changes : changes'[j] = changes[k]
    PROVE  EmptiedDone' /\ EmptyListed' /\ PointersMutual' /\ NoDanglingCells' /\ DeletesEmptyCells'
<1> USE DEF TablesInv
<1>1. /\ cells \in Seq(Cells) /\ members \in [Cells -> SUBSET Players] /\ held \in [Players -> SUBSET Cells]
      /\ emptied \in Seq(Cells)
    BY DEF TypeOK
<1>2. c \in Cells /\ p \in members[c] /\ c \in Loaded
    BY <1>1 DEF PointersMutual, NoDanglingCells
<1>3. /\ \A d \in Cells : members'[d] = IF d = c THEN members[c] \ {p} ELSE members[d]
      /\ \A q \in Players : held'[q] = IF q = p THEN held[p] \ {c} ELSE held[q]
    BY <1>1, <1>2
<1>4. \A i \in DOMAIN emptied : emptied[i] # c /\ emptied[i] \in Cells
    BY <1>1, <1>2 DEF DeletesEmptyCells
<1>5. Loaded' = Loaded /\ Loaded \subseteq Cells
    BY <1>1 DEF Loaded
<1>6. PointersMutual' /\ NoDanglingCells'
    BY <1>2, <1>3, <1>5 DEF PointersMutual, NoDanglingCells
<1>7. CASE members'[c] = {}
  <2>1. emptied' = Append(emptied, c)
      BY <1>7
  <2>2. /\ DOMAIN emptied' = DOMAIN emptied \cup {Len(emptied) + 1}
        /\ \A i \in DOMAIN emptied : emptied'[i] = emptied[i]
        /\ emptied'[Len(emptied) + 1] = c
      BY <1>1, <1>2, <2>1, AppendFacts
  <2>3. EmptiedDone'
      BY <2>2 DEF EmptiedDone
  <2>4. ASSUME NEW d \in Loaded' \cap Apart, members'[d] = {} PROVE \E i \in DOMAIN emptied' : emptied'[i] = d
    <3>1. CASE d = c
        BY <2>2, <3>1
    <3>2. CASE d # c
      <4>1. d \in Loaded \cap Apart /\ members[d] = {}
          BY <1>3, <1>5, <2>4, <3>2
      <4> QED
          BY <2>2, <4>1 DEF EmptyListed
    <3> QED
        BY <3>1, <3>2
  <2>5. DeletesEmptyCells'
    <3>1. ASSUME NEW i \in DOMAIN emptied', emptied'[i] \in Apart
          PROVE  /\ emptied'[i] \in Loaded' /\ members'[emptied'[i]] = {}
                 /\ \A j \in DOMAIN emptied' : emptied'[i] = emptied'[j] => i = j
      <4>1. CASE i \in DOMAIN emptied
        <5>1. emptied'[i] = emptied[i] /\ emptied[i] # c /\ emptied[i] \in Cells
            BY <1>4, <2>2, <4>1
        <5> QED
            BY <1>3, <1>5, <2>2, <3>1, <4>1, <5>1 DEF DeletesEmptyCells
      <4>2. CASE i = Len(emptied) + 1
          BY <1>2, <1>4, <1>5, <1>7, <2>2, <4>2
      <4> QED
          BY <2>2, <4>1, <4>2
    <3> QED
        BY <3>1 DEF DeletesEmptyCells
  <2>6. EmptyListed'
      BY <2>4 DEF EmptyListed
  <2> QED
      BY <1>6, <2>3, <2>5, <2>6
<1>8. CASE members'[c] # {}
  <2>1. emptied' = emptied
      BY <1>8
  <2>2. EmptiedDone'
      BY <2>1 DEF EmptiedDone
  <2>3. ASSUME NEW d \in Loaded' \cap Apart, members'[d] = {} PROVE \E i \in DOMAIN emptied : emptied[i] = d
    <3>1. d \in Loaded \cap Apart /\ members[d] = {}
        BY <1>3, <1>5, <1>8, <2>3
    <3> QED
        BY <3>1 DEF EmptyListed
  <2>4. EmptyListed'
      BY <2>1, <2>3 DEF EmptyListed
  <2>5. DeletesEmptyCells'
      BY <1>3, <1>4, <1>5, <2>1 DEF DeletesEmptyCells
  <2> QED
      BY <1>6, <2>2, <2>4, <2>5
<1> QED
    BY <1>7, <1>8

\* The same of another cell.
LEMMA OtherKeepsTables ==
    ASSUME TypeOK, TablesInv, NEW p \in Players, NEW c \in Cells \ Apart,
           held' \in {held, [held EXCEPT ![p] = @ \ {c}]},
           members' \in {members, [members EXCEPT ![c] = @ \ {p}]},
           emptied' \in {emptied, Append(emptied, c)},
           cells' = cells,
           \A j \in DOMAIN changes' : \E k \in DOMAIN changes : changes'[j] = changes[k]
    PROVE  EmptiedDone' /\ EmptyListed' /\ PointersMutual' /\ NoDanglingCells' /\ DeletesEmptyCells'
<1> USE DEF TablesInv
<1>1. /\ members \in [Cells -> SUBSET Players] /\ held \in [Players -> SUBSET Cells]
      /\ emptied \in Seq(Cells)
    BY DEF TypeOK
<1>2. /\ Apart \subseteq Cells /\ \A d \in Apart : members'[d] = members[d]
      /\ \A q \in Players, d \in Apart : d \in held'[q] <=> d \in held[q]
    BY <1>1 DEF Apart
<1>3. Loaded' = Loaded
    BY DEF Loaded
<1>4. PointersMutual' /\ NoDanglingCells'
  <2>1. PointersMutual'
      BY <1>2 DEF PointersMutual
  <2>2. NoDanglingCells'
      BY <1>2, <1>3 DEF NoDanglingCells
  <2> QED
      BY <2>1, <2>2
<1>5. /\ DOMAIN emptied \subseteq DOMAIN emptied'
      /\ \A i \in DOMAIN emptied : emptied'[i] = emptied[i]
      /\ \A i \in DOMAIN emptied' : emptied'[i] \in Apart => i \in DOMAIN emptied
  <2>1. CASE emptied' = emptied
      BY <2>1
  <2>2. CASE emptied' = Append(emptied, c)
    <3>1. /\ DOMAIN Append(emptied, c) = DOMAIN emptied \cup {Len(emptied) + 1}
          /\ \A i \in DOMAIN emptied : Append(emptied, c)[i] = emptied[i]
          /\ Append(emptied, c)[Len(emptied) + 1] = c
        BY <1>1, AppendFacts
    <3> QED
        BY <2>2, <3>1
  <2> QED
      BY <2>1, <2>2
<1>6. EmptiedDone'
    BY <1>5 DEF EmptiedDone
<1>7. EmptyListed'
    BY <1>2, <1>3, <1>5 DEF EmptyListed
<1>8. DeletesEmptyCells'
  <2> SUFFICES ASSUME NEW i \in DOMAIN emptied', emptied'[i] \in Apart
               PROVE  /\ emptied'[i] \in Loaded' /\ members'[emptied'[i]] = {}
                      /\ \A j \in DOMAIN emptied' : emptied'[i] = emptied'[j] => i = j
      BY DEF DeletesEmptyCells
  <2>1. i \in DOMAIN emptied /\ emptied'[i] = emptied[i]
      BY <1>5
  <2>2. emptied[i] \in Loaded /\ members[emptied[i]] = {}
      BY <2>1 DEF DeletesEmptyCells
  <2>3. ASSUME NEW j \in DOMAIN emptied', emptied'[i] = emptied'[j] PROVE i = j
    <3>1. j \in DOMAIN emptied /\ emptied[i] = emptied[j]
        BY <1>5, <2>1, <2>3
    <3> QED
        BY <2>1, <3>1 DEF DeletesEmptyCells
  <2> QED
      BY <1>2, <1>3, <2>1, <2>2, <2>3
<1> QED
    BY <1>4, <1>6, <1>7, <1>8

LEMMA UnloadKeepsTables ==
    ASSUME TypeOK, TablesInv, ApplyUnload
    PROVE  TablesInv'
<1> USE DEF TablesInv
<1> DEFINE p == busy.player
           h == Head(changes).cell
<1>1. /\ p \in Players /\ h \in Cells /\ Once(changes)' /\ busy.loop = "update"
      /\ 1 \in DOMAIN changes /\ h = changes[1].cell
      /\ \A j \in DOMAIN changes' : /\ changes'[j].cell # h
                                    /\ \E k \in DOMAIN changes : changes'[j] = changes[k]
      /\ UNCHANGED <<pending, sent, present, busy, cells>>
    BY TakeChangeFacts, ChangesShrink DEF ApplyUnload, clientVars
<1>2. \/ h \notin Loaded /\ UNCHANGED <<members, held, emptied>>
      \/ \E x \in Loaded : RemovePlayer(p, x) /\ Is(x, h)
    BY UnloadEffect
<1>3. held \in [Players -> SUBSET Cells] /\ present \subseteq Players /\ Loaded \subseteq Cells
    BY DEF TypeOK, Loaded
<1>4. p \in present
    BY <1>1 DEF LoopInv
<1> HIDE DEF h, p
<1>5. UniqueCells' /\ StatesOnce'
    BY <1>1 DEF UniqueCells, StatesOnce
<1>6. LoopInv'
    BY <1>1 DEF LoopInv, Idle
<1>7. AbsentOut' /\ EmptiedDone' /\ EmptyListed' /\ PointersMutual' /\ NoDanglingCells' /\ DeletesEmptyCells'
  <2>1. CASE UNCHANGED <<members, held, emptied>>
    <3>1. EmptiedDone' /\ EmptyListed' /\ DeletesEmptyCells'
        BY <1>1, <2>1 DEF EmptiedDone, EmptyListed, DeletesEmptyCells, Loaded
    <3>2. AbsentOut' /\ PointersMutual' /\ NoDanglingCells'
        BY <1>1, <2>1 DEF AbsentOut, PointersMutual, NoDanglingCells, Loaded
    <3> QED
        BY <3>1, <3>2
  <2>2. ASSUME NEW x \in Loaded, RemovePlayer(p, x), Is(x, h), ~UNCHANGED <<members, held, emptied>>
        PROVE  /\ AbsentOut' /\ EmptiedDone' /\ EmptyListed'
               /\ PointersMutual' /\ NoDanglingCells' /\ DeletesEmptyCells'
    <3>1. held' \in {held, [held EXCEPT ![p] = @ \ {x}]} /\ members' \in {members, [members EXCEPT ![x] = @ \ {p}]}
        BY <2>2 DEF RemovePlayer
    <3>2. emptied' \in {emptied, Append(emptied, x)}
        BY <2>2 DEF RemovePlayer
    <3>3. AbsentOut'
      <4>1. \A q \in Players : q # p => held'[q] = held[q]
          BY <1>3, <3>1
      <4> QED
          BY <1>1, <1>4, <4>1 DEF AbsentOut
    <3>4. CASE x \notin Apart
      <4>1. x \in Cells \ Apart
          BY <1>3, <3>4
      <4> QED
          BY <1>1, <3>1, <3>2, <3>3, <4>1, OtherKeepsTables
    <3>5. CASE x \in Apart
      <4>1. x = h
          BY <2>2, <3>5 DEF Is
      <4>2. p \in members[x]
        <5>1. ASSUME p \notin members[x] PROVE FALSE
          <6>1. UNCHANGED <<members, held>> /\ members[x] = {}
              BY <2>2, <5>1 DEF RemovePlayer
          <6> QED
              BY <1>1, <3>5, <4>1, <6>1 DEF EmptyListed, EmptiedDone
        <5> QED
            BY <5>1
      <4>3. x \in held[p] \cap Apart
          BY <1>1, <3>5, <4>2 DEF PointersMutual
      <4>4. /\ held' = [held EXCEPT ![p] = @ \ {x}]
            /\ members' = [members EXCEPT ![x] = @ \ {p}]
            /\ emptied' = IF members'[x] = {} THEN Append(emptied, x) ELSE emptied
          BY <2>2, <4>2 DEF RemovePlayer
      <4>5. \A j \in DOMAIN changes' : /\ changes'[j].cell # x
                                      /\ \E k \in DOMAIN changes : changes'[j] = changes[k]
          BY <1>1, <4>1
      <4>6. p \in Players /\ cells' = cells
          BY <1>1
      <4>7. EmptiedDone' /\ EmptyListed' /\ PointersMutual' /\ NoDanglingCells' /\ DeletesEmptyCells'
          BY ONLY TypeOK, TablesInv, <4>3, <4>4, <4>5, <4>6, RemovalKeepsTables
      <4> QED
          BY <3>3, <4>7
    <3> QED
        BY <3>4, <3>5
  <2> QED
      BY <1>2, <2>1, <2>2
<1> QED
    BY <1>5, <1>6, <1>7

LEMMA LeaveKeepsTables ==
    ASSUME TypeOK, TablesInv, NEW c \in Cells, LeaveCell(c)
    PROVE  TablesInv'
<1> USE DEF TablesInv
<1> DEFINE p == busy.player
<1>1. /\ busy.loop = "delete" /\ c \in held[p]
      /\ held' = [held EXCEPT ![p] = @ \ {c}]
      /\ members' = [members EXCEPT ![c] = @ \ {p}]
      /\ emptied' = IF members'[c] = {} THEN Append(emptied, c) ELSE emptied
      /\ UNCHANGED <<pending, sent, present, cells, busy, changes>>
    BY DEF LeaveCell, clientVars
<1>2. p \in Players
    BY <1>1, BusyFacts DEF Idle
<1>3. changes = <<>> /\ DOMAIN changes = {}
    BY <1>1 DEF LoopInv
<1>4. held \in [Players -> SUBSET Cells]
    BY DEF TypeOK
<1>5. UniqueCells' /\ StatesOnce'
    BY <1>1 DEF UniqueCells, StatesOnce
<1>6. LoopInv'
    BY <1>1 DEF LoopInv, Idle
<1>7. AbsentOut'
    BY <1>1, <1>4 DEF AbsentOut
<1> HIDE DEF p
<1>8. EmptiedDone' /\ EmptyListed' /\ PointersMutual' /\ NoDanglingCells' /\ DeletesEmptyCells'
  <2>1. CASE c \in Apart
      BY <1>1, <1>2, <1>3, <2>1, RemovalKeepsTables
  <2>2. CASE c \notin Apart
    <3>1. emptied' \in {emptied, Append(emptied, c)}
        BY <1>1
    <3> QED
        BY <1>1, <1>2, <1>3, <2>2, <3>1, OtherKeepsTables
  <2> QED
      BY <2>1, <2>2
<1> QED
    BY <1>5, <1>6, <1>7, <1>8

\* removeCell frees a cell nobody points at.
LEMMA RemoveKeepsTables ==
    ASSUME TypeOK, TablesInv, RemoveCell
    PROVE  TablesInv'
<1> USE DEF TablesInv
<1> DEFINE c == Head(emptied)
<1>1. /\ busy # Idle /\ emptied \in Seq(Cells) /\ emptied # <<>> /\ emptied' = Tail(emptied)
      /\ members' = [members EXCEPT ![c] = {}]
      /\ UNCHANGED <<pending, sent, present, held, busy, changes>>
    BY DEF RemoveCell, clientVars, TypeOK
<1>2. /\ c = emptied[1] /\ 1 \in DOMAIN emptied
      /\ \A j \in DOMAIN emptied' : j + 1 \in DOMAIN emptied /\ emptied'[j] = emptied[j + 1]
      /\ \A j \in DOMAIN emptied : j = 1 \/ j - 1 \in DOMAIN emptied'
    BY <1>1, TailFacts
<1>3. DOMAIN emptied' \subseteq Nat \ {0} /\ DOMAIN emptied \subseteq Nat \ {0}
    BY <1>1, <1>2
<1>4. c \in Cells /\ (c \in Apart => c \in Loaded /\ members[c] = {})
    BY <1>1, <1>2 DEF DeletesEmptyCells
<1> HIDE DEF c
<1>5. members \in [Cells -> SUBSET Players] /\ held \in [Players -> SUBSET Cells] /\ cells \in Seq(Cells)
    BY DEF TypeOK
<1>6. Apart \subseteq Cells /\ \A d \in Apart : members'[d] = members[d]
    BY <1>1, <1>4, <1>5 DEF Apart
<1>7. ASSUME c \notin Loaded PROVE cells' = cells
    BY <1>7 DEF RemoveCell, c
<1>8. Loaded' = Loaded \ {c} /\ UniqueCells'
  <2>0. CASE c \notin Loaded
      BY <1>7, <2>0 DEF Loaded, UniqueCells
  <2>10. ASSUME c \in Loaded PROVE \E i \in DOMAIN cells : cells[i] = c /\ cells' = Removed(cells, i)
      BY <2>10 DEF RemoveCell, Removed, c
  <2>1. ASSUME NEW i \in DOMAIN cells, cells[i] = c, cells' = Removed(cells, i)
        PROVE  Loaded' = Loaded \ {c} /\ UniqueCells'
    <3>1. \A j, k \in DOMAIN cells : cells[j] = cells[k] => j = k
        BY DEF UniqueCells
    <3> DEFINE t == Removed(cells, i)
    <3>2. /\ {t[j] : j \in DOMAIN t} = {cells[j] : j \in DOMAIN cells} \ {cells[i]}
          /\ \A j, k \in DOMAIN t : t[j] = t[k] => j = k
        BY ONLY <1>5, <2>1, <3>1, RemovedUnique
    <3>3. cells' = t
        BY <2>1
    <3> HIDE DEF t
    <3> QED
        BY <2>1, <3>2, <3>3 DEF UniqueCells, Loaded
  <2> QED
      BY <2>0, <2>10, <2>1
<1>9. NoDanglingCells' /\ PointersMutual'
  <2>1. \A q \in Players : c \in Apart => c \notin held[q]
      BY <1>4 DEF PointersMutual
  <2>2. NoDanglingCells'
      BY <1>1, <1>8, <2>1 DEF NoDanglingCells
  <2>3. PointersMutual'
      BY <1>1, <1>6 DEF PointersMutual
  <2> QED
      BY <2>2, <2>3
<1>10. DeletesEmptyCells'
  <2>1. ASSUME NEW j \in DOMAIN emptied', emptied'[j] \in Apart
        PROVE  /\ emptied'[j] \in Loaded' /\ members'[emptied'[j]] = {}
               /\ \A k \in DOMAIN emptied' : emptied'[j] = emptied'[k] => j = k
    <3>1. j + 1 \in DOMAIN emptied /\ emptied'[j] = emptied[j + 1] /\ j + 1 # 1
        BY <1>2, <1>3
    <3>2. emptied[j + 1] # c
        BY <1>2, <2>1, <3>1 DEF DeletesEmptyCells
    <3>3. emptied'[j] \in Loaded' /\ members'[emptied'[j]] = {}
        BY <1>6, <1>8, <2>1, <3>1, <3>2 DEF DeletesEmptyCells
    <3>4. ASSUME NEW k \in DOMAIN emptied', emptied'[j] = emptied'[k] PROVE j = k
      <4>1. k + 1 \in DOMAIN emptied /\ emptied'[k] = emptied[k + 1]
          BY <1>2
      <4>2. j + 1 = k + 1
          BY <2>1, <3>1, <3>4, <4>1 DEF DeletesEmptyCells
      <4> QED
          BY <1>3, <4>2
    <3> QED
        BY <3>3, <3>4
  <2> QED
      BY <2>1 DEF DeletesEmptyCells
<1>11. EmptyListed'
  <2>1. ASSUME NEW d \in Loaded' \cap Apart, members'[d] = {} PROVE \E j \in DOMAIN emptied' : emptied'[j] = d
    <3>1. d \in Loaded \cap Apart /\ d # c /\ members[d] = {}
        BY <1>6, <1>8, <2>1
    <3>2. PICK j \in DOMAIN emptied : emptied[j] = d
        BY <3>1 DEF EmptyListed
    <3>3. j # 1
        BY <1>2, <3>1, <3>2
    <3>4. j - 1 \in DOMAIN emptied'
        BY <1>2, <3>3
    <3>5. emptied'[j - 1] = emptied[(j - 1) + 1] /\ (j - 1) + 1 = j
        BY <1>2, <1>3, <3>4
    <3> QED
        BY <3>2, <3>4, <3>5
  <2> QED
      BY <2>1 DEF EmptyListed
<1>12. EmptiedDone' /\ StatesOnce'
  <2>1. EmptiedDone'
      BY <1>1, <1>2 DEF EmptiedDone
  <2>2. StatesOnce'
      BY <1>1 DEF StatesOnce
  <2> QED
      BY <2>1, <2>2
<1>13. LoopInv' /\ AbsentOut'
  <2>1. LoopInv'
      BY <1>1 DEF LoopInv
  <2>2. AbsentOut'
      BY <1>1 DEF AbsentOut
  <2> QED
      BY <2>1, <2>2
<1> QED
    BY <1>8, <1>9, <1>10, <1>11, <1>12, <1>13

\* The two tables of cells, the packet being applied and the list of cells to be
\* deleted fit together, between any two iterations of the loops.
THEOREM TablesInvariant == Spec => []TablesInv
<1>1. Init => TablesInv
  <2>1. DOMAIN <<>> = {}
      OBVIOUS
  <2>2. \A p \in Players : Nobody # p
      OBVIOUS
  <2>3. Init => UniqueCells /\ StatesOnce /\ LoopInv /\ AbsentOut
      BY <2>1, <2>2 DEF Init, Idle, UniqueCells, StatesOnce, Once, LoopInv, AbsentOut
  <2>4. Init => EmptiedDone /\ EmptyListed /\ DeletesEmptyCells
      BY <2>1 DEF Init, EmptiedDone, EmptyListed, DeletesEmptyCells, Loaded
  <2>5. Init => PointersMutual /\ NoDanglingCells
    <3>1. \A c \in Apart : c \in Cells
        BY DEF Apart
    <3> QED
        BY <3>1 DEF Init, PointersMutual, NoDanglingCells
  <2> QED
      BY <2>3, <2>4, <2>5 DEF TablesInv
<1>2. TypeOK /\ TypeOK' /\ TablesInv /\ [Next]_vars => TablesInv'
  <2> SUFFICES ASSUME TypeOK, TypeOK', TablesInv, [Next]_vars PROVE TablesInv'
      OBVIOUS
  <2>1. CASE Server
    <3>1. CASE \E p \in Players : Join(p) \/ StartUpdate(p) \/ StartDelete(p)
        BY <3>1, LoopsKeepTables
    <3>2. CASE ApplyLoad
        BY <3>2, LoadKeepsTables
    <3>3. CASE ApplyUnload
        BY <3>3, UnloadKeepsTables
    <3>4. CASE \E c \in Cells : LeaveCell(c)
        BY <3>4, LeaveKeepsTables
    <3>5. CASE RemoveCell
        BY <3>5, RemoveKeepsTables
    <3>6. CASE Finish
        BY <3>6, FinishKeepsTables
    <3> QED
        BY <2>1, <3>1, <3>2, <3>3, <3>4, <3>5, <3>6 DEF Server
  <2>2. CASE \E p \in Players : Client(p)
      BY <2>2, ClientKeepsTables
  <2>3. CASE UNCHANGED vars
      BY <2>3 DEF vars, TablesInv, UniqueCells, StatesOnce, Once, EmptiedDone, EmptyListed, LoopInv, AbsentOut,
                  PointersMutual, NoDanglingCells, DeletesEmptyCells, Loaded
  <2> QED
      BY <2>1, <2>2, <2>3 DEF Next
<1> QED
    BY <1>1, <1>2, TypeCorrect, PTL DEF Spec

-----------------------------------------------------------------------------
(* The properties. *)

\* Player and Cell point at each other or not at all, between any two iterations
\* of CellController::update and deletePlayer.
THEOREM PointersStayMutual == Spec => []PointersMutual
<1>1. TablesInv => PointersMutual
    BY DEF TablesInv
<1> QED
    BY <1>1, TablesInvariant, PTL

\* No player is left with a pointer to a Cell that removeCell has freed.
THEOREM CellsNeverDangle == Spec => []NoDanglingCells
<1>1. TablesInv => NoDanglingCells
    BY DEF TablesInv
<1> QED
    BY <1>1, TablesInvariant, PTL

\* removeCell deletes a cell once, and only when nobody has it loaded.
THEOREM OnlyEmptyDeleted == Spec => []DeletesEmptyCells
<1>1. TablesInv => DeletesEmptyCells
    BY DEF TablesInv
<1> QED
    BY <1>1, TablesInvariant, PTL

\* Whenever the server has finished with a packet or a departure, each of its
\* cells has a player in it, and only players with a session.
THEOREM EmptyCellsDeleted == Spec => []CellsInUse
<1>1. TypeOK /\ TablesInv => CellsInUse
  <2> SUFFICES ASSUME TypeOK, TablesInv, busy = Idle, NEW c \in Loaded \cap Apart
               PROVE  members[c] # {} /\ members[c] \subseteq present
      BY DEF CellsInUse
  <2>1. c \in Cells /\ members[c] \subseteq Players
      BY DEF Loaded, TypeOK
  <2>2. DOMAIN emptied = {}
      BY DEF TablesInv, LoopInv
  <2>3. members[c] # {}
      BY <2>2 DEF TablesInv, EmptyListed
  <2>4. ASSUME NEW p \in members[c] PROVE p \in present
    <3>1. p \in Players /\ c \in held[p]
        BY <2>1 DEF TablesInv, PointersMutual
    <3>2. busy.player # p
        BY <3>1 DEF Idle
    <3> QED
        BY <3>1, <3>2 DEF TablesInv, AbsentOut
  <2> QED
      BY <2>3, <2>4
<1> QED
    BY <1>1, TypeCorrect, TablesInvariant, PTL

-----------------------------------------------------------------------------
(* What is on its way from a client to the tables. *)

Mentions(states, c) == \E i \in DOMAIN states : states[i].cell = c
Loads(states, c) == \E i \in DOMAIN states : states[i].cell = c /\ states[i].type = "LOAD"

\* The last that the server has heard, or will hear, of p and c is what the scene of p
\* has: it is stored, or else in the last packet that mentions c, or else in the rest of
\* the packet that is being applied, or else in the tables.
Agree(p, c) ==
    /\ Mentions(pending[p], c) => (Loads(pending[p], c) <=> c \in view[p])
    /\ ~Mentions(pending[p], c) =>
           /\ \A k \in DOMAIN sent[p] :
                  Mentions(sent[p][k], c) /\ (\A j \in DOMAIN sent[p] : j > k => ~Mentions(sent[p][j], c))
                      => (Loads(sent[p][k], c) <=> c \in view[p])
           /\ (\A k \in DOMAIN sent[p] : ~Mentions(sent[p][k], c)) =>
                  IF busy.player = p /\ Mentions(changes, c)
                  THEN Loads(changes, c) <=> c \in view[p]
                  ELSE c \in held[p] <=> c \in view[p]

Leaving(p) == busy.loop = "delete" /\ busy.player = p

AgreeInv == \A p \in Players, c \in Apart : Leaving(p) \/ Agree(p, c)

\* A client without a session has nothing loaded, and nothing is on its way.
AbsentAlone ==
    \A p \in Players : p \notin present =>
        view[p] = {} /\ target[p] = {} /\ ~moving[p] /\ pending[p] = <<>> /\ sent[p] = <<>>

\* storeCellState has the last word on its cell, and says nothing of the others.
LEMMA StoredWords ==
    ASSUME NEW states \in Seq(Changes), NEW c \in Cells, NEW type \in {"LOAD", "UNLOAD"}, Once(states), NEW d \in Cells
    PROVE  /\ d = c => /\ Mentions(Stored(states, c, type), d)
                       /\ Loads(Stored(states, c, type), d) <=> type = "LOAD"
           /\ d # c => /\ Mentions(Stored(states, c, type), d) <=> Mentions(states, d)
                       /\ Loads(Stored(states, c, type), d) <=> Loads(states, d)
<1> DEFINE w == Without(states, c)
           e == [type |-> type, cell |-> c]
<1>1. e \in Changes /\ e.cell = c /\ e.type = type
    BY DEF Changes
<1>2. /\ w \in Seq(Changes)
      /\ d # c => /\ Mentions(w, d) <=> Mentions(states, d)
                  /\ Loads(w, d) <=> Loads(states, d)
  <2>1. CASE \E i \in DOMAIN states : states[i].cell = c
    <3> DEFINE k == CHOOSE i \in DOMAIN states : states[i].cell = c
    <3>1. k \in DOMAIN states /\ states[k].cell = c
        BY <2>1
    <3>2. w = Removed(states, k)
        BY <2>1 DEF Without, Removed
    <3>3. DOMAIN states \subseteq Int
        OBVIOUS
    <3> HIDE DEF k, w
    <3>4. /\ w \in Seq(Changes)
          /\ \A j \in DOMAIN w : /\ j < k => j \in DOMAIN states /\ w[j] = states[j]
                                 /\ j >= k => j + 1 \in DOMAIN states /\ w[j] = states[j + 1]
          /\ \A j \in DOMAIN states : /\ j < k => j \in DOMAIN w /\ w[j] = states[j]
                                      /\ j > k => j - 1 \in DOMAIN w /\ w[j - 1] = states[j]
        BY <3>1, <3>2, RemovedFacts
    <3>5. DOMAIN w \subseteq Int
        BY <3>4
    <3>6. \A j \in DOMAIN w : \E i \in DOMAIN states : w[j] = states[i]
        BY <3>1, <3>3, <3>4, <3>5
    <3>7. \A j \in DOMAIN states : j # k => \E i \in DOMAIN w : states[j] = w[i]
        BY <3>1, <3>3, <3>4
    <3>8. d # c => (Mentions(w, d) <=> Mentions(states, d))
        BY <3>1, <3>6, <3>7 DEF Mentions
    <3>9. d # c => (Loads(w, d) <=> Loads(states, d))
        BY <3>1, <3>6, <3>7 DEF Loads
    <3> QED
        BY <3>4, <3>8, <3>9
  <2>2. CASE ~\E i \in DOMAIN states : states[i].cell = c
      BY <2>2 DEF Without
  <2> QED
      BY <2>1, <2>2
<1> HIDE DEF w, e
<1>3. Stored(states, c, type) = Append(w, e)
    BY DEF Stored, w, e
<1>4. /\ DOMAIN Append(w, e) = DOMAIN w \cup {Len(w) + 1}
      /\ \A i \in DOMAIN w : Append(w, e)[i] = w[i]
      /\ Append(w, e)[Len(w) + 1] = e
    BY <1>1, <1>2, AppendFacts
<1>5. Once(Append(w, e))
    BY <1>3, StoredFacts
<1>6. d = c => /\ Mentions(Append(w, e), d)
               /\ Loads(Append(w, e), d) <=> type = "LOAD"
    BY <1>1, <1>4, <1>5 DEF Mentions, Loads, Once
<1>7. d # c => /\ Mentions(Append(w, e), d) <=> Mentions(w, d)
               /\ Loads(Append(w, e), d) <=> Loads(w, d)
    BY <1>1, <1>4 DEF Mentions, Loads
<1> QED
    BY <1>2, <1>3, <1>6, <1>7

\* What is left of the packet after one of its states was taken.
LEMMA TakenWords ==
    ASSUME TypeOK, TablesInv, NEW type, TakeChange(type), NEW d \in Cells
    PROVE  /\ d = Head(changes).cell => /\ Mentions(changes, d) /\ (Loads(changes, d) <=> type = "LOAD")
                                        /\ ~Mentions(changes, d)'
           /\ d # Head(changes).cell => /\ Mentions(changes, d)' <=> Mentions(changes, d)
                                        /\ Loads(changes, d)' <=> Loads(changes, d)
<1>1. changes \in Seq(Changes) /\ changes # <<>> /\ changes' = Tail(changes) /\ Head(changes).type = type
    BY DEF TakeChange, TypeOK
<1>2. /\ Head(changes) = changes[1] /\ 1 \in DOMAIN changes
      /\ \A j \in DOMAIN Tail(changes) : j + 1 \in DOMAIN changes /\ Tail(changes)[j] = changes[j + 1]
      /\ \A j \in DOMAIN changes : j # 1 => j - 1 \in DOMAIN Tail(changes) /\ Tail(changes)[j - 1] = changes[j]
    BY <1>1, TailFacts
<1>3. \A i, j \in DOMAIN changes : changes[i].cell = changes[j].cell => i = j
    BY DEF TablesInv, StatesOnce, Once
<1>4. \A j \in DOMAIN changes' : changes'[j].cell # Head(changes).cell
    BY ChangesShrink
<1>5. d = Head(changes).cell => Mentions(changes, d) /\ (Loads(changes, d) <=> type = "LOAD")
    BY <1>1, <1>2, <1>3 DEF Mentions, Loads
<1>6. d = Head(changes).cell => ~Mentions(changes, d)'
    BY <1>4 DEF Mentions
<1>7. \A j \in DOMAIN changes' : \E i \in DOMAIN changes : changes'[j] = changes[i]
    BY <1>1, <1>2
<1>8. \A j \in DOMAIN changes : j # 1 => \E i \in DOMAIN changes' : changes[j] = changes'[i]
    BY <1>1, <1>2
<1>9. d # Head(changes).cell => /\ Mentions(changes, d)' <=> Mentions(changes, d)
                                /\ Loads(changes, d)' <=> Loads(changes, d)
    BY <1>2, <1>7, <1>8 DEF Mentions, Loads
<1> QED
    BY <1>5, <1>6, <1>9

\* Nothing that concerns p has changed.
LEMMA SameAgree ==
    ASSUME NEW p \in Players, NEW c \in Cells, Agree(p, c),
           pending'[p] = pending[p], sent'[p] = sent[p], view'[p] = view[p], held'[p] = held[p],
           UNCHANGED <<busy, changes>> \/ (busy.player # p /\ busy'.player # p)
    PROVE  Agree(p, c)'
BY DEF Agree, Mentions, Loads

LEMMA AloneKept ==
    ASSUME TypeOK, AbsentAlone, [Next]_vars
    PROVE  AbsentAlone'
<1> USE DEF AbsentAlone
<1>1. ASSUME NEW p \in Players, Client(p) PROVE AbsentAlone'
  <2>1. p \in present
      BY <1>1 DEF Client, LogIn, MoveTo, UnloadCell, LoadCell, EndMove
  <2>2. present' = present
      BY <1>1 DEF Client, LogIn, MoveTo, UnloadCell, LoadCell, EndMove, serverVars
  <2>3. \A q \in Players \ {p} : /\ view'[q] = view[q] /\ target'[q] = target[q] /\ (moving'[q] <=> moving[q])
                                 /\ pending'[q] = pending[q] /\ sent'[q] = sent[q]
      BY <1>1 DEF Client, LogIn, MoveTo, UnloadCell, LoadCell, EndMove, TypeOK
  <2> QED
      BY <2>1, <2>2, <2>3
<1>2. ASSUME NEW p \in Players, StartDelete(p) PROVE AbsentAlone'
    BY <1>2 DEF StartDelete, TypeOK
<1>3. ASSUME NEW p \in Players, Join(p) PROVE AbsentAlone'
    BY <1>3 DEF Join, clientVars
<1>4. ASSUME NEW p \in Players, StartUpdate(p) PROVE AbsentAlone'
    BY <1>4 DEF StartUpdate, clientVars, TypeOK
<1>5. UNCHANGED <<clientVars, sent, present>> => AbsentAlone'
    BY DEF clientVars
<1> QED
    BY <1>1, <1>2, <1>3, <1>4, <1>5 DEF Next, Server, ApplyLoad, ApplyUnload, LeaveCell, RemoveCell, Finish, vars, clientVars

\* A client stores what it does, and sends what it has stored.
LEMMA ClientAgrees ==
    ASSUME TypeOK, TablesInv, NEW p \in Players, NEW c \in Cells, Agree(p, c), NEW q \in Players, Client(q)
    PROVE  Agree(p, c)'
<1>1. UNCHANGED <<held, busy, changes>>
    BY DEF Client, LogIn, MoveTo, UnloadCell, LoadCell, EndMove, serverVars
<1>2. CASE p # q \/ LogIn(q) \/ \E V \in Views : MoveTo(q, V)
  <2>1. pending'[p] = pending[p] /\ sent'[p] = sent[p] /\ view'[p] = view[p]
      BY <1>2 DEF Client, LogIn, MoveTo, UnloadCell, LoadCell, EndMove, TypeOK
  <2> QED
      BY <1>1, <2>1, SameAgree
<1>3. ASSUME p = q, NEW d \in Cells, UnloadCell(p, d) \/ LoadCell(p, d) PROVE Agree(p, c)'
  <2>1. PICK type \in {"LOAD", "UNLOAD"} :
            /\ pending'[p] = Stored(pending[p], d, type)
            /\ view'[p] = IF type = "LOAD" THEN view[p] \cup {d} ELSE view[p] \ {d}
            /\ sent' = sent
    <3>1. CASE UnloadCell(p, d)
      <4>1. /\ pending'[p] = Stored(pending[p], d, "UNLOAD") /\ view'[p] = view[p] \ {d} /\ sent' = sent
          BY <3>1 DEF UnloadCell, TypeOK
      <4> QED
          BY <4>1
    <3>2. CASE LoadCell(p, d)
      <4>1. /\ pending'[p] = Stored(pending[p], d, "LOAD") /\ view'[p] = view[p] \cup {d} /\ sent' = sent
          BY <3>2 DEF LoadCell, TypeOK
      <4> QED
          BY <4>1
    <3> QED
        BY <1>3, <3>1, <3>2
  <2>2. pending[p] \in Seq(Changes) /\ Once(pending[p])
      BY DEF TypeOK, TablesInv, StatesOnce
  <2>3. CASE c = d
    <3>1. Mentions(Stored(pending[p], d, type), c) /\ (Loads(Stored(pending[p], d, type), c) <=> type = "LOAD")
        BY <2>2, <2>3, StoredWords
    <3>2. Mentions(pending'[p], c) /\ (Loads(pending'[p], c) <=> c \in view'[p])
        BY <2>1, <2>3, <3>1
    <3> QED
        BY <3>2 DEF Agree, Mentions, Loads
  <2>4. CASE c # d
    <3>1. /\ Mentions(Stored(pending[p], d, type), c) <=> Mentions(pending[p], c)
          /\ Loads(Stored(pending[p], d, type), c) <=> Loads(pending[p], c)
        BY <2>2, <2>4, StoredWords
    <3>2. /\ Mentions(pending[p], c)' <=> Mentions(pending[p], c)
          /\ Loads(pending[p], c)' <=> Loads(pending[p], c)
          /\ c \in view'[p] <=> c \in view[p]
        BY <2>1, <2>4, <3>1 DEF Mentions, Loads
    <3>3. Mentions(changes, c)' = Mentions(changes, c) /\ Loads(changes, c)' = Loads(changes, c)
        BY <1>1 DEF Mentions, Loads
    <3>4. \A k : Mentions(sent[p][k], c)' = Mentions(sent[p][k], c) /\ Loads(sent[p][k], c)' = Loads(sent[p][k], c)
        BY <2>1 DEF Mentions, Loads
    <3> QED
        BY <1>1, <2>1, <3>2, <3>3, <3>4 DEF Agree
  <2> QED
      BY <2>3, <2>4
<1>4. ASSUME p = q, EndMove(p) PROVE Agree(p, c)'
  <2>1. CASE ~online[p]
      BY <1>1, <1>4, <2>1, SameAgree DEF EndMove
  <2>2. CASE online[p]
    <3>1. sent[p] \in Seq(Seq(Changes)) /\ pending[p] \in Seq(Changes)
        BY DEF TypeOK
    <3>2. view' = view /\ pending'[p] = <<>> /\ sent'[p] = Append(sent[p], pending[p])
        BY <1>4, <2>2 DEF EndMove, TypeOK
    <3> PICK n \in Nat : n = Len(sent[p])
        BY <3>1
    <3>3. /\ DOMAIN sent'[p] = 1 .. n + 1 /\ DOMAIN sent[p] = 1 .. n
          /\ \A k \in 1 .. n : sent'[p][k] = sent[p][k]
          /\ sent'[p][n + 1] = pending[p]
        BY <3>1, <3>2
    <3>4. ~Mentions(pending[p], c)'
        BY <3>2 DEF Mentions
    <3>5. /\ \A k \in 1 .. n : /\ Mentions(sent[p][k], c)' <=> Mentions(sent[p][k], c)
                               /\ Loads(sent[p][k], c)' <=> Loads(sent[p][k], c)
          /\ Mentions(sent[p][n + 1], c)' <=> Mentions(pending[p], c)
          /\ Loads(sent[p][n + 1], c)' <=> Loads(pending[p], c)
        BY <3>3 DEF Mentions, Loads
    <3>6. Mentions(changes, c)' = Mentions(changes, c) /\ Loads(changes, c)' = Loads(changes, c)
        BY <1>1 DEF Mentions, Loads
    <3>7. CASE Mentions(pending[p], c)
      <4>1. ASSUME NEW k \in 1 .. n + 1, \A j \in 1 .. n + 1 : j > k => ~Mentions(sent[p][j], c)'
            PROVE  k = n + 1
          BY <3>5, <3>7, <4>1
      <4>2. Loads(pending[p], c) <=> c \in view[p]
          BY <3>7 DEF Agree
      <4>3. n + 1 \in 1 .. n + 1
          OBVIOUS
      <4> QED
          BY <3>2, <3>3, <3>4, <3>5, <3>7, <4>1, <4>2, <4>3 DEF Agree
    <3>8. CASE ~Mentions(pending[p], c)
      <4>1. ASSUME NEW k \in 1 .. n + 1, Mentions(sent[p][k], c)',
                   \A j \in 1 .. n + 1 : j > k => ~Mentions(sent[p][j], c)'
            PROVE  Loads(sent[p][k], c)' <=> c \in view'[p]
        <5>1. k \in 1 .. n
            BY <3>5, <3>8, <4>1
        <5>2. Mentions(sent[p][k], c) /\ \A j \in 1 .. n : j > k => ~Mentions(sent[p][j], c)
            BY <3>5, <4>1, <5>1
        <5> QED
            BY <3>2, <3>3, <3>5, <3>8, <5>1, <5>2 DEF Agree
      <4>2. ASSUME \A k \in 1 .. n + 1 : ~Mentions(sent[p][k], c)'
            PROVE  \A k \in 1 .. n : ~Mentions(sent[p][k], c)
          BY <3>5, <4>2
      <4> QED
          BY <1>1, <3>2, <3>3, <3>4, <3>6, <3>8, <4>1, <4>2 DEF Agree
    <3> QED
        BY <3>7, <3>8
  <2> QED
      BY <2>1, <2>2
<1> QED
    BY <1>2, <1>3, <1>4 DEF Client

\* The oldest packet becomes the one that is applied.
LEMMA StartAgrees ==
    ASSUME TypeOK, TablesInv, NEW p \in Players, NEW c \in Cells, Agree(p, c), NEW q \in Players, StartUpdate(q)
    PROVE  Agree(p, c)'
<1>1. /\ UNCHANGED <<view, pending, held>> /\ busy = Idle /\ busy' = [loop |-> "update", player |-> q]
      /\ sent[q] # <<>> /\ changes' = Head(sent[q]) /\ sent' = [sent EXCEPT ![q] = Tail(sent[q])]
    BY DEF StartUpdate, clientVars
<1>2. busy.player # p /\ busy'.player = q
    BY <1>1 DEF Idle
<1>3. CASE p # q
  <2>1. sent'[p] = sent[p]
      BY <1>1, <1>3 DEF TypeOK
  <2> QED
      BY <1>1, <1>2, <1>3, <2>1, SameAgree
<1>4. CASE p = q
  <2>1. sent[p] \in Seq(Seq(Changes)) /\ sent'[p] = Tail(sent[p]) /\ sent[p] # <<>>
      BY <1>1, <1>4 DEF TypeOK
  <2>2. /\ changes' = sent[p][1] /\ 1 \in DOMAIN sent[p]
        /\ \A k \in DOMAIN sent'[p] : k + 1 \in DOMAIN sent[p] /\ sent'[p][k] = sent[p][k + 1]
        /\ \A k \in DOMAIN sent[p] : k # 1 => k - 1 \in DOMAIN sent'[p] /\ sent'[p][k - 1] = sent[p][k]
    <3>1. PICK s \in Seq(Seq(Changes)) : s = sent[p]
        BY <2>1
    <3>2. s # <<>> /\ sent'[p] = Tail(s) /\ changes' = Head(s)
        BY <1>1, <1>4, <2>1, <3>1
    <3>3. /\ Head(s) = s[1] /\ 1 \in DOMAIN s
          /\ \A k \in DOMAIN Tail(s) : k + 1 \in DOMAIN s /\ Tail(s)[k] = s[k + 1]
          /\ \A k \in DOMAIN s : k # 1 => k - 1 \in DOMAIN Tail(s) /\ Tail(s)[k - 1] = s[k]
        BY <3>1, <3>2, TailFacts
    <3> QED
        BY <3>1, <3>2, <3>3
  <2>3. DOMAIN sent[p] \subseteq Nat \ {0} /\ DOMAIN sent'[p] \subseteq Nat \ {0}
      BY <2>1
  <2>4. /\ Mentions(changes, c)' <=> Mentions(sent[p][1], c)
        /\ Loads(changes, c)' <=> Loads(sent[p][1], c)
        /\ Mentions(pending[p], c)' <=> Mentions(pending[p], c)
        /\ Loads(pending[p], c)' <=> Loads(pending[p], c)
      BY <1>1, <2>2 DEF Mentions, Loads
  <2>5. \A k \in DOMAIN sent'[p] : /\ Mentions(sent[p][k], c)' <=> Mentions(sent[p][k + 1], c)
                                   /\ Loads(sent[p][k], c)' <=> Loads(sent[p][k + 1], c)
      BY <2>2 DEF Mentions, Loads
  <2>6. \A j \in DOMAIN sent[p] : j # 1 => /\ j - 1 \in DOMAIN sent'[p]
                                           /\ Mentions(sent[p][j - 1], c)' <=> Mentions(sent[p][j], c)
      BY <2>2 DEF Mentions
  <2>7. CASE Mentions(pending[p], c)
      BY <1>1, <2>4, <2>7 DEF Agree
  <2>8. CASE ~Mentions(pending[p], c)
    <3>1. ASSUME NEW k \in DOMAIN sent'[p], Mentions(sent[p][k], c)',
                 \A j \in DOMAIN sent'[p] : j > k => ~Mentions(sent[p][j], c)'
          PROVE  Loads(sent[p][k], c)' <=> c \in view'[p]
      <4>1. k + 1 \in DOMAIN sent[p] /\ Mentions(sent[p][k + 1], c)
          BY <2>2, <2>5, <3>1
      <4>2. ASSUME NEW j \in DOMAIN sent[p], j > k + 1 PROVE ~Mentions(sent[p][j], c)
        <5>1. j # 1 /\ j - 1 > k
            BY <2>3, <4>2
        <5> QED
            BY <2>6, <3>1, <5>1
      <4>3. Loads(sent[p][k + 1], c) <=> c \in view[p]
          BY <2>8, <4>1, <4>2 DEF Agree
      <4> QED
          BY <1>1, <2>5, <4>3
    <3>2. ASSUME \A k \in DOMAIN sent'[p] : ~Mentions(sent[p][k], c)'
          PROVE  IF Mentions(changes, c)' THEN Loads(changes, c)' <=> c \in view'[p] ELSE c \in held'[p] <=> c \in view'[p]
      <4>1. \A j \in DOMAIN sent[p] : j # 1 => ~Mentions(sent[p][j], c)
          BY <2>6, <3>2
      <4>2. CASE Mentions(sent[p][1], c)
        <5>1. \A j \in DOMAIN sent[p] : j > 1 => ~Mentions(sent[p][j], c)
            BY <2>3, <4>1
        <5>2. Loads(sent[p][1], c) <=> c \in view[p]
            BY <2>2, <2>8, <4>2, <5>1 DEF Agree
        <5> QED
            BY <1>1, <2>4, <4>2, <5>2
      <4>3. CASE ~Mentions(sent[p][1], c)
        <5>1. c \in held[p] <=> c \in view[p]
            BY <1>2, <2>8, <4>1, <4>3 DEF Agree
        <5> QED
            BY <1>1, <2>4, <4>3, <5>1
      <4> QED
          BY <4>2, <4>3
    <3> QED
        BY <1>2, <1>4, <2>4, <2>8, <3>1, <3>2 DEF Agree
  <2> QED
      BY <2>7, <2>8
<1> QED
    BY <1>3, <1>4

\* A state of the packet is applied: addPlayer and removePlayer make the tables say
\* what it says.
LEMMA ApplyAgrees ==
    ASSUME TypeOK, TablesInv, NEW p \in Players, NEW c \in Apart, Agree(p, c),
           ApplyLoad \/ ApplyUnload
    PROVE  Agree(p, c)'
<1> PICK type \in {"LOAD", "UNLOAD"} : TakeChange(type) /\ (type = "LOAD" => ApplyLoad) /\ (type = "UNLOAD" => ApplyUnload)
    BY DEF ApplyLoad, ApplyUnload
<1> PICK h \in Cells : h = Head(changes).cell
    BY TakeChangeFacts
<1>0. c \in Cells
    BY DEF Apart
<1>1. UNCHANGED <<view, pending, sent, busy>>
    BY DEF ApplyLoad, ApplyUnload, clientVars
<1>2. held \in [Players -> SUBSET Cells] /\ busy.player \in Players
    BY TakeChangeFacts DEF TypeOK
<1>3. /\ \A q \in Players, d \in Apart : q # busy.player \/ d # h => (d \in held'[q] <=> d \in held[q])
      /\ h \in Apart => (h \in held'[busy.player] <=> type = "LOAD")
  <2>1. CASE ApplyLoad /\ type = "LOAD"
    <3> PICK x \in Cells : AddPlayer(busy.player, x) /\ Is(x, h)
        BY <2>1, LoadEffect
    <3>1. /\ held' \in {held, [held EXCEPT ![busy.player] = @ \cup {x}]}
          /\ busy.player \notin members[x] => held' = [held EXCEPT ![busy.player] = @ \cup {x}]
        BY DEF AddPlayer
    <3>2. \A d \in Apart : d = x <=> d = h
        BY DEF Is
    <3>3. h \in Apart => (h \in held[busy.player] <=> busy.player \in members[h])
        BY <1>2 DEF TablesInv, PointersMutual
    <3> QED
        BY <1>2, <2>1, <3>1, <3>2, <3>3
  <2>2. CASE ApplyUnload /\ type = "UNLOAD"
    <3>1. h \in Apart /\ h \in held[busy.player] => busy.player \in members[h] /\ h \in Loaded
        BY <1>2 DEF TablesInv, PointersMutual, NoDanglingCells
    <3>2. CASE h \notin Loaded /\ UNCHANGED <<members, held, emptied>>
        BY <2>2, <3>1, <3>2
    <3>3. ASSUME NEW x \in Loaded, RemovePlayer(busy.player, x), Is(x, h)
          PROVE  /\ \A q \in Players, d \in Apart : q # busy.player \/ d # h => (d \in held'[q] <=> d \in held[q])
                 /\ h \in Apart => h \notin held'[busy.player]
      <4>1. /\ held' \in {held, [held EXCEPT ![busy.player] = @ \ {x}]}
            /\ busy.player \in members[x] => held' = [held EXCEPT ![busy.player] = @ \ {x}]
          BY <3>3 DEF RemovePlayer
      <4>2. \A d \in Apart : d = x <=> d = h
          BY <3>3 DEF Is
      <4> QED
          BY <1>2, <3>1, <4>1, <4>2
    <3> QED
        BY <2>2, <3>2, <3>3, UnloadEffect
  <2> QED
      BY <2>1, <2>2
<1>4. Mentions(pending[p], c)' = Mentions(pending[p], c) /\ Loads(pending[p], c)' = Loads(pending[p], c)
    BY <1>1 DEF Mentions, Loads
<1>5. \A k : Mentions(sent[p][k], c)' = Mentions(sent[p][k], c) /\ Loads(sent[p][k], c)' = Loads(sent[p][k], c)
    BY <1>1 DEF Mentions, Loads
<1>6. CASE p # busy.player
  <2>1. c \in held'[p] <=> c \in held[p]
      BY <1>3, <1>6
  <2> QED
      BY <1>1, <1>4, <1>5, <1>6, <2>1 DEF Agree
<1>7. CASE p = busy.player /\ c # h
  <2>1. /\ Mentions(changes, c)' <=> Mentions(changes, c)
        /\ Loads(changes, c)' <=> Loads(changes, c)
      BY <1>0, <1>7, TakenWords
  <2>2. c \in held'[p] <=> c \in held[p]
      BY <1>3, <1>7
  <2> QED
      BY <1>1, <1>4, <1>5, <2>1, <2>2 DEF Agree
<1>8. CASE p = busy.player /\ c = h
  <2>1. Mentions(changes, c) /\ (Loads(changes, c) <=> type = "LOAD") /\ ~Mentions(changes, c)'
      BY <1>0, <1>8, TakenWords
  <2>2. c \in held'[p] <=> Loads(changes, c)
      BY <1>3, <1>8, <2>1
  <2> QED
      BY <1>1, <1>4, <1>5, <1>8, <2>1, <2>2 DEF Agree
<1> QED
    BY <1>6, <1>7, <1>8

LEMMA AgreeKept ==
    ASSUME TypeOK, TablesInv, AbsentAlone, AgreeInv, [Next]_vars
    PROVE  AgreeInv'
<1> SUFFICES ASSUME NEW p \in Players, NEW c \in Apart, ~Leaving(p)' PROVE Agree(p, c)'
    BY DEF AgreeInv
<1>0. c \in Cells
    BY DEF Apart
<1>1. ASSUME NEW q \in Players, Client(q) PROVE Agree(p, c)'
  <2>1. ~Leaving(p)
      BY <1>1 DEF Client, LogIn, MoveTo, UnloadCell, LoadCell, EndMove, serverVars, Leaving
  <2> QED
      BY <1>0, <1>1, <2>1, ClientAgrees DEF AgreeInv
<1>2. ASSUME NEW q \in Players, StartUpdate(q) PROVE Agree(p, c)'
  <2>1. ~Leaving(p)
      BY <1>2 DEF StartUpdate, Leaving, Idle
  <2> QED
      BY <1>0, <1>2, <2>1, StartAgrees DEF AgreeInv
<1>3. ASSUME NEW q \in Players, StartDelete(q) PROVE Agree(p, c)'
  <2>1. q # p /\ busy = Idle /\ busy'.player = q
      BY <1>3 DEF StartDelete, Leaving
  <2>2. UNCHANGED <<held, changes>> /\ pending'[p] = pending[p] /\ sent'[p] = sent[p] /\ view'[p] = view[p]
      BY <1>3, <2>1 DEF StartDelete, TypeOK
  <2>3. ~Leaving(p) /\ busy.player # p
      BY <2>1 DEF Leaving, Idle
  <2> QED
      BY <2>1, <2>2, <2>3, <1>0, SameAgree DEF AgreeInv
<1>4. ASSUME ApplyLoad \/ ApplyUnload PROVE Agree(p, c)'
  <2>1. ~Leaving(p)
      BY <1>4 DEF ApplyLoad, ApplyUnload, Leaving
  <2> QED
      BY <1>4, <2>1, ApplyAgrees DEF AgreeInv
<1>5. ASSUME NEW d \in Cells, LeaveCell(d) PROVE Agree(p, c)'
  <2>1. ~Leaving(p) /\ busy.player # p /\ UNCHANGED <<view, pending, sent, busy, changes>>
      BY <1>5 DEF LeaveCell, Leaving, clientVars
  <2>2. held'[p] = held[p]
      BY <1>5, <2>1 DEF LeaveCell, TypeOK
  <2> QED
      BY <2>1, <2>2, <1>0, SameAgree DEF AgreeInv
<1>6. ASSUME Finish PROVE Agree(p, c)'
  <2>1. busy # Idle /\ LoopDone /\ UNCHANGED <<view, pending, sent, changes, held, present>> /\ busy'.player # p
      BY <1>6 DEF Finish, clientVars, Idle
  <2>2. changes = <<>>
      BY <2>1, BusyFacts DEF LoopDone, TablesInv, LoopInv
  <2>3. CASE Leaving(p)
    <3>1. held[p] = {} /\ p \notin present
        BY <2>1, <2>3 DEF LoopDone, Leaving, TablesInv, LoopInv
    <3>2. view[p] = {} /\ pending[p] = <<>> /\ sent[p] = <<>>
        BY <3>1 DEF AbsentAlone
    <3> QED
        BY <2>1, <3>1, <3>2 DEF Agree, Mentions
  <2>4. CASE ~Leaving(p)
    <3>1. Agree(p, c)
        BY <2>4 DEF AgreeInv
    <3>2. ~Mentions(changes, c) /\ ~Mentions(changes, c)'
        BY <2>1, <2>2 DEF Mentions
    <3>3. Mentions(pending[p], c)' = Mentions(pending[p], c) /\ Loads(pending[p], c)' = Loads(pending[p], c)
        BY <2>1 DEF Mentions, Loads
    <3>4. \A k : Mentions(sent[p][k], c)' = Mentions(sent[p][k], c) /\ Loads(sent[p][k], c)' = Loads(sent[p][k], c)
        BY <2>1 DEF Mentions, Loads
    <3> QED
        BY <2>1, <3>1, <3>2, <3>3, <3>4 DEF Agree
  <2> QED
      BY <2>3, <2>4
<1>7. ASSUME UNCHANGED <<view, pending, sent, held, busy, changes>> PROVE Agree(p, c)'
  <2>1. ~Leaving(p)
      BY <1>7 DEF Leaving
  <2> QED
      BY <1>7, <2>1, <1>0, SameAgree DEF AgreeInv
<1>8. (\E q \in Players : Join(q)) \/ RemoveCell \/ UNCHANGED vars => UNCHANGED <<view, pending, sent, held, busy, changes>>
    BY DEF Join, RemoveCell, vars, clientVars
<1> QED
    BY <1>1, <1>2, <1>3, <1>4, <1>5, <1>6, <1>7, <1>8 DEF Next, Server

\* Once its packets have been handled, a player is in the list of the cells that its
\* scene has loaded, and in no other.
THEOREM ScenesReachTables == Spec => []MembersHaveCellLoaded
<1>1. Init => AgreeInv /\ AbsentAlone
  <2>1. DOMAIN <<>> = {}
      OBVIOUS
  <2> QED
      BY <2>1 DEF Init, AgreeInv, Agree, Mentions, AbsentAlone
<1>2. TypeOK /\ TablesInv /\ AgreeInv /\ AbsentAlone /\ [Next]_vars => AgreeInv' /\ AbsentAlone'
    BY AgreeKept, AloneKept
<1>3. TypeOK /\ TablesInv /\ AgreeInv => MembersHaveCellLoaded
  <2> SUFFICES ASSUME TablesInv, AgreeInv, NEW p \in Players, Settled(p), NEW c \in Apart
               PROVE  p \in members[c] <=> c \in view[p]
      BY DEF MembersHaveCellLoaded
  <2>1. pending[p] = <<>> /\ sent[p] = <<>> /\ busy.player # p /\ DOMAIN <<>> = {}
      BY DEF Settled
  <2>2. c \in held[p] <=> c \in view[p]
      BY <2>1 DEF AgreeInv, Leaving, Agree, Mentions
  <2> QED
      BY <2>2 DEF TablesInv, PointersMutual
<1> QED
    BY <1>1, <1>2, <1>3, TypeCorrect, TablesInvariant, PTL DEF Spec
===============================================================================
