-------------------------- MODULE ClientActors_proofs --------------------------
(****************************************************************************)
(* Proofs about ClientActors, for any cells and actors.                     *)
(****************************************************************************)
EXTENDS ClientActors, TLAPS

\* The tables of local actors, and of dedicated ones, with the records of each.
\* A DedicatedActor has a cell, and so has its Ptr.
LocalTables == [of : [Cells -> [Actors -> Places]], record : [Actors -> Places]]
Followers == {NoActor} \cup [cell : Cells, ptr : Cells]
DedicatedTables == [of : [Cells -> [Actors -> Followers]], record : [Actors -> Places]]

\* The records of t lead to objects in the cells K.
Leads(t, K, none) ==
    \A a \in Actors : t.record[a] # NoCell => t.record[a] \in K /\ t.of[t.record[a]][a] # none

LEMMA RecordsLeadIs ==
    RecordsLead <=> Leads(Locals, known, NoCell) /\ Leads(Dedicated, known, NoActor)
BY DEF RecordsLead, Leads, Locals, Dedicated, IsLocal, IsDedicated

LEMMA NoActorType == NoActor \in Followers
BY DEF Followers

LEMMA FollowerHas == \A e \in Followers : e # NoActor => e.cell \in Cells /\ e.ptr \in Cells /\ e = [cell |-> e.cell, ptr |-> e.ptr]
BY DEF Followers

LEMMA FollowerIs == \A Y, Z \in Cells : [cell |-> Y, ptr |-> Z] \in Followers /\ [cell |-> Y, ptr |-> Z] # NoActor
<1> SUFFICES ASSUME NEW Y \in Cells, NEW Z \in Cells
             PROVE  [cell |-> Y, ptr |-> Z] \in Followers /\ [cell |-> Y, ptr |-> Z] # NoActor
    OBVIOUS
<1>1. [cell |-> Y, ptr |-> Z].cell = Y /\ NoActor.cell = NoCell
    BY DEF NoActor
<1>2. [cell |-> Y, ptr |-> Z] # NoActor
    BY <1>1, NoCellAssumption
<1> QED
    BY <1>2 DEF Followers

-----------------------------------------------------------------------------
(* What the loops over the actors of a cell do. *)

LEMMA InitializeLocalsFacts ==
    ASSUME NEW t \in LocalTables, NEW X \in Cells, place \in [Actors -> Cells]
    PROVE  /\ InitializeLocals(t, X) \in LocalTables
           /\ \A K \in SUBSET Cells : X \in K /\ Leads(t, K, NoCell) => Leads(InitializeLocals(t, X), K, NoCell)
<1> DEFINE new == {a \in Actors : place[a] = X /\ t.of[X][a] = NoCell}
<1>1. PICK u : u = InitializeLocals(t, X)
    OBVIOUS
<1>2. /\ u.of = [t.of EXCEPT ![X] = [a \in Actors |-> IF a \in new THEN X ELSE t.of[X][a]]]
      /\ u.record = [a \in Actors |-> IF a \in new THEN X ELSE t.record[a]]
      /\ u = [of |-> u.of, record |-> u.record]
    BY <1>1 DEF InitializeLocals, LocalTables
<1>3. u.of \in [Cells -> [Actors -> Places]] /\ u.record \in [Actors -> Places]
    BY <1>2 DEF LocalTables, Places
<1>4. u \in LocalTables
    BY <1>2, <1>3 DEF LocalTables
<1>5. ASSUME NEW K \in SUBSET Cells, X \in K, Leads(t, K, NoCell) PROVE Leads(u, K, NoCell)
    BY <1>2, <1>5, NoCellAssumption DEF Leads, LocalTables
<1> QED
    BY <1>1, <1>4, <1>5

LEMMA UninitializeLocalsFacts ==
    ASSUME NEW t \in LocalTables, NEW X \in Cells
    PROVE  /\ UninitializeLocals(t, X) \in LocalTables
           /\ \A K \in SUBSET Cells : Leads(t, K, NoCell) => Leads(UninitializeLocals(t, X), K \ {X}, NoCell)
<1>1. PICK u : u = UninitializeLocals(t, X)
    OBVIOUS
<1>2. /\ u.of = [t.of EXCEPT ![X] = [a \in Actors |-> NoCell]]
      /\ u.record = [a \in Actors |-> IF t.of[X][a] # NoCell THEN NoCell ELSE t.record[a]]
      /\ u = [of |-> u.of, record |-> u.record]
    BY <1>1 DEF UninitializeLocals, LocalTables
<1>3. u.of \in [Cells -> [Actors -> Places]] /\ u.record \in [Actors -> Places]
    BY <1>2 DEF LocalTables, Places
<1>4. u \in LocalTables
    BY <1>2, <1>3 DEF LocalTables
<1>5. ASSUME NEW K \in SUBSET Cells, Leads(t, K, NoCell) PROVE Leads(u, K \ {X}, NoCell)
    BY <1>2, <1>5, NoCellAssumption DEF Leads, LocalTables
<1> QED
    BY <1>1, <1>4, <1>5

LEMMA UpdateLocalsFacts ==
    ASSUME NEW t \in LocalTables, NEW X \in Cells
    PROVE  /\ UpdateLocals(t, X) \in LocalTables
           /\ \A K \in SUBSET Cells :
                  known \subseteq K /\ Leads(t, K, NoCell) => Leads(UpdateLocals(t, X), K, NoCell)
<1> DEFINE gone == {a \in Actors : t.of[X][a] \notin {NoCell, X}}
           kept == {a \in gone : HasLocalAuthority(t.of[X][a])}
<1>1. PICK u : u = UpdateLocals(t, X)
    OBVIOUS
<1>2. /\ u.of = [Y \in Cells |-> [a \in Actors |->
                    IF a \in gone /\ Y = X THEN NoCell
                    ELSE IF a \in kept /\ Y = t.of[X][a] THEN Y ELSE t.of[Y][a]]]
      /\ u.record = [a \in Actors |->
                    IF a \in kept THEN t.of[X][a] ELSE IF a \in gone THEN NoCell ELSE t.record[a]]
      /\ u = [of |-> u.of, record |-> u.record]
    BY <1>1 DEF UpdateLocals, LocalTables
<1>3. u.of \in [Cells -> [Actors -> Places]] /\ u.record \in [Actors -> Places]
  <2>1. t.of \in [Cells -> [Actors -> Places]] /\ t.record \in [Actors -> Places]
      BY DEF LocalTables
  <2> HIDE DEF gone, kept
  <2>2. u.of \in [Cells -> [Actors -> Places]]
      BY <1>2, <2>1 DEF Places
  <2>3. u.record \in [Actors -> Places]
      BY <1>2, <2>1 DEF Places
  <2> QED
      BY <2>2, <2>3
<1>4. u \in LocalTables
    BY <1>2, <1>3 DEF LocalTables
<1>5. ASSUME NEW K \in SUBSET Cells, known \subseteq K, Leads(t, K, NoCell), NEW a \in Actors, u.record[a] # NoCell
      PROVE  u.record[a] \in K /\ u.of[u.record[a]][a] # NoCell
  <2>1. CASE a \in kept
    <3>1. PICK Y : Y = t.of[X][a]
        OBVIOUS
    <3>2. HasLocalAuthority(Y) /\ Y # X /\ Y # NoCell /\ a \in gone
        BY <2>1, <3>1
    <3>3. Y \in K
        BY <1>5, <3>2 DEF HasLocalAuthority
    <3> HIDE DEF gone, kept
    <3>4. u.record[a] = Y
        BY <1>2, <1>5, <2>1, <3>1
    <3>5. u.of[Y][a] = Y
        BY <1>2, <1>5, <2>1, <3>1, <3>2, <3>3
    <3> QED
        BY <3>2, <3>3, <3>4, <3>5
  <2>2. CASE a \notin gone
    <3>1. u.record[a] = t.record[a] /\ a \notin kept
        BY <1>2, <2>2
    <3>2. t.record[a] \in K /\ t.of[t.record[a]][a] # NoCell
        BY <1>5, <3>1 DEF Leads
    <3>3. PICK Y \in Cells : Y = t.record[a]
        BY <1>5, <3>2
    <3> HIDE DEF gone, kept
    <3>4. u.of[Y][a] = t.of[Y][a]
        BY <1>2, <2>2, <3>1
    <3> QED
        BY <3>1, <3>2, <3>3, <3>4
  <2>3. a \in kept \/ a \notin gone
      BY <1>2, <1>5
  <2> QED
      BY <2>1, <2>2, <2>3
<1>6. \A K \in SUBSET Cells : known \subseteq K /\ Leads(t, K, NoCell) => Leads(u, K, NoCell)
    BY <1>5 DEF Leads
<1> QED
    BY <1>1, <1>4, <1>6

LEMMA InitializeDedicatedFacts ==
    ASSUME NEW t \in DedicatedTables, NEW X \in Cells, NEW S \in SUBSET Actors
    PROVE  /\ InitializeDedicated(t, X, S) \in DedicatedTables
           /\ \A K \in SUBSET Cells :
                  Leads(t, K, NoActor) => Leads(InitializeDedicated(t, X, S), K \cup {X}, NoActor)
<1> DEFINE new == {a \in S : place[a] = X /\ t.of[X][a] = NoActor}
           there == [cell |-> X, ptr |-> X]
<1>1. PICK u : u = InitializeDedicated(t, X, S)
    OBVIOUS
<1>2. /\ u.of = [t.of EXCEPT ![X] = [a \in Actors |-> IF a \in new THEN there ELSE t.of[X][a]]]
      /\ u.record = [a \in Actors |-> IF a \in new THEN X ELSE t.record[a]]
      /\ u = [of |-> u.of, record |-> u.record]
    BY <1>1 DEF InitializeDedicated, DedicatedTables
<1>3. there \in Followers /\ there # NoActor
    BY FollowerIs
<1> HIDE DEF there
<1>4. u.of \in [Cells -> [Actors -> Followers]] /\ u.record \in [Actors -> Places]
    BY <1>2, <1>3 DEF DedicatedTables, Places
<1>5. u \in DedicatedTables
    BY <1>2, <1>4 DEF DedicatedTables
<1>6. ASSUME NEW K \in SUBSET Cells, Leads(t, K, NoActor) PROVE Leads(u, K \cup {X}, NoActor)
    BY <1>2, <1>3, <1>6, NoCellAssumption DEF Leads, DedicatedTables
<1> QED
    BY <1>1, <1>5, <1>6

LEMMA UninitializeDedicatedFacts ==
    ASSUME NEW t \in DedicatedTables, NEW X \in Cells, NEW S \in SUBSET Actors
    PROVE  /\ UninitializeDedicated(t, X, S) \in DedicatedTables
           /\ \A K \in SUBSET Cells : Leads(t, K, NoActor) => Leads(UninitializeDedicated(t, X, S), K, NoActor)
           /\ \A K \in SUBSET Cells :
                  S = Actors /\ Leads(t, K, NoActor) => Leads(UninitializeDedicated(t, X, S), K \ {X}, NoActor)
<1>1. PICK u : u = UninitializeDedicated(t, X, S)
    OBVIOUS
<1>2. /\ u.of = [t.of EXCEPT ![X] = [a \in Actors |-> IF a \in S THEN NoActor ELSE t.of[X][a]]]
      /\ u.record = [a \in Actors |-> IF a \in S /\ t.of[X][a] # NoActor THEN NoCell ELSE t.record[a]]
      /\ u = [of |-> u.of, record |-> u.record]
    BY <1>1 DEF UninitializeDedicated, DedicatedTables
<1>3. u.of \in [Cells -> [Actors -> Followers]] /\ u.record \in [Actors -> Places]
    BY <1>2, NoActorType DEF DedicatedTables, Places
<1>4. u \in DedicatedTables
    BY <1>2, <1>3 DEF DedicatedTables
<1>5. ASSUME NEW K \in SUBSET Cells, Leads(t, K, NoActor) PROVE Leads(u, K, NoActor)
    BY <1>2, <1>5, NoCellAssumption DEF Leads, DedicatedTables
<1>6. ASSUME NEW K \in SUBSET Cells, S = Actors, Leads(t, K, NoActor) PROVE Leads(u, K \ {X}, NoActor)
    BY <1>2, <1>6, NoCellAssumption DEF Leads, DedicatedTables
<1> QED
    BY <1>1, <1>4, <1>5, <1>6

\* One entry of a table is set.
LEMMA SetEntry ==
    ASSUME NEW F, NEW of \in [Cells -> [Actors -> F]], NEW X \in Cells, NEW a \in Actors, NEW f \in F
    PROVE  /\ [of EXCEPT ![X][a] = f] \in [Cells -> [Actors -> F]]
           /\ \A Z \in Cells, b \in Actors : Z # X \/ b # a => [of EXCEPT ![X][a] = f][Z][b] = of[Z][b]
           /\ [of EXCEPT ![X][a] = f][X][a] = f
<1>1. PICK row : row = [of[X] EXCEPT ![a] = f]
    OBVIOUS
<1>2. row \in [Actors -> F] /\ row[a] = f /\ \A b \in Actors : b # a => row[b] = of[X][b]
    BY <1>1
<1>3. [of EXCEPT ![X][a] = f] = [of EXCEPT ![X] = row]
    BY <1>1
<1> QED
    BY <1>2, <1>3

\* The DedicatedActors of one table are in another.
Keeps(of, u) == \A Z \in Cells, b \in Actors : of[Z][b] # NoActor => u[Z][b] # NoActor

\* The cell of a DedicatedActor, or that in its Ptr, is set.
Retold(of, X, a, Y) == [of EXCEPT ![X][a].cell = Y]
Repointed(of, X, a, Y) == [of EXCEPT ![X][a].ptr = Y]

LEMMA RetoldFacts ==
    ASSUME NEW of \in [Cells -> [Actors -> Followers]], NEW X \in Cells, NEW a \in Actors, NEW Y \in Cells,
           of[X][a] # NoActor
    PROVE  /\ Retold(of, X, a, Y) \in [Cells -> [Actors -> Followers]]
           /\ Keeps(of, Retold(of, X, a, Y))
           /\ Keeps(Retold(of, X, a, Y), of)
<1>1. PICK f \in Followers : f = [of[X][a] EXCEPT !.cell = Y] /\ f # NoActor
  <2>1. PICK e \in Followers : e = of[X][a]
      OBVIOUS
  <2>2. e.ptr \in Cells /\ e = [cell |-> e.cell, ptr |-> e.ptr]
      BY <2>1, FollowerHas
  <2>3. PICK f : f = [e EXCEPT !.cell = Y]
      OBVIOUS
  <2>4. f = [cell |-> Y, ptr |-> e.ptr]
      BY <2>2, <2>3
  <2> QED
      BY <2>1, <2>2, <2>3, <2>4, FollowerIs
<1>2. PICK u : u = [of EXCEPT ![X][a] = f]
    OBVIOUS
<1>3. Retold(of, X, a, Y) = u
    BY <1>1, <1>2 DEF Retold
<1>4. /\ u \in [Cells -> [Actors -> Followers]]
      /\ \A Z \in Cells, b \in Actors : Z # X \/ b # a => u[Z][b] = of[Z][b]
      /\ u[X][a] = f
    BY <1>2, SetEntry
<1>5. Keeps(of, u)
    BY <1>1, <1>4 DEF Keeps
<1>6. Keeps(u, of)
    BY <1>4 DEF Keeps
<1> QED
    BY <1>3, <1>4, <1>5, <1>6

LEMMA RepointedFacts ==
    ASSUME NEW of \in [Cells -> [Actors -> Followers]], NEW X \in Cells, NEW a \in Actors, NEW Y \in Cells,
           of[X][a] # NoActor
    PROVE  /\ Repointed(of, X, a, Y) \in [Cells -> [Actors -> Followers]]
           /\ Keeps(of, Repointed(of, X, a, Y))
           /\ Keeps(Repointed(of, X, a, Y), of)
<1>1. PICK f \in Followers : f = [of[X][a] EXCEPT !.ptr = Y] /\ f # NoActor
  <2>1. PICK e \in Followers : e = of[X][a]
      OBVIOUS
  <2>2. e.cell \in Cells /\ e = [cell |-> e.cell, ptr |-> e.ptr]
      BY <2>1, FollowerHas
  <2>3. PICK f : f = [e EXCEPT !.ptr = Y]
      OBVIOUS
  <2>4. f = [cell |-> e.cell, ptr |-> Y]
      BY <2>2, <2>3
  <2> QED
      BY <2>1, <2>2, <2>3, <2>4, FollowerIs
<1>2. PICK u : u = [of EXCEPT ![X][a] = f]
    OBVIOUS
<1>3. Repointed(of, X, a, Y) = u
    BY <1>1, <1>2 DEF Repointed
<1>4. /\ u \in [Cells -> [Actors -> Followers]]
      /\ \A Z \in Cells, b \in Actors : Z # X \/ b # a => u[Z][b] = of[Z][b]
      /\ u[X][a] = f
    BY <1>2, SetEntry
<1>5. Keeps(of, u)
    BY <1>1, <1>4 DEF Keeps
<1>6. Keeps(u, of)
    BY <1>4 DEF Keeps
<1> QED
    BY <1>3, <1>4, <1>5, <1>6

-----------------------------------------------------------------------------
(* The inductive invariant: types, records that lead to objects, and, from  *)
(* updateDedicated to the end of the frame, cells of ours without others.   *)

WorldOK ==
    /\ phase \in {"packets", "cells", "world"}
    /\ place \in [Actors -> Cells]
    /\ active \subseteq Cells /\ known \subseteq Cells
    /\ mine \subseteq known /\ eligible \subseteq known /\ todo \subseteq known
    /\ phase # "cells" => todo = {}

LocalsOK == Locals \in LocalTables /\ Leads(Locals, known, NoCell)
DedicatedOK == Dedicated \in DedicatedTables /\ Leads(Dedicated, known, NoActor)

FreeInv == phase # "packets" => \A X \in mine, a \in Actors : ~IsDedicated(X, a)

ActorsInv == WorldOK /\ LocalsOK /\ DedicatedOK /\ FreeInv

LEMMA InvariantImplies == ActorsInv => TypeOK /\ RecordsLead
<1>1. Locals \in LocalTables <=> locals \in [Cells -> [Actors -> Places]] /\ localRecord \in [Actors -> Places]
    BY DEF Locals, LocalTables
<1>2. Dedicated \in DedicatedTables
          <=> dedicated \in [Cells -> [Actors -> Followers]] /\ dedicatedRecord \in [Actors -> Places]
    BY DEF Dedicated, DedicatedTables
<1>3. Followers \subseteq [cell : Places, ptr : Places]
    BY DEF Followers, NoActor, Places
<1>4. WorldOK /\ Locals \in LocalTables /\ Dedicated \in DedicatedTables => TypeOK
    BY <1>1, <1>2, <1>3 DEF TypeOK, WorldOK
<1> QED
    BY <1>4, RecordsLeadIs DEF ActorsInv, LocalsOK, DedicatedOK

\* The tables after a step.
LEMMA Become ==
    /\ \A t \in LocalTables : BecomeLocals(t) => Locals' = t
    /\ \A t \in DedicatedTables : BecomeDedicated(t) => Dedicated' = t
    /\ UNCHANGED localVars => Locals' = Locals
    /\ UNCHANGED dedicatedVars => Dedicated' = Dedicated
BY DEF BecomeLocals, BecomeDedicated, Locals, Dedicated, LocalTables, DedicatedTables, localVars, dedicatedVars

\* moveObject sets the Ptr of a LocalActor.
LEMMA MovedFacts ==
    ASSUME ActorsInv, NEW a \in Actors, NEW Y \in Cells, NEW moved,
           moved = locals \/ (localRecord[a] # NoCell /\ moved = [locals EXCEPT ![localRecord[a]][a] = Y])
    PROVE  /\ moved \in [Cells -> [Actors -> Places]]
           /\ \A Z \in Cells, b \in Actors : locals[Z][b] # NoCell => moved[Z][b] # NoCell
<1>1. locals \in [Cells -> [Actors -> Places]] /\ localRecord \in [Actors -> Places] /\ Y \in Places
    BY DEF ActorsInv, LocalsOK, Locals, LocalTables, Places
<1>2. CASE moved = locals
    BY <1>1, <1>2
<1>3. ASSUME localRecord[a] # NoCell, moved = [locals EXCEPT ![localRecord[a]][a] = Y]
      PROVE  /\ moved \in [Cells -> [Actors -> Places]]
             /\ \A Z \in Cells, b \in Actors : locals[Z][b] # NoCell => moved[Z][b] # NoCell
  <2>1. PICK X \in Cells : X = localRecord[a]
      BY <1>1, <1>3 DEF Places
  <2>2. /\ moved \in [Cells -> [Actors -> Places]]
        /\ \A Z \in Cells, b \in Actors : Z # X \/ b # a => moved[Z][b] = locals[Z][b]
        /\ moved[X][a] = Y
      BY <1>1, <1>3, <2>1, SetEntry
  <2> QED
      BY <2>2, NoCellAssumption
<1> QED
    BY <1>2, <1>3

\* The same objects and others, and perhaps the record of an actor.
LEMMA LocalsLead ==
    ASSUME ActorsInv, NEW of \in [Cells -> [Actors -> Places]], NEW a \in Actors, NEW r \in Places,
           NEW K \in SUBSET Cells, known \subseteq K,
           \A Z \in Cells, b \in Actors : locals[Z][b] # NoCell => of[Z][b] # NoCell,
           r # NoCell => r \in K /\ of[r][a] # NoCell,
           locals' = of, known' = K,
           localRecord' = [localRecord EXCEPT ![a] = r]
    PROVE  LocalsOK'
<1>1. localRecord \in [Actors -> Places] /\ Leads(Locals, known, NoCell) /\ known \subseteq Cells
    BY DEF ActorsInv, WorldOK, LocalsOK, Locals, LocalTables
<1>2. localRecord' \in [Actors -> Places]
    BY <1>1
<1>3. Locals' \in LocalTables
    BY <1>2 DEF Locals, LocalTables
<1>4. ASSUME NEW b \in Actors, localRecord'[b] # NoCell
      PROVE  localRecord'[b] \in K /\ of[localRecord'[b]][b] # NoCell
  <2>1. CASE b = a
      BY <1>1, <1>4, <2>1
  <2>2. CASE b # a
    <3>1. localRecord'[b] = localRecord[b]
        BY <1>1, <2>2
    <3>2. localRecord[b] \in known /\ locals[localRecord[b]][b] # NoCell
        BY <1>1, <1>4, <3>1 DEF Leads, Locals
    <3> QED
        BY <1>1, <3>1, <3>2
  <2> QED
      BY <2>1, <2>2
<1>5. Leads(Locals', known', NoCell)
    BY <1>4 DEF Leads, Locals
<1> QED
    BY <1>3, <1>5 DEF LocalsOK

LEMMA LocalsStay ==
    ASSUME ActorsInv, NEW of \in [Cells -> [Actors -> Places]], NEW a \in Actors,
           NEW K \in SUBSET Cells, known \subseteq K,
           \A Z \in Cells, b \in Actors : locals[Z][b] # NoCell => of[Z][b] # NoCell,
           locals' = of, known' = K, UNCHANGED localRecord
    PROVE  LocalsOK'
<1>1. localRecord \in [Actors -> Places] /\ known \subseteq Cells
    BY DEF ActorsInv, WorldOK, LocalsOK, Locals, LocalTables
<1>2. PICK r \in Places : r = localRecord[a]
    BY <1>1
<1>3. localRecord' = [localRecord EXCEPT ![a] = r]
    BY <1>1, <1>2
<1>4. r # NoCell => r \in known /\ locals[r][a] # NoCell
    BY <1>2 DEF ActorsInv, LocalsOK, Leads, Locals
<1>5. r # NoCell => r \in K /\ of[r][a] # NoCell
    BY <1>1, <1>4
<1> QED
    BY <1>3, <1>5, LocalsLead

\* The objects of t for the other actors and perhaps more, and another record for a.
LEMMA DedicatedLead ==
    ASSUME NEW t \in DedicatedTables, NEW of \in [Cells -> [Actors -> Followers]], NEW a \in Actors, NEW r \in Places,
           NEW K \in SUBSET Cells, Leads(t, K, NoActor),
           \A Z \in Cells, b \in Actors : b # a /\ t.of[Z][b] # NoActor => of[Z][b] # NoActor,
           r # NoCell => r \in K /\ of[r][a] # NoActor,
           dedicated' = of, known' = K,
           dedicatedRecord' = [t.record EXCEPT ![a] = r]
    PROVE  DedicatedOK'
<1>1. t.record \in [Actors -> Places]
    BY DEF DedicatedTables
<1>2. dedicatedRecord' \in [Actors -> Places]
    BY <1>1
<1>3. Dedicated' \in DedicatedTables
    BY <1>2 DEF Dedicated, DedicatedTables
<1>4. ASSUME NEW b \in Actors, dedicatedRecord'[b] # NoCell
      PROVE  dedicatedRecord'[b] \in K /\ of[dedicatedRecord'[b]][b] # NoActor
  <2>1. CASE b = a
      BY <1>1, <1>4, <2>1
  <2>2. CASE b # a
    <3>1. dedicatedRecord'[b] = t.record[b]
        BY <1>1, <2>2
    <3>2. t.record[b] \in K /\ t.of[t.record[b]][b] # NoActor
        BY <1>4, <3>1 DEF Leads
    <3> QED
        BY <2>2, <3>1, <3>2
  <2> QED
      BY <2>1, <2>2
<1>5. Leads(Dedicated', known', NoActor)
    BY <1>4 DEF Leads, Dedicated
<1> QED
    BY <1>3, <1>5 DEF DedicatedOK

LEMMA LeadsMore ==
    ASSUME NEW t, NEW K, NEW L, NEW none, K \subseteq L, Leads(t, K, none)
    PROVE  Leads(t, L, none)
BY DEF Leads

-----------------------------------------------------------------------------
(* Packets. *)

LEMMA ReceiveAuthorityKeeps ==
    ASSUME ActorsInv, NEW X \in Cells, NEW own \in BOOLEAN, ReceiveAuthority(X, own)
    PROVE  ActorsInv'
<1>1. /\ phase = "packets" /\ phase' = phase /\ known' = known \cup {X}
      /\ UNCHANGED <<todo, place, active, eligible>>
      /\ mine' \subseteq mine \cup {X}
    BY DEF ReceiveAuthority
<1>2. WorldOK' /\ FreeInv'
    BY <1>1 DEF ActorsInv, WorldOK, FreeInv
<1>3. Locals \in LocalTables /\ Dedicated \in DedicatedTables /\ place \in [Actors -> Cells] /\ known \subseteq Cells
    BY DEF ActorsInv, WorldOK, LocalsOK, DedicatedOK
<1>4. Leads(Locals, known', NoCell) /\ Leads(Dedicated, known', NoActor)
    BY <1>1, LeadsMore DEF ActorsInv, LocalsOK, DedicatedOK
<1>5. known' \in SUBSET Cells /\ X \in known'
    BY <1>1, <1>3
<1>6. CASE own
  <2>1. BecomeDedicated(UninitializeDedicated(Dedicated, X, Actors))
        /\ BecomeLocals(UpdateLocals(InitializeLocals(Locals, X), X))
      BY <1>6 DEF ReceiveAuthority
  <2>2. PICK d \in DedicatedTables : d = UninitializeDedicated(Dedicated, X, Actors) /\ Leads(d, known', NoActor)
      BY <1>3, <1>4, <1>5, UninitializeDedicatedFacts
  <2>3. DedicatedOK'
      BY <2>1, <2>2, Become DEF DedicatedOK
  <2>4. PICK t \in LocalTables : t = InitializeLocals(Locals, X) /\ Leads(t, known', NoCell)
      BY <1>3, <1>4, <1>5, InitializeLocalsFacts
  <2>5. PICK u \in LocalTables : u = UpdateLocals(t, X) /\ Leads(u, known', NoCell)
      BY <1>1, <1>5, <2>4, UpdateLocalsFacts
  <2>6. LocalsOK'
      BY <2>1, <2>4, <2>5, Become DEF LocalsOK
  <2> QED
      BY <1>2, <2>3, <2>6 DEF ActorsInv
<1>7. CASE ~own
  <2>1. BecomeLocals(UninitializeLocals(Locals, X)) /\ UNCHANGED dedicatedVars
      BY <1>7 DEF ReceiveAuthority
  <2>2. PICK t \in LocalTables : t = UninitializeLocals(Locals, X) /\ Leads(t, known' \ {X}, NoCell)
      BY <1>3, <1>4, <1>5, UninitializeLocalsFacts
  <2>3. LocalsOK'
      BY <2>1, <2>2, Become, LeadsMore DEF LocalsOK
  <2>4. DedicatedOK'
      BY <1>3, <1>4, <2>1, Become DEF DedicatedOK
  <2> QED
      BY <1>2, <2>3, <2>4 DEF ActorsInv
<1> QED
    BY <1>6, <1>7

LEMMA ReceiveMovementKeeps ==
    ASSUME ActorsInv, NEW X \in Cells, NEW S \in SUBSET Actors, ReceiveMovement(X, S)
    PROVE  ActorsInv'
<1>1. /\ phase = "packets" /\ phase' = phase /\ known' = known \cup {X}
      /\ BecomeDedicated(InitializeDedicated(Dedicated, X, S))
      /\ UNCHANGED <<todo, place, active, mine, eligible>> /\ UNCHANGED localVars
    BY DEF ReceiveMovement
<1>2. WorldOK' /\ FreeInv'
    BY <1>1 DEF ActorsInv, WorldOK, FreeInv
<1>3. LocalsOK'
    BY <1>1, Become, LeadsMore DEF ActorsInv, LocalsOK
<1>4. PICK d \in DedicatedTables : d = InitializeDedicated(Dedicated, X, S) /\ Leads(d, known', NoActor)
    BY <1>1, InitializeDedicatedFacts DEF ActorsInv, WorldOK, DedicatedOK
<1>5. DedicatedOK'
    BY <1>1, <1>4, Become DEF DedicatedOK
<1> QED
    BY <1>2, <1>3, <1>5 DEF ActorsInv

LEMMA ReceiveStateKeeps ==
    ASSUME ActorsInv, NEW X \in Cells, NEW S \in SUBSET Actors, ReceiveState(X, S)
    PROVE  ActorsInv'
<1>1. /\ phase = "packets" /\ phase' = phase /\ known' = known \cup {X}
      /\ UNCHANGED <<todo, place, active, mine, eligible>> /\ UNCHANGED localVars
    BY DEF ReceiveState
<1>2. WorldOK' /\ FreeInv'
    BY <1>1 DEF ActorsInv, WorldOK, FreeInv
<1>3. LocalsOK'
    BY <1>1, Become, LeadsMore DEF ActorsInv, LocalsOK
<1>4. PICK t \in DedicatedTables : t = InitializeDedicated(Dedicated, X, S) /\ Leads(t, known', NoActor)
    BY <1>1, InitializeDedicatedFacts DEF ActorsInv, WorldOK, DedicatedOK
<1>5. known' \in SUBSET Cells
    BY <1>2 DEF WorldOK
<1>6. \/ BecomeDedicated(t)
      \/ BecomeDedicated(UninitializeDedicated(t, X, S))
      \/ \E done \in SUBSET S, missing \in S :
             BecomeDedicated([UninitializeDedicated(t, X, done) EXCEPT !.record[missing] = NoCell])
  <2>1. PICK present : present = {a \in S : t.of[X][a] # NoActor}
      OBVIOUS
  <2>2. \/ BecomeDedicated(t)
        \/ BecomeDedicated(UninitializeDedicated(t, X, S))
        \/ \E done \in SUBSET present, missing \in S \ present :
               BecomeDedicated([UninitializeDedicated(t, X, done) EXCEPT !.record[missing] = NoCell])
      BY <1>4, <2>1 DEF ReceiveState
  <2>3. present \subseteq S
      BY <2>1
  <2> QED
      BY <2>2, <2>3
<1>7. ASSUME BecomeDedicated(t) PROVE DedicatedOK'
    BY <1>4, <1>7, Become DEF DedicatedOK
<1>8. ASSUME BecomeDedicated(UninitializeDedicated(t, X, S)) PROVE DedicatedOK'
  <2>1. PICK d \in DedicatedTables : d = UninitializeDedicated(t, X, S) /\ Leads(d, known', NoActor)
      BY <1>4, <1>5, UninitializeDedicatedFacts
  <2> QED
      BY <1>8, <2>1, Become DEF DedicatedOK
<1>9. ASSUME NEW done \in SUBSET S, NEW missing \in S,
             BecomeDedicated([UninitializeDedicated(t, X, done) EXCEPT !.record[missing] = NoCell])
      PROVE  DedicatedOK'
  <2>1. PICK u \in DedicatedTables : u = UninitializeDedicated(t, X, done) /\ Leads(u, known', NoActor)
      BY <1>4, <1>5, UninitializeDedicatedFacts
  <2>2. PICK d : d = [u EXCEPT !.record[missing] = NoCell]
      OBVIOUS
  <2>3. /\ d = [of |-> u.of, record |-> d.record]
        /\ d.of = u.of /\ d.record = [u.record EXCEPT ![missing] = NoCell]
      BY <2>2 DEF DedicatedTables
  <2>4. d \in DedicatedTables
      BY <2>3 DEF DedicatedTables, Places
  <2>5. Leads(d, known', NoActor)
      BY <2>1, <2>3 DEF Leads, DedicatedTables
  <2> QED
      BY <1>9, <2>1, <2>2, <2>4, <2>5, Become DEF DedicatedOK
<1>10. DedicatedOK'
    BY <1>6, <1>7, <1>8, <1>9
<1> QED
    BY <1>2, <1>3, <1>10 DEF ActorsInv

LEMMA EnableActorKeeps ==
    ASSUME ActorsInv, NEW a \in Actors, EnableActor(a)
    PROVE  ActorsInv'
<1>1. /\ phase = "packets"
      /\ UNCHANGED <<phase, todo, place, active>> /\ UNCHANGED cellVars /\ UNCHANGED dedicatedVars
    BY DEF EnableActor
<1>2. WorldOK' /\ FreeInv'
    BY <1>1 DEF ActorsInv, WorldOK, FreeInv, cellVars
<1>3. DedicatedOK'
    BY <1>1, Become DEF ActorsInv, DedicatedOK, cellVars
<1>4. PICK X \in Cells : X = place[a]
    BY DEF ActorsInv, WorldOK
<1>5. X \in known /\ locals' = [locals EXCEPT ![X][a] = X] /\ localRecord' = [localRecord EXCEPT ![a] = X]
    BY <1>4 DEF EnableActor, HasLocalAuthority
<1>6. locals \in [Cells -> [Actors -> Places]] /\ localRecord \in [Actors -> Places] /\ Leads(Locals, known, NoCell)
    BY DEF ActorsInv, LocalsOK, Locals, LocalTables
<1>7. /\ locals' \in [Cells -> [Actors -> Places]]
      /\ \A Z \in Cells, b \in Actors : Z # X \/ b # a => locals'[Z][b] = locals[Z][b]
      /\ locals'[X][a] = X
  <2>1. X \in Places
      BY DEF Places
  <2> QED
      BY <1>5, <1>6, <2>1, SetEntry
<1>8. localRecord' \in [Actors -> Places] /\ known' = known
    BY <1>1, <1>5, <1>6 DEF Places, cellVars
<1>9. Locals' \in LocalTables
    BY <1>7, <1>8 DEF Locals, LocalTables
<1>10. Leads(Locals', known', NoCell)
    BY <1>5, <1>6, <1>7, <1>8, NoCellAssumption DEF Leads, Locals, Places
<1> QED
    BY <1>2, <1>3, <1>9, <1>10 DEF ActorsInv, LocalsOK

LEMMA UpdateForNewcomerKeeps ==
    ASSUME ActorsInv, NEW X \in Cells, UpdateForNewcomer(X)
    PROVE  ActorsInv'
<1>1. /\ phase = "packets" /\ BecomeLocals(UpdateLocals(Locals, X))
      /\ UNCHANGED <<phase, todo, place, active>> /\ UNCHANGED cellVars /\ UNCHANGED dedicatedVars
    BY DEF UpdateForNewcomer
<1>2. WorldOK' /\ FreeInv'
    BY <1>1 DEF ActorsInv, WorldOK, FreeInv, cellVars
<1>3. DedicatedOK'
    BY <1>1, Become DEF ActorsInv, DedicatedOK, cellVars
<1>4. PICK t \in LocalTables : t = UpdateLocals(Locals, X) /\ Leads(t, known, NoCell)
    BY UpdateLocalsFacts DEF ActorsInv, WorldOK, LocalsOK
<1>5. LocalsOK'
    BY <1>1, <1>4, Become DEF LocalsOK, cellVars
<1> QED
    BY <1>2, <1>3, <1>5 DEF ActorsInv

LEMMA UninitializeCellsKeeps ==
    ASSUME ActorsInv, UninitializeCells
    PROVE  ActorsInv'
<1>1. /\ phase = "packets" /\ active' = {} /\ known' = {} /\ mine' = {} /\ eligible' = {}
      /\ UNCHANGED <<phase, todo, place>>
    BY DEF UninitializeCells
<1>2. WorldOK' /\ FreeInv'
    BY <1>1 DEF ActorsInv, WorldOK, FreeInv
<1>3. \A a \in Actors : localRecord[a] # NoCell => \E X \in Cells : IsLocal(X, a)
    BY DEF ActorsInv, WorldOK, LocalsOK, Leads, Locals, IsLocal
<1>4. \A a \in Actors : dedicatedRecord[a] # NoCell => \E X \in Cells : IsDedicated(X, a)
    BY DEF ActorsInv, WorldOK, DedicatedOK, Leads, Dedicated, IsDedicated
<1>5. localRecord' = [a \in Actors |-> NoCell] /\ dedicatedRecord' = [a \in Actors |-> NoCell]
  <2>1. localRecord' = [a \in Actors |-> IF \E X \in Cells : IsLocal(X, a) THEN NoCell ELSE localRecord[a]]
      BY DEF UninitializeCells
  <2>2. dedicatedRecord' = [a \in Actors |-> IF \E X \in Cells : IsDedicated(X, a) THEN NoCell ELSE dedicatedRecord[a]]
      BY DEF UninitializeCells
  <2> QED
      BY <1>3, <1>4, <2>1, <2>2
<1>6. LocalsOK'
  <2>1. locals' = [X \in Cells |-> [a \in Actors |-> NoCell]]
      BY DEF UninitializeCells
  <2> QED
      BY <1>5, <2>1 DEF LocalsOK, Locals, LocalTables, Leads, Places
<1>7. DedicatedOK'
  <2>1. dedicated' = [X \in Cells |-> [a \in Actors |-> NoActor]]
      BY DEF UninitializeCells
  <2> QED
      BY <1>5, <2>1, NoActorType DEF DedicatedOK, Dedicated, DedicatedTables, Leads, Places
<1> QED
    BY <1>2, <1>6, <1>7 DEF ActorsInv

LEMMA ReceiveCellChangeKeeps ==
    ASSUME ActorsInv, NEW X \in Cells, NEW a \in Actors, NEW Y \in Cells, ReceiveCellChange(X, a, Y)
    PROVE  ActorsInv'
<1> DEFINE t == InitializeDedicated(Dedicated, X, {a})
           e == t.of[X][a]
           told == [t.of EXCEPT ![X][a].cell = Y]
           denied == t.record[a] # NoCell /\ told[t.record[a]][a].cell # Y
           lost == e.ptr # Y /\ ~denied /\ e.ptr # place[a]
           moves == e.ptr # Y /\ ~denied
           there == [cell |-> Y, ptr |-> IF moves THEN Y ELSE e.ptr]
           moved == IF ~moves THEN Locals.of
                    ELSE IF localRecord[a] # NoCell THEN [locals EXCEPT ![localRecord[a]][a] = Y] ELSE locals
           others == IF moves /\ localRecord[a] = NoCell /\ t.record[a] # NoCell
                     THEN [told EXCEPT ![t.record[a]][a].ptr = Y] ELSE told
           Stays == /\ known' = known \cup {X}
                    /\ BecomeDedicated(t)
                    /\ UNCHANGED <<place, eligible, localVars>>
           Throws == /\ e # NoActor /\ lost
                     /\ known' = known \cup {X}
                     /\ BecomeDedicated([t EXCEPT !.of = told])
                     /\ UNCHANGED <<place, eligible, localVars>>
           Crosses == /\ e # NoActor /\ X # Y /\ ~lost
                      /\ place' = IF moves THEN [place EXCEPT ![a] = Y] ELSE place
                      /\ eligible' = IF moves THEN Merged({e.ptr, Y}) ELSE eligible
           Follows == /\ known' = known \cup {X, Y}
                      /\ dedicated' = [others EXCEPT ![X][a] = NoActor, ![Y][a] = there]
                      /\ dedicatedRecord' = [t.record EXCEPT ![a] = Y]
                      /\ locals' = moved /\ UNCHANGED localRecord
           Ends == /\ known' = known \cup {X}
                   /\ dedicated' = [others EXCEPT ![X][a] = NoActor]
                   /\ dedicatedRecord' = [t.record EXCEPT ![a] = NoCell]
           OursNow == /\ HasLocalAuthority(Y)
                      /\ locals' = [moved EXCEPT ![Y][a] = there.ptr]
                      /\ localRecord' = [localRecord EXCEPT ![a] = Y]
           NotOurs == locals' = moved /\ UNCHANGED localRecord
<1>1. /\ phase = "packets" /\ UNCHANGED <<phase, todo, active, mine>>
      /\ Stays \/ Throws \/ (Crosses /\ (Follows \/ (Ends /\ (OursNow \/ NotOurs))))
    BY DEF ReceiveCellChange
<1>2. PICK K \in SUBSET Cells : K = known \cup {X}
    BY DEF ActorsInv, WorldOK
<1>3. t \in DedicatedTables /\ Leads(t, K, NoActor)
    BY <1>2, InitializeDedicatedFacts DEF ActorsInv, WorldOK, DedicatedOK
<1> HIDE DEF t
<1>4. t.of \in [Cells -> [Actors -> Followers]] /\ t.record \in [Actors -> Places] /\ t = [of |-> t.of, record |-> t.record]
    BY <1>3 DEF DedicatedTables
<1>5. e \in Followers
    BY <1>4
<1>6. ASSUME e # NoActor
      PROVE  /\ told \in [Cells -> [Actors -> Followers]]
             /\ \A Z \in Cells, b \in Actors : t.of[Z][b] # NoActor => told[Z][b] # NoActor
  <2>1. PICK of \in [Cells -> [Actors -> Followers]] : of = t.of
      BY <1>4
  <2>2. told = Retold(of, X, a, Y) /\ of[X][a] # NoActor
      BY <1>6, <2>1 DEF Retold
  <2> HIDE DEF told
  <2>3. told \in [Cells -> [Actors -> Followers]]
      BY <2>2, RetoldFacts
  <2>4. Keeps(of, told)
      BY <2>2, RetoldFacts
  <2> QED
      BY <2>1, <2>3, <2>4 DEF Keeps
<1>7. /\ moved \in [Cells -> [Actors -> Places]]
      /\ \A Z \in Cells, b \in Actors : locals[Z][b] # NoCell => moved[Z][b] # NoCell
  <2>1. moved = locals \/ (localRecord[a] # NoCell /\ moved = [locals EXCEPT ![localRecord[a]][a] = Y])
      BY DEF Locals
  <2> HIDE DEF moved
  <2> QED
      BY <2>1, MovedFacts
<1>8. place \in [Actors -> Cells]
    BY DEF ActorsInv, WorldOK
<1>9. e # NoActor => e.ptr \in Cells
    BY <1>5, FollowerHas
<1> HIDE DEF e, told, moved
<1>10. ASSUME e # NoActor
       PROVE  /\ others \in [Cells -> [Actors -> Followers]]
              /\ \A Z \in Cells, b \in Actors : t.of[Z][b] # NoActor => others[Z][b] # NoActor
  <2>1. CASE others = told
      BY <1>6, <1>10, <2>1
  <2>2. ASSUME t.record[a] # NoCell, others = [told EXCEPT ![t.record[a]][a].ptr = Y]
        PROVE  /\ others \in [Cells -> [Actors -> Followers]]
               /\ \A Z \in Cells, b \in Actors : t.of[Z][b] # NoActor => others[Z][b] # NoActor
    <3>1. PICK r \in Cells : r = t.record[a]
        BY <1>4, <2>2 DEF Places
    <3>2. PICK of \in [Cells -> [Actors -> Followers]] : of = told /\ of[r][a] # NoActor
        BY <1>3, <1>6, <1>10, <2>2, <3>1 DEF Leads
    <3>3. PICK o : o = Repointed(of, r, a, Y)
        OBVIOUS
    <3>4. others = o
        BY <2>2, <3>1, <3>2, <3>3 DEF Repointed
    <3>5. o \in [Cells -> [Actors -> Followers]]
        BY <3>2, <3>3, RepointedFacts
    <3>6. Keeps(of, o)
        BY <3>2, <3>3, RepointedFacts
    <3> HIDE DEF others
    <3> QED
        BY <1>6, <1>10, <3>2, <3>4, <3>5, <3>6 DEF Keeps
  <2> QED
      BY <2>1, <2>2
<1>11. e # NoActor => there \in Followers /\ there # NoActor /\ there.ptr \in Places /\ there.ptr # NoCell
  <2>1. there = [cell |-> Y, ptr |-> there.ptr] /\ (there.ptr = Y \/ there.ptr = e.ptr)
      OBVIOUS
  <2> HIDE DEF there
  <2>2. e # NoActor => there.ptr \in Cells
      BY <1>9, <2>1
  <2>3. e # NoActor => there \in Followers /\ there # NoActor
      BY <2>1, <2>2, FollowerIs
  <2> QED
      BY <2>2, <2>3, NoCellAssumption DEF Places
<1>12. Crosses => eligible' \subseteq known
  <2>1. Merged({e.ptr, Y}) \subseteq known
      BY DEF Merged, HasLocalAuthority, ActorsInv, WorldOK
  <2>2. eligible \subseteq known
      BY DEF ActorsInv, WorldOK
  <2> QED
      BY <2>1, <2>2
<1>13. Crosses => place' \in [Actors -> Cells]
    BY <1>8
<1> HIDE DEF others, there, lost, moves
<1>14. FreeInv'
    BY <1>1 DEF FreeInv
<1>15. known \subseteq known' /\ known' \subseteq Cells
    BY <1>1, <1>2 DEF ActorsInv, WorldOK
<1>16. WorldOK'
  <2>1. place' \in [Actors -> Cells] /\ eligible' \subseteq known
      BY <1>1, <1>12, <1>13 DEF ActorsInv, WorldOK
  <2> QED
      BY <1>1, <1>15, <2>1 DEF ActorsInv, WorldOK
<1>17. ASSUME Stays \/ Throws PROVE LocalsOK' /\ DedicatedOK'
  <2>1. known' = K /\ UNCHANGED localVars
      BY <1>2, <1>17
  <2>2. LocalsOK'
      BY <1>15, <2>1, Become, LeadsMore DEF ActorsInv, LocalsOK
  <2>3. CASE BecomeDedicated(t)
      BY <1>3, <2>1, <2>2, <2>3, Become DEF DedicatedOK
  <2>4. ASSUME e # NoActor, BecomeDedicated([t EXCEPT !.of = told]) PROVE DedicatedOK'
    <3>1. PICK d : d = [t EXCEPT !.of = told]
        OBVIOUS
    <3>2. d = [of |-> told, record |-> t.record]
        BY <1>4, <3>1
    <3>3. d \in DedicatedTables
        BY <1>4, <1>6, <2>4, <3>2 DEF DedicatedTables
    <3>4. Leads(d, K, NoActor)
        BY <1>2, <1>3, <2>4, <1>6, <3>2 DEF Leads
    <3> QED
        BY <2>1, <2>4, <3>1, <3>3, <3>4, Become DEF DedicatedOK
  <2> QED
      BY <1>17, <2>2, <2>3, <2>4
<1>18. ASSUME Crosses, Follows PROVE LocalsOK' /\ DedicatedOK'
  <2>1. PICK L \in SUBSET Cells : L = known \cup {X, Y}
      BY <1>2
  <2>2. known' = L /\ known \subseteq L /\ K \subseteq L /\ Y \in L /\ X # Y /\ e # NoActor
      BY <1>2, <1>18, <2>1
  <2>3. LocalsOK'
      BY <1>7, <1>18, <2>2, LocalsStay
  <2>4. PICK o : o = [others EXCEPT ![X][a] = NoActor]
      OBVIOUS
  <2>5. /\ o \in [Cells -> [Actors -> Followers]]
        /\ \A Z \in Cells, b \in Actors : Z # X \/ b # a => o[Z][b] = others[Z][b]
      BY <1>10, <2>2, <2>4, NoActorType, SetEntry
  <2>6. PICK of : of = [o EXCEPT ![Y][a] = there]
      OBVIOUS
  <2>7. /\ of \in [Cells -> [Actors -> Followers]] /\ of[Y][a] = there
        /\ \A Z \in Cells, b \in Actors : Z # Y \/ b # a => of[Z][b] = o[Z][b]
      BY <1>11, <2>2, <2>5, <2>6, SetEntry
  <2>8. dedicated' = of
      BY <1>18, <2>4, <2>6
  <2>9. PICK u \in DedicatedTables : u = t /\ Leads(u, L, NoActor)
                                  /\ \A Z \in Cells, b \in Actors : b # a /\ u.of[Z][b] # NoActor => of[Z][b] # NoActor
    <3>1. Leads(t, L, NoActor)
        BY <1>3, <2>2, LeadsMore
    <3> QED
        BY <1>3, <1>10, <2>2, <2>5, <2>7, <3>1
  <2>10. Y \in Places /\ Y \in L /\ of[Y][a] # NoActor
      BY <1>11, <2>2, <2>7 DEF Places
  <2>11. dedicatedRecord' = [u.record EXCEPT ![a] = Y]
      BY <1>18, <2>9
  <2>12. DedicatedOK'
      BY <2>2, <2>7, <2>8, <2>9, <2>10, <2>11, DedicatedLead
  <2> QED
      BY <2>3, <2>12
<1>19. ASSUME Crosses, Ends, OursNow \/ NotOurs PROVE LocalsOK' /\ DedicatedOK'
  <2>1. known' = K /\ known \subseteq K /\ e # NoActor
      BY <1>2, <1>19
  <2>2. ASSUME NotOurs PROVE LocalsOK'
      BY <1>7, <2>1, <2>2, LocalsStay
  <2>3. ASSUME OursNow PROVE LocalsOK'
    <3>1. PICK of : of = [moved EXCEPT ![Y][a] = there.ptr]
        OBVIOUS
    <3>2. /\ of \in [Cells -> [Actors -> Places]] /\ of[Y][a] = there.ptr
          /\ \A Z \in Cells, b \in Actors : Z # Y \/ b # a => of[Z][b] = moved[Z][b]
        BY <1>7, <1>11, <2>1, <3>1, SetEntry
    <3>3. \A Z \in Cells, b \in Actors : locals[Z][b] # NoCell => of[Z][b] # NoCell
        BY <1>7, <1>11, <2>1, <3>2
    <3>4. Y \in Places /\ Y \in K /\ of[Y][a] # NoCell
        BY <1>11, <2>1, <2>3, <3>2 DEF HasLocalAuthority, Places
    <3>5. locals' = of /\ localRecord' = [localRecord EXCEPT ![a] = Y]
        BY <2>3, <3>1
    <3> QED
        BY <2>1, <3>2, <3>3, <3>4, <3>5, LocalsLead
  <2>4. PICK of : of = [others EXCEPT ![X][a] = NoActor]
      OBVIOUS
  <2>5. /\ of \in [Cells -> [Actors -> Followers]]
        /\ \A Z \in Cells, b \in Actors : Z # X \/ b # a => of[Z][b] = others[Z][b]
      BY <1>10, <2>1, <2>4, NoActorType, SetEntry
  <2>6. PICK u \in DedicatedTables : u = t /\ Leads(u, K, NoActor)
                                  /\ \A Z \in Cells, b \in Actors : b # a /\ u.of[Z][b] # NoActor => of[Z][b] # NoActor
      BY <1>3, <1>10, <2>1, <2>5
  <2>7. NoCell \in Places /\ dedicated' = of /\ dedicatedRecord' = [u.record EXCEPT ![a] = NoCell]
      BY <1>19, <2>4, <2>6 DEF Places
  <2>8. DedicatedOK'
      BY <2>1, <2>5, <2>6, <2>7, DedicatedLead
  <2> QED
      BY <1>19, <2>2, <2>3, <2>8
<1> QED
    BY <1>1, <1>14, <1>16, <1>17, <1>18, <1>19 DEF ActorsInv

-----------------------------------------------------------------------------
(* The frame after the packets. *)

LEMMA UpdateDedicatedKeeps ==
    ASSUME ActorsInv, UpdateDedicated
    PROVE  ActorsInv'
<1>1. /\ phase' = "cells" /\ todo' = known
      /\ UNCHANGED <<place, active>> /\ UNCHANGED cellVars /\ UNCHANGED localVars
      /\ dedicated' = [X \in Cells |-> IF X \in mine THEN [a \in Actors |-> NoActor] ELSE dedicated[X]]
      /\ dedicatedRecord' =
             [a \in Actors |-> IF \E X \in mine : IsDedicated(X, a) THEN NoCell ELSE dedicatedRecord[a]]
    BY DEF UpdateDedicated, Released
<1>2. WorldOK'
    BY <1>1 DEF ActorsInv, WorldOK, cellVars
<1>3. LocalsOK'
    BY <1>1, Become DEF ActorsInv, LocalsOK, cellVars
<1>4. mine' = mine /\ known' = known /\ mine \subseteq Cells
    BY <1>1 DEF cellVars, ActorsInv, WorldOK
<1>5. FreeInv'
    BY <1>1, <1>4 DEF FreeInv, IsDedicated
<1>6. /\ dedicated \in [Cells -> [Actors -> Followers]] /\ dedicatedRecord \in [Actors -> Places]
      /\ Leads(Dedicated, known, NoActor) /\ known \subseteq Cells
    BY DEF ActorsInv, WorldOK, DedicatedOK, Dedicated, DedicatedTables
<1>7. dedicated' \in [Cells -> [Actors -> Followers]] /\ dedicatedRecord' \in [Actors -> Places]
  <2>1. dedicated' \in [Cells -> [Actors -> Followers]]
      BY <1>1, <1>6, NoActorType
  <2>2. dedicatedRecord' \in [Actors -> Places]
      BY <1>1, <1>6 DEF Places
  <2> QED
      BY <2>1, <2>2
<1>8. ASSUME NEW a \in Actors, dedicatedRecord'[a] # NoCell
      PROVE  dedicatedRecord'[a] \in known /\ dedicated'[dedicatedRecord'[a]][a] # NoActor
  <2>1. dedicatedRecord'[a] = dedicatedRecord[a] /\ ~\E X \in mine : IsDedicated(X, a)
      BY <1>1, <1>8
  <2>2. PICK X : X = dedicatedRecord[a]
      OBVIOUS
  <2>3. X \in known /\ dedicated[X][a] # NoActor
      BY <1>6, <1>8, <2>1, <2>2 DEF Leads, Dedicated
  <2>4. X \notin mine
      BY <2>1, <2>3 DEF IsDedicated
  <2>5. dedicated'[X][a] = dedicated[X][a]
      BY <1>1, <1>6, <2>3, <2>4
  <2> QED
      BY <2>1, <2>2, <2>3, <2>5
<1>9. DedicatedOK'
    BY <1>4, <1>7, <1>8 DEF DedicatedOK, Dedicated, DedicatedTables, Leads
<1> QED
    BY <1>2, <1>3, <1>5, <1>9 DEF ActorsInv

LEMMA DropCellKeeps ==
    ASSUME ActorsInv, NEW X \in Cells, DropCell(X)
    PROVE  ActorsInv'
<1>1. /\ phase = "cells" /\ todo' = todo \ {X}
      /\ BecomeLocals(UninitializeLocals(Locals, X))
      /\ BecomeDedicated(UninitializeDedicated(Dedicated, X, Actors))
      /\ known' = known \ {X} /\ mine' = mine \ {X} /\ eligible' = eligible \ {X}
      /\ UNCHANGED <<phase, place, active>>
    BY DEF DropCell
<1>2. WorldOK'
    BY <1>1 DEF ActorsInv, WorldOK
<1>3. PICK t \in LocalTables : t = UninitializeLocals(Locals, X) /\ Leads(t, known \ {X}, NoCell)
    BY UninitializeLocalsFacts DEF ActorsInv, WorldOK, LocalsOK
<1>4. LocalsOK'
    BY <1>1, <1>3, Become DEF LocalsOK
<1>5. PICK d \in DedicatedTables : d = UninitializeDedicated(Dedicated, X, Actors) /\ Leads(d, known \ {X}, NoActor)
    BY UninitializeDedicatedFacts DEF ActorsInv, WorldOK, DedicatedOK
<1>6. DedicatedOK'
    BY <1>1, <1>5, Become DEF DedicatedOK
<1>7. dedicated' = [dedicated EXCEPT ![X] = [a \in Actors |-> NoActor]]
  <2>1. dedicated' = [dedicated EXCEPT ![X] = [a \in Actors |-> IF a \in Actors THEN NoActor ELSE @[a]]]
      BY <1>1 DEF BecomeDedicated, UninitializeDedicated, Dedicated
  <2> QED
      BY <2>1
<1>8. FreeInv'
    BY <1>1, <1>7 DEF ActorsInv, WorldOK, DedicatedOK, Dedicated, DedicatedTables, FreeInv, IsDedicated
<1> QED
    BY <1>2, <1>4, <1>6, <1>8 DEF ActorsInv

LEMMA UpdateCellKeeps ==
    ASSUME ActorsInv, NEW X \in Cells, UpdateCell(X)
    PROVE  ActorsInv'
<1>1. /\ phase = "cells" /\ todo' = todo \ {X}
      /\ BecomeLocals(UpdateLocals(Locals, X)) \/ UNCHANGED localVars
      /\ UNCHANGED <<phase, place, active>> /\ UNCHANGED cellVars /\ UNCHANGED dedicatedVars
    BY DEF UpdateCell
<1>2. WorldOK' /\ FreeInv'
    BY <1>1 DEF ActorsInv, WorldOK, FreeInv, cellVars, dedicatedVars, IsDedicated
<1>3. DedicatedOK'
    BY <1>1, Become DEF ActorsInv, DedicatedOK, cellVars
<1>4. PICK t \in LocalTables : t = UpdateLocals(Locals, X) /\ Leads(t, known, NoCell)
    BY UpdateLocalsFacts DEF ActorsInv, WorldOK, LocalsOK
<1>5. LocalsOK'
  <2>1. ASSUME BecomeLocals(UpdateLocals(Locals, X)) PROVE LocalsOK'
      BY <1>1, <1>4, <2>1, Become DEF LocalsOK, cellVars
  <2>2. ASSUME UNCHANGED localVars PROVE LocalsOK'
      BY <1>1, <2>2, Become DEF ActorsInv, LocalsOK, cellVars
  <2> QED
      BY <1>1, <2>1, <2>2
<1> QED
    BY <1>2, <1>3, <1>5 DEF ActorsInv

LEMMA UpdateEligibleKeeps ==
    ASSUME ActorsInv, UpdateEligible
    PROVE  ActorsInv'
<1>1. PICK new : new = {a \in Actors : place[a] \in eligible /\ ~IsLocal(place[a], a)}
    OBVIOUS
<1>2. /\ phase = "cells" /\ todo = {} /\ phase' = "world" /\ eligible' = {}
      /\ locals' = [X \in Cells |-> [a \in Actors |-> IF a \in new /\ place[a] = X THEN X ELSE locals[X][a]]]
      /\ localRecord' = [a \in Actors |-> IF a \in new THEN place[a] ELSE localRecord[a]]
      /\ UNCHANGED <<todo, place, active, known, mine>> /\ UNCHANGED dedicatedVars
    BY <1>1 DEF UpdateEligible
<1>3. WorldOK' /\ FreeInv'
    BY <1>2 DEF ActorsInv, WorldOK, FreeInv, IsDedicated, dedicatedVars
<1>4. DedicatedOK'
    BY <1>2, Become DEF ActorsInv, DedicatedOK
<1>5. /\ locals \in [Cells -> [Actors -> Places]] /\ localRecord \in [Actors -> Places]
      /\ Leads(Locals, known, NoCell) /\ place \in [Actors -> Cells]
      /\ known \subseteq Cells /\ eligible \subseteq known
    BY DEF ActorsInv, WorldOK, LocalsOK, Locals, LocalTables
<1>6. locals' \in [Cells -> [Actors -> Places]] /\ localRecord' \in [Actors -> Places]
    BY <1>2, <1>5 DEF Places
<1>7. ASSUME NEW a \in Actors, localRecord'[a] # NoCell
      PROVE  localRecord'[a] \in known /\ locals'[localRecord'[a]][a] # NoCell
  <2>1. CASE a \in new
    <3>1. localRecord'[a] = place[a] /\ place[a] \in known
        BY <1>1, <1>2, <1>5, <2>1
    <3>2. locals'[place[a]][a] = place[a]
        BY <1>2, <1>5, <2>1
    <3> QED
        BY <1>5, <3>1, <3>2, NoCellAssumption
  <2>2. CASE a \notin new
    <3>1. localRecord'[a] = localRecord[a]
        BY <1>2, <2>2
    <3>2. PICK X : X = localRecord[a]
        OBVIOUS
    <3>3. X \in known /\ locals[X][a] # NoCell
        BY <1>5, <1>7, <3>1, <3>2 DEF Leads, Locals
    <3>4. locals'[X][a] = locals[X][a]
        BY <1>2, <1>5, <2>2, <3>3
    <3> QED
        BY <3>1, <3>2, <3>3, <3>4
  <2> QED
      BY <2>1, <2>2
<1>8. LocalsOK'
    BY <1>2, <1>6, <1>7 DEF LocalsOK, Locals, LocalTables, Leads
<1> QED
    BY <1>3, <1>4, <1>8 DEF ActorsInv

-----------------------------------------------------------------------------
(* The world. *)

\* A DedicatedActor that the world moves has been one before.
LEMMA MoveActorKeeps ==
    ASSUME ActorsInv, NEW a \in Actors, NEW Y \in Cells, NEW follows \in BOOLEAN, MoveActor(a, Y, follows)
    PROVE  ActorsInv'
<1>1. PICK r : r = dedicatedRecord[a]
    OBVIOUS
<1>2. PICK told : told = IF follows /\ r # NoCell THEN [dedicated EXCEPT ![r][a].cell = Y] ELSE dedicated
    OBVIOUS
<1>3. /\ phase \in {"packets", "world"}
      /\ place' = [place EXCEPT ![a] = Y]
      /\ eligible' = Merged({place[a], Y})
      /\ \/ /\ localRecord[a] # NoCell
            /\ locals' = [locals EXCEPT ![localRecord[a]][a] = Y]
            /\ dedicated' = told
         \/ /\ dedicated' = IF r # NoCell THEN [told EXCEPT ![r][a].ptr = Y] ELSE told
            /\ UNCHANGED locals
      /\ UNCHANGED <<phase, todo, active, known, mine, localRecord, dedicatedRecord>>
    BY <1>1, <1>2 DEF MoveActor
<1>4. /\ dedicated \in [Cells -> [Actors -> Followers]] /\ dedicatedRecord \in [Actors -> Places]
      /\ Leads(Dedicated, known, NoActor)
    BY DEF ActorsInv, DedicatedOK, Dedicated, DedicatedTables
<1>5. r # NoCell => r \in Cells /\ dedicated[r][a] # NoActor
    BY <1>1, <1>4 DEF ActorsInv, WorldOK, Leads, Dedicated
<1> DEFINE Same(of) == /\ of \in [Cells -> [Actors -> Followers]]
                       /\ \A Z \in Cells, b \in Actors : of[Z][b] # NoActor <=> dedicated[Z][b] # NoActor
<1>6. Same(told)
  <2>1. ASSUME r # NoCell, told = [dedicated EXCEPT ![r][a].cell = Y] PROVE Same(told)
    <3>1. told = Retold(dedicated, r, a, Y)
        BY <2>1 DEF Retold
    <3>2. PICK was \in [Cells -> [Actors -> Followers]] : was = dedicated
        BY <1>4
    <3>3. r \in Cells /\ told = Retold(was, r, a, Y)
        BY <1>5, <2>1, <3>1, <3>2
    <3>4. was[r][a] # NoActor
        BY <1>5, <2>1, <3>2
    <3>5. told \in [Cells -> [Actors -> Followers]]
        BY <3>3, <3>4, RetoldFacts
    <3>6. Keeps(was, told) /\ Keeps(told, was)
        BY <3>3, <3>4, RetoldFacts
    <3> QED
        BY <3>2, <3>5, <3>6 DEF Keeps
  <2>2. CASE told = dedicated
      BY <1>4, <2>2
  <2> QED
      BY <1>2, <2>1, <2>2
<1>7. PICK of : of = dedicated' /\ Same(of)
  <2>1. CASE dedicated' = told
      BY <1>6, <2>1
  <2>2. ASSUME r # NoCell, dedicated' = [told EXCEPT ![r][a].ptr = Y]
        PROVE  \E of : of = dedicated' /\ Same(of)
    <3>1. PICK of : of = Repointed(told, r, a, Y)
        OBVIOUS
    <3>2. of = dedicated'
        BY <2>2, <3>1 DEF Repointed
    <3>3. r \in Cells /\ told \in [Cells -> [Actors -> Followers]]
        BY <1>5, <1>6, <2>2
    <3>4. told[r][a] # NoActor
        BY <1>5, <1>6, <2>2
    <3>5. of \in [Cells -> [Actors -> Followers]]
        BY <3>1, <3>3, <3>4, RepointedFacts
    <3>6. Keeps(told, of) /\ Keeps(of, told)
        BY <3>1, <3>3, <3>4, RepointedFacts
    <3>7. Same(of)
        BY <1>6, <3>5, <3>6 DEF Keeps
    <3> QED
        BY <3>2, <3>7
  <2> QED
      BY <1>3, <2>1, <2>2
<1>8. WorldOK'
  <2>1. eligible' \subseteq known
      BY <1>3 DEF Merged, HasLocalAuthority, ActorsInv, WorldOK
  <2> QED
      BY <1>3, <2>1 DEF ActorsInv, WorldOK
<1>9. DedicatedOK'
  <2>1. dedicatedRecord' = dedicatedRecord /\ known' = known /\ known \subseteq Cells
      BY <1>3 DEF ActorsInv, WorldOK
  <2>2. Dedicated' \in DedicatedTables
      BY <1>4, <1>7, <2>1 DEF Dedicated, DedicatedTables
  <2>3. Leads(Dedicated', known', NoActor)
      BY <1>4, <1>7, <2>1 DEF Leads, Dedicated
  <2> QED
      BY <2>2, <2>3 DEF DedicatedOK
<1>10. FreeInv'
    BY <1>3, <1>7 DEF ActorsInv, WorldOK, FreeInv, IsDedicated
<1>11. LocalsOK'
  <2>1. PICK moved : moved = locals' /\ (moved = locals \/ (localRecord[a] # NoCell /\ moved = [locals EXCEPT ![localRecord[a]][a] = Y]))
      BY <1>3
  <2>2. /\ moved \in [Cells -> [Actors -> Places]]
        /\ \A Z \in Cells, b \in Actors : locals[Z][b] # NoCell => moved[Z][b] # NoCell
      BY <2>1, MovedFacts
  <2>3. PICK K \in SUBSET Cells : K = known /\ known' = K
      BY <1>3 DEF ActorsInv, WorldOK
  <2> QED
      BY <1>3, <2>1, <2>2, <2>3, LocalsStay
<1> QED
    BY <1>8, <1>9, <1>10, <1>11 DEF ActorsInv

LEMMA QuietKeeps ==
    ASSUME ActorsInv, (\E X \in Cells : MergeRefs(X)) \/ ChangeActive \/ NextFrame \/ UNCHANGED vars
    PROVE  ActorsInv'
<1>1. UNCHANGED <<todo, place, known, mine>> /\ UNCHANGED localVars /\ UNCHANGED dedicatedVars
    BY DEF MergeRefs, ChangeActive, NextFrame, vars, cellVars, localVars, dedicatedVars
<1>2. LocalsOK' /\ DedicatedOK'
    BY <1>1, Become DEF ActorsInv, LocalsOK, DedicatedOK
<1>3. /\ phase' = phase \/ (phase = "world" /\ phase' = "packets")
      /\ active' \subseteq Cells /\ eligible' \subseteq known
    BY DEF MergeRefs, ChangeActive, NextFrame, vars, cellVars, Merged, HasLocalAuthority, ActorsInv, WorldOK
<1>4. WorldOK' /\ FreeInv'
    BY <1>1, <1>3 DEF ActorsInv, WorldOK, FreeInv, IsDedicated, dedicatedVars
<1> QED
    BY <1>2, <1>4 DEF ActorsInv

-----------------------------------------------------------------------------

LEMMA InvariantInit == Init => ActorsInv
<1> SUFFICES ASSUME Init PROVE ActorsInv
    OBVIOUS
<1>1. WorldOK
    BY DEF Init, WorldOK
<1>2. LocalsOK
    BY DEF Init, LocalsOK, Locals, LocalTables, Leads, Places
<1>3. DedicatedOK
    BY NoActorType DEF Init, DedicatedOK, Dedicated, DedicatedTables, Leads, Places
<1>4. FreeInv
    BY DEF Init, FreeInv
<1> QED
    BY <1>1, <1>2, <1>3, <1>4 DEF ActorsInv

LEMMA InvariantKept == ActorsInv /\ [Next]_vars => ActorsInv'
<1> SUFFICES ASSUME ActorsInv, [Next]_vars PROVE ActorsInv'
    OBVIOUS
<1> USE MoversAssumption
<1>1. CASE Packets
  <2>1. ASSUME NEW X \in Cells, NEW own \in BOOLEAN, ReceiveAuthority(X, own) PROVE ActorsInv'
      BY <2>1, ReceiveAuthorityKeeps
  <2>2. ASSUME NEW X \in Cells, NEW S \in SUBSET Actors, ReceiveMovement(X, S) PROVE ActorsInv'
      BY <2>2, ReceiveMovementKeeps
  <2>3. ASSUME NEW X \in Cells, NEW S \in SUBSET Actors, ReceiveState(X, S) PROVE ActorsInv'
      BY <2>3, ReceiveStateKeeps
  <2>4. ASSUME NEW X \in Cells, NEW Y \in Cells, NEW a \in Actors, ReceiveCellChange(X, a, Y) PROVE ActorsInv'
      BY <2>4, ReceiveCellChangeKeeps
  <2>5. ASSUME NEW a \in Actors, EnableActor(a) PROVE ActorsInv'
      BY <2>5, EnableActorKeeps
  <2>6. ASSUME NEW X \in Cells, UpdateForNewcomer(X) PROVE ActorsInv'
      BY <2>6, UpdateForNewcomerKeeps
  <2>7. CASE UninitializeCells
      BY <2>7, UninitializeCellsKeeps
  <2> QED
      BY <1>1, <2>1, <2>2, <2>3, <2>4, <2>5, <2>6, <2>7 DEF Packets
<1>2. CASE Update
  <2>1. CASE UpdateDedicated
      BY <2>1, UpdateDedicatedKeeps
  <2>2. ASSUME NEW X \in Cells, DropCell(X) PROVE ActorsInv'
      BY <2>2, DropCellKeeps
  <2>3. ASSUME NEW X \in Cells, UpdateCell(X) PROVE ActorsInv'
      BY <2>3, UpdateCellKeeps
  <2>4. CASE UpdateEligible
      BY <2>4, UpdateEligibleKeeps
  <2> QED
      BY <1>2, <2>1, <2>2, <2>3, <2>4 DEF Update
<1>3. CASE World
  <2>1. ASSUME NEW a \in Actors, NEW Y \in Cells, NEW follows \in BOOLEAN, MoveActor(a, Y, follows) PROVE ActorsInv'
      BY <2>1, MoveActorKeeps
  <2>2. CASE (\E X \in Cells : MergeRefs(X)) \/ ChangeActive \/ NextFrame
      BY <2>2, QuietKeeps
  <2> QED
      BY <1>3, <2>1, <2>2 DEF World
<1>4. CASE UNCHANGED vars
    BY <1>4, QuietKeeps
<1> QED
    BY <1>1, <1>2, <1>3, <1>4 DEF Next

LEMMA Invariant == Spec => []ActorsInv
BY InvariantInit, InvariantKept, PTL DEF Spec

\* Types.
THEOREM TypeCorrect == Spec => []TypeOK
BY Invariant, InvariantImplies, PTL

\* Whoever follows a record finds the cell and the object.
THEOREM RecordsAlwaysLead == Spec => []RecordsLead
BY Invariant, InvariantImplies, PTL

\* While the world is updated nobody else moves the actors of our cells.
THEOREM OwnActorsAlwaysFree == Spec => []OwnActorsFree
<1>1. ActorsInv => OwnActorsFree
    BY DEF ActorsInv, FreeInv, OwnActorsFree
<1> QED
    BY <1>1, Invariant, PTL
===============================================================================
