---------------------------- MODULE PidAllocation ----------------------------
(****************************************************************************)
(* What the server promises its scripts about player ids ("pids"): an id    *)
(* belongs to at most one session, a session keeps the id it was given for  *)
(* as long as it lasts, and a new session gets the lowest id that is free.  *)
(* Every script function of apps/openmw-mp names a player by such an id.    *)
(****************************************************************************)
EXTENDS Integers

CONSTANTS Guids,          \* client identities
          MaxConnections, \* number of ids
          NoPlayer        \* the owner of a free id

VARIABLE owner            \* owner[i]: the session that id i names

Ids == 0 .. MaxConnections - 1

PidInit == owner = [i \in Ids |-> NoPlayer]

\* A session joins: the lowest free id becomes its own.
Join(g, i) ==
    /\ owner[i] = NoPlayer
    /\ \A j \in Ids : owner[j] # g /\ (j < i => owner[j] # NoPlayer)
    /\ owner' = [owner EXCEPT ![i] = g]

\* A session leaves: its id is free again.
Leave(g, i) ==
    /\ owner[i] = g
    /\ owner' = [owner EXCEPT ![i] = NoPlayer]

PidNext == \E g \in Guids, i \in Ids : Join(g, i) \/ Leave(g, i)

PidSpec == PidInit /\ [][PidNext]_owner
=============================================================================
