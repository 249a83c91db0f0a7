--------------------------- MODULE ServerSession ---------------------------
(***************************************************************************)
(* Who is connected to the dedicated server and who owns which seat:       *)
(* ServerSession.cpp and the session part of ServerState.h.                *)
(*                                                                         *)
(* A peer is an ENet transport slot of the host.  A peer session becomes   *)
(* an accepted player once Hello has bound it to a player id (a seat).     *)
(* Seats come from a free list; a seat that is given up leaves its name    *)
(* and win count behind so that the same name can reclaim it from the      *)
(* lobby.                                                                  *)
(*                                                                         *)
(* std::nullopt is the value NoPlayer, NoSlot or NoReclaim.  The sorted    *)
(* free-list array playerIdPool is its set of ids, acquirePlayerId taking  *)
(* the least one.                                                          *)
(***************************************************************************)
EXTENDS Integers

CONSTANTS
  Peers,        \* ENet peers of the host (kServerPeerSessionCapacity of them)
  MaxPlayers,   \* kMaxPlayers
  Names,        \* player names a Hello may carry
  NoName,       \* the name of an empty seat, not a player name
  WinsModulus   \* wins is a uint8_t: 256

ASSUME MaxPlayersAssumption == MaxPlayers \in Nat \ {0}
ASSUME NoNameAssumption == NoName \notin Names
ASSUME WinsAssumption == WinsModulus \in Nat \ {0}

VARIABLES
  link,       \* transport state of each peer
  playerOf,   \* PeerSession::playerId of each peer
  freeIds,    \* playerIdPool
  slots,      \* playerSlots
  reclaims    \* disconnectedPlayerReclaims

sessionVars == <<link, playerOf, freeIds, slots, reclaims>>

PlayerIds == 0 .. MaxPlayers - 1
NoPlayer == -1
WinCounts == 0 .. WinsModulus - 1

NoSlot == [name |-> NoName, ready |-> FALSE, wins |-> 0]
NoReclaim == [name |-> NoName, wins |-> 0]

(***************************************************************************)
(* What ENet lets the server do with a peer.  A packet is received from,   *)
(* and can be queued to, an "open" peer only: enet_peer_send refuses a     *)
(* peer that is not CONNECTED and the dispatcher hands out packets of      *)
(* CONNECTED peers only.  A "closing" peer has left that state (the remote *)
(* side went away, or enet_peer_disconnect_later was called) and its       *)
(* DISCONNECT event is still to be serviced.                               *)
(***************************************************************************)
LinkStates == {"free", "open", "closing"}

SessionTypeOK ==
  /\ link \in [Peers -> LinkStates]
  /\ playerOf \in [Peers -> PlayerIds \cup {NoPlayer}]
  /\ freeIds \subseteq PlayerIds
  /\ slots \in [PlayerIds ->
                  [name : Names \cup {NoName}, ready : BOOLEAN, wins : WinCounts]]
  /\ reclaims \in [PlayerIds -> [name : Names \cup {NoName}, wins : WinCounts]]

SessionInit ==
  /\ link = [p \in Peers |-> "free"]
  /\ playerOf = [p \in Peers |-> NoPlayer]
  /\ freeIds = PlayerIds
  /\ slots = [id \in PlayerIds |-> NoSlot]
  /\ reclaims = [id \in PlayerIds |-> NoReclaim]

-----------------------------------------------------------------------------
Occupied(id) == slots[id].name # NoName
Reclaimable(id) == reclaims[id].name # NoName

\* The ids bound to a live peer session: what the server calls accepted players.
BoundIds(owner) == {owner[p] : p \in Peers} \ {NoPlayer}
Accepted == BoundIds(playerOf)

\* Seats that Hello may give back to this name.
ReclaimableBy(name) == {id \in freeIds : Reclaimable(id) /\ reclaims[id].name = name}

IsLowest(id, S) == id \in S /\ \A other \in S : id <= other

\* reserveHelloPlayerId: the lowest seat left under this name, else the lowest
\* free one (with no free id there is no reservation).
Reserves(name, id) ==
  IF ReclaimableBy(name) # {} THEN IsLowest(id, ReclaimableBy(name))
                              ELSE IsLowest(id, freeIds)

\* Mutant: the seat's last wins, whoever had them.
CarriedWinsOfSeat(name, id) == reclaims[id].wins

CarriedWins(name, id) == IF ReclaimableBy(name) # {} THEN reclaims[id].wins ELSE 0

\* Mutant: the reclaim entry stays.
AcceptKeepingReclaim(p, id) ==
  /\ playerOf' = [playerOf EXCEPT ![p] = id]
  /\ freeIds' = freeIds \ {id}
  /\ UNCHANGED reclaims

\* acceptPeerSession: bind the seat to the session and forget its reclaim entry;
\* SeatTaken is the seat's new metadata.
AcceptPeerSession(p, id) ==
  /\ playerOf' = [playerOf EXCEPT ![p] = id]
  /\ freeIds' = freeIds \ {id}
  /\ reclaims' = [reclaims EXCEPT ![id] = NoReclaim]

SeatTaken(id, name, wins) ==
  [slots EXCEPT ![id] = [name |-> name, ready |-> FALSE, wins |-> wins]]

\* releasePeerSession for an accepted peer, up to the flow notification: the
\* seat is emptied, its name and wins kept for a reclaim, its id freed and the
\* session storage cleared.
ReleasePeerSession(p, id) ==
  /\ link' = [link EXCEPT ![p] = "free"]
  /\ playerOf' = [playerOf EXCEPT ![p] = NoPlayer]
  /\ freeIds' = freeIds \cup {id}
  /\ reclaims' = IF Occupied(id)
                 THEN [reclaims EXCEPT ![id] =
                         [name |-> slots[id].name, wins |-> slots[id].wins]]
                 ELSE reclaims

SeatLeft(id) == [slots EXCEPT ![id] = NoSlot]

AllUnready(seats) == [id \in PlayerIds |-> [seats[id] EXCEPT !.ready = FALSE]]

-----------------------------------------------------------------------------
(***************************************************************************)
(* Sessions, seats and the free list never disagree: a seat is free, or    *)
(* occupied by exactly one live peer session; an id is never handed to two *)
(* peers; and a reclaim entry only ever stands for a free seat, so         *)
(* accepting somebody can never shadow a connected player's wins.          *)
(* (acquirePlayerId, acquireSpecificPlayerId, releasePlayerId,             *)
(* acceptPeerSession, releasePeerSession, and queueWelcome's undo.)        *)
(***************************************************************************)
SeatOwnership ==
  /\ \A p \in Peers : playerOf[p] # NoPlayer => link[p] # "free"
  /\ \A p, q \in Peers : playerOf[p] = playerOf[q] /\ playerOf[p] # NoPlayer => p = q
  /\ freeIds = PlayerIds \ Accepted
  /\ \A id \in PlayerIds : Occupied(id) <=> id \in Accepted
  /\ \A id \in PlayerIds : Reclaimable(id) => id \in freeIds
=============================================================================
