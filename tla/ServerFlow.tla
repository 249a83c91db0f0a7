----------------------------- MODULE ServerFlow -----------------------------
(***************************************************************************)
(* The dedicated server's round flow: lobby, countdown, match bootstrap,   *)
(* match, end of match, driven by control packets, disconnects and the     *)
(* fixed simulation tick (ServerControlHandlers.cpp, ServerLobbyFlow.cpp,  *)
(* ServerFlow.cpp, ServerMatchFlow.cpp, ServerEvents.cpp and the flow part *)
(* of ServerSimulation.cpp).                                               *)
(*                                                                         *)
(* The server is one thread: each action is one whole event handler or one *)
(* whole simulation tick, and any order of them may happen.                *)
(*                                                                         *)
(* Abstractions.                                                           *)
(*  - A deadline field d of the code is kept as the ticks left until it,   *)
(*    0 once it is due, and Unset when the field is 0.                     *)
(*  - Player masks are sets of ids.                                        *)
(*  - The arena is three sets of ids (who has match state, who is alive,   *)
(*    whose input is unlocked) and whether any bomb is on the map; which   *)
(*    bomb kills whom is left open.                                        *)
(*  - lastFlow[p] is the batch of round-flow messages that the last        *)
(*    handler to queue any queued to p on the reliable ordered control     *)
(*    channel.  Welcome and Reject, which no round depends on, are not     *)
(*    recorded.                                                            *)
(***************************************************************************)
EXTENDS ServerSession, Sequences

CONSTANTS
  CountdownTicks,    \* kLobbyCountdownTicks
  LoadTimeoutTicks,  \* kMatchStartLoadTimeoutTicks
  UnlockDelayTicks,  \* kMatchStartUnlockDelayTicks
  ReturnTicks,       \* kEndOfMatchReturnTicks
  TickRate,          \* sim::kTickRate
  MaxMatches         \* bound of the model: players stop readying up after it

ASSUME TicksAssumption ==
  {CountdownTicks, LoadTimeoutTicks, UnlockDelayTicks, ReturnTicks, TickRate}
    \subseteq Nat \ {0}
ASSUME MaxMatchesAssumption == MaxMatches \in Nat

VARIABLES
  phase,
  matchId, nextMatchId,      \* currentMatchId, nextMatchId
  countdownMask,             \* currentLobbyCountdownPlayerMask
  playerMask, loadedMask,    \* currentMatchPlayerMask, currentMatchLoadedMask
  timer,                     \* the four deadline ticks
  lastSecond,                \* currentLobbyCountdownLastBroadcastSecond
  inMatch, alive, unlocked,  \* matchPlayers: present, alive, not inputLocked
  bombsLive,                 \* some entry of bombs is occupied
  roundWinner, roundDraw,    \* roundWinnerPlayerId, roundEndedInDraw
  lastLobbyState,            \* content of the last LobbyState broadcast
  lastFlow,                  \* last batch of round-flow messages per peer
  clientLoaded               \* environment: newest match each client has loaded

roundVars == <<phase, matchId, nextMatchId, countdownMask, playerMask, loadedMask,
               timer, lastSecond, roundWinner, roundDraw>>
arenaVars == <<inMatch, alive, unlocked, bombsLive>>
wireVars == <<lastLobbyState, lastFlow>>
vars == <<sessionVars, roundVars, arenaVars, wireVars, clientLoaded>>

Phases == {"Lobby", "LobbyCountdown", "StartingMatch", "InMatch", "EndOfMatch"}
RoundPhases == {"StartingMatch", "InMatch", "EndOfMatch"}

Unset == -1
TicksLeft == Nat \cup {Unset}
Timers == [countdown : TicksLeft, load : TicksLeft, unlock : TicksLeft, return : TicksLeft]
NoTimers == [countdown |-> Unset, load |-> Unset, unlock |-> Unset, return |-> Unset]

\* Mutant: a deadline counted down whether it is armed or not.
PassedUnguarded(left) == left - 1

\* The deadline fields one tick later.
Passed(left) == IF left > 0 THEN left - 1 ELSE left
Elapsed(t) == [countdown |-> Passed(t.countdown), load |-> Passed(t.load),
               unlock |-> Passed(t.unlock), return |-> Passed(t.return)]

HasMinimumParticipants(mask) == \E i, j \in mask : i # j

-----------------------------------------------------------------------------
(* Messages to the clients. *)

FlowMsg(type, match) == [type |-> type, match |-> match]
LobbyStateMsg == FlowMsg("LobbyState", 0)
FlowMsgs ==
  {LobbyStateMsg} \cup
  [type : {"LevelInfo", "MatchCancelled", "MatchStart", "MatchResult"}, match : Nat]

\* A reliable control packet is queued exactly when the peer is still open.
Queues(id) == \E p \in Peers : playerOf[p] = id /\ link[p] = "open"

\* lastFlow after queueing batch[id] to every accepted player id.
Queued(batch) ==
  [p \in Peers |->
     IF playerOf'[p] = NoPlayer THEN <<>>
     ELSE IF link'[p] = "open" /\ batch[playerOf'[p]] # <<>> THEN batch[playerOf'[p]]
     ELSE lastFlow[p]]

To(ids, msgs) == [id \in PlayerIds |-> IF id \in ids THEN msgs ELSE <<>>]

CountdownSeconds(left) == (left + TickRate - 1) \div TickRate

LobbyStateOf(ph, seats, owner, left) ==
  [phase   |-> IF ph = "LobbyCountdown" THEN "Countdown" ELSE "Idle",
   seconds |-> IF ph = "LobbyCountdown" /\ left # Unset THEN CountdownSeconds(left) ELSE 0,
   seats   |-> [id \in PlayerIds |-> IF id \in BoundIds(owner) THEN seats[id] ELSE NoSlot]]

\* broadcastLobbyState, after the batch already queued by the same handler.
BroadcastLobbyStateAfter(batch) ==
  /\ lastLobbyState' = LobbyStateOf(phase', slots', playerOf', timer'.countdown)
  /\ lastFlow' = Queued([id \in PlayerIds |-> Append(batch[id], LobbyStateMsg)])

BroadcastLobbyState == BroadcastLobbyStateAfter(To({}, <<>>))

-----------------------------------------------------------------------------
(* Flow transitions shared by several handlers.  Their argument is the      *)
(* seats as the handler has left them.                                      *)

\* Mutant: the match state of the players survives the round.
ResetKeepingMatchPlayers(seats) ==
  /\ phase' = "Lobby"
  /\ matchId' = 0
  /\ countdownMask' = {} /\ playerMask' = {} /\ loadedMask' = {}
  /\ timer' = NoTimers
  /\ lastSecond' = 0
  /\ roundWinner' = NoPlayer /\ roundDraw' = FALSE
  /\ slots' = AllUnready(seats)
  /\ UNCHANGED <<inMatch, alive, unlocked>> /\ bombsLive' = FALSE

ResetRoundRuntimeToLobby(seats) ==
  /\ phase' = "Lobby"
  /\ matchId' = 0
  /\ countdownMask' = {} /\ playerMask' = {} /\ loadedMask' = {}
  /\ timer' = NoTimers
  /\ lastSecond' = 0
  /\ roundWinner' = NoPlayer /\ roundDraw' = FALSE
  /\ slots' = AllUnready(seats)
  /\ inMatch' = {} /\ alive' = {} /\ unlocked' = {} /\ bombsLive' = FALSE

\* Mutant: participants told, the lobby not broadcast.
CancelWithoutLobbyState(m, batch, notify, seats) ==
  /\ ResetRoundRuntimeToLobby(seats)
  /\ lastFlow' = Queued([id \in PlayerIds |-> IF id \in notify
                                              THEN Append(batch[id], FlowMsg("MatchCancelled", m))
                                              ELSE batch[id]])
  /\ UNCHANGED lastLobbyState

\* cancelStartingMatch for match m: batch is what its participants were already
\* queued by this handler, notify the ids that are told of the cancellation.
CancelStartingMatch(m, batch, notify, seats) ==
  /\ ResetRoundRuntimeToLobby(seats)
  /\ BroadcastLobbyStateAfter(
       [id \in PlayerIds |-> IF id \in notify
                             THEN Append(batch[id], FlowMsg("MatchCancelled", m))
                             ELSE batch[id]])

\* The state of a lobby whose countdown is not running, ready flags aside.
LobbyWithoutCountdown ==
  /\ phase' = "Lobby"
  /\ countdownMask' = {}
  /\ timer' = [timer EXCEPT !.countdown = Unset]
  /\ lastSecond' = 0

\* Mutant: ready flags cleared, the countdown left running.
UnreadyKeepingCountdown(seats) ==
  /\ UNCHANGED <<phase, countdownMask, timer, lastSecond>>
  /\ slots' = AllUnready(seats)
  /\ BroadcastLobbyState

ResetLobbyParticipantsToUnready(seats) ==
  /\ LobbyWithoutCountdown
  /\ slots' = AllUnready(seats)
  /\ BroadcastLobbyState

CancelLobbyCountdown(seats) ==
  /\ LobbyWithoutCountdown
  /\ slots' = seats
  /\ BroadcastLobbyState

\* Mutant: the lobby is not told.
CountdownUnannounced(participants, seats) ==
  /\ phase' = "LobbyCountdown"
  /\ countdownMask' = participants
  /\ timer' = [timer EXCEPT !.countdown = CountdownTicks]
  /\ lastSecond' = CountdownSeconds(CountdownTicks)
  /\ slots' = seats
  /\ UNCHANGED wireVars

StartLobbyCountdown(participants, seats) ==
  /\ phase' = "LobbyCountdown"
  /\ countdownMask' = participants
  /\ timer' = [timer EXCEPT !.countdown = CountdownTicks]
  /\ lastSecond' = CountdownSeconds(CountdownTicks)
  /\ slots' = seats
  /\ BroadcastLobbyState

\* beginEndOfMatch with the players still in the match and those still alive;
\* t is the timers as the handler found them.
BeginEndOfMatch(participants, survivors, seats, t) ==
  /\ phase' = "EndOfMatch"
  /\ roundDraw' = (survivors = {})
  /\ roundWinner' = IF survivors = {} THEN NoPlayer ELSE CHOOSE id \in survivors : TRUE
  /\ slots' = [id \in PlayerIds |->
                 IF roundWinner' = id /\ seats[id].name # NoName
                 THEN [seats[id] EXCEPT !.wins = (@ + 1) % WinsModulus]
                 ELSE seats[id]]
  /\ timer' = [t EXCEPT !.unlock = Unset, !.return = ReturnTicks]
  /\ inMatch' = participants /\ alive' = survivors /\ unlocked' = {}
  /\ bombsLive' = FALSE
  /\ lastFlow' = Queued(To(playerMask', <<FlowMsg("MatchResult", matchId)>>))
  /\ UNCHANGED lastLobbyState

\* Mutant: a last survivor plays on.
NobodyLeft(participants, survivors) == participants # {} /\ survivors = {}

\* evaluateRoundEnd and the disconnect path: at most one player is left alive.
RoundDecided(participants, survivors) ==
  participants # {} /\ \A i, j \in survivors : i = j

-----------------------------------------------------------------------------
(* Transport events. *)

Connect(p) ==
  /\ link[p] = "free"
  /\ link' = [link EXCEPT ![p] = "open"]
  /\ playerOf' = [playerOf EXCEPT ![p] = NoPlayer]
  /\ UNCHANGED <<freeIds, slots, reclaims, roundVars, arenaVars, wireVars, clientLoaded>>

\* The remote side goes away or times out; ENet stops accepting packets for it
\* before the server is told.
PeerCloses(p) ==
  /\ link[p] = "open"
  /\ link' = [link EXCEPT ![p] = "closing"]
  /\ UNCHANGED <<playerOf, freeIds, slots, reclaims, roundVars, arenaVars, wireVars,
                 clientLoaded>>

DisconnectUnaccepted(p) ==
  /\ link[p] = "closing" /\ playerOf[p] = NoPlayer
  /\ link' = [link EXCEPT ![p] = "free"]
  /\ UNCHANGED <<playerOf, freeIds, slots, reclaims, roundVars, arenaVars, wireVars>>
  /\ clientLoaded' = [clientLoaded EXCEPT ![p] = 0]

\* handleAcceptedPlayerReleased, one operator per branch, id already released.

ReleasedInLobby(id) ==
  /\ phase \in {"Lobby", "LobbyCountdown"}
  /\ playerMask' = playerMask \ {id} /\ loadedMask' = loadedMask \ {id}
  /\ inMatch' = inMatch \ {id} /\ alive' = alive \ {id} /\ unlocked' = unlocked \ {id}
  /\ ResetLobbyParticipantsToUnready(SeatLeft(id))
  /\ UNCHANGED <<matchId, nextMatchId, roundWinner, roundDraw, bombsLive>>

\* Mutant: a started match is cancelled too.
ReleasedCancelsAnyMatch(id) ==
  /\ phase \in {"StartingMatch", "InMatch"}
  /\ CancelStartingMatch(matchId, To({}, <<>>), playerMask \ {id}, SeatLeft(id))
  /\ UNCHANGED nextMatchId

ReleasedWhileStarting(id) ==
  /\ phase = "StartingMatch"
  /\ CancelStartingMatch(matchId, To({}, <<>>), playerMask \ {id}, SeatLeft(id))
  /\ UNCHANGED nextMatchId

\* The round is reset without telling anybody: nobody is left to tell.
ReleasedLastOfRound(id) ==
  /\ phase \in {"InMatch", "EndOfMatch"}
  /\ playerMask \ {id} = {}
  /\ ResetRoundRuntimeToLobby(SeatLeft(id))
  /\ lastFlow' = Queued(To({}, <<>>))
  /\ UNCHANGED <<nextMatchId, lastLobbyState>>

ReleasedFromRound(id) ==
  /\ phase \in {"InMatch", "EndOfMatch"}
  /\ playerMask \ {id} # {}
  /\ playerMask' = playerMask \ {id} /\ loadedMask' = loadedMask \ {id}
  /\ countdownMask' = countdownMask \ {id}
  /\ UNCHANGED <<matchId, nextMatchId, lastSecond>>
  /\ IF phase = "InMatch" /\ RoundDecided(inMatch \ {id}, alive \ {id})
     THEN BeginEndOfMatch(inMatch \ {id}, alive \ {id}, SeatLeft(id), timer)
     ELSE /\ inMatch' = inMatch \ {id} /\ alive' = alive \ {id}
          /\ unlocked' = unlocked \ {id}
          /\ slots' = SeatLeft(id)
          /\ lastFlow' = Queued(To({}, <<>>))
          /\ UNCHANGED <<phase, timer, roundWinner, roundDraw, bombsLive, lastLobbyState>>

HandleAcceptedPlayerReleased(id) ==
  \/ ReleasedInLobby(id)
  \/ ReleasedWhileStarting(id)
  \/ ReleasedLastOfRound(id)
  \/ ReleasedFromRound(id)

\* handleDisconnectEvent of an accepted peer: releasePeerSession and all it calls.
DisconnectAccepted(p) ==
  /\ link[p] = "closing" /\ playerOf[p] # NoPlayer
  /\ ReleasePeerSession(p, playerOf[p])
  /\ HandleAcceptedPlayerReleased(playerOf[p])
  /\ clientLoaded' = [clientLoaded EXCEPT ![p] = 0]

-----------------------------------------------------------------------------
(* Control packets. *)

\* sendReject ends in enet_peer_disconnect_later, and with the Welcome that
\* cannot be queued the reserved id goes back to the pool: nothing else stays.
RejectHello(p) ==
  /\ link' = [link EXCEPT ![p] = "closing"]
  /\ UNCHANGED <<playerOf, freeIds, slots, reclaims, roundVars, arenaVars, wireVars,
                 clientLoaded>>

HandleAcceptedPlayerJoined(seats) ==
  IF phase \in {"Lobby", "LobbyCountdown"}
  THEN ResetLobbyParticipantsToUnready(seats)
  ELSE /\ slots' = seats
       /\ lastFlow' = Queued(To({}, <<>>))
       /\ UNCHANGED <<phase, countdownMask, timer, lastSecond, lastLobbyState>>

AcceptHello(p, name, id) ==
  /\ AcceptPeerSession(p, id)
  /\ UNCHANGED link
  /\ HandleAcceptedPlayerJoined(SeatTaken(id, name, CarriedWins(name, id)))
  /\ UNCHANGED <<matchId, nextMatchId, playerMask, loadedMask, roundWinner,
                 roundDraw, arenaVars, clientLoaded>>

\* Mutant: the phase is not looked at.
HelloAnyPhase(p, name, versionMatches, welcomeQueued) ==
  /\ link[p] = "open" /\ playerOf[p] = NoPlayer
  /\ IF versionMatches /\ freeIds # {} /\ welcomeQueued
     THEN \E id \in freeIds : Reserves(name, id) /\ AcceptHello(p, name, id)
     ELSE RejectHello(p)

\* onHello from a peer with no seat (to a seated one it only replays Welcome).
\* A Hello that is not rejected on its version or its phase reserves a seat and
\* must get its Welcome queued.
Hello(p, name, versionMatches, welcomeQueued) ==
  /\ link[p] = "open" /\ playerOf[p] = NoPlayer
  /\ IF versionMatches /\ phase \notin RoundPhases /\ freeIds # {} /\ welcomeQueued
     THEN \E id \in freeIds : Reserves(name, id) /\ AcceptHello(p, name, id)
     ELSE RejectHello(p)

\* handleLobbyReadyStateChanged, with the seats as onLobbyReady has left them.
HandleLobbyReadyStateChanged(seats) ==
  LET allReady == \A other \in Accepted : seats[other].ready IN
  IF phase = "LobbyCountdown"
  THEN IF \/ ~allReady
          \/ Accepted # countdownMask
          \/ ~HasMinimumParticipants(Accepted)
       THEN CancelLobbyCountdown(seats)
       ELSE /\ slots' = seats
            /\ UNCHANGED <<phase, countdownMask, timer, lastSecond>>
            /\ BroadcastLobbyState
  ELSE IF allReady /\ HasMinimumParticipants(Accepted)
       THEN StartLobbyCountdown(Accepted, seats)
       ELSE /\ slots' = seats
            /\ UNCHANGED <<phase, countdownMask, timer, lastSecond>>
            /\ BroadcastLobbyState

LobbyReady(p, desired) ==
  LET id == playerOf[p] IN
  /\ link[p] = "open" /\ id # NoPlayer
  /\ phase \in {"Lobby", "LobbyCountdown"}
  /\ Occupied(id) /\ slots[id].ready # desired
  /\ desired => nextMatchId <= MaxMatches
  /\ UNCHANGED <<link, playerOf, freeIds, reclaims, matchId, nextMatchId, playerMask,
                 loadedMask, roundWinner, roundDraw, arenaVars, clientLoaded>>
  /\ HandleLobbyReadyStateChanged([slots EXCEPT ![id].ready = desired])

\* Mutant: inputs are never scheduled to unlock.
CommitWithoutUnlock ==
  IF \A id \in playerMask : Queues(id)
  THEN /\ phase' = "InMatch"
       /\ loadedMask' = playerMask
       /\ timer' = [timer EXCEPT !.load = Unset]
       /\ lastFlow' = Queued(To(playerMask, <<FlowMsg("MatchStart", matchId)>>))
       /\ UNCHANGED <<slots, matchId, countdownMask, playerMask, lastSecond, roundWinner,
                      roundDraw, arenaVars, lastLobbyState>>
  ELSE CancelStartingMatch(matchId, To(playerMask, <<FlowMsg("MatchStart", matchId)>>),
                           playerMask, slots)

\* maybeCommitMatchStart, reached with every participant marked loaded.
CommitMatchStart ==
  IF \A id \in playerMask : Queues(id)
  THEN /\ phase' = "InMatch"
       /\ loadedMask' = playerMask
       /\ timer' = [timer EXCEPT !.load = Unset, !.unlock = UnlockDelayTicks]
       /\ lastFlow' = Queued(To(playerMask, <<FlowMsg("MatchStart", matchId)>>))
       /\ UNCHANGED <<slots, matchId, countdownMask, playerMask, lastSecond, roundWinner,
                      roundDraw, arenaVars, lastLobbyState>>
  ELSE CancelStartingMatch(matchId, To(playerMask, <<FlowMsg("MatchStart", matchId)>>),
                           playerMask, slots)

\* Mutant: whatever match is acknowledged.
AcknowledgesAny(id, m) == id \in playerMask

Acknowledges(id, m) == m = matchId /\ id \in playerMask

\* An acknowledgement counts once; the last one commits the start.
MarkPlayerLoadedForCurrentMatch(id) ==
  /\ id \notin loadedMask
  /\ IF loadedMask \cup {id} = playerMask
     THEN CommitMatchStart
     ELSE /\ loadedMask' = loadedMask \cup {id}
          /\ UNCHANGED <<slots, phase, matchId, countdownMask, playerMask, timer,
                         lastSecond, roundWinner, roundDraw, arenaVars, wireVars>>

\* onMatchLoaded: only a participant's acknowledgement of the current match
\* counts.
MatchLoaded(p, m) ==
  LET id == playerOf[p] IN
  /\ link[p] = "open" /\ id # NoPlayer /\ Occupied(id)
  /\ phase = "StartingMatch"
  /\ Acknowledges(id, m)
  /\ UNCHANGED <<link, playerOf, freeIds, reclaims, nextMatchId, clientLoaded>>
  /\ MarkPlayerLoadedForCurrentMatch(id)

\* Environment: a client that has been sent a LevelInfo builds that level.  The
\* MatchLoaded it then sends may reach the server late, in a later match.
ClientLoads(p) ==
  /\ link[p] = "open"
  /\ \E i \in 1 .. Len(lastFlow[p]) :
       /\ lastFlow[p][i].type = "LevelInfo"
       /\ lastFlow[p][i].match > clientLoaded[p]
       /\ clientLoaded' = [clientLoaded EXCEPT ![p] = lastFlow[p][i].match]
  /\ UNCHANGED <<sessionVars, roundVars, arenaVars, wireVars>>

-----------------------------------------------------------------------------
(* simulateServerTick: ++serverTick, advanceServerFlow, then the simulation.  *)
(* In the lobby a tick changes nothing.                                       *)

\* beginMatchBootstrap.  Participants get their match state and LevelInfo one
\* by one; if any LevelInfo cannot be queued, those that got one are told that
\* the match is cancelled.
BeginMatchBootstrap ==
  LET m       == nextMatchId
      reached == {id \in countdownMask : Queues(id)}
      levelInfo == To(reached, <<FlowMsg("LevelInfo", m)>>)
  IN
  IF \/ \E id \in Accepted : ~slots[id].ready
     \/ Accepted # countdownMask
     \/ ~HasMinimumParticipants(Accepted)
  THEN /\ CancelLobbyCountdown(slots)
       /\ UNCHANGED <<matchId, nextMatchId, playerMask, loadedMask, roundWinner, roundDraw,
                      arenaVars>>
  ELSE /\ nextMatchId' = nextMatchId + 1
       /\ IF reached # countdownMask
          THEN CancelStartingMatch(m, levelInfo, reached, slots)
          ELSE /\ phase' = "StartingMatch"
               /\ matchId' = m
               /\ countdownMask' = {} /\ playerMask' = reached /\ loadedMask' = {}
               /\ timer' = [NoTimers EXCEPT !.load = LoadTimeoutTicks]
               /\ lastSecond' = 0
               /\ roundWinner' = NoPlayer /\ roundDraw' = FALSE
               /\ slots' = AllUnready(slots)
               /\ inMatch' = reached /\ alive' = reached /\ unlocked' = {}
               /\ bombsLive' = FALSE
               /\ lastFlow' = Queued(levelInfo)
               /\ UNCHANGED lastLobbyState

CountdownTick ==
  LET t == Elapsed(timer)
      seconds == CountdownSeconds(t.countdown)
  IN
  /\ phase = "LobbyCountdown"
  /\ t.countdown # Unset
  /\ UNCHANGED <<link, playerOf, freeIds, reclaims, clientLoaded>>
  /\ IF t.countdown = 0
     THEN BeginMatchBootstrap
     ELSE /\ timer' = t
          /\ UNCHANGED <<slots, phase, matchId, nextMatchId, countdownMask, playerMask,
                         loadedMask, roundWinner, roundDraw, arenaVars>>
          /\ lastSecond' = seconds
          /\ IF seconds # lastSecond THEN BroadcastLobbyState ELSE UNCHANGED wireVars

\* Mutant: the load deadline is not looked at.
StartingTickUntimed ==
  /\ phase = "StartingMatch"
  /\ UNCHANGED <<link, playerOf, freeIds, reclaims, nextMatchId, clientLoaded>>
  /\ timer' = Elapsed(timer)
  /\ UNCHANGED <<slots, phase, matchId, countdownMask, playerMask, loadedMask,
                 lastSecond, roundWinner, roundDraw, arenaVars, wireVars>>

\* A participant that never acknowledges its level does not block the others.
StartingTick ==
  LET t == Elapsed(timer) IN
  /\ phase = "StartingMatch"
  /\ UNCHANGED <<link, playerOf, freeIds, reclaims, nextMatchId, clientLoaded>>
  /\ IF t.load = 0
     THEN CancelStartingMatch(matchId, To({}, <<>>), playerMask, slots)
     ELSE /\ timer' = t
          /\ UNCHANGED <<slots, phase, matchId, countdownMask, playerMask, loadedMask,
                         lastSecond, roundWinner, roundDraw, arenaVars, wireVars>>

\* One tick of the match: unlock inputs when due, let unlocked players place
\* bombs, resolve due bombs, and end the round once at most one player lives.
MatchTick ==
  LET t == Elapsed(timer)
      mayAct == IF t.unlock = 0 THEN inMatch ELSE unlocked
      left == [t EXCEPT !.unlock = IF @ = 0 THEN Unset ELSE @]
  IN
  /\ phase = "InMatch"
  /\ UNCHANGED <<link, playerOf, freeIds, reclaims, matchId, nextMatchId, countdownMask,
                 playerMask, loadedMask, lastSecond, clientLoaded>>
  /\ \E killed \in SUBSET alive, bombsAfter \in BOOLEAN :
       /\ killed # {} => bombsLive
       /\ bombsAfter => bombsLive \/ mayAct \cap alive # {}
       /\ IF RoundDecided(inMatch, alive \ killed)
          THEN BeginEndOfMatch(inMatch, alive \ killed, slots, left)
          ELSE /\ alive' = alive \ killed
               /\ unlocked' = mayAct \ killed
               /\ bombsLive' = bombsAfter
               /\ timer' = left
               /\ UNCHANGED <<inMatch, slots, phase, roundWinner, roundDraw, wireVars>>

EndOfMatchTick ==
  LET t == Elapsed(timer) IN
  /\ phase = "EndOfMatch"
  /\ UNCHANGED <<link, playerOf, freeIds, reclaims, nextMatchId, clientLoaded>>
  /\ IF t.return = 0
     THEN ResetRoundRuntimeToLobby(slots) /\ BroadcastLobbyState
     ELSE /\ timer' = t
          /\ UNCHANGED <<slots, phase, matchId, countdownMask, playerMask, loadedMask,
                         lastSecond, roundWinner, roundDraw, arenaVars, wireVars>>

Tick == CountdownTick \/ StartingTick \/ MatchTick \/ EndOfMatchTick

-----------------------------------------------------------------------------
Init ==
  /\ SessionInit
  /\ phase = "Lobby"
  /\ matchId = 0 /\ nextMatchId = 1
  /\ countdownMask = {} /\ playerMask = {} /\ loadedMask = {}
  /\ timer = NoTimers /\ lastSecond = 0
  /\ inMatch = {} /\ alive = {} /\ unlocked = {} /\ bombsLive = FALSE
  /\ roundWinner = NoPlayer /\ roundDraw = FALSE
  /\ lastLobbyState = LobbyStateOf("Lobby", slots, playerOf, Unset)
  /\ lastFlow = [p \in Peers |-> <<>>]
  /\ clientLoaded = [p \in Peers |-> 0]

Next ==
  \/ \E p \in Peers :
       \/ Connect(p) \/ PeerCloses(p)
       \/ DisconnectUnaccepted(p) \/ DisconnectAccepted(p)
       \/ \E name \in Names, versionMatches, welcomeQueued \in BOOLEAN :
            Hello(p, name, versionMatches, welcomeQueued)
       \/ \E desired \in BOOLEAN : LobbyReady(p, desired)
       \/ \E m \in 1 .. clientLoaded[p] : MatchLoaded(p, m)
       \/ ClientLoads(p)
  \/ Tick

Spec == Init /\ [][Next]_vars

\* The main loop of server_main.cpp runs a tick every 1/60 s, and ENet raises
\* the DISCONNECT event of every peer that has left the connected state.
Fairness ==
  /\ WF_vars(Tick)
  /\ \A p \in Peers : WF_vars(DisconnectUnaccepted(p) \/ DisconnectAccepted(p))

FairSpec == Spec /\ Fairness

-----------------------------------------------------------------------------
(* Invariants. *)

TypeOK ==
  /\ SessionTypeOK
  /\ phase \in Phases
  /\ matchId \in Nat /\ nextMatchId \in Nat \ {0}
  /\ countdownMask \subseteq PlayerIds
  /\ playerMask \subseteq PlayerIds /\ loadedMask \subseteq PlayerIds
  /\ timer \in Timers
  /\ lastSecond \in Nat
  /\ inMatch \subseteq PlayerIds /\ alive \subseteq PlayerIds
  /\ unlocked \subseteq PlayerIds /\ bombsLive \in BOOLEAN
  /\ roundWinner \in PlayerIds \cup {NoPlayer} /\ roundDraw \in BOOLEAN
  /\ lastFlow \in [Peers -> Seq(FlowMsgs)]
  /\ clientLoaded \in [Peers -> Nat]

(***************************************************************************)
(* A countdown is always about exactly the players now in the lobby, all   *)
(* of them ready and at least two of them, whatever joins, leaves and      *)
(* unreadies happened since it started.  So the re-validation in           *)
(* beginMatchBootstrap never fails: every countdown that runs out starts a *)
(* round.  (startLobbyCountdown, resetLobbyParticipantsToUnready.)         *)
(***************************************************************************)
CountdownIsCurrent ==
  phase = "LobbyCountdown" =>
    /\ countdownMask = Accepted
    /\ HasMinimumParticipants(Accepted)
    /\ \A id \in Accepted : slots[id].ready
    /\ timer.countdown > 0

(***************************************************************************)
(* While a round runs, its participants, the players with match state and  *)
(* the accepted players are the same set, although three handlers maintain *)
(* them separately: nobody joins a running round, and nobody who left      *)
(* keeps a body in it.  (roundRequiresAdditionalBootstrap,                 *)
(* beginMatchBootstrap, releasePeerSession, handleAcceptedPlayerReleased.) *)
(***************************************************************************)
RoundMembership ==
  phase \in RoundPhases =>
    /\ playerMask = Accepted /\ inMatch = Accepted /\ playerMask # {}
    /\ matchId = nextMatchId - 1 /\ matchId # 0

(***************************************************************************)
(* Between rounds nothing of the last round is left, whichever of the six  *)
(* ways it ended: no participants, match state, bombs, verdict or armed    *)
(* deadline.  (resetRoundRuntimeToLobby and every path that must call it.) *)
(***************************************************************************)
NoRoundResidue ==
  phase \in {"Lobby", "LobbyCountdown"} =>
    /\ matchId = 0
    /\ playerMask = {} /\ loadedMask = {}
    /\ inMatch = {} /\ alive = {} /\ unlocked = {} /\ ~bombsLive
    /\ roundWinner = NoPlayer /\ ~roundDraw
    /\ timer.load = Unset /\ timer.unlock = Unset /\ timer.return = Unset
    /\ phase = "Lobby" => timer.countdown = Unset

(***************************************************************************)
(* The phases of a running round: an incomplete set of acknowledgements    *)
(* and a load deadline while starting; at least two players alive in a     *)
(* match, all unlocked or none; no unlocked input, no bomb and a verdict   *)
(* that names the survivor once it has ended.  In particular the server    *)
(* never sits in StartingMatch with every participant loaded, nor InMatch  *)
(* with the round already decided by a kill or a disconnect.               *)
(* (maybeCommitMatchStart, evaluateRoundEnd, beginEndOfMatch.)             *)
(***************************************************************************)
StartingShape ==
  phase = "StartingMatch" =>
    /\ loadedMask \subseteq playerMask /\ loadedMask # playerMask
    /\ HasMinimumParticipants(playerMask)
    /\ alive = inMatch /\ unlocked = {} /\ ~bombsLive
    /\ timer.load > 0 /\ timer.unlock = Unset /\ timer.return = Unset

MatchShape ==
  phase = "InMatch" =>
    /\ loadedMask = playerMask
    /\ alive \subseteq inMatch /\ HasMinimumParticipants(alive)
    /\ timer.unlock = Unset => unlocked = alive
    /\ timer.unlock # Unset => unlocked = {} /\ ~bombsLive /\ alive = inMatch
    /\ timer.unlock # 0 /\ timer.load = Unset /\ timer.return = Unset

VerdictShape ==
  phase = "EndOfMatch" =>
    /\ unlocked = {} /\ ~bombsLive
    /\ timer.return > 0 /\ timer.load = Unset /\ timer.unlock = Unset
    /\ alive \subseteq {roundWinner}
    /\ roundDraw <=> roundWinner = NoPlayer

RoundShape == StartingShape /\ MatchShape /\ VerdictShape

(***************************************************************************)
(* Nobody is pulled into a match whose level their client has not built:   *)
(* an acknowledgement of an earlier match that arrives late never counts   *)
(* for the current one.  (onMatchLoaded, markPlayerLoadedForCurrentMatch.) *)
(***************************************************************************)
LoadedBeforeStart ==
  phase = "InMatch" =>
    \A p \in Peers : playerOf[p] # NoPlayer => clientLoaded[p] = matchId

(***************************************************************************)
(* What every reachable client was last told agrees with the server: in a  *)
(* round, exactly that round's latest stage; between rounds, the lobby.    *)
(* So no path out of a round strands a client in it.  (All flow sends.)    *)
(***************************************************************************)
LastTold(p) == lastFlow[p][Len(lastFlow[p])]

ToldTheTruth ==
  \A p \in Peers :
    playerOf[p] # NoPlayer /\ link[p] = "open" =>
      /\ lastFlow[p] # <<>>
      /\ LastTold(p) =
           CASE phase = "StartingMatch" -> FlowMsg("LevelInfo", matchId)
             [] phase = "InMatch"       -> FlowMsg("MatchStart", matchId)
             [] phase = "EndOfMatch"    -> FlowMsg("MatchResult", matchId)
             [] OTHER                   -> LobbyStateMsg

(***************************************************************************)
(* The lobby every client shows is the server's lobby: while in the lobby  *)
(* with anybody seated, the last LobbyState broadcast holds the current    *)
(* seats, names, ready flags and win counts, and the second the countdown  *)
(* is in.  A handler that changed any of them and forgot to broadcast      *)
(* would leave all lobbies stale.                                          *)
(***************************************************************************)
LobbyViewIsCurrent ==
  phase \in {"Lobby", "LobbyCountdown"} /\ Accepted # {} =>
    lastLobbyState = LobbyStateOf(phase, slots, playerOf, timer.countdown)

-----------------------------------------------------------------------------
(* An action property. *)

\* What WinsAreEarned asks of one seat in one step.
EarnedStep(id) ==
  /\ Occupied(id) /\ Occupied(id)' =>
       \/ slots'[id].wins = slots[id].wins /\ ~(roundWinner # id /\ roundWinner' = id)
       \/ /\ slots'[id].wins = (slots[id].wins + 1) % WinsModulus
          /\ phase = "InMatch" /\ phase' = "EndOfMatch"
          /\ roundWinner' = id /\ alive' = {id}
  /\ Occupied(id) /\ ~Occupied(id)' =>
       reclaims'[id] = [name |-> slots[id].name, wins |-> slots[id].wins]
  /\ ~Occupied(id) /\ Occupied(id)' =>
       slots'[id].wins =
         IF reclaims[id].name = slots'[id].name THEN reclaims[id].wins ELSE 0
  /\ ~Occupied(id) /\ ~Occupied(id)' => reclaims'[id] = reclaims[id]

(***************************************************************************)
(* A win count changes by exactly one victory: the step that ends the      *)
(* match adds one to its sole survivor.  Otherwise a seat keeps its count, *)
(* leaving files it for the seat's reclaim entry, the same name coming     *)
(* back gets it back, and anybody else starts from zero.                   *)
(***************************************************************************)
WinsAreEarned == [][\A id \in PlayerIds : EarnedStep(id)]_vars

-----------------------------------------------------------------------------
(* The abstract round lifecycle, as this server implements it. *)

StageOf(ph) ==
  CASE ph = "StartingMatch" -> "loading"
    [] ph = "InMatch"       -> "playing"
    [] ph = "EndOfMatch"    -> "over"
    [] OTHER                -> "gathering"

Lifecycle == INSTANCE RoundLifecycle WITH
  Seats   <- PlayerIds,
  Nobody  <- NoPlayer,
  stage   <- StageOf(phase),
  members <- playerMask,
  issued  <- nextMatchId - 1,
  verdict <- [decided |-> phase = "EndOfMatch", winner |-> roundWinner]

(***************************************************************************)
(* The server implements the lifecycle: no handler skips a stage, reopens  *)
(* a round, lets anybody into one, or brings players back from a started   *)
(* match without a verdict.                                                *)
(***************************************************************************)
ImplementsLifecycle == Lifecycle!Spec

-----------------------------------------------------------------------------
(* Liveness under FairSpec. *)

(***************************************************************************)
(* Nothing that the server times can last: a countdown, a bootstrap some   *)
(* client never acknowledges and an end-of-match screen all come to an     *)
(* end, whoever connects, leaves or goes silent meanwhile, and every match *)
(* lets its players play or ends before that.  (advanceServerFlow.)        *)
(***************************************************************************)
TimedPhasesEnd ==
  /\ phase \in {"LobbyCountdown", "StartingMatch", "EndOfMatch"}
       ~> phase \in {"Lobby", "InMatch"}
  /\ phase = "InMatch" ~> unlocked # {} \/ phase # "InMatch"

(***************************************************************************)
(* The lifecycle's own progress: a formed round starts or is aborted, a    *)
(* decided one is left.                                                    *)
(***************************************************************************)
ImplementsFairLifecycle == Lifecycle!FairSpec
=============================================================================
