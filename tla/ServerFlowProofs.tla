-------------------------- MODULE ServerFlowProofs --------------------------
(***************************************************************************)
(* Theorems about ServerFlow for every number of peers, seats, names and   *)
(* ticks. TypeCorrect and SeatsCorrect are inductive on their own; the     *)
(* four round properties are proved together as RoundInv, relative to      *)
(* them, because each needs the others; what the clients were told needs   *)
(* RoundInv and the last second broadcast; the refinement of               *)
(* RoundLifecycle needs RoundInv and that a verdict exists only after a    *)
(* match. Each part has one lemma per action.                              *)
(*                                                                         *)
(* The second half is the rounds from outside: what each client is told,   *)
(* which level it has built when a match starts, what a win counts for,    *)
(* and the battle the arena fights. All of it rests on the inductive       *)
(* invariants of the first.                                                *)
(***************************************************************************)
EXTENDS ServerStreams, ServerBattle, FiniteSets, FiniteSetTheorems, TLAPS

\* A countdown shows a natural number of seconds.
LEMMA SecondsType ==
  ASSUME NEW left \in Nat
  PROVE  CountdownSeconds(left) \in Nat
  BY TicksAssumption DEF CountdownSeconds

\* A deadline one tick later: still a deadline, closer unless due or unset.
LEMMA PassedType ==
  ASSUME NEW left \in TicksLeft
  PROVE  /\ Passed(left) \in TicksLeft
         /\ Passed(left) # left => left > 0 /\ Passed(left) = left - 1
         /\ left = Unset <=> Passed(left) = Unset
         /\ left > 0 => Passed(left) \in Nat
  BY DEF Passed, TicksLeft, Unset

\* All deadlines one tick later are deadlines.
LEMMA ElapsedType ==
  ASSUME NEW t \in Timers
  PROVE  Elapsed(t) \in Timers
  BY PassedType DEF Elapsed, Timers

\* A batch addressed with To is a batch.
LEMMA ToType ==
  ASSUME NEW ids, NEW msgs \in Seq(FlowMsgs)
  PROVE  To(ids, msgs) \in [PlayerIds -> Seq(FlowMsgs)]
  BY DEF To

\* The empty batch is one.
LEMMA NoBatchType == To({}, <<>>) \in [PlayerIds -> Seq(FlowMsgs)]
  BY DEF To

\* Queueing a batch leaves a message sequence per peer.
LEMMA QueuedType ==
  ASSUME NEW batch \in [PlayerIds -> Seq(FlowMsgs)],
         lastFlow \in [Peers -> Seq(FlowMsgs)],
         playerOf' \in [Peers -> PlayerIds \cup {NoPlayer}]
  PROVE  Queued(batch) \in [Peers -> Seq(FlowMsgs)]
  BY DEF Queued

\* Every message the flow builds is a flow message.
LEMMA MsgType ==
  /\ LobbyStateMsg \in FlowMsgs
  /\ \A m \in Nat, type \in {"LevelInfo", "MatchCancelled", "MatchStart", "MatchResult"} :
       FlowMsg(type, m) \in FlowMsgs
  BY DEF LobbyStateMsg, FlowMsg, FlowMsgs

\* The LobbyState broadcast leaves a message sequence per peer.
LEMMA BroadcastType ==
  ASSUME NEW batch \in [PlayerIds -> Seq(FlowMsgs)],
         lastFlow \in [Peers -> Seq(FlowMsgs)],
         playerOf' \in [Peers -> PlayerIds \cup {NoPlayer}],
         BroadcastLobbyStateAfter(batch)
  PROVE  lastFlow' \in [Peers -> Seq(FlowMsgs)]
  <1> DEFINE all == [id \in PlayerIds |-> Append(batch[id], LobbyStateMsg)]
  <1>1. all \in [PlayerIds -> Seq(FlowMsgs)]
    BY MsgType
  <1>2. lastFlow' = Queued(all)
    BY DEF BroadcastLobbyStateAfter
  <1>. QED BY <1>1, <1>2, QueuedType

\* The initial state is of the right type.
LEMMA InitType == Init => TypeOK
  <1> SUFFICES ASSUME Init PROVE TypeOK
    OBVIOUS
  <1>1. SessionTypeOK
    BY WinsAssumption
    DEF Init, SessionInit, SessionTypeOK, NoSlot, NoReclaim, WinCounts, LinkStates
  <1>2. timer \in Timers
    BY DEF Init, NoTimers, Timers, TicksLeft
  <1>3. lastFlow \in [Peers -> Seq(FlowMsgs)]
    BY DEF Init
  <1>4. clientLoaded \in [Peers -> Nat]
    BY DEF Init
  <1>5. /\ phase \in Phases /\ matchId \in Nat /\ nextMatchId \in Nat \ {0}
        /\ lastSecond \in Nat /\ roundWinner \in PlayerIds \cup {NoPlayer}
        /\ countdownMask \subseteq PlayerIds /\ playerMask \subseteq PlayerIds
        /\ loadedMask \subseteq PlayerIds /\ inMatch \subseteq PlayerIds
        /\ alive \subseteq PlayerIds /\ unlocked \subseteq PlayerIds
    BY DEF Init, Phases
  <1>6. bombsLive \in BOOLEAN /\ roundDraw \in BOOLEAN
    BY DEF Init
  <1>. QED BY <1>1, <1>2, <1>3, <1>4, <1>5, <1>6 DEF TypeOK

\* The seats a handler leaves behind are seats again.
SlotsType == [PlayerIds -> [name : Names \cup {NoName}, ready : BOOLEAN, wins : WinCounts]]

\* Every way a handler changes the seats yields seats.
LEMMA SeatsType ==
  ASSUME NEW seats \in SlotsType, NEW id \in PlayerIds
  PROVE  /\ AllUnready(seats) \in SlotsType
         /\ \A name \in Names, wins \in WinCounts :
              [seats EXCEPT ![id] = [name |-> name, ready |-> FALSE, wins |-> wins]]
                \in SlotsType
         /\ [seats EXCEPT ![id] = NoSlot] \in SlotsType
         /\ \A desired \in BOOLEAN : [seats EXCEPT ![id].ready = desired] \in SlotsType
  <1>1. 0 \in WinCounts
    BY WinsAssumption DEF WinCounts
  <1>2. AllUnready(seats) \in SlotsType
    BY DEF SlotsType, AllUnready
  <1>3. [seats EXCEPT ![id] = NoSlot] \in SlotsType
    BY <1>1 DEF SlotsType, NoSlot
  <1>4. ASSUME NEW name \in Names, NEW wins \in WinCounts
        PROVE  [seats EXCEPT ![id] = [name |-> name, ready |-> FALSE, wins |-> wins]]
                 \in SlotsType
    BY DEF SlotsType
  <1>5. ASSUME NEW desired \in BOOLEAN
        PROVE  [seats EXCEPT ![id].ready = desired] \in SlotsType
    BY DEF SlotsType
  <1>. QED BY <1>2, <1>3, <1>4, <1>5

\* What a session step leaves of SessionTypeOK without the seats.
LEMMA ResetType ==
  ASSUME NEW seats \in SlotsType, ResetRoundRuntimeToLobby(seats)
  PROVE  /\ phase' \in Phases /\ matchId' \in Nat
         /\ countdownMask' \subseteq PlayerIds
         /\ playerMask' \subseteq PlayerIds /\ loadedMask' \subseteq PlayerIds
         /\ timer' \in Timers /\ lastSecond' \in Nat
         /\ inMatch' \subseteq PlayerIds /\ alive' \subseteq PlayerIds
         /\ unlocked' \subseteq PlayerIds /\ bombsLive' \in BOOLEAN
         /\ roundWinner' \in PlayerIds \cup {NoPlayer} /\ roundDraw' \in BOOLEAN
         /\ slots' \in SlotsType
  <1>1. AllUnready(seats) \in SlotsType
    BY DEF SlotsType, AllUnready
  <1>. QED
    BY <1>1 DEF ResetRoundRuntimeToLobby, Phases, NoTimers, Timers, TicksLeft, Unset

\* A cancelled bootstrap leaves round, arena and messages typed.
LEMMA CancelStartingType ==
  ASSUME NEW m \in Nat, NEW batch \in [PlayerIds -> Seq(FlowMsgs)], NEW notify,
         NEW seats \in SlotsType,
         lastFlow \in [Peers -> Seq(FlowMsgs)],
         playerOf' \in [Peers -> PlayerIds \cup {NoPlayer}],
         CancelStartingMatch(m, batch, notify, seats)
  PROVE  lastFlow' \in [Peers -> Seq(FlowMsgs)]
  <1> DEFINE both == [id \in PlayerIds |-> IF id \in notify
                             THEN Append(batch[id], FlowMsg("MatchCancelled", m))
                             ELSE batch[id]]
  <1>1. FlowMsg("MatchCancelled", m) \in FlowMsgs
    BY MsgType
  <1>2. both \in [PlayerIds -> Seq(FlowMsgs)]
    BY <1>1
  <1>3. BroadcastLobbyStateAfter(both)
    BY DEF CancelStartingMatch
  <1> HIDE DEF both
  <1>. QED BY <1>2, <1>3, BroadcastType

\* The end of a match leaves round, arena and messages typed.
LEMMA EndOfMatchType ==
  ASSUME NEW participants \in SUBSET PlayerIds, NEW survivors \in SUBSET PlayerIds,
         NEW seats \in SlotsType, NEW t \in Timers,
         lastFlow \in [Peers -> Seq(FlowMsgs)], matchId \in Nat,
         playerOf' \in [Peers -> PlayerIds \cup {NoPlayer}],
         BeginEndOfMatch(participants, survivors, seats, t)
  PROVE  /\ phase' \in Phases
         /\ timer' \in Timers
         /\ inMatch' \subseteq PlayerIds /\ alive' \subseteq PlayerIds
         /\ unlocked' \subseteq PlayerIds /\ bombsLive' \in BOOLEAN
         /\ roundWinner' \in PlayerIds \cup {NoPlayer} /\ roundDraw' \in BOOLEAN
         /\ slots' \in SlotsType
         /\ lastFlow' \in [Peers -> Seq(FlowMsgs)]
  <1>1. roundWinner' \in PlayerIds \cup {NoPlayer}
    BY DEF BeginEndOfMatch
  <1>2. \A w \in WinCounts : (w + 1) % WinsModulus \in WinCounts
    BY WinsAssumption DEF WinCounts
  <1>3. slots' \in SlotsType
    BY <1>2 DEF BeginEndOfMatch, SlotsType
  <1>4. timer' \in Timers
    BY TicksAssumption DEF BeginEndOfMatch, Timers, TicksLeft, Unset
  <1>5. lastFlow' \in [Peers -> Seq(FlowMsgs)]
    <2>1. <<FlowMsg("MatchResult", matchId)>> \in Seq(FlowMsgs)
      BY MsgType
    <2>. QED BY <2>1, ToType, QueuedType DEF BeginEndOfMatch
  <1>. QED BY <1>1, <1>3, <1>4, <1>5 DEF BeginEndOfMatch, Phases

\* CONNECT keeps the types.
LEMMA ConnectType == ASSUME TypeOK, NEW p \in Peers, Connect(p) PROVE TypeOK'
  <1>1. SessionTypeOK'
    BY DEF TypeOK, SessionTypeOK, Connect, LinkStates
  <1>. QED BY <1>1 DEF TypeOK, Connect, roundVars, arenaVars, wireVars

\* A closing link keeps the types.
LEMMA PeerClosesType == ASSUME TypeOK, NEW p \in Peers, PeerCloses(p) PROVE TypeOK'
  <1>1. SessionTypeOK'
    BY DEF TypeOK, SessionTypeOK, PeerCloses, LinkStates
  <1>. QED BY <1>1 DEF TypeOK, PeerCloses, roundVars, arenaVars, wireVars

\* DISCONNECT of a peer without a seat keeps the types.
LEMMA DisconnectUnacceptedType ==
  ASSUME TypeOK, NEW p \in Peers, DisconnectUnaccepted(p) PROVE TypeOK'
  <1>1. SessionTypeOK'
    BY DEF TypeOK, SessionTypeOK, DisconnectUnaccepted, LinkStates
  <1>2. clientLoaded' \in [Peers -> Nat]
    BY DEF TypeOK, DisconnectUnaccepted
  <1>. QED
    BY <1>1, <1>2 DEF TypeOK, DisconnectUnaccepted, roundVars, arenaVars, wireVars

\* A lobby without a countdown is typed.
LEMMA LobbyWithoutCountdownType ==
  ASSUME TypeOK, LobbyWithoutCountdown
  PROVE  /\ phase' \in Phases /\ countdownMask' \subseteq PlayerIds
         /\ timer' \in Timers /\ lastSecond' \in Nat
  BY DEF TypeOK, LobbyWithoutCountdown, Phases, Timers, TicksLeft

\* The lobby broadcast keeps the messages typed.
LEMMA LobbyBroadcastType ==
  ASSUME TypeOK, playerOf' \in [Peers -> PlayerIds \cup {NoPlayer}], BroadcastLobbyState
  PROVE  lastFlow' \in [Peers -> Seq(FlowMsgs)]
  <1>1. To({}, <<>>) \in [PlayerIds -> Seq(FlowMsgs)]
    BY NoBatchType
  <1>. QED BY <1>1, BroadcastType DEF TypeOK, BroadcastLobbyState

\* So does a handler that queues nothing.
LEMMA SilenceType ==
  ASSUME TypeOK, playerOf' \in [Peers -> PlayerIds \cup {NoPlayer}]
  PROVE  Queued(To({}, <<>>)) \in [Peers -> Seq(FlowMsgs)]
  BY NoBatchType, QueuedType DEF TypeOK

\* Releasing an accepted peer, before the flow is told.
LEMMA ReleaseType ==
  ASSUME TypeOK, NEW p \in Peers, playerOf[p] # NoPlayer,
         ReleasePeerSession(p, playerOf[p])
  PROVE  /\ playerOf[p] \in PlayerIds
         /\ link' \in [Peers -> LinkStates]
         /\ playerOf' \in [Peers -> PlayerIds \cup {NoPlayer}]
         /\ freeIds' \subseteq PlayerIds
         /\ reclaims' \in [PlayerIds -> [name : Names \cup {NoName}, wins : WinCounts]]
         /\ SeatLeft(playerOf[p]) \in SlotsType
  <1>1. playerOf[p] \in PlayerIds /\ slots \in SlotsType
    BY DEF TypeOK, SessionTypeOK, SlotsType
  <1>2. SeatLeft(playerOf[p]) \in SlotsType
    BY <1>1, SeatsType DEF SeatLeft
  <1>3. reclaims' \in [PlayerIds -> [name : Names \cup {NoName}, wins : WinCounts]]
    BY <1>1 DEF TypeOK, SessionTypeOK, ReleasePeerSession, SlotsType
  <1>4. link' \in [Peers -> LinkStates]
    BY DEF TypeOK, SessionTypeOK, ReleasePeerSession, LinkStates
  <1>5. playerOf' \in [Peers -> PlayerIds \cup {NoPlayer}]
    BY DEF TypeOK, SessionTypeOK, ReleasePeerSession
  <1>6. freeIds' \subseteq PlayerIds
    BY <1>1 DEF TypeOK, SessionTypeOK, ReleasePeerSession
  <1>. QED BY <1>1, <1>2, <1>3, <1>4, <1>5, <1>6

\* DISCONNECT of a seated peer keeps the types, in each branch of the flow.
LEMMA DisconnectAcceptedType ==
  ASSUME TypeOK, NEW p \in Peers, DisconnectAccepted(p) PROVE TypeOK'
  <1> DEFINE id == playerOf[p]
  <1>1. playerOf[p] # NoPlayer /\ ReleasePeerSession(p, id)
    BY DEF DisconnectAccepted, HandleAcceptedPlayerReleased
  <1>2. /\ id \in PlayerIds
        /\ link' \in [Peers -> LinkStates]
        /\ playerOf' \in [Peers -> PlayerIds \cup {NoPlayer}]
        /\ freeIds' \subseteq PlayerIds
        /\ reclaims' \in [PlayerIds -> [name : Names \cup {NoName}, wins : WinCounts]]
        /\ SeatLeft(id) \in SlotsType
    BY <1>1, ReleaseType
  <1>3. clientLoaded' \in [Peers -> Nat]
    BY DEF TypeOK, DisconnectAccepted, HandleAcceptedPlayerReleased
  <1> HIDE DEF id
  <1>4. CASE ReleasedInLobby(id)
    <2>1. slots' \in SlotsType
      BY <1>2, <1>4
        DEF ReleasedInLobby, ResetLobbyParticipantsToUnready, SlotsType, AllUnready
    <2>2. /\ phase' \in Phases /\ countdownMask' \subseteq PlayerIds
          /\ timer' \in Timers /\ lastSecond' \in Nat
      BY <1>4, LobbyWithoutCountdownType
        DEF ReleasedInLobby, ResetLobbyParticipantsToUnready
    <2>3. lastFlow' \in [Peers -> Seq(FlowMsgs)]
      BY <1>2, <1>4, LobbyBroadcastType DEF ReleasedInLobby, ResetLobbyParticipantsToUnready
    <2>4. SessionTypeOK'
      BY <1>2, <2>1 DEF SessionTypeOK, SlotsType
    <2>. QED BY <1>3, <1>4, <2>2, <2>3, <2>4 DEF TypeOK, ReleasedInLobby
  <1>5. CASE ReleasedWhileStarting(id)
    <2>1. CancelStartingMatch(matchId, To({}, <<>>), playerMask \ {id}, SeatLeft(id))
      BY <1>5 DEF ReleasedWhileStarting
    <2>2. lastFlow' \in [Peers -> Seq(FlowMsgs)]
      BY <1>2, <2>1, CancelStartingType, NoBatchType DEF TypeOK
    <2>3. ResetRoundRuntimeToLobby(SeatLeft(id))
      BY <2>1 DEF CancelStartingMatch
    <2>4. nextMatchId' \in Nat \ {0}
      BY <1>5 DEF ReleasedWhileStarting, TypeOK
    <2>. QED BY <1>2, <1>3, <2>2, <2>3, <2>4, ResetType DEF TypeOK, SessionTypeOK, SlotsType
  <1>6. CASE ReleasedLastOfRound(id)
    <2>1. lastFlow' \in [Peers -> Seq(FlowMsgs)]
      BY <1>2, <1>6, SilenceType DEF ReleasedLastOfRound
    <2>2. ResetRoundRuntimeToLobby(SeatLeft(id)) /\ nextMatchId' = nextMatchId
      BY <1>6 DEF ReleasedLastOfRound
    <2>. QED BY <1>2, <1>3, <2>1, <2>2, ResetType DEF TypeOK, SessionTypeOK, SlotsType
  <1>7. CASE ReleasedFromRound(id)
    <2>1. /\ playerMask' \subseteq PlayerIds /\ loadedMask' \subseteq PlayerIds
          /\ countdownMask' \subseteq PlayerIds /\ matchId' \in Nat
          /\ nextMatchId' \in Nat \ {0} /\ lastSecond' \in Nat
      BY <1>7 DEF ReleasedFromRound, TypeOK
    <2>2. CASE BeginEndOfMatch(inMatch \ {id}, alive \ {id}, SeatLeft(id), timer)
      BY <1>2, <1>3, <2>1, <2>2, EndOfMatchType DEF TypeOK, SessionTypeOK, SlotsType
    <2>3. CASE /\ inMatch' = inMatch \ {id} /\ alive' = alive \ {id}
               /\ unlocked' = unlocked \ {id}
               /\ slots' = SeatLeft(id)
               /\ lastFlow' = Queued(To({}, <<>>))
               /\ UNCHANGED <<phase, timer, roundWinner, roundDraw, bombsLive,
                              lastLobbyState>>
      <3>1. lastFlow' \in [Peers -> Seq(FlowMsgs)]
        BY <1>2, <2>3, SilenceType
      <3>. QED BY <1>2, <1>3, <2>1, <2>3, <3>1 DEF TypeOK, SessionTypeOK, SlotsType
    <2>. QED BY <1>7, <2>2, <2>3 DEF ReleasedFromRound
  <1>. QED BY <1>4, <1>5, <1>6, <1>7
    DEF DisconnectAccepted, HandleAcceptedPlayerReleased, id

\* What accepting a Hello does in the lobby, the only place it happens.
LobbyAccept(p, name, id) ==
  /\ AcceptPeerSession(p, id)
  /\ UNCHANGED link
  /\ ResetLobbyParticipantsToUnready(SeatTaken(id, name, CarriedWins(name, id)))
  /\ UNCHANGED <<matchId, nextMatchId, playerMask, loadedMask, roundWinner,
                 roundDraw, arenaVars, clientLoaded>>

\* A Hello is rejected, or accepted in the lobby.
LEMMA HelloCases ==
  ASSUME TypeOK, NEW p, NEW name, NEW versionMatches, NEW welcomeQueued,
         Hello(p, name, versionMatches, welcomeQueued)
  PROVE  \/ RejectHello(p)
         \/ /\ phase \notin RoundPhases
            /\ \E id \in freeIds : LobbyAccept(p, name, id)
  <1>1. phase \notin RoundPhases => phase \in {"Lobby", "LobbyCountdown"}
    BY DEF TypeOK, Phases, RoundPhases
  <1>2. ASSUME NEW id, phase \notin RoundPhases, AcceptHello(p, name, id)
        PROVE  LobbyAccept(p, name, id)
    BY <1>1, <1>2 DEF AcceptHello, HandleAcceptedPlayerJoined, LobbyAccept
  <1>. QED BY <1>2 DEF Hello

\* Hello keeps the types, accepted or rejected.
LEMMA HelloType ==
  ASSUME TypeOK, NEW p \in Peers, NEW name \in Names,
         NEW versionMatches \in BOOLEAN, NEW welcomeQueued \in BOOLEAN,
         Hello(p, name, versionMatches, welcomeQueued)
  PROVE  TypeOK'
  <1>1. CASE RejectHello(p)
    <2>1. SessionTypeOK'
      BY <1>1 DEF TypeOK, SessionTypeOK, RejectHello, LinkStates
    <2>. QED BY <1>1, <2>1 DEF TypeOK, RejectHello, roundVars, arenaVars, wireVars
  <1>2. ASSUME NEW id \in freeIds, LobbyAccept(p, name, id)
        PROVE  TypeOK'
    <2>1. id \in PlayerIds /\ slots \in SlotsType
      BY DEF TypeOK, SessionTypeOK, SlotsType
    <2>2. CarriedWins(name, id) \in WinCounts
      BY <2>1, WinsAssumption DEF CarriedWins, TypeOK, SessionTypeOK, WinCounts
    <2>3. SeatTaken(id, name, CarriedWins(name, id)) \in SlotsType
      BY <2>1, <2>2, SeatsType DEF SeatTaken
    <2>4. slots' \in SlotsType
      BY <1>2, <2>1, <2>3, SeatsType DEF LobbyAccept, ResetLobbyParticipantsToUnready
    <2>5. playerOf' \in [Peers -> PlayerIds \cup {NoPlayer}]
      BY <1>2, <2>1 DEF LobbyAccept, AcceptPeerSession, TypeOK, SessionTypeOK
    <2>6. reclaims' \in [PlayerIds -> [name : Names \cup {NoName}, wins : WinCounts]]
      <3>1. NoReclaim \in [name : Names \cup {NoName}, wins : WinCounts]
        BY WinsAssumption DEF NoReclaim, WinCounts
      <3>. QED BY <1>2, <2>1, <3>1 DEF LobbyAccept, AcceptPeerSession, TypeOK, SessionTypeOK
    <2>7. freeIds' \subseteq PlayerIds /\ link' = link
      BY <1>2 DEF LobbyAccept, AcceptPeerSession, TypeOK, SessionTypeOK
    <2>8. SessionTypeOK'
      BY <2>4, <2>5, <2>6, <2>7 DEF TypeOK, SessionTypeOK, SlotsType
    <2>9. /\ phase' \in Phases /\ countdownMask' \subseteq PlayerIds
          /\ timer' \in Timers /\ lastSecond' \in Nat
      BY <1>2, LobbyWithoutCountdownType DEF LobbyAccept, ResetLobbyParticipantsToUnready
    <2>10. lastFlow' \in [Peers -> Seq(FlowMsgs)]
      BY <1>2, <2>5, LobbyBroadcastType DEF LobbyAccept, ResetLobbyParticipantsToUnready
    <2>. QED BY <1>2, <2>8, <2>9, <2>10 DEF TypeOK, LobbyAccept, arenaVars
  <1>. QED BY <1>1, <1>2, HelloCases

\* Cancelling the countdown keeps the types.
LEMMA CancelLobbyCountdownType ==
  ASSUME TypeOK, NEW seats \in SlotsType, CancelLobbyCountdown(seats),
         playerOf' \in [Peers -> PlayerIds \cup {NoPlayer}]
  PROVE  /\ phase' \in Phases /\ countdownMask' \subseteq PlayerIds
         /\ timer' \in Timers /\ lastSecond' \in Nat
         /\ slots' \in SlotsType /\ lastFlow' \in [Peers -> Seq(FlowMsgs)]
  BY LobbyWithoutCountdownType, LobbyBroadcastType DEF CancelLobbyCountdown

\* LobbyReady keeps the types.
LEMMA LobbyReadyType ==
  ASSUME TypeOK, NEW p \in Peers, NEW desired \in BOOLEAN, LobbyReady(p, desired)
  PROVE  TypeOK'
  <1> DEFINE seats == [slots EXCEPT ![playerOf[p]].ready = desired]
  <1>1. playerOf[p] \in PlayerIds /\ slots \in SlotsType
    BY DEF TypeOK, SessionTypeOK, SlotsType, LobbyReady, HandleLobbyReadyStateChanged
  <1>2. seats \in SlotsType
    BY <1>1, SeatsType
  <1>3. /\ UNCHANGED <<link, playerOf, freeIds, reclaims>>
        /\ UNCHANGED <<matchId, nextMatchId, playerMask, loadedMask, roundWinner,
                       roundDraw, arenaVars, clientLoaded>>
    BY DEF LobbyReady, HandleLobbyReadyStateChanged
  <1>4. playerOf' \in [Peers -> PlayerIds \cup {NoPlayer}]
    BY <1>3 DEF TypeOK, SessionTypeOK
  <1>5. \/ CancelLobbyCountdown(seats)
        \/ /\ slots' = seats
           /\ UNCHANGED <<phase, countdownMask, timer, lastSecond>>
           /\ BroadcastLobbyState
        \/ StartLobbyCountdown(Accepted, seats)
    BY Zenon DEF LobbyReady, HandleLobbyReadyStateChanged
  <1> HIDE DEF seats
  <1>6. /\ phase' \in Phases /\ countdownMask' \subseteq PlayerIds
        /\ timer' \in Timers /\ lastSecond' \in Nat
        /\ slots' \in SlotsType /\ lastFlow' \in [Peers -> Seq(FlowMsgs)]
    <2>1. CASE CancelLobbyCountdown(seats)
      BY <1>2, <1>4, <2>1, CancelLobbyCountdownType
    <2>2. CASE /\ slots' = seats
               /\ UNCHANGED <<phase, countdownMask, timer, lastSecond>>
               /\ BroadcastLobbyState
      BY <1>2, <1>4, <2>2, LobbyBroadcastType DEF TypeOK
    <2>3. CASE StartLobbyCountdown(Accepted, seats)
      <3>1. lastFlow' \in [Peers -> Seq(FlowMsgs)]
        BY <1>4, <2>3, LobbyBroadcastType DEF StartLobbyCountdown
      <3>2. Accepted \subseteq PlayerIds
        BY DEF TypeOK, SessionTypeOK, Accepted, BoundIds
      <3>3. CountdownTicks \in Nat /\ CountdownSeconds(CountdownTicks) \in Nat
        BY TicksAssumption, SecondsType
      <3>4. timer' \in Timers
        BY <2>3, <3>3 DEF StartLobbyCountdown, TypeOK, Timers, TicksLeft
      <3>. QED
        BY <1>2, <2>3, <3>1, <3>2, <3>3, <3>4 DEF StartLobbyCountdown, Phases
    <2>. QED BY <1>5, <2>1, <2>2, <2>3
  <1>. QED BY <1>3, <1>6 DEF TypeOK, SessionTypeOK, SlotsType, arenaVars

\* Committing the start, or failing to, keeps the types.
LEMMA CommitMatchStartType ==
  ASSUME TypeOK, CommitMatchStart, UNCHANGED <<link, playerOf, freeIds, reclaims>>,
         UNCHANGED nextMatchId, UNCHANGED clientLoaded
  PROVE  TypeOK'
  <1>1. /\ playerOf' \in [Peers -> PlayerIds \cup {NoPlayer}]
        /\ slots \in SlotsType /\ matchId \in Nat
    BY DEF TypeOK, SessionTypeOK, SlotsType
  <1>2. <<FlowMsg("MatchStart", matchId)>> \in Seq(FlowMsgs)
    BY <1>1, MsgType
  <1>3. To(playerMask, <<FlowMsg("MatchStart", matchId)>>) \in [PlayerIds -> Seq(FlowMsgs)]
    BY <1>2, ToType
  <1>4. CASE CancelStartingMatch(matchId, To(playerMask, <<FlowMsg("MatchStart", matchId)>>),
                                 playerMask, slots)
    <2>1. lastFlow' \in [Peers -> Seq(FlowMsgs)]
      BY <1>1, <1>3, <1>4, CancelStartingType DEF TypeOK
    <2>2. ResetRoundRuntimeToLobby(slots)
      BY <1>4 DEF CancelStartingMatch
    <2>. QED BY <1>1, <2>1, <2>2, ResetType DEF TypeOK, SessionTypeOK, SlotsType
  <1>5. CASE \A id \in playerMask : Queues(id)
    <2>1. lastFlow' \in [Peers -> Seq(FlowMsgs)]
      BY <1>1, <1>3, <1>5, QueuedType DEF CommitMatchStart, TypeOK
    <2>2. timer' \in Timers
      BY <1>5, TicksAssumption DEF CommitMatchStart, TypeOK, Timers, TicksLeft
    <2>. QED
      BY <1>1, <1>5, <2>1, <2>2
      DEF CommitMatchStart, TypeOK, SessionTypeOK, SlotsType, arenaVars, Phases
  <1>. QED BY <1>4, <1>5 DEF CommitMatchStart

\* MatchLoaded keeps the types.
LEMMA MatchLoadedType ==
  ASSUME TypeOK, NEW p \in Peers, NEW m, MatchLoaded(p, m) PROVE TypeOK'
  <1>1. /\ UNCHANGED <<link, playerOf, freeIds, reclaims>>
        /\ UNCHANGED nextMatchId /\ UNCHANGED clientLoaded
        /\ playerOf[p] \in playerMask
    BY DEF MatchLoaded, MarkPlayerLoadedForCurrentMatch, Acknowledges
  <1>2. CASE CommitMatchStart
    BY <1>1, <1>2, CommitMatchStartType
  <1>3. CASE /\ loadedMask' = loadedMask \cup {playerOf[p]}
             /\ UNCHANGED <<slots, phase, matchId, countdownMask, playerMask, timer,
                            lastSecond, roundWinner, roundDraw, arenaVars, wireVars>>
    BY <1>1, <1>3 DEF TypeOK, SessionTypeOK, arenaVars, wireVars
  <1>. QED BY <1>2, <1>3 DEF MatchLoaded, MarkPlayerLoadedForCurrentMatch

\* A client that loads a level keeps the types.
LEMMA ClientLoadsType ==
  ASSUME TypeOK, NEW p \in Peers, ClientLoads(p) PROVE TypeOK'
  <1>1. PICK i \in 1 .. Len(lastFlow[p]) :
          clientLoaded' = [clientLoaded EXCEPT ![p] = lastFlow[p][i].match]
    BY DEF ClientLoads
  <1>2. lastFlow[p][i] \in FlowMsgs
    BY DEF TypeOK
  <1>3. lastFlow[p][i].match \in Nat
    BY <1>2 DEF FlowMsgs, LobbyStateMsg, FlowMsg
  <1>4. clientLoaded' \in [Peers -> Nat]
    BY <1>1, <1>3 DEF TypeOK
  <1>. QED
    BY <1>4
      DEF ClientLoads, TypeOK, SessionTypeOK, sessionVars, roundVars, arenaVars,
          wireVars

\* The match bootstrap keeps the types.
LEMMA BeginMatchBootstrapType ==
  ASSUME TypeOK, BeginMatchBootstrap,
         UNCHANGED <<link, playerOf, freeIds, reclaims, clientLoaded>>
  PROVE  TypeOK'
  <1> DEFINE reached == {id \in countdownMask : Queues(id)}
             levelInfo == To(reached, <<FlowMsg("LevelInfo", nextMatchId)>>)
  <1>1. /\ playerOf' \in [Peers -> PlayerIds \cup {NoPlayer}]
        /\ slots \in SlotsType /\ nextMatchId \in Nat /\ nextMatchId + 1 \in Nat \ {0}
        /\ reached \subseteq PlayerIds
    BY DEF TypeOK, SessionTypeOK, SlotsType
  <1>2. levelInfo \in [PlayerIds -> Seq(FlowMsgs)]
    <2>1. <<FlowMsg("LevelInfo", nextMatchId)>> \in Seq(FlowMsgs)
      BY <1>1, MsgType
    <2>. QED BY <2>1, ToType
  <1>3. CASE /\ CancelLobbyCountdown(slots)
             /\ UNCHANGED <<matchId, nextMatchId, playerMask, loadedMask, roundWinner,
                            roundDraw, arenaVars>>
    BY <1>1, <1>3, CancelLobbyCountdownType DEF TypeOK, SessionTypeOK, SlotsType, arenaVars
  <1>4. CASE /\ nextMatchId' = nextMatchId + 1
             /\ CancelStartingMatch(nextMatchId, levelInfo, reached, slots)
    <2>1. lastFlow' \in [Peers -> Seq(FlowMsgs)]
      <3> HIDE DEF levelInfo, reached
      <3>. QED BY <1>1, <1>2, <1>4, CancelStartingType DEF TypeOK
    <2>2. ResetRoundRuntimeToLobby(slots)
      BY <1>4 DEF CancelStartingMatch
    <2> HIDE DEF levelInfo, reached
    <2>. QED BY <1>1, <1>4, <2>1, <2>2, ResetType DEF TypeOK, SessionTypeOK, SlotsType
  <1>5. CASE /\ nextMatchId' = nextMatchId + 1
             /\ phase' = "StartingMatch"
             /\ matchId' = nextMatchId
             /\ countdownMask' = {} /\ playerMask' = reached /\ loadedMask' = {}
             /\ timer' = [NoTimers EXCEPT !.load = LoadTimeoutTicks]
             /\ lastSecond' = 0
             /\ roundWinner' = NoPlayer /\ roundDraw' = FALSE
             /\ slots' = AllUnready(slots)
             /\ inMatch' = reached /\ alive' = reached /\ unlocked' = {}
             /\ bombsLive' = FALSE
             /\ lastFlow' = Queued(levelInfo)
    <2> HIDE DEF levelInfo, reached
    <2>1. lastFlow' \in [Peers -> Seq(FlowMsgs)]
      BY <1>1, <1>2, <1>5, QueuedType DEF TypeOK
    <2>2. timer' \in Timers
      BY <1>5, TicksAssumption DEF NoTimers, Timers, TicksLeft
    <2>3. slots' \in SlotsType
      BY <1>1, <1>5 DEF SlotsType, AllUnready
    <2>. QED
      BY <1>1, <1>5, <2>1, <2>2, <2>3 DEF TypeOK, SessionTypeOK, SlotsType, Phases
  <1>. QED
    BY <1>3, <1>4, <1>5, Zenon DEF BeginMatchBootstrap

\* A tick of the countdown keeps the types.
LEMMA CountdownTickType == ASSUME TypeOK, CountdownTick PROVE TypeOK'
  <1> DEFINE t == Elapsed(timer)
  <1>1. t \in Timers /\ UNCHANGED <<link, playerOf, freeIds, reclaims, clientLoaded>>
    BY ElapsedType DEF TypeOK, CountdownTick
  <1>2. CASE t.countdown = 0
    BY <1>1, <1>2, BeginMatchBootstrapType DEF CountdownTick
  <1>3. CASE t.countdown # 0
    <2>1. t.countdown \in Nat
      BY <1>1 DEF CountdownTick, Timers, TicksLeft
    <2>2. /\ timer' = t /\ lastSecond' = CountdownSeconds(t.countdown)
          /\ UNCHANGED <<slots, phase, matchId, nextMatchId, countdownMask, playerMask,
                         loadedMask, roundWinner, roundDraw, arenaVars>>
          /\ BroadcastLobbyState \/ UNCHANGED wireVars
      BY <1>3 DEF CountdownTick
    <2> HIDE DEF t
    <2>3. lastSecond' \in Nat
      BY <2>1, <2>2, SecondsType
    <2>4. lastFlow' \in [Peers -> Seq(FlowMsgs)]
      <3>1. playerOf' \in [Peers -> PlayerIds \cup {NoPlayer}]
        BY <1>1 DEF TypeOK, SessionTypeOK
      <3>. QED BY <2>2, <3>1, LobbyBroadcastType DEF TypeOK, wireVars
    <2>. QED BY <1>1, <2>2, <2>3, <2>4 DEF TypeOK, SessionTypeOK, arenaVars
  <1>. QED BY <1>2, <1>3

\* A tick of the bootstrap keeps the types.
LEMMA StartingTickType == ASSUME TypeOK, StartingTick PROVE TypeOK'
  <1>1. /\ Elapsed(timer) \in Timers
        /\ UNCHANGED <<link, playerOf, freeIds, reclaims, nextMatchId, clientLoaded>>
        /\ playerOf' \in [Peers -> PlayerIds \cup {NoPlayer}]
        /\ slots \in SlotsType
    BY ElapsedType DEF TypeOK, StartingTick, SessionTypeOK, SlotsType
  <1>2. CASE CancelStartingMatch(matchId, To({}, <<>>), playerMask, slots)
    <2>1. lastFlow' \in [Peers -> Seq(FlowMsgs)]
      BY <1>1, <1>2, CancelStartingType, NoBatchType DEF TypeOK
    <2>2. ResetRoundRuntimeToLobby(slots)
      BY <1>2 DEF CancelStartingMatch
    <2>. QED BY <1>1, <2>1, <2>2, ResetType DEF TypeOK, SessionTypeOK, SlotsType
  <1>3. CASE /\ timer' = Elapsed(timer)
             /\ UNCHANGED <<slots, phase, matchId, countdownMask, playerMask, loadedMask,
                            lastSecond, roundWinner, roundDraw, arenaVars, wireVars>>
    BY <1>1, <1>3 DEF TypeOK, SessionTypeOK, arenaVars, wireVars
  <1>. QED BY <1>2, <1>3 DEF StartingTick

\* A tick of the match keeps the types.
LEMMA MatchTickType == ASSUME TypeOK, MatchTick PROVE TypeOK'
  <1> DEFINE t == Elapsed(timer)
             left == [t EXCEPT !.unlock = IF @ = 0 THEN Unset ELSE @]
             mayAct == IF t.unlock = 0 THEN inMatch ELSE unlocked
  <1>1. left \in Timers
    <2>1. t \in Timers
      BY ElapsedType DEF TypeOK
    <2>. HIDE DEF t
    <2>. QED BY <2>1 DEF Timers, TicksLeft
  <1>2. /\ UNCHANGED <<link, playerOf, freeIds, reclaims, matchId, nextMatchId,
                       countdownMask, playerMask, loadedMask, lastSecond, clientLoaded>>
        /\ playerOf' \in [Peers -> PlayerIds \cup {NoPlayer}]
        /\ slots \in SlotsType /\ mayAct \subseteq PlayerIds
    BY DEF TypeOK, MatchTick, SessionTypeOK, SlotsType
  <1>3. PICK killed \in SUBSET alive, bombsAfter \in BOOLEAN :
          \/ BeginEndOfMatch(inMatch, alive \ killed, slots, left)
          \/ /\ alive' = alive \ killed
             /\ unlocked' = mayAct \ killed
             /\ bombsLive' = bombsAfter
             /\ timer' = left
             /\ UNCHANGED <<inMatch, slots, phase, roundWinner, roundDraw, wireVars>>
    BY Zenon DEF MatchTick
  <1> HIDE DEF left, mayAct
  <1>4. CASE BeginEndOfMatch(inMatch, alive \ killed, slots, left)
    <2>1. inMatch \in SUBSET PlayerIds /\ alive \ killed \in SUBSET PlayerIds
          /\ matchId \in Nat
      BY DEF TypeOK
    <2>2. lastFlow \in [Peers -> Seq(FlowMsgs)]
      BY DEF TypeOK
    <2>3. /\ phase' \in Phases
          /\ timer' \in Timers
          /\ inMatch' \subseteq PlayerIds /\ alive' \subseteq PlayerIds
          /\ unlocked' \subseteq PlayerIds /\ bombsLive' \in BOOLEAN
          /\ roundWinner' \in PlayerIds \cup {NoPlayer} /\ roundDraw' \in BOOLEAN
          /\ slots' \in SlotsType
          /\ lastFlow' \in [Peers -> Seq(FlowMsgs)]
      BY <1>1, <1>2, <1>4, <2>1, <2>2, EndOfMatchType
    <2>. QED BY <1>2, <2>3 DEF TypeOK, SessionTypeOK, SlotsType
  <1>5. CASE /\ alive' = alive \ killed
             /\ unlocked' = mayAct \ killed
             /\ bombsLive' = bombsAfter
             /\ timer' = left
             /\ UNCHANGED <<inMatch, slots, phase, roundWinner, roundDraw, wireVars>>
    BY <1>1, <1>2, <1>5 DEF TypeOK, SessionTypeOK, SlotsType, wireVars
  <1>. QED BY <1>3, <1>4, <1>5

\* A tick of the end-of-match screen keeps the types.
LEMMA EndOfMatchTickType == ASSUME TypeOK, EndOfMatchTick PROVE TypeOK'
  <1>1. /\ Elapsed(timer) \in Timers
        /\ UNCHANGED <<link, playerOf, freeIds, reclaims, nextMatchId, clientLoaded>>
        /\ playerOf' \in [Peers -> PlayerIds \cup {NoPlayer}]
        /\ slots \in SlotsType
    BY ElapsedType DEF TypeOK, EndOfMatchTick, SessionTypeOK, SlotsType
  <1>2. CASE ResetRoundRuntimeToLobby(slots) /\ BroadcastLobbyState
    BY <1>1, <1>2, LobbyBroadcastType, ResetType DEF TypeOK, SessionTypeOK, SlotsType
  <1>3. CASE /\ timer' = Elapsed(timer)
             /\ UNCHANGED <<slots, phase, matchId, countdownMask, playerMask, loadedMask,
                            lastSecond, roundWinner, roundDraw, arenaVars, wireVars>>
    BY <1>1, <1>3 DEF TypeOK, SessionTypeOK, arenaVars, wireVars
  <1>. QED BY <1>2, <1>3 DEF EndOfMatchTick

\* Every step keeps the types.
LEMMA NextType == TypeOK /\ [Next]_vars => TypeOK'
  <1> SUFFICES ASSUME TypeOK, [Next]_vars PROVE TypeOK'
    OBVIOUS
  <1>1. CASE UNCHANGED vars
    BY <1>1 DEF vars, sessionVars, roundVars, arenaVars, wireVars, TypeOK, SessionTypeOK
  <1>2. CASE \E p \in Peers : Connect(p) \/ PeerCloses(p)
    BY <1>2, ConnectType, PeerClosesType
  <1>3. CASE \E p \in Peers : DisconnectUnaccepted(p) \/ DisconnectAccepted(p)
    BY <1>3, DisconnectUnacceptedType, DisconnectAcceptedType
  <1>4. CASE \E p \in Peers, name \in Names, versionMatches, welcomeQueued \in BOOLEAN :
               Hello(p, name, versionMatches, welcomeQueued)
    BY <1>4, HelloType
  <1>5. CASE \E p \in Peers, desired \in BOOLEAN : LobbyReady(p, desired)
    BY <1>5, LobbyReadyType
  <1>6. CASE \E p \in Peers : \E m \in 1 .. clientLoaded[p] : MatchLoaded(p, m)
    BY <1>6, MatchLoadedType
  <1>7. CASE \E p \in Peers : ClientLoads(p)
    BY <1>7, ClientLoadsType
  <1>8. CASE Tick
    BY <1>8, CountdownTickType, StartingTickType, MatchTickType, EndOfMatchTickType DEF Tick
  <1>. QED BY <1>1, <1>2, <1>3, <1>4, <1>5, <1>6, <1>7, <1>8, Zenon DEF Next

(***************************************************************************)
(* Every value the server keeps stays in its type, whatever the numbers of *)
(* peers, seats, names and ticks: in particular a win count stays a        *)
(* uint8_t and every mask names seats only.                                *)
(***************************************************************************)
THEOREM TypeCorrect == Spec => []TypeOK
  <1>1. Init => TypeOK
    BY InitType
  <1>2. TypeOK /\ [Next]_vars => TypeOK'
    BY NextType
  <1>. QED BY <1>1, <1>2, PTL DEF Spec

-----------------------------------------------------------------------------
(* Seats. *)

\* A step that rebinds nobody and renames no seat keeps seats and sessions in
\* agreement.
LEMMA SeatsKept ==
  ASSUME TypeOK, SeatOwnership, UNCHANGED <<playerOf, freeIds, reclaims>>,
         \A q \in Peers : playerOf[q] # NoPlayer => link'[q] # "free",
         \A id \in PlayerIds : slots'[id].name = slots[id].name
  PROVE  SeatOwnership'
  BY DEF SeatOwnership, Accepted, BoundIds, Occupied, Reclaimable

\* Clearing the ready flags renames no seat.
LEMMA NamesKept ==
  ASSUME NEW seats \in SlotsType
  PROVE  \A id \in PlayerIds : AllUnready(seats)[id].name = seats[id].name
  BY DEF AllUnready, SlotsType

\* The seats after the end of a match carry the names they carried before.
LEMMA VerdictKeepsNames ==
  ASSUME NEW participants, NEW survivors, NEW seats \in SlotsType, NEW t,
         BeginEndOfMatch(participants, survivors, seats, t)
  PROVE  \A id \in PlayerIds : slots'[id].name = seats[id].name
  BY DEF BeginEndOfMatch, SlotsType

\* Releasing a seat keeps seats and sessions in agreement.
LEMMA ReleaseSeats ==
  ASSUME TypeOK, SeatOwnership, NEW p \in Peers, playerOf[p] # NoPlayer,
         ReleasePeerSession(p, playerOf[p]),
         \A id \in PlayerIds : slots'[id].name = SeatLeft(playerOf[p])[id].name
  PROVE  /\ SeatOwnership'
         /\ Accepted' = Accepted \ {playerOf[p]}
         /\ playerOf[p] \in Accepted
  <1> DEFINE left == playerOf[p]
  <1>1. /\ left \in PlayerIds /\ left # NoPlayer
        /\ link' = [link EXCEPT ![p] = "free"]
        /\ playerOf' = [playerOf EXCEPT ![p] = NoPlayer]
        /\ freeIds' = freeIds \cup {left}
        /\ link \in [Peers -> LinkStates]
        /\ playerOf \in [Peers -> PlayerIds \cup {NoPlayer}]
    BY DEF TypeOK, SessionTypeOK, ReleasePeerSession
  <1>2. Accepted' = Accepted \ {left} /\ left \in Accepted
    BY <1>1 DEF SeatOwnership, Accepted, BoundIds
  <1>3. Occupied(left)
    BY <1>1, <1>2 DEF SeatOwnership
  <1>4. \A id \in PlayerIds : Occupied(id)' <=> id \in Accepted'
    <2>1. \A id \in PlayerIds : slots'[id].name = IF id = left THEN NoName ELSE slots[id].name
      BY <1>1 DEF SeatLeft, NoSlot, TypeOK, SessionTypeOK
    <2>. QED BY <1>2, <2>1 DEF SeatOwnership, Occupied
  <1>5. \A id \in PlayerIds : Reclaimable(id)' => id \in freeIds'
    BY <1>1, <1>3 DEF ReleasePeerSession, SeatOwnership, Reclaimable, TypeOK, SessionTypeOK
  <1>6. freeIds' = PlayerIds \ Accepted'
    BY <1>1, <1>2 DEF SeatOwnership
  <1>7. \A q \in Peers : playerOf'[q] # NoPlayer => link'[q] # "free"
    BY <1>1 DEF SeatOwnership
  <1>8. \A q, r \in Peers : playerOf'[q] = playerOf'[r] /\ playerOf'[q] # NoPlayer => q = r
    BY <1>1 DEF SeatOwnership
  <1>. QED BY <1>2, <1>4, <1>5, <1>6, <1>7, <1>8 DEF SeatOwnership

\* A disconnect takes exactly the leaver off the accepted players.
LEMMA DisconnectSeats ==
  ASSUME TypeOK, SeatOwnership, NEW p \in Peers, DisconnectAccepted(p)
  PROVE  /\ SeatOwnership'
         /\ Accepted' = Accepted \ {playerOf[p]}
         /\ playerOf[p] \in Accepted
  <1> DEFINE id == playerOf[p]
  <1>1. /\ id # NoPlayer /\ ReleasePeerSession(p, id) /\ SeatLeft(id) \in SlotsType
    BY ReleaseType DEF DisconnectAccepted, HandleAcceptedPlayerReleased
  <1> HIDE DEF id
  <1>2. \A seat \in PlayerIds : slots'[seat].name = SeatLeft(id)[seat].name
    <2>1. CASE ReleasedInLobby(id)
      BY <1>1, <2>1, NamesKept DEF ReleasedInLobby, ResetLobbyParticipantsToUnready
    <2>2. CASE ReleasedWhileStarting(id)
      BY <1>1, <2>2, NamesKept
      DEF ReleasedWhileStarting, CancelStartingMatch, ResetRoundRuntimeToLobby
    <2>3. CASE ReleasedLastOfRound(id)
      BY <1>1, <2>3, NamesKept DEF ReleasedLastOfRound, ResetRoundRuntimeToLobby
    <2>4. CASE ReleasedFromRound(id)
      <3>1. \/ BeginEndOfMatch(inMatch \ {id}, alive \ {id}, SeatLeft(id), timer)
            \/ slots' = SeatLeft(id)
        BY <2>4, Zenon DEF ReleasedFromRound
      <3>. QED BY <1>1, <3>1, VerdictKeepsNames
    <2>. QED BY <2>1, <2>2, <2>3, <2>4
      DEF DisconnectAccepted, HandleAcceptedPlayerReleased, id
  <1>. QED BY <1>1, <1>2, ReleaseSeats DEF id

\* Hello keeps seats and sessions in agreement.
LEMMA HelloSeats ==
  ASSUME TypeOK, SeatOwnership, NEW p \in Peers, NEW name \in Names, NEW id \in freeIds,
         link[p] = "open", playerOf[p] = NoPlayer, LobbyAccept(p, name, id)
  PROVE  SeatOwnership'
  <1>1. /\ id \in PlayerIds /\ id # NoPlayer
        /\ playerOf' = [playerOf EXCEPT ![p] = id]
        /\ freeIds' = freeIds \ {id}
        /\ reclaims' = [reclaims EXCEPT ![id] = NoReclaim]
        /\ link' = link
        /\ playerOf \in [Peers -> PlayerIds \cup {NoPlayer}]
    BY DEF TypeOK, SessionTypeOK, LobbyAccept, AcceptPeerSession, PlayerIds, NoPlayer
  <1>2. Accepted' = Accepted \cup {id} /\ id \notin Accepted
    BY <1>1 DEF SeatOwnership, Accepted, BoundIds
  <1>3. \A seat \in PlayerIds :
          slots'[seat].name = IF seat = id THEN name ELSE slots[seat].name
    BY <1>1 DEF LobbyAccept, ResetLobbyParticipantsToUnready, AllUnready, SeatTaken,
                TypeOK, SessionTypeOK
  <1>4. \A seat \in PlayerIds : Occupied(seat)' <=> seat \in Accepted'
    BY <1>1, <1>2, <1>3, NoNameAssumption DEF SeatOwnership, Occupied
  <1>5. \A seat \in PlayerIds : Reclaimable(seat)' => seat \in freeIds'
    BY <1>1 DEF SeatOwnership, Reclaimable, NoReclaim, TypeOK, SessionTypeOK
  <1>6. freeIds' = PlayerIds \ Accepted'
    BY <1>1, <1>2 DEF SeatOwnership
  <1>7. \A q \in Peers : playerOf'[q] # NoPlayer => link'[q] # "free"
    BY <1>1 DEF SeatOwnership
  <1>8. \A q, r \in Peers : playerOf'[q] = playerOf'[r] /\ playerOf'[q] # NoPlayer => q = r
    BY <1>1, <1>2 DEF SeatOwnership, Accepted, BoundIds
  <1>. QED BY <1>2, <1>4, <1>5, <1>6, <1>7, <1>8 DEF SeatOwnership

\* The match bootstrap renames no seat.
LEMMA BootstrapKeepsNames ==
  ASSUME TypeOK, BeginMatchBootstrap
  PROVE  \A id \in PlayerIds : slots'[id].name = slots[id].name
  <1>1. slots' = slots \/ slots' = AllUnready(slots)
    BY Zenon
      DEF BeginMatchBootstrap, CancelLobbyCountdown, CancelStartingMatch,
          ResetRoundRuntimeToLobby
  <1>. QED BY <1>1, NamesKept DEF TypeOK, SessionTypeOK, SlotsType

\* Every step keeps seats and sessions in agreement.
LEMMA NextSeats == TypeOK /\ SeatOwnership /\ [Next]_vars => SeatOwnership'
  <1> SUFFICES ASSUME TypeOK, SeatOwnership, [Next]_vars PROVE SeatOwnership'
    OBVIOUS
  <1> USE DEF SeatOwnership
  <1>1. slots \in SlotsType
    BY DEF TypeOK, SessionTypeOK, SlotsType
  <1>2. CASE UNCHANGED vars
    BY <1>2, SeatsKept DEF vars, sessionVars
  <1>3. ASSUME NEW p \in Peers, Connect(p) PROVE SeatOwnership'
    <2>1. playerOf' = playerOf
      BY <1>3 DEF Connect, TypeOK, SessionTypeOK
    <2>. QED BY <1>3, <2>1, SeatsKept DEF Connect, TypeOK, SessionTypeOK
  <1>4. ASSUME NEW p \in Peers, PeerCloses(p) PROVE SeatOwnership'
    BY <1>4, SeatsKept DEF PeerCloses, TypeOK, SessionTypeOK
  <1>5. ASSUME NEW p \in Peers, DisconnectUnaccepted(p) PROVE SeatOwnership'
    BY <1>5, SeatsKept DEF DisconnectUnaccepted, TypeOK, SessionTypeOK
  <1>6. ASSUME NEW p \in Peers, DisconnectAccepted(p) PROVE SeatOwnership'
    BY <1>6, DisconnectSeats
  <1>7. ASSUME NEW p \in Peers, NEW name \in Names,
               NEW versionMatches \in BOOLEAN, NEW welcomeQueued \in BOOLEAN,
               Hello(p, name, versionMatches, welcomeQueued)
        PROVE  SeatOwnership'
    <2>1. CASE RejectHello(p)
      BY <2>1, SeatsKept DEF RejectHello, TypeOK, SessionTypeOK
    <2>2. ASSUME NEW id \in freeIds, LobbyAccept(p, name, id) PROVE SeatOwnership'
      BY <1>7, <2>2, HelloSeats DEF Hello
    <2>. QED BY <1>7, <2>1, <2>2, HelloCases
  <1>8. ASSUME NEW p \in Peers, NEW desired \in BOOLEAN, LobbyReady(p, desired)
        PROVE  SeatOwnership'
    <2>1. slots' = [slots EXCEPT ![playerOf[p]].ready = desired]
      BY <1>8, Zenon
        DEF LobbyReady, HandleLobbyReadyStateChanged, CancelLobbyCountdown,
            StartLobbyCountdown
    <2>2. \A id \in PlayerIds : slots'[id].name = slots[id].name
      BY <1>1, <2>1 DEF SlotsType
    <2>. QED BY <1>8, <2>2, SeatsKept DEF LobbyReady, HandleLobbyReadyStateChanged
  <1>9. ASSUME NEW p \in Peers, NEW m, MatchLoaded(p, m) PROVE SeatOwnership'
    <2>1. slots' = slots \/ slots' = AllUnready(slots)
      BY <1>9, Zenon
        DEF MatchLoaded, MarkPlayerLoadedForCurrentMatch, Acknowledges,
            CommitMatchStart, CancelStartingMatch, ResetRoundRuntimeToLobby
    <2>. QED BY <1>1, <1>9, <2>1, NamesKept, SeatsKept
      DEF MatchLoaded, MarkPlayerLoadedForCurrentMatch
  <1>10. ASSUME NEW p \in Peers, ClientLoads(p) PROVE SeatOwnership'
    BY <1>10, SeatsKept DEF ClientLoads, sessionVars
  <1>11. CASE CountdownTick
    BY <1>1, <1>11, BootstrapKeepsNames, SeatsKept DEF CountdownTick
  <1>12. CASE StartingTick
    <2>1. slots' = slots \/ slots' = AllUnready(slots)
      BY <1>12, Zenon DEF StartingTick, CancelStartingMatch, ResetRoundRuntimeToLobby
    <2>. QED BY <1>1, <1>12, <2>1, NamesKept, SeatsKept DEF StartingTick
  <1>13. CASE MatchTick
    <2>1. \A id \in PlayerIds : slots'[id].name = slots[id].name
      BY <1>1, <1>13, VerdictKeepsNames DEF MatchTick
    <2>. QED BY <1>13, <2>1, SeatsKept DEF MatchTick
  <1>14. CASE EndOfMatchTick
    <2>1. slots' = slots \/ slots' = AllUnready(slots)
      BY <1>14, Zenon DEF EndOfMatchTick, ResetRoundRuntimeToLobby
    <2>. QED BY <1>1, <1>14, <2>1, NamesKept, SeatsKept DEF EndOfMatchTick
  <1>. QED
    BY <1>2, <1>3, <1>4, <1>5, <1>6, <1>7, <1>8, <1>9, <1>10, <1>11, <1>12, <1>13, <1>14
    DEF Next, Tick

(***************************************************************************)
(* Sessions, seats and free ids agree in every reachable state, for any    *)
(* number of peers and seats and whatever joins, reclaims and leaves.      *)
(***************************************************************************)
THEOREM SeatsCorrect == Spec => []SeatOwnership
  <1>1. Init => SeatOwnership
    BY DEF Init, SessionInit, SeatOwnership, Accepted, BoundIds, Occupied, Reclaimable,
           NoSlot, NoReclaim
  <1>2. TypeOK /\ SeatOwnership /\ [Next]_vars => SeatOwnership'
    BY NextSeats
  <1>. QED BY <1>1, <1>2, TypeCorrect, PTL DEF Spec

-----------------------------------------------------------------------------
(* Rounds. *)

\* The round's inductive invariant, on top of TypeOK and SeatOwnership.
RoundInv == CountdownIsCurrent /\ RoundMembership /\ NoRoundResidue /\ RoundShape

\* The configured durations are positive.
LEMMA TicksPositive ==
  /\ CountdownTicks \in Nat /\ CountdownTicks > 0
  /\ LoadTimeoutTicks \in Nat /\ LoadTimeoutTicks > 0
  /\ UnlockDelayTicks \in Nat /\ UnlockDelayTicks > 0
  /\ ReturnTicks \in Nat /\ ReturnTicks > 0
  BY TicksAssumption

\* Whatever the state before, the reset leaves an idle lobby.
LEMMA ResetRound ==
  ASSUME NEW seats, ResetRoundRuntimeToLobby(seats)
  PROVE  RoundInv'
  BY DEF ResetRoundRuntimeToLobby, RoundInv, CountdownIsCurrent, RoundMembership,
         NoRoundResidue, RoundShape, StartingShape, MatchShape, VerdictShape, NoTimers,
         RoundPhases

\* A lobby without a countdown is idle whatever it keeps from before.
LEMMA IdleLobby ==
  ASSUME TypeOK, RoundInv, phase \in {"Lobby", "LobbyCountdown"}, LobbyWithoutCountdown,
         UNCHANGED <<matchId, roundWinner, roundDraw, bombsLive>>,
         playerMask' \subseteq playerMask, loadedMask' \subseteq loadedMask,
         inMatch' \subseteq inMatch, alive' \subseteq alive, unlocked' \subseteq unlocked
  PROVE  RoundInv'
  <1>1. /\ matchId = 0 /\ playerMask = {} /\ loadedMask = {}
        /\ inMatch = {} /\ alive = {} /\ unlocked = {} /\ ~bombsLive
        /\ roundWinner = NoPlayer /\ ~roundDraw
        /\ timer.load = Unset /\ timer.unlock = Unset /\ timer.return = Unset
    BY DEF RoundInv, NoRoundResidue
  <1>2. /\ timer'.load = Unset /\ timer'.unlock = Unset /\ timer'.return = Unset
        /\ timer'.countdown = Unset
    BY <1>1 DEF LobbyWithoutCountdown, TypeOK, Timers
  <1>3. phase' = "Lobby"
    BY DEF LobbyWithoutCountdown
  <1>. QED
    BY <1>1, <1>2, <1>3
    DEF RoundInv, CountdownIsCurrent, RoundMembership, NoRoundResidue, RoundShape,
        StartingShape, MatchShape, VerdictShape, RoundPhases

\* The end of a match: whoever is left has match state, and at most one lives.
LEMMA VerdictRound ==
  ASSUME TypeOK, RoundInv, phase = "InMatch",
         NEW participants, NEW survivors \in SUBSET participants, NEW seats,
         NEW t \in Timers, t.load = Unset,
         BeginEndOfMatch(participants, survivors, seats, t),
         RoundDecided(participants, survivors),
         UNCHANGED <<matchId, nextMatchId>>,
         participants = Accepted', playerMask' = Accepted',
         participants \subseteq PlayerIds
  PROVE  RoundInv'
  <1>1. /\ phase' = "EndOfMatch" /\ unlocked' = {} /\ bombsLive' = FALSE
        /\ inMatch' = Accepted' /\ alive' = survivors
        /\ roundDraw' = (survivors = {})
        /\ roundWinner' = IF survivors = {} THEN NoPlayer ELSE CHOOSE id \in survivors : TRUE
    BY DEF BeginEndOfMatch
  <1>2. /\ timer'.return > 0 /\ timer'.load = Unset /\ timer'.unlock = Unset
    BY TicksPositive DEF BeginEndOfMatch, Timers
  <1>3. survivors \subseteq {roundWinner'} /\ (roundDraw' <=> roundWinner' = NoPlayer)
    <2>1. CASE survivors = {}
      BY <1>1, <2>1
    <2>2. CASE survivors # {}
      <3>1. roundWinner' \in survivors
        BY <1>1, <2>2
      <3>2. \A id \in survivors : id = roundWinner'
        BY <3>1 DEF RoundDecided
      <3>3. roundWinner' # NoPlayer
        BY <3>1 DEF PlayerIds, NoPlayer
      <3>. QED BY <1>1, <2>2, <3>2, <3>3
    <2>. QED BY <2>1, <2>2
  <1>4. participants # {}
    BY DEF RoundDecided
  <1>5. matchId' = nextMatchId' - 1 /\ matchId' # 0
    BY DEF RoundInv, RoundMembership, RoundPhases
  <1>. QED
    BY <1>1, <1>2, <1>3, <1>4, <1>5
    DEF RoundInv, CountdownIsCurrent, RoundMembership, NoRoundResidue, RoundShape,
        StartingShape, MatchShape, VerdictShape, RoundPhases

\* A step that changes neither seats nor the round keeps the round's invariant.
LEMMA RoundKept ==
  ASSUME RoundInv, UNCHANGED <<playerOf, slots, roundVars, arenaVars>>
  PROVE  RoundInv'
  BY DEF RoundInv, CountdownIsCurrent, RoundMembership, NoRoundResidue, RoundShape,
         StartingShape, MatchShape, VerdictShape, RoundPhases, roundVars, arenaVars,
         Accepted, BoundIds, HasMinimumParticipants

\* A disconnect keeps the round invariant, in each branch of the flow.
LEMMA DisconnectRound ==
  ASSUME TypeOK, SeatOwnership, RoundInv, NEW p \in Peers, DisconnectAccepted(p)
  PROVE  RoundInv'
  <1> DEFINE id == playerOf[p]
  <1>1. Accepted' = Accepted \ {id} /\ id \in Accepted
    BY DisconnectSeats
  <1>2. Accepted \subseteq PlayerIds /\ id \in PlayerIds
    BY <1>1 DEF TypeOK, SessionTypeOK, Accepted, BoundIds
  <1> HIDE DEF id
  <1>3. CASE ReleasedInLobby(id)
    BY <1>3, IdleLobby DEF ReleasedInLobby, ResetLobbyParticipantsToUnready
  <1>4. CASE ReleasedWhileStarting(id)
    BY <1>4, ResetRound DEF ReleasedWhileStarting, CancelStartingMatch
  <1>5. CASE ReleasedLastOfRound(id)
    BY <1>5, ResetRound DEF ReleasedLastOfRound
  <1>6. CASE ReleasedFromRound(id)
    <2>1. /\ phase \in {"InMatch", "EndOfMatch"}
          /\ playerMask' = Accepted' /\ inMatch \ {id} = Accepted'
          /\ playerMask' # {} /\ loadedMask' = loadedMask \ {id}
          /\ matchId' = nextMatchId' - 1 /\ matchId' # 0
          /\ UNCHANGED <<matchId, nextMatchId>>
      BY <1>1, <1>6 DEF ReleasedFromRound, RoundInv, RoundMembership, RoundPhases
    <2>2. CASE /\ phase = "InMatch" /\ RoundDecided(inMatch \ {id}, alive \ {id})
               /\ BeginEndOfMatch(inMatch \ {id}, alive \ {id}, SeatLeft(id), timer)
      <3>1. /\ timer \in Timers /\ timer.load = Unset
            /\ alive \ {id} \in SUBSET (inMatch \ {id})
        BY <2>2 DEF TypeOK, RoundInv, RoundShape, MatchShape
      <3>2. inMatch \ {id} \subseteq PlayerIds
        BY DEF TypeOK
      <3>. QED BY <2>1, <2>2, <3>1, <3>2, VerdictRound
    <2>3. CASE /\ ~(phase = "InMatch" /\ RoundDecided(inMatch \ {id}, alive \ {id}))
               /\ inMatch' = inMatch \ {id} /\ alive' = alive \ {id}
               /\ unlocked' = unlocked \ {id}
               /\ UNCHANGED <<phase, timer, roundWinner, roundDraw, bombsLive>>
      <3>1. CASE phase = "InMatch"
        <4>1. HasMinimumParticipants(alive')
          BY <2>1, <2>3, <3>1 DEF RoundDecided, HasMinimumParticipants
        <4>2. MatchShape'
          BY <2>1, <2>3, <3>1, <4>1
            DEF RoundInv, RoundShape, MatchShape, RoundMembership, RoundPhases
        <4>. QED
          BY <2>1, <2>3, <3>1, <4>2
          DEF RoundInv, CountdownIsCurrent, RoundMembership, NoRoundResidue, RoundShape,
              StartingShape, VerdictShape, RoundPhases
      <3>2. CASE phase = "EndOfMatch"
        BY <2>1, <2>3, <3>2
        DEF RoundInv, CountdownIsCurrent, RoundMembership, NoRoundResidue, RoundShape,
            StartingShape, MatchShape, VerdictShape, RoundPhases
      <3>. QED BY <2>1, <3>1, <3>2
    <2>. QED BY <1>6, <2>2, <2>3, Zenon DEF ReleasedFromRound
  <1>. QED BY <1>3, <1>4, <1>5, <1>6
    DEF DisconnectAccepted, HandleAcceptedPlayerReleased, id

\* Hello keeps the round invariant.
LEMMA HelloRound ==
  ASSUME TypeOK, RoundInv, NEW p \in Peers, NEW name \in Names,
         NEW versionMatches \in BOOLEAN, NEW welcomeQueued \in BOOLEAN,
         Hello(p, name, versionMatches, welcomeQueued)
  PROVE  RoundInv'
  <1>1. CASE RejectHello(p)
    BY <1>1, RoundKept DEF RejectHello
  <1>2. ASSUME NEW id \in freeIds, LobbyAccept(p, name, id), phase \notin RoundPhases
        PROVE  RoundInv'
    <2>1. phase \in {"Lobby", "LobbyCountdown"}
      BY <1>2 DEF TypeOK, Phases, RoundPhases
    <2>. QED
      BY <1>2, <2>1, IdleLobby DEF LobbyAccept, ResetLobbyParticipantsToUnready, arenaVars
  <1>. QED BY <1>1, <1>2, HelloCases

\* LobbyReady keeps the round invariant: a countdown it starts is current.
LEMMA LobbyReadyRound ==
  ASSUME TypeOK, RoundInv, NEW p \in Peers, NEW desired \in BOOLEAN, LobbyReady(p, desired)
  PROVE  RoundInv'
  <1> DEFINE seats == [slots EXCEPT ![playerOf[p]].ready = desired]
  <1>1. /\ phase \in {"Lobby", "LobbyCountdown"}
        /\ UNCHANGED <<matchId, nextMatchId, playerMask, loadedMask, roundWinner,
                       roundDraw, inMatch, alive, unlocked, bombsLive>>
        /\ playerOf' = playerOf
    BY DEF LobbyReady, HandleLobbyReadyStateChanged, arenaVars
  <1>2. Accepted' = Accepted
    BY <1>1 DEF Accepted, BoundIds
  <1>3. CASE CancelLobbyCountdown(seats)
    BY <1>1, <1>3, IdleLobby DEF CancelLobbyCountdown
  <1>4. CASE /\ StartLobbyCountdown(Accepted, seats)
             /\ \A other \in Accepted : seats[other].ready
             /\ HasMinimumParticipants(Accepted)
    <2>1. /\ phase' = "LobbyCountdown" /\ countdownMask' = Accepted /\ slots' = seats
          /\ timer' = [timer EXCEPT !.countdown = CountdownTicks]
      BY <1>4 DEF StartLobbyCountdown
    <2>2. /\ timer'.countdown > 0 /\ timer'.load = timer.load
          /\ timer'.unlock = timer.unlock /\ timer'.return = timer.return
      BY <2>1, TicksPositive DEF TypeOK, Timers
    <2>3. CountdownIsCurrent'
      BY <1>2, <1>4, <2>1, <2>2 DEF CountdownIsCurrent, HasMinimumParticipants
    <2>4. NoRoundResidue'
      BY <1>1, <2>1, <2>2 DEF RoundInv, NoRoundResidue
    <2>. QED
      BY <2>1, <2>3, <2>4
      DEF RoundInv, RoundMembership, RoundShape, StartingShape, MatchShape, VerdictShape,
          RoundPhases
  <1>5. CASE /\ slots' = seats
             /\ UNCHANGED <<phase, countdownMask, timer, lastSecond>>
             /\ phase = "LobbyCountdown" => \A other \in Accepted : seats[other].ready
    <2>1. CountdownIsCurrent'
      BY <1>2, <1>5 DEF RoundInv, CountdownIsCurrent, HasMinimumParticipants
    <2>2. NoRoundResidue'
      BY <1>1, <1>5 DEF RoundInv, NoRoundResidue
    <2>. QED
      BY <1>1, <1>5, <2>1, <2>2
      DEF RoundInv, RoundMembership, RoundShape, StartingShape, MatchShape, VerdictShape,
          RoundPhases
  <1>6. \/ CancelLobbyCountdown(seats)
        \/ /\ StartLobbyCountdown(Accepted, seats)
           /\ \A other \in Accepted : seats[other].ready
           /\ HasMinimumParticipants(Accepted)
        \/ /\ slots' = seats
           /\ UNCHANGED <<phase, countdownMask, timer, lastSecond>>
           /\ phase = "LobbyCountdown" => \A other \in Accepted : seats[other].ready
    BY Zenon DEF LobbyReady, HandleLobbyReadyStateChanged
  <1>. QED BY <1>3, <1>4, <1>5, <1>6

\* MatchLoaded keeps the round invariant: the last acknowledgement commits.
LEMMA MatchLoadedRound ==
  ASSUME TypeOK, SeatOwnership, RoundInv, NEW p \in Peers, NEW m, MatchLoaded(p, m)
  PROVE  RoundInv'
  <1> DEFINE id == playerOf[p]
  <1>1. /\ phase = "StartingMatch" /\ id \in playerMask
        /\ UNCHANGED <<playerOf, nextMatchId>>
        /\ Accepted' = Accepted
    BY DEF MatchLoaded, MarkPlayerLoadedForCurrentMatch, Acknowledges, Accepted, BoundIds
  <1>2. /\ loadedMask \subseteq playerMask /\ HasMinimumParticipants(playerMask)
        /\ alive = inMatch /\ unlocked = {} /\ ~bombsLive
        /\ timer.load > 0 /\ timer.unlock = Unset /\ timer.return = Unset
        /\ playerMask = Accepted /\ inMatch = Accepted /\ playerMask # {}
        /\ matchId = nextMatchId - 1 /\ matchId # 0
    BY <1>1 DEF RoundInv, RoundMembership, RoundPhases, RoundShape, StartingShape
  <1> HIDE DEF id
  <1>3. CASE CommitMatchStart
    <2>1. CASE CancelStartingMatch(matchId,
                 To(playerMask, <<FlowMsg("MatchStart", matchId)>>), playerMask, slots)
      BY <2>1, ResetRound DEF CancelStartingMatch
    <2>2. CASE /\ phase' = "InMatch" /\ loadedMask' = playerMask
               /\ timer' = [timer EXCEPT !.load = Unset, !.unlock = UnlockDelayTicks]
               /\ UNCHANGED <<matchId, playerMask, arenaVars>>
      <3>1. /\ timer'.load = Unset /\ timer'.unlock > 0 /\ timer'.unlock # Unset
            /\ timer'.return = Unset
        BY <1>2, <2>2, TicksPositive DEF TypeOK, Timers, Unset
      <3>2. HasMinimumParticipants(alive')
        BY <1>2, <2>2 DEF HasMinimumParticipants, arenaVars
      <3>. QED
        BY <1>1, <1>2, <2>2, <3>1, <3>2
        DEF RoundInv, CountdownIsCurrent, RoundMembership, NoRoundResidue, RoundShape,
            StartingShape, MatchShape, VerdictShape, RoundPhases, arenaVars
    <2>. QED BY <1>3, <2>1, <2>2, Zenon DEF CommitMatchStart
  <1>4. CASE /\ loadedMask \cup {id} # playerMask
             /\ loadedMask' = loadedMask \cup {id}
             /\ UNCHANGED <<phase, matchId, playerMask, timer, arenaVars>>
    <2>1. HasMinimumParticipants(playerMask')
      BY <1>2, <1>4
    <2>. QED
      BY <1>1, <1>2, <1>4, <2>1
      DEF RoundInv, CountdownIsCurrent, RoundMembership, NoRoundResidue, RoundShape,
          StartingShape, MatchShape, VerdictShape, RoundPhases, arenaVars
  <1>. QED BY <1>3, <1>4 DEF MatchLoaded, MarkPlayerLoadedForCurrentMatch, Acknowledges, id

\* A tick of the countdown keeps the round invariant.
LEMMA CountdownTickRound ==
  ASSUME TypeOK, RoundInv, CountdownTick
  PROVE  RoundInv'
  <1> DEFINE t == Elapsed(timer)
  <1>1. /\ phase = "LobbyCountdown" /\ playerOf' = playerOf /\ Accepted' = Accepted
    BY DEF CountdownTick, Accepted, BoundIds
  <1>2. /\ countdownMask = Accepted /\ HasMinimumParticipants(Accepted)
        /\ Accepted \subseteq PlayerIds
    BY <1>1 DEF RoundInv, CountdownIsCurrent, TypeOK, SessionTypeOK, Accepted, BoundIds
  <1>3. CASE BeginMatchBootstrap
    <2> DEFINE reached == {id \in countdownMask : Queues(id)}
    <2>1. CASE /\ CancelLobbyCountdown(slots)
               /\ UNCHANGED <<matchId, playerMask, loadedMask, roundWinner, roundDraw,
                              arenaVars>>
      BY <1>1, <2>1, IdleLobby DEF CancelLobbyCountdown, arenaVars
    <2>2. CASE CancelStartingMatch(nextMatchId,
                 To(reached, <<FlowMsg("LevelInfo", nextMatchId)>>), reached, slots)
      BY <2>2, ResetRound DEF CancelStartingMatch
    <2>3. CASE /\ reached = countdownMask
               /\ nextMatchId' = nextMatchId + 1 /\ matchId' = nextMatchId
               /\ phase' = "StartingMatch"
               /\ playerMask' = reached /\ loadedMask' = {}
               /\ timer' = [NoTimers EXCEPT !.load = LoadTimeoutTicks]
               /\ inMatch' = reached /\ alive' = reached /\ unlocked' = {}
               /\ bombsLive' = FALSE
      <3>1. timer'.load > 0 /\ timer'.unlock = Unset /\ timer'.return = Unset
        BY <2>3, TicksPositive DEF NoTimers
      <3>2. playerMask' = Accepted' /\ inMatch' = Accepted' /\ alive' = Accepted'
        BY <1>1, <1>2, <2>3
      <3>3. HasMinimumParticipants(playerMask') /\ playerMask' # {}
        BY <1>1, <1>2, <3>2 DEF HasMinimumParticipants
      <3>4. matchId' = nextMatchId' - 1 /\ matchId' # 0
        BY <2>3 DEF TypeOK
      <3>. QED
        BY <2>3, <3>1, <3>2, <3>3, <3>4
        DEF RoundInv, CountdownIsCurrent, RoundMembership, NoRoundResidue, RoundShape,
            StartingShape, MatchShape, VerdictShape, RoundPhases
    <2>. QED BY <1>3, <2>1, <2>2, <2>3, Zenon DEF BeginMatchBootstrap
  <1>4. CASE /\ t.countdown # 0 /\ timer' = t
             /\ UNCHANGED <<slots, phase, matchId, nextMatchId, countdownMask, playerMask,
                            loadedMask, roundWinner, roundDraw, arenaVars>>
    <2>1. /\ timer.countdown > 0 /\ timer.load = Unset
          /\ timer.unlock = Unset /\ timer.return = Unset
      BY <1>1 DEF RoundInv, CountdownIsCurrent, NoRoundResidue
    <2>2. /\ timer'.countdown > 0 /\ timer'.load = Unset
          /\ timer'.unlock = Unset /\ timer'.return = Unset
      BY <1>4, <2>1 DEF Elapsed, Passed, TypeOK, Timers, TicksLeft, Unset
    <2>3. CountdownIsCurrent'
      BY <1>1, <1>4, <2>2 DEF RoundInv, CountdownIsCurrent, HasMinimumParticipants
    <2>4. NoRoundResidue'
      BY <1>1, <1>4, <2>2 DEF RoundInv, NoRoundResidue, arenaVars
    <2>. QED
      BY <1>1, <1>4, <2>3, <2>4
      DEF RoundInv, RoundMembership, RoundShape, StartingShape, MatchShape, VerdictShape,
          RoundPhases
  <1>. QED BY <1>3, <1>4 DEF CountdownTick

\* A tick of the bootstrap keeps the round invariant.
LEMMA StartingTickRound ==
  ASSUME TypeOK, RoundInv, StartingTick
  PROVE  RoundInv'
  <1> DEFINE t == Elapsed(timer)
  <1>1. CASE CancelStartingMatch(matchId, To({}, <<>>), playerMask, slots)
    BY <1>1, ResetRound DEF CancelStartingMatch
  <1>2. CASE /\ t.load # 0 /\ timer' = t
             /\ UNCHANGED <<slots, phase, matchId, countdownMask, playerMask, loadedMask,
                            lastSecond, roundWinner, roundDraw, arenaVars, wireVars>>
    <2>1. /\ phase = "StartingMatch" /\ timer.load > 0
          /\ timer.unlock = Unset /\ timer.return = Unset
      BY DEF StartingTick, RoundInv, RoundShape, StartingShape
    <2>2. timer'.load > 0 /\ timer'.unlock = Unset /\ timer'.return = Unset
      BY <1>2, <2>1 DEF Elapsed, Passed, TypeOK, Timers, TicksLeft, Unset
    <2>3. HasMinimumParticipants(playerMask')
      BY <1>2, <2>1 DEF RoundInv, RoundShape, StartingShape
    <2>4. Accepted' = Accepted /\ nextMatchId' = nextMatchId
      BY DEF StartingTick, Accepted, BoundIds
    <2>. QED
      BY <1>2, <2>1, <2>2, <2>3, <2>4
      DEF RoundInv, CountdownIsCurrent, RoundMembership, NoRoundResidue, RoundShape,
          StartingShape, MatchShape, VerdictShape, RoundPhases, arenaVars
  <1>. QED BY <1>1, <1>2 DEF StartingTick

\* A tick of the match keeps the round invariant.
LEMMA MatchTickRound ==
  ASSUME TypeOK, RoundInv, MatchTick
  PROVE  RoundInv'
  <1> DEFINE t == Elapsed(timer)
             left == [t EXCEPT !.unlock = IF @ = 0 THEN Unset ELSE @]
             mayAct == IF t.unlock = 0 THEN inMatch ELSE unlocked
  <1>1. /\ phase = "InMatch" /\ UNCHANGED <<playerOf, matchId, nextMatchId, playerMask,
                                            loadedMask, countdownMask>>
        /\ Accepted' = Accepted
    BY DEF MatchTick, Accepted, BoundIds
  <1>2. /\ loadedMask = playerMask /\ alive \subseteq inMatch
        /\ HasMinimumParticipants(alive)
        /\ timer.unlock = Unset => unlocked = alive
        /\ timer.unlock # Unset => unlocked = {} /\ ~bombsLive /\ alive = inMatch
        /\ timer.unlock # 0 /\ timer.load = Unset /\ timer.return = Unset
        /\ playerMask = Accepted /\ inMatch = Accepted /\ playerMask # {}
        /\ matchId = nextMatchId - 1 /\ matchId # 0
    BY <1>1 DEF RoundInv, RoundMembership, RoundPhases, RoundShape, MatchShape
  <1>3. /\ left \in Timers /\ left.load = Unset /\ left.return = Unset
        /\ left.unlock # 0
        /\ t.unlock # 0 => left.unlock = t.unlock
        /\ t.unlock = 0 => left.unlock = Unset
        /\ timer.unlock = Unset <=> t.unlock = Unset
    <2>1. /\ t \in Timers /\ t.load = Unset /\ t.return = Unset
          /\ timer.unlock = Unset <=> t.unlock = Unset
      BY <1>2, ElapsedType DEF Elapsed, Passed, TypeOK, Timers, TicksLeft, Unset
    <2>. HIDE DEF t
    <2>. QED BY <2>1 DEF Timers, TicksLeft, Unset
  <1>4. PICK killed \in SUBSET alive, bombsAfter \in BOOLEAN :
          /\ killed # {} => bombsLive
          /\ bombsAfter => bombsLive \/ mayAct \cap alive # {}
          /\ \/ /\ RoundDecided(inMatch, alive \ killed)
                /\ BeginEndOfMatch(inMatch, alive \ killed, slots, left)
             \/ /\ ~RoundDecided(inMatch, alive \ killed)
                /\ alive' = alive \ killed
                /\ unlocked' = mayAct \ killed
                /\ bombsLive' = bombsAfter
                /\ timer' = left
                /\ UNCHANGED <<inMatch, slots, phase, roundWinner, roundDraw, wireVars>>
    BY Zenon DEF MatchTick
  <1>5. mayAct = IF t.unlock = 0 THEN inMatch ELSE unlocked
    OBVIOUS
  <1> HIDE DEF t, left, mayAct
  <1>6. CASE /\ RoundDecided(inMatch, alive \ killed)
             /\ BeginEndOfMatch(inMatch, alive \ killed, slots, left)
    <2>1. alive \ killed \in SUBSET inMatch /\ inMatch \subseteq PlayerIds
      BY <1>2 DEF TypeOK
    <2>2. inMatch = Accepted' /\ playerMask' = Accepted'
      BY <1>1, <1>2
    <2>. QED BY <1>1, <1>3, <1>6, <2>1, <2>2, VerdictRound
  <1>7. CASE /\ ~RoundDecided(inMatch, alive \ killed)
             /\ alive' = alive \ killed
             /\ unlocked' = mayAct \ killed
             /\ bombsLive' = bombsAfter
             /\ timer' = left
             /\ UNCHANGED <<inMatch, slots, phase, roundWinner, roundDraw, wireVars>>
    <2>1. HasMinimumParticipants(alive')
      BY <1>2, <1>7 DEF RoundDecided, HasMinimumParticipants
    <2>2. /\ timer'.unlock = Unset => unlocked' = alive'
          /\ timer'.unlock # Unset => unlocked' = {} /\ ~bombsLive' /\ alive' = inMatch'
      <3>1. CASE timer.unlock = Unset
        <4>1. t.unlock = Unset /\ t.unlock # 0
          BY <1>3, <3>1 DEF Unset
        <4>2. left.unlock = Unset /\ mayAct = alive
          BY <1>2, <1>3, <1>5, <3>1, <4>1
        <4>. QED BY <1>7, <4>2
      <3>2. CASE timer.unlock # Unset
        <4>1. ~bombsLive /\ alive = inMatch /\ unlocked = {} /\ t.unlock # Unset
          BY <1>2, <1>3, <3>2
        <4>2. killed = {}
          BY <1>4, <4>1
        <4>3. CASE t.unlock = 0
          BY <1>3, <1>5, <1>7, <4>1, <4>2, <4>3
        <4>4. CASE t.unlock # 0
          <5>1. mayAct = {} /\ left.unlock # Unset
            BY <1>3, <1>5, <4>1, <4>4
          <5>2. ~bombsAfter
            BY <1>4, <4>1, <5>1
          <5>. QED BY <1>7, <4>1, <4>2, <5>1, <5>2
        <4>. QED BY <4>3, <4>4
      <3>. QED BY <3>1, <3>2
    <2>4. MatchShape'
      BY <1>1, <1>2, <1>3, <1>7, <2>1, <2>2 DEF MatchShape
    <2>. QED
      BY <1>1, <1>2, <1>7, <2>4
      DEF RoundInv, CountdownIsCurrent, RoundMembership, NoRoundResidue, RoundShape,
          StartingShape, VerdictShape, RoundPhases
  <1>. QED BY <1>4, <1>6, <1>7

\* A tick of the end-of-match screen keeps the round invariant.
LEMMA EndOfMatchTickRound ==
  ASSUME TypeOK, RoundInv, EndOfMatchTick
  PROVE  RoundInv'
  <1> DEFINE t == Elapsed(timer)
  <1>1. CASE ResetRoundRuntimeToLobby(slots)
    BY <1>1, ResetRound
  <1>2. CASE /\ t.return # 0 /\ timer' = t
             /\ UNCHANGED <<slots, phase, matchId, countdownMask, playerMask, loadedMask,
                            lastSecond, roundWinner, roundDraw, arenaVars, wireVars>>
    <2>1. /\ phase = "EndOfMatch" /\ timer.return > 0
          /\ timer.load = Unset /\ timer.unlock = Unset
      BY DEF EndOfMatchTick, RoundInv, RoundShape, VerdictShape
    <2>2. timer'.return > 0 /\ timer'.load = Unset /\ timer'.unlock = Unset
      BY <1>2, <2>1 DEF Elapsed, Passed, TypeOK, Timers, TicksLeft, Unset
    <2>3. Accepted' = Accepted /\ nextMatchId' = nextMatchId
      BY DEF EndOfMatchTick, Accepted, BoundIds
    <2>. QED
      BY <1>2, <2>1, <2>2, <2>3
      DEF RoundInv, CountdownIsCurrent, RoundMembership, NoRoundResidue, RoundShape,
          StartingShape, MatchShape, VerdictShape, RoundPhases, arenaVars
  <1>. QED BY <1>1, <1>2 DEF EndOfMatchTick

\* Every step keeps the round invariant.
LEMMA NextRound == TypeOK /\ SeatOwnership /\ RoundInv /\ [Next]_vars => RoundInv'
  <1> SUFFICES ASSUME TypeOK, SeatOwnership, RoundInv, [Next]_vars PROVE RoundInv'
    OBVIOUS
  <1>1. CASE UNCHANGED vars
    BY <1>1, RoundKept DEF vars, sessionVars
  <1>2. ASSUME NEW p \in Peers, Connect(p) PROVE RoundInv'
    <2>1. playerOf' = playerOf
      BY <1>2 DEF Connect, TypeOK, SessionTypeOK, SeatOwnership
    <2>. QED BY <1>2, <2>1, RoundKept DEF Connect
  <1>3. ASSUME NEW p \in Peers, PeerCloses(p) \/ DisconnectUnaccepted(p) \/ ClientLoads(p)
        PROVE  RoundInv'
    BY <1>3, RoundKept DEF PeerCloses, DisconnectUnaccepted, ClientLoads, sessionVars
  <1>4. CASE \E p \in Peers : DisconnectAccepted(p)
    BY <1>4, DisconnectRound
  <1>5. CASE \E p \in Peers, name \in Names, versionMatches, welcomeQueued \in BOOLEAN :
               Hello(p, name, versionMatches, welcomeQueued)
    BY <1>5, HelloRound
  <1>6. CASE \E p \in Peers, desired \in BOOLEAN : LobbyReady(p, desired)
    BY <1>6, LobbyReadyRound
  <1>7. CASE \E p \in Peers : \E m \in 1 .. clientLoaded[p] : MatchLoaded(p, m)
    BY <1>7, MatchLoadedRound
  <1>8. CASE Tick
    BY <1>8, CountdownTickRound, StartingTickRound, MatchTickRound, EndOfMatchTickRound
    DEF Tick
  <1>. QED BY <1>1, <1>2, <1>3, <1>4, <1>5, <1>6, <1>7, <1>8, Zenon DEF Next

(***************************************************************************)
(* Every reachable state satisfies the inductive invariant of the rounds,  *)
(* for any number of players and any positive deadlines.                   *)
(***************************************************************************)
THEOREM RoundsCorrect == Spec => []RoundInv
  <1>1. Init => RoundInv
    BY DEF Init, NoTimers, RoundInv, CountdownIsCurrent, RoundMembership, NoRoundResidue,
           RoundShape, StartingShape, MatchShape, VerdictShape, RoundPhases
  <1>2. TypeOK /\ SeatOwnership /\ RoundInv /\ [Next]_vars => RoundInv'
    BY NextRound
  <1>. QED BY <1>1, <1>2, TypeCorrect, SeatsCorrect, PTL DEF Spec

(***************************************************************************)
(* A running countdown is about exactly the players now in the lobby, so   *)
(* every countdown that runs out starts a round.                           *)
(***************************************************************************)
THEOREM CountdownCorrect == Spec => []CountdownIsCurrent
  <1>1. RoundInv => CountdownIsCurrent
    BY DEF RoundInv
  <1>. QED BY <1>1, RoundsCorrect, PTL

(***************************************************************************)
(* While a round runs its participants, its bodies and the accepted        *)
(* players are the same set.                                               *)
(***************************************************************************)
THEOREM MembershipCorrect == Spec => []RoundMembership
  <1>1. RoundInv => RoundMembership
    BY DEF RoundInv
  <1>. QED BY <1>1, RoundsCorrect, PTL

(***************************************************************************)
(* Between rounds nothing of the last round is left, however it ended.     *)
(***************************************************************************)
THEOREM ResidueCorrect == Spec => []NoRoundResidue
  <1>1. RoundInv => NoRoundResidue
    BY DEF RoundInv
  <1>. QED BY <1>1, RoundsCorrect, PTL

(***************************************************************************)
(* A bootstrap is incomplete, a match undecided and a verdict consistent   *)
(* in every reachable state.                                               *)
(***************************************************************************)
THEOREM ShapeCorrect == Spec => []RoundShape
  <1>1. RoundInv => RoundShape
    BY DEF RoundInv
  <1>. QED BY <1>1, RoundsCorrect, PTL

-----------------------------------------------------------------------------
(* What the clients know. *)

\* The second last broadcast is the second the countdown is in.
SecondIsCurrent ==
  phase = "LobbyCountdown" => lastSecond = CountdownSeconds(timer.countdown)

ViewInv == ToldTheTruth /\ LobbyViewIsCurrent /\ SecondIsCurrent

\* Every step that ends with the LobbyState broadcast tells every open peer.
LEMMA BroadcastTells ==
  ASSUME NEW batch \in [PlayerIds -> Seq(FlowMsgs)], BroadcastLobbyStateAfter(batch),
         TypeOK', phase' \in {"Lobby", "LobbyCountdown"}
  PROVE  ToldTheTruth' /\ LobbyViewIsCurrent'
  <1> DEFINE all == [id \in PlayerIds |-> Append(batch[id], LobbyStateMsg)]
  <1>1. lastFlow' = Queued(all)
    BY DEF BroadcastLobbyStateAfter
  <1>2. \A id \in PlayerIds : all[id] # <<>> /\ all[id][Len(all[id])] = LobbyStateMsg
    BY MsgType
  <1> HIDE DEF all
  <1>3. ASSUME NEW p \in Peers, playerOf'[p] # NoPlayer, link'[p] = "open"
        PROVE  lastFlow'[p] = all[playerOf'[p]] /\ playerOf'[p] \in PlayerIds
    BY <1>1, <1>2, <1>3 DEF Queued, TypeOK, SessionTypeOK
  <1>4. ToldTheTruth'
    BY <1>2, <1>3 DEF ToldTheTruth, LastTold
  <1>5. LobbyViewIsCurrent'
    BY DEF LobbyViewIsCurrent, BroadcastLobbyStateAfter
  <1>. QED BY <1>4, <1>5

\* In particular the plain broadcast does.
LEMMA LobbyBroadcastTells ==
  ASSUME BroadcastLobbyState, TypeOK', phase' \in {"Lobby", "LobbyCountdown"}
  PROVE  ToldTheTruth' /\ LobbyViewIsCurrent'
  BY NoBatchType, BroadcastTells DEF BroadcastLobbyState

\* A cancelled bootstrap ends with every open peer told of the lobby.
LEMMA CancelTells ==
  ASSUME NEW m \in Nat, NEW batch \in [PlayerIds -> Seq(FlowMsgs)], NEW notify, NEW seats,
         CancelStartingMatch(m, batch, notify, seats), TypeOK'
  PROVE  ViewInv'
  <1> DEFINE both == [id \in PlayerIds |-> IF id \in notify
                             THEN Append(batch[id], FlowMsg("MatchCancelled", m))
                             ELSE batch[id]]
  <1>1. both \in [PlayerIds -> Seq(FlowMsgs)]
    BY MsgType
  <1>2. BroadcastLobbyStateAfter(both) /\ phase' = "Lobby"
    BY DEF CancelStartingMatch, ResetRoundRuntimeToLobby
  <1> HIDE DEF both
  <1>. QED BY <1>1, <1>2, BroadcastTells DEF ViewInv, SecondIsCurrent

\* A stage of the round announced to exactly its participants reaches them all.
LEMMA AnnounceTells ==
  ASSUME NEW type \in {"LevelInfo", "MatchStart", "MatchResult"},
         lastFlow' = Queued(To(playerMask', <<FlowMsg(type, matchId')>>)),
         playerMask' = Accepted', TypeOK',
         \/ phase' = "StartingMatch" /\ type = "LevelInfo"
         \/ phase' = "InMatch" /\ type = "MatchStart"
         \/ phase' = "EndOfMatch" /\ type = "MatchResult"
  PROVE  ViewInv'
  <1> DEFINE msg == FlowMsg(type, matchId')
  <1>1. ASSUME NEW p \in Peers, playerOf'[p] # NoPlayer, link'[p] = "open"
        PROVE  lastFlow'[p] = <<msg>>
    <2>1. playerOf'[p] \in PlayerIds /\ playerOf'[p] \in playerMask'
      BY <1>1 DEF Accepted, BoundIds, TypeOK, SessionTypeOK
    <2>2. To(playerMask', <<msg>>)[playerOf'[p]] = <<msg>>
      BY <2>1 DEF To
    <2> HIDE DEF msg
    <2>3. <<msg>> # <<>>
      OBVIOUS
    <2>. QED BY <1>1, <2>2, <2>3 DEF Queued, msg
  <1>2. ToldTheTruth'
    <2>1. \A p \in Peers : playerOf'[p] # NoPlayer /\ link'[p] = "open" =>
            lastFlow'[p] # <<>> /\ lastFlow'[p][Len(lastFlow'[p])] = msg
      BY <1>1
    <2>. QED BY <2>1 DEF ToldTheTruth, LastTold
  <1>. QED BY <1>2 DEF ViewInv, LobbyViewIsCurrent, SecondIsCurrent

\* A step that tells nobody anything has nothing to tell.
LEMMA NothingToTell ==
  ASSUME ViewInv, UNCHANGED <<phase, matchId, slots, lastSecond, lastLobbyState>>,
         UNCHANGED playerOf, timer'.countdown = timer.countdown,
         \A p \in Peers : playerOf[p] # NoPlayer /\ link'[p] = "open" =>
           link[p] = "open" /\ lastFlow'[p] = lastFlow[p]
  PROVE  ViewInv'
  <1>1. ToldTheTruth'
    BY DEF ViewInv, ToldTheTruth, LastTold
  <1>2. LobbyViewIsCurrent' /\ SecondIsCurrent'
    BY DEF ViewInv, LobbyViewIsCurrent, SecondIsCurrent, Accepted, BoundIds
  <1>. QED BY <1>1, <1>2 DEF ViewInv

\* A disconnect leaves everyone else told the truth.
LEMMA DisconnectView ==
  ASSUME TypeOK, SeatOwnership, RoundInv, ViewInv, TypeOK', RoundInv',
         NEW p \in Peers, DisconnectAccepted(p)
  PROVE  ViewInv'
  <1> DEFINE id == playerOf[p]
  <1>1. Accepted' = Accepted \ {id} /\ id \in Accepted
    BY DisconnectSeats
  <1>2. /\ link' = [link EXCEPT ![p] = "free"]
        /\ playerOf' = [playerOf EXCEPT ![p] = NoPlayer]
        /\ link \in [Peers -> LinkStates]
        /\ playerOf \in [Peers -> PlayerIds \cup {NoPlayer}]
    BY
      DEF DisconnectAccepted, HandleAcceptedPlayerReleased, ReleasePeerSession,
          TypeOK, SessionTypeOK
  <1>3. \A q \in Peers : playerOf'[q] # NoPlayer =>
          q # p /\ playerOf[q] = playerOf'[q] /\ link[q] = link'[q]
    BY <1>2
  <1> HIDE DEF id
  <1>4. CASE ReleasedInLobby(id)
    BY <1>4, LobbyBroadcastTells
    DEF ReleasedInLobby, ResetLobbyParticipantsToUnready, LobbyWithoutCountdown, ViewInv,
        SecondIsCurrent
  <1>5. CASE ReleasedWhileStarting(id)
    BY <1>5, NoBatchType, CancelTells DEF ReleasedWhileStarting, TypeOK
  <1>6. CASE ReleasedLastOfRound(id)
    <2>1. Accepted' = {} /\ phase' = "Lobby"
      BY <1>1, <1>6 DEF ReleasedLastOfRound, RoundInv, RoundMembership, RoundPhases,
                        ResetRoundRuntimeToLobby
    <2>2. \A q \in Peers : playerOf'[q] = NoPlayer
      BY <2>1 DEF Accepted, BoundIds
    <2>. QED
      BY <2>1, <2>2 DEF ViewInv, ToldTheTruth, LobbyViewIsCurrent, SecondIsCurrent
  <1>7. CASE ReleasedFromRound(id)
    <2>1. CASE BeginEndOfMatch(inMatch \ {id}, alive \ {id}, SeatLeft(id), timer)
      <3>1. phase' = "EndOfMatch" /\ matchId' = matchId
        BY <1>7, <2>1 DEF ReleasedFromRound, BeginEndOfMatch
      <3>2. playerMask' = Accepted'
        BY <3>1 DEF RoundInv, RoundMembership, RoundPhases
      <3>3. lastFlow' = Queued(To(playerMask', <<FlowMsg("MatchResult", matchId')>>))
        BY <2>1, <3>1 DEF BeginEndOfMatch
      <3>. QED BY <3>1, <3>2, <3>3, AnnounceTells
    <2>2. CASE phase' = phase /\ lastFlow' = Queued(To({}, <<>>))
      <3>1. phase' \in {"InMatch", "EndOfMatch"} /\ matchId' = matchId
        BY <1>7, <2>2 DEF ReleasedFromRound
      <3>2. ASSUME NEW q \in Peers, playerOf'[q] # NoPlayer
            PROVE  lastFlow'[q] = lastFlow[q]
        <4>1. playerOf'[q] \in PlayerIds
          BY <3>2 DEF TypeOK, SessionTypeOK
        <4>2. To({}, <<>>)[playerOf'[q]] = <<>>
          BY <4>1 DEF To
        <4>. QED BY <2>2, <3>2, <4>2 DEF Queued
      <3>3. ToldTheTruth'
        BY <1>3, <2>2, <3>1, <3>2 DEF ViewInv, ToldTheTruth, LastTold
      <3>. QED BY <3>1, <3>3 DEF ViewInv, LobbyViewIsCurrent, SecondIsCurrent
    <2>. QED BY <1>7, <2>1, <2>2, Zenon DEF ReleasedFromRound
  <1>. QED BY <1>4, <1>5, <1>6, <1>7
    DEF DisconnectAccepted, HandleAcceptedPlayerReleased, id

\* LobbyReady leaves everyone told the truth.
LEMMA LobbyReadyView ==
  ASSUME TypeOK, ViewInv, TypeOK', NEW p \in Peers, NEW desired \in BOOLEAN,
         LobbyReady(p, desired)
  PROVE  ViewInv'
  <1> DEFINE seats == [slots EXCEPT ![playerOf[p]].ready = desired]
  <1>1. phase \in {"Lobby", "LobbyCountdown"}
    BY DEF LobbyReady, HandleLobbyReadyStateChanged
  <1>2. CASE CancelLobbyCountdown(seats)
    BY <1>2, LobbyBroadcastTells
    DEF CancelLobbyCountdown, LobbyWithoutCountdown, ViewInv, SecondIsCurrent
  <1>3. CASE StartLobbyCountdown(Accepted, seats)
    <2>1. timer'.countdown = CountdownTicks /\ lastSecond' = CountdownSeconds(CountdownTicks)
      BY <1>3 DEF StartLobbyCountdown, TypeOK, Timers
    <2>2. phase' = "LobbyCountdown" /\ BroadcastLobbyState
      BY <1>3 DEF StartLobbyCountdown
    <2>. QED BY <2>1, <2>2, LobbyBroadcastTells DEF ViewInv, SecondIsCurrent
  <1>4. CASE UNCHANGED <<phase, countdownMask, timer, lastSecond>> /\ BroadcastLobbyState
    BY <1>1, <1>4, LobbyBroadcastTells DEF ViewInv, SecondIsCurrent
  <1>. QED BY <1>2, <1>3, <1>4, Zenon DEF LobbyReady, HandleLobbyReadyStateChanged

\* MatchLoaded leaves everyone told the truth.
LEMMA MatchLoadedView ==
  ASSUME TypeOK, RoundInv, ViewInv, TypeOK', RoundInv', NEW p \in Peers, NEW m,
         MatchLoaded(p, m)
  PROVE  ViewInv'
  <1>1. /\ phase = "StartingMatch" /\ matchId \in Nat
        /\ UNCHANGED <<link, playerOf>>
    BY DEF MatchLoaded, MarkPlayerLoadedForCurrentMatch, Acknowledges, TypeOK
  <1>2. <<FlowMsg("MatchStart", matchId)>> \in Seq(FlowMsgs)
    BY <1>1, MsgType
  <1>3. CASE CancelStartingMatch(matchId,
               To(playerMask, <<FlowMsg("MatchStart", matchId)>>), playerMask, slots)
    <2>1. To(playerMask, <<FlowMsg("MatchStart", matchId)>>) \in [PlayerIds -> Seq(FlowMsgs)]
      BY <1>2, ToType
    <2>. QED BY <1>1, <1>3, <2>1, CancelTells
  <1>4. CASE /\ phase' = "InMatch" /\ matchId' = matchId /\ playerMask' = playerMask
             /\ lastFlow' = Queued(To(playerMask, <<FlowMsg("MatchStart", matchId)>>))
    <2>1. playerMask' = Accepted'
      BY <1>4 DEF RoundInv, RoundMembership, RoundPhases
    <2>2. lastFlow' = Queued(To(playerMask', <<FlowMsg("MatchStart", matchId')>>))
      BY <1>4
    <2>. QED BY <1>4, <2>1, <2>2, AnnounceTells
  <1>5. CASE UNCHANGED <<slots, phase, matchId, countdownMask, playerMask, timer,
                         lastSecond, roundWinner, roundDraw, arenaVars, wireVars>>
    BY <1>1, <1>5, NothingToTell DEF wireVars
  <1>. QED BY <1>3, <1>4, <1>5, Zenon
    DEF MatchLoaded, MarkPlayerLoadedForCurrentMatch, Acknowledges, CommitMatchStart

\* A tick of the countdown leaves everyone told the truth.
LEMMA CountdownTickView ==
  ASSUME TypeOK, RoundInv, ViewInv, TypeOK', RoundInv', CountdownTick
  PROVE  ViewInv'
  <1> DEFINE t == Elapsed(timer)
  <1>1. phase = "LobbyCountdown" /\ UNCHANGED <<link, playerOf>>
    BY DEF CountdownTick
  <1>2. CASE BeginMatchBootstrap
    <2> DEFINE reached == {id \in countdownMask : Queues(id)}
               levelInfo == To(reached, <<FlowMsg("LevelInfo", nextMatchId)>>)
    <2>1. nextMatchId \in Nat /\ levelInfo \in [PlayerIds -> Seq(FlowMsgs)]
      <3>1. nextMatchId \in Nat
        BY DEF TypeOK
      <3>2. <<FlowMsg("LevelInfo", nextMatchId)>> \in Seq(FlowMsgs)
        BY <3>1, MsgType
      <3>. QED BY <3>1, <3>2, ToType
    <2>2. CASE CancelLobbyCountdown(slots)
      BY <2>2, LobbyBroadcastTells
      DEF CancelLobbyCountdown, LobbyWithoutCountdown, ViewInv, SecondIsCurrent
    <2>3. CASE CancelStartingMatch(nextMatchId, levelInfo, reached, slots)
      <3> HIDE DEF reached, levelInfo
      <3>. QED BY <2>1, <2>3, CancelTells
    <2>4. CASE /\ phase' = "StartingMatch" /\ matchId' = nextMatchId /\ playerMask' = reached
               /\ lastFlow' = Queued(levelInfo)
      <3>1. playerMask' = Accepted'
        BY <2>4 DEF RoundInv, RoundMembership, RoundPhases
      <3>2. lastFlow' = Queued(To(playerMask', <<FlowMsg("LevelInfo", matchId')>>))
        BY <2>4
      <3>. QED BY <2>4, <3>1, <3>2, AnnounceTells
    <2>. QED BY <1>2, <2>2, <2>3, <2>4, Zenon DEF BeginMatchBootstrap
  <1>3. CASE /\ timer' = t /\ UNCHANGED <<slots, phase, matchId>>
             /\ lastSecond' = CountdownSeconds(t.countdown)
             /\ IF CountdownSeconds(t.countdown) # lastSecond
                THEN BroadcastLobbyState ELSE UNCHANGED wireVars
    <2>1. CASE BroadcastLobbyState
      BY <1>1, <1>3, <2>1, LobbyBroadcastTells DEF ViewInv, SecondIsCurrent
    <2>2. CASE CountdownSeconds(t.countdown) = lastSecond /\ UNCHANGED wireVars
      <3>1. ToldTheTruth'
        BY <1>1, <1>3, <2>2 DEF ViewInv, ToldTheTruth, LastTold, wireVars
      <3>2. timer.countdown # Unset /\ timer'.countdown # Unset
        <4>1. timer.countdown > 0 /\ timer'.countdown > 0
          BY <1>1, <1>3 DEF RoundInv, CountdownIsCurrent
        <4>. QED BY <4>1 DEF Unset
      <3>3. LobbyStateOf(phase', slots', playerOf', timer'.countdown)
              = LobbyStateOf(phase, slots, playerOf, timer.countdown)
        BY <1>1, <1>3, <2>2, <3>2 DEF LobbyStateOf, ViewInv, SecondIsCurrent
      <3>4. LobbyViewIsCurrent'
        BY <1>1, <1>3, <2>2, <3>3
        DEF ViewInv, LobbyViewIsCurrent, wireVars, Accepted, BoundIds
      <3>. QED BY <1>3, <3>1, <3>4 DEF ViewInv, SecondIsCurrent
    <2>. QED BY <1>3, <2>1, <2>2
  <1>. QED BY <1>2, <1>3 DEF CountdownTick

\* The other ticks leave everyone told the truth.
LEMMA OtherTicksView ==
  ASSUME TypeOK, RoundInv, ViewInv, TypeOK', RoundInv',
         StartingTick \/ MatchTick \/ EndOfMatchTick
  PROVE  ViewInv'
  <1>1. CASE StartingTick
    <2>1. CASE CancelStartingMatch(matchId, To({}, <<>>), playerMask, slots)
      BY <2>1, NoBatchType, CancelTells DEF TypeOK
    <2>2. CASE /\ timer' = Elapsed(timer)
               /\ UNCHANGED <<slots, phase, matchId, countdownMask, playerMask, loadedMask,
                              lastSecond, roundWinner, roundDraw, arenaVars, wireVars>>
      BY <1>1, <2>2 DEF StartingTick, ViewInv, ToldTheTruth, LastTold, LobbyViewIsCurrent,
                        SecondIsCurrent, wireVars
    <2>. QED BY <1>1, <2>1, <2>2 DEF StartingTick
  <1>2. CASE MatchTick
    <2>1. phase = "InMatch" /\ UNCHANGED <<link, playerOf, matchId, playerMask>>
      BY <1>2 DEF MatchTick
    <2>2. CASE /\ phase' = "EndOfMatch"
               /\ lastFlow' = Queued(To(playerMask', <<FlowMsg("MatchResult", matchId)>>))
      <3>1. playerMask' = Accepted'
        BY <2>2 DEF RoundInv, RoundMembership, RoundPhases
      <3>2. lastFlow' = Queued(To(playerMask', <<FlowMsg("MatchResult", matchId')>>))
        BY <2>1, <2>2
      <3>. QED BY <2>2, <3>1, <3>2, AnnounceTells
    <2>3. CASE UNCHANGED <<inMatch, slots, phase, roundWinner, roundDraw, wireVars>>
      BY <2>1, <2>3 DEF ViewInv, ToldTheTruth, LastTold, LobbyViewIsCurrent,
                        SecondIsCurrent, wireVars
    <2>4. \/ /\ phase' = "EndOfMatch"
             /\ lastFlow' = Queued(To(playerMask', <<FlowMsg("MatchResult", matchId)>>))
          \/ UNCHANGED <<inMatch, slots, phase, roundWinner, roundDraw, wireVars>>
      BY <1>2, Zenon DEF MatchTick, BeginEndOfMatch
    <2>. QED BY <2>2, <2>3, <2>4
  <1>3. CASE EndOfMatchTick
    <2>1. CASE ResetRoundRuntimeToLobby(slots) /\ BroadcastLobbyState
      BY <2>1, LobbyBroadcastTells DEF ResetRoundRuntimeToLobby, ViewInv, SecondIsCurrent
    <2>2. CASE /\ timer' = Elapsed(timer)
               /\ UNCHANGED <<slots, phase, matchId, countdownMask, playerMask, loadedMask,
                              lastSecond, roundWinner, roundDraw, arenaVars, wireVars>>
      BY <1>3, <2>2 DEF EndOfMatchTick, ViewInv, ToldTheTruth, LastTold, LobbyViewIsCurrent,
                        SecondIsCurrent, wireVars
    <2>. QED BY <1>3, <2>1, <2>2 DEF EndOfMatchTick
  <1>. QED BY <1>1, <1>2, <1>3

\* Every step leaves everyone told the truth.
LEMMA NextView ==
  TypeOK /\ SeatOwnership /\ RoundInv /\ ViewInv /\ [Next]_vars /\ TypeOK' /\ RoundInv'
    => ViewInv'
  <1> SUFFICES ASSUME TypeOK, SeatOwnership, RoundInv, ViewInv, [Next]_vars, TypeOK', RoundInv'
               PROVE  ViewInv'
    OBVIOUS
  <1>1. CASE UNCHANGED vars
    BY <1>1, NothingToTell DEF vars, sessionVars, roundVars, wireVars
  <1>2. ASSUME NEW p \in Peers, Connect(p) PROVE ViewInv'
    <2>1. playerOf' = playerOf /\ playerOf[p] = NoPlayer
      BY <1>2 DEF Connect, TypeOK, SessionTypeOK, SeatOwnership
    <2>2. \A q \in Peers : playerOf[q] # NoPlayer => link'[q] = link[q]
      BY <1>2, <2>1 DEF Connect, TypeOK, SessionTypeOK
    <2>. QED BY <1>2, <2>1, <2>2, NothingToTell DEF Connect, roundVars, wireVars
  <1>3. ASSUME NEW p \in Peers,
               PeerCloses(p) \/ DisconnectUnaccepted(p) \/ ClientLoads(p) \/ RejectHello(p)
        PROVE  ViewInv'
    <2>1. \A q \in Peers : link'[q] = "open" => link[q] = "open"
      BY <1>3 DEF PeerCloses, DisconnectUnaccepted, ClientLoads, RejectHello, sessionVars,
                  TypeOK, SessionTypeOK
    <2>2. UNCHANGED <<playerOf, slots, roundVars, wireVars>>
      BY <1>3 DEF PeerCloses, DisconnectUnaccepted, ClientLoads, RejectHello, sessionVars
    <2>. QED BY <2>1, <2>2, NothingToTell DEF roundVars, wireVars
  <1>4. ASSUME NEW p \in Peers, DisconnectAccepted(p) PROVE ViewInv'
    BY <1>4, DisconnectView
  <1>5. ASSUME NEW p \in Peers, NEW name \in Names,
               NEW versionMatches \in BOOLEAN, NEW welcomeQueued \in BOOLEAN,
               Hello(p, name, versionMatches, welcomeQueued)
        PROVE  ViewInv'
    <2>1. CASE \E id \in freeIds : LobbyAccept(p, name, id)
      BY <2>1, LobbyBroadcastTells
      DEF LobbyAccept, ResetLobbyParticipantsToUnready, LobbyWithoutCountdown, ViewInv,
          SecondIsCurrent
    <2>2. CASE RejectHello(p)
      BY <1>3, <2>2
    <2>. QED BY <1>5, <2>1, <2>2, HelloCases
  <1>6. ASSUME NEW p \in Peers, NEW desired \in BOOLEAN, LobbyReady(p, desired)
        PROVE  ViewInv'
    BY <1>6, LobbyReadyView
  <1>7. ASSUME NEW p \in Peers, NEW m, MatchLoaded(p, m) PROVE ViewInv'
    BY <1>7, MatchLoadedView
  <1>8. CASE Tick
    BY <1>8, CountdownTickView, OtherTicksView DEF Tick
  <1>. QED BY <1>1, <1>2, <1>3, <1>4, <1>5, <1>6, <1>7, <1>8 DEF Next

(***************************************************************************)
(* Every reachable client was last told the truth about the round, and the *)
(* lobby it shows is the server's.                                         *)
(***************************************************************************)
THEOREM ClientsToldTheTruth == Spec => [](ToldTheTruth /\ LobbyViewIsCurrent)
  <1>1. Init => ViewInv
    BY DEF Init, SessionInit, ViewInv, ToldTheTruth, LobbyViewIsCurrent, SecondIsCurrent,
           Accepted, BoundIds, NoTimers
  <1>2. TypeOK /\ SeatOwnership /\ RoundInv /\ ViewInv /\ [Next]_vars /\ TypeOK' /\ RoundInv'
          => ViewInv'
    BY NextView
  <1>3. ViewInv => ToldTheTruth /\ LobbyViewIsCurrent
    BY DEF ViewInv
  <1>. QED BY <1>1, <1>2, <1>3, TypeCorrect, SeatsCorrect, RoundsCorrect, PTL DEF Spec

-----------------------------------------------------------------------------
(* The server implements the abstract round lifecycle. *)

\* The lifecycle stage of each phase.
LEMMA StageFacts ==
  /\ StageOf("Lobby") = "gathering" /\ StageOf("LobbyCountdown") = "gathering"
  /\ StageOf("StartingMatch") = "loading" /\ StageOf("InMatch") = "playing"
  /\ StageOf("EndOfMatch") = "over"
  BY DEF StageOf

\* A step that moves neither the phase nor the round is a stutter.
LEMMA LifecycleStutters ==
  ASSUME UNCHANGED <<phase, playerMask, nextMatchId, roundWinner>>
  PROVE  UNCHANGED Lifecycle!lifecycleVars
  BY DEF Lifecycle!lifecycleVars

\* Steps within the lobby.
LEMMA LobbyStutters ==
  ASSUME phase \in {"Lobby", "LobbyCountdown"}, phase' \in {"Lobby", "LobbyCountdown"},
         UNCHANGED <<playerMask, nextMatchId, roundWinner>>
  PROVE  UNCHANGED Lifecycle!lifecycleVars
  BY StageFacts DEF Lifecycle!lifecycleVars

\* A cancelled bootstrap is an aborted round.
LEMMA CancelAborts ==
  ASSUME NEW seats, RoundInv, phase = "StartingMatch", ResetRoundRuntimeToLobby(seats),
         roundWinner = NoPlayer, UNCHANGED nextMatchId
  PROVE  Lifecycle!Abort
  BY StageFacts DEF Lifecycle!Abort, ResetRoundRuntimeToLobby

\* The end of a match is a decision of the lifecycle.
LEMMA VerdictDecides ==
  ASSUME TypeOK, TypeOK', RoundInv', phase = "InMatch",
         NEW leaver \in PlayerIds \cup {NoPlayer}, playerMask' = playerMask \ {leaver},
         phase' = "EndOfMatch", nextMatchId' = nextMatchId,
         roundWinner' \in playerMask' \cup {NoPlayer}
  PROVE  Lifecycle!Next
  <1>1. playerMask' # {}
    BY DEF RoundInv, RoundMembership, RoundPhases
  <1>2. roundWinner' \in PlayerIds \cup {NoPlayer}
    BY DEF TypeOK
  <1>3. Lifecycle!Decide(leaver, roundWinner')
    BY <1>1, StageFacts DEF Lifecycle!Decide, Lifecycle!Verdict
  <1>. QED BY <1>2, <1>3 DEF Lifecycle!Next

\* The verdict names somebody who was in the round.
LEMMA WinnerTookPart ==
  ASSUME NEW participants, NEW survivors \in SUBSET participants, NEW seats, NEW t,
         BeginEndOfMatch(participants, survivors, seats, t)
  PROVE  roundWinner' \in participants \cup {NoPlayer} /\ phase' = "EndOfMatch"
  BY DEF BeginEndOfMatch

\* A disconnect is a step of the lifecycle or a stutter.
LEMMA DisconnectLifecycle ==
  ASSUME TypeOK, SeatOwnership, RoundInv, TypeOK', RoundInv', NEW p \in Peers,
         phase = "StartingMatch" => roundWinner = NoPlayer,
         DisconnectAccepted(p)
  PROVE  Lifecycle!Next \/ UNCHANGED Lifecycle!lifecycleVars
  <1> DEFINE id == playerOf[p]
  <1>1. Accepted' = Accepted \ {id} /\ id \in Accepted
    BY DisconnectSeats
  <1>2. id \in PlayerIds
    BY DEF DisconnectAccepted, HandleAcceptedPlayerReleased, TypeOK, SessionTypeOK
  <1> HIDE DEF id
  <1>3. CASE ReleasedInLobby(id)
    <2>1. playerMask' = playerMask
      BY <1>3 DEF ReleasedInLobby, RoundInv, NoRoundResidue
    <2>. QED
      BY <1>3, <2>1, LobbyStutters
      DEF ReleasedInLobby, ResetLobbyParticipantsToUnready, LobbyWithoutCountdown
  <1>4. CASE ReleasedWhileStarting(id)
    BY <1>4, CancelAborts DEF ReleasedWhileStarting, CancelStartingMatch, Lifecycle!Next
  <1>5. CASE ReleasedLastOfRound(id)
    <2>1. phase = "EndOfMatch"
      <3>1. CASE phase = "InMatch"
        <4>1. PICK i, j \in alive : i # j
          BY <3>1 DEF RoundInv, RoundShape, MatchShape, HasMinimumParticipants
        <4>2. i \in playerMask /\ j \in playerMask
          BY <3>1 DEF RoundInv, RoundShape, MatchShape, RoundMembership, RoundPhases
        <4>. QED BY <1>5, <4>1, <4>2 DEF ReleasedLastOfRound
      <3>. QED BY <1>5, <3>1 DEF ReleasedLastOfRound
    <2>2. Lifecycle!Return
      BY <1>5, <2>1, StageFacts
        DEF Lifecycle!Return, Lifecycle!Undecided, ReleasedLastOfRound,
            ResetRoundRuntimeToLobby
    <2>. QED BY <2>2 DEF Lifecycle!Next
  <1>6. CASE ReleasedFromRound(id)
    <2>1. /\ playerMask' = playerMask \ {id} /\ playerMask' # {}
          /\ nextMatchId' = nextMatchId /\ phase \in {"InMatch", "EndOfMatch"}
      BY <1>6 DEF ReleasedFromRound
    <2>2. CASE /\ phase = "InMatch"
               /\ BeginEndOfMatch(inMatch \ {id}, alive \ {id}, SeatLeft(id), timer)
      <3>1. alive \ {id} \in SUBSET (inMatch \ {id}) /\ inMatch \ {id} = playerMask'
        BY <2>1, <2>2 DEF RoundInv, RoundShape, MatchShape, RoundMembership, RoundPhases
      <3>2. roundWinner' \in playerMask' \cup {NoPlayer} /\ phase' = "EndOfMatch"
        BY <2>2, <3>1, WinnerTookPart
      <3>. QED BY <1>2, <2>1, <2>2, <3>2, VerdictDecides
    <2>3. CASE UNCHANGED <<phase, timer, roundWinner, roundDraw, bombsLive, lastLobbyState>>
      <3>1. Lifecycle!Leave(id)
        BY <2>1, <2>3, StageFacts DEF Lifecycle!Leave
      <3>. QED BY <1>2, <3>1 DEF Lifecycle!Next
    <2>. QED BY <1>6, <2>2, <2>3, Zenon DEF ReleasedFromRound
  <1>. QED BY <1>3, <1>4, <1>5, <1>6
    DEF DisconnectAccepted, HandleAcceptedPlayerReleased, id

\* MatchLoaded is a step of the lifecycle or a stutter.
LEMMA MatchLoadedLifecycle ==
  ASSUME TypeOK, RoundInv, roundWinner = NoPlayer, NEW p \in Peers, NEW m, MatchLoaded(p, m)
  PROVE  Lifecycle!Next \/ UNCHANGED Lifecycle!lifecycleVars
  <1>1. phase = "StartingMatch" /\ nextMatchId' = nextMatchId
    BY DEF MatchLoaded, MarkPlayerLoadedForCurrentMatch
  <1>2. CASE ResetRoundRuntimeToLobby(slots)
    BY <1>1, <1>2, CancelAborts DEF Lifecycle!Next
  <1>3. CASE phase' = "InMatch" /\ UNCHANGED <<playerMask, roundWinner>>
    <2>1. Lifecycle!Start
      BY <1>1, <1>3, StageFacts DEF Lifecycle!Start
    <2>. QED BY <2>1 DEF Lifecycle!Next
  <1>4. CASE UNCHANGED <<phase, playerMask, roundWinner>>
    BY <1>1, <1>4, LifecycleStutters
  <1>. QED
    BY <1>2, <1>3, <1>4, Zenon
      DEF MatchLoaded, MarkPlayerLoadedForCurrentMatch, Acknowledges,
          CommitMatchStart, CancelStartingMatch

\* A tick of the countdown is a step of the lifecycle or a stutter.
LEMMA CountdownTickLifecycle ==
  ASSUME TypeOK, RoundInv, TypeOK', RoundInv', CountdownTick
  PROVE  Lifecycle!Next \/ UNCHANGED Lifecycle!lifecycleVars
  <1> DEFINE reached == {id \in countdownMask : Queues(id)}
  <1>1. /\ phase = "LobbyCountdown" /\ playerMask = {} /\ roundWinner = NoPlayer
    BY DEF CountdownTick, RoundInv, NoRoundResidue
  <1>2. CASE /\ nextMatchId' = nextMatchId + 1 /\ ResetRoundRuntimeToLobby(slots)
    <2>1. Lifecycle!FormInVain
      BY <1>1, <1>2, StageFacts DEF Lifecycle!FormInVain, ResetRoundRuntimeToLobby, TypeOK
    <2>. QED BY <2>1 DEF Lifecycle!Next
  <1>3. CASE /\ nextMatchId' = nextMatchId + 1 /\ phase' = "StartingMatch"
             /\ roundWinner' = NoPlayer
    <2>1. \E i, j \in playerMask' : i # j
      BY <1>3 DEF RoundInv, RoundShape, StartingShape, HasMinimumParticipants
    <2>2. playerMask' \subseteq PlayerIds
      BY DEF TypeOK
    <2>3. Lifecycle!Form(playerMask')
      BY <1>1, <1>3, <2>1, StageFacts DEF Lifecycle!Form, TypeOK
    <2>. QED BY <2>2, <2>3 DEF Lifecycle!Next
  <1>4. CASE /\ phase' \in {"Lobby", "LobbyCountdown"}
             /\ UNCHANGED <<playerMask, nextMatchId, roundWinner>>
    BY <1>1, <1>4, LobbyStutters
  <1>5. \/ /\ nextMatchId' = nextMatchId + 1 /\ ResetRoundRuntimeToLobby(slots)
        \/ /\ nextMatchId' = nextMatchId + 1 /\ phase' = "StartingMatch"
           /\ roundWinner' = NoPlayer
        \/ /\ phase' \in {"Lobby", "LobbyCountdown"}
           /\ UNCHANGED <<playerMask, nextMatchId, roundWinner>>
    <2>1. CASE BeginMatchBootstrap
      BY <2>1, Zenon DEF BeginMatchBootstrap, CancelStartingMatch, CancelLobbyCountdown,
                         LobbyWithoutCountdown
    <2>2. CASE UNCHANGED <<slots, phase, matchId, nextMatchId, countdownMask, playerMask,
                           loadedMask, roundWinner, roundDraw, arenaVars>>
      BY <1>1, <2>2
    <2>. QED BY <2>1, <2>2, Zenon DEF CountdownTick
  <1>. QED BY <1>2, <1>3, <1>4, <1>5

\* The other ticks are steps of the lifecycle or stutters.
LEMMA OtherTicksLifecycle ==
  ASSUME TypeOK, RoundInv, TypeOK', RoundInv',
         phase = "StartingMatch" => roundWinner = NoPlayer,
         StartingTick \/ MatchTick \/ EndOfMatchTick
  PROVE  Lifecycle!Next \/ UNCHANGED Lifecycle!lifecycleVars
  <1>1. CASE StartingTick
    <2>1. phase = "StartingMatch" /\ nextMatchId' = nextMatchId
      BY <1>1 DEF StartingTick
    <2>2. ResetRoundRuntimeToLobby(slots) \/ UNCHANGED <<phase, playerMask, roundWinner>>
      BY <1>1, Zenon DEF StartingTick, CancelStartingMatch
    <2>. QED BY <2>1, <2>2, CancelAborts, LifecycleStutters DEF Lifecycle!Next
  <1>2. CASE MatchTick
    <2>1. phase = "InMatch" /\ UNCHANGED <<playerMask, nextMatchId>>
      BY <1>2 DEF MatchTick
    <2>2. ASSUME NEW killed \in SUBSET alive, NEW t,
                 BeginEndOfMatch(inMatch, alive \ killed, slots, t)
          PROVE  Lifecycle!Next
      <3>1. alive \ killed \in SUBSET inMatch /\ inMatch = playerMask
        BY <2>1 DEF RoundInv, RoundShape, MatchShape, RoundMembership, RoundPhases
      <3>2. roundWinner' \in playerMask' \cup {NoPlayer} /\ phase' = "EndOfMatch"
        BY <2>1, <2>2, <3>1, WinnerTookPart
      <3>3. playerMask' = playerMask \ {NoPlayer}
        BY <2>1 DEF TypeOK, PlayerIds, NoPlayer
      <3>. QED BY <2>1, <3>2, <3>3, VerdictDecides
    <2>3. CASE UNCHANGED <<phase, roundWinner>>
      BY <2>1, <2>3, LifecycleStutters
    <2>. QED BY <1>2, <2>2, <2>3, Zenon DEF MatchTick
  <1>3. CASE EndOfMatchTick
    <2>1. phase = "EndOfMatch" /\ nextMatchId' = nextMatchId
      BY <1>3 DEF EndOfMatchTick
    <2>2. CASE ResetRoundRuntimeToLobby(slots)
      <3>1. Lifecycle!Return
        BY <2>1, <2>2, StageFacts
        DEF Lifecycle!Return, Lifecycle!Undecided, ResetRoundRuntimeToLobby
      <3>. QED BY <3>1 DEF Lifecycle!Next
    <2>3. CASE UNCHANGED <<phase, playerMask, roundWinner>>
      BY <2>1, <2>3, LifecycleStutters
    <2>. QED BY <1>3, <2>2, <2>3 DEF EndOfMatchTick
  <1>. QED BY <1>1, <1>2, <1>3

\* A verdict exists only once the match has ended.
NoVerdictYet == phase # "EndOfMatch" => roundWinner = NoPlayer

\* Every step keeps an undecided round undecided until its end.
LEMMA NextVerdict ==
  TypeOK /\ NoVerdictYet /\ [Next]_vars => NoVerdictYet'
  <1> SUFFICES ASSUME TypeOK, NoVerdictYet, [Next]_vars PROVE NoVerdictYet'
    OBVIOUS
  <1>1. ASSUME \/ phase' = "EndOfMatch" \/ roundWinner' = NoPlayer
               \/ phase # "EndOfMatch" /\ UNCHANGED roundWinner
               \/ UNCHANGED <<phase, roundWinner>>
        PROVE  NoVerdictYet'
    BY <1>1 DEF NoVerdictYet
  <1>2. CASE UNCHANGED vars
    BY <1>1, <1>2 DEF vars, roundVars
  <1>3. ASSUME NEW p \in Peers,
               Connect(p) \/ PeerCloses(p) \/ DisconnectUnaccepted(p) \/ ClientLoads(p)
        PROVE  NoVerdictYet'
    BY <1>1, <1>3 DEF Connect, PeerCloses, DisconnectUnaccepted, ClientLoads, roundVars
  <1>4. ASSUME NEW p \in Peers, DisconnectAccepted(p) PROVE NoVerdictYet'
    <2> DEFINE id == playerOf[p]
    <2>1. CASE ReleasedInLobby(id)
      BY <1>1, <2>1 DEF ReleasedInLobby
    <2>2. CASE ReleasedWhileStarting(id) \/ ReleasedLastOfRound(id)
      BY <1>1, <2>2 DEF ReleasedWhileStarting, ReleasedLastOfRound, CancelStartingMatch,
                        ResetRoundRuntimeToLobby
    <2>3. CASE ReleasedFromRound(id)
      BY <1>1, <2>3, Zenon DEF ReleasedFromRound, BeginEndOfMatch
    <2>. QED BY <1>4, <2>1, <2>2, <2>3 DEF DisconnectAccepted, HandleAcceptedPlayerReleased
  <1>5. ASSUME NEW p \in Peers, NEW name \in Names,
               NEW versionMatches \in BOOLEAN, NEW welcomeQueued \in BOOLEAN,
               Hello(p, name, versionMatches, welcomeQueued)
        PROVE  NoVerdictYet'
    <2>1. CASE RejectHello(p)
      BY <1>1, <2>1 DEF RejectHello, roundVars
    <2>2. CASE phase \notin RoundPhases /\ \E id \in freeIds : LobbyAccept(p, name, id)
      BY <1>1, <2>2 DEF LobbyAccept, RoundPhases
    <2>. QED BY <1>5, <2>1, <2>2, HelloCases
  <1>6. ASSUME NEW p \in Peers, NEW desired \in BOOLEAN, LobbyReady(p, desired)
        PROVE  NoVerdictYet'
    BY <1>1, <1>6 DEF LobbyReady, HandleLobbyReadyStateChanged
  <1>7. ASSUME NEW p \in Peers, NEW m, MatchLoaded(p, m) PROVE NoVerdictYet'
    BY <1>1, <1>7, Zenon
      DEF MatchLoaded, MarkPlayerLoadedForCurrentMatch, Acknowledges,
          CommitMatchStart, CancelStartingMatch, ResetRoundRuntimeToLobby
  <1>8. CASE CountdownTick
    <2>1. CASE BeginMatchBootstrap
      BY <1>1, <1>8, <2>1, Zenon
      DEF CountdownTick, BeginMatchBootstrap, CancelStartingMatch, ResetRoundRuntimeToLobby
    <2>2. CASE UNCHANGED <<slots, phase, matchId, nextMatchId, countdownMask, playerMask,
                           loadedMask, roundWinner, roundDraw, arenaVars>>
      BY <1>1, <2>2
    <2>. QED BY <1>8, <2>1, <2>2 DEF CountdownTick
  <1>9. CASE StartingTick
    BY <1>1, <1>9, Zenon DEF StartingTick, CancelStartingMatch, ResetRoundRuntimeToLobby
  <1>10. CASE MatchTick
    BY <1>1, <1>10, Zenon DEF MatchTick, BeginEndOfMatch
  <1>11. CASE EndOfMatchTick
    BY <1>1, <1>11, Zenon DEF EndOfMatchTick, ResetRoundRuntimeToLobby
  <1>. QED
    BY <1>2, <1>3, <1>4, <1>5, <1>6, <1>7, <1>8, <1>9, <1>10, <1>11 DEF Next, Tick

\* Every step is a step of the lifecycle or a stutter.
LEMMA NextLifecycle ==
  ASSUME TypeOK, SeatOwnership, RoundInv, NoVerdictYet, TypeOK', RoundInv', [Next]_vars
  PROVE  [Lifecycle!Next]_(Lifecycle!lifecycleVars)
  <1>1. CASE UNCHANGED vars
    BY <1>1, LifecycleStutters DEF vars, roundVars
  <1>2. ASSUME NEW p \in Peers,
               Connect(p) \/ PeerCloses(p) \/ DisconnectUnaccepted(p) \/ ClientLoads(p)
        PROVE  UNCHANGED Lifecycle!lifecycleVars
    BY <1>2, LifecycleStutters
    DEF Connect, PeerCloses, DisconnectUnaccepted, ClientLoads, roundVars
  <1>3. ASSUME NEW p \in Peers, DisconnectAccepted(p)
        PROVE  Lifecycle!Next \/ UNCHANGED Lifecycle!lifecycleVars
    BY <1>3, DisconnectLifecycle DEF NoVerdictYet
  <1>4. ASSUME NEW p \in Peers, NEW name \in Names,
               NEW versionMatches \in BOOLEAN, NEW welcomeQueued \in BOOLEAN,
               Hello(p, name, versionMatches, welcomeQueued)
        PROVE  UNCHANGED Lifecycle!lifecycleVars
    <2>1. CASE RejectHello(p)
      BY <2>1, LifecycleStutters DEF RejectHello, roundVars
    <2>2. CASE phase \notin RoundPhases /\ \E id \in freeIds : LobbyAccept(p, name, id)
      <3>1. phase \in {"Lobby", "LobbyCountdown"} /\ phase' = "Lobby"
        BY <2>2 DEF LobbyAccept, ResetLobbyParticipantsToUnready, LobbyWithoutCountdown,
                    TypeOK, Phases, RoundPhases
      <3>2. UNCHANGED <<playerMask, nextMatchId, roundWinner>>
        BY <2>2 DEF LobbyAccept
      <3>. QED BY <3>1, <3>2, LobbyStutters
    <2>. QED BY <1>4, <2>1, <2>2, HelloCases
  <1>5. ASSUME NEW p \in Peers, NEW desired \in BOOLEAN, LobbyReady(p, desired)
        PROVE  UNCHANGED Lifecycle!lifecycleVars
    <2>1. phase \in {"Lobby", "LobbyCountdown"} /\ UNCHANGED <<playerMask, nextMatchId, roundWinner>>
      BY <1>5 DEF LobbyReady, HandleLobbyReadyStateChanged
    <2>2. phase' \in {"Lobby", "LobbyCountdown"}
      BY <1>5, <2>1, Zenon
        DEF LobbyReady, HandleLobbyReadyStateChanged, CancelLobbyCountdown,
            LobbyWithoutCountdown, StartLobbyCountdown
    <2>. QED BY <2>1, <2>2, LobbyStutters
  <1>6. ASSUME NEW p \in Peers, NEW m, MatchLoaded(p, m)
        PROVE  Lifecycle!Next \/ UNCHANGED Lifecycle!lifecycleVars
    <2>1. roundWinner = NoPlayer
      BY <1>6 DEF MatchLoaded, MarkPlayerLoadedForCurrentMatch, Acknowledges, NoVerdictYet
    <2>. QED BY <1>6, <2>1, MatchLoadedLifecycle
  <1>7. CASE Tick
    <2>1. phase = "StartingMatch" => roundWinner = NoPlayer
      BY DEF NoVerdictYet
    <2>. QED BY <1>7, <2>1, CountdownTickLifecycle, OtherTicksLifecycle DEF Tick
  <1>. QED BY <1>1, <1>2, <1>3, <1>4, <1>5, <1>6, <1>7 DEF Next

(***************************************************************************)
(* The server implements the abstract round lifecycle, for any number of   *)
(* players and any deadlines.                                              *)
(***************************************************************************)
THEOREM LifecycleImplemented == Spec => ImplementsLifecycle
  <1>1. Init => Lifecycle!Init
    <2> SUFFICES ASSUME Init PROVE Lifecycle!Init
      OBVIOUS
    <2>1. /\ phase = "Lobby" /\ roundWinner = NoPlayer
          /\ playerMask = {} /\ nextMatchId - 1 = 0
      BY DEF Init
    <2>2. StageOf(phase) = "gathering"
      BY <2>1, StageFacts
    <2>3. (phase = "EndOfMatch") = FALSE
      BY <2>1
    <2>. QED BY <2>1, <2>2, <2>3 DEF Lifecycle!Init, Lifecycle!Undecided
  <1>2. Init => NoVerdictYet
    BY DEF Init, NoVerdictYet
  <1>3. TypeOK /\ NoVerdictYet /\ [Next]_vars => NoVerdictYet'
    BY NextVerdict
  <1>4. TypeOK /\ SeatOwnership /\ RoundInv /\ NoVerdictYet /\ TypeOK' /\ RoundInv'
          /\ [Next]_vars => [Lifecycle!Next]_(Lifecycle!lifecycleVars)
    BY NextLifecycle
  <1>. QED
    BY <1>1, <1>2, <1>3, <1>4, TypeCorrect, SeatsCorrect, RoundsCorrect, PTL
    DEF Spec, ImplementsLifecycle, Lifecycle!Spec

-----------------------------------------------------------------------------
(* What a handler's messages come to for one attached client. *)

\* An attached client has a seat.
LEMMA AttachedSeat ==
  ASSUME TypeOK, NEW p \in Peers, Attached(p)
  PROVE  playerOf[p] \in PlayerIds /\ playerOf[p] \in Accepted
  BY DEF Attached, TypeOK, SessionTypeOK, Accepted, BoundIds

\* The same, after a step.
LEMMA AttachedSeatNext ==
  ASSUME TypeOK', NEW p \in Peers, Attached(p)'
  PROVE  playerOf'[p] \in PlayerIds /\ playerOf'[p] \in Accepted'
  BY DEF Attached, TypeOK, SessionTypeOK, Accepted, BoundIds

\* A batch reaches every attached client it has something for.
LEMMA QueuedReaches ==
  ASSUME TypeOK', NEW batch, lastFlow' = Queued(batch), NEW p \in Peers, Attached(p)'
  PROVE  lastFlow'[p] = IF batch[playerOf'[p]] # <<>> THEN batch[playerOf'[p]] ELSE lastFlow[p]
  BY DEF Queued, Attached

\* The LobbyState broadcast comes after whatever the handler queued before.
LEMMA BroadcastReaches ==
  ASSUME TypeOK', NEW batch \in [PlayerIds -> Seq(FlowMsgs)], BroadcastLobbyStateAfter(batch),
         NEW p \in Peers, Attached(p)'
  PROVE  lastFlow'[p] = Append(batch[playerOf'[p]], LobbyStateMsg)
  <1> DEFINE all == [id \in PlayerIds |-> Append(batch[id], LobbyStateMsg)]
  <1>1. lastFlow' = Queued(all)
    BY DEF BroadcastLobbyStateAfter
  <1>2. playerOf'[p] \in PlayerIds
    BY AttachedSeatNext
  <1>3. \A id \in PlayerIds : all[id] = Append(batch[id], LobbyStateMsg) /\ all[id] # <<>>
    BY MsgType
  <1> HIDE DEF all
  <1>. QED BY <1>1, <1>2, <1>3, QueuedReaches

\* A batch of two messages, put together one by one.
LEMMA AppendToOne == ASSUME NEW a, NEW b PROVE Append(<<a>>, b) = <<a, b>>
  <1> DEFINE both == Append(<<a>>, b)
  <1>1. both \in Seq({a, b}) /\ Len(both) = 2
    OBVIOUS
  <1>2. both[1] = a /\ both[2] = b
    OBVIOUS
  <1> HIDE DEF both
  <1>3. both = <<a, b>>
    BY <1>1, <1>2
  <1>. QED BY <1>3 DEF both

\* A batch of three.
LEMMA AppendToTwo == ASSUME NEW a, NEW b, NEW c PROVE Append(<<a, b>>, c) = <<a, b, c>>
  <1> DEFINE all == Append(<<a, b>>, c)
  <1>1. all \in Seq({a, b, c}) /\ Len(all) = 3
    OBVIOUS
  <1>2. all[1] = a /\ all[2] = b /\ all[3] = c
    OBVIOUS
  <1> HIDE DEF all
  <1>3. all = <<a, b, c>>
    BY <1>1, <1>2
  <1>. QED BY <1>3 DEF all

\* The plain broadcast is one message.
LEMMA LobbyStateReaches ==
  ASSUME TypeOK', BroadcastLobbyState, NEW p \in Peers, Attached(p)'
  PROVE  lastFlow'[p] = <<LobbyStateMsg>>
  <1>1. playerOf'[p] \in PlayerIds
    BY AttachedSeatNext
  <1>2. To({}, <<>>)[playerOf'[p]] = <<>>
    BY <1>1 DEF To
  <1>3. Append(<<>>, LobbyStateMsg) = <<LobbyStateMsg>>
    OBVIOUS
  <1>. QED BY <1>2, <1>3, NoBatchType, BroadcastReaches DEF BroadcastLobbyState

\* A cancellation reaches the participants ahead of the lobby.
LEMMA CancelReaches ==
  ASSUME TypeOK', NEW m \in Nat, NEW ids, NEW msgs \in Seq(FlowMsgs), NEW notify, NEW seats,
         CancelStartingMatch(m, To(ids, msgs), notify, seats), NEW p \in Peers, Attached(p)',
         playerOf'[p] \in ids, playerOf'[p] \in notify
  PROVE  lastFlow'[p] = Append(Append(msgs, FlowMsg("MatchCancelled", m)), LobbyStateMsg)
  <1> DEFINE both == [id \in PlayerIds |-> IF id \in notify
                             THEN Append(To(ids, msgs)[id], FlowMsg("MatchCancelled", m))
                             ELSE To(ids, msgs)[id]]
  <1>1. To(ids, msgs) \in [PlayerIds -> Seq(FlowMsgs)]
    BY ToType
  <1>2. both \in [PlayerIds -> Seq(FlowMsgs)]
    BY <1>1, MsgType
  <1>3. playerOf'[p] \in PlayerIds
    BY AttachedSeatNext
  <1>4. both[playerOf'[p]] = Append(msgs, FlowMsg("MatchCancelled", m))
    BY <1>3 DEF To
  <1>5. BroadcastLobbyStateAfter(both)
    BY DEF CancelStartingMatch
  <1> HIDE DEF both
  <1>. QED BY <1>2, <1>4, <1>5, BroadcastReaches

\* The same when nothing was queued before the cancellation.
LEMMA PlainCancelReaches ==
  ASSUME TypeOK', NEW m \in Nat, NEW notify, NEW seats,
         CancelStartingMatch(m, To({}, <<>>), notify, seats), NEW p \in Peers, Attached(p)',
         playerOf'[p] \in notify
  PROVE  lastFlow'[p] = Append(<<FlowMsg("MatchCancelled", m)>>, LobbyStateMsg)
  <1> DEFINE both == [id \in PlayerIds |-> IF id \in notify
                             THEN Append(To({}, <<>>)[id], FlowMsg("MatchCancelled", m))
                             ELSE To({}, <<>>)[id]]
  <1>1. both \in [PlayerIds -> Seq(FlowMsgs)]
    BY MsgType, NoBatchType
  <1>2. playerOf'[p] \in PlayerIds
    BY AttachedSeatNext
  <1>3. both[playerOf'[p]] = Append(<<>>, FlowMsg("MatchCancelled", m))
    BY <1>2 DEF To
  <1>4. Append(<<>>, FlowMsg("MatchCancelled", m)) = <<FlowMsg("MatchCancelled", m)>>
    OBVIOUS
  <1>5. BroadcastLobbyStateAfter(both)
    BY DEF CancelStartingMatch
  <1> HIDE DEF both
  <1>. QED BY <1>1, <1>3, <1>4, <1>5, BroadcastReaches

\* A message for some players reaches each of them.
LEMMA AnnouncementReaches ==
  ASSUME TypeOK', NEW ids, NEW msg, lastFlow' = Queued(To(ids, <<msg>>)),
         NEW p \in Peers, Attached(p)', playerOf'[p] \in ids
  PROVE  lastFlow'[p] = <<msg>>
  <1>1. playerOf'[p] \in PlayerIds
    BY AttachedSeatNext
  <1>2. To(ids, <<msg>>)[playerOf'[p]] = <<msg>> /\ <<msg>> # <<>>
    BY <1>1 DEF To
  <1>. QED BY <1>2, QueuedReaches

\* A handler that queues nothing leaves what the others were told.
LEMMA SilenceReaches ==
  ASSUME TypeOK', lastFlow' = Queued(To({}, <<>>)), NEW p \in Peers, Attached(p)'
  PROVE  lastFlow'[p] = lastFlow[p]
  <1>1. playerOf'[p] \in PlayerIds
    BY AttachedSeatNext
  <1>2. To({}, <<>>)[playerOf'[p]] = <<>>
    BY <1>1 DEF To
  <1>. QED BY <1>2, QueuedReaches

\* A player's ready flag once every flag has been cleared.
LEMMA Unreadied ==
  ASSUME NEW seats \in SlotsType, NEW id \in PlayerIds
  PROVE  AllUnready(seats)[id].ready = FALSE
  BY DEF AllUnready, SlotsType


\* A verdict leaves the ready flags.
LEMMA VerdictKeepsReady ==
  ASSUME NEW participants, NEW survivors, NEW seats \in SlotsType, NEW t,
         BeginEndOfMatch(participants, survivors, seats, t), NEW id \in PlayerIds
  PROVE  slots'[id].ready = seats[id].ready
  BY DEF BeginEndOfMatch, SlotsType

-----------------------------------------------------------------------------
(* Levels and acknowledgements. *)

\* Every message is about a match below n.
Below(msgs, n) == \A i \in 1 .. Len(msgs) : msgs[i].match < n

\* Messages below a number stay below a larger one.
LEMMA BelowKept ==
  ASSUME NEW msgs \in Seq(FlowMsgs), NEW n \in Nat, NEW m \in Nat, n <= m, Below(msgs, n)
  PROVE  Below(msgs, m)
  <1>1. ASSUME NEW i \in 1 .. Len(msgs) PROVE msgs[i].match < m
    <2>1. msgs[i] \in FlowMsgs
      BY <1>1
    <2>2. msgs[i].match \in Nat /\ msgs[i].match < n
      BY <2>1 DEF FlowMsgs, LobbyStateMsg, FlowMsg, Below
    <2>. QED BY <2>2
  <1>. QED BY <1>1 DEF Below

\* One more message of a match below it.
LEMMA BelowAppend ==
  ASSUME NEW msgs \in Seq(FlowMsgs), NEW n \in Nat, Below(msgs, n), NEW msg, msg.match < n
  PROVE  Below(Append(msgs, msg), n)
  <1> DEFINE longer == Append(msgs, msg)
  <1>1. /\ Len(longer) = Len(msgs) + 1
        /\ \A i \in 1 .. Len(msgs) : longer[i] = msgs[i]
        /\ longer[Len(msgs) + 1] = msg
        /\ Len(msgs) \in Nat
    OBVIOUS
  <1> HIDE DEF longer
  <1>. QED BY <1>1 DEF Below, longer

\* The batches of the flow.
LEMMA BelowBatches ==
  ASSUME NEW n \in Nat \ {0}, NEW m \in Nat, m < n, NEW type, NEW ids
  PROVE  /\ \A id \in PlayerIds : Below(To({}, <<>>)[id], n)
         /\ \A id \in PlayerIds : Below(To(ids, <<FlowMsg(type, m)>>)[id], n)
         /\ LobbyStateMsg.match < n /\ FlowMsg(type, m).match < n
  BY DEF Below, To, LobbyStateMsg, FlowMsg

\* Queueing batches below the next match keeps all messages below it.
LEMMA BelowQueued ==
  ASSUME TypeOK, TypeOK', nextMatchId <= nextMatchId',
         \A p \in Peers : Below(lastFlow[p], nextMatchId),
         NEW batch, \A id \in PlayerIds : Below(batch[id], nextMatchId'),
         lastFlow' = Queued(batch)
  PROVE  \A p \in Peers : Below(lastFlow'[p], nextMatchId')
  <1> SUFFICES ASSUME NEW p \in Peers PROVE Below(lastFlow'[p], nextMatchId')
    OBVIOUS
  <1>1. lastFlow[p] \in Seq(FlowMsgs) /\ nextMatchId \in Nat /\ nextMatchId' \in Nat
    BY DEF TypeOK
  <1>2. Below(lastFlow[p], nextMatchId')
    BY <1>1, BelowKept
  <1>3. playerOf'[p] # NoPlayer => playerOf'[p] \in PlayerIds
    BY DEF TypeOK, SessionTypeOK
  <1>4. Below(<<>>, nextMatchId')
    BY DEF Below
  <1>5. \/ lastFlow'[p] = <<>>
        \/ lastFlow'[p] = lastFlow[p]
        \/ playerOf'[p] # NoPlayer /\ lastFlow'[p] = batch[playerOf'[p]]
    BY DEF Queued
  <1>. QED BY <1>2, <1>3, <1>4, <1>5

\* The LobbyState broadcast is about no match.
LEMMA BelowBroadcast ==
  ASSUME TypeOK, TypeOK', nextMatchId <= nextMatchId',
         \A p \in Peers : Below(lastFlow[p], nextMatchId),
         NEW batch \in [PlayerIds -> Seq(FlowMsgs)],
         \A id \in PlayerIds : Below(batch[id], nextMatchId'),
         BroadcastLobbyStateAfter(batch)
  PROVE  \A p \in Peers : Below(lastFlow'[p], nextMatchId')
  <1> DEFINE all == [id \in PlayerIds |-> Append(batch[id], LobbyStateMsg)]
  <1>1. lastFlow' = Queued(all)
    BY DEF BroadcastLobbyStateAfter
  <1>2. nextMatchId' \in Nat \ {0} /\ LobbyStateMsg.match < nextMatchId'
    BY DEF TypeOK, LobbyStateMsg, FlowMsg
  <1>3. ASSUME NEW id \in PlayerIds PROVE Below(all[id], nextMatchId')
    <2>1. Below(Append(batch[id], LobbyStateMsg), nextMatchId')
      BY <1>2, BelowAppend
    <2>. QED BY <2>1
  <1> HIDE DEF all
  <1>. QED BY <1>1, <1>3, BelowQueued

\* A cancellation is about the match it cancels.
LEMMA BelowCancel ==
  ASSUME TypeOK, TypeOK', nextMatchId <= nextMatchId',
         \A p \in Peers : Below(lastFlow[p], nextMatchId),
         NEW batch \in [PlayerIds -> Seq(FlowMsgs)],
         \A id \in PlayerIds : Below(batch[id], nextMatchId'),
         NEW m \in Nat, m < nextMatchId', NEW notify, NEW seats,
         CancelStartingMatch(m, batch, notify, seats)
  PROVE  \A p \in Peers : Below(lastFlow'[p], nextMatchId')
  <1> DEFINE both == [id \in PlayerIds |-> IF id \in notify
                             THEN Append(batch[id], FlowMsg("MatchCancelled", m))
                             ELSE batch[id]]
  <1>1. both \in [PlayerIds -> Seq(FlowMsgs)]
    BY MsgType
  <1>2. nextMatchId' \in Nat /\ FlowMsg("MatchCancelled", m).match < nextMatchId'
    BY DEF TypeOK, FlowMsg
  <1>3. ASSUME NEW id \in PlayerIds PROVE Below(both[id], nextMatchId')
    <2>1. Below(Append(batch[id], FlowMsg("MatchCancelled", m)), nextMatchId')
      BY <1>2, BelowAppend
    <2>. QED BY <2>1
  <1>4. BroadcastLobbyStateAfter(both)
    BY DEF CancelStartingMatch
  <1> HIDE DEF both
  <1>. QED BY <1>1, <1>3, <1>4, BelowBroadcast


MessagesIssued == \A p \in Peers : Below(lastFlow[p], nextMatchId)

\* The plain broadcast and silence.
LEMMA BroadcastIssued ==
  ASSUME TypeOK, TypeOK', nextMatchId <= nextMatchId', MessagesIssued,
         BroadcastLobbyState \/ lastFlow' = Queued(To({}, <<>>))
  PROVE  MessagesIssued'
  <1>1. \A id \in PlayerIds : Below(To({}, <<>>)[id], nextMatchId')
    BY DEF Below, To
  <1>2. CASE BroadcastLobbyState
    BY <1>1, <1>2, NoBatchType, BelowBroadcast DEF BroadcastLobbyState, MessagesIssued
  <1>3. CASE lastFlow' = Queued(To({}, <<>>))
    BY <1>1, <1>3, BelowQueued DEF MessagesIssued
  <1>. QED BY <1>2, <1>3

\* One message about an issued match.
LEMMA AnnouncementIssued ==
  ASSUME TypeOK, TypeOK', nextMatchId <= nextMatchId', MessagesIssued,
         NEW ids, NEW type, NEW m \in Nat, m < nextMatchId',
         lastFlow' = Queued(To(ids, <<FlowMsg(type, m)>>))
  PROVE  MessagesIssued'
  <1>1. nextMatchId' \in Nat \ {0}
    BY DEF TypeOK
  <1>2. \A id \in PlayerIds : Below(To(ids, <<FlowMsg(type, m)>>)[id], nextMatchId')
    BY <1>1, BelowBatches
  <1>. QED BY <1>2, BelowQueued DEF MessagesIssued

\* A cancellation of an issued match, nothing having been queued before it.
LEMMA PlainCancelIssued ==
  ASSUME TypeOK, TypeOK', nextMatchId <= nextMatchId', MessagesIssued,
         NEW m \in Nat, m < nextMatchId', NEW notify, NEW seats,
         CancelStartingMatch(m, To({}, <<>>), notify, seats)
  PROVE  MessagesIssued'
  <1>1. \A id \in PlayerIds : Below(To({}, <<>>)[id], nextMatchId')
    BY DEF Below, To
  <1>. QED BY <1>1, NoBatchType, BelowCancel DEF MessagesIssued

\* A cancellation, after one message about the match it cancels.
LEMMA CancelIssued ==
  ASSUME TypeOK, TypeOK', nextMatchId <= nextMatchId', MessagesIssued,
         NEW ids, NEW type \in {"LevelInfo", "MatchCancelled", "MatchStart", "MatchResult"},
         NEW m \in Nat, m < nextMatchId', NEW notify, NEW seats,
         CancelStartingMatch(m, To(ids, <<FlowMsg(type, m)>>), notify, seats)
  PROVE  MessagesIssued'
  <1>1. nextMatchId' \in Nat \ {0}
    BY DEF TypeOK
  <1>2. \A id \in PlayerIds : Below(To(ids, <<FlowMsg(type, m)>>)[id], nextMatchId')
    BY <1>1, BelowBatches
  <1>3. <<FlowMsg(type, m)>> \in Seq(FlowMsgs)
    BY MsgType
  <1>4. To(ids, <<FlowMsg(type, m)>>) \in [PlayerIds -> Seq(FlowMsgs)]
    BY <1>3, ToType
  <1>. QED BY <1>2, <1>4, BelowCancel DEF MessagesIssued

\* The match of a running round has been issued.
LEMMA RoundIssued ==
  ASSUME TypeOK, RoundInv, phase \in RoundPhases
  PROVE  matchId \in Nat /\ matchId < nextMatchId /\ matchId = nextMatchId - 1
  BY DEF TypeOK, RoundInv, RoundMembership

\* A disconnect tells nobody of a match that was not issued.
LEMMA DisconnectIssued ==
  ASSUME TypeOK, TypeOK', RoundInv, MessagesIssued, NEW p \in Peers, DisconnectAccepted(p)
  PROVE  MessagesIssued' /\ nextMatchId' = nextMatchId
  <1> DEFINE id == playerOf[p]
  <1>1. nextMatchId \in Nat
    BY DEF TypeOK
  <1>2. CASE ReleasedInLobby(id)
    BY <1>1, <1>2, BroadcastIssued DEF ReleasedInLobby, ResetLobbyParticipantsToUnready
  <1>3. CASE ReleasedWhileStarting(id)
    <2>1. matchId \in Nat /\ matchId < nextMatchId
      BY <1>3, RoundIssued DEF ReleasedWhileStarting, RoundPhases
    <2>. QED BY <1>1, <1>3, <2>1, PlainCancelIssued DEF ReleasedWhileStarting
  <1>4. CASE ReleasedLastOfRound(id)
    BY <1>1, <1>4, BroadcastIssued DEF ReleasedLastOfRound
  <1>5. CASE ReleasedFromRound(id)
    <2>1. matchId \in Nat /\ matchId < nextMatchId /\ nextMatchId' = nextMatchId
      BY <1>5, RoundIssued DEF ReleasedFromRound, RoundPhases
    <2>2. \/ lastFlow' = Queued(To({}, <<>>))
          \/ lastFlow' = Queued(To(playerMask', <<FlowMsg("MatchResult", matchId)>>))
      BY <1>5, Zenon DEF ReleasedFromRound, BeginEndOfMatch
    <2>. QED BY <1>1, <2>1, <2>2, BroadcastIssued, AnnouncementIssued
  <1>. QED BY <1>2, <1>3, <1>4, <1>5
    DEF DisconnectAccepted, HandleAcceptedPlayerReleased, id

\* Nor does the bootstrap of a match.
LEMMA BootstrapIssued ==
  ASSUME TypeOK, TypeOK', MessagesIssued, BeginMatchBootstrap
  PROVE  MessagesIssued' /\ nextMatchId' \in {nextMatchId, nextMatchId + 1}
  <1> DEFINE reached == {id \in countdownMask : Queues(id)}
             levelInfo == To(reached, <<FlowMsg("LevelInfo", nextMatchId)>>)
  <1>1. nextMatchId \in Nat
    BY DEF TypeOK
  <1>2. CASE CancelLobbyCountdown(slots) /\ UNCHANGED nextMatchId
    BY <1>1, <1>2, BroadcastIssued DEF CancelLobbyCountdown
  <1>3. CASE /\ nextMatchId' = nextMatchId + 1
             /\ CancelStartingMatch(nextMatchId, levelInfo, reached, slots)
    BY <1>1, <1>3, CancelIssued
  <1>4. CASE nextMatchId' = nextMatchId + 1 /\ lastFlow' = Queued(levelInfo)
    BY <1>1, <1>4, AnnouncementIssued
  <1>. QED BY <1>2, <1>3, <1>4, Zenon DEF BeginMatchBootstrap


\* Every step keeps messages about issued matches, and match ids only grow.
LEMMA NextIssued ==
  ASSUME TypeOK, TypeOK', RoundInv, MessagesIssued, [Next]_vars
  PROVE  MessagesIssued' /\ nextMatchId' \in {nextMatchId, nextMatchId + 1}
  <1>1. ASSUME UNCHANGED <<lastFlow, nextMatchId>>
        PROVE  MessagesIssued' /\ nextMatchId' \in {nextMatchId, nextMatchId + 1}
    BY <1>1 DEF MessagesIssued
  <1>2. CASE UNCHANGED vars
    BY <1>1, <1>2 DEF vars, roundVars, wireVars
  <1>3. ASSUME NEW p \in Peers,
               \/ Connect(p)
               \/ PeerCloses(p)
               \/ DisconnectUnaccepted(p)
               \/ ClientLoads(p)
               \/ RejectHello(p)
        PROVE  UNCHANGED <<lastFlow, nextMatchId>>
    BY <1>3 DEF Connect, PeerCloses, DisconnectUnaccepted, ClientLoads, RejectHello,
                roundVars, wireVars
  <1>4. nextMatchId \in Nat
    BY DEF TypeOK
  <1>5. ASSUME NEW p \in Peers, DisconnectAccepted(p)
        PROVE  MessagesIssued' /\ nextMatchId' = nextMatchId
    BY <1>5, DisconnectIssued
  <1>6. ASSUME NEW p \in Peers, NEW name \in Names, NEW versionMatches \in BOOLEAN,
               NEW welcomeQueued \in BOOLEAN, Hello(p, name, versionMatches, welcomeQueued)
        PROVE  MessagesIssued' /\ nextMatchId' = nextMatchId
    <2>1. CASE \E id \in freeIds : LobbyAccept(p, name, id)
      BY <1>4, <2>1, BroadcastIssued DEF LobbyAccept, ResetLobbyParticipantsToUnready
    <2>2. CASE RejectHello(p)
      BY <1>1, <1>3, <2>2
    <2>. QED BY <1>6, <2>1, <2>2, HelloCases
  <1>7. ASSUME NEW p \in Peers, NEW desired \in BOOLEAN, LobbyReady(p, desired)
        PROVE  MessagesIssued' /\ nextMatchId' = nextMatchId
    <2>1. BroadcastLobbyState /\ nextMatchId' = nextMatchId
      BY <1>7, Zenon DEF LobbyReady, HandleLobbyReadyStateChanged, CancelLobbyCountdown,
                         StartLobbyCountdown
    <2>. QED BY <1>4, <2>1, BroadcastIssued
  <1>8. ASSUME NEW p \in Peers, NEW m, MatchLoaded(p, m)
        PROVE  MessagesIssued' /\ nextMatchId' = nextMatchId
    <2>1. phase = "StartingMatch" /\ nextMatchId' = nextMatchId
      BY <1>8 DEF MatchLoaded, MarkPlayerLoadedForCurrentMatch
    <2>2. matchId \in Nat /\ matchId < nextMatchId
      BY <2>1, RoundIssued DEF RoundPhases
    <2>3. \/ UNCHANGED wireVars
          \/ lastFlow' = Queued(To(playerMask, <<FlowMsg("MatchStart", matchId)>>))
          \/ CancelStartingMatch(matchId, To(playerMask, <<FlowMsg("MatchStart", matchId)>>),
                                 playerMask, slots)
      BY <1>8, Zenon
      DEF MatchLoaded, MarkPlayerLoadedForCurrentMatch, Acknowledges, CommitMatchStart
    <2>. QED BY <1>1, <1>4, <2>1, <2>2, <2>3, AnnouncementIssued, CancelIssued DEF wireVars
  <1>9. CASE CountdownTick
    <2>1. CASE BeginMatchBootstrap
      BY <2>1, BootstrapIssued
    <2>2. CASE BroadcastLobbyState /\ UNCHANGED nextMatchId
      BY <1>4, <2>2, BroadcastIssued
    <2>3. CASE UNCHANGED wireVars /\ UNCHANGED nextMatchId
      BY <1>1, <2>3 DEF wireVars
    <2>. QED BY <1>9, <2>1, <2>2, <2>3, Zenon DEF CountdownTick
  <1>10. CASE StartingTick
    <2>1. matchId \in Nat /\ matchId < nextMatchId /\ nextMatchId' = nextMatchId
      BY <1>10, RoundIssued DEF StartingTick, RoundPhases
    <2>. QED BY <1>1, <1>4, <1>10, <2>1, PlainCancelIssued DEF StartingTick, wireVars
  <1>11. CASE MatchTick
    <2>1. matchId \in Nat /\ matchId < nextMatchId /\ nextMatchId' = nextMatchId
      BY <1>11, RoundIssued DEF MatchTick, RoundPhases
    <2>2. \/ UNCHANGED wireVars
          \/ lastFlow' = Queued(To(playerMask', <<FlowMsg("MatchResult", matchId)>>))
      BY <1>11, Zenon DEF MatchTick, BeginEndOfMatch
    <2>. QED BY <1>1, <1>4, <2>1, <2>2, AnnouncementIssued DEF wireVars
  <1>12. CASE EndOfMatchTick
    BY <1>1, <1>4, <1>12, BroadcastIssued DEF EndOfMatchTick, wireVars
  <1>. QED
    BY <1>1, <1>2, <1>3, <1>5, <1>6, <1>7, <1>8, <1>9, <1>10, <1>11, <1>12 DEF Next, Tick


(***************************************************************************)
(* No client can have loaded, or been sent, a match that has not been      *)
(* issued; and whoever counts as loaded has loaded the current match.      *)
(***************************************************************************)
LoadInv ==
  /\ MessagesIssued
  /\ \A p \in Peers : clientLoaded[p] < nextMatchId
  /\ phase = "StartingMatch" =>
       \A p \in Peers : playerOf[p] \in loadedMask => clientLoaded[p] = matchId
  /\ LoadedBeforeStart

\* Outside of a bootstrap and a match nothing counts as loaded.
LEMMA LoadIdle ==
  ASSUME TypeOK, LoadInv, MessagesIssued', nextMatchId' \in {nextMatchId, nextMatchId + 1},
         phase' \notin {"StartingMatch", "InMatch"},
         \A p \in Peers : clientLoaded'[p] \in {clientLoaded[p], 0}
  PROVE  LoadInv'
  <1>1. nextMatchId \in Nat \ {0} /\ \A p \in Peers : clientLoaded[p] \in Nat
    BY DEF TypeOK
  <1>. QED BY <1>1 DEF LoadInv, LoadedBeforeStart

\* A step within a phase that takes nobody in and nothing from those who stay.
LEMMA LoadKept ==
  ASSUME TypeOK, LoadInv, MessagesIssued', UNCHANGED <<phase, matchId, nextMatchId>>,
         loadedMask' \subseteq loadedMask,
         \A p \in Peers : clientLoaded'[p] \in {clientLoaded[p], 0},
         \A p \in Peers : playerOf'[p] # NoPlayer =>
           playerOf'[p] = playerOf[p] /\ clientLoaded'[p] = clientLoaded[p]
  PROVE  LoadInv'
  <1>1. nextMatchId \in Nat \ {0} /\ \A p \in Peers : clientLoaded[p] \in Nat
    BY DEF TypeOK
  <1>2. NoPlayer \notin loadedMask
    BY DEF TypeOK, NoPlayer, PlayerIds
  <1>. QED BY <1>1, <1>2 DEF LoadInv, LoadedBeforeStart

\* Building a level cannot undo having built the current one.
LEMMA ClientLoadsLoad ==
  ASSUME TypeOK, RoundInv, LoadInv, MessagesIssued', NEW p \in Peers, ClientLoads(p)
  PROVE  LoadInv'
  <1>1. PICK i \in 1 .. Len(lastFlow[p]) :
          /\ lastFlow[p][i].match > clientLoaded[p]
          /\ clientLoaded' = [clientLoaded EXCEPT ![p] = lastFlow[p][i].match]
    BY DEF ClientLoads
  <1> DEFINE m == lastFlow[p][i].match
  <1>2. UNCHANGED <<phase, matchId, nextMatchId, loadedMask, playerOf>>
    BY DEF ClientLoads, sessionVars, roundVars
  <1>3. clientLoaded \in [Peers -> Nat] /\ nextMatchId \in Nat /\ lastFlow[p] \in Seq(FlowMsgs)
    BY DEF TypeOK
  <1>4. lastFlow[p][i] \in FlowMsgs
    BY <1>3
  <1>5. m \in Nat /\ m < nextMatchId
    BY <1>4 DEF FlowMsgs, LobbyStateMsg, FlowMsg, LoadInv, MessagesIssued, Below
  <1>6. clientLoaded'[p] = m /\ clientLoaded[p] < m
    BY <1>1, <1>3
  <1>7. \A q \in Peers \ {p} : clientLoaded'[q] = clientLoaded[q]
    BY <1>1, <1>3
  <1> HIDE DEF m
  <1>8. phase \in RoundPhases => clientLoaded[p] # matchId
    BY <1>3, <1>5, <1>6, RoundIssued
  <1>9. phase = "StartingMatch" => playerOf[p] \notin loadedMask
    BY <1>8 DEF LoadInv, RoundPhases
  <1>10. phase = "InMatch" => playerOf[p] = NoPlayer
    BY <1>8 DEF LoadInv, LoadedBeforeStart, RoundPhases
  <1>11. \A q \in Peers : clientLoaded'[q] < nextMatchId'
    BY <1>2, <1>5, <1>6, <1>7 DEF LoadInv
  <1>. QED
    BY <1>2, <1>7, <1>9, <1>10, <1>11 DEF LoadInv, LoadedBeforeStart

\* An acknowledgement of the current match is by somebody who has loaded it,
\* and the match starts once everybody has.
LEMMA MatchLoadedLoad ==
  ASSUME TypeOK, SeatOwnership, RoundInv, LoadInv, MessagesIssued', NEW p \in Peers,
         NEW m \in 1 .. clientLoaded[p], MatchLoaded(p, m)
  PROVE  LoadInv'
  <1> DEFINE id == playerOf[p]
  <1>1. /\ phase = "StartingMatch" /\ id # NoPlayer /\ m = matchId
        /\ UNCHANGED <<playerOf, nextMatchId, clientLoaded>>
    BY DEF MatchLoaded, Acknowledges
  <1>2. clientLoaded \in [Peers -> Nat] /\ nextMatchId \in Nat
    BY DEF TypeOK
  <1>3. clientLoaded[p] = matchId
    <2>1. matchId = nextMatchId - 1 /\ clientLoaded[p] < nextMatchId
      BY <1>1, RoundIssued DEF RoundPhases, LoadInv
    <2>. QED BY <1>1, <1>2, <2>1
  <1>4. \A q \in Peers : playerOf[q] \in loadedMask \cup {id} => clientLoaded[q] = matchId
    BY <1>1, <1>3 DEF LoadInv, SeatOwnership
  <1> HIDE DEF id
  <1>5. CASE phase' = "Lobby"
    BY <1>1, <1>5, LoadIdle
  <1>6. CASE /\ loadedMask \cup {id} = playerMask
             /\ phase' = "InMatch" /\ matchId' = matchId
    <2>1. \A q \in Peers : playerOf[q] # NoPlayer => playerOf[q] \in playerMask
      BY <1>1 DEF RoundInv, RoundMembership, RoundPhases, Accepted, BoundIds
    <2>. QED BY <1>1, <1>4, <1>6, <2>1 DEF LoadInv, LoadedBeforeStart
  <1>7. CASE loadedMask' = loadedMask \cup {id} /\ UNCHANGED <<phase, matchId>>
    BY <1>1, <1>4, <1>7 DEF LoadInv, LoadedBeforeStart
  <1>8. \/ phase' = "Lobby"
        \/ /\ loadedMask \cup {id} = playerMask
           /\ phase' = "InMatch" /\ matchId' = matchId
        \/ loadedMask' = loadedMask \cup {id} /\ UNCHANGED <<phase, matchId>>
    BY Zenon DEF MatchLoaded, MarkPlayerLoadedForCurrentMatch, CommitMatchStart,
                 CancelStartingMatch, ResetRoundRuntimeToLobby, id
  <1>. QED BY <1>5, <1>6, <1>7, <1>8


\* Every step keeps the loading invariant.
LEMMA NextLoad ==
  ASSUME TypeOK, TypeOK', SeatOwnership, RoundInv, LoadInv, [Next]_vars
  PROVE  LoadInv'
  <1>1. MessagesIssued' /\ nextMatchId' \in {nextMatchId, nextMatchId + 1}
    BY NextIssued DEF LoadInv
  <1>2. /\ clientLoaded \in [Peers -> Nat]
        /\ playerOf \in [Peers -> PlayerIds \cup {NoPlayer}]
    BY DEF TypeOK, SessionTypeOK
  <1>3. CASE UNCHANGED vars
    BY <1>1, <1>3, LoadKept DEF vars, sessionVars, roundVars
  <1>4. ASSUME NEW p \in Peers,
               \/ Connect(p)
               \/ PeerCloses(p)
               \/ DisconnectUnaccepted(p)
               \/ RejectHello(p)
        PROVE  LoadInv'
    <2>1. UNCHANGED <<phase, matchId, nextMatchId, loadedMask>>
      BY <1>4 DEF Connect, PeerCloses, DisconnectUnaccepted, RejectHello, roundVars
    <2>2. /\ \A q \in Peers : clientLoaded'[q] \in {clientLoaded[q], 0}
          /\ \A q \in Peers : playerOf'[q] # NoPlayer =>
               playerOf'[q] = playerOf[q] /\ clientLoaded'[q] = clientLoaded[q]
      BY <1>2, <1>4 DEF Connect, PeerCloses, DisconnectUnaccepted, RejectHello
    <2>. QED BY <1>1, <2>1, <2>2, LoadKept
  <1>5. ASSUME NEW p \in Peers, ClientLoads(p) PROVE LoadInv'
    BY <1>1, <1>5, ClientLoadsLoad
  <1>6. ASSUME NEW p \in Peers, DisconnectAccepted(p) PROVE LoadInv'
    <2> DEFINE id == playerOf[p]
    <2>1. /\ clientLoaded' = [clientLoaded EXCEPT ![p] = 0]
          /\ playerOf' = [playerOf EXCEPT ![p] = NoPlayer]
      BY <1>6 DEF DisconnectAccepted, ReleasePeerSession
    <2>2. /\ \A q \in Peers : clientLoaded'[q] \in {clientLoaded[q], 0}
          /\ \A q \in Peers : playerOf'[q] # NoPlayer =>
               playerOf'[q] = playerOf[q] /\ clientLoaded'[q] = clientLoaded[q]
      BY <1>2, <2>1
    <2>3. \/ phase' \in {"Lobby", "EndOfMatch"}
          \/ /\ UNCHANGED <<phase, matchId, nextMatchId>>
             /\ loadedMask' = loadedMask \ {id}
      BY <1>6, Zenon
      DEF DisconnectAccepted, HandleAcceptedPlayerReleased, ReleasedInLobby,
          ReleasedWhileStarting, ReleasedLastOfRound, ReleasedFromRound, BeginEndOfMatch,
          CancelStartingMatch, ResetRoundRuntimeToLobby, ResetLobbyParticipantsToUnready,
          LobbyWithoutCountdown
    <2>. QED BY <1>1, <2>2, <2>3, LoadIdle, LoadKept
  <1>7. ASSUME NEW p \in Peers, NEW name \in Names, NEW versionMatches \in BOOLEAN,
               NEW welcomeQueued \in BOOLEAN, Hello(p, name, versionMatches, welcomeQueued)
        PROVE  LoadInv'
    <2>1. CASE \E id \in freeIds : LobbyAccept(p, name, id)
      BY <1>1, <2>1, LoadIdle
      DEF LobbyAccept, ResetLobbyParticipantsToUnready, LobbyWithoutCountdown
    <2>2. CASE RejectHello(p)
      BY <1>4, <2>2
    <2>. QED BY <1>7, <2>1, <2>2, HelloCases
  <1>8. ASSUME NEW p \in Peers, NEW desired \in BOOLEAN, LobbyReady(p, desired)
        PROVE  LoadInv'
    <2>1. phase' \in {"Lobby", "LobbyCountdown"} /\ UNCHANGED clientLoaded
      BY <1>8, Zenon DEF LobbyReady, HandleLobbyReadyStateChanged, CancelLobbyCountdown,
                         LobbyWithoutCountdown, StartLobbyCountdown
    <2>. QED BY <1>1, <2>1, LoadIdle
  <1>9. ASSUME NEW p \in Peers, NEW m \in 1 .. clientLoaded[p], MatchLoaded(p, m)
        PROVE  LoadInv'
    BY <1>1, <1>9, MatchLoadedLoad
  <1>10. CASE CountdownTick
    <2>1. clientLoaded' = clientLoaded
      BY <1>10 DEF CountdownTick
    <2>2. CASE phase' \in {"Lobby", "LobbyCountdown"}
      BY <1>1, <2>1, <2>2, LoadIdle
    <2>3. CASE phase' = "StartingMatch" /\ loadedMask' = {}
      <3>1. nextMatchId \in Nat
        BY DEF TypeOK
      <3>. QED BY <1>1, <1>2, <2>1, <2>3, <3>1 DEF LoadInv, LoadedBeforeStart
    <2>4. \/ phase' \in {"Lobby", "LobbyCountdown"}
          \/ phase' = "StartingMatch" /\ loadedMask' = {}
      BY <1>10, Zenon DEF CountdownTick, BeginMatchBootstrap, CancelLobbyCountdown,
                          LobbyWithoutCountdown, CancelStartingMatch, ResetRoundRuntimeToLobby
    <2>. QED BY <2>2, <2>3, <2>4
  <1>11. CASE StartingTick \/ MatchTick \/ EndOfMatchTick
    <2>1. UNCHANGED <<clientLoaded, playerOf, nextMatchId>>
      BY <1>11 DEF StartingTick, MatchTick, EndOfMatchTick
    <2>2. \/ phase' \in {"Lobby", "EndOfMatch"}
          \/ UNCHANGED <<phase, matchId, loadedMask>>
      BY <1>11, Zenon DEF StartingTick, MatchTick, EndOfMatchTick, CancelStartingMatch,
                          ResetRoundRuntimeToLobby, BeginEndOfMatch
    <2>. QED BY <1>1, <2>1, <2>2, LoadIdle, LoadKept
  <1>. QED
    BY <1>3, <1>4, <1>5, <1>6, <1>7, <1>8, <1>9, <1>10, <1>11 DEF Next, Tick

(***************************************************************************)
(* Nobody is pulled into a match whose level their client has not built,   *)
(* for any number of players, peers and matches.                           *)
(***************************************************************************)
THEOREM LoadingCorrect == Spec => []LoadedBeforeStart
  <1>1. Init => LoadInv
    BY DEF Init, LoadInv, LoadedBeforeStart, MessagesIssued, Below
  <1>2. TypeOK /\ TypeOK' /\ SeatOwnership /\ RoundInv /\ LoadInv /\ [Next]_vars => LoadInv'
    BY NextLoad
  <1>3. LoadInv => LoadedBeforeStart
    BY DEF LoadInv
  <1>. QED BY <1>1, <1>2, <1>3, TypeCorrect, SeatsCorrect, RoundsCorrect, PTL DEF Spec

(***************************************************************************)
(* The lobby every client shows is the server's lobby.                     *)
(***************************************************************************)
THEOREM LobbyViewCorrect == Spec => []LobbyViewIsCurrent
  <1>1. ToldTheTruth /\ LobbyViewIsCurrent => LobbyViewIsCurrent
    OBVIOUS
  <1>. QED BY <1>1, ClientsToldTheTruth, PTL


-----------------------------------------------------------------------------
(* Wins. *)

\* No player id stands for no player.
LEMMA SomePlayer == NoPlayer \notin PlayerIds
  BY DEF NoPlayer, PlayerIds

\* A seat whose name and wins stay earns nothing without a verdict.
LEMMA WinsKept ==
  ASSUME NEW id \in PlayerIds, slots'[id].name = slots[id].name,
         slots'[id].wins = slots[id].wins, reclaims'[id] = reclaims[id],
         roundWinner' \in {roundWinner, NoPlayer}
  PROVE  EarnedStep(id)
  BY SomePlayer DEF EarnedStep, Occupied

\* Clearing the ready flags keeps names and wins.
LEMMA UnreadyKeepsWins ==
  ASSUME NEW seats \in SlotsType, NEW id \in PlayerIds
  PROVE  /\ AllUnready(seats)[id].name = seats[id].name
         /\ AllUnready(seats)[id].wins = seats[id].wins
  BY DEF AllUnready, SlotsType

\* A verdict gives its sole survivor, and nobody else, one win.
LEMMA VerdictEarns ==
  ASSUME NEW participants, NEW survivors \in SUBSET PlayerIds, NEW seats \in SlotsType, NEW t,
         BeginEndOfMatch(participants, survivors, seats, t),
         RoundDecided(participants, survivors),
         NEW id \in PlayerIds
  PROVE  /\ slots'[id].name = seats[id].name
         /\ seats[id].name # NoName =>
              \/ slots'[id].wins = seats[id].wins /\ roundWinner' # id
              \/ /\ slots'[id].wins = (seats[id].wins + 1) % WinsModulus
                 /\ phase' = "EndOfMatch" /\ roundWinner' = id /\ alive' = {id}
         /\ seats[id].name = NoName => slots'[id].wins = seats[id].wins
  <1>1. slots'[id] = IF roundWinner' = id /\ seats[id].name # NoName
                     THEN [seats[id] EXCEPT !.wins = (@ + 1) % WinsModulus]
                     ELSE seats[id]
    BY DEF BeginEndOfMatch
  <1>2. seats[id] \in [name : Names \cup {NoName}, ready : BOOLEAN, wins : WinCounts]
    BY DEF SlotsType
  <1>3. roundWinner' = id => id \in survivors
    BY SomePlayer DEF BeginEndOfMatch
  <1>4. id \in survivors => survivors = {id}
    BY DEF RoundDecided
  <1>5. phase' = "EndOfMatch" /\ alive' = survivors
    BY DEF BeginEndOfMatch
  <1>. QED BY <1>1, <1>2, <1>3, <1>4, <1>5

\* A disconnect files the leaver's wins; a verdict it brings about counts.
LEMMA DisconnectEarns ==
  ASSUME TypeOK, SeatOwnership, RoundInv, NoVerdictYet, NEW p \in Peers,
         DisconnectAccepted(p), NEW id \in PlayerIds
  PROVE  EarnedStep(id)
  <1> DEFINE left == playerOf[p]
  <1>1. /\ left \in PlayerIds /\ left # NoPlayer /\ left \in Accepted
        /\ ReleasePeerSession(p, left)
    BY DEF DisconnectAccepted, TypeOK, SessionTypeOK, Accepted, BoundIds
  <1>2. SeatLeft(left) \in SlotsType
    BY ReleaseType DEF DisconnectAccepted, HandleAcceptedPlayerReleased
  <1>3. slots \in SlotsType
    BY DEF TypeOK, SessionTypeOK, SlotsType
  <1>4. SeatLeft(left)[id] = IF id = left THEN NoSlot ELSE slots[id]
    BY <1>1, <1>3 DEF SeatLeft, SlotsType
  <1>5. Occupied(left)
    BY <1>1 DEF SeatOwnership
  <1>6. reclaims'[id] = IF id = left THEN [name |-> slots[id].name, wins |-> slots[id].wins]
                                     ELSE reclaims[id]
    BY <1>1, <1>5 DEF ReleasePeerSession, TypeOK, SessionTypeOK
  <1> HIDE DEF left
  <1>7. ASSUME slots'[id].name = SeatLeft(left)[id].name,
               slots'[id].wins = SeatLeft(left)[id].wins,
               roundWinner' \in {roundWinner, NoPlayer}
        PROVE  EarnedStep(id)
    <2>1. CASE id # left
      BY <1>4, <1>6, <1>7, <2>1, WinsKept
    <2>2. CASE id = left
      BY <1>4, <1>5, <1>6, <1>7, <2>2 DEF EarnedStep, Occupied, NoSlot
    <2>. QED BY <2>1, <2>2
  <1>8. CASE ReleasedInLobby(left)
    BY <1>2, <1>7, <1>8, UnreadyKeepsWins
    DEF ReleasedInLobby, ResetLobbyParticipantsToUnready
  <1>9. CASE ReleasedWhileStarting(left)
    BY <1>2, <1>7, <1>9, UnreadyKeepsWins
    DEF ReleasedWhileStarting, CancelStartingMatch, ResetRoundRuntimeToLobby
  <1>10. CASE ReleasedLastOfRound(left)
    BY <1>2, <1>7, <1>10, UnreadyKeepsWins
    DEF ReleasedLastOfRound, ResetRoundRuntimeToLobby
  <1>11. CASE ReleasedFromRound(left)
    <2>1. CASE slots' = SeatLeft(left) /\ UNCHANGED roundWinner
      BY <1>7, <2>1
    <2>2. CASE /\ phase = "InMatch"
               /\ RoundDecided(inMatch \ {left}, alive \ {left})
               /\ BeginEndOfMatch(inMatch \ {left}, alive \ {left}, SeatLeft(left), timer)
      <3>1. alive \ {left} \in SUBSET PlayerIds
        BY DEF TypeOK
      <3>2. /\ slots'[id].name = SeatLeft(left)[id].name
            /\ SeatLeft(left)[id].name # NoName =>
                 \/ slots'[id].wins = SeatLeft(left)[id].wins /\ roundWinner' # id
                 \/ /\ slots'[id].wins = (SeatLeft(left)[id].wins + 1) % WinsModulus
                    /\ phase' = "EndOfMatch" /\ roundWinner' = id /\ alive' = {id}
        BY <1>2, <2>2, <3>1, VerdictEarns
      <3>3. CASE id # left
        BY <1>4, <1>6, <2>2, <3>2, <3>3 DEF EarnedStep, Occupied
      <3>4. CASE id = left
        BY <1>4, <1>5, <1>6, <3>2, <3>4 DEF EarnedStep, Occupied, NoSlot
      <3>. QED BY <3>3, <3>4
    <2>. QED BY <1>11, <2>1, <2>2, Zenon DEF ReleasedFromRound
  <1>. QED BY <1>8, <1>9, <1>10, <1>11
    DEF DisconnectAccepted, HandleAcceptedPlayerReleased, left


\* A Hello that is not rejected takes the seat it reserves.
LEMMA HelloReserves ==
  ASSUME TypeOK, NEW p, NEW name, NEW versionMatches, NEW welcomeQueued,
         Hello(p, name, versionMatches, welcomeQueued)
  PROVE  RejectHello(p) \/ \E id \in freeIds : Reserves(name, id) /\ LobbyAccept(p, name, id)
  <1>1. phase \notin RoundPhases => phase \in {"Lobby", "LobbyCountdown"}
    BY DEF TypeOK, Phases, RoundPhases
  <1>2. ASSUME NEW id, phase \notin RoundPhases, AcceptHello(p, name, id)
        PROVE  LobbyAccept(p, name, id)
    BY <1>1, <1>2 DEF AcceptHello, HandleAcceptedPlayerJoined, LobbyAccept
  <1>. QED BY <1>2 DEF Hello

\* The wins a seat is taken with are the reclaim entry's if the name is.
LEMMA CarriedWinsAreReclaimed ==
  ASSUME NEW name \in Names, NEW id \in freeIds, Reserves(name, id)
  PROVE  CarriedWins(name, id) = IF reclaims[id].name = name THEN reclaims[id].wins ELSE 0
  <1>1. name # NoName
    BY NoNameAssumption
  <1>2. CASE ReclaimableBy(name) # {}
    BY <1>2 DEF Reserves, IsLowest, ReclaimableBy, CarriedWins
  <1>3. CASE ReclaimableBy(name) = {}
    <2>1. reclaims[id].name # name
      BY <1>1, <1>3 DEF ReclaimableBy, Reclaimable
    <2>. QED BY <1>3, <2>1 DEF CarriedWins
  <1>. QED BY <1>2, <1>3

\* An accepted Hello gives a returning name its wins and anybody else none.
LEMMA AcceptEarns ==
  ASSUME TypeOK, SeatOwnership, NEW p, NEW name \in Names, NEW taken \in freeIds,
         Reserves(name, taken), LobbyAccept(p, name, taken), NEW id \in PlayerIds
  PROVE  EarnedStep(id)
  <1> DEFINE wins == CarriedWins(name, taken)
             seats == SeatTaken(taken, name, wins)
  <1>1. slots \in SlotsType /\ reclaims \in [PlayerIds -> [name : Names \cup {NoName}, wins : WinCounts]]
    BY DEF TypeOK, SessionTypeOK, SlotsType
  <1>2. taken \in PlayerIds /\ taken \notin Accepted /\ ~Occupied(taken)
    BY DEF TypeOK, SessionTypeOK, SeatOwnership
  <1>3. wins = IF reclaims[taken].name = name THEN reclaims[taken].wins ELSE 0
    BY CarriedWinsAreReclaimed
  <1>4. wins \in WinCounts
    BY <1>1, <1>2, <1>3, WinsAssumption DEF WinCounts
  <1> HIDE DEF wins
  <1>5. seats[id] = IF id = taken THEN [name |-> name, ready |-> FALSE, wins |-> wins] ELSE slots[id]
    BY <1>1, <1>2 DEF SeatTaken, SlotsType
  <1>6. seats \in SlotsType
    BY <1>1, <1>2, <1>4 DEF SeatTaken, SlotsType
  <1>7. slots' = AllUnready(seats) /\ reclaims' = [reclaims EXCEPT ![taken] = NoReclaim]
        /\ roundWinner' = roundWinner
    BY DEF LobbyAccept, ResetLobbyParticipantsToUnready, AcceptPeerSession, wins
  <1> HIDE DEF seats
  <1>8. slots'[id].name = seats[id].name /\ slots'[id].wins = seats[id].wins
    BY <1>6, <1>7, UnreadyKeepsWins
  <1>9. CASE id # taken
    <2>1. reclaims'[id] = reclaims[id]
      BY <1>1, <1>7, <1>9
    <2>. QED BY <1>5, <1>7, <1>8, <1>9, <2>1, WinsKept
  <1>10. CASE id = taken
    <2>1. Occupied(id)'
      BY <1>5, <1>8, <1>10, NoNameAssumption DEF Occupied
    <2>. QED BY <1>2, <1>3, <1>5, <1>8, <1>10, <2>1 DEF EarnedStep
  <1>. QED BY <1>9, <1>10

\* Every step earns at most the one win of a verdict.
LEMMA NextEarns ==
  ASSUME TypeOK, SeatOwnership, RoundInv, NoVerdictYet, [Next]_vars, NEW id \in PlayerIds
  PROVE  EarnedStep(id)
  <1>1. slots \in SlotsType
    BY DEF TypeOK, SessionTypeOK, SlotsType
  <1>2. ASSUME slots' = slots \/ slots' = AllUnready(slots),
               UNCHANGED reclaims, roundWinner' \in {roundWinner, NoPlayer}
        PROVE  EarnedStep(id)
    BY <1>1, <1>2, UnreadyKeepsWins, WinsKept
  <1>3. CASE UNCHANGED vars
    BY <1>2, <1>3 DEF vars, sessionVars, roundVars
  <1>4. ASSUME NEW p \in Peers,
               \/ Connect(p)
               \/ PeerCloses(p)
               \/ DisconnectUnaccepted(p)
               \/ ClientLoads(p)
               \/ RejectHello(p)
        PROVE  EarnedStep(id)
    BY <1>2, <1>4 DEF Connect, PeerCloses, DisconnectUnaccepted, ClientLoads, RejectHello,
                      sessionVars, roundVars
  <1>5. ASSUME NEW p \in Peers, DisconnectAccepted(p) PROVE EarnedStep(id)
    BY <1>5, DisconnectEarns
  <1>6. ASSUME NEW p \in Peers, NEW name \in Names, NEW versionMatches \in BOOLEAN,
               NEW welcomeQueued \in BOOLEAN, Hello(p, name, versionMatches, welcomeQueued)
        PROVE  EarnedStep(id)
    BY <1>4, <1>6, HelloReserves, AcceptEarns
  <1>7. ASSUME NEW p \in Peers, NEW desired \in BOOLEAN, LobbyReady(p, desired)
        PROVE  EarnedStep(id)
    <2> DEFINE seats == [slots EXCEPT ![playerOf[p]].ready = desired]
    <2>1. slots' = seats
      BY <1>7, Zenon DEF LobbyReady, HandleLobbyReadyStateChanged, CancelLobbyCountdown,
                         StartLobbyCountdown
    <2>2. seats[id].name = slots[id].name /\ seats[id].wins = slots[id].wins
      BY <1>1 DEF SlotsType
    <2>3. UNCHANGED <<reclaims, roundWinner>>
      BY <1>7 DEF LobbyReady, HandleLobbyReadyStateChanged
    <2>. QED BY <2>1, <2>2, <2>3, WinsKept
  <1>8. ASSUME NEW p \in Peers, NEW m, MatchLoaded(p, m) PROVE EarnedStep(id)
    <2>1. UNCHANGED reclaims
      BY <1>8 DEF MatchLoaded, MarkPlayerLoadedForCurrentMatch, Acknowledges
    <2>2. \/ slots' = slots /\ roundWinner' = roundWinner
          \/ slots' = AllUnready(slots) /\ roundWinner' = NoPlayer
      BY <1>8, Zenon
      DEF MatchLoaded, MarkPlayerLoadedForCurrentMatch, Acknowledges, CommitMatchStart,
          CancelStartingMatch, ResetRoundRuntimeToLobby
    <2>. QED BY <1>2, <2>1, <2>2
  <1>9. CASE CountdownTick
    <2>1. UNCHANGED reclaims
      BY <1>9 DEF CountdownTick
    <2>2. \/ slots' = slots /\ roundWinner' \in {roundWinner, NoPlayer}
          \/ slots' = AllUnready(slots) /\ roundWinner' = NoPlayer
      <3>1. CASE BeginMatchBootstrap
        BY <3>1, Zenon DEF BeginMatchBootstrap, CancelLobbyCountdown, CancelStartingMatch,
                           ResetRoundRuntimeToLobby
      <3>2. CASE UNCHANGED <<slots, phase, matchId, nextMatchId, countdownMask, playerMask,
                             loadedMask, roundWinner, roundDraw, arenaVars>>
        BY <3>2
      <3>. QED BY <1>9, <3>1, <3>2, Zenon DEF CountdownTick
    <2>. QED BY <1>2, <2>1, <2>2
  <1>10. CASE StartingTick \/ EndOfMatchTick
    <2>1. UNCHANGED reclaims
      BY <1>10 DEF StartingTick, EndOfMatchTick
    <2>2. \/ slots' = slots /\ roundWinner' = roundWinner
          \/ slots' = AllUnready(slots) /\ roundWinner' = NoPlayer
      BY <1>10, Zenon DEF StartingTick, EndOfMatchTick, CancelStartingMatch,
                          ResetRoundRuntimeToLobby
    <2>. QED BY <1>2, <2>1, <2>2
  <1>11. CASE MatchTick
    <2>1. UNCHANGED reclaims /\ phase = "InMatch"
      BY <1>11 DEF MatchTick
    <2>2. ASSUME NEW killed, NEW t, RoundDecided(inMatch, alive \ killed),
                 BeginEndOfMatch(inMatch, alive \ killed, slots, t)
          PROVE  EarnedStep(id)
      <3>1. alive \ killed \in SUBSET PlayerIds
        BY DEF TypeOK
      <3>2. /\ slots'[id].name = slots[id].name
            /\ slots[id].name # NoName =>
                 \/ slots'[id].wins = slots[id].wins /\ roundWinner' # id
                 \/ /\ slots'[id].wins = (slots[id].wins + 1) % WinsModulus
                    /\ phase' = "EndOfMatch" /\ roundWinner' = id /\ alive' = {id}
        BY <1>1, <2>2, <3>1, VerdictEarns
      <3>. QED BY <2>1, <3>2 DEF EarnedStep, Occupied
    <2>3. CASE UNCHANGED <<inMatch, slots, phase, roundWinner, roundDraw, wireVars>>
      BY <1>2, <2>1, <2>3
    <2>. QED BY <1>11, <2>2, <2>3, Zenon DEF MatchTick
  <1>. QED
    BY <1>3, <1>4, <1>5, <1>6, <1>7, <1>8, <1>9, <1>10, <1>11 DEF Next, Tick

(***************************************************************************)
(* A win count changes by exactly one victory, is filed when its owner     *)
(* leaves, and comes back with the name.                                   *)
(***************************************************************************)
THEOREM WinsCorrect == Spec => WinsAreEarned
  <1>1. Init => NoVerdictYet
    BY DEF Init, NoVerdictYet
  <1>2. TypeOK /\ NoVerdictYet /\ [Next]_vars => NoVerdictYet'
    BY NextVerdict
  <1>3. TypeOK /\ SeatOwnership /\ RoundInv /\ NoVerdictYet /\ [Next]_vars
          => \A id \in PlayerIds : EarnedStep(id)
    BY NextEarns
  <1>. QED
    BY <1>1, <1>2, <1>3, TypeCorrect, SeatsCorrect, RoundsCorrect, PTL
    DEF Spec, WinsAreEarned


-----------------------------------------------------------------------------
(* One client's stream. *)

InLobby == phase \in {"Lobby", "LobbyCountdown"}

\* The stage of a stream, before a step.
LEMMA StreamStage ==
  ASSUME NEW p \in Peers
  PROVE  /\ ~Attached(p) => StageFor(p) = "away"
         /\ Attached(p) /\ phase = "Lobby" => StageFor(p) = "lobby"
         /\ Attached(p) /\ phase = "LobbyCountdown" => StageFor(p) = "lobby"
         /\ Attached(p) /\ phase = "StartingMatch" => StageFor(p) = "loading"
         /\ Attached(p) /\ phase = "InMatch" => StageFor(p) = "playing"
         /\ Attached(p) /\ phase = "EndOfMatch" => StageFor(p) = "over"
  BY Zenon DEF StageFor

\* The same, after it.
LEMMA StreamStageNext ==
  ASSUME NEW p \in Peers
  PROVE  /\ ~Attached(p)' => StageFor(p)' = "away"
         /\ Attached(p)' /\ phase' = "Lobby" => StageFor(p)' = "lobby"
         /\ Attached(p)' /\ phase' = "LobbyCountdown" => StageFor(p)' = "lobby"
         /\ Attached(p)' /\ phase' = "StartingMatch" => StageFor(p)' = "loading"
         /\ Attached(p)' /\ phase' = "InMatch" => StageFor(p)' = "playing"
         /\ Attached(p)' /\ phase' = "EndOfMatch" => StageFor(p)' = "over"
  BY Zenon DEF StageFor

\* The flags of a stream.
LEMMA StreamFlags ==
  ASSUME NEW p \in Peers
  PROVE  /\ ~Attached(p) => IsReady(p) = FALSE /\ IsLoaded(p) = FALSE
         /\ Attached(p) => (IsReady(p) <=> slots[playerOf[p]].ready)
         /\ Attached(p) => (IsLoaded(p) <=> playerOf[p] \in loadedMask)
         /\ ~Attached(p)' => IsReady(p)' = FALSE /\ IsLoaded(p)' = FALSE
         /\ Attached(p)' => (IsReady(p)' <=> slots'[playerOf'[p]].ready)
         /\ Attached(p)' => (IsLoaded(p)' <=> playerOf'[p] \in loadedMask')
         /\ IsReady(p) \in BOOLEAN /\ IsLoaded(p) \in BOOLEAN
         /\ IsReady(p)' \in BOOLEAN /\ IsLoaded(p)' \in BOOLEAN
  BY DEF IsReady, IsLoaded


\* The messages of the stream are the messages of the flow.
LEMMA StreamMessages ==
  ASSUME NEW p \in Peers
  PROVE  /\ Stream(p)!LobbyStateMsg = LobbyStateMsg
         /\ \A type, m : Stream(p)!Msg(type, m) = FlowMsg(type, m)
  BY DEF Stream!LobbyStateMsg, Stream!Msg, LobbyStateMsg, FlowMsg

StreamStep(p) == [Stream(p)!StreamNext]_(Stream(p)!streamVars)

\* A client the server can send to before and after the step, on one seat.
Stays(p) == Attached(p) /\ Attached(p)' /\ playerOf'[p] = playerOf[p]

\* A connection with no seat sees matches go by.
LEMMA StreamAway ==
  ASSUME TypeOK, NEW p \in Peers, ~Attached(p), ~Attached(p)',
         nextMatchId' \in {nextMatchId, nextMatchId + 1}
  PROVE  StreamStep(p)
  <1>1. nextMatchId \in Nat
    BY DEF TypeOK
  <1>2. /\ StageFor(p) = "away" /\ StageFor(p)' = "away"
        /\ IsReady(p) = FALSE /\ IsReady(p)' = FALSE
        /\ IsLoaded(p) = FALSE /\ IsLoaded(p)' = FALSE
    BY StreamStage, StreamStageNext, StreamFlags
  <1>3. CASE nextMatchId' = nextMatchId
    BY <1>2, <1>3 DEF StreamStep, Stream!streamVars
  <1>4. CASE nextMatchId' = nextMatchId + 1
    <2>1. UNCHANGED <<StageFor(p), IsReady(p), IsLoaded(p),
                      IF Attached(p) THEN lastFlow[p] ELSE <<>>>>
      BY <1>2
    <2>2. (nextMatchId - 1)' = nextMatchId - 1 + 1
      BY <1>1, <1>4
    <2>3. Stream(p)!IssueElsewhere
      BY <1>2, <2>1, <2>2 DEF Stream!IssueElsewhere
    <2>. QED BY <2>3 DEF StreamStep, Stream!StreamNext
  <1>. QED BY <1>3, <1>4

\* A connection that goes away.
LEMMA StreamLeave ==
  ASSUME TypeOK, NEW p \in Peers, Attached(p), ~Attached(p)', nextMatchId' = nextMatchId
  PROVE  StreamStep(p)
  <1>1. StageFor(p) # "away"
    BY StreamStage DEF TypeOK, Phases
  <1>2. Stream(p)!Leave
    BY <1>1, StreamStageNext, StreamFlags DEF Stream!Leave
  <1>. QED BY <1>2 DEF StreamStep, Stream!StreamNext

\* A connection that takes a seat.
LEMMA StreamJoin ==
  ASSUME NEW p \in Peers, ~Attached(p), Attached(p)', nextMatchId' = nextMatchId,
         InLobby', ~slots'[playerOf'[p]].ready, loadedMask' = {},
         lastFlow'[p] = <<LobbyStateMsg>>
  PROVE  StreamStep(p)
  <1>1. /\ StageFor(p) = "away" /\ StageFor(p)' = "lobby"
        /\ IsReady(p)' = FALSE /\ IsLoaded(p)' = FALSE
    BY StreamStage, StreamStageNext, StreamFlags DEF InLobby
  <1>2. Stream(p)!Join
    BY <1>1, StreamMessages DEF Stream!Join
  <1>. QED BY <1>2 DEF StreamStep, Stream!StreamNext

\* A step that tells the client nothing.
LEMMA StreamQuiet ==
  ASSUME TypeOK, NEW p \in Peers, Stays(p), UNCHANGED <<phase, nextMatchId>>,
         slots'[playerOf[p]].ready <=> slots[playerOf[p]].ready,
         playerOf[p] \in loadedMask' <=> playerOf[p] \in loadedMask,
         lastFlow'[p] = lastFlow[p]
  PROVE  StreamStep(p)
  <1>1. StageFor(p)' = StageFor(p)
    BY StreamStage, StreamStageNext DEF Stays, TypeOK, Phases
  <1>2. IsReady(p)' = IsReady(p) /\ IsLoaded(p)' = IsLoaded(p)
    BY StreamFlags DEF Stays
  <1>. QED BY <1>1, <1>2 DEF StreamStep, Stays, Stream!streamVars

\* The lobby broadcast again.
LEMMA StreamRefresh ==
  ASSUME NEW p \in Peers, Stays(p), InLobby, InLobby', UNCHANGED nextMatchId,
         \/ slots'[playerOf[p]].ready <=> slots[playerOf[p]].ready
         \/ ~slots'[playerOf[p]].ready,
         loadedMask = {}, loadedMask' = {}, lastFlow'[p] = <<LobbyStateMsg>>
  PROVE  StreamStep(p)
  <1>1. StageFor(p) = "lobby" /\ StageFor(p)' = "lobby"
    BY StreamStage, StreamStageNext DEF Stays, InLobby
  <1>2. IsReady(p)' \in {IsReady(p), FALSE} /\ IsLoaded(p)' = IsLoaded(p)
    BY StreamFlags DEF Stays
  <1>3. Stream(p)!Refresh
    BY <1>1, <1>2, StreamMessages DEF Stream!Refresh, Stays
  <1>. QED BY <1>3 DEF StreamStep, Stream!StreamNext

\* The client's own ready flag.
LEMMA StreamSetReady ==
  ASSUME NEW p \in Peers, Stays(p), InLobby, InLobby', UNCHANGED nextMatchId,
         NEW desired \in BOOLEAN, slots'[playerOf[p]].ready <=> desired,
         ~(slots[playerOf[p]].ready <=> desired),
         loadedMask = {}, loadedMask' = {}, lastFlow'[p] = <<LobbyStateMsg>>
  PROVE  StreamStep(p)
  <1>1. StageFor(p) = "lobby" /\ StageFor(p)' = "lobby"
    BY StreamStage, StreamStageNext DEF Stays, InLobby
  <1>2. IsReady(p)' = desired /\ IsReady(p) # desired /\ IsLoaded(p)' = IsLoaded(p)
    BY StreamFlags DEF Stays
  <1>3. Stream(p)!SetReady(desired)
    BY <1>1, <1>2, StreamMessages DEF Stream!SetReady, Stays
  <1>. QED BY <1>3 DEF StreamStep, Stream!StreamNext

\* Taken into a match, for good or in vain.
LEMMA StreamForm ==
  ASSUME TypeOK, NEW p \in Peers, Stays(p), InLobby, nextMatchId' = nextMatchId + 1,
         slots[playerOf[p]].ready, ~slots'[playerOf[p]].ready,
         loadedMask = {}, loadedMask' = {},
         \/ /\ phase' = "StartingMatch"
            /\ lastFlow'[p] = <<FlowMsg("LevelInfo", nextMatchId)>>
         \/ /\ phase' = "Lobby"
            /\ lastFlow'[p] = <<FlowMsg("LevelInfo", nextMatchId),
                                FlowMsg("MatchCancelled", nextMatchId), LobbyStateMsg>>
  PROVE  StreamStep(p)
  <1>1. nextMatchId \in Nat
    BY DEF TypeOK
  <1>2. /\ StageFor(p) = "lobby"
        /\ IsReady(p) = TRUE /\ IsReady(p)' = FALSE
        /\ IsLoaded(p) = FALSE /\ IsLoaded(p)' = FALSE
    BY StreamStage, StreamFlags DEF Stays, InLobby
  <1>3. CASE /\ phase' = "StartingMatch"
             /\ lastFlow'[p] = <<FlowMsg("LevelInfo", nextMatchId)>>
    <2>1. StageFor(p)' = "loading"
      BY <1>3, StreamStageNext DEF Stays
    <2>2. Stream(p)!Form
      BY <1>1, <1>2, <1>3, <2>1, StreamMessages DEF Stream!Form, Stays
    <2>. QED BY <2>2 DEF StreamStep, Stream!StreamNext
  <1>4. CASE /\ phase' = "Lobby"
             /\ lastFlow'[p] = <<FlowMsg("LevelInfo", nextMatchId),
                                 FlowMsg("MatchCancelled", nextMatchId), LobbyStateMsg>>
    <2>1. StageFor(p)' = "lobby"
      BY <1>4, StreamStageNext DEF Stays
    <2>2. lastFlow'[p] = <<Stream(p)!Msg("LevelInfo", nextMatchId),
                           Stream(p)!Msg("MatchCancelled", nextMatchId),
                           Stream(p)!LobbyStateMsg>>
      BY <1>4, StreamMessages, Zenon
    <2>3. nextMatchId - 1 + 1 = nextMatchId
      BY <1>1
    <2>4. UNCHANGED <<StageFor(p), IsLoaded(p)>>
      BY <1>2, <2>1
    <2>5. Stream(p)!FormInVain
      BY <1>1, <1>2, <2>2, <2>3, <2>4 DEF Stream!FormInVain, Stays
    <2>. QED BY <2>5 DEF StreamStep, Stream!StreamNext
  <1>. QED BY <1>3, <1>4


\* Counted as loaded while others are missing.
LEMMA StreamCount ==
  ASSUME NEW p \in Peers, Stays(p), phase = "StartingMatch",
         UNCHANGED <<phase, nextMatchId, slots>>,
         playerOf[p] \notin loadedMask, playerOf[p] \in loadedMask', lastFlow'[p] = lastFlow[p]
  PROVE  StreamStep(p)
  <1>1. StageFor(p) = "loading" /\ StageFor(p)' = "loading"
    BY StreamStage, StreamStageNext DEF Stays
  <1>2. IsReady(p)' = IsReady(p) /\ IsLoaded(p) = FALSE /\ IsLoaded(p)' = TRUE
    BY StreamFlags DEF Stays
  <1>3. UNCHANGED <<StageFor(p), nextMatchId - 1, IsReady(p),
                    IF Attached(p) THEN lastFlow[p] ELSE <<>>>>
    BY <1>1, <1>2 DEF Stays
  <1>4. Stream(p)!CountLoaded
    BY <1>1, <1>2, <1>3 DEF Stream!CountLoaded
  <1>. QED BY <1>4 DEF StreamStep, Stream!StreamNext

\* The match starts for everybody in it.
LEMMA StreamStart ==
  ASSUME NEW p \in Peers, Stays(p), phase = "StartingMatch", phase' = "InMatch",
         UNCHANGED <<nextMatchId, slots>>, playerOf[p] \in loadedMask',
         lastFlow'[p] = <<FlowMsg("MatchStart", nextMatchId - 1)>>
  PROVE  StreamStep(p)
  <1>1. StageFor(p) = "loading" /\ StageFor(p)' = "playing"
    BY StreamStage, StreamStageNext DEF Stays
  <1>2. IsReady(p)' = IsReady(p) /\ IsLoaded(p)' = TRUE
    BY StreamFlags DEF Stays
  <1>3. UNCHANGED <<nextMatchId - 1, IsReady(p)>>
    BY <1>2
  <1>4. Stream(p)!Start
    BY <1>1, <1>2, <1>3, StreamMessages DEF Stream!Start, Stays
  <1>. QED BY <1>4 DEF StreamStep, Stream!StreamNext

\* The client is told of a verdict.
LEMMA StreamEnd ==
  ASSUME NEW p \in Peers, Stays(p), phase = "InMatch", phase' = "EndOfMatch",
         UNCHANGED nextMatchId,
         slots'[playerOf[p]].ready <=> slots[playerOf[p]].ready,
         playerOf[p] \in loadedMask' <=> playerOf[p] \in loadedMask,
         lastFlow'[p] = <<FlowMsg("MatchResult", nextMatchId - 1)>>
  PROVE  StreamStep(p)
  <1>1. StageFor(p) = "playing" /\ StageFor(p)' = "over"
    BY StreamStage, StreamStageNext DEF Stays
  <1>2. IsReady(p)' = IsReady(p) /\ IsLoaded(p)' = IsLoaded(p)
    BY StreamFlags DEF Stays
  <1>3. UNCHANGED <<nextMatchId - 1, IsReady(p), IsLoaded(p)>>
    BY <1>2
  <1>4. Stream(p)!End
    BY <1>1, <1>3, StreamMessages DEF Stream!End, Stays
  <1>. QED BY <1>4 DEF StreamStep, Stream!StreamNext

\* Every way back to the lobby says so.
LEMMA StreamBack ==
  ASSUME NEW p \in Peers, Stays(p), phase' = "Lobby", UNCHANGED nextMatchId,
         ~slots'[playerOf[p]].ready, loadedMask' = {},
         NEW told \in {<<>>, <<FlowMsg("MatchCancelled", nextMatchId - 1)>>,
                       <<FlowMsg("MatchStart", nextMatchId - 1),
                         FlowMsg("MatchCancelled", nextMatchId - 1)>>},
         lastFlow'[p] = Append(told, LobbyStateMsg),
         IF told = <<>> THEN phase = "EndOfMatch" ELSE phase = "StartingMatch"
  PROVE  StreamStep(p)
  <1>1. StageFor(p)' = "lobby" /\ IsReady(p)' = FALSE /\ IsLoaded(p)' = FALSE
    BY StreamStageNext, StreamFlags DEF Stays
  <1>2. lastFlow'[p] = Append(told, Stream(p)!LobbyStateMsg)
    BY StreamMessages
  <1>3. Stream(p)!BackToLobby(told)
    BY <1>1, <1>2 DEF Stream!BackToLobby, Stays
  <1>4. CASE phase = "EndOfMatch"
    <2>1. StageFor(p) = "over"
      BY <1>4, StreamStage DEF Stays
    <2>2. told = <<>>
      BY <1>4
    <2>3. Stream(p)!Return
      BY <1>3, <2>1, <2>2 DEF Stream!Return
    <2>. QED BY <2>3 DEF StreamStep, Stream!StreamNext
  <1>5. CASE phase = "StartingMatch"
    <2>1. StageFor(p) = "loading"
      BY <1>5, StreamStage DEF Stays
    <2>2. \/ told = <<Stream(p)!Msg("MatchCancelled", nextMatchId - 1)>>
          \/ told = <<Stream(p)!Msg("MatchStart", nextMatchId - 1),
                      Stream(p)!Msg("MatchCancelled", nextMatchId - 1)>>
      <3>1. told # <<>>
        BY <1>5
      <3>. QED BY <3>1, StreamMessages, Zenon
    <2>3. Stream(p)!Cancel \/ Stream(p)!StartInVain
      BY <1>3, <2>1, <2>2, Zenon DEF Stream!Cancel, Stream!StartInVain
    <2>. QED BY <2>3 DEF StreamStep, Stream!StreamNext
  <1>. QED BY <1>4, <1>5


\* A step that leaves a connection where it was concerns it only if attached.
LEMMA StreamSame ==
  ASSUME TypeOK, NEW p \in Peers, link'[p] = link[p], playerOf'[p] = playerOf[p],
         nextMatchId' \in {nextMatchId, nextMatchId + 1},
         Stays(p) => StreamStep(p)
  PROVE  StreamStep(p)
  BY StreamAway DEF Stays, Attached

\* A step of somebody's connection that the round does not notice.
LEMMA StreamIdle ==
  ASSUME TypeOK, NEW p \in Peers, UNCHANGED <<playerOf, slots, phase, nextMatchId, loadedMask>>,
         lastFlow'[p] = lastFlow[p],
         \/ link'[p] = link[p]
         \/ link'[p] # "open"
         \/ playerOf[p] = NoPlayer
  PROVE  StreamStep(p)
  <1>1. CASE Attached(p) /\ Attached(p)'
    BY <1>1, StreamQuiet DEF Stays
  <1>2. CASE Attached(p) /\ ~Attached(p)'
    BY <1>2, StreamLeave
  <1>3. CASE ~Attached(p)
    <2>1. ~Attached(p)'
      BY <1>3 DEF Attached
    <2>. QED BY <1>3, <2>1, StreamAway
  <1>. QED BY <1>1, <1>2, <1>3

\* Everybody taking part in a round is in each of its sets.
LEMMA StaysInRound ==
  ASSUME TypeOK, RoundInv, NEW p \in Peers, Stays(p)
  PROVE  /\ playerOf[p] \in PlayerIds /\ playerOf'[p] = playerOf[p]
         /\ phase \in RoundPhases => playerOf[p] \in playerMask
         /\ phase = "LobbyCountdown" => playerOf[p] \in countdownMask /\ slots[playerOf[p]].ready
         /\ InLobby => loadedMask = {}
         /\ phase \in RoundPhases => matchId = nextMatchId - 1 /\ matchId \in Nat
  BY AttachedSeat
  DEF Stays, RoundInv, RoundMembership, CountdownIsCurrent, NoRoundResidue, InLobby, TypeOK

\* Others see a disconnect as a lobby update, a cancellation, a verdict or not.
LEMMA DisconnectStream ==
  ASSUME TypeOK, TypeOK', SeatOwnership, RoundInv, RoundInv', NEW q \in Peers,
         DisconnectAccepted(q), NEW p \in Peers
  PROVE  StreamStep(p)
  <1> DEFINE left == playerOf[q]
  <1>1. /\ link[q] = "closing" /\ left # NoPlayer
        /\ link' = [link EXCEPT ![q] = "free"]
        /\ playerOf' = [playerOf EXCEPT ![q] = NoPlayer]
        /\ link \in [Peers -> LinkStates]
        /\ playerOf \in [Peers -> PlayerIds \cup {NoPlayer}]
    BY DEF DisconnectAccepted, ReleasePeerSession, TypeOK, SessionTypeOK
  <1>2. nextMatchId' = nextMatchId
    BY Zenon DEF DisconnectAccepted, HandleAcceptedPlayerReleased, ReleasedInLobby,
                 ReleasedWhileStarting, ReleasedLastOfRound, ReleasedFromRound
  <1>3. CASE p = q
    <2>1. ~Attached(p) /\ ~Attached(p)'
      BY <1>1, <1>3 DEF Attached
    <2>. QED BY <1>2, <2>1, StreamAway
  <1>4. CASE p # q
    <2>1. link'[p] = link[p] /\ playerOf'[p] = playerOf[p]
      BY <1>1, <1>4
    <2>2. ASSUME Stays(p) PROVE StreamStep(p)
      <3> DEFINE id == playerOf[p]
      <3>1. id \in PlayerIds /\ id # left /\ Attached(p)'
        BY <1>1, <1>4, <2>2, StaysInRound DEF SeatOwnership, Stays
      <3>2. SeatLeft(left) \in SlotsType /\ slots \in SlotsType
        BY ReleaseType
        DEF DisconnectAccepted, HandleAcceptedPlayerReleased, TypeOK, SessionTypeOK, SlotsType
      <3>3. SeatLeft(left)[id] = slots[id] /\ AllUnready(SeatLeft(left))[id].ready = FALSE
        BY <3>1, <3>2, Unreadied DEF SeatLeft, SlotsType
      <3> HIDE DEF id, left
      <3>4. CASE ReleasedInLobby(left)
        <4>1. /\ InLobby /\ InLobby' /\ slots' = AllUnready(SeatLeft(left))
              /\ BroadcastLobbyState
          BY <3>4 DEF ReleasedInLobby, ResetLobbyParticipantsToUnready, LobbyWithoutCountdown,
                      InLobby
        <4>2. loadedMask = {} /\ loadedMask' = {}
          BY <3>4, <4>1 DEF ReleasedInLobby, RoundInv, NoRoundResidue, InLobby
        <4>3. lastFlow'[p] = <<LobbyStateMsg>>
          BY <3>1, <4>1, LobbyStateReaches
        <4>. QED BY <1>2, <2>2, <3>3, <4>1, <4>2, <4>3, StreamRefresh DEF id
      <3>5. CASE ReleasedWhileStarting(left)
        <4>1. /\ phase = "StartingMatch" /\ phase' = "Lobby" /\ loadedMask' = {}
              /\ slots' = AllUnready(SeatLeft(left))
              /\ CancelStartingMatch(matchId, To({}, <<>>), playerMask \ {left}, SeatLeft(left))
          BY <3>5 DEF ReleasedWhileStarting, CancelStartingMatch, ResetRoundRuntimeToLobby
        <4>2. /\ matchId = nextMatchId - 1 /\ matchId \in Nat
              /\ id \in playerMask \ {left} /\ playerOf'[p] = id
          BY <2>2, <3>1, <4>1, StaysInRound DEF RoundPhases, id
        <4>3. lastFlow'[p] = Append(<<FlowMsg("MatchCancelled", matchId)>>, LobbyStateMsg)
          BY <3>1, <4>1, <4>2, PlainCancelReaches
        <4>4. ~slots'[id].ready
          BY <3>3, <4>1
        <4>. QED BY <1>2, <2>2, <4>1, <4>2, <4>3, <4>4, StreamBack DEF id
      <3>6. CASE ReleasedLastOfRound(left)
        <4>1. id \in playerMask
          BY <2>2, <3>6, StaysInRound DEF ReleasedLastOfRound, RoundPhases, id
        <4>. QED BY <3>1, <3>6, <4>1 DEF ReleasedLastOfRound
      <3>7. CASE ReleasedFromRound(left)
        <4>1. /\ loadedMask' = loadedMask \ {left} /\ playerMask' = playerMask \ {left}
              /\ phase \in {"InMatch", "EndOfMatch"}
          BY <3>7 DEF ReleasedFromRound
        <4>2. CASE /\ phase = "InMatch"
                   /\ BeginEndOfMatch(inMatch \ {left}, alive \ {left}, SeatLeft(left), timer)
          <5>1. /\ phase' = "EndOfMatch"
                /\ lastFlow' = Queued(To(playerMask', <<FlowMsg("MatchResult", matchId)>>))
            BY <4>2 DEF BeginEndOfMatch
          <5>2. /\ matchId = nextMatchId - 1
                /\ id \in playerMask' /\ playerOf'[p] = id
            BY <2>2, <3>1, <4>1, StaysInRound DEF RoundPhases, id
          <5>3. lastFlow'[p] = <<FlowMsg("MatchResult", nextMatchId - 1)>>
            BY <3>1, <5>1, <5>2, AnnouncementReaches
          <5>4. slots'[id].ready = slots[id].ready
            BY <3>1, <3>2, <3>3, <4>2, VerdictKeepsReady
          <5>. QED BY <1>2, <2>2, <3>1, <4>1, <4>2, <5>1, <5>3, <5>4, StreamEnd DEF id
        <4>3. CASE /\ slots' = SeatLeft(left) /\ lastFlow' = Queued(To({}, <<>>))
                   /\ UNCHANGED phase
          <5>1. lastFlow'[p] = lastFlow[p]
            BY <3>1, <4>3, SilenceReaches
          <5>. QED BY <1>2, <2>2, <3>1, <3>3, <4>1, <4>3, <5>1, StreamQuiet DEF id
        <4>. QED BY <3>7, <4>2, <4>3, Zenon DEF ReleasedFromRound
      <3>. QED BY <3>4, <3>5, <3>6, <3>7
        DEF DisconnectAccepted, HandleAcceptedPlayerReleased, left
    <2>. QED BY <1>2, <2>1, <2>2, StreamSame
  <1>. QED BY <1>3, <1>4


\* An accepted Hello is a join for its sender and a lobby update for the others.
LEMMA AcceptStream ==
  ASSUME TypeOK, TypeOK', SeatOwnership, RoundInv, RoundInv', NEW q \in Peers,
         NEW name \in Names, NEW taken \in freeIds, LobbyAccept(q, name, taken),
         link[q] = "open", playerOf[q] = NoPlayer, phase \notin RoundPhases, NEW p \in Peers
  PROVE  StreamStep(p)
  <1> DEFINE seats == SeatTaken(taken, name, CarriedWins(name, taken))
  <1>1. InLobby
    BY DEF InLobby, TypeOK, Phases, RoundPhases
  <1>2. /\ InLobby' /\ slots' = AllUnready(seats) /\ BroadcastLobbyState
        /\ UNCHANGED <<link, nextMatchId, loadedMask>>
        /\ playerOf' = [playerOf EXCEPT ![q] = taken]
    BY DEF LobbyAccept, AcceptPeerSession, ResetLobbyParticipantsToUnready,
           LobbyWithoutCountdown, InLobby
  <1>3. loadedMask = {}
    BY <1>1 DEF InLobby, RoundInv, NoRoundResidue
  <1>4. playerOf \in [Peers -> PlayerIds \cup {NoPlayer}] /\ taken \in PlayerIds
    BY DEF TypeOK, SessionTypeOK
  <1>5. \A id \in PlayerIds : slots'[id].ready = FALSE
    <2>1. CarriedWins(name, taken) \in WinCounts
      <3>1. reclaims[taken].wins \in WinCounts
        BY <1>4 DEF TypeOK, SessionTypeOK
      <3>2. 0 \in WinCounts
        BY WinsAssumption DEF WinCounts
      <3>. QED BY <3>1, <3>2, Zenon DEF CarriedWins
    <2>2. slots \in SlotsType
      BY DEF TypeOK, SessionTypeOK, SlotsType
    <2>3. seats \in SlotsType
      BY <1>4, <2>1, <2>2 DEF SeatTaken, SlotsType
    <2>. HIDE DEF seats
    <2>. QED BY <1>2, <2>3, Unreadied
  <1>6. CASE p = q
    <2>1. ~Attached(p) /\ Attached(p)' /\ playerOf'[p] = taken
      BY <1>2, <1>4, <1>6, SomePlayer DEF Attached
    <2>2. lastFlow'[p] = <<LobbyStateMsg>>
      BY <1>2, <2>1, LobbyStateReaches
    <2>. QED BY <1>2, <1>3, <1>4, <1>5, <2>1, <2>2, StreamJoin
  <1>7. CASE p # q
    <2>1. link'[p] = link[p] /\ playerOf'[p] = playerOf[p]
      BY <1>2, <1>4, <1>7
    <2>2. ASSUME Stays(p) PROVE StreamStep(p)
      <3>1. lastFlow'[p] = <<LobbyStateMsg>>
        BY <1>2, <2>2, LobbyStateReaches DEF Stays
      <3>2. ~slots'[playerOf[p]].ready
        BY <1>5, <2>2, StaysInRound
      <3>. QED BY <1>1, <1>2, <1>3, <2>2, <3>1, <3>2, StreamRefresh
    <2>. QED BY <1>2, <2>1, <2>2, StreamSame
  <1>. QED BY <1>6, <1>7

\* A ready flag is its owner's step and a lobby update for the others.
LEMMA LobbyReadyStream ==
  ASSUME TypeOK, TypeOK', SeatOwnership, RoundInv, RoundInv', NEW q \in Peers,
         NEW desired \in BOOLEAN, LobbyReady(q, desired), NEW p \in Peers
  PROVE  StreamStep(p)
  <1> DEFINE seats == [slots EXCEPT ![playerOf[q]].ready = desired]
  <1>1. /\ InLobby /\ UNCHANGED <<link, playerOf, nextMatchId, loadedMask>>
        /\ slots[playerOf[q]].ready # desired /\ playerOf[q] # NoPlayer
    BY DEF LobbyReady, HandleLobbyReadyStateChanged, InLobby
  <1>2. BroadcastLobbyState /\ slots' = seats /\ InLobby'
    BY <1>1, Zenon
      DEF LobbyReady, HandleLobbyReadyStateChanged, CancelLobbyCountdown,
          LobbyWithoutCountdown, StartLobbyCountdown, InLobby
  <1>3. loadedMask = {}
    BY <1>1 DEF InLobby, RoundInv, NoRoundResidue
  <1>4. slots \in SlotsType /\ playerOf \in [Peers -> PlayerIds \cup {NoPlayer}]
    BY DEF TypeOK, SessionTypeOK, SlotsType
  <1>5. ASSUME Stays(p) PROVE StreamStep(p)
    <2>1. lastFlow'[p] = <<LobbyStateMsg>>
      BY <1>2, <1>5, LobbyStateReaches DEF Stays
    <2>2. CASE p = q
      <3>1. slots'[playerOf[p]].ready = desired
        BY <1>1, <1>2, <1>4, <2>2 DEF SlotsType
      <3>2. slots[playerOf[p]].ready \in BOOLEAN
        BY <1>1, <1>4, <2>2 DEF SlotsType
      <3>3. ~(slots[playerOf[p]].ready <=> desired)
        BY <1>1, <2>2, <3>2
      <3>. QED BY <1>1, <1>2, <1>3, <1>5, <2>1, <3>1, <3>3, StreamSetReady
    <2>3. CASE p # q
      <3>1. playerOf[p] \in PlayerIds /\ playerOf[p] # playerOf[q]
        BY <1>5, <2>3, StaysInRound, SomePlayer DEF SeatOwnership
      <3>2. slots'[playerOf[p]] = slots[playerOf[p]]
        BY <1>2, <1>4, <3>1 DEF SlotsType
      <3>. QED BY <1>1, <1>2, <1>3, <1>5, <2>1, <3>2, StreamRefresh
    <2>. QED BY <2>2, <2>3
  <1>. QED BY <1>1, <1>5, StreamSame

\* An acknowledgement counts for its sender, and the last one starts the match
\* for all or cancels it.
LEMMA MatchLoadedStream ==
  ASSUME TypeOK, TypeOK', SeatOwnership, RoundInv, RoundInv', NEW q \in Peers, NEW m,
         MatchLoaded(q, m), NEW p \in Peers
  PROVE  StreamStep(p)
  <1>1. /\ phase = "StartingMatch" /\ UNCHANGED <<link, playerOf, nextMatchId>>
        /\ playerOf[q] \notin loadedMask
    BY DEF MatchLoaded, MarkPlayerLoadedForCurrentMatch, Acknowledges
  <1>2. ASSUME Stays(p) PROVE StreamStep(p)
    <2> DEFINE id == playerOf[p]
    <2>1. /\ id \in PlayerIds /\ playerOf'[p] = id /\ id \in playerMask /\ Attached(p)'
          /\ matchId = nextMatchId - 1 /\ matchId \in Nat
      BY <1>1, <1>2, StaysInRound DEF RoundPhases, Stays
    <2>2. CASE CancelStartingMatch(matchId,
                 To(playerMask, <<FlowMsg("MatchStart", matchId)>>), playerMask, slots)
      <3> DEFINE start == FlowMsg("MatchStart", matchId)
                 cancelled == FlowMsg("MatchCancelled", matchId)
      <3>1. phase' = "Lobby" /\ loadedMask' = {} /\ slots' = AllUnready(slots)
        BY <2>2 DEF CancelStartingMatch, ResetRoundRuntimeToLobby
      <3>2. ~slots'[id].ready
        BY <2>1, <3>1, Unreadied DEF TypeOK, SessionTypeOK, SlotsType
      <3>3. <<start>> \in Seq(FlowMsgs)
        BY <2>1, MsgType
      <3> HIDE DEF id
      <3>4. lastFlow'[p] = Append(Append(<<start>>, cancelled), LobbyStateMsg)
        <4>1. playerOf'[p] \in playerMask /\ Attached(p)' /\ matchId \in Nat
          BY <2>1
        <4>2. <<FlowMsg("MatchStart", matchId)>> \in Seq(FlowMsgs)
          BY <3>3
        <4>. QED BY <2>2, <4>1, <4>2, CancelReaches, Zenon
      <3>5. Append(<<start>>, cancelled) = <<start, cancelled>>
        BY AppendToOne
      <3>6. lastFlow'[p] = Append(<<start, cancelled>>, LobbyStateMsg)
        BY <3>4, <3>5
      <3>7. <<start, cancelled>> # <<>>
        OBVIOUS
      <3>. QED BY <1>1, <1>2, <2>1, <3>1, <3>2, <3>6, <3>7, StreamBack
    <2>3. CASE /\ phase' = "InMatch" /\ loadedMask' = playerMask /\ UNCHANGED slots
               /\ lastFlow' = Queued(To(playerMask, <<FlowMsg("MatchStart", matchId)>>))
      <3>1. lastFlow'[p] = <<FlowMsg("MatchStart", nextMatchId - 1)>>
        BY <2>1, <2>3, AnnouncementReaches
      <3>. QED BY <1>1, <1>2, <2>1, <2>3, <3>1, StreamStart
    <2>4. CASE /\ loadedMask' = loadedMask \cup {playerOf[q]}
               /\ UNCHANGED <<slots, phase, wireVars>>
      <3>1. lastFlow'[p] = lastFlow[p]
        BY <2>4 DEF wireVars
      <3>2. CASE id = playerOf[q]
        BY <1>1, <1>2, <2>1, <2>4, <3>1, <3>2, StreamCount
      <3>3. CASE id # playerOf[q]
        BY <1>1, <1>2, <2>1, <2>4, <3>1, <3>3, StreamQuiet
      <3>. QED BY <3>2, <3>3
    <2>. QED BY <2>2, <2>3, <2>4, Zenon
      DEF MatchLoaded, MarkPlayerLoadedForCurrentMatch, CommitMatchStart
  <1>. QED BY <1>1, <1>2, StreamSame


\* A bootstrap takes every client that is still there along, or none.
LEMMA BootstrapStream ==
  ASSUME TypeOK, TypeOK', RoundInv, RoundInv', phase = "LobbyCountdown",
         UNCHANGED <<link, playerOf>>, BeginMatchBootstrap, NEW p \in Peers, Stays(p)
  PROVE  StreamStep(p)
  <1> DEFINE id == playerOf[p]
             reached == {i \in countdownMask : Queues(i)}
             info == FlowMsg("LevelInfo", nextMatchId)
             cancelled == FlowMsg("MatchCancelled", nextMatchId)
  <1>1. /\ id \in PlayerIds /\ id \in countdownMask /\ slots[id].ready
        /\ loadedMask = {} /\ InLobby
    BY StaysInRound DEF InLobby
  <1>2. Attached(p)' /\ playerOf'[p] = id /\ Queues(id)
    BY DEF Stays, Attached, Queues
  <1>3. nextMatchId \in Nat /\ slots \in SlotsType
    BY DEF TypeOK, SessionTypeOK, SlotsType
  <1>4. id \in reached
    BY <1>1, <1>2
  <1>5. AllUnready(slots)[id].ready = FALSE
    BY <1>1, <1>3, Unreadied
  <1> HIDE DEF id, reached
  <1>6. CASE CancelLobbyCountdown(slots) /\ UNCHANGED <<nextMatchId, loadedMask>>
    <2>1. InLobby' /\ slots' = slots /\ BroadcastLobbyState
      BY <1>6 DEF CancelLobbyCountdown, LobbyWithoutCountdown, InLobby
    <2>2. lastFlow'[p] = <<LobbyStateMsg>>
      BY <1>2, <2>1, LobbyStateReaches
    <2>. QED BY <1>1, <1>6, <2>1, <2>2, StreamRefresh
  <1>7. CASE /\ nextMatchId' = nextMatchId + 1
             /\ CancelStartingMatch(nextMatchId, To(reached, <<info>>), reached, slots)
    <2>1. phase' = "Lobby" /\ loadedMask' = {} /\ slots' = AllUnready(slots)
      BY <1>7 DEF CancelStartingMatch, ResetRoundRuntimeToLobby
    <2>2. lastFlow'[p] = Append(Append(<<info>>, cancelled), LobbyStateMsg)
      <3>1. <<info>> \in Seq(FlowMsgs)
        BY <1>3, MsgType
      <3>2. playerOf'[p] \in reached /\ Attached(p)' /\ nextMatchId \in Nat
        BY <1>2, <1>3, <1>4
      <3>3. CancelStartingMatch(nextMatchId, To(reached, <<info>>), reached, slots)
        BY <1>7
      <3>. HIDE DEF info, cancelled
      <3>4. \A m \in Nat, msgs \in Seq(FlowMsgs) :
              CancelStartingMatch(m, To(reached, msgs), reached, slots) =>
                lastFlow'[p] = Append(Append(msgs, FlowMsg("MatchCancelled", m)), LobbyStateMsg)
        BY <3>2, CancelReaches
      <3>. QED BY <3>1, <3>2, <3>3, <3>4 DEF cancelled
    <2>3. lastFlow'[p] = <<info, cancelled, LobbyStateMsg>>
      <3>1. Append(<<info>>, cancelled) = <<info, cancelled>>
        BY AppendToOne
      <3>2. Append(<<info, cancelled>>, LobbyStateMsg) = <<info, cancelled, LobbyStateMsg>>
        BY AppendToTwo
      <3>. QED BY <2>2, <3>1, <3>2
    <2>. QED BY <1>1, <1>5, <1>7, <2>1, <2>3, StreamForm DEF id
  <1>8. CASE /\ nextMatchId' = nextMatchId + 1
             /\ phase' = "StartingMatch" /\ loadedMask' = {} /\ slots' = AllUnready(slots)
             /\ lastFlow' = Queued(To(reached, <<info>>))
    <2>1. lastFlow'[p] = <<info>>
      BY <1>2, <1>4, <1>8, AnnouncementReaches
    <2>. QED BY <1>1, <1>5, <1>8, <2>1, StreamForm DEF id
  <1>. QED BY <1>6, <1>7, <1>8, Zenon DEF BeginMatchBootstrap, reached

\* A tick of the countdown.
LEMMA CountdownTickStream ==
  ASSUME TypeOK, TypeOK', RoundInv, RoundInv', CountdownTick, NEW p \in Peers
  PROVE  StreamStep(p)
  <1>1. phase = "LobbyCountdown" /\ UNCHANGED <<link, playerOf>>
    BY DEF CountdownTick
  <1>2. CASE BeginMatchBootstrap
    <2>1. nextMatchId' \in {nextMatchId, nextMatchId + 1}
      BY <1>2, Zenon DEF BeginMatchBootstrap
    <2>. QED BY <1>1, <1>2, <2>1, BootstrapStream, StreamSame
  <1>3. CASE /\ UNCHANGED <<slots, phase, nextMatchId, loadedMask>>
             /\ BroadcastLobbyState \/ UNCHANGED wireVars
    <2>1. ASSUME Stays(p) PROVE StreamStep(p)
      <3>1. CASE BroadcastLobbyState
        <4>1. lastFlow'[p] = <<LobbyStateMsg>>
          BY <2>1, <3>1, LobbyStateReaches DEF Stays
        <4>2. loadedMask = {} /\ InLobby /\ InLobby'
          BY <1>1, <1>3, <2>1, StaysInRound DEF InLobby
        <4>. QED BY <1>3, <2>1, <4>1, <4>2, StreamRefresh
      <3>2. CASE UNCHANGED wireVars
        BY <1>3, <2>1, <3>2, StreamQuiet DEF wireVars
      <3>. QED BY <1>3, <3>1, <3>2
    <2>. QED BY <1>1, <1>3, <2>1, StreamSame
  <1>. QED BY <1>2, <1>3, Zenon DEF CountdownTick

\* A tick of the bootstrap, the match or the end-of-match screen.
LEMMA OtherTicksStream ==
  ASSUME TypeOK, TypeOK', RoundInv, RoundInv', StartingTick \/ MatchTick \/ EndOfMatchTick,
         NEW p \in Peers
  PROVE  StreamStep(p)
  <1>1. UNCHANGED <<link, playerOf, nextMatchId>>
    BY DEF StartingTick, MatchTick, EndOfMatchTick
  <1>2. slots \in SlotsType
    BY DEF TypeOK, SessionTypeOK, SlotsType
  <1>3. ASSUME Stays(p) PROVE StreamStep(p)
    <2> DEFINE id == playerOf[p]
    <2>1. /\ id \in PlayerIds /\ playerOf'[p] = id /\ Attached(p)'
          /\ phase \in RoundPhases =>
               id \in playerMask /\ matchId = nextMatchId - 1 /\ matchId \in Nat
      BY <1>3, StaysInRound DEF Stays
    <2>2. AllUnready(slots)[id].ready = FALSE
      BY <1>2, <2>1, Unreadied
    <2> HIDE DEF id
    <2>3. CASE UNCHANGED <<slots, phase, loadedMask, wireVars>>
      BY <1>1, <1>3, <2>3, StreamQuiet DEF wireVars
    <2>4. CASE /\ phase = "StartingMatch"
               /\ CancelStartingMatch(matchId, To({}, <<>>), playerMask, slots)
      <3>1. phase' = "Lobby" /\ loadedMask' = {} /\ slots' = AllUnready(slots)
        BY <2>4 DEF CancelStartingMatch, ResetRoundRuntimeToLobby
      <3>2. id \in playerMask /\ matchId = nextMatchId - 1 /\ matchId \in Nat
        BY <2>1, <2>4 DEF RoundPhases
      <3>3. lastFlow'[p] = Append(<<FlowMsg("MatchCancelled", matchId)>>, LobbyStateMsg)
        BY <2>1, <2>4, <3>2, PlainCancelReaches
      <3>4. ~slots'[id].ready
        BY <2>2, <3>1
      <3>. QED BY <1>1, <1>3, <2>4, <3>1, <3>2, <3>3, <3>4, StreamBack DEF id
    <2>5. ASSUME NEW killed, NEW t, phase = "InMatch", UNCHANGED <<playerMask, loadedMask>>,
                 BeginEndOfMatch(inMatch, alive \ killed, slots, t)
          PROVE  StreamStep(p)
      <3>1. /\ phase' = "EndOfMatch"
            /\ lastFlow' = Queued(To(playerMask', <<FlowMsg("MatchResult", matchId)>>))
        BY <2>5 DEF BeginEndOfMatch
      <3>2. id \in playerMask' /\ matchId = nextMatchId - 1
        BY <2>1, <2>5 DEF RoundPhases
      <3>3. lastFlow'[p] = <<FlowMsg("MatchResult", nextMatchId - 1)>>
        BY <2>1, <3>1, <3>2, AnnouncementReaches
      <3>4. slots'[id].ready = slots[id].ready
        BY <1>2, <2>1, <2>5, VerdictKeepsReady
      <3>. QED BY <1>1, <1>3, <2>5, <3>1, <3>3, <3>4, StreamEnd DEF id
    <2>6. CASE phase = "EndOfMatch" /\ ResetRoundRuntimeToLobby(slots) /\ BroadcastLobbyState
      <3>1. phase' = "Lobby" /\ loadedMask' = {} /\ slots' = AllUnready(slots)
        BY <2>6 DEF ResetRoundRuntimeToLobby
      <3>2. lastFlow'[p] = Append(<<>>, LobbyStateMsg)
        BY <2>1, <2>6, LobbyStateReaches
      <3>3. ~slots'[id].ready
        BY <2>2, <3>1
      <3>. QED BY <1>1, <1>3, <2>6, <3>1, <3>2, <3>3, StreamBack DEF id
    <2>7. CASE StartingTick
      BY <2>3, <2>4, <2>7, Zenon DEF StartingTick
    <2>8. CASE MatchTick
      BY <2>3, <2>5, <2>8, Zenon DEF MatchTick
    <2>9. CASE EndOfMatchTick
      BY <2>3, <2>6, <2>9, Zenon DEF EndOfMatchTick
    <2>. QED BY <2>7, <2>8, <2>9
  <1>. QED BY <1>1, <1>3, StreamSame


\* Every step is a step of every stream or leaves it alone.
LEMMA NextStream ==
  ASSUME TypeOK, TypeOK', SeatOwnership, RoundInv, RoundInv', [Next]_vars, NEW p \in Peers
  PROVE  StreamStep(p)
  <1>1. CASE UNCHANGED vars
    BY <1>1, StreamIdle DEF vars, sessionVars, roundVars, wireVars
  <1>2. ASSUME NEW q \in Peers,
               \/ Connect(q)
               \/ PeerCloses(q)
               \/ DisconnectUnaccepted(q)
               \/ ClientLoads(q)
               \/ RejectHello(q)
        PROVE  StreamStep(p)
    <2>1. UNCHANGED <<slots, roundVars, wireVars>>
      BY <1>2 DEF Connect, PeerCloses, DisconnectUnaccepted, ClientLoads, RejectHello,
                  sessionVars
    <2>2. UNCHANGED playerOf
      BY <1>2 DEF Connect, PeerCloses, DisconnectUnaccepted, ClientLoads, RejectHello,
                  sessionVars, SeatOwnership, TypeOK, SessionTypeOK
    <2>3. \/ link'[p] = link[p]
          \/ link'[p] # "open"
          \/ playerOf[p] = NoPlayer
      BY <1>2 DEF Connect, PeerCloses, DisconnectUnaccepted, ClientLoads, RejectHello,
                  sessionVars, SeatOwnership, TypeOK, SessionTypeOK
    <2>. QED BY <2>1, <2>2, <2>3, StreamIdle DEF roundVars, wireVars
  <1>3. ASSUME NEW q \in Peers, DisconnectAccepted(q) PROVE StreamStep(p)
    BY <1>3, DisconnectStream
  <1>4. ASSUME NEW q \in Peers, NEW name \in Names, NEW versionMatches \in BOOLEAN,
               NEW welcomeQueued \in BOOLEAN, Hello(q, name, versionMatches, welcomeQueued)
        PROVE  StreamStep(p)
    <2>1. link[q] = "open" /\ playerOf[q] = NoPlayer
      BY <1>4 DEF Hello
    <2>. QED BY <1>2, <1>4, <2>1, HelloCases, AcceptStream
  <1>5. ASSUME NEW q \in Peers, NEW desired \in BOOLEAN, LobbyReady(q, desired)
        PROVE  StreamStep(p)
    BY <1>5, LobbyReadyStream
  <1>6. ASSUME NEW q \in Peers, NEW m, MatchLoaded(q, m) PROVE StreamStep(p)
    BY <1>6, MatchLoadedStream
  <1>7. CASE Tick
    BY <1>7, CountdownTickStream, OtherTicksStream DEF Tick
  <1>. QED BY <1>1, <1>2, <1>3, <1>4, <1>5, <1>6, <1>7 DEF Next

(***************************************************************************)
(* Each client is told a story that makes sense on its own, whatever the   *)
(* others do: every connection implements RoundStream.                     *)
(***************************************************************************)
THEOREM StreamsImplemented == Spec => ImplementsStreams
  <1>1. Init => \A p \in Peers : Stream(p)!StreamInit
    <2> SUFFICES ASSUME Init, NEW p \in Peers PROVE Stream(p)!StreamInit
      OBVIOUS
    <2>1. ~Attached(p) /\ nextMatchId = 1
      BY DEF Init, SessionInit, Attached
    <2>2. StageFor(p) = "away" /\ IsReady(p) = FALSE /\ IsLoaded(p) = FALSE
      BY <2>1, StreamStage, StreamFlags
    <2>. QED BY <2>1, <2>2 DEF Stream!StreamInit
  <1>2. TypeOK /\ TypeOK' /\ SeatOwnership /\ RoundInv /\ RoundInv' /\ [Next]_vars
          => [\A p \in Peers : [Stream(p)!StreamNext]_(Stream(p)!streamVars)]_vars
    BY NextStream DEF StreamStep
  <1>. QED
    BY <1>1, <1>2, TypeCorrect, SeatsCorrect, RoundsCorrect, PTL
    DEF Spec, ImplementsStreams

-----------------------------------------------------------------------------
(* The battle the round flow fights. *)

BattleStep == [Battle!BattleNext]_(Battle!battleVars)

\* The battle's view of each phase.
LEMMA BattlePhases ==
  /\ phase \in {"InMatch", "EndOfMatch"} => BattlePhase = phase
  /\ phase \notin {"InMatch", "EndOfMatch"} => BattlePhase = "Lobby"
  /\ phase' \in {"InMatch", "EndOfMatch"} => BattlePhase' = phase'
  /\ phase' \notin {"InMatch", "EndOfMatch"} => BattlePhase' = "Lobby"
  BY DEF BattlePhase

\* Only a started match is a battle.
LEMMA BattleSets ==
  ASSUME NEW ids
  PROVE  /\ phase \in {"InMatch", "EndOfMatch"} => InBattle(ids) = ids
         /\ phase \notin {"InMatch", "EndOfMatch"} => InBattle(ids) = {}
  BY BattlePhases DEF InBattle


\* The same, after the step.
LEMMA BattleSetsNext ==
  /\ phase' \in {"InMatch", "EndOfMatch"} =>
       InBattle(inMatch)' = inMatch' /\ InBattle(alive)' = alive' /\ InBattle(unlocked)' = unlocked'
  /\ phase' \notin {"InMatch", "EndOfMatch"} =>
       InBattle(inMatch)' = {} /\ InBattle(alive)' = {} /\ InBattle(unlocked)' = {}
  BY BattlePhases DEF InBattle

\* The battle counts with its own instance of Cardinality.
LEMMA BattleCounts == \A ids : Battle!Cardinality(ids) = Cardinality(ids)
  BY Zenon DEF Battle!Cardinality, Cardinality

\* Counting up to one is comparing two by two.
LEMMA CountToOne ==
  ASSUME NEW ids \in SUBSET PlayerIds
  PROVE  Cardinality(ids) <= 1 <=> \A i, j \in ids : i = j
  <1>1. IsFiniteSet(ids)
    <2>1. IsFiniteSet(PlayerIds)
      BY FS_Interval, MaxPlayersAssumption DEF PlayerIds
    <2>. QED BY <2>1, FS_Subset
  <1>2. Cardinality(ids) \in Nat
    BY <1>1, FS_CardinalityType
  <1>3. ASSUME NEW i \in ids, NEW j \in ids, i # j PROVE Cardinality(ids) > 1
    <2>1. Cardinality({i, j}) = 2
      <3>1. IsFiniteSet({j}) /\ Cardinality({j}) = 1
        BY FS_Singleton
      <3>2. Cardinality({j} \cup {i}) = Cardinality({j}) + 1
        BY <1>3, <3>1, FS_AddElement
      <3>3. {j} \cup {i} = {i, j}
        OBVIOUS
      <3>. QED BY <3>1, <3>2, <3>3
    <2>2. Cardinality({i, j}) <= Cardinality(ids)
      BY <1>1, <1>3, FS_Subset
    <2>. QED BY <1>2, <2>1, <2>2
  <1>4. ASSUME \A i, j \in ids : i = j PROVE Cardinality(ids) <= 1
    <2>1. CASE ids = {}
      BY <2>1, FS_EmptySet
    <2>2. CASE ids # {}
      <3>1. PICK i \in ids : TRUE
        BY <2>2
      <3>2. ids = {i}
        BY <1>4, <3>1
      <3>3. Cardinality({i}) = 1
        BY FS_Singleton
      <3>. QED BY <3>2, <3>3
    <2>. QED BY <2>1, <2>2
  <1>. QED BY <1>2, <1>3, <1>4

\* Flow and battle agree on when a round is decided and when there may be one.
LEMMA BattleDecides ==
  ASSUME NEW ids, NEW living \in SUBSET PlayerIds
  PROVE  /\ Battle!Decided(ids, living) <=> RoundDecided(ids, living)
         /\ HasMinimumParticipants(living) => Battle!Cardinality(living) > 1
  <1>1. Battle!Cardinality(living) = Cardinality(living)
    BY BattleCounts
  <1>2. Cardinality(living) <= 1 <=> \A i, j \in living : i = j
    BY CountToOne
  <1>3. Cardinality(living) \in Nat
    <2>1. IsFiniteSet(PlayerIds)
      BY FS_Interval, MaxPlayersAssumption DEF PlayerIds
    <2>. QED BY <2>1, FS_Subset, FS_CardinalityType
  <1>. QED BY <1>1, <1>2, <1>3 DEF Battle!Decided, RoundDecided, HasMinimumParticipants

\* Nothing happens in the battle.
LEMMA BattleSame ==
  ASSUME UNCHANGED <<phase, inMatch, alive, unlocked, bombsLive>>
  PROVE  BattleStep
  BY DEF BattleStep, Battle!battleVars, BattlePhase, InBattle

\* There is no battle before or after.
LEMMA BattleNone ==
  ASSUME TypeOK, TypeOK', RoundInv, RoundInv',
         phase \notin {"InMatch", "EndOfMatch"}, phase' \notin {"InMatch", "EndOfMatch"}
  PROVE  BattleStep
  <1>1. ~bombsLive /\ ~bombsLive' /\ bombsLive \in BOOLEAN /\ bombsLive' \in BOOLEAN
    BY DEF TypeOK, Phases, RoundInv, RoundShape, StartingShape, NoRoundResidue
  <1>2. UNCHANGED <<BattlePhase, InBattle(inMatch), InBattle(alive), InBattle(unlocked), bombsLive>>
    BY <1>1, BattlePhases, BattleSets, BattleSetsNext
  <1>. QED BY <1>2 DEF BattleStep, Battle!battleVars


\* A match that starts is a battle that begins.
LEMMA MatchLoadedBattle ==
  ASSUME TypeOK, TypeOK', RoundInv, RoundInv', NEW p \in Peers, NEW m, MatchLoaded(p, m)
  PROVE  BattleStep
  <1>1. phase = "StartingMatch"
    BY DEF MatchLoaded
  <1>2. /\ HasMinimumParticipants(playerMask) /\ playerMask = inMatch /\ alive = inMatch
        /\ unlocked = {} /\ ~bombsLive /\ bombsLive \in BOOLEAN /\ inMatch \subseteq PlayerIds
    BY <1>1 DEF RoundInv, RoundShape, StartingShape, RoundMembership, RoundPhases, TypeOK
  <1>3. ASSUME phase' = "InMatch", UNCHANGED arenaVars PROVE BattleStep
    <2>1. /\ BattlePhase = "Lobby" /\ BattlePhase' = "InMatch"
          /\ InBattle(inMatch)' = inMatch /\ InBattle(alive)' = inMatch /\ InBattle(unlocked)' = {}
          /\ bombsLive' = FALSE
      BY <1>1, <1>2, <1>3, BattlePhases, BattleSetsNext DEF arenaVars
    <2>2. Battle!Begin(inMatch)
      BY <2>1 DEF Battle!Begin
    <2>3. Battle!Cardinality(inMatch) > 1
      BY <1>2, BattleDecides
    <2>. QED BY <1>2, <2>2, <2>3 DEF BattleStep, Battle!BattleNext
  <1>4. CASE phase' \notin {"InMatch", "EndOfMatch"}
    BY <1>1, <1>4, BattleNone
  <1>5. \/ phase' = "InMatch" /\ UNCHANGED arenaVars
        \/ phase' \in {"Lobby", "StartingMatch"}
    BY <1>1, Zenon
    DEF MatchLoaded, MarkPlayerLoadedForCurrentMatch, CommitMatchStart, CancelStartingMatch,
        ResetRoundRuntimeToLobby
  <1>. QED BY <1>3, <1>4, <1>5

\* Whoever leaves a started match leaves the battle.
LEMMA DisconnectBattle ==
  ASSUME TypeOK, TypeOK', SeatOwnership, RoundInv, RoundInv', NEW p \in Peers, DisconnectAccepted(p)
  PROVE  BattleStep
  <1> DEFINE id == playerOf[p]
             left == inMatch \ {id}
  <1>1. id \in PlayerIds /\ id \in Accepted /\ HandleAcceptedPlayerReleased(id)
    BY DEF DisconnectAccepted, TypeOK, SessionTypeOK, Accepted, BoundIds
  <1>2. bombsLive \in BOOLEAN /\ alive \subseteq PlayerIds
    BY DEF TypeOK
  <1> HIDE DEF id
  <1>3. CASE phase \in {"Lobby", "LobbyCountdown", "StartingMatch"}
    <2>1. phase' = "Lobby"
      BY <1>1, <1>3, Zenon
      DEF HandleAcceptedPlayerReleased, ReleasedInLobby, ReleasedWhileStarting, ReleasedLastOfRound,
          ReleasedFromRound, CancelStartingMatch, ResetRoundRuntimeToLobby,
          ResetLobbyParticipantsToUnready, LobbyWithoutCountdown
    <2>. QED BY <1>3, <2>1, BattleNone
  <1>4. CASE phase \in {"InMatch", "EndOfMatch"}
    <2>1. id \in inMatch /\ playerMask = inMatch
      BY <1>1, <1>4 DEF RoundInv, RoundMembership, RoundPhases
    <2>2. /\ BattlePhase = phase /\ InBattle(inMatch) = inMatch
          /\ InBattle(alive) = alive /\ InBattle(unlocked) = unlocked
      BY <1>4, BattlePhases, BattleSets
    <2>3. Battle!Leave(id)
      <3>1. CASE ReleasedLastOfRound(id)
        <4>1. left = {}
          BY <2>1, <3>1 DEF ReleasedLastOfRound
        <4>2. phase' = "Lobby" /\ bombsLive' = FALSE
          BY <3>1 DEF ReleasedLastOfRound, ResetRoundRuntimeToLobby
        <4>3. Battle!NoRound
          BY <4>2, BattlePhases, BattleSetsNext DEF Battle!NoRound
        <4>. QED BY <2>1, <2>2, <4>1, <4>3 DEF Battle!Leave
      <3>2. CASE ReleasedFromRound(id)
        <4>1. left # {}
          BY <2>1, <3>2 DEF ReleasedFromRound
        <4>2. Battle!Decided(left, alive \ {id}) <=> RoundDecided(left, alive \ {id})
          <5>1. alive \ {id} \in SUBSET PlayerIds
            BY <1>2
          <5>. QED BY <5>1, BattleDecides
        <4>3. CASE phase = "InMatch" /\ RoundDecided(left, alive \ {id})
          <5>1. /\ phase' = "EndOfMatch" /\ inMatch' = left /\ alive' = alive \ {id}
                /\ unlocked' = {} /\ bombsLive' = FALSE
            BY <3>2, <4>3, Zenon DEF ReleasedFromRound, BeginEndOfMatch
          <5>2. Battle!Over(left, alive \ {id})
            BY <5>1, BattlePhases, BattleSetsNext DEF Battle!Over
          <5>. QED BY <2>1, <2>2, <4>1, <4>2, <4>3, <5>2 DEF Battle!Leave
        <4>4. CASE ~(phase = "InMatch" /\ RoundDecided(left, alive \ {id}))
          <5>1. /\ phase' = phase /\ inMatch' = left /\ alive' = alive \ {id}
                /\ unlocked' = unlocked \ {id} /\ bombsLive' = bombsLive
            BY <3>2, <4>4, Zenon DEF ReleasedFromRound
          <5>2. /\ UNCHANGED <<BattlePhase, bombsLive>>
                /\ InBattle(inMatch)' = left /\ InBattle(alive)' = alive \ {id}
                /\ InBattle(unlocked)' = unlocked \ {id}
            BY <1>4, <5>1, BattlePhases, BattleSetsNext
          <5>. QED BY <2>1, <2>2, <4>1, <4>2, <4>4, <5>2 DEF Battle!Leave
        <4>. QED BY <4>3, <4>4
      <3>. QED
        BY <1>1, <1>4, <3>1, <3>2 DEF HandleAcceptedPlayerReleased, ReleasedInLobby, ReleasedWhileStarting
    <2>. QED BY <1>1, <2>3 DEF BattleStep, Battle!BattleNext
  <1>. QED BY <1>3, <1>4 DEF TypeOK, Phases

\* A tick of the match is a tick of the battle.
LEMMA MatchTickBattle ==
  ASSUME TypeOK, TypeOK', RoundInv, MatchTick
  PROVE  BattleStep
  <1>1. /\ phase = "InMatch" /\ alive \subseteq inMatch /\ inMatch \subseteq PlayerIds
        /\ bombsLive \in BOOLEAN /\ alive \subseteq PlayerIds /\ unlocked \subseteq PlayerIds
        /\ timer \in Timers
    BY DEF MatchTick, TypeOK, RoundInv, RoundShape, MatchShape
  <1>2. PICK mayAct \in {inMatch, unlocked}, killed \in SUBSET alive, bombsAfter \in BOOLEAN :
          /\ mayAct = inMatch => Passed(timer.unlock) = 0 \/ mayAct = unlocked
          /\ killed # {} => bombsLive
          /\ bombsAfter => bombsLive \/ mayAct \cap alive # {}
          /\ \/ /\ RoundDecided(inMatch, alive \ killed)
                /\ phase' = "EndOfMatch" /\ inMatch' = inMatch /\ alive' = alive \ killed
                /\ unlocked' = {} /\ bombsLive' = FALSE
             \/ /\ ~RoundDecided(inMatch, alive \ killed)
                /\ alive' = alive \ killed /\ unlocked' = mayAct \ killed
                /\ bombsLive' = bombsAfter /\ UNCHANGED <<phase, inMatch>>
    <2> DEFINE mayAct == IF Elapsed(timer).unlock = 0 THEN inMatch ELSE unlocked
    <2>1. /\ Elapsed(timer).unlock = Passed(timer.unlock)
          /\ mayAct \in {inMatch, unlocked}
          /\ mayAct = inMatch => Passed(timer.unlock) = 0 \/ mayAct = unlocked
      BY DEF Elapsed
    <2>2. PICK killed \in SUBSET alive, bombsAfter \in BOOLEAN :
            /\ killed # {} => bombsLive
            /\ bombsAfter => bombsLive \/ mayAct \cap alive # {}
            /\ \/ /\ RoundDecided(inMatch, alive \ killed)
                  /\ phase' = "EndOfMatch" /\ inMatch' = inMatch /\ alive' = alive \ killed
                  /\ unlocked' = {} /\ bombsLive' = FALSE
               \/ /\ ~RoundDecided(inMatch, alive \ killed)
                  /\ alive' = alive \ killed /\ unlocked' = mayAct \ killed
                  /\ bombsLive' = bombsAfter /\ UNCHANGED <<phase, inMatch>>
      BY Zenon DEF MatchTick, BeginEndOfMatch
    <2>. QED BY <2>1, <2>2, Zenon
  <1>3. /\ BattlePhase = "InMatch" /\ InBattle(inMatch) = inMatch
        /\ InBattle(alive) = alive /\ InBattle(unlocked) = unlocked
    BY <1>1, BattlePhases, BattleSets
  <1>4. mayAct = unlocked \/ (mayAct = inMatch /\ unlocked = {} /\ alive = inMatch)
    <2>1. Passed(timer.unlock) = 0 => timer.unlock # Unset
      BY <1>1 DEF Passed, Unset, Timers, TicksLeft
    <2>. QED BY <1>1, <1>2, <2>1 DEF RoundInv, RoundShape, MatchShape
  <1>5. Battle!Decided(inMatch, alive \ killed) <=> RoundDecided(inMatch, alive \ killed)
    <2>1. alive \ killed \in SUBSET PlayerIds
      BY <1>1
    <2>. QED BY <2>1, BattleDecides
  <1>6. Battle!Battle(mayAct)
    <2>1. CASE /\ RoundDecided(inMatch, alive \ killed)
               /\ phase' = "EndOfMatch" /\ inMatch' = inMatch /\ alive' = alive \ killed
               /\ unlocked' = {} /\ bombsLive' = FALSE
      <3>1. Battle!Over(inMatch, alive \ killed)
        BY <2>1, BattlePhases, BattleSetsNext DEF Battle!Over
      <3>. QED BY <1>2, <1>3, <1>5, <2>1, <3>1 DEF Battle!Battle
    <2>2. CASE /\ ~RoundDecided(inMatch, alive \ killed)
               /\ alive' = alive \ killed /\ unlocked' = mayAct \ killed
               /\ bombsLive' = bombsAfter /\ UNCHANGED <<phase, inMatch>>
      <3>1. /\ BattlePhase' = BattlePhase /\ InBattle(inMatch)' = inMatch
            /\ InBattle(alive)' = alive \ killed /\ InBattle(unlocked)' = mayAct \ killed
        BY <1>1, <1>3, <2>2, BattlePhases, BattleSetsNext
      <3>2. UNCHANGED <<BattlePhase, InBattle(inMatch)>>
        BY <1>3, <3>1
      <3>. QED BY <1>2, <1>3, <1>5, <2>2, <3>1, <3>2 DEF Battle!Battle
    <2>. QED BY <1>2, <2>1, <2>2
  <1>. QED
    BY <1>3, <1>4, <1>6 DEF BattleStep, Battle!BattleNext, Battle!BattleTick


\* Every step of the flow is a step of the battle or none.
LEMMA NextFlowBattle ==
  ASSUME TypeOK, TypeOK', SeatOwnership, RoundInv, RoundInv', [Next]_vars
  PROVE  BattleStep
  <1>1. CASE UNCHANGED vars
    BY <1>1, BattleSame DEF vars, roundVars, arenaVars
  <1>2. ASSUME NEW p \in Peers,
               Connect(p) \/ PeerCloses(p) \/ DisconnectUnaccepted(p) \/ ClientLoads(p) \/ RejectHello(p)
        PROVE  BattleStep
    BY <1>2, BattleSame
    DEF Connect, PeerCloses, DisconnectUnaccepted, ClientLoads, RejectHello, roundVars, arenaVars
  <1>3. ASSUME NEW p \in Peers, DisconnectAccepted(p) PROVE BattleStep
    BY <1>3, DisconnectBattle
  <1>4. ASSUME NEW p \in Peers, NEW name \in Names,
               NEW versionMatches \in BOOLEAN, NEW welcomeQueued \in BOOLEAN,
               Hello(p, name, versionMatches, welcomeQueued)
        PROVE  BattleStep
    <2>1. ASSUME phase \notin RoundPhases, NEW id, LobbyAccept(p, name, id) PROVE BattleStep
      <3>1. phase' = "Lobby"
        BY <2>1 DEF LobbyAccept, ResetLobbyParticipantsToUnready, LobbyWithoutCountdown
      <3>. QED BY <2>1, <3>1, BattleNone DEF RoundPhases
    <2>. QED BY <1>2, <1>4, <2>1, HelloCases
  <1>5. ASSUME NEW p \in Peers, NEW desired \in BOOLEAN, LobbyReady(p, desired)
        PROVE  BattleStep
    <2>1. phase \in {"Lobby", "LobbyCountdown"}
      BY <1>5 DEF LobbyReady
    <2>2. phase' \in {"Lobby", "LobbyCountdown"}
      BY <1>5, <2>1, Zenon
      DEF LobbyReady, HandleLobbyReadyStateChanged, CancelLobbyCountdown, StartLobbyCountdown,
          LobbyWithoutCountdown
    <2>. QED BY <2>1, <2>2, BattleNone
  <1>6. ASSUME NEW p \in Peers, NEW m, MatchLoaded(p, m) PROVE BattleStep
    BY <1>6, MatchLoadedBattle
  <1>7. CASE CountdownTick
    <2>1. phase = "LobbyCountdown"
      BY <1>7 DEF CountdownTick
    <2>2. phase' \in {"Lobby", "LobbyCountdown", "StartingMatch"}
      BY <1>7, <2>1, Zenon
      DEF CountdownTick, BeginMatchBootstrap, CancelLobbyCountdown, LobbyWithoutCountdown,
          CancelStartingMatch, ResetRoundRuntimeToLobby
    <2>. QED BY <2>1, <2>2, BattleNone
  <1>8. CASE StartingTick
    <2>1. phase = "StartingMatch"
      BY <1>8 DEF StartingTick
    <2>2. phase' \in {"Lobby", "StartingMatch"}
      BY <1>8, <2>1, Zenon DEF StartingTick, CancelStartingMatch, ResetRoundRuntimeToLobby
    <2>. QED BY <2>1, <2>2, BattleNone
  <1>9. CASE EndOfMatchTick
    <2>1. \/ /\ phase = "EndOfMatch" /\ phase' = "Lobby" /\ bombsLive' = FALSE
          \/ UNCHANGED <<phase, inMatch, alive, unlocked, bombsLive>>
      BY <1>9, Zenon DEF EndOfMatchTick, ResetRoundRuntimeToLobby, arenaVars
    <2>2. ASSUME phase = "EndOfMatch", phase' = "Lobby", bombsLive' = FALSE PROVE BattleStep
      <3>1. Battle!NoRound
        BY <2>2, BattlePhases, BattleSetsNext DEF Battle!NoRound
      <3>. QED BY <2>2, <3>1, BattlePhases DEF BattleStep, Battle!BattleNext, Battle!Return
    <2>. QED BY <2>1, <2>2, BattleSame
  <1>10. CASE MatchTick
    BY <1>10, MatchTickBattle
  <1>. QED BY <1>1, <1>2, <1>3, <1>4, <1>5, <1>6, <1>7, <1>8, <1>9, <1>10 DEF Next, Tick

(***************************************************************************)
(* Whatever packets, disconnects and deadlines there are, the round flow   *)
(* takes the match state only through the steps of a battle.  Arena is     *)
(* shown to keep to the same battle (ArenaProofs), so what the flow        *)
(* takes for granted of bombs and deaths is what the arena does.           *)
(***************************************************************************)
THEOREM FlowBattleImplemented == Spec => FlowImplementsBattle
  <1>1. Init => Battle!BattleInit
    BY DEF Init, Battle!BattleInit, BattlePhase, InBattle
  <1>2. TypeOK /\ TypeOK' /\ SeatOwnership /\ RoundInv /\ RoundInv' /\ [Next]_vars
          => [Battle!BattleNext]_(Battle!battleVars)
    BY NextFlowBattle DEF BattleStep
  <1>. QED
    BY <1>1, <1>2, TypeCorrect, SeatsCorrect, RoundsCorrect, PTL
    DEF Spec, FlowImplementsBattle, Battle!BattleSpec
=============================================================================
