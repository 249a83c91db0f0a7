---------------------------- MODULE ClientSession ----------------------------
(***************************************************************************)
(* A client, from its menu through connection, lobby and match and back,   *)
(* against the server as that client sees it (RoundStream): NetClient's    *)
(* connection states and message caches, and the connect, lobby and        *)
(* multiplayer level scenes that poll them (NetClient.Connection.cpp,      *)
(* NetClient.Protocol.cpp, NetClient.Runtime.cpp, ConnectScene.cpp,        *)
(* LobbyScene.cpp, MultiplayerLevelScene.cpp).                             *)
(*                                                                         *)
(* The client is one thread, and each frame of Game::run handles key       *)
(* events, then every packet that has come, then zero or more fixed steps. *)
(* As a frame may have any number of each, key events, packets and steps   *)
(* are separate actions in any order.                                      *)
(*                                                                         *)
(* Abstractions.                                                           *)
(*  - toClient and toServer are the reliable ordered control channel;      *)
(*    toClient also has ENet's CONNECT and DISCONNECT events.              *)
(*  - A message carries its match id, a LobbyState this client's own ready *)
(*    flag.  Packets are well-formed and both sides have one version: a    *)
(*    server that refuses the version answers Reject like any other.       *)
(*  - A timeout of the wall clock may fire at any time while it is armed.  *)
(*  - The five failed states, which differ in what the connect scene       *)
(*    displays, are one.                                                   *)
(*  - Once the client drops its transport, the server's old session is     *)
(*    another player's as far as the next connection is concerned.         *)
(*  - Everything the level scene draws or predicts is left out.            *)
(***************************************************************************)
EXTENDS RoundStream

CONSTANTS
  MaxMatches,    \* bound of the model: matches the server issues
  MaxToClient, MaxToServer  \* bounds of the model: messages in each direction

VARIABLES
  link,                  \* the connection, as ENet has it on both sides
  toClient, toServer,    \* what is in flight
  state,                 \* NetClient::state_
  flow,                  \* matchFlow
  lobby,                 \* cachedLobbyState
  scene,                 \* the current scene
  pendingReady,          \* LobbyScene::pendingReadyState_
  level,                 \* MultiplayerLevelScene: matchId_ and its flags
  atRest,                \* history: the last fixed step found nothing to do
  gaveUp,                \* history: last match whose bootstrap timed out here
  asked, retried         \* history: matches issued at the last request to be ready;
                         \* whether waiting for an echo has timed out

sessionVars == <<state, flow, lobby>>
sceneVars == <<scene, pendingReady, level>>
historyVars == <<gaveUp, asked, retried>>
vars == <<streamVars, link, toClient, toServer, sessionVars, sceneVars, atRest, historyVars>>

\* "down": the server has let go and the client does not know; "leaving": the
\* client has asked to be disconnected; "lost": the client's ENet knows.
Links == {"none", "syn", "up", "down", "leaving", "lost"}
States == {"Disconnected", "Connecting", "Handshaking", "Connected", "Disconnecting", "Failed"}
Scenes == {"menu", "connect", "lobby", "level"}

NoFlow == [level |-> 0, pending |-> FALSE, start |-> 0, cancelled |-> 0, result |-> 0]
Flags == {"ready", "unready"}
FlagOf(r) == IF r THEN "ready" ELSE "unready"
NoLobby == "none"      \* no LobbyState cached; a flag: this client's seat in it
NoRequest == "none"    \* no request pending; a flag: the state asked for
NoLevel == [match |-> 0, acked |-> FALSE, started |-> FALSE, over |-> FALSE]

Event(type) == [type |-> type, match |-> 0, ready |-> FALSE]
Hello == [type |-> "Hello", match |-> 0, ready |-> FALSE]
LobbyReady(desired) == [type |-> "LobbyReady", match |-> 0, ready |-> desired]
MatchLoaded(m) == [type |-> "MatchLoaded", match |-> m, ready |-> FALSE]

-----------------------------------------------------------------------------
(* The server's side of the connection. *)

\* The batch on the wire: a LobbyState says what the handler has left behind.
Wire(msgs, flag) ==
  [i \in 1 .. Len(msgs) |->
     [type |-> msgs[i].type, match |-> msgs[i].match,
      ready |-> msgs[i] = LobbyStateMsg /\ flag]]

SendsBatch == toClient' = toClient \o Wire(batch', ready')

\* Ticks of the server, and packets of others.
ServerActs ==
  /\ Len(toClient) + 3 <= MaxToClient
  /\ \/ Refresh \/ End \/ Return \/ Cancel
     \/ issued < MaxMatches /\ (Form \/ FormInVain)
     \/ loaded /\ (Start \/ StartInVain)
  /\ SendsBatch
  /\ UNCHANGED <<link, toServer, sessionVars, sceneVars, atRest, historyVars>>

OthersPlay ==
  /\ issued < MaxMatches
  /\ IssueElsewhere
  /\ UNCHANGED <<link, toClient, toServer, sessionVars, sceneVars, atRest, historyVars>>

ServerReads(type) ==
  /\ link \in {"up", "leaving"}
  /\ toServer # <<>> /\ Head(toServer).type = type
  /\ toServer' = Tail(toServer)
  /\ UNCHANGED <<sessionVars, sceneVars, atRest, historyVars>>

\* onHello: a seat, or Reject and disconnect_later.
ServerReadsHello ==
  /\ ServerReads("Hello")
  /\ \/ /\ Join
        /\ toClient' = Append(toClient, Event("Welcome")) \o Wire(batch', ready')
        /\ UNCHANGED link
     \/ /\ toClient' = Append(toClient, Event("Reject"))
        /\ link' = "down"
        /\ UNCHANGED streamVars

ServerReadsLobbyReady ==
  /\ ServerReads("LobbyReady")
  /\ UNCHANGED link
  /\ IF stage = "lobby" /\ ready # Head(toServer).ready
     THEN SetReady(Head(toServer).ready) /\ SendsBatch
     ELSE UNCHANGED <<streamVars, toClient>>

\* Mutant: acknowledgements of earlier matches count.
CountsAny(m) == stage = "loading" /\ ~loaded

Counts(m) == stage = "loading" /\ ~loaded /\ m = issued

ServerReadsMatchLoaded ==
  /\ ServerReads("MatchLoaded")
  /\ UNCHANGED link
  /\ IF Counts(Head(toServer).match)
     THEN \/ CountLoaded /\ UNCHANGED toClient
          \/ (Start \/ StartInVain) /\ SendsBatch
     ELSE UNCHANGED <<streamVars, toClient>>

-----------------------------------------------------------------------------
(* The connection. *)

LinkUp ==
  /\ link = "syn"
  /\ link' = "up" /\ toClient' = Append(toClient, Event("CONNECT"))
  /\ UNCHANGED <<streamVars, toServer, sessionVars, sceneVars, atRest, historyVars>>

\* The server stops, or loses the client first.
ServerLetsGo ==
  /\ link = "up" /\ stage # "away"
  /\ Leave
  /\ link' = "down" /\ toServer' = <<>>
  /\ UNCHANGED <<toClient, sessionVars, sceneVars, atRest, historyVars>>

\* The client's ENet learns that the peer is gone: it never answered, timed out,
\* said goodbye or acknowledged one.  What it has not handed out yet is dropped.
LinkLost ==
  /\ link \in {"syn", "up", "down", "leaving"}
  /\ link' = "lost" /\ toServer' = <<>>
  /\ \E k \in 0 .. Len(toClient) :
       toClient' = Append(SubSeq(toClient, 1, k), Event("DISCONNECT"))
  /\ IF stage = "away" THEN UNCHANGED streamVars ELSE Leave
  /\ UNCHANGED <<sessionVars, sceneVars, atRest, historyVars>>

-----------------------------------------------------------------------------
(* NetClient: leaving a session. *)

\* destroyTransport: nothing is said to the server.
DestroyTransport ==
  /\ link' = "none" /\ toClient' = <<>> /\ toServer' = <<>>
  /\ IF stage = "away" THEN UNCHANGED streamVars ELSE Leave

\* failConnection and transitionToDisconnected, with resetSessionState.
DropSession(newState) ==
  /\ DestroyTransport
  /\ state' = newState
  /\ flow' = NoFlow /\ lobby' = NoLobby

\* disconnectAsync.
DisconnectAsync ==
  CASE state \in {"Connecting", "Handshaking", "Failed"} -> DropSession("Disconnected")
    [] state = "Connected" ->
         /\ state' = "Disconnecting"
         /\ link' = IF link \in {"up", "down"} THEN "leaving" ELSE link
         /\ UNCHANGED <<streamVars, toClient, toServer, flow, lobby>>
    [] OTHER -> UNCHANGED <<streamVars, link, toClient, toServer, sessionVars>>

-----------------------------------------------------------------------------
(* NetClient: the network pump, one packet or ENet event at a time. *)

Packet == Head(toClient)

\* The packet is handled and the session goes on.
Handled ==
  /\ toClient' = Tail(toClient)
  /\ UNCHANGED <<streamVars, link>>

Pumps(type) ==
  /\ toClient # <<>> /\ Packet.type = type
  /\ atRest' = FALSE
  /\ UNCHANGED <<sceneVars, historyVars>>

\* handleConnectEvent; the Hello may fail to be queued.
PumpConnect ==
  /\ Pumps("CONNECT") /\ state = "Connecting"
  /\ \/ /\ Handled
        /\ state' = "Handshaking"
        /\ toServer' = IF link = "up" THEN Append(toServer, Hello) ELSE toServer
        /\ UNCHANGED <<flow, lobby>>
     \/ DropSession("Failed")

\* handleDisconnectEvent.
PumpDisconnect ==
  /\ Pumps("DISCONNECT")
  /\ DropSession(IF state \in {"Connecting", "Handshaking"} THEN "Failed"
                 ELSE "Disconnected")

\* handleReceiveEvent and handleWelcome: any other control message fails a
\* handshake, and Welcome counts only in one.
PumpHandshake ==
  /\ \E type \in {"Welcome", "Reject", "LobbyState"} : Pumps(type)
  /\ state = "Handshaking"
  /\ IF Packet.type = "Welcome"
     THEN /\ state' = "Connected" /\ Handled
          /\ UNCHANGED <<flow, lobby, toServer>>
     ELSE DropSession("Failed")

\* The match a LevelInfo announces is newer than the one cached.
NewsOfMatch(m) == flow.level = 0 \/ m > flow.level

BeginBootstrap(m) == flow' = [NoFlow EXCEPT !.level = m, !.pending = TRUE]

\* handleLevelInfo.
PumpLevelInfo ==
  /\ Pumps("LevelInfo") /\ state = "Connected"
  /\ Handled
  /\ IF NewsOfMatch(Packet.match)
     THEN BeginBootstrap(Packet.match) /\ lobby' = NoLobby
     ELSE UNCHANGED <<flow, lobby>>
  /\ UNCHANGED <<state, toServer>>

\* handleLobbyState: the lobby is back, whatever match was on.
PumpLobbyState ==
  /\ Pumps("LobbyState") /\ state = "Connected"
  /\ Handled
  /\ flow' = IF flow.level # 0 THEN NoFlow ELSE flow
  /\ lobby' = FlagOf(Packet.ready)
  /\ UNCHANGED <<state, toServer>>

StartsMatch(m) == flow.level = m /\ (flow.start = 0 \/ m > flow.start)

\* handleMatchStart.
PumpMatchStart ==
  /\ Pumps("MatchStart") /\ state = "Connected"
  /\ Handled
  /\ flow' = IF StartsMatch(Packet.match) THEN [flow EXCEPT !.start = Packet.match] ELSE flow
  /\ UNCHANGED <<state, lobby, toServer>>

\* handleMatchCancelled.
PumpMatchCancelled ==
  /\ Pumps("MatchCancelled") /\ state = "Connected"
  /\ Handled
  /\ flow' = IF flow.cancelled # 0 /\ Packet.match <= flow.cancelled THEN flow
             ELSE [IF flow.level = Packet.match THEN NoFlow ELSE flow
                     EXCEPT !.cancelled = Packet.match]
  /\ UNCHANGED <<state, lobby, toServer>>

\* handleMatchResult.
PumpMatchResult ==
  /\ Pumps("MatchResult") /\ state = "Connected"
  /\ Handled
  /\ flow' = IF flow.level = Packet.match /\ flow.result < Packet.match
             THEN [flow EXCEPT !.result = Packet.match] ELSE flow
  /\ UNCHANGED <<state, lobby, toServer>>

\* While disconnecting, packets are thrown away.
PumpWhileLeaving ==
  /\ \E type \in {"LobbyState", "LevelInfo", "MatchStart", "MatchCancelled", "MatchResult"} :
       Pumps(type)
  /\ state = "Disconnecting"
  /\ Handled
  /\ UNCHANGED <<sessionVars, toServer>>

Pump ==
  \/ PumpConnect \/ PumpDisconnect \/ PumpHandshake \/ PumpLevelInfo \/ PumpLobbyState
  \/ PumpMatchStart \/ PumpMatchCancelled \/ PumpMatchResult \/ PumpWhileLeaving

\* checkConnectTimeouts, checkDisconnectTimeout.
SessionTimeout ==
  /\ \/ state \in {"Connecting", "Handshaking"} /\ DropSession("Failed")
     \/ state = "Disconnecting" /\ DropSession("Disconnected")
  /\ UNCHANGED <<sceneVars, atRest, historyVars>>

-----------------------------------------------------------------------------
(* The scenes.  Show replaces the current scene by a new one.               *)

Show(newScene) ==
  /\ scene' = newScene
  /\ pendingReady' = NoRequest /\ level' = NoLevel

\* queueReliableControl of a client whose ENet peer may have gone.
CanQueue == link \in {"up", "down"}
Sends(msg) == toServer' = IF link = "up" THEN Append(toServer, msg) ELSE toServer

OpenConnectScene ==
  /\ scene = "menu"
  /\ Show("connect")
  /\ UNCHANGED <<streamVars, link, toClient, toServer, sessionVars, atRest, historyVars>>

\* ConnectScene::tryStartConnect and beginConnect, which may fail at once.
BeginConnect ==
  /\ scene = "connect" /\ state \in {"Disconnected", "Failed"}
  /\ \/ state' = "Connecting" /\ link' = "syn"
     \/ state' = "Failed" /\ UNCHANGED link
  /\ flow' = NoFlow /\ lobby' = NoLobby
  /\ gaveUp' = 0 /\ asked' = -1 /\ retried' = FALSE
  /\ UNCHANGED <<streamVars, toClient, toServer, sceneVars, atRest>>

\* The escape key of ConnectScene::onEvent, which cancels what is in flight.
EscapeConnect ==
  /\ scene = "connect"
  /\ Show("menu")
  /\ IF state \in {"Connecting", "Handshaking"}
     THEN DropSession("Disconnected")
     ELSE UNCHANGED <<streamVars, link, toClient, toServer, sessionVars>>
  /\ UNCHANGED <<atRest, historyVars>>

\* The escape key of the lobby and level scenes; a broken gameplay event stream
\* makes the level scene do the same.
EscapeSession ==
  /\ scene \in {"lobby", "level"}
  /\ Show("menu")
  /\ DisconnectAsync
  /\ UNCHANGED <<atRest, historyVars>>

\* The program quits, in whatever state, and is started again:
\* disconnectBlocking waits for the goodbye, or not long enough.
Restart ==
  /\ Show("menu")
  /\ DropSession("Disconnected")
  /\ UNCHANGED <<atRest, historyVars>>

\* Mutant: a request may be repeated before its echo.
MayRequestAgain == lobby # NoLobby

MayRequest == pendingReady = NoRequest /\ lobby # NoLobby

\* LobbyScene::handleReadyTogglePressed.
PressReady ==
  /\ scene = "lobby" /\ state = "Connected"
  /\ MayRequest
  /\ CanQueue /\ Len(toServer) < MaxToServer
  /\ LET desired == lobby = "unready" IN
     /\ Sends(LobbyReady(desired))
     /\ pendingReady' = FlagOf(desired)
     /\ asked' = IF desired THEN issued ELSE asked
  /\ UNCHANGED <<streamVars, link, toClient, sessionVars, scene, level, atRest, gaveUp,
                 retried>>

-----------------------------------------------------------------------------
(* Fixed steps. *)

StepUnconnected ==
  /\ scene \in {"lobby", "level"} /\ state # "Connected"
  /\ Show("menu")
  /\ UNCHANGED <<flow, toServer, historyVars>>

\* ConnectScene::update.
StepConnect ==
  /\ scene = "connect" /\ state = "Connected"
  /\ Show("lobby")
  /\ UNCHANGED <<flow, toServer, historyVars>>

\* Mutant: the lobby is looked at before the match.
EntersMatchFromKnownLobby == flow.pending /\ lobby # NoLobby

EntersMatch == flow.pending

\* LobbyScene::tryEnterPendingMatch.
StepEntersMatch ==
  /\ scene = "lobby" /\ state = "Connected"
  /\ EntersMatch
  /\ flow' = [flow EXCEPT !.pending = FALSE]
  /\ scene' = "level" /\ pendingReady' = NoRequest
  /\ level' = [NoLevel EXCEPT !.match = flow.level]
  /\ UNCHANGED <<toServer, historyVars>>

\* LobbyScene::update and syncPendingReadyState: the request is answered, or has
\* waited long enough.
StepLobby ==
  /\ scene = "lobby" /\ state = "Connected"
  /\ ~EntersMatch
  /\ \E timedOut \in BOOLEAN :
       LET waiting == pendingReady # NoRequest /\ lobby # NoLobby IN
       /\ timedOut => waiting
       /\ pendingReady' = IF waiting /\ (timedOut \/ lobby = pendingReady)
                          THEN NoRequest ELSE pendingReady
       /\ retried' = (retried \/ timedOut)
  /\ UNCHANGED <<flow, toServer, scene, level, gaveUp, asked>>

\* Mutant: only a cancellation or the timeout ends the scene.
LevelEndsEarly(cancelled, timedOut) == cancelled \/ timedOut

LevelEnds(cancelled, timedOut) == cancelled \/ timedOut \/ lobby # NoLobby

\* MultiplayerLevelScene::updateLevel.  Before the start: acknowledge the level,
\* then look for a cancellation, a start and the bootstrap timeout, in this
\* order.  Then a lobby, whatever the match, ends the scene.
StepLevel ==
  LET acking    == ~level.started /\ ~level.acked
      cancelled == ~level.started /\ flow.cancelled = level.match
      started   == level.started \/ flow.start = level.match
  IN
  /\ scene = "level" /\ state = "Connected"
  /\ Len(toServer) < MaxToServer
  /\ IF acking THEN Sends(MatchLoaded(level.match)) ELSE UNCHANGED toServer
  /\ \E timedOut \in BOOLEAN :
       /\ timedOut => ~level.started /\ ~cancelled
       /\ gaveUp' = IF timedOut THEN level.match ELSE gaveUp
       /\ IF LevelEnds(cancelled, timedOut)
          THEN Show("lobby")
          ELSE /\ level' = [level EXCEPT !.acked = @ \/ (acking /\ CanQueue),
                                         !.started = started,
                                         !.over = @ \/ flow.result = level.match]
               /\ UNCHANGED <<scene, pendingReady>>
  /\ UNCHANGED <<flow, asked, retried>>

Step ==
  /\ \/ StepUnconnected \/ StepConnect \/ StepEntersMatch \/ StepLobby \/ StepLevel
  /\ atRest' = (UNCHANGED <<flow, sceneVars, toServer>>)
  /\ UNCHANGED <<streamVars, link, toClient, state, lobby>>

-----------------------------------------------------------------------------
Init ==
  /\ StreamInit
  /\ link = "none" /\ toClient = <<>> /\ toServer = <<>>
  /\ state = "Disconnected" /\ flow = NoFlow /\ lobby = NoLobby
  /\ scene = "menu" /\ pendingReady = NoRequest /\ level = NoLevel
  /\ atRest = TRUE
  /\ gaveUp = 0 /\ asked = -1 /\ retried = FALSE

Server == ServerActs \/ ServerReadsHello \/ ServerReadsLobbyReady \/ ServerReadsMatchLoaded
Key == OpenConnectScene \/ BeginConnect \/ EscapeConnect \/ EscapeSession \/ Restart \/ PressReady

Next ==
  \/ Server \/ OthersPlay
  \/ LinkUp \/ ServerLetsGo \/ LinkLost
  \/ Pump \/ SessionTimeout
  \/ Key \/ Step

Spec == Init /\ [][Next]_vars

\* The server's loop reads what has come, the client's loop pumps and steps, and
\* ENet gives up a peer that has gone.  The bootstrap deadline passes.
ServerReadsSomething == ServerReadsHello \/ ServerReadsLobbyReady \/ ServerReadsMatchLoaded
BootstrapTimesOut == Step /\ gaveUp' # gaveUp
PeerGivenUp == link \in {"down", "leaving"} /\ LinkLost

Fairness ==
  /\ WF_vars(ServerReadsSomething) /\ WF_vars(PeerGivenUp)
  /\ WF_vars(Pump) /\ WF_vars(Step) /\ WF_vars(BootstrapTimesOut)

FairSpec == Spec /\ Fairness

-----------------------------------------------------------------------------
(* Properties. *)

TypeOK ==
  /\ stage \in Stages /\ issued \in Nat /\ ready \in BOOLEAN /\ loaded \in BOOLEAN
  /\ batch \in Seq(StreamMsgs)
  /\ link \in Links /\ state \in States /\ scene \in Scenes
  /\ flow \in [level : Nat, pending : BOOLEAN, start : Nat, cancelled : Nat, result : Nat]
  /\ lobby \in Flags \cup {NoLobby} /\ pendingReady \in Flags \cup {NoRequest}
  /\ level \in [match : Nat, acked : BOOLEAN, started : BOOLEAN, over : BOOLEAN]
  /\ atRest \in BOOLEAN /\ gaveUp \in Nat /\ asked \in Int /\ retried \in BOOLEAN

(***************************************************************************)
(* Client and server agree on the match.  Whenever everything in flight    *)
(* has been handled and the client's loop has nothing left to do, it shows *)
(* the lobby, with its own ready flag, exactly while the server is in the  *)
(* lobby, and otherwise the level of the very match the server is in, as   *)
(* far along.  Two things keep a client out of a running match: its own    *)
(* bootstrap timeout, and, until it has acknowledged the match, a ready    *)
(* request repeated after its echo was late.  (All handlers and scenes.)   *)
(***************************************************************************)
Settled ==
  /\ link = "up" /\ toClient = <<>> /\ toServer = <<>>
  /\ atRest /\ state = "Connected" /\ scene \in {"lobby", "level"}

Plays(m) == scene = "level" /\ level.match = m

Agreement ==
  Settled =>
    CASE stage = "lobby"   -> scene = "lobby" /\ lobby = FlagOf(ready)
      [] stage = "loading" -> gaveUp = issued \/ (Plays(issued) /\ loaded) \/ retried
      [] stage = "playing" -> gaveUp = issued \/ (Plays(issued) /\ level.started)
      [] stage = "over"    -> gaveUp = issued \/ (Plays(issued) /\ level.over)
      [] OTHER -> FALSE

(***************************************************************************)
(* Nothing of one match counts in another.  A level scene that has been    *)
(* told to start plays the server's latest match for as long as it has a   *)
(* seat, however late the start came; and a client counts as ready only if *)
(* its player asked for it since the last match was issued, but for a      *)
(* request repeated because the echo was late, which may arrive in a later *)
(* lobby.  (handleMatchStart, updatePreStartFlow, onLobbyReady,            *)
(* handleReadyTogglePressed.)                                              *)
(***************************************************************************)
NothingCarriesOver ==
  /\ level.started /\ stage # "away" => level.match = issued
  /\ ready => asked = issued \/ retried

(***************************************************************************)
(* A level scene does not outlive its match into the next one, where it    *)
(* would apply the new match's snapshots and events to its own map: not    *)
(* unless a ready request was repeated.  (handleLevelInfo caches the next  *)
(* match and clears the lobby that would have ended the scene;             *)
(* updateLobbyReturnFlow.)                                                 *)
(***************************************************************************)
SceneMatchesCache == scene = "level" /\ flow.level # 0 => flow.level = level.match \/ retried

(***************************************************************************)
(* Nothing is left behind in the menu: a player who is back there holds no *)
(* session and no connection attempt.  (The comment in                     *)
(* ConnectScene::onEvent: leaving it only needs to cancel what is in       *)
(* flight.)                                                                *)
(***************************************************************************)
MenuHoldsNoSession ==
  scene = "menu" => state \notin {"Connecting", "Handshaking", "Connected"}

-----------------------------------------------------------------------------
(* Liveness under FairSpec, which says nothing of the server's deadlines.  *)

(***************************************************************************)
(* A client that is taken into a match acknowledges it, though it may have *)
(* slept through a lobby and still show an earlier level, unless it or the *)
(* server leaves the match first.  (tryEnterPendingMatch,                  *)
(* ensureMatchLoadedAckSent.)                                              *)
(***************************************************************************)
RoundIsJoined == stage = "loading" ~> loaded \/ stage # "loading"

(***************************************************************************)
(* Nobody is stranded in a level whose match is gone, for whatever reason  *)
(* it went: decided, cancelled or cut off.  (updateLevel.)                 *)
(***************************************************************************)
Stranded == scene = "level" /\ stage \in {"lobby", "away"}
NobodyStranded == Stranded ~> ~Stranded
=============================================================================
