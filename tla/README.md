# Formal models of the Bomberman multiplayer game

TLA+ models of the networked part of this repository: a dedicated server
(`src/Server`), a client (`src/Net/Client`, `src/Scenes`) and the
deterministic rules they share (`src/Sim`). TLC checks the models on small
instances; TLAPS proves, for every value of the constants, most of what TLC
checks of safety: the server's round flow, the arena, the input stream, the
client session, the client's merge of snapshots and events, its prediction, and
the packets.

Paths are relative to the repository, prefixed with `src/`.

## 1. The system

One server process hosts up to four players. Everything it does happens on one
thread: `server_main.cpp` services ENet events, drains them
(`ServerEvents.cpp`), and runs `simulateServerTick` 60 times a second. A
client is one thread as well: an ENet pump (`NetClient::pumpNetwork`), a
scene that polls what the pump cached, and a fixed-step update. Concurrency is
therefore between processes, and between the channels of one connection:
control and gameplay messages are reliable and ordered, each on its own
channel; inputs, snapshots and corrections are unreliable.

| component | state it keeps | operations | talks to | what is hard | what makes it correct |
|---|---|---|---|---|---|
| Sessions and seats (`Server/ServerSession.cpp`, `ServerState.h`) | a session per ENet peer, `playerIdPool`, `playerSlots`, `disconnectedPlayerReclaims` | begin, accept, release a session; acquire and release an id; reserve by name | called by event and Hello handlers, notifies the round flow | long sequences of joins, refusals, reclaims; undo when Welcome cannot be queued | sessions, seats, free ids and reclaims never disagree; wins follow their owner |
| Round flow (`ServerLobbyFlow.cpp`, `ServerFlow.cpp`, `ServerMatchFlow.cpp`, `ServerControlHandlers.cpp`) | phase, match ids, masks, four deadlines, match players, verdict | Hello, LobbyReady, MatchLoaded, disconnect; countdown, bootstrap, commit, unlock, end, return | broadcasts to every client; driven by packets and ticks | any order of control packets, disconnects and ticks; a send that fails half-way | one round at a time, none left half-formed, every client told, no phase for ever |
| Simulation tick (`ServerSimulation.cpp`, `ServerSnapshot.cpp`) | server tick, player positions | resolve inputs, move, place and explode bombs, powerups, snapshot, correction | everything above | order within a tick | see bombs, input |
| Input stream (`NetClient::sendInput`, `ServerInputHandlers.cpp`, `resolveMatchPlayerInputForTick`) | client history; server ring, last received and processed sequence, consume deadline | send a batch; buffer a batch; consume one per tick | unreliable channel | loss, redundancy, drifting clocks, ring slots reused | an input is applied once, on its tick, or replaced by held buttons |
| Bombs and explosions (`ServerBombs.cpp`) | bombs, tiles, per-owner counts | place, explode, kill, destroy bricks | BombPlaced, ExplosionResolved events | several bombs due on one tick, owner gone | one outcome for all, counts match the map |
| Client authority merge (`MultiplayerLevelScene.Authority.cpp`, `NetClient.Protocol.cpp`) | pending events, latest snapshot, shown bombs and tiles, last applied ticks | queue, consume, apply snapshot, apply event | two channels that overtake each other | stale snapshots, several events of a tick, queue overflow | the client comes to see the server's arena |
| Client session (`NetClient*.cpp`) | connection state, handshake, cached match flow | connect, Hello, Welcome or Reject, caches per message, disconnect | scenes poll it | stages missed between two polls, stale match ids, timeouts | client and server agree on which match is on |
| Prediction (`ClientPrediction.cpp`) | history of inputs and predicted states | predict, acknowledge, reconcile and replay, suspend | corrections | history overwritten, tiles changed meanwhile | equal inputs give the server's position |
| Powerups (`ServerPowerups.cpp`) | hidden, revealed, collected, effect deadlines | place, reveal, collect, expire | bombs, snapshots | two players on one cell, expiry with bombs out | an effect comes from one powerup and serves one player |
| Movement, map (`Sim/*.h`) | none | pure fixed-point functions | server and prediction | boundaries of the fixed-point grid | never inside a wall, same on both sides |
| Wire protocol (`Net/*.h`) | none | encode, decode, check sizes, channels and fields, dispatch | ENet | limits and orders checked on one side and established on the other | what one side has reason to send the other accepts; what it accepts its handlers can use |
| Connect, lobby and level scenes | polled flags | toggle ready, start level | client session | a poll that misses a stage | see client session |
| Game loop (`Game.cpp`) | held keys, accumulator | events, pump, fixed steps | scenes, client session | any number of each per frame | see client session |
| Single-player game, enemies, presentation, diagnostics, logging | outside the protocol | | | | |
| ENet (vendored) | peers, queues | | | | external: section 3 |

The hazards behind these, one by one and with their lines, are listed in
`PROJECT.json` with the properties that cover them.

## 2. The modules

```
ServerSession  <-EXTENDS-  ServerFlow
ServerFlow     <-EXTENDS-  ServerStreams  <-EXTENDS-  MCServerFlow
ServerFlow     <-EXTENDS-  ServerBattle   <-EXTENDS-  MCServerFlow
  ServerFlow     -INSTANCE-> RoundLifecycle                            (abstract)
  ServerStreams  -INSTANCE-> RoundStream                               (abstract)
  ServerBattle   -INSTANCE-> RoundBattle                               (abstract)

Movement  <-EXTENDS-  Arena       <-EXTENDS-  MCArena
             |          |         <-EXTENDS-  ArenaWire  <-EXTENDS-  MCArenaWire
             |          |                         '-INSTANCE-> Wire
             |          '-INSTANCE-> RoundBattle                      (abstract)
             '-EXTENDS-  Prediction  <-EXTENDS-  MCPrediction

Wire         <-EXTENDS-  WireTrip  <-EXTENDS-  MCWireTrip
RoundStream  <-EXTENDS-  ClientSession
InputStream  <-EXTENDS-  MCInputStream
ClientWorld  <-EXTENDS-  MCClientWorld

proofs (TLAPS), each module on top of the one it is about:
  ServerFlow (with ServerStreams, ServerBattle)  <-  ServerFlowProofs
  Arena          <-  ArenaProofs
  ArenaWire      <-  ArenaWireProofs   -EXTENDS-> ArenaProofs, -INSTANCE-> WireTripProofs
  InputStream    <-  InputStreamProofs
  ClientSession  <-  ClientSessionProofs
  ClientWorld    <-  ClientWorldProofs
  Prediction     <-  PredictionProofs
  WireTrip       <-  WireTripProofs
```

The parts meet in three abstract modules. `RoundLifecycle` is what the round
flow promises. `RoundStream` is the server as one connection shows it:
`ServerFlow` implements it and `ClientSession` plays against it. `RoundBattle`
is a match as the flow sees it: `Arena` implements it with real bombs, and
`ServerFlow` never uses the match state otherwise.

Definitions marked `Mutant` are not part of a specification. Each is a
plausible slip in the definition that follows it, kept to show that a property
notices it; `PROJECT.json` says which.

### ServerSession, ServerFlow

`ServerSession` has the sessions and seats, as operators; `ServerFlow` composes
them with the round flow and has the actions. As the server is one thread, an
action is one whole event handler or one whole simulation tick, every
broadcast included.

| code | model |
|---|---|
| `PeerSession::playerId`, `playerIdPool`, `playerSlots`, `disconnectedPlayerReclaims` | `playerOf`, `freeIds`, `slots`, `reclaims` |
| `phase`, `currentMatchId`, `nextMatchId`, the three masks | `phase`, `matchId`, `nextMatchId`, `countdownMask`, `playerMask`, `loadedMask` |
| the four deadline ticks (0 = none) | `timer`, in ticks left (`Unset` = none) |
| `matchPlayers` (present, `alive`, not `inputLocked`), `bombs` | `inMatch`, `alive`, `unlocked`, `bombsLive` |
| `onHello`, `reserveHelloPlayerId`, `queueWelcome`, `acceptPeerSession`, `handleAcceptedPlayerJoined` | `Hello`, `Reserves`, `AcceptPeerSession`, `HandleAcceptedPlayerJoined`, `RejectHello` |
| `onLobbyReady`, `handleLobbyReadyStateChanged` | `LobbyReady`, `HandleLobbyReadyStateChanged` |
| `onMatchLoaded`, `markPlayerLoadedForCurrentMatch`, `maybeCommitMatchStart` | `MatchLoaded`, `MarkPlayerLoadedForCurrentMatch`, `CommitMatchStart` |
| `handleDisconnectEvent`, `releasePeerSession`, `handleAcceptedPlayerReleased` | `DisconnectUnaccepted`, `DisconnectAccepted`, `ReleasedInLobby`, `...WhileStarting`, `...LastOfRound`, `...FromRound` |
| `simulateServerTick`, `advanceServerFlow` | `Tick`: `CountdownTick`, `StartingTick`, `MatchTick`, `EndOfMatchTick` |

What was sent is kept as `lastFlow[p]`, the last batch of round-flow messages
queued to a peer (the control channel is reliable and ordered, so that is what
the client will end up with), and `lastLobbyState`, the content of the last
lobby broadcast. `clientLoaded`, the newest level each client has built, is the
only client state here: a client may send `MatchLoaded` for any match up to it,
so acknowledgements may come late.

Points a reader may stumble over:

- A duplicate Hello of a seated peer only replays Welcome and changes nothing.
  Whether a Welcome can be queued is left open (`welcomeQueued`), which reaches
  the undo in `queueWelcome`.
- Which bomb kills whom is left open: a tick may kill any of the living while a
  bomb is on the map. That this is all the flow needs to know is what
  `RoundBattle` is for.
- A tick in `Lobby` changes nothing and is left out.
- Some code turns out to be dead and is modelled all the same: the
  re-validation in `beginMatchBootstrap`, the rebroadcast of an unchanged
  countdown, `handleAcceptedPlayerJoined` outside the lobby, and
  `ReleasedLastOfRound` from `InMatch` (with two alive, one leaving decides the
  round first). `CountdownIsCurrent` and `RoundShape` are why.
- `currentMatchGoShowTick`, read by presentation only, is left out.

### RoundLifecycle

What the flow promises, without sessions, packets or deadlines: a round is
formed by two or more, aborted while loading or started; a started one is
decided, then left. `ServerFlow!Lifecycle` is its instance under the refinement
mapping (phase to stage, `playerMask` to members, `nextMatchId - 1` to rounds
issued). A round whose `LevelInfo` cannot reach everybody is `FormInVain`: its
id is used up.

### RoundStream, ServerStreams, ClientSession

A client composed with the whole of `ServerFlow` is beyond TLC, so the
composition goes through an interface. `RoundStream` is the server's round flow
as one client sees it over one connection: the stage of the round it has a part
in, its ready flag, whether its level counts as loaded, and the batch of
messages queued to it last. What other players do is nondeterminism. Both sides
are checked against it: `ServerStreams` states that every connection of
`ServerFlow` implements `RoundStream` (a step of the server is a step or a
stutter of every stream), and `ClientSession` puts a client on the other end of
the messages.

| code | `ClientSession` |
|---|---|
| `NetClient::state_`; the five failed states | `state`; `"Failed"` |
| `MatchFlowState`: level info and its pending flag, start, cancelled, result | `flow` |
| `cachedLobbyState`, by this client's own seat | `lobby` |
| `SceneManager::currentScene` | `scene` |
| `LobbyScene::pendingReadyState_` | `pendingReady` |
| `MultiplayerLevelScene`: `matchId_`, `matchLoadedAckSent_`, `matchStarted_`, result shown | `level` |
| `pumpNetwork` and the handlers it dispatches to | `PumpConnect`, `PumpDisconnect`, `PumpHandshake`, `PumpLevelInfo`, `PumpLobbyState`, `PumpMatchStart`, `PumpMatchCancelled`, `PumpMatchResult`, `PumpWhileLeaving`, `SessionTimeout` |
| `update` of the connect, lobby and level scenes | `StepConnect`, `StepEntersMatch`, `StepLobby`, `StepLevel`, `StepUnconnected` |
| keys and buttons | `OpenConnectScene`, `BeginConnect`, `PressReady`, `EscapeConnect`, `EscapeSession`, `Restart` |

A frame of `Game::run` handles key events, then all packets that have come, then
fixed steps, and has any number of each, none included: a frame of 8 ms often
has no step, a slow one several, and packets come when they come. So the actions
are one key event, one packet and one fixed step, in any order, and lose
nothing. The timers (connect, handshake and disconnect timeouts, the echo of a
ready request, the bootstrap timeout) may fire whenever they are armed.
`Restart` is quitting, with or without a completed goodbye, and starting again.
Once the transport is gone the server's old session plays no part for the next
connection: it is another player's, and what it causes is `OthersPlay` and the
choice between actions. `link` is the connection as ENet has it on both sides,
lagging ends included. `gaveUp`, `asked`, `retried` and `atRest` are history.

### InputStream

One player's input in one match, from `sendInput` to the command a tick
applies. The buttons of sequence `s` are `s`, so no two inputs can be mistaken
for one another. Client steps, the network and server ticks are independent
actions: the clocks drift freely. `KilledInBlast` is a step of its own because
other players' bombs decide it, after this tick's input was used;
`LockActiveMatchInputs` also happens outside a tick, in a disconnect handler.
`heard`, `late` and `waited` are history and are read by no action.

### ClientWorld

The server's bombs and bricks, the two channels, and the client's merge of
them. `ServerTick` explodes what is due and places bombs, and tells of both one
cell after another in any order. One `UpdateLevel` is a frame: every queued event
is applied around the newest snapshot, as `consumeAuthoritativeNetState` does.
`Merge` is a fold of `Consume`, one turn of that function's loop, over the queue,
with the snapshot applied at the end if no event came after it. What an explosion
destroys is a constant `Reach` of the cell; sight lines are `Arena`'s matter. A
bomb is known to the model by its cell and the tick it was placed; the client's
merge uses the cell only. Overflow of the event queue gives the stream up, and the scene then
leaves.

### Movement

The rules that server and client share, as operators: `StepMovementWithCollision`
moves one axis after the other, `OverlapsWall` looks at the four corners of the
square hitbox with C++'s division toward zero, `GeneratedMap` is a map for any
choice of bricks. A tile is `TileQ` units (256 in the code); the instances use
four, with hitbox and steps in proportion.

### Arena

The server's part of a match: positions, bombs, blasts, bricks, powerups. A tick
is one call of `simulateServerTick` but a sequence of steps here, with nothing
between them, so that properties can speak of its middle: that is where the code
could go wrong, one player or one bomb after another.

| code | `Arena` |
|---|---|
| `MatchPlayerState`: present, `alive`, `inputLocked`, position, last bomb key, `activeBombCount`, loadout, four effect deadlines | `inMatch`, `alive`, `locked`, `pos`, `held`, `activeBombs`, `maxBombs`, `bombRange`, `effect` |
| `ServerState::tiles`, `bombs`, `powerups` | `tiles`, `bombs`, `powerups` |
| `advanceServerFlow` within a tick | `StartTick` |
| `simulateAcceptedMatchPlayer` with `tryPlaceBomb` | `SimulatePlayer`: `TryPlaceBomb`, `Act`, `Idle` |
| `resolveExplodingBombs`, `resolveBombExplosion` | `ResolveExplodingBombs`, `ResolveBombExplosion`: `BlastCells`, `Explosion`, `Killed`, `Released` |
| `collectRevealedPowerups`, `evaluateRoundEnd` | `FinishMatchTick`: `CollectRevealedPowerups`, `LoadoutOfCollectors`, `RoundDecided` |
| `beginMatchBootstrap`, `beginEndOfMatch`, `resetRoundRuntimeToLobby`, `releasePeerSession` | `BeginRound`, `EndRound`, `ResetToLobby`, `Disconnect` |

Ticks are relative, as elsewhere: a fuse or an effect is what is left of it.
`toldBombs`, `toldBricks` and `toldKilled` add up what the round's reliable
events have told the clients; `tickStart` is what the tick found. No action
reads them.

### RoundBattle, ServerBattle

`RoundBattle` is a match without positions: nobody dies without a bomb that was
there before the tick, no bomb appears that nobody could have placed, and the
tick that leaves at most one alive ends the round. `Arena!Battle` maps the whole
of a tick to its last step (while a tick runs, the battle is as `tickStart` has
it). `ServerBattle` maps `ServerFlow`, with lobby, countdown and loading all
before the battle.

### Prediction

The local player in his own client beside the server's copy of him.
`ApplyLocalInput`, `ReconcileAndReplay`, `Rebase`, `EnterRecovery` and
`Suspended` are `ClientPrediction`'s functions on its state `prediction`, with
the two rings of `HistorySize` entries indexed as in the code. The scene feeds
it by `LocalInput`, `ApplyCorrection`, `ApplySnapshot`, `ExplosionResolved` and
`UnlockGameplay`, gated by `AllowsLocalGameplayInput`. The server consumes one
sequence a tick (`TickExact`, or `TickGap` with the last buttons), destroys
bricks, boosts and kills the player at will. Corrections and snapshots may be
lost, and stay in the client's caches until a newer one replaces them.
`baseline` is history: the last correction taken, and what the client knew then.

### Wire, WireTrip, ArenaWire

`Wire` has what the serializers write and what the receivers accept: layouts,
counts, limits, orders, channels, headers. A payload is the sequence of its
fields. `WireTrip` sends one packet from what the programs put into their
messages, at the boundary values of each, as it is or with one field, its length
or its channel changed. `ArenaWire` builds the snapshots and events of `Arena`
and passes them through `Wire`.

## 3. What is assumed of ENet

ENet is vendored (`src/third_party/enet`) and external to the models. They rely
on this much of it, read from its source:

- `enet_peer_send` refuses a peer that is not CONNECTED (`peer.c:113-116`), and
  the dispatcher hands out packets of CONNECTED peers only
  (`protocol.c:59-117`). So a link is `open`, `closing` or `free`: it can be
  sent to and received from exactly while open.
- `enet_peer_disconnect_later` leaves CONNECTED at once (`peer.c:591-602`). A
  closing peer raises one DISCONNECT event, at any later time.
- Reliable channels deliver everything in order. The game's unreliable packets
  carry no UNSEQUENCED flag, so a late one is dropped (`peer.c:906-912`): they
  are lost but neither reordered nor duplicated within a channel. Different
  channels do not wait for each other.

## 4. What TLC checks

| run | instance | properties | distinct states |
|---|---|---|---|
| `flow_small` | 3 peers, 2 seats, 2 names, 2 matches, symmetry | safety of ServerFlow, refinement of RoundLifecycle, every connection a RoundStream | 15 684 |
| `flow_live` | 3 peers, 3 seats, 1 match, 2 ticks a second, fairness, no symmetry | liveness, fair refinement, refinement of RoundBattle | 57 750 |
| `session` | 2 matches, 4 messages to the client and 3 to the server, fairness | agreement of client and server, scenes, joining and leaving matches | 223 964 |
| `session_menu` | the same, no fairness | `MenuHoldsNoSession`, violated | |
| `input_ring` | batches of 2 (ring of 4), lead 2, 6 inputs, 7 consumptions, 3 packets in flight | ring and application of inputs | 20 788 |
| `input_lead` | the same, lead 1 | `LeadKept`, violated | |
| `client` | 2 cells, 3 bricks, 6 ticks, at most one event a tick, queue of 3 | convergence of bricks and bombs, no exploded bomb returns | 130 066 |
| `client_sametick` | 4 ticks, up to two events a tick, queue of 2 | `BricksConverge`, violated | |
| `arena` | 2 players, a corner of 5 cells, 2 bricks over a second bomb and a shield, fuse and effects of 3 ticks | bombs, blasts, effects, positions, packets; refinement of RoundBattle | 305 240 |
| `arena_crowd` | 3 players, a lane of 4 cells, no bricks, fuse 2, fairness | events against snapshots, every bomb goes off | 68 069 |
| `prediction` | a brick beside the spawn, ring of 1, 2 inputs, one change of map or speed, fairness | replay, agreement with the server, convergence | 218 975 |
| `wire` | every message type, boundary values, one change each | packets arrive as sent; what arrives can be used | 36 883 |

**ServerFlow.** `SeatOwnership`: sessions, seats, free ids and reclaim entries
agree. `CountdownIsCurrent`: a running countdown is about exactly the players in
the lobby, all ready, so one that runs out always starts a round.
`RoundMembership`: participants, match state and accepted players, maintained
by different handlers, are one set during a round. `NoRoundResidue`: whichever
way a round ended, nothing of it is left. `RoundShape`: what each phase of a
round has; no round sits waiting for acknowledgements it has, or is played on
once decided. `LoadedBeforeStart`: a stale acknowledgement never counts.
`ToldTheTruth` and `LobbyViewIsCurrent`: every client's last message is the one
for the server's phase, and every lobby shows the server's. `WinsAreEarned`: a
win count changes by one victory, survives a reclaim and goes to nobody else.
`ImplementsLifecycle`: refinement of `RoundLifecycle`. `ImplementsStreams`: whatever the other players do, the messages one client gets
tell a story that makes sense on its own, the one `RoundStream` tells.
`FlowImplementsBattle`: the flow takes the match state only through steps of a
battle. Under fairness, `TimedPhasesEnd` and `ImplementsFairLifecycle`.

*Bounds.* Three peers for two seats give full servers, a peer that takes the
seat another left, and races of a disconnect with a join; two names give
reclaims by the owner and by somebody else; two matches give stale
acknowledgements and residue; wins modulo 2 make the counter of a byte wrap
within two wins. Two seats cannot show that a round survives a death or a
leaver, and one tick per second cannot show a countdown tick without a
broadcast: `flow_live` has both. All deadlines are two ticks, so every event
can come before, between and after them. `MaxMatches` is a guard of
`LobbyReady`: players stop readying up after it. Peers and names are
interchangeable and `flow_small` checks no liveness, so symmetry is sound there;
`flow_live` does without it.

*Fairness.* `WF(Tick)`: the loop of `server_main.cpp:349-384` runs a tick
whenever 1/60 s has passed. It assumes that draining the event queue before
(`ServerEvents.cpp:107-124`) terminates. `WF` of each peer's disconnect: ENet
raises the event of every peer that has left the connected state. Nothing is
assumed of the players: they may never ready up, load, leave or die, so
nothing says that a match ends.

**ClientSession.** `Agreement`: whenever nothing is in flight and a fixed step
of the client would change nothing, a connected client shows the lobby with its
own ready flag exactly if the server is in the lobby, and else the level of the
server's match, as far along as the server. It has two exceptions, which are
behaviour of the code and not of the model. A client whose bootstrap has timed
out (7 s, against 5 s of the server's load deadline) goes back to a lobby scene
that waits while the match is on. And a ready request may be repeated when its
echo is four seconds late; if the first was only late, the second can make the
player ready in a later lobby and take a client that has run no fixed step
meanwhile into the next match with the level of the last, until its bootstrap
timeout. `NothingCarriesOver` and `SceneMatchesCache` say that this is the only way
to be ready unasked, or to show one match over the caches of another; and that no
start, however late, starts another match's level.
Under fairness, `RoundIsJoined` and `NobodyStranded`.

*Bounds.* Two matches are what stale messages and caches need: one to come from
and one to be mistaken for. The server's ticks (`ServerActs`) keep room for a
batch of three: with four messages in flight they may follow one unread message.
What matters, that the client reads any number of messages between two fixed
steps, is there whatever the room, as reading and stepping are separate actions.
`PressReady` and `StepLevel` do nothing while `MaxToServer` messages are on
their way to the server: that only delays them, as the server reads on.

*Fairness.* The server reads (`WF`, its loop drains events), the client's loop
pumps and runs fixed steps (`WF` of `Pump` and of `Step`, `Game.cpp:216-239`),
ENet gives up a peer that has gone, and the bootstrap deadline passes. Nothing
is assumed of the server's deadlines nor of the player.

**InputStream.** `RingHoldsTheFuture`: the ring holds exactly the sequences
that came in time and are still to be processed, with their own buttons.
`InputsApplyOnTheirTick`: a tick processes at most one sequence, in order; one
that came in time in any packet is applied on its tick and on no other, and
the last buttons are held for one that did not. With a ring of 4 and 6 inputs
every slot is reused, and the farthest accepted input (3 ahead) and the first
refused one (4 ahead) both occur. `heard` is stated with the same acceptance
window as the code, over the nominal last `BatchSize` sequences of a packet:
the property says what happens to those, not that the window is wide enough.

**ClientWorld.** `BricksConverge` and `BombsConverge`: once every event has been
shown, the client has the server's bricks and bombs, whichever snapshots were
lost or overtaken. `NoBombReturns`: a bomb seen to explode is never shown
again. Two cells with one shared brick give a brick reached by two bombs;
six ticks with a fuse of two give a bomb placed on the cell of an earlier one;
a queue of three overflows when a frame is long. Server ticks are bounded by
`MaxTick`, so these runs stop and deadlock is not checked. `client` limits the
server to one event per tick; the next section says why.

**Arena.** `BombsAccounted`: the count that limits a player's bombs is the number
of his bombs on the map, through deaths, expired limits, departures and ends of
rounds. `BlastsAreSimultaneous`: the bombs of one tick are resolved one after the
other, but what they destroy and whom they kill is what each reaches on the board
as the tick found it, by a definition of reach of its own (`InBlast`).
`LossesToldOnce`: the events report every brick and every death once.
`EffectsComeFromPowerups`: a powerup serves one player once. `OutOfPlay`: the
dead and the locked do nothing, from the very step of the tick on that makes them
so. `InTheOpen`: no point of a player is ever in a solid tile, though only
corners are looked at and the map changes. `EventsMatchSnapshots`: bombs as the
events tell them are the bombs of a snapshot, which has room for all.
`MessagesArrive`: every snapshot and event built is accepted and read as built by
a client, whose checks (ascending cells, no duplicates, owners in range, blasts
that contain their bricks) the server never looks at. `ImplementsBattle`:
refinement of `RoundBattle`. Under fairness, `BombsGoOff`.

*Bounds.* The corner has two players in one row, two bricks behind one another
(the second is out of reach until the first is gone, except by a blast of the
same tick) and a cell to hide in, with every placement of the two powerups. A
second bomb gives chains and a limit that expires under its bombs; a shield gives
survivors within a blast, without whom the round would end. Fuses and effects of
three ticks make effects expire before, with and after the bombs. A step of three
quarters of a cell, and of a half in the lane, puts players in one cell or across
two. Only three players show a round that goes on over a death or a
departure, with the bombs of the dead and of those who left: `arena_crowd`. The
speed and range boosts differ from the other two only in the number they change;
the speed boost is in `prediction`. Rounds follow one another without bound.

*Fairness.* `WF(TickStep)`, as for the flow: the main loop ticks.

**Prediction.** `PredictionIsReplay`: what the client shows while it predicts is
the last correction plus every later input of an unbounded history, though it
has a ring; while it recovers, authority's own position. `AgreesWithServer`:
where client and server have used the same inputs on the same map, a correction
moves nothing, which is the point of sharing `Movement`. `Converges`: in the end
a player who may act is predicted again, and is where the server has him.

*Bounds.* A ring of one is overwritten by the second input, so recovery, with a
replay that fails and one that succeeds, comes within two inputs. The brick is
beside the spawn cell: an input is blocked or not depending on which side has
seen the explosion. `MaxChanges` allows one change of map or speed in a
behaviour; the two are independent, and each meets every loss and delay.

*Fairness.* Both loops run (`WF` of the server's ticks, of input and of unlock);
not every message is lost (`SF` of sending and of applying a correction and a
snapshot); reliable events arrive (`WF`).

**Wire.** `DeliveredAsSent`: no first input batch, last tick of a countdown,
nameless winner, cut name or negative position is taken for a malformed packet.
`HandlersMayRelyOnIt`: if a packet of another build, length or channel is
accepted at all, its handler can rely on it: ids and cells are in range, nothing
is listed twice, names end, and it could have been sent as it is.
*Bounds.* A board of three by three, two of everything a message lists, names up
to and beyond their field: each limit is met, missed by one and passed by one.

## 5. Where the code and its documents disagree

- **Two gameplay events of one tick** (`client_sametick`). The client drops an
  `ExplosionResolved` whose tick is not later than that of every event applied
  before (`MultiplayerLevelScene.Authority.cpp:195`). The server sends one event
  per bomb, all with the same tick, and placements of that tick before them.
  The later explosion is then lost on that client: its bricks, destroyed on
  the server, stay. `docs/testing.md:259` expects that destroyed bricks never
  remain on any client; `docs/testing.md:232` reports having seen it.
  `client` shows that with one event a tick they do converge.
- **Escape while connecting** (`session_menu`). `ConnectScene.cpp:166` says that
  leaving the connect scene only needs to cancel a connect or handshake in
  flight. But Welcome is pumped once a frame while the scene follows in a fixed
  step, and a client's frames (8 ms) are shorter than a step (16.7 ms). Escape
  between the two finds the client `Connected` and cancels nothing: the player is
  in the menu with a seat on the server, never ready, and no countdown starts
  for the others until that client connects again from the menu (which shows
  the lobby at once) or quits.
- **Input lead of a late first input** (`input_lead`). The comment at
  `ServerSimulation.cpp:51` says that a first input after the nominal deadline
  is realigned to keep the lead. The branch needs `inputTimelineStarted` to be
  false, but the commit of the match has set it for everybody
  (`ServerLobbyFlow.cpp:247-255`): the input is consumed at once, without lead.

## 6. What is proved

Every theorem holds for all values of the constants that satisfy the named
assumptions of the modules (table below), so for any number of players, peers,
matches, bombs and powerups, any board and any tick counts.

| module | theorem | states |
|---|---|---|
| `ServerFlowProofs` | `TypeCorrect` | `Spec => []TypeOK` |
| | `SeatsCorrect` | `Spec => []SeatOwnership` |
| | `RoundsCorrect`, and from it `CountdownCorrect`, `MembershipCorrect`, `ResidueCorrect`, `ShapeCorrect` | `Spec => []RoundInv`, and `[]` of each of its four parts |
| | `ClientsToldTheTruth` | `Spec => [](ToldTheTruth /\ LobbyViewIsCurrent)` |
| | `LifecycleImplemented` | `Spec => ImplementsLifecycle` |
| | `LoadingCorrect`, `LobbyViewCorrect` | `Spec => []LoadedBeforeStart`, `Spec => []LobbyViewIsCurrent` |
| | `WinsCorrect` | `Spec => WinsAreEarned` |
| | `StreamsImplemented` | `Spec => ImplementsStreams` |
| | `FlowBattleImplemented` | `Spec => FlowImplementsBattle` |
| `ArenaProofs` | `TypeCorrect` | `Spec => [](TypeOK /\ StageShape)` |
| | `BombsCorrect`, `EventsCorrect`, `LossesCorrect` | `Spec => []` of `BombsAccounted`, `EventsMatchSnapshots`, `LossesToldOnce` |
| | `OutOfPlayCorrect` | `Spec => OutOfPlay` |
| | `PositionsCorrect` | `Spec => []InTheOpen` |
| | `BattleImplemented` | `Spec => ImplementsBattle` |
| | `BlastsCorrect`, `EffectsCorrect` | `Spec => []` of `BlastsAreSimultaneous`, `EffectsComeFromPowerups` |
| `InputStreamProofs` | `TypeCorrect`, `RingCorrect` | `Spec => []` of `TypeOK`, `RingHoldsTheFuture` |
| | `InputsCorrect` | `Spec => InputsApplyOnTheirTick` |
| `ClientSessionProofs` | `TypeCorrect`, `CarriesCorrect`, `SceneCorrect`, `AgreementCorrect` | `Spec => []` of `TypeOK`, `NothingCarriesOver`, `SceneMatchesCache`, `Agreement` |
| `ClientWorldProofs` | `TypeCorrect`, `ReturnsCorrect` | `Spec => []` of `TypeOK`, `NoBombReturns` |
| | `BricksCorrect`, `BombsCorrect` | with `MaxEventsPerTick = 1`: `Spec => []` of `BricksConverge`, `BombsConverge` |
| `PredictionProofs` | `TypeCorrect`, `ReplayCorrect`, `AgreementCorrect` | `Spec => []` of `TypeOK`, `PredictionIsReplay`, `AgreesWithServer` |
| `WireTripProofs` | `TripInvHolds`, and from it `DeliveredHolds`, `ReliableHolds` | `Spec => []TripInv`, and `[]` of `DeliveredAsSent`, `HandlersMayRelyOnIt` |
| `ArenaWireProofs` | `MessagesCorrect` | `Spec => []MessagesArrive` |

| assumption | says | why the code justifies it |
|---|---|---|
| `ServerSession`, `ServerFlow` | `MaxPlayers` and `WinsModulus` positive, `NoName` not a name, tick counts positive | `kMaxPlayers`, the width of `wins`, the empty name, `ServerState.h`'s constants |
| `Movement` | a grid of at least one cell; a square hitbox no wider than a tile | `kPlayerHitboxScale`, one half |
| `Arena` | finitely many players; a border of stone and no brick on a spawn cell; positive fuse and effect ticks; a snapshot has room for everybody's boosted number of bombs | `SpawnSlots.h`, `SimConfig.h` and their `static_assert`s |
| `InputStream` | a batch, a ring twice its size, a lead that fits in the ring, a positive unlock delay | the `static_assert`s of `NetCommon.h` |
| `ClientWorld` | cells are numbers; a fixed reach per cell; positive fuse, interval and queue | as in `Arena`; `GameplayEvents` queue |
| `Prediction` | a history of at least one slot; a generated map with an open spawn cell, and what is left of it when bricks go; button masks with the empty one among them; speeds that are naturals | `kClientPredictionHistorySize`, `SpawnSlots.h`, `NetCommon.h`, `SimConfig.h` |
| `Wire`, `WireTrip` | positive sizes, a board that fits a field; a board of at least three by three; counts, player ids and masks fit a byte, the last id is below the code for no winner; ticks, positions, the tick rate and a countdown's seconds fit their fields; names are of characters other than NUL | the constants and `static_assert`s of `NetCommon.h`; names are read from C strings |
| `ArenaWire` | `PacketsAssumption`: ids are numbered from zero and at most 255; a board of at least three by three; a byte holds more than 255 values, larger fields no fewer; lists, ranges and a mask of all players fit a byte; the fuse fits a tick; positions on the map or a tile beyond it fit their field. `PowersAssumption`: the powers of two for the players' bits, as numbers (the provers know nothing of `^`) | `kMaxPlayers`, `tileArrayWidth`, `kMaxSnapshotBombs`, `kMaxExplosionBlastCells` and the field types of `NetCommon.h`; `SimConfig.h`; arithmetic |

### The arguments

*Round flow.* Layers, each using the invariants below it: types, one lemma per
action over lemmas for the shared transitions; seats, where only accepting and
releasing move `SeatOwnership`; rounds, where none of `CountdownIsCurrent`,
`RoundMembership`, `NoRoundResidue` and `RoundShape` is inductive alone (that a
commit starts a match with two alive needs the shape of the loading round, that
shape needs the countdown it came from to be current, and that a countdown forms
a clean round needs that nothing was left of the last), so `RoundInv` is their
conjunction; views, as every handler that changes phase queues the message of the
new phase last; and refinement, each action being one step of `RoundLifecycle`
or a stutter.

*Rounds from outside*. `LoadInv` adds to `RoundInv` that no
client has built, or been sent, a level that has not been issued and that a bit
of `loadedMask` stands for the current level. A win is one by the step that files the
verdict: `EarnedStep(id)` is shown per action. For a stream, each action is first
reduced to what it queues for one attached client; the step of `RoundStream`
follows from the phases before and after.

*Arena.* A tick is several steps, so every invariant also says how far the tick
has come. `BombInv` carries `BombsAccounted` through a tick: one bomb per cell,
each owner's count the bombs of his that are on the map, and `EventsMatchSnapshots`
as a count over finite sets. `InTheOpen` is a fact of arithmetic about
C++ division toward zero: a square no wider than a tile that starts in the open
stays there, one axis at a time. The battle needs `TickSoFar`: a tick that has
killed found a bomb, one that has a bomb found one or had somebody free to place
it, and whom it killed it locked. `BlastsAreSimultaneous` compares
the walk along four directions with the lines of sight, and its invariant
`BlastInv` says that the bombs gone off so far have taken the bricks and the lives
that they reach on the board before, and nothing else.

*Input stream.* Everything the server has heard and not processed lies less than
one ring ahead of what it has processed (`RingInv`), so two such sequences never
share a slot: `OneSlotEach`, the one fact about `%` the proof rests on.
`HistoryInv` and `NetworkInv` say that a batch carries what was pressed, whatever
part of the client's ring it was cut from.

*Client session.* `SessionInv` in six parts: what can be in flight before there
is a session; matches are announced in order and a level still to be shown has
not been acknowledged; once an acknowledgement has counted no earlier ready
request is on its way; a ready request finds the lobby it was made in, because the
client makes another only when the last has been echoed; the last message in
flight, or else the cache, says what the server is doing; a client at rest has
acted on its cache. Every step is first described by what it changes of messages,
caches and scenes (`StepCases`); each part is then kept by every such change.

*Authority merge.* The queue is of any length, so the merge has to be unfolded
for every length. The library's induction rules take an operator and no
installed prover instantiates them, but `<` is well founded on `Nat`
(`NatLessThanWellFounded`) and a set of naturals therefore has a least element
(`WFMin`), both of which are statements about sets. `FoldSteps` and `FoldKeeps`
derive from them the rule the rest uses: what `Consume` keeps, `Merge` keeps.
`WorldInv` orders both channels by the fuse: events come in the order of their
ticks, a bomb explodes exactly `FuseTicks` after the event that placed it, and no
snapshot holds a bomb whose fuse had burnt; so a snapshot that still has an
exploded bomb is older than the explosion applied and is refused, and
`NoBombReturns` holds however many events a tick has. `ExactInv` says what the
view lacks while events are still to come: the server's bricks are the shown ones
without those the coming events destroy, and a cell no coming event is about
shows what the server has there. It needs `MaxEventsPerTick = 1`, and rightly:
with two events of a tick `BricksConverge` is false, which `client_sametick` shows
and section 5 reports.

*Prediction.* Where inputs lead is a recursive function on a range of
sequences. That it exists and that nothing else satisfies its equations
(`WalkExists`, `WalkIs`) is proved as the rule for `Merge` is, from `WFMin`: the
TLA+ value of a recursive definition is a `CHOOSE`, which says nothing until
existence is known. With that, `ReplayIsWalk`: a replay of the ring is the walk of
the inputs pressed as soon as the ring retains all of them. `RingsInv` says that
an entry is where its sequence belongs and has the buttons pressed for it, so
`findInputHistory` cannot take one sequence for another however often a slot is
overwritten. `BaselineInv` makes the authority last accepted one that the server
has sent; `ReplayInv`, which `PredictionIsReplay` follows from, has the position
and every retained state on the walk from that baseline while the map is still
that of the baseline. (When bricks go afterwards the states kept are those of
the old map until the next correction, in the code as well.) For
`AgreesWithServer` the server's own positions are a walk while nothing changes
(`ServerInv`); they start where the baseline says and take the same inputs, so
`WalkIs` makes them the same.

*Packets.* A payload is a few fields and then tables of rows, some filled and
the rest zero, and the sizes of the tables are constants. `FlattenSeq` is a
recursive function, so what it makes of rows is proved by the same rule on
naturals (`FlattenExists`, `FlattenTable`): the k-th field of the i-th row of
width w is at `(i - 1) * w + k`. From that follow the layouts (`LayoutWidths`),
that rows written with padding are the rows read (`RowsWritten`), also below and
above zero for positions (`SignedAgain`), and that rows read from any fields are
numbers of their widths (`RowsRead`). Each kind of message then has two lemmas.
`...Trips`: a message whose parts fit their fields is read as it was written,
with names cut. `...Reads`: what is read of any fields is such a message, or
`Rejected`; this is where every check of a deserializer is used. That what the two
programs send is of these kinds (`WelcomesSent` to `EventsSent`) needs that the
seconds of a running countdown are neither zero nor too many (`CountdownFits`) and
that the first batches start at a sequence above zero (`InputsSent`). `TripInv` says
that a packet under way has the fields of its type, however it was changed, and
that what a handler is given is `Sound`: it could have been sent as it is. That is
more than `HandlersMayRelyOnIt` asks.

*What the arena sends.* `ArenaWireProofs` uses `WireTripProofs` for the sizes that
the arena has (`TripAssumptions`), so it is left to show that the arena builds only
messages that can be sent (`Sendable`). `MessageInv` adds to `BombInv` what the types
do not say: a player is never farther off the map than a tile, so the clamp of
`buildSnapshot` never acts (`OnTheMap`, from the corners that `InTheOpen` looks at
and the step of one axis); a range is the default or the boosted one, so neither
zero nor too large (`InReach`); and no two powerups still there share a cell
(`Apart`). A sorted list is defined by how many come before each element. That in any order of a
finite set every place is taken exactly once (`RankedLists`) is a count with the
rule on naturals; with it the cells of bombs and powerups ascend as the client
insists (`KeysRise`), and a blast is collected without doubles, its own cell first
(`CollectedIs`). That it fits the message is a count of a row and a column
(`CrossFits`), and that the mask of the killed has no bits but those of players
(`MaskFits`) a sum of powers of two.

### Only model-checked

- Liveness under fairness, which the prover does not reason about:
  `ImplementsFairLifecycle`, `TimedPhasesEnd`, `RoundIsJoined`, `NobodyStranded`,
  `BombsGoOff`, `Converges`.

## 7. Not modelled

- The single-player game (`SingleplayerLevelScene.cpp`, `Enemy.cpp`,
  `Pathfinding.cpp` and the stage scenes). It is sequential, on one thread, and
  shares only the movement rule with the multiplayer game.
- Drawing, sound, sprites, the smoothing of remote players, text fields, banners,
  logging and diagnostics: nothing of them flows back into the game.
- Of the client: remote players and powerups in the merge of snapshots and
  events; the broken event stream beyond giving up (the scene then does what the
  escape key does); the reading of the keyboard, with its suppression of keys
  held since before the match.
- Pacing. `server_main.cpp:356` and `Game.cpp` clamp a frame and run a limited
  number of steps in it, and a backlog is worked off in later frames. The models
  run any number of ticks between two messages, so no order of steps is lost;
  how long a backlog lasts is a matter of real time.
- Input packets of an earlier match. `MsgInput` carries no match id
  (`ServerInputHandlers.cpp:235`). Both sides restart their sequences with each
  match and the server drops what is too far ahead, so such a packet would have
  to be among the first inputs of its match and spend the seconds between the
  two in the network. `InputStream` has one match.
- A client that has fallen behind for good. Gaps advance the server's sequence
  and the client never renumbers (`ServerSimulation.cpp:89`): after a stall beyond
  the catch-up limit every later input is too late. `InputStream` has these
  behaviours; the code promises nothing about them.
- The order of bytes within a field.
- Wrapping of the 32-bit tick, which takes 828 days.

## 8. Plan

The modules are done, and every invariant and every action property that a run
checks is stated by a theorem, as are the refinements of `RoundLifecycle`,
`RoundStream` and `RoundBattle`. The properties that no theorem states are those
of liveness (section 6).

## 9. Running

    tlc -workers 2 -config MCServerFlow_small.cfg MCServerFlow
    for m in *Proofs.tla; do tlapm $m; done
