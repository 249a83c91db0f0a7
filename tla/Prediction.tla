------------------------------ MODULE Prediction ------------------------------
(***************************************************************************)
(* The local player as his own client shows him: inputs predicted at once, *)
(* corrected by the server's owner corrections and replayed after them     *)
(* (ClientPrediction.cpp and the parts of MultiplayerLevelScene that feed  *)
(* it), beside the server that simulates the same inputs.                  *)
(*                                                                         *)
(* Abstractions.                                                           *)
(*  - The server consumes the next sequence on every tick, exactly or with *)
(*    the last buttons when it has not come (InputStream says when); when  *)
(*    it starts to is left open.                                           *)
(*  - Corrections and snapshots are delivered in order or lost, and the    *)
(*    client caches the newest of each.  One of each is under way at a     *)
(*    time, from the tick that sends it until it is applied, lost or       *)
(*    replaced in the cache.                                               *)
(*  - Buttons matter for movement only; facing and statistics are left     *)
(*    out, and so is where snapshots show a player who is not predicted.   *)
(***************************************************************************)
EXTENDS Movement, Sequences

CONSTANTS
  HistorySize,   \* kClientPredictionHistorySize
  StartTiles,    \* the map of the round
  OpenTiles,     \* the same after an explosion has taken its bricks
  SpawnCell,     \* the player's spawn slot
  SpeedQ, BoostedSpeedQ,  \* kPlayerSpeedQ, kSpeedBoostPlayerSpeedQ
  Inputs,        \* the button masks pressed, subsets of Buttons
  MaxSeq,        \* bound of the model: inputs the client sends
  MaxChanges     \* bound of the model: bricks going and boosts collected, in all

ASSUME HistoryAssumption == HistorySize \in Nat \ {0}
ASSUME MapAssumption ==
  /\ IsArena(StartTiles)
  /\ OpenTiles \in [Cells -> TileKinds]
  /\ \A c \in Cells : OpenTiles[c] # StartTiles[c] => StartTiles[c] = "Brick" /\ OpenTiles[c] = "Grass"
  /\ SpawnCell \in Cells /\ StartTiles[SpawnCell] \notin Solid
ASSUME InputAssumption ==
  Inputs \subseteq SUBSET Buttons /\ {} \in Inputs /\ MaxSeq \in Nat /\ MaxChanges \in Nat
ASSUME SpeedAssumption == SpeedQ \in Nat /\ BoostedSpeedQ \in Nat

VARIABLES
  prediction,        \* ClientPrediction
  tiles,             \* the scene's tiles
  gameplayUnlocked, inputLocked, localAlive,   \* the scene's gates
  latestCorrection, latestSnapshot,            \* under way to the scene, or None
  pressed,           \* buttons by sequence number (NetClient's nextInputSeq is its length)
  round, serverTiles, serverPos, boosted, lastApplied,  \* the server's player
  served,            \* what the server made of each sequence: buttons and position
  \* History of the behaviour, read by no action.
  baseline           \* the last accepted correction, and the client when it came

sceneVars == <<tiles, gameplayUnlocked, inputLocked, localAlive>>
serverVars == <<round, serverTiles, serverPos, boosted, lastApplied, served>>
linkVars == <<latestCorrection, latestSnapshot>>
vars == <<prediction, sceneVars, linkVars, pressed, serverVars, baseline>>

None == [none |-> TRUE]
\* A ring entry that is not valid.
NoEntry == [seq |-> 0]
Slots == 0 .. HistorySize - 1
EmptyRing == [i \in Slots |-> NoEntry]
HistorySlot(seq) == seq % HistorySize

Speed(fast) == IF fast THEN BoostedSpeedQ ELSE SpeedQ
\* simulateNextStateFromInput, and the movement of simulateAcceptedMatchPlayer.
Moved(pos, buttons, fast, map) ==
  StepMovementWithCollision(pos, MoveX(buttons), MoveY(buttons), map, Speed(fast))

-----------------------------------------------------------------------------
(* ClientPrediction. *)

\* suspend, and the part of reset that is not statistics.
Suspended ==
  [phase |-> "AwaitingBaseline", recorded |-> 0, authoritative |-> 0, catchUp |-> 0,
   pos |-> [x |-> 0, y |-> 0], fast |-> FALSE, inputs |-> EmptyRing, states |-> EmptyRing]

Store(ring, entry) == [ring EXCEPT ![HistorySlot(entry.seq)] = entry]
\* discardAcknowledgedHistory
After(ring, seq) == [i \in Slots |-> IF ring[i].seq > seq THEN ring[i] ELSE NoEntry]

\* applyLocalInput.  A sequence that does not continue the last one is rejected.
ApplyLocalInput(p, seq, buttons, map) ==
  LET recorded == [p EXCEPT !.inputs = Store(@, [seq |-> seq, buttons |-> buttons]), !.recorded = seq]
      pos      == Moved(p.pos, buttons, p.fast, map)
  IN  IF p.recorded # 0 /\ seq # p.recorded + 1 THEN p
      ELSE IF p.phase # "Active" THEN recorded
      ELSE [recorded EXCEPT !.pos = pos, !.states = Store(@, [seq |-> seq, pos |-> pos])]

\* Mutant: a slot's entry is taken for the sequence looked up.
RetainsSlot(p, seq) == p.inputs[HistorySlot(seq)] # NoEntry

\* findInputHistory
Retains(p, seq) == p.inputs[HistorySlot(seq)].seq = seq

\* Mutant: replay goes on from the predicted position.
ReplayFromPrediction(p, correction, map) ==
  LET at[seq \in correction.seq .. p.recorded] ==
        IF seq = correction.seq THEN p.pos
        ELSE Moved(at[seq - 1], p.inputs[HistorySlot(seq)].buttons, correction.fast, map)
  IN at

\* replayRetainedInputSuffixAfter, when the suffix is complete: the positions from
\* an acknowledged sequence on.
ReplayFrom(p, correction, map) ==
  LET at[seq \in correction.seq .. p.recorded] ==
        IF seq = correction.seq THEN correction.pos
        ELSE Moved(at[seq - 1], p.inputs[HistorySlot(seq)].buttons, correction.fast, map)
  IN at

\* setCurrentAuthoritativeState
AtAuthority(p, correction) == [p EXCEPT !.pos = correction.pos, !.fast = correction.fast]

\* enterRecoveryFromReplayFailure.  What is left of the state history lies after the
\* acknowledged sequence, and all of that is invalidated.
EnterRecovery(p, correction) ==
  [AtAuthority(p, correction) EXCEPT
     !.phase = "Recovering", !.catchUp = p.recorded, !.states = EmptyRing]

\* replayFromAuthoritativeBaseline with its outcome.
Rebase(p, correction, map) ==
  IF \A seq \in correction.seq + 1 .. p.recorded : Retains(p, seq)
  THEN LET at == ReplayFrom(p, correction, map) IN
       [AtAuthority(p, correction) EXCEPT
          !.phase = "Active", !.catchUp = 0,
          !.pos = IF p.recorded > correction.seq THEN at[p.recorded] ELSE correction.pos,
          !.states = [i \in Slots |->
             LET here == {seq \in correction.seq + 1 .. p.recorded : HistorySlot(seq) = i} IN
             IF here = {} THEN NoEntry
             ELSE LET seq == CHOOSE s \in here : TRUE IN [seq |-> seq, pos |-> at[seq]]]]
  ELSE EnterRecovery(p, correction)

\* The prediction core ignores a correction that does not advance authority.
Stale(p, correction) ==
  p.phase # "AwaitingBaseline" /\ correction.seq <= p.authoritative

\* reconcileAndReplay
ReconcileAndReplay(p, correction, map) ==
  LET acked == [p EXCEPT !.authoritative = correction.seq,
                         !.inputs = After(@, correction.seq), !.states = After(@, correction.seq)]
  IN  IF Stale(p, correction) THEN p
      ELSE IF p.phase = "Recovering" /\ correction.seq < p.catchUp THEN AtAuthority(acked, correction)
      ELSE Rebase(acked, correction, map)

-----------------------------------------------------------------------------
(* The scene. *)

\* allowsLocalGameplayInput, before a result and while not leaving.
AllowsLocalGameplayInput(unlocked, locked, alive) == unlocked /\ alive /\ ~locked
Allowed == AllowsLocalGameplayInput(gameplayUnlocked, inputLocked, localAlive)

\* pollNetInput and onNetInputQueued.
LocalInput ==
  LET seq == Len(pressed) + 1 IN
  /\ Allowed /\ seq <= MaxSeq
  /\ \E buttons \in Inputs :
       /\ pressed' = Append(pressed, buttons)
       /\ prediction' = ApplyLocalInput(prediction, seq, buttons, tiles)
  /\ UNCHANGED <<tiles, gameplayUnlocked, inputLocked, localAlive, serverVars, linkVars,
                 baseline>>

\* applyLatestCorrectionIfAvailable and applyAuthoritativeCorrection.
ApplyCorrection ==
  /\ Allowed /\ latestCorrection # None
  /\ latestCorrection' = None
  /\ prediction' = ReconcileAndReplay(prediction, latestCorrection, tiles)
  /\ baseline' = IF Stale(prediction, latestCorrection) THEN baseline
                 ELSE [correction |-> latestCorrection, map |-> tiles,
                       recorded |-> prediction.recorded, sent |-> Len(pressed)]
  /\ UNCHANGED <<tiles, gameplayUnlocked, inputLocked, localAlive, latestSnapshot, pressed,
                 serverVars>>

\* A lock that is new to the scene suspends prediction.
SuspendOnLock(lockNow) == IF lockNow /\ ~inputLocked THEN Suspended ELSE prediction

\* Mutant: a lock is never taken off.
LockShownOrKept == inputLocked \/ latestSnapshot.round # "open"

\* The entry's InputLocked flag.
LockShown == latestSnapshot.round # "open"

\* applySnapshotToRemotePlayers for the local player.  An update takes a correction
\* that it may apply before the snapshot, and unlocks after it.
ApplySnapshot ==
  /\ latestSnapshot # None /\ ~(Allowed /\ latestCorrection # None)
  /\ latestSnapshot' = None
  /\ localAlive' = (latestSnapshot.round # "dead")
  /\ inputLocked' = LockShown
  /\ prediction' = SuspendOnLock(inputLocked')
  /\ gameplayUnlocked' = (gameplayUnlocked \/ latestSnapshot.round # "locked")
  /\ UNCHANGED <<tiles, latestCorrection, pressed, serverVars, baseline>>

\* The local player's share of applyExplosionResolvedEvent, and its bricks.
ApplyExplosion ==
  \/ /\ tiles # serverTiles
     /\ tiles' = serverTiles
     /\ UNCHANGED <<prediction, inputLocked, localAlive>>
  \/ /\ round = "dead" /\ localAlive
     /\ inputLocked' = TRUE /\ localAlive' = FALSE
     /\ prediction' = SuspendOnLock(TRUE)
     /\ UNCHANGED tiles

ExplosionResolved ==
  /\ ~(Allowed /\ latestCorrection # None)
  /\ ApplyExplosion
  /\ UNCHANGED <<gameplayUnlocked, pressed, serverVars, linkVars, baseline>>

\* updateMatchStartFlow: a cached correction shows the unlock tick.
UnlockGameplay ==
  /\ ~gameplayUnlocked /\ latestCorrection # None /\ latestCorrection.round # "locked"
  /\ gameplayUnlocked' = TRUE
  /\ UNCHANGED <<prediction, tiles, inputLocked, localAlive, pressed, serverVars, linkVars,
                 baseline>>

-----------------------------------------------------------------------------
(* The server. *)

LastProcessed == Len(served)
\* bound of the model: one sequence more than the client sends, once it has sent them all.
MayConsume == LastProcessed < MaxSeq \/ (LastProcessed = MaxSeq /\ Len(pressed) = MaxSeq)

\* buildCorrection, and the snapshot of a tick that is due one.
Send ==
  /\ latestCorrection' \in
       {latestCorrection, [seq |-> Len(served'), pos |-> serverPos', fast |-> boosted, round |-> round']}
  /\ latestSnapshot' \in {latestSnapshot, [round |-> round']}

Consume(buttons) ==
  /\ serverPos' = Moved(serverPos, buttons, boosted, serverTiles)
  /\ served' = Append(served, [buttons |-> buttons, pos |-> serverPos'])
  /\ lastApplied' = buttons

\* simulateAcceptedMatchPlayer, by the outcome of resolveMatchPlayerInputForTick.
TickIdle ==
  /\ round' \in IF round = "locked" THEN {"locked", "open"} ELSE {round}
  /\ round' # "open" \/ LastProcessed = 0 \/ ~MayConsume
  /\ UNCHANGED <<serverPos, lastApplied, served>>

TickExact ==
  /\ round = "open" /\ LastProcessed < Len(pressed)
  /\ Consume(pressed[LastProcessed + 1])
  /\ UNCHANGED round

\* The sequence has not come, or is yet to be sent.  The first has been sent.
TickGap ==
  /\ round = "open" /\ pressed # <<>> /\ MayConsume
  /\ Consume(lastApplied)
  /\ UNCHANGED round

ServerTick ==
  /\ TickIdle \/ TickExact \/ TickGap
  /\ Send
  /\ UNCHANGED <<prediction, sceneVars, pressed, serverTiles, boosted, baseline>>

\* bound of the model, for MaxChanges.
MayChange ==
  MaxChanges > (IF serverTiles = StartTiles THEN 0 ELSE 1) + (IF boosted THEN 1 ELSE 0)

\* What else a tick may do to the player: bricks go, he dies, he is boosted.
ServerExplosion ==
  /\ round = "open"
  /\ \/ MayChange /\ serverTiles' = OpenTiles /\ UNCHANGED <<round, lastApplied>>
     \/ round' = "dead" /\ lastApplied' = {} /\ UNCHANGED serverTiles
  /\ UNCHANGED <<prediction, sceneVars, pressed, serverPos,
                 boosted, served, linkVars, baseline>>

CollectSpeedBoost ==
  /\ round = "open" /\ ~boosted /\ MayChange
  /\ boosted' = TRUE
  /\ UNCHANGED <<prediction, sceneVars, pressed, round,
                 serverTiles, serverPos, lastApplied, served, linkVars, baseline>>

-----------------------------------------------------------------------------
Init ==
  /\ prediction = Suspended
  /\ tiles = StartTiles
  /\ gameplayUnlocked = FALSE /\ inputLocked = FALSE /\ localAlive = TRUE
  /\ latestCorrection = None /\ latestSnapshot = None
  /\ pressed = <<>>
  /\ round = "locked" /\ serverTiles = StartTiles /\ serverPos = CentreOf(SpawnCell)
  /\ boosted = FALSE /\ lastApplied = {} /\ served = <<>>
  /\ baseline = None

Next ==
  \/ LocalInput
  \/ ApplyCorrection \/ ApplySnapshot \/ ExplosionResolved \/ UnlockGameplay
  \/ ServerTick \/ ServerExplosion \/ CollectSpeedBoost

Spec == Init /\ [][Next]_vars

\* Both loops run, the player goes on to act, and not every message is lost.
FairSpec ==
  /\ Spec
  /\ WF_vars(LocalInput) /\ WF_vars(UnlockGameplay)
  /\ SF_vars(ApplyCorrection) /\ SF_vars(ApplySnapshot) /\ WF_vars(ExplosionResolved)
  /\ WF_vars(ServerTick /\ (TickExact \/ TickGap))
  /\ WF_vars(ServerTick /\ round' # round)
  /\ SF_vars(ServerTick /\ latestCorrection' # latestCorrection)
  /\ SF_vars(ServerTick /\ latestSnapshot' # latestSnapshot)

-----------------------------------------------------------------------------
Positions == [x : Int, y : Int]
TypeOK ==
  /\ prediction.phase \in {"AwaitingBaseline", "Active", "Recovering"}
  /\ prediction.recorded \in {0, Len(pressed)}
  /\ prediction.authoritative \in 0 .. LastProcessed
  /\ prediction.catchUp \in 0 .. prediction.recorded
  /\ prediction.pos \in Positions /\ serverPos \in Positions
  /\ \A i \in Slots :
       /\ prediction.inputs[i].seq \in 0 .. prediction.recorded
       /\ prediction.states[i].seq \in 0 .. prediction.recorded
  /\ tiles \in {StartTiles, OpenTiles} /\ serverTiles \in {StartTiles, OpenTiles}
  /\ round \in {"locked", "open", "dead"}
  /\ Len(pressed) <= MaxSeq /\ Len(served) <= MaxSeq + 1

\* Where inputs lead from a position: what an unbounded history would replay.
Walked(pos, from, fast, map) ==
  LET at[seq \in from .. Len(pressed)] ==
        IF seq = from THEN pos ELSE Moved(at[seq - 1], pressed[seq], fast, map)
  IN at[Len(pressed)]

\* The sequence that the inputs predicted since the last correction come after.  A
\* lock that was new to the scene has made it forget what was pressed before.
PredictedAfter ==
  IF baseline.recorded = 0 THEN baseline.sent
  ELSE IF baseline.recorded < baseline.correction.seq THEN baseline.recorded
       ELSE baseline.correction.seq

(***************************************************************************)
(* While it predicts, the client is where an unbounded history would have  *)
(* put it: at the last correction plus every input pressed that it does    *)
(* not answer, none left out or taken from another sequence, although the  *)
(* ring is overwritten as it goes.  While it recovers, it shows the newest *)
(* authority it has accepted and nothing of its own.                       *)
(* (replayRetainedInputSuffixAfter, findInputHistory,                      *)
(* enterRecoveryFromReplayFailure; "replay needs a contiguous retained     *)
(* suffix", "the presented local state is authoritative until replay is    *)
(* safe again".)                                                           *)
(***************************************************************************)
PredictionIsReplay ==
  /\ prediction.phase = "Active" /\ baseline.map = tiles =>
       prediction.pos = Walked(baseline.correction.pos, PredictedAfter,
                               baseline.correction.fast, tiles)
  /\ prediction.phase = "Recovering" =>
       prediction.pos = IF prediction.authoritative = 0 THEN CentreOf(SpawnCell)
                        ELSE served[prediction.authoritative].pos

(***************************************************************************)
(* Prediction is right where it can be: for every sequence that it still   *)
(* retains and the server has processed, with the inputs pressed and the   *)
(* map and speed unchanged so far, the two are at the same place, so that  *)
(* the correction moves nothing - unless the server was ahead of the       *)
(* client, whose late inputs are predicted for nothing, or a lock made it  *)
(* forget one.  (applyLocalInput and replay against                        *)
(* simulateAcceptedMatchPlayer; measureCorrectionAtAck.)                   *)
(***************************************************************************)
AgreesWithServer ==
  serverTiles = StartTiles /\ ~boosted =>
    \A i \in Slots :
      LET entry == prediction.states[i] IN
      /\ prediction.authoritative < entry.seq /\ entry.seq <= LastProcessed
      /\ prediction.authoritative = PredictedAfter
      /\ \A seq \in prediction.authoritative + 1 .. entry.seq : served[seq].buttons = pressed[seq]
      => entry.pos = served[entry.seq].pos

(***************************************************************************)
(* Whatever was lost, held over, blown up or collected on the way, the     *)
(* client of a player who may act comes to predict again, and once the     *)
(* inputs are used up it has him where the server has him.                 *)
(* (reconcileAndReplay, suspend, applyLatestCorrectionIfAvailable.)        *)
(***************************************************************************)
Converges ==
  <>[](round = "open" => prediction.phase = "Active" /\ prediction.pos = serverPos)
=============================================================================
