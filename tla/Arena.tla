-------------------------------- MODULE Arena --------------------------------
(***************************************************************************)
(* The server's arena over successive rounds: positions, bombs, blasts,    *)
(* bricks and powerups (ServerBombs.cpp, ServerPowerups.cpp,               *)
(* ServerSnapshot.cpp and simulateServerTick of ServerSimulation.cpp).     *)
(*                                                                         *)
(* A tick is one call in the code.  Here it is a fixed sequence of steps - *)
(* StartTick, SimulatePlayer for each player by id, ResolveExplodingBombs, *)
(* one ResolveBombExplosion for each due bomb by cell, FinishTick - with   *)
(* nothing between them: a disconnect or a new round waits for the end.    *)
(*                                                                         *)
(* Abstractions.                                                           *)
(*  - Ticks are relative: fuse is explodeTick minus the current tick, and  *)
(*    effect[p][t] is what is left of a powerup's effect.                  *)
(*  - bombs is the set of occupied entries.  Their index decides nothing:  *)
(*    it is the last key of the explosion order, after the cell.           *)
(*  - The input of a tick is any of Inputs (InputStream says which).       *)
(*  - When inputs unlock and when an ended round returns to the lobby is   *)
(*    left open (ServerFlow has the deadlines).                            *)
(***************************************************************************)
EXTENDS Movement, FiniteSetsExt, Sequences

CONSTANTS
  PlayerIds,         \* 0 .. kMaxPlayers - 1
  Spawn,             \* kDefaultSpawnSlots
  BaseTiles,         \* baseTiles
  BrickMaps,         \* the sets of grass cells that some seed makes bricks
  Placements,        \* kRoundPowerupPlacements, empty when powers are disabled
  FuseTicks,         \* kDefaultBombFuseTicks
  EffectTicks,       \* kDefaultPowerupDurationTicks
  SpeedQ, BoostedSpeedQ,        \* kPlayerSpeedQ, kSpeedBoostPlayerSpeedQ
  DefaultMaxBombs, BoostedMaxBombs,  \* kDefaultPlayerMaxBombs, kBoostedMaxBombs
  DefaultRange, RangeBoost,     \* kDefaultPlayerBombRange, kBombRangeBoostAmount
  MaxSnapshotBombs,  \* kMaxSnapshotBombs
  Inputs             \* the button masks a player may press, subsets of Buttons

ASSUME PlayersAssumption == PlayerIds \subseteq Nat /\ IsFiniteSet(PlayerIds)
\* No seed puts anything on a spawn cell: the static_asserts of Sim/SpawnSlots.h.
ASSUME BoardAssumption ==
  /\ IsArena(BaseTiles)
  /\ Spawn \in [PlayerIds -> Cells]
  /\ BrickMaps \subseteq SUBSET Cells
  /\ \A bricks \in BrickMaps, p \in PlayerIds :
       GeneratedMap(BaseTiles, bricks)[Spawn[p]] \notin Solid
ASSUME TuningAssumption ==
  /\ FuseTicks \in Nat \ {0} /\ EffectTicks \in Nat \ {0}
  /\ SpeedQ \in Nat /\ BoostedSpeedQ \in Nat
  /\ DefaultMaxBombs \in Nat \ {0} /\ BoostedMaxBombs \in Nat /\ DefaultMaxBombs <= BoostedMaxBombs
  /\ DefaultRange \in Nat /\ RangeBoost \in Nat
  /\ MaxSnapshotBombs \in Nat /\ BoostedMaxBombs * Cardinality(PlayerIds) <= MaxSnapshotBombs
ASSUME InputsAssumption == Inputs \subseteq SUBSET Buttons

Effects == {"SpeedBoost", "Invincibility", "BombRangeBoost", "MaxBombsBoost"}
ASSUME PlacementsAssumption == Placements \in Seq(Effects)
PowerupSlots == 1 .. Len(Placements)

VARIABLES
  phase, unlockPending,          \* ServerPhase; currentMatchUnlockTick is set
  stage, toSimulate, due, preExplosionTiles,  \* where in its tick the server is
  tiles, bombs, powerups,
  inMatch, alive, locked,        \* MatchPlayerState: present, alive, inputLocked
  pos, held,                     \* pos; the bomb key in previousTickButtons
  activeBombs, maxBombs, bombRange, effect,
  \* What the round's reliable events have told the clients.
  toldBombs,                     \* placed and not yet resolved
  toldBricks, toldKilled,        \* how often each was reported destroyed or killed
  \* History of the behaviour, read by no action.
  tickStart                      \* bombs, alive and locked as the tick found them

flowVars == <<phase, unlockPending>>
stageVars == <<stage, toSimulate, due, preExplosionTiles>>
boardVars == <<tiles, bombs, powerups>>
lifeVars == <<inMatch, alive, locked>>
moveVars == <<pos, held>>
loadoutVars == <<activeBombs, maxBombs, bombRange, effect>>
toldVars == <<toldBombs, toldBricks, toldKilled>>
vars == <<flowVars, stageVars, boardVars, lifeVars, moveVars, loadoutVars, toldVars,
          tickStart>>

Bombs == [owner : PlayerIds, cell : Cells, fuse : Int, radius : Nat]
NoPowerup == [cell |-> <<0, 0>>, revealed |-> "gone"]
NotInTick == [bombs |-> {}, alive |-> {}, locked |-> {}]
NoEffects == [e \in Effects |-> 0]

OwnedBy(p, set) == {b \in set : b.owner = p}
\* A bomb as BombPlaced and a snapshot show it.
Shown(b) == [owner |-> b.owner, cell |-> b.cell, radius |-> b.radius]

\* effectActive
Active(p, e) == effect[p][e] > 0
\* hasBombRangeBoost and hasMaxBombsBoost as refreshMatchPlayerPowerupLoadout uses them.
MaxBombsWith(effects) == IF effects["MaxBombsBoost"] > 0 THEN BoostedMaxBombs ELSE DefaultMaxBombs
RangeWith(effects) ==
  IF effects["BombRangeBoost"] > 0 THEN DefaultRange + RangeBoost ELSE DefaultRange

-----------------------------------------------------------------------------
(* Rounds. *)

\* Mutant: the bombs stay on the map.
ClearOwnershipOnly ==
  /\ activeBombs' = [p \in PlayerIds |-> 0]
  /\ toldBombs' = {}
  /\ UNCHANGED bombs

\* clearBombsAndReleaseOwnership.  Clients drop their bombs when they are told of
\* the end of the match.
ClearBombsAndReleaseOwnership ==
  /\ bombs' = {}
  /\ activeBombs' = [p \in PlayerIds |-> 0]
  /\ toldBombs' = {}

\* placeRoundPowerups: each type under a brick of its own, if there are enough.
HiddenPowerups(bricks) ==
  IF Cardinality(bricks) < Len(Placements)
  THEN {[i \in PowerupSlots |-> NoPowerup]}
  ELSE {[i \in PowerupSlots |-> [cell |-> at[i], revealed |-> "no"]] :
          at \in {f \in [PowerupSlots -> bricks] : \A i, j \in PowerupSlots : f[i] = f[j] => i = j}}

\* beginMatchBootstrap for the players in ids, and the commit that follows it.
BeginRound(ids) ==
  /\ stage = "idle" /\ phase = "Lobby"
  /\ phase' = "InMatch" /\ unlockPending' = TRUE
  /\ \E bricks \in BrickMaps :
       /\ tiles' = GeneratedMap(BaseTiles, bricks)
       /\ powerups' \in HiddenPowerups({c \in Cells : tiles'[c] = "Brick"})
  /\ preExplosionTiles' = tiles'
  /\ ClearBombsAndReleaseOwnership
  /\ inMatch' = ids /\ alive' = ids /\ locked' = ids
  /\ pos' = [p \in PlayerIds |-> CentreOf(Spawn[p])]
  /\ held' = {}
  /\ maxBombs' = [p \in PlayerIds |-> DefaultMaxBombs]
  /\ bombRange' = [p \in PlayerIds |-> DefaultRange]
  /\ effect' = [p \in PlayerIds |-> NoEffects]
  /\ toldBricks' = [c \in Cells |-> 0] /\ toldKilled' = [p \in PlayerIds |-> 0]
  /\ UNCHANGED <<stage, toSimulate, due, tickStart>>

\* The arena's share of beginEndOfMatch; the powerups stay where they are.
EndRound(ids) ==
  /\ phase' = "EndOfMatch" /\ unlockPending' = FALSE
  /\ ClearBombsAndReleaseOwnership
  /\ locked' = ids

\* The arena's share of resetRoundRuntimeToLobby.
ResetToLobby ==
  /\ phase' = "Lobby" /\ unlockPending' = FALSE
  /\ ClearBombsAndReleaseOwnership
  /\ powerups' = [i \in PowerupSlots |-> NoPowerup]
  /\ inMatch' = {} /\ alive' = {} /\ locked' = {}

ReturnToLobby ==
  /\ stage = "idle" /\ phase = "EndOfMatch"
  /\ ResetToLobby
  /\ UNCHANGED <<stageVars, tiles, moveVars, maxBombs, bombRange, effect, toldBricks, toldKilled,
                 tickStart>>

\* At most one of the match's players is left alive.
RoundDecided(ids, living) == ids # {} /\ Cardinality(living) <= 1

\* releasePeerSession of a player of the match.  His bombs stay.
Disconnect(p) ==
  LET left == inMatch \ {p} IN
  /\ stage = "idle" /\ p \in inMatch
  /\ \/ /\ left = {}
        /\ ResetToLobby
     \/ /\ left # {}
        /\ inMatch' = left /\ alive' = alive \ {p}
        /\ IF phase = "InMatch" /\ RoundDecided(left, alive \ {p})
           THEN EndRound(left)
           ELSE /\ locked' = locked \ {p}
                /\ UNCHANGED <<flowVars, bombs, activeBombs, toldBombs>>
        /\ UNCHANGED powerups
  /\ UNCHANGED <<stageVars, tiles, moveVars, maxBombs, bombRange, effect, toldBricks, toldKilled,
                 tickStart>>

-----------------------------------------------------------------------------
(* One tick. *)

Less(left) == IF left > 0 THEN left - 1 ELSE 0

\* Mutant: a fuse burns only while its owner is there.
StartTickOwnersOnly ==
  /\ stage = "idle" /\ phase \in {"InMatch", "EndOfMatch"}
  /\ stage' = "players" /\ toSimulate' = inMatch
  /\ bombs' = {[b EXCEPT !.fuse = IF b.owner \in inMatch THEN @ - 1 ELSE @] : b \in bombs}
  /\ tickStart' = [bombs |-> bombs', alive |-> alive, locked |-> locked]
  /\ effect' = [p \in PlayerIds |-> [e \in Effects |-> Less(effect[p][e])]]
  /\ powerups' = [i \in PowerupSlots |->
                    [powerups[i] EXCEPT !.revealed = IF @ = "now" THEN "before" ELSE @]]
  /\ \/ /\ unlockPending
        /\ unlockPending' = FALSE /\ locked' = {}
     \/ UNCHANGED <<unlockPending, locked>>
  /\ UNCHANGED <<phase, due, preExplosionTiles, tiles, inMatch, alive, moveVars,
                 activeBombs, maxBombs, bombRange, toldVars>>

\* ++serverTick and advanceServerFlow, which unlocks every player of the match.
StartTick ==
  /\ stage = "idle" /\ phase \in {"InMatch", "EndOfMatch"}
  /\ stage' = "players" /\ toSimulate' = inMatch
  /\ bombs' = {[b EXCEPT !.fuse = @ - 1] : b \in bombs}
  /\ tickStart' = [bombs |-> bombs', alive |-> alive, locked |-> locked]
  /\ effect' = [p \in PlayerIds |-> [e \in Effects |-> Less(effect[p][e])]]
  /\ powerups' = [i \in PowerupSlots |->
                    [powerups[i] EXCEPT !.revealed = IF @ = "now" THEN "before" ELSE @]]
  /\ \/ /\ unlockPending
        /\ unlockPending' = FALSE /\ locked' = {}
     \/ UNCHANGED <<unlockPending, locked>>
  /\ UNCHANGED <<phase, due, preExplosionTiles, tiles, inMatch, alive, moveVars,
                 activeBombs, maxBombs, bombRange, toldVars>>

\* Mutant: the limit is not looked at.
MayPlaceUnlimited(p, cell) ==
  /\ cell \in Cells /\ tiles[cell] \notin Solid
  /\ \A b \in bombs : b.cell # cell

\* The early returns of tryPlaceBomb after the key edge, for a living player who
\* may act.  A free entry is left then: there are as many as there are cells.
MayPlace(p, cell) ==
  /\ activeBombs[p] < maxBombs'[p]
  /\ cell \in Cells /\ tiles[cell] \notin Solid
  /\ \A b \in bombs : b.cell # cell

\* tryPlaceBomb, where the player stood before this tick's movement.
TryPlaceBomb(p, buttons) ==
  LET bomb == [owner |-> p, cell |-> CellOf(pos[p]), fuse |-> FuseTicks, radius |-> bombRange'[p]] IN
  IF "Bomb" \in buttons /\ p \notin held /\ MayPlace(p, bomb.cell)
  THEN /\ bombs' = bombs \cup {bomb}
       /\ activeBombs' = [activeBombs EXCEPT ![p] = @ + 1]
       /\ toldBombs' = toldBombs \cup {Shown(bomb)}
  ELSE UNCHANGED <<bombs, activeBombs, toldBombs>>

\* The rest of simulateAcceptedMatchPlayer for one who may act.
Act(p, buttons) ==
  /\ TryPlaceBomb(p, buttons)
  /\ pos' = [pos EXCEPT ![p] = StepMovementWithCollision(@, MoveX(buttons), MoveY(buttons),
               tiles, IF Active(p, "SpeedBoost") THEN BoostedSpeedQ ELSE SpeedQ)]
  /\ held' = IF "Bomb" \in buttons THEN held \cup {p} ELSE held \ {p}

\* clearMatchPlayerButtons
Idle(p) == held' = held \ {p} /\ UNCHANGED <<bombs, activeBombs, toldBombs, pos>>

\* simulateAcceptedMatchPlayer for the next player by id.
SimulatePlayer ==
  LET p == Min(toSimulate) IN
  /\ stage = "players" /\ toSimulate # {}
  /\ toSimulate' = toSimulate \ {p}
  /\ maxBombs' = [maxBombs EXCEPT ![p] = MaxBombsWith(effect[p])]
  /\ bombRange' = [bombRange EXCEPT ![p] = RangeWith(effect[p])]
  /\ IF p \notin alive \/ p \in locked
     THEN Idle(p)
     ELSE \E buttons \in Inputs : Act(p, buttons)
  /\ UNCHANGED <<flowVars, stage, due, preExplosionTiles, tiles, powerups, lifeVars, effect,
                 toldBricks, toldKilled, tickStart>>

DueBombs == {b \in bombs : b.fuse <= 0}

\* resolveExplodingBombs up to its loop.
ResolveExplodingBombs ==
  /\ stage = "players" /\ toSimulate = {} /\ phase = "InMatch"
  /\ stage' = "bombs"
  /\ due' = DueBombs
  /\ preExplosionTiles' = tiles
  /\ UNCHANGED <<flowVars, toSimulate, boardVars, lifeVars, moveVars, loadoutVars, toldVars,
                 tickStart>>

\* The cell at a distance from another in one of the four directions.
Beside(cell, d, step) == <<cell[1] + d[1] * step, cell[2] + d[2] * step>>
FourWays == {<<1, 0>>, <<-1, 0>>, <<0, 1>>, <<0, -1>>}

\* computeBlastCellsAndCollectDestroyedBricks: in each direction as far as the
\* radius, stopped before stone and after the first brick.
BlastCells(map, bomb) ==
  LET passes(d, s) == LET c == Beside(bomb.cell, d, s) IN c \in Cells /\ map[c] \notin Solid
      reaches(d, s) == LET c == Beside(bomb.cell, d, s) IN c \in Cells /\ map[c] # "Stone"
  IN  {bomb.cell} \cup
      {Beside(bomb.cell, x[1], x[2]) : x \in
         {x \in FourWays \X (1 .. bomb.radius) :
            reaches(x[1], x[2]) /\ \A s \in 1 .. x[2] - 1 : passes(x[1], s)}}

\* Mutant: each blast sees the board that earlier ones of the tick have left.
ExplosionOnLiveBoard(bomb) ==
  LET blast == BlastCells(tiles, bomb)
  IN [blast |-> blast, bricks |-> {c \in blast : tiles[c] = "Brick"}]

\* The cells of a blast, computed on the board before any of this tick's, and the
\* bricks among them that are still there (retainCurrentlyIntactBricks).
Explosion(bomb) ==
  LET blast == BlastCells(preExplosionTiles, bomb)
  IN [blast |-> blast,
      bricks |-> {c \in blast : preExplosionTiles[c] = "Brick" /\ tiles[c] = "Brick"}]

\* Mutant: the dead die again.
KilledAgain(blast) ==
  {p \in inMatch : ~Active(p, "Invincibility") /\ \E c \in blast : Touches(pos[p], c)}

\* killPlayersInBlast
Killed(blast) ==
  {p \in alive : ~Active(p, "Invincibility") /\ \E c \in blast : Touches(pos[p], c)}

\* Mutant: the owner's count is lowered only while he lives.
ReleasedIfAlive(bomb) ==
  IF bomb.owner \in alive /\ activeBombs[bomb.owner] > 0
  THEN [activeBombs EXCEPT ![bomb.owner] = @ - 1] ELSE activeBombs

\* releaseBombOwnership: the owner may have left the match.
Released(bomb) ==
  IF bomb.owner \in inMatch /\ activeBombs[bomb.owner] > 0
  THEN [activeBombs EXCEPT ![bomb.owner] = @ - 1] ELSE activeBombs

\* Rows before columns: no two bombs share a cell.
ExplodesBefore(a, b) ==
  \/ a.cell[2] < b.cell[2]
  \/ a.cell[2] = b.cell[2] /\ a.cell[1] <= b.cell[1]

\* resolveBombExplosion, with its ExplosionResolved event.
Explode(bomb) ==
  LET explosion == Explosion(bomb)
      killed    == Killed(explosion.blast)
  IN
  /\ due' = due \ {bomb}
  /\ tiles' = [c \in Cells |-> IF c \in explosion.bricks THEN "Grass" ELSE tiles[c]]
  /\ powerups' = [i \in PowerupSlots |->
                    IF powerups[i].revealed = "no" /\ powerups[i].cell \in explosion.bricks
                    THEN [powerups[i] EXCEPT !.revealed = "now"] ELSE powerups[i]]
  /\ alive' = alive \ killed /\ locked' = locked \cup killed
  /\ held' = held \ killed
  /\ activeBombs' = Released(bomb)
  /\ bombs' = bombs \ {bomb}
  /\ toldBombs' = {b \in toldBombs : b.cell # bomb.cell}
  /\ toldBricks' = [c \in Cells |->
                      IF c \in explosion.bricks THEN toldBricks[c] + 1 ELSE toldBricks[c]]
  /\ toldKilled' = [p \in PlayerIds |-> IF p \in killed THEN toldKilled[p] + 1 ELSE toldKilled[p]]
  /\ UNCHANGED <<flowVars, stage, toSimulate, preExplosionTiles, inMatch, pos, maxBombs,
                 bombRange, effect, tickStart>>

\* The loop of resolveExplodingBombs: the next due bomb.
ResolveBombExplosion ==
  /\ stage = "bombs"
  /\ \E bomb \in due : (\A other \in due : ExplodesBefore(bomb, other)) /\ Explode(bomb)

\* Mutant: the dead collect too.
CollectorsAll(i) ==
  {p \in inMatch : powerups[i].revealed = "before" /\ CellOf(pos[p]) = powerups[i].cell}

\* Those who stand on a powerup that an earlier tick has revealed.
Collectors(i) ==
  {p \in inMatch : /\ powerups[i].revealed = "before"
                   /\ p \in alive /\ p \notin locked
                   /\ CellOf(pos[p]) = powerups[i].cell}

\* Mutant: everybody on the cell gets the effect.
CollectsTogether(p, i) == p \in Collectors(i)

\* The lowest id gets it.
Collects(p, i) == Collectors(i) # {} /\ p = Min(Collectors(i))

\* collectRevealedPowerups, slot by slot, and the loadout of the collectors.  A slot
\* changes nothing that a later one looks at.
CollectRevealedPowerups ==
  LET gains(p, e) == \E i \in PowerupSlots : Placements[i] = e /\ Collects(p, i) IN
  /\ effect' = [p \in PlayerIds |-> [e \in Effects |->
                  IF gains(p, e) THEN Max({effect[p][e], EffectTicks}) ELSE effect[p][e]]]
  /\ powerups' = [i \in PowerupSlots |-> IF Collectors(i) # {} THEN NoPowerup ELSE powerups[i]]

LoadoutOfCollectors ==
  LET collects(p) == \E i \in PowerupSlots : Collects(p, i) IN
  /\ maxBombs' = [p \in PlayerIds |-> IF collects(p) THEN MaxBombsWith(effect'[p]) ELSE maxBombs[p]]
  /\ bombRange' = [p \in PlayerIds |-> IF collects(p) THEN RangeWith(effect'[p]) ELSE bombRange[p]]

\* After the last explosion: powerups, then evaluateRoundEnd.
FinishMatchTick ==
  /\ stage = "bombs" /\ due = {}
  /\ stage' = "idle" /\ tickStart' = NotInTick
  /\ preExplosionTiles' = tiles
  /\ CollectRevealedPowerups /\ LoadoutOfCollectors
  /\ IF RoundDecided(inMatch, alive)
     THEN EndRound(inMatch)
     ELSE UNCHANGED <<flowVars, bombs, activeBombs, toldBombs, locked>>
  /\ UNCHANGED <<toSimulate, due, tiles, inMatch, alive, moveVars, toldBricks, toldKilled>>

FinishEndOfMatchTick ==
  /\ stage = "players" /\ toSimulate = {} /\ phase = "EndOfMatch"
  /\ stage' = "idle" /\ tickStart' = NotInTick
  /\ UNCHANGED <<flowVars, toSimulate, due, preExplosionTiles, boardVars, lifeVars, moveVars,
                 loadoutVars, toldVars>>

-----------------------------------------------------------------------------
Init ==
  /\ phase = "Lobby" /\ unlockPending = FALSE
  /\ stage = "idle" /\ toSimulate = {} /\ due = {}
  /\ tiles \in {GeneratedMap(BaseTiles, bricks) : bricks \in BrickMaps}
  /\ preExplosionTiles = tiles
  /\ bombs = {} /\ powerups = [i \in PowerupSlots |-> NoPowerup]
  /\ inMatch = {} /\ alive = {} /\ locked = {}
  /\ pos = [p \in PlayerIds |-> CentreOf(Spawn[p])] /\ held = {}
  /\ activeBombs = [p \in PlayerIds |-> 0]
  /\ maxBombs = [p \in PlayerIds |-> DefaultMaxBombs]
  /\ bombRange = [p \in PlayerIds |-> DefaultRange]
  /\ effect = [p \in PlayerIds |-> NoEffects]
  /\ toldBombs = {} /\ toldBricks = [c \in Cells |-> 0]
  /\ toldKilled = [p \in PlayerIds |-> 0]
  /\ tickStart = NotInTick

TickStep ==
  \/ StartTick \/ SimulatePlayer \/ ResolveExplodingBombs
  \/ ResolveBombExplosion \/ FinishMatchTick \/ FinishEndOfMatchTick

Next ==
  \/ \E ids \in SUBSET PlayerIds : Cardinality(ids) > 1 /\ BeginRound(ids)
  \/ ReturnToLobby
  \/ \E p \in PlayerIds : Disconnect(p)
  \/ TickStep

Spec == Init /\ [][Next]_vars
\* The main loop keeps ticking.
FairSpec == Spec /\ WF_vars(TickStep)

-----------------------------------------------------------------------------
TypeOK ==
  /\ phase \in {"Lobby", "InMatch", "EndOfMatch"} /\ unlockPending \in BOOLEAN
  /\ stage \in {"idle", "players", "bombs"}
  /\ toSimulate \subseteq inMatch /\ due \subseteq bombs
  /\ preExplosionTiles \in [Cells -> TileKinds] /\ tiles \in [Cells -> TileKinds]
  /\ bombs \subseteq Bombs
  /\ powerups \in [PowerupSlots -> [cell : Cells, revealed : {"no", "now", "before", "gone"}]]
  /\ inMatch \subseteq PlayerIds /\ alive \subseteq inMatch /\ locked \subseteq inMatch
  /\ pos \in [PlayerIds -> [x : Int, y : Int]] /\ held \subseteq PlayerIds
  /\ activeBombs \in [PlayerIds -> Nat] /\ maxBombs \in [PlayerIds -> Nat]
  /\ bombRange \in [PlayerIds -> Nat] /\ effect \in [PlayerIds -> [Effects -> Nat]]
  /\ toldBombs \subseteq [owner : PlayerIds, cell : Cells, radius : Nat]
  /\ toldBricks \in [Cells -> Nat] /\ toldKilled \in [PlayerIds -> Nat]
  /\ tickStart.bombs \subseteq Bombs /\ tickStart.alive \subseteq PlayerIds
  /\ tickStart.locked \subseteq PlayerIds

(***************************************************************************)
(* activeBombCount, which limits a player's bombs, is the number of his    *)
(* bombs on the map: through explosions that kill him or others, a limit   *)
(* that falls below it, owners who leave, and the end of a round.          *)
(***************************************************************************)
BombsAccounted == \A p \in inMatch : activeBombs[p] = Cardinality(OwnedBy(p, bombs))

(***************************************************************************)
(* A client that follows BombPlaced and ExplosionResolved has exactly the  *)
(* bombs that a snapshot built now would show it, radius and owner         *)
(* included, and the snapshot has room for them all, those of players who  *)
(* left included: truncation "should never happen in normal gameplay".     *)
(* (tryPlaceBomb, resolveBombExplosion, buildSnapshot.)                    *)
(***************************************************************************)
EventsMatchSnapshots ==
  /\ Cardinality(bombs) <= MaxSnapshotBombs
  /\ toldBombs = {Shown(b) : b \in bombs}

(***************************************************************************)
(* The whole square of a player is in the open, not only its corners: no   *)
(* point of it is in a solid tile or off the map, whatever has been walked *)
(* and blown up ("guaranteed not to overlap any solid tile",               *)
(* stepMovementWithCollision; isWalkable treats the outside as solid).     *)
(***************************************************************************)
InTheOpen ==
  \A p \in inMatch, col \in -1 .. Width, row \in -1 .. Height :
    Touches(pos[p], <<col, row>>) => IsWalkable(tiles, col, row)

(***************************************************************************)
(* No loss is reported twice or for nothing in a round: each brick that    *)
(* an explosion reports destroyed was there and is gone, each death is     *)
(* reported by one explosion, also when several of one tick reach it.      *)
(***************************************************************************)
LossesToldOnce ==
  /\ \A c \in Cells : toldBricks[c] <= 1 /\ (toldBricks[c] = 1 => tiles[c] = "Grass")
  /\ \A p \in inMatch : toldKilled[p] = IF p \in alive THEN 0 ELSE 1

StrictlyBetween(x, a, b) == (a < x /\ x < b) \/ (b < x /\ x < a)
\* A cell between two others of one row or one column.
Between(c, a, b) ==
  \/ c[2] = a[2] /\ a[2] = b[2] /\ StrictlyBetween(c[1], a[1], b[1])
  \/ c[1] = a[1] /\ a[1] = b[1] /\ StrictlyBetween(c[2], a[2], b[2])
\* What a bomb can hit on a board: in its row or column within its radius, with
\* nothing solid before it.
InBlast(map, b, c) ==
  /\ c[1] = b.cell[1] \/ c[2] = b.cell[2]
  /\ c[1] - b.cell[1] \in -b.radius .. b.radius /\ c[2] - b.cell[2] \in -b.radius .. b.radius
  /\ map[c] # "Stone"
  /\ \A between \in Cells : Between(between, b.cell, c) => map[between] \notin Solid

(***************************************************************************)
(* The bombs of one tick go off at once, and all that are due do: whatever *)
(* their order, the bricks and lives they take are those that one of them  *)
(* reaches on the board as the tick found it.  (resolveExplodingBombs.)    *)
(***************************************************************************)
BlastsAreSimultaneous ==
  stage = "bombs" /\ due = {} =>
    LET exploded == {b \in tickStart.bombs : b.fuse <= 0}
        hit == {c \in Cells : \E b \in exploded : InBlast(preExplosionTiles, b, c)}
    IN
    /\ \A b \in bombs : b.fuse > 0
    /\ tiles = [c \in Cells |-> IF c \in hit /\ preExplosionTiles[c] = "Brick"
                                THEN "Grass" ELSE preExplosionTiles[c]]
    /\ alive = {p \in tickStart.alive : \/ Active(p, "Invincibility")
                                         \/ \A c \in hit : ~Touches(pos[p], c)}

(***************************************************************************)
(* A powerup serves one player once: those who have an effect and the      *)
(* powerups of its type still on the map are together no more than were    *)
(* hidden.  (placeRoundPowerups, collectRevealedPowerups.)                 *)
(***************************************************************************)
EffectsComeFromPowerups ==
  phase # "Lobby" =>
    \A e \in Effects :
      LET ofType == {i \in PowerupSlots : Placements[i] = e} IN
      Cardinality({p \in inMatch : Active(p, e)})
        + Cardinality({i \in ofType : powerups[i].revealed # "gone"}) <= Cardinality(ofType)

(***************************************************************************)
(* The dead and the locked are out of play, from the very step that kills  *)
(* or locks them: they do not move, place no bomb and gain no effect.      *)
(***************************************************************************)
OutOfPlay ==
  [][phase = "InMatch" =>
       \A p \in (inMatch \ alive) \cup (locked \cap locked') :
         /\ pos'[p] = pos[p] /\ activeBombs'[p] <= activeBombs[p]
         /\ \A e \in Effects : effect'[p][e] <= effect[p][e]]_vars

(***************************************************************************)
(* Every bomb is gone from its cell some time, whoever placed it, died or  *)
(* left.                                                                   *)
(***************************************************************************)
BombsGoOff ==
  \A c \in {c \in Cells : BaseTiles[c] # "Stone"} :
    (\E b \in bombs : b.cell = c) ~> (\A b \in bombs : b.cell # c)

-----------------------------------------------------------------------------
\* Within a tick the round is still as the tick found it.
Battle == INSTANCE RoundBattle WITH
  Players   <- PlayerIds,
  alive     <- IF stage = "idle" THEN alive ELSE tickStart.alive,
  unlocked  <- inMatch \ (IF stage = "idle" THEN locked ELSE tickStart.locked),
  bombsLive <- (IF stage = "idle" THEN bombs ELSE tickStart.bombs) # {}

(***************************************************************************)
(* The arena is what the round flow takes it for: all steps of a tick,     *)
(* whatever bombs, blasts and powerups there are, make up one legal step   *)
(* of the battle.  (simulateServerTick, releasePeerSession.)               *)
(***************************************************************************)
ImplementsBattle == Battle!BattleSpec
=============================================================================
