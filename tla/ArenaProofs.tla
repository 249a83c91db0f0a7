----------------------------- MODULE ArenaProofs -----------------------------
(***************************************************************************)
(* Theorems about Arena for every map, number of players, tuning of bombs  *)
(* and powerups, and hitbox.                                               *)
(***************************************************************************)
EXTENDS Arena, TLAPS, FunctionTheorems, FiniteSetTheorems

-----------------------------------------------------------------------------
(* The operators the arena is built from. *)

\* A set of naturals that is not empty has a least element, and Min is it.
LEMMA MinType ==
  ASSUME NEW S \in SUBSET Nat, S # {}
  PROVE  Min(S) \in S /\ \A x \in S : Min(S) <= x
  <1>1. \E m \in S : \A x \in S : m <= x
    <2> DEFINE less == {pair \in Nat \X Nat : pair[1] < pair[2]}
    <2>1. less = OpToRel(<, Nat)
      BY Zenon DEF OpToRel
    <2>2. IsWellFoundedOn(less, Nat)
      BY <2>1, NatLessThanWellFounded, Zenon
    <2> HIDE DEF less
    <2>3. PICK m \in S : \A y \in S : ~(<<y, m>> \in less)
      BY <2>2, WFMin, Zenon
    <2>4. \A x \in S : m <= x
      <3> SUFFICES ASSUME NEW x \in S, ~(m <= x)
                   PROVE  FALSE
        OBVIOUS
      <3>1. m \in Nat /\ x \in Nat /\ x < m
        OBVIOUS
      <3>2. <<x, m>> \in less
        BY <3>1 DEF less
      <3>. QED BY <2>3, <3>2
    <2>. QED BY <2>4
  <1>. QED BY <1>1 DEF Min

\* The larger of two naturals.
LEMMA MaxOfTwo ==
  ASSUME NEW a \in Nat, NEW b \in Nat
  PROVE  Max({a, b}) = IF a > b THEN a ELSE b
  BY DEF Max

\* A tile's width is positive.
LEMMA TilePositive == TileQ \in Nat \ {0} /\ HitboxHalfQ \in Nat \ {0} /\ 2 * HitboxHalfQ <= TileQ
  BY HitboxAssumption

\* Division of a natural number, as TruncDiv does it.
LEMMA TruncDivNat ==
  ASSUME NEW a \in Nat, NEW b \in Nat \ {0}
  PROVE  /\ TruncDiv(a, b) \in Nat
         /\ TruncDiv(a, b) * b <= a /\ a < (TruncDiv(a, b) + 1) * b
  BY DEF TruncDiv

\* A negative dividend: zero or below.
LEMMA TruncDivNegative ==
  ASSUME NEW a \in Int, a < 0, NEW b \in Nat \ {0}
  PROVE  TruncDiv(a, b) \in Int /\ TruncDiv(a, b) <= 0
  BY DEF TruncDiv

\* A step of movement ends at a fixed-point position.
LEMMA MovementType ==
  ASSUME NEW at \in [x : Int, y : Int], NEW mx \in Int, NEW my \in Int, NEW map, NEW speed \in Nat
  PROVE  StepMovementWithCollision(at, mx, my, map, speed) \in [x : Int, y : Int]
  BY DEF StepMovementWithCollision

\* Opposite keys leave a direction that is a number.
LEMMA DirectionType ==
  ASSUME NEW buttons
  PROVE  MoveX(buttons) \in Int /\ MoveY(buttons) \in Int
  BY DEF MoveX, MoveY, Pressed

\* The centre of a cell is a fixed-point position.
LEMMA CentreType == ASSUME NEW c \in Cells PROVE CentreOf(c) \in [x : Int, y : Int]
  <1>1. c[1] \in Nat /\ c[2] \in Nat
    BY GridAssumption DEF Cells
  <1>2. c[1] * TileQ \in Nat /\ c[2] * TileQ \in Nat /\ TileQ \div 2 \in Nat
    BY <1>1, TilePositive
  <1>. QED BY <1>2 DEF CentreOf

\* A generated map is a map, with the border of stone that every map has.
LEMMA GeneratedMapType ==
  ASSUME NEW bricks
  PROVE  /\ GeneratedMap(BaseTiles, bricks) \in [Cells -> TileKinds]
         /\ \A c \in Border : GeneratedMap(BaseTiles, bricks)[c] = "Stone"
  <1>1. BaseTiles \in [Cells -> TileKinds] /\ \A c \in Border : BaseTiles[c] = "Stone"
    BY BoardAssumption DEF IsArena
  <1>. QED BY <1>1 DEF GeneratedMap, TileKinds, Border

\* The loadout that effects give.
LEMMA LoadoutType ==
  ASSUME NEW effects
  PROVE  MaxBombsWith(effects) \in Nat /\ RangeWith(effects) \in Nat
  BY TuningAssumption DEF MaxBombsWith, RangeWith

\* What placeRoundPowerups may put on the map.
Powerups == [cell : Cells, revealed : {"no", "now", "before", "gone"}]

\* Powerups are of their type, none and every way of hiding them among the bricks.
LEMMA PowerupTypes ==
  ASSUME NEW bricks \in SUBSET Cells
  PROVE  /\ NoPowerup \in Powerups
         /\ \A ps \in HiddenPowerups(bricks) : ps \in [PowerupSlots -> Powerups]
  <1>1. <<0, 0>> \in Cells
    BY GridAssumption DEF Cells
  <1>2. NoPowerup \in Powerups
    BY <1>1 DEF NoPowerup, Powerups
  <1>3. ASSUME NEW at \in [PowerupSlots -> bricks]
        PROVE  [i \in PowerupSlots |-> [cell |-> at[i], revealed |-> "no"]] \in [PowerupSlots -> Powerups]
    BY DEF Powerups
  <1>. QED BY <1>2, <1>3 DEF HiddenPowerups

\* Where in its tick the server is: the fields that go with each stage.
StageShape ==
  /\ stage # "idle" => phase \in {"InMatch", "EndOfMatch"}
  /\ stage = "bombs" => phase = "InMatch"
  /\ stage # "players" => toSimulate = {}
  /\ stage # "bombs" => due = {}

Typed == TypeOK /\ StageShape

-----------------------------------------------------------------------------
(* Types. *)

\* The initial states are typed.
LEMMA InitTyped == Init => Typed
  <1> SUFFICES ASSUME Init PROVE Typed
    OBVIOUS
  <1>1. tiles \in [Cells -> TileKinds]
    BY GeneratedMapType DEF Init
  <1>2. powerups \in [PowerupSlots -> Powerups]
    BY PowerupTypes DEF Init
  <1>3. pos \in [PlayerIds -> [x : Int, y : Int]]
    BY BoardAssumption, CentreType DEF Init
  <1>4. StageShape
    BY DEF Init, StageShape
  <1>. QED BY <1>1, <1>2, <1>3, <1>4, TuningAssumption
           DEF Init, Typed, TypeOK, Powerups, NoEffects, NotInTick

\* The start of a round keeps the types.
LEMMA BeginRoundTyped ==
  ASSUME Typed, NEW ids \in SUBSET PlayerIds, BeginRound(ids)
  PROVE  Typed'
  <1>1. PICK bricks \in BrickMaps :
          /\ tiles' = GeneratedMap(BaseTiles, bricks)
          /\ powerups' \in HiddenPowerups({c \in Cells : tiles'[c] = "Brick"})
    BY DEF BeginRound
  <1>2. tiles' \in [Cells -> TileKinds]
    BY <1>1, GeneratedMapType
  <1>3. powerups' \in [PowerupSlots -> Powerups]
    BY <1>1, PowerupTypes
  <1>4. pos' \in [PlayerIds -> [x : Int, y : Int]]
    BY BoardAssumption, CentreType DEF BeginRound
  <1>5. stage' = "idle" /\ toSimulate' = {} /\ due' = {}
    BY DEF BeginRound, Typed, StageShape
  <1>6. StageShape'
    BY <1>5 DEF StageShape
  <1>7. bombs' = {} /\ activeBombs' = [p \in PlayerIds |-> 0] /\ toldBombs' = {}
    BY DEF BeginRound, ClearBombsAndReleaseOwnership
  <1>. QED BY <1>2, <1>3, <1>4, <1>5, <1>6, <1>7, TuningAssumption
           DEF BeginRound, Typed, TypeOK, Powerups, NoEffects

\* The return to the lobby keeps the types.
LEMMA ReturnTyped == ASSUME Typed, ReturnToLobby PROVE Typed'
  <1>1. powerups' \in [PowerupSlots -> Powerups]
    BY PowerupTypes DEF ReturnToLobby, ResetToLobby
  <1>2. stage' = "idle" /\ toSimulate' = {} /\ due' = {}
    BY DEF ReturnToLobby, stageVars, Typed, StageShape
  <1>. QED BY <1>1, <1>2
           DEF ReturnToLobby, ResetToLobby, ClearBombsAndReleaseOwnership, stageVars, moveVars,
               Typed, TypeOK, StageShape, Powerups

\* A seat given up keeps the types.
LEMMA DisconnectTyped ==
  ASSUME Typed, NEW p \in PlayerIds, Disconnect(p)
  PROVE  Typed'
  <1>1. stage' = "idle" /\ toSimulate' = {} /\ due' = {}
    BY DEF Disconnect, stageVars, Typed, StageShape
  <1>2. powerups' \in [PowerupSlots -> Powerups]
    BY PowerupTypes DEF Disconnect, ResetToLobby, Typed, TypeOK, Powerups
  <1>3. StageShape'
    BY <1>1 DEF StageShape
  <1>4. /\ bombs' \in {bombs, {}} /\ toldBombs' \in {toldBombs, {}}
        /\ activeBombs' \in [PlayerIds -> Nat]
    BY DEF Disconnect, ResetToLobby, EndRound, ClearBombsAndReleaseOwnership, Typed, TypeOK
  <1>5. /\ inMatch' \subseteq PlayerIds /\ alive' \subseteq inMatch' /\ locked' \subseteq inMatch'
        /\ phase' \in {"Lobby", "InMatch", "EndOfMatch"} /\ unlockPending' \in BOOLEAN
    BY DEF Disconnect, ResetToLobby, EndRound, flowVars, Typed, TypeOK
  <1>. QED BY <1>1, <1>2, <1>3, <1>4, <1>5 DEF Disconnect, stageVars, moveVars, Typed, TypeOK, Powerups

\* The beginning of a tick keeps the types.
LEMMA StartTickTyped == ASSUME Typed, StartTick PROVE Typed'
  <1>1. bombs' \subseteq Bombs
    <2>1. ASSUME NEW b \in bombs PROVE [b EXCEPT !.fuse = @ - 1] \in Bombs
      BY SMTT(30) DEF Typed, TypeOK, Bombs
    <2>. QED BY <2>1 DEF StartTick
  <1>2. effect' \in [PlayerIds -> [Effects -> Nat]]
    BY DEF StartTick, Typed, TypeOK, Less
  <1>3. powerups' \in [PowerupSlots -> Powerups]
    BY DEF StartTick, Typed, TypeOK, Powerups
  <1>4. StageShape' /\ due' = {}
    BY DEF StartTick, Typed, StageShape
  <1>. QED BY <1>1, <1>2, <1>3, <1>4
           DEF StartTick, moveVars, toldVars, Typed, TypeOK, Powerups

\* Placing a bomb, or not being able to, keeps the types.
LEMMA PlaceTyped ==
  ASSUME Typed, NEW p \in PlayerIds, NEW buttons, TryPlaceBomb(p, buttons),
         bombRange' \in [PlayerIds -> Nat]
  PROVE  /\ bombs' \subseteq Bombs /\ bombs \subseteq bombs'
         /\ activeBombs' \in [PlayerIds -> Nat]
         /\ toldBombs' \subseteq [owner : PlayerIds, cell : Cells, radius : Nat]
  <1> DEFINE bomb == [owner |-> p, cell |-> CellOf(pos[p]), fuse |-> FuseTicks,
                      radius |-> bombRange'[p]]
  <1>1. CASE UNCHANGED <<bombs, activeBombs, toldBombs>>
    BY <1>1 DEF Typed, TypeOK
  <1>2. CASE /\ bomb.cell \in Cells
             /\ bombs' = bombs \cup {bomb}
             /\ activeBombs' = [activeBombs EXCEPT ![p] = @ + 1]
             /\ toldBombs' = toldBombs \cup {Shown(bomb)}
    <2>1. bomb \in Bombs
      BY <1>2, TuningAssumption DEF Bombs
    <2>2. Shown(bomb) \in [owner : PlayerIds, cell : Cells, radius : Nat]
      BY <2>1 DEF Shown, Bombs
    <2>. QED BY <1>2, <2>1, <2>2 DEF Typed, TypeOK
  <1>. QED BY <1>1, <1>2 DEF TryPlaceBomb, MayPlace

\* One player's turn keeps the types.
LEMMA SimulatePlayerTyped == ASSUME Typed, SimulatePlayer PROVE Typed'
  <1> DEFINE p == Min(toSimulate)
  <1>1. p \in toSimulate /\ p \in inMatch /\ p \in PlayerIds
    BY PlayersAssumption, MinType DEF SimulatePlayer, Typed, TypeOK
  <1> HIDE DEF p
  <1>2. maxBombs' \in [PlayerIds -> Nat] /\ bombRange' \in [PlayerIds -> Nat]
    BY LoadoutType DEF SimulatePlayer, Typed, TypeOK
  <1>3. StageShape' /\ toSimulate' \subseteq inMatch
    BY DEF SimulatePlayer, flowVars, Typed, TypeOK, StageShape
  <1>4. /\ bombs' \subseteq Bombs /\ bombs \subseteq bombs'
        /\ activeBombs' \in [PlayerIds -> Nat]
        /\ toldBombs' \subseteq [owner : PlayerIds, cell : Cells, radius : Nat]
        /\ pos' \in [PlayerIds -> [x : Int, y : Int]] /\ held' \subseteq PlayerIds
    <2>1. CASE Idle(p)
      BY <2>1 DEF Idle, Typed, TypeOK
    <2>2. CASE \E buttons \in Inputs : Act(p, buttons)
      <3>1. PICK buttons \in Inputs : Act(p, buttons)
        BY <2>2
      <3>2. pos' \in [PlayerIds -> [x : Int, y : Int]]
        BY <3>1, <1>1, MovementType, DirectionType, TuningAssumption DEF Act, Typed, TypeOK
      <3>3. held' \subseteq PlayerIds
        BY <3>1, <1>1 DEF Act, Typed, TypeOK
      <3>. QED BY <3>1, <3>2, <3>3, <1>1, <1>2, PlaceTyped DEF Act
    <2>. QED BY <2>1, <2>2 DEF SimulatePlayer, p
  <1>. QED BY <1>2, <1>3, <1>4
           DEF SimulatePlayer, flowVars, lifeVars, Typed, TypeOK

\* The step to the explosions keeps the types.
LEMMA ResolveBombsTyped == ASSUME Typed, ResolveExplodingBombs PROVE Typed'
  BY DEF ResolveExplodingBombs, DueBombs, flowVars, boardVars, lifeVars, moveVars, loadoutVars,
         toldVars, Typed, TypeOK, StageShape

\* One explosion keeps the types.
LEMMA ResolveBombTyped == ASSUME Typed, ResolveBombExplosion PROVE Typed'
  <1>1. PICK bomb \in due : stage = "bombs" /\ Explode(bomb)
    BY DEF ResolveBombExplosion
  <1> DEFINE blast == Explosion(bomb).blast
             bricks == Explosion(bomb).bricks
  <1>2. Killed(blast) \subseteq alive
    BY DEF Killed
  <1> HIDE DEF blast, bricks
  <1>3. tiles' \in [Cells -> TileKinds]
    BY <1>1 DEF Explode, Typed, TypeOK, TileKinds, bricks
  <1>4. powerups' \in [PowerupSlots -> Powerups]
    BY <1>1 DEF Explode, Typed, TypeOK, Powerups, bricks
  <1>5. activeBombs' \in [PlayerIds -> Nat]
    BY <1>1 DEF Explode, Released, Typed, TypeOK, Bombs
  <1>6. toldBricks' \in [Cells -> Nat] /\ toldKilled' \in [PlayerIds -> Nat]
    BY <1>1 DEF Explode, Typed, TypeOK
  <1>7. StageShape'
    BY <1>1 DEF Explode, flowVars, Typed, TypeOK, StageShape
  <1>8. /\ due' \subseteq bombs' /\ bombs' \subseteq Bombs
        /\ alive' \subseteq inMatch' /\ locked' \subseteq inMatch'
        /\ held' \subseteq PlayerIds
        /\ toldBombs' \subseteq [owner : PlayerIds, cell : Cells, radius : Nat]
    BY <1>1, <1>2 DEF Explode, Typed, TypeOK, blast
  <1>. QED BY <1>1, <1>3, <1>4, <1>5, <1>6, <1>7, <1>8
           DEF Explode, flowVars, Typed, TypeOK, Powerups

\* The end of a match tick keeps the types.
LEMMA FinishMatchTickTyped == ASSUME Typed, FinishMatchTick PROVE Typed'
  <1>1. effect' \in [PlayerIds -> [Effects -> Nat]]
    <2>1. ASSUME NEW p \in PlayerIds, NEW e \in Effects
          PROVE  Max({effect[p][e], EffectTicks}) \in Nat
      <3>1. effect[p][e] \in Nat /\ EffectTicks \in Nat
        BY TuningAssumption DEF Typed, TypeOK
      <3>. QED BY <3>1, MaxOfTwo
    <2>. QED BY <2>1 DEF FinishMatchTick, CollectRevealedPowerups, Typed, TypeOK
  <1>2. powerups' \in [PowerupSlots -> Powerups]
    BY PowerupTypes DEF FinishMatchTick, CollectRevealedPowerups, Typed, TypeOK, Powerups
  <1>3. maxBombs' \in [PlayerIds -> Nat] /\ bombRange' \in [PlayerIds -> Nat]
    BY LoadoutType DEF FinishMatchTick, LoadoutOfCollectors, Typed, TypeOK
  <1>4. /\ bombs' \in {bombs, {}} /\ toldBombs' \in {toldBombs, {}}
        /\ activeBombs' \in [PlayerIds -> Nat] /\ locked' \in {locked, inMatch}
        /\ phase' \in {phase, "EndOfMatch"} /\ unlockPending' \in BOOLEAN
    <2>1. CASE EndRound(inMatch)
      BY <2>1 DEF EndRound, ClearBombsAndReleaseOwnership
    <2>2. CASE UNCHANGED <<flowVars, bombs, activeBombs, toldBombs, locked>>
      BY <2>2 DEF flowVars, Typed, TypeOK
    <2>. QED BY <2>1, <2>2 DEF FinishMatchTick
  <1>5. StageShape' /\ due' = {} /\ toSimulate' = {}
    BY DEF FinishMatchTick, Typed, StageShape
  <1>. QED BY <1>1, <1>2, <1>3, <1>4, <1>5
           DEF FinishMatchTick, NotInTick, moveVars, Typed, TypeOK, Powerups

\* The end of a tick after the match keeps the types.
LEMMA FinishEndOfMatchTickTyped == ASSUME Typed, FinishEndOfMatchTick PROVE Typed'
  BY DEF FinishEndOfMatchTick, NotInTick, flowVars, boardVars, lifeVars, moveVars, loadoutVars,
         toldVars, Typed, TypeOK, StageShape

\* Every step keeps the types.
LEMMA NextTyped == Typed /\ [Next]_vars => Typed'
  <1> SUFFICES ASSUME Typed, [Next]_vars PROVE Typed'
    OBVIOUS
  <1>1. CASE UNCHANGED vars
    BY <1>1 DEF vars, flowVars, stageVars, boardVars, lifeVars, moveVars, loadoutVars, toldVars,
                Typed, TypeOK, StageShape
  <1>2. CASE TickStep
    BY <1>2, StartTickTyped, SimulatePlayerTyped, ResolveBombsTyped, ResolveBombTyped,
       FinishMatchTickTyped, FinishEndOfMatchTickTyped DEF TickStep
  <1>. QED BY <1>1, <1>2, BeginRoundTyped, ReturnTyped, DisconnectTyped DEF Next

(***************************************************************************)
(* The arena's variables keep their types, and within a tick the server is *)
(* where simulateServerTick can be: players are simulated before bombs     *)
(* explode, which they only do in a match.                                 *)
(***************************************************************************)
THEOREM TypeCorrect == Spec => [](TypeOK /\ StageShape)
  <1>1. Init => Typed
    BY InitTyped
  <1>2. Typed /\ [Next]_vars => Typed'
    BY NextTyped
  <1>. QED BY <1>1, <1>2, PTL DEF Spec, Typed

-----------------------------------------------------------------------------
(* Bombs. *)

\* The map is walled in, bombs lie in the open and no two in one cell.
BoardShape ==
  /\ \A c \in Border : tiles[c] = "Stone"
  /\ \A b \in bombs : tiles[b.cell] \notin Solid
  /\ \A a, b \in bombs : a.cell = b.cell => a = b

\* As many bombs as cells at most.
LEMMA BombsFinite == ASSUME Typed, BoardShape PROVE IsFiniteSet(bombs)
  <1> DEFINE at == [b \in bombs |-> b.cell]
  <1>1. at \in Injection(bombs, Cells)
    BY DEF Injection, IsInjective, BoardShape, Typed, TypeOK, Bombs
  <1>2. IsFiniteSet(Cells)
    <2>1. IsFiniteSet(0 .. Width - 1) /\ IsFiniteSet(0 .. Height - 1)
      BY GridAssumption, FS_Interval
    <2>. QED BY <2>1, FS_Product DEF Cells
  <1>. QED BY <1>1, <1>2, FS_Injection

\* No bomb is left where the map is new or the match is over.
LEMMA ClearedBoard ==
  ASSUME ClearBombsAndReleaseOwnership, \A c \in Border : tiles'[c] = "Stone"
  PROVE  BoardShape'
  BY DEF ClearBombsAndReleaseOwnership, BoardShape

\* The board keeps its shape while tiles and bombs stay.
LEMMA BoardKept == ASSUME BoardShape, UNCHANGED <<tiles, bombs>> PROVE BoardShape'
  BY DEF BoardShape

\* What tryPlaceBomb does, if anything.
Places(p, bomb) ==
  /\ bomb = [owner |-> p, cell |-> CellOf(pos[p]), fuse |-> FuseTicks, radius |-> bombRange'[p]]
  /\ MayPlace(p, bomb.cell)
  /\ bombs' = bombs \cup {bomb}
  /\ activeBombs' = [activeBombs EXCEPT ![p] = @ + 1]
  /\ toldBombs' = toldBombs \cup {Shown(bomb)}

\* A simulated player places one bomb or none; one who places is alive and free
\* to act.
LEMMA SimulatedPlayer ==
  ASSUME Typed, SimulatePlayer
  PROVE  /\ Min(toSimulate) \in toSimulate /\ Min(toSimulate) \in inMatch
         /\ \/ UNCHANGED <<bombs, activeBombs, toldBombs>>
            \/ /\ Min(toSimulate) \in alive \ locked
               /\ \E bomb : Places(Min(toSimulate), bomb)
         /\ Min(toSimulate) \notin alive \ locked => UNCHANGED <<activeBombs, pos>>
         /\ \A p \in PlayerIds : p # Min(toSimulate) =>
              pos'[p] = pos[p] /\ activeBombs'[p] = activeBombs[p]
  <1> DEFINE p == Min(toSimulate)
  <1>1. p \in toSimulate /\ p \in inMatch /\ p \in PlayerIds
    BY PlayersAssumption, MinType DEF SimulatePlayer, Typed, TypeOK
  <1> HIDE DEF p
  <1>2. ASSUME NEW buttons, TryPlaceBomb(p, buttons)
        PROVE  UNCHANGED <<bombs, activeBombs, toldBombs>> \/ \E bomb : Places(p, bomb)
    BY <1>2 DEF TryPlaceBomb, Places
  <1>3. \A q \in PlayerIds : q # p => pos'[q] = pos[q] /\ activeBombs'[q] = activeBombs[q]
    BY DEF SimulatePlayer, Idle, Act, TryPlaceBomb, Typed, TypeOK, p
  <1>4. CASE p \in alive \ locked
    BY <1>1, <1>2, <1>3, <1>4 DEF SimulatePlayer, Act, p
  <1>5. CASE p \notin alive \ locked
    BY <1>1, <1>3, <1>5 DEF SimulatePlayer, Idle, p
  <1>. QED BY <1>4, <1>5

\* A player's turn keeps the board's shape.
LEMMA SimulatePlayerBoard == ASSUME Typed, BoardShape, SimulatePlayer PROVE BoardShape'
  <1>1. tiles' = tiles
    BY DEF SimulatePlayer
  <1>2. CASE bombs' = bombs
    BY <1>1, <1>2, BoardKept
  <1>3. CASE \E bomb : Places(Min(toSimulate), bomb)
    BY <1>1, <1>3 DEF Places, MayPlace, BoardShape
  <1>. QED BY <1>2, <1>3, SimulatedPlayer

\* An explosion only ever turns bricks into grass.
LEMMA ExplodedTiles ==
  ASSUME Typed, NEW bomb \in due, Explode(bomb), NEW c \in Cells
  PROVE  tiles'[c] = tiles[c] \/ (tiles[c] = "Brick" /\ tiles'[c] = "Grass")
  BY DEF Explode, Explosion, Typed, TypeOK

\* An explosion keeps the board's shape.
LEMMA ResolveBombBoard == ASSUME Typed, BoardShape, ResolveBombExplosion PROVE BoardShape'
  <1>1. PICK bomb \in due : Explode(bomb)
    BY DEF ResolveBombExplosion
  <1>2. bombs' \subseteq bombs
    BY <1>1 DEF Explode
  <1>3. \A c \in Cells : tiles'[c] = tiles[c] \/ (tiles[c] = "Brick" /\ tiles'[c] = "Grass")
    BY <1>1, ExplodedTiles
  <1>4. Border \subseteq Cells /\ \A b \in bombs : b.cell \in Cells
    BY DEF Border, Typed, TypeOK, Bombs
  <1>. QED BY <1>2, <1>3, <1>4 DEF BoardShape, Solid

\* A bomb one tick later.
Burnt(b) == [b EXCEPT !.fuse = @ - 1]

\* All bombs burn, and nothing else about them changes.
LEMMA StartTickBurns ==
  ASSUME Typed, StartTick
  PROVE  /\ bombs' = {Burnt(b) : b \in bombs}
         /\ \A b \in bombs : /\ Burnt(b) \in Bombs /\ Burnt(b).fuse = b.fuse - 1
                             /\ Burnt(b).owner = b.owner /\ Burnt(b).cell = b.cell
                             /\ Burnt(b).radius = b.radius
         /\ \A a, b \in bombs : Burnt(a) = Burnt(b) => a = b
  <1>1. bombs' = {Burnt(b) : b \in bombs}
    BY DEF StartTick, Burnt
  <1>2. ASSUME NEW b \in bombs
        PROVE  /\ Burnt(b) \in Bombs /\ Burnt(b).fuse = b.fuse - 1
               /\ Burnt(b).owner = b.owner /\ Burnt(b).cell = b.cell
               /\ Burnt(b).radius = b.radius
    BY SMTT(30) DEF Burnt, Typed, TypeOK, Bombs
  <1>3. ASSUME NEW a \in bombs, NEW b \in bombs, Burnt(a) = Burnt(b) PROVE a = b
    <2>1. a \in Bombs /\ b \in Bombs
      BY DEF Typed, TypeOK
    <2>2. a.owner = b.owner /\ a.cell = b.cell /\ a.radius = b.radius /\ a.fuse - 1 = b.fuse - 1
      BY <1>2, <1>3
    <2>3. a.fuse = b.fuse
      BY <2>1, <2>2 DEF Bombs
    <2>. QED BY <2>1, <2>2, <2>3 DEF Bombs
  <1>. QED BY <1>1, <1>2, <1>3

\* The beginning of a tick keeps the board's shape.
LEMMA StartTickBoard == ASSUME Typed, BoardShape, StartTick PROVE BoardShape'
  <1>1. tiles' = tiles
    BY DEF StartTick
  <1>. QED BY <1>1, StartTickBurns DEF BoardShape

\* Every step keeps the board's shape.
LEMMA NextBoard == Typed /\ BoardShape /\ [Next]_vars => BoardShape'
  <1> SUFFICES ASSUME Typed, BoardShape, [Next]_vars PROVE BoardShape'
    OBVIOUS
  <1>1. ASSUME NEW ids \in SUBSET PlayerIds, BeginRound(ids) PROVE BoardShape'
    BY <1>1, ClearedBoard, GeneratedMapType DEF BeginRound
  <1>2. CASE ReturnToLobby
    BY <1>2, ClearedBoard DEF ReturnToLobby, ResetToLobby, BoardShape
  <1>3. ASSUME NEW p \in PlayerIds, Disconnect(p) PROVE BoardShape'
    BY <1>3, ClearedBoard, BoardKept DEF Disconnect, ResetToLobby, EndRound, BoardShape
  <1>4. CASE ResolveExplodingBombs \/ FinishEndOfMatchTick \/ UNCHANGED vars
    BY <1>4, BoardKept DEF ResolveExplodingBombs, FinishEndOfMatchTick, boardVars, vars
  <1>5. CASE FinishMatchTick
    BY <1>5, ClearedBoard, BoardKept DEF FinishMatchTick, EndRound, BoardShape
  <1>. QED BY <1>1, <1>2, <1>3, <1>4, <1>5, StartTickBoard, SimulatePlayerBoard, ResolveBombBoard
           DEF Next, TickStep

\* The board has its shape at first.
LEMMA InitBoard == Init => BoardShape
  BY GeneratedMapType DEF Init, BoardShape

\* One bomb more or less of one owner.
LEMMA OwnedPlus ==
  ASSUME NEW p, NEW set, IsFiniteSet(set), NEW bomb, bomb \notin set
  PROVE  Cardinality(OwnedBy(p, set \cup {bomb})) =
           Cardinality(OwnedBy(p, set)) + (IF bomb.owner = p THEN 1 ELSE 0)
  <1>1. IsFiniteSet(OwnedBy(p, set))
    BY FS_Subset DEF OwnedBy
  <1>2. Cardinality(OwnedBy(p, set)) \in Nat
    BY <1>1, FS_CardinalityType
  <1>3. CASE bomb.owner = p
    <2>1. OwnedBy(p, set \cup {bomb}) = OwnedBy(p, set) \cup {bomb} /\ bomb \notin OwnedBy(p, set)
      BY <1>3 DEF OwnedBy
    <2>. QED BY <1>1, <1>3, <2>1, FS_AddElement
  <1>4. CASE bomb.owner # p
    <2>1. OwnedBy(p, set \cup {bomb}) = OwnedBy(p, set)
      BY <1>4 DEF OwnedBy
    <2>. QED BY <1>2, <1>4, <2>1
  <1>. QED BY <1>3, <1>4

\* A bomb taken away is one less of its owner's.
LEMMA OwnedMinus ==
  ASSUME NEW p, NEW set, IsFiniteSet(set), NEW bomb \in set
  PROVE  Cardinality(OwnedBy(p, set \ {bomb})) =
           Cardinality(OwnedBy(p, set)) - (IF bomb.owner = p THEN 1 ELSE 0)
  <1>1. IsFiniteSet(OwnedBy(p, set))
    BY FS_Subset DEF OwnedBy
  <1>2. Cardinality(OwnedBy(p, set)) \in Nat
    BY <1>1, FS_CardinalityType
  <1>3. CASE bomb.owner = p
    <2>1. OwnedBy(p, set \ {bomb}) = OwnedBy(p, set) \ {bomb} /\ bomb \in OwnedBy(p, set)
      BY <1>3 DEF OwnedBy
    <2>. QED BY <1>1, <1>3, <2>1, FS_RemoveElement
  <1>4. CASE bomb.owner # p
    <2>1. OwnedBy(p, set \ {bomb}) = OwnedBy(p, set)
      BY <1>4 DEF OwnedBy
    <2>. QED BY <1>2, <1>4, <2>1
  <1>. QED BY <1>3, <1>4

\* No bombs, none of anybody's.
LEMMA OwnedNone == \A p : Cardinality(OwnedBy(p, {})) = 0
  BY FS_EmptySet DEF OwnedBy

\* A player has as many bombs after the fuses have burnt as before.
LEMMA OwnedBurnt ==
  ASSUME Typed, BoardShape, StartTick, NEW p
  PROVE  Cardinality(OwnedBy(p, bombs')) = Cardinality(OwnedBy(p, bombs))
  <1> DEFINE f == [b \in OwnedBy(p, bombs) |-> Burnt(b)]
  <1>1. f \in Bijection(OwnedBy(p, bombs), OwnedBy(p, bombs'))
    <2>1. /\ f \in [OwnedBy(p, bombs) -> OwnedBy(p, bombs')]
          /\ \A a, b \in OwnedBy(p, bombs) : f[a] = f[b] => a = b
          /\ \A c \in OwnedBy(p, bombs') : \E b \in OwnedBy(p, bombs) : f[b] = c
      BY StartTickBurns DEF OwnedBy
    <2>. QED BY <2>1, Zenon DEF Bijection, Injection, IsInjective, Surjection
  <1>2. IsFiniteSet(OwnedBy(p, bombs))
    BY BombsFinite, FS_Subset DEF OwnedBy
  <1>. QED BY <1>1, <1>2, FS_Bijection DEF ExistsBijection

\* Every step keeps the count of each player's bombs.
LEMMA NextAccounted ==
  Typed /\ BoardShape /\ BombsAccounted /\ [Next]_vars => BombsAccounted'
  <1> SUFFICES ASSUME Typed, BoardShape, BombsAccounted, [Next]_vars PROVE BombsAccounted'
    OBVIOUS
  <1>1. ASSUME ClearBombsAndReleaseOwnership, inMatch' \subseteq PlayerIds PROVE BombsAccounted'
    BY <1>1, OwnedNone DEF ClearBombsAndReleaseOwnership, BombsAccounted
  <1>2. ASSUME UNCHANGED <<bombs, activeBombs>>, inMatch' \subseteq inMatch PROVE BombsAccounted'
    BY <1>2 DEF BombsAccounted
  <1>3. ASSUME NEW ids \in SUBSET PlayerIds, BeginRound(ids) PROVE BombsAccounted'
    BY <1>1, <1>3 DEF BeginRound
  <1>4. CASE ReturnToLobby
    BY <1>1, <1>4 DEF ReturnToLobby, ResetToLobby
  <1>5. ASSUME NEW p \in PlayerIds, Disconnect(p) PROVE BombsAccounted'
    <2>1. inMatch' \subseteq PlayerIds /\ inMatch' \subseteq inMatch
      BY <1>5 DEF Disconnect, ResetToLobby, Typed, TypeOK
    <2>. QED BY <1>1, <1>2, <1>5, <2>1 DEF Disconnect, ResetToLobby, EndRound
  <1>6. CASE StartTick
    BY <1>6, OwnedBurnt DEF StartTick, BombsAccounted
  <1>7. CASE SimulatePlayer
    <2>1. inMatch' = inMatch
      BY <1>7 DEF SimulatePlayer, lifeVars
    <2>2. ASSUME NEW bomb, Places(Min(toSimulate), bomb), Min(toSimulate) \in inMatch
          PROVE  BombsAccounted'
      <3>1. bomb \notin bombs /\ bomb.owner = Min(toSimulate)
        BY <2>2 DEF Places, MayPlace
      <3>2. ASSUME NEW p \in inMatch
            PROVE  activeBombs'[p] = activeBombs[p] + (IF bomb.owner = p THEN 1 ELSE 0)
        BY <2>2, <3>1 DEF Places, Typed, TypeOK
      <3>. QED BY <2>1, <2>2, <3>1, <3>2, BombsFinite, OwnedPlus DEF Places, BombsAccounted
    <2>. QED BY <1>2, <1>7, <2>1, <2>2, SimulatedPlayer
  <1>8. CASE ResolveBombExplosion
    <2>1. PICK bomb \in due : Explode(bomb)
      BY <1>8 DEF ResolveBombExplosion
    <2>2. inMatch' = inMatch /\ bomb \in bombs
      BY <2>1 DEF Explode, Typed, TypeOK
    <2>3. ASSUME NEW p \in inMatch
          PROVE  activeBombs'[p] = Cardinality(OwnedBy(p, bombs'))
      <3>1. /\ activeBombs[p] = Cardinality(OwnedBy(p, bombs)) /\ activeBombs[p] \in Nat
            /\ Cardinality(OwnedBy(p, bombs')) =
                 Cardinality(OwnedBy(p, bombs)) - (IF bomb.owner = p THEN 1 ELSE 0)
        BY <2>1, <2>2, BombsFinite, OwnedMinus DEF Explode, BombsAccounted, Typed, TypeOK
      <3>2. Cardinality(OwnedBy(p, bombs')) \in Nat
        <4>1. IsFiniteSet(OwnedBy(p, bombs'))
          BY <2>1, BombsFinite, FS_Subset DEF Explode, OwnedBy
        <4>. QED BY <4>1, FS_CardinalityType
      <3>3. bomb.owner = p => activeBombs[p] > 0
        BY <3>1, <3>2
      <3>4. activeBombs' = Released(bomb) /\ activeBombs \in [PlayerIds -> Nat] /\ p \in PlayerIds
        BY <2>1 DEF Explode, Typed, TypeOK
      <3>5. activeBombs'[p] = activeBombs[p] - (IF bomb.owner = p THEN 1 ELSE 0)
        BY <3>3, <3>4 DEF Released
      <3>. QED BY <3>1, <3>5
    <2>. QED BY <2>2, <2>3 DEF BombsAccounted
  <1>9. CASE FinishMatchTick
    BY <1>1, <1>2, <1>9 DEF FinishMatchTick, EndRound, Typed, TypeOK
  <1>10. CASE ResolveExplodingBombs \/ FinishEndOfMatchTick \/ UNCHANGED vars
    BY <1>2, <1>10 DEF ResolveExplodingBombs, FinishEndOfMatchTick, boardVars, loadoutVars, lifeVars,
                       vars
  <1>. QED BY <1>3, <1>4, <1>5, <1>6, <1>7, <1>8, <1>9, <1>10 DEF Next, TickStep

\* No player has more bombs on the map than the boosted limit, those who left
\* included.
WithinLimit == \A p \in PlayerIds : Cardinality(OwnedBy(p, bombs)) <= BoostedMaxBombs

\* Every step keeps the number of bombs within each player's limit.
LEMMA NextWithinLimit ==
  Typed /\ BoardShape /\ BombsAccounted /\ WithinLimit /\ [Next]_vars => WithinLimit'
  <1> SUFFICES ASSUME Typed, BoardShape, BombsAccounted, WithinLimit, [Next]_vars
               PROVE  WithinLimit'
    OBVIOUS
  <1>1. ASSUME ClearBombsAndReleaseOwnership PROVE WithinLimit'
    BY <1>1, OwnedNone, TuningAssumption DEF ClearBombsAndReleaseOwnership, WithinLimit
  <1>2. ASSUME UNCHANGED bombs PROVE WithinLimit'
    BY <1>2 DEF WithinLimit
  <1>3. ASSUME NEW p \in PlayerIds, Disconnect(p) PROVE WithinLimit'
    BY <1>1, <1>2, <1>3 DEF Disconnect, ResetToLobby, EndRound
  <1>4. CASE StartTick
    BY <1>4, OwnedBurnt DEF WithinLimit
  <1>5. CASE SimulatePlayer
    <2> DEFINE p == Min(toSimulate)
    <2>1. ASSUME NEW bomb, Places(p, bomb), p \in inMatch PROVE WithinLimit'
      <3>1. bomb \notin bombs /\ bomb.owner = p /\ bombs' = bombs \cup {bomb} /\ p \in PlayerIds
        BY <2>1 DEF Places, MayPlace, Typed, TypeOK
      <3>2. maxBombs'[p] = MaxBombsWith(effect[p]) /\ activeBombs[p] < maxBombs'[p]
        BY <1>5, <2>1, <3>1 DEF SimulatePlayer, Places, MayPlace, Typed, TypeOK
      <3>3. maxBombs'[p] <= BoostedMaxBombs /\ maxBombs'[p] \in Nat /\ activeBombs[p] \in Nat
        BY <3>1, <3>2, TuningAssumption DEF MaxBombsWith, Typed, TypeOK
      <3>4. ASSUME NEW q \in PlayerIds
            PROVE  Cardinality(OwnedBy(q, bombs')) =
                     Cardinality(OwnedBy(q, bombs)) + (IF bomb.owner = q THEN 1 ELSE 0)
        BY <3>1, BombsFinite, OwnedPlus
      <3>5. activeBombs[p] = Cardinality(OwnedBy(p, bombs))
        BY <2>1 DEF BombsAccounted
      <3>6. \A q \in PlayerIds : Cardinality(OwnedBy(q, bombs)) \in Nat
        BY BombsFinite, FS_Subset, FS_CardinalityType DEF OwnedBy
      <3>7. BoostedMaxBombs \in Nat
        BY TuningAssumption
      <3> HIDE DEF p
      <3>8. ASSUME NEW q \in PlayerIds PROVE Cardinality(OwnedBy(q, bombs')) <= BoostedMaxBombs
        <4>1. CASE q = p
          BY <3>1, <3>2, <3>3, <3>4, <3>5, <3>7, <4>1
        <4>2. CASE q # p
          BY <3>1, <3>4, <3>6, <3>7, <4>2 DEF WithinLimit
        <4>. QED BY <4>1, <4>2
      <3>. QED BY <3>8 DEF WithinLimit
    <2>. QED BY <1>2, <1>5, <2>1, SimulatedPlayer
  <1>6. CASE ResolveBombExplosion
    <2>1. PICK bomb \in due : Explode(bomb)
      BY <1>6 DEF ResolveBombExplosion
    <2>2. bombs' \subseteq bombs
      BY <2>1 DEF Explode
    <2>3. ASSUME NEW p \in PlayerIds
          PROVE  Cardinality(OwnedBy(p, bombs')) <= BoostedMaxBombs
      <3>1. IsFiniteSet(OwnedBy(p, bombs))
        BY BombsFinite, FS_Subset DEF OwnedBy
      <3>2. OwnedBy(p, bombs') \subseteq OwnedBy(p, bombs)
        BY <2>2 DEF OwnedBy
      <3>3. /\ Cardinality(OwnedBy(p, bombs')) <= Cardinality(OwnedBy(p, bombs))
            /\ Cardinality(OwnedBy(p, bombs')) \in Nat /\ Cardinality(OwnedBy(p, bombs)) \in Nat
        BY <3>1, <3>2, FS_Subset, FS_CardinalityType
      <3>. QED BY <3>3, TuningAssumption DEF WithinLimit
    <2>. QED BY <2>3 DEF WithinLimit
  <1>7. CASE FinishMatchTick
    BY <1>1, <1>2, <1>7 DEF FinishMatchTick, EndRound
  <1>8. ASSUME NEW ids \in SUBSET PlayerIds, BeginRound(ids) PROVE WithinLimit'
    BY <1>1, <1>8 DEF BeginRound
  <1>9. CASE ReturnToLobby
    BY <1>1, <1>9 DEF ReturnToLobby, ResetToLobby
  <1>10. CASE ResolveExplodingBombs \/ FinishEndOfMatchTick \/ UNCHANGED vars
    BY <1>2, <1>10 DEF ResolveExplodingBombs, FinishEndOfMatchTick, boardVars, vars
  <1>. QED BY <1>3, <1>4, <1>5, <1>6, <1>7, <1>8, <1>9, <1>10 DEF Next, TickStep

\* If nobody has more than n bombs, all together have at most n for each player:
\* number each player's bombs, and a bomb is its owner and its number.
LEMMA AllTogether ==
  ASSUME Typed, BoardShape, WithinLimit
  PROVE  Cardinality(bombs) <= BoostedMaxBombs * Cardinality(PlayerIds)
  <1> DEFINE count(p) == Cardinality(OwnedBy(p, bombs))
             number  == [p \in PlayerIds |->
                           CHOOSE f \in Injection(OwnedBy(p, bombs), 1 .. BoostedMaxBombs) : TRUE]
             seat == [b \in bombs |-> <<b.owner, number[b.owner][b]>>]
             seats == PlayerIds \X (1 .. BoostedMaxBombs)
  <1>1. ASSUME NEW p \in PlayerIds
        PROVE  number[p] \in Injection(OwnedBy(p, bombs), 1 .. BoostedMaxBombs)
    <2>1. IsFiniteSet(OwnedBy(p, bombs))
      BY BombsFinite, FS_Subset DEF OwnedBy
    <2>2. count(p) \in Nat /\ ExistsBijection(1 .. count(p), OwnedBy(p, bombs))
      BY <2>1, FS_CardinalityType
    <2>3. PICK f \in Bijection(OwnedBy(p, bombs), 1 .. count(p)) : TRUE
      BY <2>2, Fun_ExistsBijSymmetric DEF ExistsBijection
    <2>4. count(p) <= BoostedMaxBombs /\ BoostedMaxBombs \in Nat
      BY TuningAssumption DEF WithinLimit
    <2>5. 1 .. count(p) \subseteq 1 .. BoostedMaxBombs
      BY <2>2, <2>4
    <2>6. f \in Injection(OwnedBy(p, bombs), 1 .. BoostedMaxBombs)
      BY <2>3, <2>5 DEF Bijection, Injection, IsInjective
    <2>. QED BY <2>6
  <1> HIDE DEF number
  <1>2. seat \in Injection(bombs, seats)
    <2>1. ASSUME NEW b \in bombs
          PROVE  b.owner \in PlayerIds /\ b \in OwnedBy(b.owner, bombs)
      BY DEF Typed, TypeOK, Bombs, OwnedBy
    <2>2. seat \in [bombs -> seats]
      BY <1>1, <2>1 DEF Injection
    <2>3. ASSUME NEW a \in bombs, NEW b \in bombs, seat[a] = seat[b] PROVE a = b
      <3>1. a.owner = b.owner /\ number[a.owner][a] = number[a.owner][b]
        BY <2>3
      <3>. QED BY <1>1, <2>1, <3>1 DEF Injection, IsInjective
    <2>. QED BY <2>2, <2>3 DEF Injection, IsInjective
  <1>3. /\ IsFiniteSet(seats)
        /\ Cardinality(seats) = Cardinality(PlayerIds) * BoostedMaxBombs
    <2>1. IsFiniteSet(1 .. BoostedMaxBombs) /\ Cardinality(1 .. BoostedMaxBombs) = BoostedMaxBombs
      BY FS_Interval, TuningAssumption
    <2>. QED BY <2>1, PlayersAssumption, FS_Product
  <1>4. Cardinality(bombs) <= Cardinality(seats)
    BY <1>2, <1>3, FS_Injection
  <1>5. Cardinality(PlayerIds) \in Nat /\ BoostedMaxBombs \in Nat
    BY PlayersAssumption, FS_CardinalityType, TuningAssumption
  <1>. QED BY <1>3, <1>4, <1>5

\* What the events have told of is what is on the map.
BombsTold == toldBombs = {Shown(b) : b \in bombs}

\* Every step keeps the bombs the clients were told of.
LEMMA NextBombsTold == Typed /\ BoardShape /\ BombsTold /\ [Next]_vars => BombsTold'
  <1> SUFFICES ASSUME Typed, BoardShape, BombsTold, [Next]_vars PROVE BombsTold'
    OBVIOUS
  <1>1. ASSUME ClearBombsAndReleaseOwnership PROVE BombsTold'
    BY <1>1 DEF ClearBombsAndReleaseOwnership, BombsTold
  <1>2. ASSUME UNCHANGED <<bombs, toldBombs>> PROVE BombsTold'
    BY <1>2 DEF BombsTold
  <1>3. ASSUME NEW p \in PlayerIds, Disconnect(p) PROVE BombsTold'
    BY <1>1, <1>2, <1>3 DEF Disconnect, ResetToLobby, EndRound
  <1>4. CASE StartTick
    <2>1. \A b \in bombs : Shown(Burnt(b)) = Shown(b)
      BY <1>4, StartTickBurns DEF Shown
    <2>2. toldBombs' = toldBombs
      BY <1>4 DEF StartTick, toldVars
    <2>. QED BY <1>4, <2>1, <2>2, StartTickBurns DEF BombsTold
  <1>5. CASE SimulatePlayer
    <2>1. ASSUME NEW p, NEW bomb, Places(p, bomb) PROVE BombsTold'
      BY <2>1 DEF Places, BombsTold
    <2>. QED BY <1>2, <1>5, <2>1, SimulatedPlayer
  <1>6. CASE ResolveBombExplosion
    <2>1. PICK bomb \in due : Explode(bomb)
      BY <1>6 DEF ResolveBombExplosion
    <2>2. \A b \in bombs : Shown(b).cell = bomb.cell <=> b = bomb
      BY <2>1 DEF Shown, BoardShape, Typed, TypeOK
    <2>. QED BY <2>1, <2>2 DEF Explode, BombsTold
  <1>7. CASE FinishMatchTick
    BY <1>1, <1>2, <1>7 DEF FinishMatchTick, EndRound
  <1>8. ASSUME NEW ids \in SUBSET PlayerIds, BeginRound(ids) PROVE BombsTold'
    BY <1>1, <1>8 DEF BeginRound
  <1>9. CASE ReturnToLobby
    BY <1>1, <1>9 DEF ReturnToLobby, ResetToLobby
  <1>10. CASE ResolveExplodingBombs \/ FinishEndOfMatchTick \/ UNCHANGED vars
    BY <1>2, <1>10 DEF ResolveExplodingBombs, FinishEndOfMatchTick, boardVars, toldVars, vars
  <1>. QED BY <1>3, <1>4, <1>5, <1>6, <1>7, <1>8, <1>9, <1>10 DEF Next, TickStep

\* Everything above, which is inductive.
BombInv == Typed /\ BoardShape /\ BombsAccounted /\ WithinLimit /\ BombsTold

\* The invariant of bombs holds at first.
LEMMA InitBombInv == Init => BombInv
  <1> SUFFICES ASSUME Init PROVE BombInv
    OBVIOUS
  <1>1. WithinLimit
    BY OwnedNone, TuningAssumption DEF Init, WithinLimit
  <1>2. BombsAccounted /\ BombsTold
    BY DEF Init, BombsAccounted, BombsTold
  <1>. QED BY <1>1, <1>2, InitTyped, InitBoard DEF BombInv

\* The invariant of bombs is inductive.
LEMMA NextBombInv == BombInv /\ [Next]_vars => BombInv'
  BY NextTyped, NextBoard, NextAccounted, NextWithinLimit, NextBombsTold DEF BombInv

\* The invariant of bombs always holds.
LEMMA BombInvHolds == Spec => []BombInv
  BY InitBombInv, NextBombInv, PTL DEF Spec

(***************************************************************************)
(* A player's activeBombCount is the number of his bombs on the map.       *)
(***************************************************************************)
THEOREM BombsCorrect == Spec => []BombsAccounted
  <1>1. BombInv => BombsAccounted
    BY DEF BombInv
  <1>. QED BY <1>1, BombInvHolds, PTL

(***************************************************************************)
(* A client that follows the events has the bombs that a snapshot shows,   *)
(* and there is always room for them in one: no player's bombs exceed the  *)
(* boosted limit, which is counted over the players, those who left too.   *)
(***************************************************************************)
THEOREM EventsCorrect == Spec => []EventsMatchSnapshots
  <1>1. ASSUME BombInv PROVE EventsMatchSnapshots
    <2>1. Cardinality(bombs) <= BoostedMaxBombs * Cardinality(PlayerIds)
      BY <1>1, AllTogether DEF BombInv
    <2>2. Cardinality(bombs) \in Nat /\ Cardinality(PlayerIds) \in Nat
      BY <1>1, BombsFinite, PlayersAssumption, FS_CardinalityType DEF BombInv
    <2>3. Cardinality(bombs) <= MaxSnapshotBombs
      <3> DEFINE all == BoostedMaxBombs * Cardinality(PlayerIds)
      <3>1. all \in Nat /\ all <= MaxSnapshotBombs /\ MaxSnapshotBombs \in Nat
        BY <2>2, TuningAssumption
      <3>2. Cardinality(bombs) <= all
        BY <2>1
      <3> HIDE DEF all
      <3>. QED BY <2>2, <3>1, <3>2
    <2>. QED BY <1>1, <2>3 DEF BombInv, BombsTold, EventsMatchSnapshots
  <1>. QED BY <1>1, BombInvHolds, PTL

-----------------------------------------------------------------------------
(* Losses. *)

\* Losses stay told while tiles, players and what was told of them stay.
LEMMA LossesKept ==
  ASSUME LossesToldOnce, UNCHANGED <<tiles, alive, toldBricks, toldKilled>>, inMatch' \subseteq inMatch
  PROVE  LossesToldOnce'
  BY DEF LossesToldOnce

\* Every step tells each loss once.
LEMMA NextLosses == Typed /\ LossesToldOnce /\ [Next]_vars => LossesToldOnce'
  <1> SUFFICES ASSUME Typed, LossesToldOnce, [Next]_vars PROVE LossesToldOnce'
    OBVIOUS
  <1>1. ASSUME NEW ids \in SUBSET PlayerIds, BeginRound(ids) PROVE LossesToldOnce'
    BY <1>1 DEF BeginRound, LossesToldOnce
  <1>2. CASE ReturnToLobby
    BY <1>2 DEF ReturnToLobby, ResetToLobby, LossesToldOnce
  <1>3. ASSUME NEW p \in PlayerIds, Disconnect(p) PROVE LossesToldOnce'
    BY <1>3 DEF Disconnect, ResetToLobby, EndRound, LossesToldOnce
  <1>4. CASE ResolveBombExplosion
    <2>1. PICK bomb \in due : Explode(bomb)
      BY <1>4 DEF ResolveBombExplosion
    <2>2. ASSUME NEW c \in Cells
          PROVE  toldBricks'[c] <= 1 /\ (toldBricks'[c] = 1 => tiles'[c] = "Grass")
      <3>1. /\ toldBricks[c] \in Nat /\ toldBricks[c] <= 1
            /\ toldBricks[c] = 1 => tiles[c] = "Grass"
        BY DEF LossesToldOnce, Typed, TypeOK
      <3>2. CASE c \in Explosion(bomb).bricks
        <4>1. tiles[c] = "Brick" /\ tiles'[c] = "Grass" /\ toldBricks'[c] = toldBricks[c] + 1
          BY <2>1, <3>2 DEF Explode, Explosion
        <4>. QED BY <3>1, <4>1
      <3>3. CASE c \notin Explosion(bomb).bricks
        BY <2>1, <3>1, <3>3 DEF Explode
      <3>. QED BY <3>2, <3>3
    <2>3. ASSUME NEW p \in inMatch'
          PROVE  toldKilled'[p] = IF p \in alive' THEN 0 ELSE 1
      <3> DEFINE killed == Killed(Explosion(bomb).blast)
      <3>1. p \in inMatch /\ p \in PlayerIds
        BY <2>1 DEF Explode, Typed, TypeOK
      <3>2. /\ alive' = alive \ killed
            /\ toldKilled'[p] = IF p \in killed THEN toldKilled[p] + 1 ELSE toldKilled[p]
        BY <2>1, <3>1 DEF Explode
      <3>3. killed \subseteq alive
        BY DEF Killed
      <3> HIDE DEF killed
      <3>. QED BY <3>1, <3>2, <3>3 DEF LossesToldOnce
    <2>. QED BY <2>2, <2>3 DEF LossesToldOnce
  <1>5. CASE StartTick \/ SimulatePlayer
    BY <1>5, LossesKept DEF StartTick, SimulatePlayer, lifeVars, toldVars
  <1>6. CASE ResolveExplodingBombs \/ FinishEndOfMatchTick \/ FinishMatchTick \/ UNCHANGED vars
    BY <1>6, LossesKept
    DEF ResolveExplodingBombs, FinishEndOfMatchTick, FinishMatchTick, boardVars, lifeVars, toldVars, vars
  <1>. QED BY <1>1, <1>2, <1>3, <1>4, <1>5, <1>6 DEF Next, TickStep

(***************************************************************************)
(* No brick and no death is reported twice or for nothing.                 *)
(***************************************************************************)
THEOREM LossesCorrect == Spec => []LossesToldOnce
  <1>1. Init => LossesToldOnce
    BY DEF Init, LossesToldOnce
  <1>2. Typed /\ LossesToldOnce /\ [Next]_vars => LossesToldOnce'
    BY NextLosses
  <1>. QED BY <1>1, <1>2, InitTyped, NextTyped, PTL DEF Spec

-----------------------------------------------------------------------------
(* The dead and the locked. *)

\* A player who keeps his place, has no more bombs counted and no effect prolonged.
Rests(p) ==
  /\ pos'[p] = pos[p] /\ activeBombs'[p] <= activeBombs[p]
  /\ \A e \in Effects : effect'[p][e] <= effect[p][e]

\* A player rests when it keeps its place and effect, and its bombs are at most cleared.
LEMMA Resting ==
  ASSUME Typed, NEW p \in PlayerIds, UNCHANGED <<pos, effect>>,
         activeBombs' = activeBombs \/ ClearBombsAndReleaseOwnership
  PROVE  Rests(p)
  <1>1. activeBombs[p] \in Nat /\ \A e \in Effects : effect[p][e] \in Nat
    BY DEF Typed, TypeOK
  <1>2. activeBombs'[p] <= activeBombs[p]
    BY <1>1 DEF ClearBombsAndReleaseOwnership
  <1>. QED BY <1>1, <1>2 DEF Rests

\* Every step leaves a player who is out of play at rest.
LEMMA NextOutOfPlay ==
  ASSUME Typed, [Next]_vars, phase = "InMatch",
         NEW p \in (inMatch \ alive) \cup (locked \cap locked')
  PROVE  Rests(p)
  <1>1. p \in PlayerIds /\ (p \notin alive \/ p \in locked) /\ p \in inMatch
    BY DEF Typed, TypeOK
  <1>2. /\ activeBombs[p] \in Nat /\ \A e \in Effects : effect[p][e] \in Nat
        /\ activeBombs \in [PlayerIds -> Nat]
    BY <1>1 DEF Typed, TypeOK
  <1>3. CASE UNCHANGED vars \/ ResolveExplodingBombs \/ FinishEndOfMatchTick
    BY <1>1, <1>3, Resting DEF vars, ResolveExplodingBombs, FinishEndOfMatchTick, moveVars, loadoutVars
  <1>4. ASSUME NEW q \in PlayerIds, Disconnect(q) PROVE Rests(p)
    BY <1>1, <1>4, Resting DEF Disconnect, ResetToLobby, EndRound, moveVars
  <1>5. CASE StartTick
    <2>1. pos' = pos /\ activeBombs' = activeBombs
      BY <1>5 DEF StartTick, moveVars
    <2>2. \A e \in Effects : effect'[p][e] <= effect[p][e]
      BY <1>1, <1>2, <1>5 DEF StartTick, Less
    <2>. QED BY <1>2, <2>1, <2>2 DEF Rests
  <1>6. CASE SimulatePlayer
    <2>1. pos'[p] = pos[p] /\ activeBombs'[p] = activeBombs[p]
      BY <1>1, <1>6, SimulatedPlayer
    <2>2. effect' = effect
      BY <1>6 DEF SimulatePlayer
    <2>. QED BY <1>2, <2>1, <2>2 DEF Rests
  <1>7. CASE ResolveBombExplosion
    <2>1. PICK bomb \in due : Explode(bomb)
      BY <1>7 DEF ResolveBombExplosion
    <2>2. pos' = pos /\ effect' = effect /\ activeBombs' = Released(bomb)
      BY <2>1 DEF Explode
    <2>3. Released(bomb)[p] <= activeBombs[p]
      BY <1>1, <1>2 DEF Released
    <2>. QED BY <1>2, <2>2, <2>3 DEF Rests
  <1>8. CASE FinishMatchTick
    <2>1. pos' = pos /\ (activeBombs' = activeBombs \/ ClearBombsAndReleaseOwnership)
      BY <1>8 DEF FinishMatchTick, EndRound, moveVars
    <2>2. activeBombs'[p] <= activeBombs[p]
      BY <1>1, <1>2, <2>1 DEF ClearBombsAndReleaseOwnership
    <2>3. \A i \in PowerupSlots : ~Collects(p, i)
      <3>1. SUFFICES ASSUME NEW i \in PowerupSlots, Collectors(i) # {}, p = Min(Collectors(i))
                     PROVE  FALSE
        BY DEF Collects
      <3>2. Collectors(i) \in SUBSET Nat
        BY PlayersAssumption DEF Collectors, Typed, TypeOK
      <3>3. p \in Collectors(i)
        BY <3>1, <3>2, MinType
      <3>. QED BY <1>1, <3>3 DEF Collectors
    <2>4. \A e \in Effects : effect'[p][e] = effect[p][e]
      BY <1>1, <1>8, <2>3 DEF FinishMatchTick, CollectRevealedPowerups
    <2>. QED BY <1>2, <2>1, <2>2, <2>4 DEF Rests
  <1>9. ~ReturnToLobby /\ \A ids : ~BeginRound(ids)
    BY DEF ReturnToLobby, BeginRound
  <1>. QED BY <1>3, <1>4, <1>5, <1>6, <1>7, <1>8, <1>9 DEF Next, TickStep

(***************************************************************************)
(* Nobody who is dead, or locked before and after a step, moves in it,     *)
(* places a bomb or gains from a powerup.                                  *)
(***************************************************************************)
THEOREM OutOfPlayCorrect == Spec => OutOfPlay
  <1>1. Typed /\ [Next]_vars =>
          [phase = "InMatch" =>
             \A p \in (inMatch \ alive) \cup (locked \cap locked') :
               /\ pos'[p] = pos[p] /\ activeBombs'[p] <= activeBombs[p]
               /\ \A e \in Effects : effect'[p][e] <= effect[p][e]]_vars
    BY NextOutOfPlay DEF Rests
  <1>. QED BY <1>1, InitTyped, NextTyped, PTL DEF Spec, OutOfPlay

-----------------------------------------------------------------------------
(* Movement: the corners of a square speak for all of it. *)

\* A tile number is determined by any point of the tile.
LEMMA TileOfPoint ==
  ASSUME NEW a \in Nat, NEW col \in Int, NEW other \in Int, NEW b \in Nat \ {0},
         col * b <= a, a < (col + 1) * b, other * b <= a, a < (other + 1) * b
  PROVE  col = other
  <1>1. CASE col < other
    <2>1. (col + 1) * b <= other * b
      BY <1>1
    <2>. QED BY <2>1
  <1>2. CASE other < col
    <2>1. (other + 1) * b <= col * b
      BY <1>2
    <2>. QED BY <2>1
  <1>. QED BY <1>1, <1>2

\* Tiles overlapped by an interval no longer than a tile hold one of its ends.
LEMMA EndsOfInterval ==
  ASSUME NEW x \in Int, x >= HitboxHalfQ, NEW col \in Int,
         x - HitboxHalfQ < (col + 1) * TileQ, x + HitboxHalfQ > col * TileQ
  PROVE  col \in {TruncDiv(x - HitboxHalfQ, TileQ), TruncDiv(x + HitboxHalfQ - 1, TileQ)}
  <1> DEFINE near == x - HitboxHalfQ
             far  == x + HitboxHalfQ - 1
  <1>1. near \in Nat /\ far \in Nat /\ near <= far /\ far - near < TileQ
    BY TilePositive
  <1>2. /\ TruncDiv(near, TileQ) \in Nat /\ TruncDiv(near, TileQ) * TileQ <= near
        /\ near < (TruncDiv(near, TileQ) + 1) * TileQ
    BY <1>1, TilePositive, TruncDivNat
  <1>3. /\ TruncDiv(far, TileQ) \in Nat /\ TruncDiv(far, TileQ) * TileQ <= far
        /\ far < (TruncDiv(far, TileQ) + 1) * TileQ
    BY <1>1, TilePositive, TruncDivNat
  <1>4. near < (col + 1) * TileQ /\ col * TileQ <= far
    BY TilePositive
  <1>5. CASE col * TileQ <= near
    BY <1>1, <1>2, <1>4, <1>5, TilePositive, TileOfPoint
  <1>6. CASE far < (col + 1) * TileQ
    BY <1>1, <1>3, <1>4, <1>6, TilePositive, TileOfPoint
  <1>7. CASE near < col * TileQ /\ (col + 1) * TileQ <= far
    <2>1. (col + 1) * TileQ = col * TileQ + TileQ
      BY TilePositive
    <2>. QED BY <1>1, <1>7, <2>1, TilePositive
  <1>. QED BY <1>1, <1>4, <1>5, <1>6, <1>7, TilePositive

\* A positive factor cancels.
LEMMA CancelFactor ==
  ASSUME NEW a \in Int, NEW c \in Int, NEW b \in Nat \ {0}, a * b < c * b
  PROVE  a < c
  <1> SUFFICES ASSUME c <= a PROVE FALSE
    OBVIOUS
  <1>1. c * b <= a * b
    OBVIOUS
  <1>2. a * b \in Int /\ c * b \in Int
    OBVIOUS
  <1>. QED BY <1>1, <1>2

\* A map is walled in when its border is of stone.
WalledIn(map) == \A c \in Border : map[c] = "Stone"

\* Nothing left of, or above, the map can be walked on, though a corner outside
\* may be divided into column or row zero.
LEMMA NothingBefore ==
  ASSUME NEW map, WalledIn(map), NEW col \in Int, NEW row \in Int, col <= 0 \/ row <= 0
  PROVE  ~IsWalkable(map, col, row)
  <1>1. CASE <<col, row>> \in Cells
    <2>1. col \in Nat /\ row \in Nat
      BY <1>1, GridAssumption DEF Cells
    <2>2. col = 0 \/ row = 0
      BY <2>1
    <2>3. <<col, row>> \in Border
      BY <1>1, <2>2 DEF Border
    <2>. QED BY <2>3 DEF WalledIn, IsWalkable, Solid
  <1>. QED BY <1>1 DEF IsWalkable

\* Truncated division by the tile's size gives an integer, none above 0 for a negative one.
LEMMA CornerType ==
  ASSUME NEW a \in Int
  PROVE  TruncDiv(a, TileQ) \in Int /\ (a < 0 => TruncDiv(a, TileQ) <= 0)
  <1>1. CASE a < 0
    BY <1>1, TilePositive, TruncDivNegative
  <1>2. CASE a >= 0
    BY <1>2, TilePositive, TruncDivNat
  <1>. QED BY <1>1, <1>2

\* Where OverlapsWall finds no corner in a wall, no point of the square is in one.
LEMMA CornersSuffice ==
  ASSUME NEW map, WalledIn(map), NEW x \in Int, NEW y \in Int, ~OverlapsWall(map, x, y),
         NEW col \in Int, NEW row \in Int, Touches([x |-> x, y |-> y], <<col, row>>)
  PROVE  IsWalkable(map, col, row)
  <1> DEFINE cols == {TruncDiv(x - HitboxHalfQ, TileQ), TruncDiv(x + HitboxHalfQ - 1, TileQ)}
             rows == {TruncDiv(y - HitboxHalfQ, TileQ), TruncDiv(y + HitboxHalfQ - 1, TileQ)}
  <1>1. \A c \in cols, r \in rows : IsWalkable(map, c, r)
    BY DEF OverlapsWall
  <1>2. \A c \in cols : c \in Int
    BY CornerType, TilePositive
  <1>3. \A r \in rows : r \in Int
    BY CornerType, TilePositive
  <1>4. x >= HitboxHalfQ
    <2> SUFFICES ASSUME x - HitboxHalfQ < 0 PROVE FALSE
      BY TilePositive
    <2>1. TruncDiv(x - HitboxHalfQ, TileQ) <= 0
      BY CornerType, TilePositive
    <2>. QED BY <1>1, <1>2, <1>3, <2>1, NothingBefore
  <1>5. y >= HitboxHalfQ
    <2> SUFFICES ASSUME y - HitboxHalfQ < 0 PROVE FALSE
      BY TilePositive
    <2>1. TruncDiv(y - HitboxHalfQ, TileQ) <= 0
      BY CornerType, TilePositive
    <2>. QED BY <1>1, <1>2, <1>3, <2>1, NothingBefore
  <1>6. /\ x - HitboxHalfQ < (col + 1) * TileQ /\ x + HitboxHalfQ > col * TileQ
        /\ y - HitboxHalfQ < (row + 1) * TileQ /\ y + HitboxHalfQ > row * TileQ
    BY DEF Touches
  <1>7. col \in cols
    BY <1>4, <1>6, EndsOfInterval
  <1>8. row \in rows
    BY <1>5, <1>6, EndsOfInterval
  <1>. QED BY <1>1, <1>7, <1>8

\* Around the centre of a cell the square reaches no other cell.
LEMMA IntervalAtCentre ==
  ASSUME NEW c \in Int, NEW col \in Int, NEW x \in Int, x = c * TileQ + TileQ \div 2,
         x - HitboxHalfQ < (col + 1) * TileQ, col * TileQ < x + HitboxHalfQ
  PROVE  col = c
  <1> DEFINE half == TileQ \div 2
  <1>1. half \in Nat /\ HitboxHalfQ <= half /\ half + HitboxHalfQ <= TileQ
    BY TilePositive
  <1>2. /\ c * TileQ \in Int /\ col * TileQ \in Int
        /\ (c + 1) * TileQ = c * TileQ + TileQ /\ (col + 1) * TileQ = col * TileQ + TileQ
    BY TilePositive
  <1>3. c * TileQ < (col + 1) * TileQ
    BY <1>1, <1>2, TilePositive
  <1>4. col * TileQ < (c + 1) * TileQ
    BY <1>1, <1>2, TilePositive
  <1>5. c < col + 1 /\ col < c + 1
    BY <1>3, <1>4, TilePositive, CancelFactor
  <1>. QED BY <1>5

\* A position from which every point is in the open.
Open(map, at) ==
  \A col \in -1 .. Width, row \in -1 .. Height : Touches(at, <<col, row>>) => IsWalkable(map, col, row)

\* A player's box at the centre of a cell touches that cell only.
LEMMA OpenAtCentre ==
  ASSUME NEW map, NEW cell \in Cells, map[cell] \notin Solid
  PROVE  Open(map, CentreOf(cell))
  <1> SUFFICES ASSUME NEW col \in -1 .. Width, NEW row \in -1 .. Height,
                      Touches(CentreOf(cell), <<col, row>>)
               PROVE  IsWalkable(map, col, row)
    BY DEF Open
  <1>1. cell[1] \in Int /\ cell[2] \in Int /\ cell = <<cell[1], cell[2]>> /\ col \in Int /\ row \in Int
    BY GridAssumption DEF Cells
  <1> DEFINE at == CentreOf(cell)
  <1>a. at = [x |-> cell[1] * TileQ + TileQ \div 2, y |-> cell[2] * TileQ + TileQ \div 2]
    BY DEF CentreOf
  <1>b. /\ at.x - HitboxHalfQ < (col + 1) * TileQ /\ at.x + HitboxHalfQ > col * TileQ
        /\ at.y - HitboxHalfQ < (row + 1) * TileQ /\ at.y + HitboxHalfQ > row * TileQ
    BY DEF Touches
  <1>2. col = cell[1] /\ row = cell[2]
    <2> HIDE DEF at
    <2>0. at.x \in Int /\ at.y \in Int
      BY <1>a, <1>1, TilePositive
    <2>1. /\ at.x - HitboxHalfQ < (col + 1) * TileQ /\ col * TileQ < at.x + HitboxHalfQ
          /\ at.y - HitboxHalfQ < (row + 1) * TileQ /\ row * TileQ < at.y + HitboxHalfQ
      BY <1>b
    <2>2. at.x = cell[1] * TileQ + TileQ \div 2 /\ at.y = cell[2] * TileQ + TileQ \div 2
      BY <1>a
    <2>3. col = cell[1]
      BY <1>1, <2>0, <2>1, <2>2, IntervalAtCentre
    <2>4. row = cell[2]
      BY <1>1, <2>0, <2>1, <2>2, IntervalAtCentre
    <2>. QED BY <2>3, <2>4
  <1>. QED BY <1>1, <1>2 DEF IsWalkable

\* stepMovementWithCollision never leaves the open.
LEMMA MovesInTheOpen ==
  ASSUME NEW map, WalledIn(map), NEW at \in [x : Int, y : Int], Open(map, at),
         NEW mx \in Int, NEW my \in Int, NEW speed \in Nat
  PROVE  Open(map, StepMovementWithCollision(at, mx, my, map, speed))
  <1> DEFINE newX == at.x + mx * speed
             x    == IF mx # 0 /\ ~OverlapsWall(map, newX, at.y) THEN newX ELSE at.x
             newY == at.y + my * speed
             y    == IF my # 0 /\ ~OverlapsWall(map, x, newY) THEN newY ELSE at.y
  <1>1. StepMovementWithCollision(at, mx, my, map, speed) = [x |-> x, y |-> y]
    BY DEF StepMovementWithCollision
  <1>2. newX \in Int /\ newY \in Int /\ x \in Int /\ y \in Int
    OBVIOUS
  <1>3. \/ ~OverlapsWall(map, x, y)
        \/ x = at.x /\ y = at.y
    OBVIOUS
  <1> HIDE DEF x, y
  <1>4. CASE ~OverlapsWall(map, x, y)
    <2>1. ASSUME NEW col \in -1 .. Width, NEW row \in -1 .. Height,
                 Touches([x |-> x, y |-> y], <<col, row>>)
          PROVE  IsWalkable(map, col, row)
      BY <1>2, <1>4, <2>1, GridAssumption, CornersSuffice
    <2>. QED BY <1>1, <2>1 DEF Open
  <1>5. CASE x = at.x /\ y = at.y
    BY <1>1, <1>5
  <1>. QED BY <1>3, <1>4, <1>5

\* Every step keeps the players in the open.
LEMMA NextInTheOpen == Typed /\ BoardShape /\ InTheOpen /\ [Next]_vars => InTheOpen'
  <1> SUFFICES ASSUME Typed, BoardShape, InTheOpen, [Next]_vars PROVE InTheOpen'
    OBVIOUS
  <1>1. \A p \in inMatch : Open(tiles, pos[p])
    BY DEF InTheOpen, Open
  <1>2. SUFFICES \A p \in inMatch' : Open(tiles', pos'[p])
    BY DEF InTheOpen, Open
  <1>3. ASSUME UNCHANGED <<tiles, pos>>, inMatch' \subseteq inMatch
        PROVE  \A p \in inMatch' : Open(tiles', pos'[p])
    BY <1>1, <1>3
  <1>4. ASSUME NEW ids \in SUBSET PlayerIds, BeginRound(ids)
        PROVE  \A p \in inMatch' : Open(tiles', pos'[p])
    BY <1>4, BoardAssumption, OpenAtCentre DEF BeginRound
  <1>5. CASE ReturnToLobby
    BY <1>5 DEF ReturnToLobby, ResetToLobby
  <1>6. ASSUME NEW p \in PlayerIds, Disconnect(p)
        PROVE  \A q \in inMatch' : Open(tiles', pos'[q])
    BY <1>3, <1>6 DEF Disconnect, ResetToLobby, moveVars
  <1>7. CASE SimulatePlayer
    <2> DEFINE p == Min(toSimulate)
    <2>1. tiles' = tiles /\ inMatch' = inMatch /\ p \in inMatch /\ p \in PlayerIds
      BY <1>7, SimulatedPlayer DEF SimulatePlayer, lifeVars, Typed, TypeOK
    <2>2. \A q \in PlayerIds : q # p => pos'[q] = pos[q]
      BY <1>7, SimulatedPlayer
    <2>3. CASE p \in alive \ locked
      <3>1. PICK buttons \in Inputs : Act(p, buttons)
        BY <1>7, <2>3 DEF SimulatePlayer
      <3>2. PICK speed \in Nat :
              pos'[p] = StepMovementWithCollision(pos[p], MoveX(buttons), MoveY(buttons), tiles, speed)
        BY <2>1, <3>1, TuningAssumption DEF Act, Typed, TypeOK
      <3>3. WalledIn(tiles) /\ pos[p] \in [x : Int, y : Int]
        BY <2>1 DEF BoardShape, WalledIn, Typed, TypeOK
      <3>4. Open(tiles', pos'[p])
        BY <1>1, <2>1, <3>2, <3>3, DirectionType, MovesInTheOpen
      <3>. QED BY <1>1, <2>1, <2>2, <3>4 DEF Typed, TypeOK
    <2>4. CASE p \notin alive \ locked
      BY <1>3, <1>7, <2>1, <2>4, SimulatedPlayer DEF SimulatePlayer
    <2>. QED BY <2>3, <2>4
  <1>8. CASE ResolveBombExplosion
    <2>1. PICK bomb \in due : Explode(bomb)
      BY <1>8 DEF ResolveBombExplosion
    <2>2. inMatch' = inMatch /\ pos' = pos
      BY <2>1 DEF Explode
    <2>3. \A col, row : IsWalkable(tiles, col, row) => IsWalkable(tiles', col, row)
      BY <2>1, ExplodedTiles DEF IsWalkable, Solid
    <2>. QED BY <1>1, <2>2, <2>3 DEF Open
  <1>9. CASE StartTick
    BY <1>3, <1>9 DEF StartTick, moveVars
  <1>10. CASE ResolveExplodingBombs \/ FinishEndOfMatchTick \/ FinishMatchTick \/ UNCHANGED vars
    BY <1>3, <1>10
    DEF ResolveExplodingBombs, FinishEndOfMatchTick, FinishMatchTick, boardVars, lifeVars, moveVars, vars
  <1>. QED BY <1>4, <1>5, <1>6, <1>7, <1>8, <1>9, <1>10 DEF Next, TickStep

(***************************************************************************)
(* No point of a player is ever in a wall or off the map.  Four corners    *)
(* are enough to look at, because the square is no wider than a tile, and  *)
(* C++ division toward zero is safe, because the map is walled in.         *)
(***************************************************************************)
THEOREM PositionsCorrect == Spec => []InTheOpen
  <1>1. Init => InTheOpen
    BY DEF Init, InTheOpen
  <1>2. BombInv /\ InTheOpen /\ [Next]_vars => InTheOpen'
    BY NextInTheOpen DEF BombInv
  <1>. QED BY <1>1, <1>2, BombInvHolds, PTL DEF Spec

(***************************************************************************)
(* What a tick does as a whole.  First, the arena implements RoundBattle,  *)
(* which is all that the round flow takes for granted of it: a tick, with  *)
(* its many steps, is one step of the battle, taken where the tick ends.   *)
(* Then, what the bombs of one tick hit together, and what becomes of the  *)
(* powerups.                                                               *)
(***************************************************************************)

-----------------------------------------------------------------------------
(* What the arena keeps between ticks and within one. *)

\* Outside a round nobody may act and there is no bomb; before the inputs unlock
\* everybody lives and nobody may act.
RoundRest ==
  /\ phase = "Lobby" => inMatch = {} /\ bombs = {}
  /\ phase = "EndOfMatch" => bombs = {} /\ locked = inMatch
  /\ unlockPending => phase = "InMatch" /\ bombs = {} /\ alive = inMatch /\ locked = inMatch

\* What a tick has done so far if mayAct are those who may act in it: it locks
\* those whom it kills, and a bomb was there before or one of mayAct placed it.
ActedSoFar(mayAct) ==
  /\ \/ mayAct = inMatch \ tickStart.locked
     \/ tickStart.locked = inMatch /\ tickStart.alive = inMatch /\ mayAct = inMatch
  /\ locked = (inMatch \ mayAct) \cup (tickStart.alive \ alive)
  /\ bombs # {} => tickStart.bombs # {} \/ mayAct \cap tickStart.alive # {}

\* A tick kills with bombs that it found, and only then.
TickSoFar ==
  stage # "idle" =>
    /\ tickStart.alive \subseteq inMatch /\ tickStart.locked \subseteq inMatch
    /\ alive \subseteq tickStart.alive
    /\ stage = "players" => alive = tickStart.alive
    /\ alive # tickStart.alive => tickStart.bombs # {}
    /\ phase = "EndOfMatch" => locked = tickStart.locked /\ tickStart.bombs = {}
    /\ \A b \in bombs : b.fuse <= 0 => b \in tickStart.bombs
    /\ \A b \in due : b.fuse <= 0
    /\ \E mayAct \in SUBSET inMatch : ActedSoFar(mayAct)

BattleInv == RoundRest /\ TickSoFar

\* The beginning of a tick starts the battle's tick.
LEMMA StartTickBattle == ASSUME Typed, RoundRest, StartTick PROVE BattleInv'
  <1>1. /\ stage = "idle" /\ stage' = "players" /\ phase' = phase /\ inMatch' = inMatch
        /\ alive' = alive /\ due' = due /\ due = {}
        /\ tickStart'.bombs = bombs' /\ tickStart'.alive = alive /\ tickStart'.locked = locked
    BY DEF StartTick, Typed, StageShape
  <1>2. bombs = {} => bombs' = {}
    BY DEF StartTick
  <1>3. alive \subseteq inMatch /\ locked \subseteq inMatch
    BY DEF Typed, TypeOK
  <1>4. CASE unlockPending /\ unlockPending' = FALSE /\ locked' = {}
    <2>1. ActedSoFar(inMatch)'
      BY <1>1, <1>4 DEF ActedSoFar, RoundRest
    <2>. QED BY <1>1, <1>2, <1>3, <1>4, <2>1 DEF BattleInv, RoundRest, TickSoFar
  <1>5. CASE UNCHANGED <<unlockPending, locked>>
    <2>1. ActedSoFar(inMatch \ locked)'
      BY <1>1, <1>3, <1>5 DEF ActedSoFar
    <2>2. inMatch \ locked \in SUBSET inMatch'
      BY <1>1
    <2>. QED BY <1>1, <1>2, <1>3, <1>5, <2>1, <2>2 DEF BattleInv, RoundRest, TickSoFar
  <1>. QED BY <1>4, <1>5 DEF StartTick

\* A player's turn is no part of the battle.
LEMMA SimulatePlayerBattle == ASSUME Typed, BattleInv, SimulatePlayer PROVE BattleInv'
  <1> DEFINE p == Min(toSimulate)
  <1>1. /\ stage = "players" /\ UNCHANGED <<phase, unlockPending, stage, due, inMatch, alive, locked, tickStart>>
    BY DEF SimulatePlayer, flowVars, lifeVars
  <1>2. CASE bombs' = bombs
    <2>1. \A mayAct : ActedSoFar(mayAct) => ActedSoFar(mayAct)'
      BY <1>1, <1>2 DEF ActedSoFar
    <2>2. RoundRest'
      BY <1>1, <1>2 DEF BattleInv, RoundRest
    <2>3. TickSoFar'
      BY <1>1, <1>2, <2>1 DEF BattleInv, TickSoFar
    <2>. QED BY <2>2, <2>3 DEF BattleInv
  <1>3. CASE p \in alive \ locked /\ \E bomb : Places(p, bomb)
    <2>1. PICK bomb : Places(p, bomb)
      BY <1>3
    <2>2. bombs' = bombs \cup {bomb} /\ bomb.fuse = FuseTicks
      BY <2>1 DEF Places
    <2>3. p \in inMatch /\ alive = tickStart.alive
      BY <1>1, <1>3 DEF BattleInv, TickSoFar, Typed, TypeOK
    <2>4. ~unlockPending /\ phase = "InMatch"
      BY <1>1, <1>3, <2>3 DEF BattleInv, RoundRest, Typed, StageShape
    <2>5. PICK mayAct \in SUBSET inMatch : ActedSoFar(mayAct)
      BY <1>1 DEF BattleInv, TickSoFar
    <2>6. p \in mayAct \cap tickStart.alive
      BY <1>3, <2>3, <2>5 DEF ActedSoFar
    <2>7. ActedSoFar(mayAct)'
      BY <1>1, <2>5, <2>6 DEF ActedSoFar
    <2>8. \A b \in bombs' : b.fuse <= 0 => b \in tickStart'.bombs
      BY <1>1, <2>2, TuningAssumption DEF BattleInv, TickSoFar
    <2>9. RoundRest'
      BY <1>1, <2>4 DEF RoundRest
    <2>10. TickSoFar'
      BY <1>1, <2>4, <2>7, <2>8 DEF BattleInv, TickSoFar
    <2>. QED BY <2>9, <2>10 DEF BattleInv
  <1>. QED BY <1>2, <1>3, SimulatedPlayer

\* An explosion kills players of the round only.
LEMMA ResolveBombBattle == ASSUME Typed, BattleInv, ResolveBombExplosion PROVE BattleInv'
  <1>1. PICK bomb \in due : Explode(bomb)
    BY DEF ResolveBombExplosion
  <1>2. stage = "bombs" /\ phase = "InMatch"
    BY DEF ResolveBombExplosion, Typed, StageShape
  <1>3. /\ UNCHANGED <<phase, unlockPending, stage, inMatch, tickStart>>
        /\ bombs' \subseteq bombs /\ due' \subseteq due
    BY <1>1 DEF Explode, flowVars
  <1>4. PICK killed \in SUBSET alive : alive' = alive \ killed /\ locked' = locked \cup killed
    BY <1>1 DEF Explode, Killed
  <1>5. bomb \in bombs /\ bomb \in tickStart.bombs /\ ~unlockPending
    BY <1>2 DEF BattleInv, RoundRest, TickSoFar, Typed, TypeOK
  <1>6. PICK mayAct \in SUBSET inMatch : ActedSoFar(mayAct)
    BY <1>2 DEF BattleInv, TickSoFar
  <1>7. ActedSoFar(mayAct)'
    BY <1>2, <1>3, <1>4, <1>5, <1>6 DEF ActedSoFar, BattleInv, TickSoFar
  <1>8. RoundRest'
    BY <1>2, <1>3, <1>5 DEF RoundRest
  <1>9. TickSoFar'
    BY <1>2, <1>3, <1>4, <1>5, <1>7 DEF BattleInv, TickSoFar
  <1>. QED BY <1>8, <1>9 DEF BattleInv

\* The invariant of the battle is inductive.
LEMMA NextBattle == Typed /\ BattleInv /\ [Next]_vars => BattleInv'
  <1> SUFFICES ASSUME Typed, BattleInv, [Next]_vars PROVE BattleInv'
    OBVIOUS
  <1>1. ASSUME NEW ids \in SUBSET PlayerIds, BeginRound(ids) PROVE BattleInv'
    BY <1>1 DEF BeginRound, ClearBombsAndReleaseOwnership, BattleInv, RoundRest, TickSoFar
  <1>2. CASE ReturnToLobby
    BY <1>2 DEF ReturnToLobby, ResetToLobby, ClearBombsAndReleaseOwnership, stageVars,
                BattleInv, RoundRest, TickSoFar
  <1>3. ASSUME NEW p \in PlayerIds, Disconnect(p) PROVE BattleInv'
    <2>1. stage' = "idle"
      BY <1>3 DEF Disconnect, stageVars
    <2>2. RoundRest'
      BY <1>3 DEF Disconnect, ResetToLobby, EndRound, ClearBombsAndReleaseOwnership, flowVars,
                  BattleInv, RoundRest
    <2>. QED BY <2>1, <2>2 DEF BattleInv, TickSoFar
  <1>4. CASE StartTick
    BY <1>4, StartTickBattle DEF BattleInv
  <1>5. CASE ResolveExplodingBombs
    <2>1. /\ stage = "players" /\ stage' = "bombs" /\ phase = "InMatch" /\ \A b \in due' : b.fuse <= 0
          /\ UNCHANGED <<phase, unlockPending, inMatch, alive, locked, bombs, tickStart>>
      BY <1>5 DEF ResolveExplodingBombs, DueBombs, flowVars, boardVars, lifeVars
    <2>2. \A mayAct : ActedSoFar(mayAct) => ActedSoFar(mayAct)'
      BY <2>1 DEF ActedSoFar
    <2>. QED BY <2>1, <2>2 DEF BattleInv, RoundRest, TickSoFar
  <1>6. CASE FinishMatchTick
    <2>1. stage' = "idle"
      BY <1>6 DEF FinishMatchTick
    <2>2. RoundRest'
      BY <1>6 DEF FinishMatchTick, EndRound, ClearBombsAndReleaseOwnership, flowVars,
                  BattleInv, RoundRest, Typed, StageShape
    <2>. QED BY <2>1, <2>2 DEF BattleInv, TickSoFar
  <1>7. CASE FinishEndOfMatchTick
    BY <1>7 DEF FinishEndOfMatchTick, flowVars, boardVars, lifeVars, BattleInv, RoundRest, TickSoFar
  <1>8. CASE UNCHANGED vars
    <2>1. \A mayAct : ActedSoFar(mayAct) => ActedSoFar(mayAct)'
      BY <1>8 DEF vars, flowVars, stageVars, boardVars, lifeVars, ActedSoFar
    <2>. QED BY <1>8, <2>1 DEF vars, flowVars, stageVars, boardVars, lifeVars, BattleInv, RoundRest, TickSoFar
  <1>. QED BY <1>1, <1>2, <1>3, <1>4, <1>5, <1>6, <1>7, <1>8, SimulatePlayerBattle,
              ResolveBombBattle DEF Next, TickStep

\* The invariant of the battle holds at first.
LEMMA InitBattle == Init => BattleInv
  BY DEF Init, BattleInv, RoundRest, TickSoFar

-----------------------------------------------------------------------------
(* Every step of the arena is a step of the battle or none. *)

\* What the battle sees of the arena.
AliveSeen == IF stage = "idle" THEN alive ELSE tickStart.alive
LockedSeen == IF stage = "idle" THEN locked ELSE tickStart.locked
BombsSeen == IF stage = "idle" THEN bombs ELSE tickStart.bombs
Seen == <<phase, inMatch, AliveSeen, inMatch \ LockedSeen, BombsSeen # {}>>

\* What the battle shows changes only with what Seen holds.
LEMMA SeenIsBattle == UNCHANGED Seen => UNCHANGED Battle!battleVars
  BY DEF Seen, AliveSeen, LockedSeen, BombsSeen, Battle!battleVars

\* The battle counts with its own instance of Cardinality.
LEMMA SameCardinality == \A ids : Battle!Cardinality(ids) = Cardinality(ids)
  BY Zenon DEF Battle!Cardinality, Cardinality

\* Both modules decide a round alike.
LEMMA SameDecision == \A ids, living : Battle!Decided(ids, living) <=> RoundDecided(ids, living)
  BY SameCardinality DEF Battle!Decided, RoundDecided

\* The end of a match tick is the battle's tick.
LEMMA TickIsBattle ==
  ASSUME Typed, BattleInv, FinishMatchTick
  PROVE  Battle!BattleTick
  <1> DEFINE killed == tickStart.alive \ alive
  <1>1. /\ stage = "bombs" /\ stage' = "idle" /\ phase = "InMatch" /\ inMatch' = inMatch /\ alive' = alive
        /\ \/ /\ RoundDecided(inMatch, alive)
              /\ phase' = "EndOfMatch" /\ locked' = inMatch /\ bombs' = {}
           \/ /\ ~RoundDecided(inMatch, alive)
              /\ UNCHANGED <<phase, bombs, locked>>
    BY DEF FinishMatchTick, EndRound, ClearBombsAndReleaseOwnership, flowVars, Typed, StageShape
  <1>2. /\ alive \subseteq tickStart.alive /\ tickStart.alive \subseteq inMatch
        /\ killed # {} => tickStart.bombs # {}
    BY <1>1 DEF BattleInv, TickSoFar
  <1>3. PICK mayAct \in SUBSET inMatch : ActedSoFar(mayAct)
    BY <1>1 DEF BattleInv, TickSoFar
  <1>4. killed \in SUBSET AliveSeen /\ AliveSeen \ killed = alive /\ AliveSeen' = alive
    BY <1>1, <1>2 DEF AliveSeen
  <1>5. LockedSeen = tickStart.locked /\ LockedSeen' = locked' /\ BombsSeen = tickStart.bombs /\ BombsSeen' = bombs'
    BY <1>1 DEF LockedSeen, BombsSeen
  <1>6. locked = (inMatch \ mayAct) \cup killed /\ (bombs # {} => BombsSeen # {} \/ mayAct \cap AliveSeen # {})
    BY <1>1, <1>3, <1>5 DEF ActedSoFar, AliveSeen
  <1>7. Battle!Battle(mayAct)
    <2>1. CASE RoundDecided(inMatch, alive) /\ phase' = "EndOfMatch" /\ locked' = inMatch /\ bombs' = {}
      <3>1. Battle!Over(inMatch, alive)
        BY <1>1, <2>1 DEF Battle!Over
      <3>2. Battle!Decided(inMatch, alive)
        BY <2>1, SameDecision
      <3>3. /\ killed # {} => BombsSeen # {}
            /\ FALSE => BombsSeen # {} \/ mayAct \cap AliveSeen # {}
        BY <1>2, <1>5
      <3>. QED
        BY <1>4, <3>1, <3>2, <3>3, ZenonT(40) DEF Battle!Battle, AliveSeen, BombsSeen
    <2>2. CASE ~RoundDecided(inMatch, alive) /\ UNCHANGED <<phase, bombs, locked>>
      <3>1. ~Battle!Decided(inMatch, alive)
        BY <2>2, SameDecision
      <3>2. inMatch' \ LockedSeen' = mayAct \ killed
        BY <1>1, <1>5, <1>6, <2>2
      <3>3. (BombsSeen' # {}) = (bombs # {})
        BY <1>5, <2>2
      <3>. QED
        BY <1>1, <1>2, <1>4, <1>5, <1>6, <2>2, <3>1, <3>2, <3>3
        DEF Battle!Battle, AliveSeen, BombsSeen, LockedSeen
    <2>. QED BY <1>1, <2>1, <2>2
  <1>8. \/ mayAct = inMatch \ LockedSeen
        \/ inMatch \ LockedSeen = {} /\ AliveSeen = inMatch /\ mayAct = inMatch
    BY <1>1, <1>3, <1>5 DEF ActedSoFar, AliveSeen
  <1>. QED BY <1>1, <1>7, <1>8 DEF Battle!BattleTick, AliveSeen, LockedSeen

\* A disconnected player has left the battle.
LEMMA LeavingIsLeave == ASSUME Typed, BattleInv, NEW p \in PlayerIds, Disconnect(p) PROVE Battle!Leave(p)
  <1> DEFINE left == inMatch \ {p}
  <1>1. stage = "idle" /\ stage' = "idle" /\ p \in inMatch
    BY DEF Disconnect, stageVars
  <1>2. CASE left = {} /\ ResetToLobby
    BY <1>1, <1>2 DEF ResetToLobby, ClearBombsAndReleaseOwnership, Battle!Leave, Battle!NoRound
  <1>3. CASE left # {} /\ inMatch' = left /\ alive' = alive \ {p}
             /\ phase = "InMatch" /\ RoundDecided(left, alive \ {p}) /\ EndRound(left)
    BY <1>1, <1>3, SameDecision
    DEF EndRound, ClearBombsAndReleaseOwnership, Battle!Leave, Battle!Over
  <1>4. CASE left # {} /\ inMatch' = left /\ alive' = alive \ {p}
             /\ ~(phase = "InMatch" /\ RoundDecided(left, alive \ {p}))
             /\ locked' = locked \ {p} /\ UNCHANGED <<flowVars, bombs>>
    <2>1. inMatch' \ locked' = (inMatch \ locked) \ {p}
      BY <1>4
    <2>2. ~(phase = "InMatch" /\ Battle!Decided(left, alive \ {p}))
      BY <1>4, SameDecision
    <2>. QED BY <1>1, <1>4, <2>1, <2>2 DEF flowVars, Battle!Leave
  <1>. QED BY <1>2, <1>3, <1>4 DEF Disconnect

\* Every step is one of the battle's or none.
LEMMA NextSeen == Typed /\ BattleInv /\ [Next]_vars => [Battle!BattleNext]_(Battle!battleVars)
  <1> SUFFICES ASSUME Typed, BattleInv, [Next]_vars PROVE [Battle!BattleNext]_(Battle!battleVars)
    OBVIOUS
  <1>1. ASSUME NEW ids \in SUBSET PlayerIds, Cardinality(ids) > 1, BeginRound(ids)
        PROVE  Battle!BattleNext
    <2>1. Battle!Begin(ids)
      BY <1>1 DEF BeginRound, ClearBombsAndReleaseOwnership, Battle!Begin
    <2>. QED BY <1>1, <2>1, SameCardinality DEF Battle!BattleNext
  <1>2. CASE ReturnToLobby
    BY <1>2
    DEF ReturnToLobby, ResetToLobby, ClearBombsAndReleaseOwnership, stageVars,
        Battle!BattleNext, Battle!Return, Battle!NoRound
  <1>3. ASSUME NEW p \in PlayerIds, Disconnect(p) PROVE Battle!BattleNext
    BY <1>3, LeavingIsLeave DEF Battle!BattleNext
  <1>4. CASE StartTick
    <2>1. bombs' = {} <=> bombs = {}
      BY <1>4, StartTickBurns
    <2>2. UNCHANGED Seen
      BY <1>4, <2>1 DEF StartTick, Seen, AliveSeen, LockedSeen, BombsSeen
    <2>. QED BY <2>2, SeenIsBattle
  <1>5. CASE SimulatePlayer \/ ResolveExplodingBombs
    <2>1. UNCHANGED Seen
      BY <1>5
      DEF SimulatePlayer, ResolveExplodingBombs, flowVars, lifeVars, Seen, AliveSeen, LockedSeen, BombsSeen
    <2>. QED BY <2>1, SeenIsBattle
  <1>6. CASE ResolveBombExplosion
    <2>1. UNCHANGED <<phase, stage, inMatch, tickStart>> /\ stage # "idle"
      BY <1>6 DEF ResolveBombExplosion, Explode, flowVars
    <2>2. UNCHANGED Seen
      BY <2>1 DEF Seen, AliveSeen, LockedSeen, BombsSeen
    <2>. QED BY <2>2, SeenIsBattle
  <1>7. CASE FinishMatchTick
    BY <1>7, TickIsBattle DEF Battle!BattleNext
  <1>8. CASE FinishEndOfMatchTick
    <2>1. /\ stage = "players" /\ stage' = "idle" /\ phase = "EndOfMatch"
          /\ UNCHANGED <<phase, inMatch, alive, locked, bombs>>
      BY <1>8 DEF FinishEndOfMatchTick, flowVars, boardVars, lifeVars
    <2>2. UNCHANGED Seen
      BY <2>1 DEF BattleInv, RoundRest, TickSoFar, Seen, AliveSeen, LockedSeen, BombsSeen
    <2>. QED BY <2>2, SeenIsBattle
  <1>9. CASE UNCHANGED vars
    <2>1. UNCHANGED Seen
      BY <1>9 DEF vars, flowVars, stageVars, boardVars, lifeVars, Seen, AliveSeen, LockedSeen, BombsSeen
    <2>. QED BY <2>1, SeenIsBattle
  <1>. QED BY <1>1, <1>2, <1>3, <1>4, <1>5, <1>6, <1>7, <1>8, <1>9 DEF Next, TickStep

(***************************************************************************)
(* The arena implements the battle: whoever is simulated, whatever is      *)
(* placed, blown up and collected in a tick, the tick as a whole kills     *)
(* only with bombs that were there before it, leaves only bombs that       *)
(* someone free to act could place, and ends a decided round.              *)
(***************************************************************************)
THEOREM BattleImplemented == Spec => ImplementsBattle
  <1>1. Init => Battle!BattleInit
    BY DEF Init, Battle!BattleInit
  <1>2. Init => Typed /\ BattleInv
    BY InitTyped, InitBattle
  <1>3. Typed /\ BattleInv /\ [Next]_vars => (Typed /\ BattleInv)' /\ [Battle!BattleNext]_(Battle!battleVars)
    BY NextTyped, NextBattle, NextSeen
  <1>. QED BY <1>1, <1>2, <1>3, PTL DEF Spec, ImplementsBattle, Battle!BattleSpec

-----------------------------------------------------------------------------
(* The cells that a blast reaches, walked cell by cell in the four         *)
(* directions, are those in sight of the bomb.                             *)

\* The neighbours of a cell along each of the four directions.
LEMMA BesideEach ==
  ASSUME NEW cell \in Cells, NEW s \in Int
  PROVE  /\ Beside(cell, <<1, 0>>, s) = <<cell[1] + s, cell[2]>>
         /\ Beside(cell, <<-1, 0>>, s) = <<cell[1] - s, cell[2]>>
         /\ Beside(cell, <<0, 1>>, s) = <<cell[1], cell[2] + s>>
         /\ Beside(cell, <<0, -1>>, s) = <<cell[1], cell[2] - s>>
  BY GridAssumption DEF Beside, Cells

\* Between a cell and one that lies s further on lie those 1 .. s - 1 further on.
LEMMA BetweenOnWay ==
  ASSUME NEW cell \in Cells, NEW d \in FourWays, NEW s \in Nat \ {0}
  PROVE  /\ \A t \in 1 .. s - 1 : Between(Beside(cell, d, t), cell, Beside(cell, d, s))
         /\ \A c \in Cells : Between(c, cell, Beside(cell, d, s)) =>
              \E t \in 1 .. s - 1 : c = Beside(cell, d, t)
  <1> DEFINE x == cell[1]
             y == cell[2]
  <1>1. x \in Int /\ y \in Int
    BY GridAssumption DEF Cells
  <1>2. \A c \in Cells : c = <<c[1], c[2]>> /\ c[1] \in Int /\ c[2] \in Int
    BY GridAssumption DEF Cells
  <1>3. CASE d = <<1, 0>>
    <2>1. \A t \in Int : Beside(cell, d, t) = <<x + t, y>>
      BY <1>3, BesideEach
    <2>2. \A t \in 1 .. s - 1 : Between(Beside(cell, d, t), cell, Beside(cell, d, s))
      BY <1>1, <2>1 DEF Between, StrictlyBetween
    <2>3. ASSUME NEW c \in Cells, Between(c, cell, Beside(cell, d, s))
          PROVE  \E t \in 1 .. s - 1 : c = Beside(cell, d, t)
      <3>1. c[2] = y /\ x < c[1] /\ c[1] < x + s
        BY <1>1, <1>2, <2>1, <2>3 DEF Between, StrictlyBetween
      <3>2. PICK t \in 1 .. s - 1 : t = c[1] - x
        BY <1>1, <1>2, <3>1
      <3>3. c[1] = x + t /\ t \in Int
        BY <1>1, <1>2, <3>2
      <3>. QED BY <1>2, <2>1, <3>1, <3>3
    <2>. QED BY <2>2, <2>3
  <1>4. CASE d = <<-1, 0>>
    <2>1. \A t \in Int : Beside(cell, d, t) = <<x - t, y>>
      BY <1>4, BesideEach
    <2>2. \A t \in 1 .. s - 1 : Between(Beside(cell, d, t), cell, Beside(cell, d, s))
      BY <1>1, <2>1 DEF Between, StrictlyBetween
    <2>3. ASSUME NEW c \in Cells, Between(c, cell, Beside(cell, d, s))
          PROVE  \E t \in 1 .. s - 1 : c = Beside(cell, d, t)
      <3>1. c[2] = y /\ c[1] < x /\ x - s < c[1]
        BY <1>1, <1>2, <2>1, <2>3 DEF Between, StrictlyBetween
      <3>2. PICK t \in 1 .. s - 1 : t = x - c[1]
        BY <1>1, <1>2, <3>1
      <3>3. c[1] = x - t /\ t \in Int
        BY <1>1, <1>2, <3>2
      <3>. QED BY <1>2, <2>1, <3>1, <3>3
    <2>. QED BY <2>2, <2>3
  <1>5. CASE d = <<0, 1>>
    <2>1. \A t \in Int : Beside(cell, d, t) = <<x, y + t>>
      BY <1>5, BesideEach
    <2>2. \A t \in 1 .. s - 1 : Between(Beside(cell, d, t), cell, Beside(cell, d, s))
      BY <1>1, <2>1 DEF Between, StrictlyBetween
    <2>3. ASSUME NEW c \in Cells, Between(c, cell, Beside(cell, d, s))
          PROVE  \E t \in 1 .. s - 1 : c = Beside(cell, d, t)
      <3>1. c[1] = x /\ y < c[2] /\ c[2] < y + s
        BY <1>1, <1>2, <2>1, <2>3 DEF Between, StrictlyBetween
      <3>2. PICK t \in 1 .. s - 1 : t = c[2] - y
        BY <1>1, <1>2, <3>1
      <3>3. c[2] = y + t /\ t \in Int
        BY <1>1, <1>2, <3>2
      <3>. QED BY <1>2, <2>1, <3>1, <3>3
    <2>. QED BY <2>2, <2>3
  <1>6. CASE d = <<0, -1>>
    <2>1. \A t \in Int : Beside(cell, d, t) = <<x, y - t>>
      BY <1>6, BesideEach
    <2>2. \A t \in 1 .. s - 1 : Between(Beside(cell, d, t), cell, Beside(cell, d, s))
      BY <1>1, <2>1 DEF Between, StrictlyBetween
    <2>3. ASSUME NEW c \in Cells, Between(c, cell, Beside(cell, d, s))
          PROVE  \E t \in 1 .. s - 1 : c = Beside(cell, d, t)
      <3>1. c[1] = x /\ c[2] < y /\ y - s < c[2]
        BY <1>1, <1>2, <2>1, <2>3 DEF Between, StrictlyBetween
      <3>2. PICK t \in 1 .. s - 1 : t = y - c[2]
        BY <1>1, <1>2, <3>1
      <3>3. c[2] = y - t /\ t \in Int
        BY <1>1, <1>2, <3>2
      <3>. QED BY <1>2, <2>1, <3>1, <3>3
    <2>. QED BY <2>2, <2>3
  <1>. QED BY <1>3, <1>4, <1>5, <1>6 DEF FourWays

\* A way that starts and ends on the map does not leave it.
LEMMA WaysStayOnMap ==
  ASSUME NEW cell \in Cells, NEW d \in FourWays, NEW s \in Nat \ {0}, Beside(cell, d, s) \in Cells,
         NEW t \in 1 .. s - 1
  PROVE  Beside(cell, d, t) \in Cells
  <1> DEFINE x == cell[1]
             y == cell[2]
  <1>1. x \in 0 .. Width - 1 /\ y \in 0 .. Height - 1 /\ t \in Int /\ s \in Int /\ 1 <= t /\ t < s
    BY DEF Cells
  <1>2. \A i, j : <<i, j>> \in Cells <=> i \in 0 .. Width - 1 /\ j \in 0 .. Height - 1
    BY DEF Cells
  <1> HIDE DEF x, y
  <1>3. CASE d = <<1, 0>>
    <2>1. Beside(cell, d, s) = <<x + s, y>> /\ Beside(cell, d, t) = <<x + t, y>>
      BY <1>1, <1>3, BesideEach DEF x, y
    <2>. QED BY <1>1, <1>2, <2>1, GridAssumption
  <1>4. CASE d = <<-1, 0>>
    <2>1. Beside(cell, d, s) = <<x - s, y>> /\ Beside(cell, d, t) = <<x - t, y>>
      BY <1>1, <1>4, BesideEach DEF x, y
    <2>. QED BY <1>1, <1>2, <2>1, GridAssumption
  <1>5. CASE d = <<0, 1>>
    <2>1. Beside(cell, d, s) = <<x, y + s>> /\ Beside(cell, d, t) = <<x, y + t>>
      BY <1>1, <1>5, BesideEach DEF x, y
    <2>. QED BY <1>1, <1>2, <2>1, GridAssumption
  <1>6. CASE d = <<0, -1>>
    <2>1. Beside(cell, d, s) = <<x, y - s>> /\ Beside(cell, d, t) = <<x, y - t>>
      BY <1>1, <1>6, BesideEach DEF x, y
    <2>. QED BY <1>1, <1>2, <2>1, GridAssumption
  <1>. QED BY <1>3, <1>4, <1>5, <1>6 DEF FourWays

\* The cells of a bomb's row and column, other than its own, are the ways from it.
LEMMA CrossIsWays ==
  ASSUME NEW cell \in Cells, NEW c \in Cells, NEW r \in Nat
  PROVE  (/\ c # cell
          /\ c[1] = cell[1] \/ c[2] = cell[2]
          /\ c[1] - cell[1] \in -r .. r /\ c[2] - cell[2] \in -r .. r)
           <=> \E d \in FourWays, s \in 1 .. r : c = Beside(cell, d, s)
  <1> DEFINE x == cell[1]
             y == cell[2]
  <1>1. x \in Int /\ y \in Int /\ cell = <<x, y>> /\ c[1] \in Int /\ c[2] \in Int /\ c = <<c[1], c[2]>>
    BY GridAssumption DEF Cells
  <1>2. ASSUME c # cell, c[1] = x \/ c[2] = y, c[1] - x \in -r .. r, c[2] - y \in -r .. r
        PROVE  \E d \in FourWays, s \in 1 .. r : c = Beside(cell, d, s)
    <2>1. CASE c[1] = x /\ c[2] > y
      <3>1. PICK t \in 1 .. r : t = c[2] - y
        BY <1>1, <1>2, <2>1
      <3>2. c[2] = y + t /\ t \in Int
        BY <1>1, <3>1
      <3>3. c = Beside(cell, <<0, 1>>, t)
        BY <1>1, <2>1, <3>2, BesideEach, ZenonT(40)
      <3>. QED BY <3>3 DEF FourWays
    <2>2. CASE c[1] = x /\ c[2] < y
      <3>1. PICK t \in 1 .. r : t = y - c[2]
        BY <1>1, <1>2, <2>2
      <3>2. c[2] = y - t /\ t \in Int
        BY <1>1, <3>1
      <3>3. c = Beside(cell, <<0, -1>>, t)
        BY <1>1, <2>2, <3>2, BesideEach, ZenonT(40)
      <3>. QED BY <3>3 DEF FourWays
    <2>3. CASE c[2] = y /\ c[1] > x
      <3>1. PICK t \in 1 .. r : t = c[1] - x
        BY <1>1, <1>2, <2>3
      <3>2. c[1] = x + t /\ t \in Int
        BY <1>1, <3>1
      <3>3. c = Beside(cell, <<1, 0>>, t)
        BY <1>1, <2>3, <3>2, BesideEach, ZenonT(40)
      <3>. QED BY <3>3 DEF FourWays
    <2>4. CASE c[2] = y /\ c[1] < x
      <3>1. PICK t \in 1 .. r : t = x - c[1]
        BY <1>1, <1>2, <2>4
      <3>2. c[1] = x - t /\ t \in Int
        BY <1>1, <3>1
      <3>3. c = Beside(cell, <<-1, 0>>, t)
        BY <1>1, <2>4, <3>2, BesideEach, ZenonT(40)
      <3>. QED BY <3>3 DEF FourWays
    <2>5. /\ c[1] # x \/ c[2] # y
          /\ c[1] = x \/ c[2] = y
          /\ c[1] \in Int /\ c[2] \in Int /\ x \in Int /\ y \in Int
      BY <1>1, <1>2
    <2>6. \/ c[1] = x /\ c[2] > y
          \/ c[1] = x /\ c[2] < y
          \/ c[2] = y /\ c[1] > x
          \/ c[2] = y /\ c[1] < x
      BY <2>5
    <2>. QED BY <2>1, <2>2, <2>3, <2>4, <2>6
  <1>3. ASSUME NEW d \in FourWays, NEW s \in 1 .. r, c = Beside(cell, d, s)
        PROVE  /\ c # cell
               /\ c[1] = x \/ c[2] = y
               /\ c[1] - x \in -r .. r /\ c[2] - y \in -r .. r
    <2>1. s \in Int /\ s >= 1 /\ s <= r
      OBVIOUS
    <2>2. \/ c = <<x + s, y>> \/ c = <<x - s, y>> \/ c = <<x, y + s>> \/ c = <<x, y - s>>
      BY <1>3, <2>1, BesideEach DEF FourWays
    <2>3. \/ c[1] = x + s /\ c[2] = y
          \/ c[1] = x - s /\ c[2] = y
          \/ c[1] = x /\ c[2] = y + s
          \/ c[1] = x /\ c[2] = y - s
      BY <2>2
    <2>. QED BY <1>1, <2>1, <2>3
  <1>. QED BY <1>2, <1>3

\* computeBlastCellsAndCollectDestroyedBricks finds the cells in sight.
LEMMA BlastIsInSight ==
  ASSUME NEW map, NEW bomb \in Bombs, map[bomb.cell] \notin Solid
  PROVE  BlastCells(map, bomb) = {c \in Cells : InBlast(map, bomb, c)}
  <1> DEFINE cell == bomb.cell
             r == bomb.radius
             passes(d, s) == Beside(cell, d, s) \in Cells /\ map[Beside(cell, d, s)] \notin Solid
             reaches(d, s) == Beside(cell, d, s) \in Cells /\ map[Beside(cell, d, s)] # "Stone"
             onWay(c) == \E d \in FourWays, s \in 1 .. r :
                           c = Beside(cell, d, s) /\ reaches(d, s) /\ \A t \in 1 .. s - 1 : passes(d, t)
  <1>1. cell \in Cells /\ r \in Nat
    BY DEF Bombs
  <1>2. \A c : c \in BlastCells(map, bomb) <=> c = cell \/ onWay(c)
    <2> DEFINE ways == {w \in FourWays \X (1 .. r) :
                          reaches(w[1], w[2]) /\ \A t \in 1 .. w[2] - 1 : passes(w[1], t)}
    <2>1. BlastCells(map, bomb) = {cell} \cup {Beside(cell, w[1], w[2]) : w \in ways}
      BY Zenon DEF BlastCells
    <2>2. ASSUME NEW w \in ways PROVE onWay(Beside(cell, w[1], w[2]))
      BY <2>2
    <2>3. ASSUME NEW d \in FourWays, NEW s \in 1 .. r, reaches(d, s), \A t \in 1 .. s - 1 : passes(d, t)
          PROVE  <<d, s>> \in ways /\ <<d, s>>[1] = d /\ <<d, s>>[2] = s
      BY <2>3
    <2> HIDE DEF ways
    <2>4. ASSUME NEW c, onWay(c) PROVE \E w \in ways : c = Beside(cell, w[1], w[2])
      <3>1. PICK d \in FourWays, s \in 1 .. r :
              c = Beside(cell, d, s) /\ reaches(d, s) /\ \A t \in 1 .. s - 1 : passes(d, t)
        BY <2>4
      <3>. QED BY <2>3, <3>1
    <2> HIDE DEF onWay
    <2>. QED BY <2>1, <2>2, <2>4
  <1>3. InBlast(map, bomb, cell)
    <2>1. cell[1] \in Int /\ cell[2] \in Int
      BY <1>1, GridAssumption DEF Cells
    <2>2. \A c \in Cells : ~Between(c, cell, cell)
      BY <2>1, GridAssumption DEF Between, StrictlyBetween, Cells
    <2>3. cell[1] - cell[1] \in -r .. r /\ cell[2] - cell[2] \in -r .. r
      BY <1>1, <2>1
    <2>4. map[cell] # "Stone"
      BY DEF Solid
    <2>. QED BY <2>2, <2>3, <2>4 DEF InBlast
  <1>4. ASSUME NEW c \in Cells, c # cell, InBlast(map, bomb, c) PROVE onWay(c)
    <2>1. PICK d \in FourWays, s \in 1 .. r : c = Beside(cell, d, s)
      BY <1>1, <1>4, CrossIsWays DEF InBlast
    <2>2. s \in Nat \ {0}
      BY <1>1
    <2>3. \A t \in 1 .. s - 1 : passes(d, t)
      BY <1>1, <1>4, <2>1, <2>2, BetweenOnWay, WaysStayOnMap DEF InBlast
    <2>4. reaches(d, s)
      BY <1>4, <2>1 DEF InBlast
    <2>. QED BY <2>1, <2>3, <2>4
  <1>5. ASSUME NEW c, onWay(c) PROVE c \in Cells /\ InBlast(map, bomb, c)
    <2>1. PICK d \in FourWays, s \in 1 .. r :
            c = Beside(cell, d, s) /\ reaches(d, s) /\ \A t \in 1 .. s - 1 : passes(d, t)
      BY <1>5
    <2>2. c \in Cells /\ map[c] # "Stone" /\ s \in Nat \ {0}
      BY <1>1, <2>1
    <2>3. /\ c[1] = cell[1] \/ c[2] = cell[2]
          /\ c[1] - cell[1] \in -r .. r /\ c[2] - cell[2] \in -r .. r
      BY <1>1, <2>1, <2>2, CrossIsWays
    <2>4. \A between \in Cells : Between(between, cell, c) => map[between] \notin Solid
      BY <1>1, <2>1, <2>2, BetweenOnWay
    <2>. QED BY <2>2, <2>3, <2>4 DEF InBlast
  <1>. QED BY <1>1, <1>2, <1>3, <1>4, <1>5

-----------------------------------------------------------------------------
(* The bombs of one tick. *)

Exploding == {b \in tickStart.bombs : b.fuse <= 0}
HitBy(set) == {c \in Cells : \E b \in set : InBlast(preExplosionTiles, b, c)}

\* The bombs that are due are those that the tick found due.  Those that have gone
\* off so far have taken the bricks and the lives they reach on the board before,
\* and nothing else.
BlastInv ==
  /\ stage = "players" => DueBombs = Exploding /\ alive = tickStart.alive
  /\ stage = "bombs" =>
       /\ due \subseteq Exploding /\ DueBombs = due
       /\ \A b \in Exploding : preExplosionTiles[b.cell] \notin Solid
       /\ tiles = [c \in Cells |-> IF c \in HitBy(Exploding \ due) /\ preExplosionTiles[c] = "Brick"
                                   THEN "Grass" ELSE preExplosionTiles[c]]
       /\ alive = {p \in tickStart.alive : \/ Active(p, "Invincibility")
                                           \/ \A c \in HitBy(Exploding \ due) : ~Touches(pos[p], c)}

\* A player's turn keeps the invariant of blasts.
LEMMA SimulatePlayerBlast == ASSUME Typed, BlastInv, SimulatePlayer PROVE BlastInv'
  <1>1. /\ stage = "players" /\ UNCHANGED <<stage, alive, tickStart>>
        /\ Exploding' = Exploding
    BY DEF SimulatePlayer, lifeVars, Exploding
  <1>2. DueBombs' = DueBombs
    <2>1. CASE bombs' = bombs
      BY <2>1 DEF DueBombs
    <2>2. CASE \E bomb : Places(Min(toSimulate), bomb)
      <3>1. PICK bomb : bombs' = bombs \cup {bomb} /\ bomb.fuse = FuseTicks
        BY <2>2 DEF Places
      <3>. QED BY <3>1, TuningAssumption DEF DueBombs
    <2>. QED BY <2>1, <2>2, SimulatedPlayer
  <1>. QED BY <1>1, <1>2 DEF BlastInv

\* The step to the explosions fixes what the tick's blasts may reach.
LEMMA ResolveBombsBlast == ASSUME Typed, BoardShape, BlastInv, ResolveExplodingBombs PROVE BlastInv'
  <1>1. /\ stage = "players" /\ stage' = "bombs" /\ due' = DueBombs /\ preExplosionTiles' = tiles
        /\ UNCHANGED <<tiles, bombs, alive, pos, effect, tickStart>>
    BY DEF ResolveExplodingBombs, boardVars, lifeVars, moveVars, loadoutVars
  <1>2. due' = Exploding /\ Exploding' = Exploding /\ DueBombs' = due' /\ alive' = tickStart'.alive
    BY <1>1 DEF BlastInv, Exploding, DueBombs
  <1>3. HitBy(Exploding \ due)' = {}
    BY <1>2 DEF HitBy
  <1>4. \A b \in Exploding' : preExplosionTiles'[b.cell] \notin Solid
    BY <1>1, <1>2 DEF DueBombs, BoardShape
  <1>5. tiles' = [c \in Cells |-> preExplosionTiles'[c]]
    BY <1>1 DEF Typed, TypeOK
  <1>. QED BY <1>1, <1>2, <1>3, <1>4, <1>5 DEF BlastInv

\* One explosion keeps the invariant of blasts.
LEMMA ResolveBombBlast == ASSUME Typed, BlastInv, ResolveBombExplosion PROVE BlastInv'
  <1>1. PICK bomb \in due : Explode(bomb)
    BY DEF ResolveBombExplosion
  <1> DEFINE blast == BlastCells(preExplosionTiles, bomb)
             hit   == HitBy(Exploding \ due)
  <1>2. /\ stage = "bombs"
        /\ UNCHANGED <<stage, preExplosionTiles, pos, effect, tickStart>>
        /\ due' = due \ {bomb} /\ bombs' = bombs \ {bomb}
        /\ tiles' = [c \in Cells |-> IF c \in Explosion(bomb).bricks THEN "Grass" ELSE tiles[c]]
        /\ alive' = alive \ Killed(Explosion(bomb).blast)
    BY <1>1 DEF ResolveBombExplosion, Explode
  <1>3. /\ due \subseteq Exploding /\ DueBombs = due
        /\ \A b \in Exploding : preExplosionTiles[b.cell] \notin Solid
        /\ tiles = [c \in Cells |-> IF c \in hit /\ preExplosionTiles[c] = "Brick"
                                    THEN "Grass" ELSE preExplosionTiles[c]]
        /\ alive = {p \in tickStart.alive : Active(p, "Invincibility") \/ \A c \in hit : ~Touches(pos[p], c)}
    BY <1>2 DEF BlastInv
  <1>4. bomb \in Exploding /\ bomb \in Bombs
    BY <1>3 DEF Typed, TypeOK
  <1>5. blast = {c \in Cells : InBlast(preExplosionTiles, bomb, c)}
    BY <1>3, <1>4, BlastIsInSight
  <1>6. HitBy(Exploding \ due)' = hit \cup blast
    <2>1. Exploding' \ due' = (Exploding \ due) \cup {bomb}
      BY <1>2, <1>4 DEF Exploding
    <2>. QED BY <1>2, <1>5, <2>1 DEF HitBy
  <1>7. Explosion(bomb) = [blast |-> blast,
                           bricks |-> {c \in blast : preExplosionTiles[c] = "Brick" /\ tiles[c] = "Brick"}]
    BY DEF Explosion
  <1> HIDE DEF blast, hit
  <1>8. tiles' = [c \in Cells |-> IF c \in hit \cup blast /\ preExplosionTiles[c] = "Brick"
                                  THEN "Grass" ELSE preExplosionTiles[c]]
    <2>1. Explosion(bomb).bricks = {c \in blast : preExplosionTiles[c] = "Brick" /\ tiles[c] = "Brick"}
      BY <1>7
    <2>. QED BY <1>2, <1>3, <2>1
  <1>9. alive' = {p \in tickStart.alive : \/ Active(p, "Invincibility")
                                          \/ \A c \in hit \cup blast : ~Touches(pos[p], c)}
    BY <1>2, <1>3, <1>7 DEF Killed
  <1>10. \A p : Active(p, "Invincibility")' = Active(p, "Invincibility")
    BY <1>2 DEF Active
  <1>11. Exploding' = Exploding /\ DueBombs' = due'
    BY <1>2, <1>3 DEF Exploding, DueBombs
  <1>. QED
    <2>1. /\ stage' = "bombs" /\ due' \subseteq Exploding' /\ DueBombs' = due'
          /\ \A b \in Exploding' : preExplosionTiles'[b.cell] \notin Solid
      BY <1>2, <1>3, <1>11
    <2>2. tiles' = [c \in Cells |-> IF c \in HitBy(Exploding \ due)' /\ preExplosionTiles'[c] = "Brick"
                                    THEN "Grass" ELSE preExplosionTiles'[c]]
      BY <1>2, <1>6, <1>8
    <2>3. alive' = {p \in tickStart'.alive : \/ Active(p, "Invincibility")'
                                             \/ \A c \in HitBy(Exploding \ due)' : ~Touches(pos'[p], c)}
      BY <1>2, <1>6, <1>9, <1>10
    <2>. QED BY <2>1, <2>2, <2>3 DEF BlastInv

\* The invariant of blasts is inductive.
LEMMA NextBlast == Typed /\ BoardShape /\ BlastInv /\ [Next]_vars => BlastInv'
  <1> SUFFICES ASSUME Typed, BoardShape, BlastInv, [Next]_vars PROVE BlastInv'
    OBVIOUS
  <1>1. ASSUME NEW ids \in SUBSET PlayerIds, BeginRound(ids) PROVE BlastInv'
    BY <1>1 DEF BeginRound, BlastInv
  <1>2. CASE ReturnToLobby
    BY <1>2 DEF ReturnToLobby, stageVars, BlastInv
  <1>3. ASSUME NEW p \in PlayerIds, Disconnect(p) PROVE BlastInv'
    BY <1>3 DEF Disconnect, stageVars, BlastInv
  <1>4. CASE StartTick
    BY <1>4 DEF StartTick, BlastInv, DueBombs, Exploding
  <1>5. CASE FinishMatchTick \/ FinishEndOfMatchTick
    BY <1>5 DEF FinishMatchTick, FinishEndOfMatchTick, BlastInv
  <1>6. CASE UNCHANGED vars
    BY <1>6 DEF vars, stageVars, boardVars, lifeVars, moveVars, loadoutVars,
                BlastInv, DueBombs, Exploding, HitBy, Active
  <1>. QED BY <1>1, <1>2, <1>3, <1>4, <1>5, <1>6, SimulatePlayerBlast, ResolveBombsBlast,
              ResolveBombBlast DEF Next, TickStep

(***************************************************************************)
(* The bombs of one tick go off at once, whatever their order: what they   *)
(* destroy and whom they kill is what one of them has in sight on the      *)
(* board as the tick found it (resolveExplodingBombs).                     *)
(***************************************************************************)
THEOREM BlastsCorrect == Spec => []BlastsAreSimultaneous
  <1>1. Init => BlastInv
    BY DEF Init, BlastInv
  <1>2. BombInv /\ BlastInv /\ [Next]_vars => BlastInv'
    BY NextBlast DEF BombInv
  <1>3. BombInv /\ BlastInv => BlastsAreSimultaneous
    <2> SUFFICES ASSUME BombInv, BlastInv, stage = "bombs", due = {}
                 PROVE  BlastsAreSimultaneous
      BY DEF BlastsAreSimultaneous
    <2>1. Exploding \ due = Exploding
      OBVIOUS
    <2>2. \A b \in bombs : b.fuse > 0
      BY DEF BlastInv, DueBombs, BombInv, Typed, TypeOK, Bombs
    <2>. QED BY <2>1, <2>2 DEF BlastInv, BlastsAreSimultaneous, Exploding, HitBy
  <1>. QED BY <1>1, <1>2, <1>3, BombInvHolds, PTL DEF Spec

-----------------------------------------------------------------------------
(* Powerups. *)

OfType(e) == {i \in PowerupSlots : Placements[i] = e}
With(e) == {p \in inMatch : Active(p, e)}
OnMap(e) == {i \in OfType(e) : powerups[i].revealed # "gone"}

\* One powerup serves no more than one player.
LEMMA ServedAtMost ==
  ASSUME NEW slots, IsFiniteSet(slots), NEW players, NEW by \in [slots -> players]
  PROVE  /\ IsFiniteSet({by[i] : i \in slots})
         /\ Cardinality({by[i] : i \in slots}) <= Cardinality(slots)
  <1> DEFINE served == {by[i] : i \in slots}
  <1>1. by \in Surjection(slots, served)
    BY DEF Surjection
  <1>. QED BY <1>1, FS_Surjection

\* Fewer have the effect and fewer powerups are on the map.
LEMMA NoMoreEffects ==
  ASSUME Typed, NEW e \in Effects, With(e)' \subseteq With(e), OnMap(e)' \subseteq OnMap(e),
         Cardinality(With(e)) + Cardinality(OnMap(e)) <= Cardinality(OfType(e))
  PROVE  (Cardinality(With(e)) + Cardinality(OnMap(e)) <= Cardinality(OfType(e)))'
  <1>1. IsFiniteSet(PowerupSlots) /\ PowerupSlots' = PowerupSlots /\ OfType(e)' = OfType(e)
    <2>1. Len(Placements) \in Int
      BY PlacementsAssumption
    <2>. QED BY <2>1, FS_Interval DEF PowerupSlots, OfType
  <1>2. IsFiniteSet(OfType(e)) /\ IsFiniteSet(OnMap(e))
    <2>1. OfType(e) \in SUBSET PowerupSlots /\ OnMap(e) \in SUBSET PowerupSlots
      BY DEF OfType, OnMap
    <2>. QED BY <1>1, <2>1, FS_Subset
  <1>3. IsFiniteSet(With(e))
    <2>1. With(e) \in SUBSET PlayerIds
      BY DEF With, Typed, TypeOK
    <2>. QED BY <2>1, PlayersAssumption, FS_Subset
  <1>4. /\ Cardinality(With(e)') <= Cardinality(With(e)) /\ IsFiniteSet(With(e)')
        /\ Cardinality(OnMap(e)') <= Cardinality(OnMap(e)) /\ IsFiniteSet(OnMap(e)')
    BY <1>2, <1>3, FS_Subset
  <1>5. /\ Cardinality(With(e)) \in Nat /\ Cardinality(OnMap(e)) \in Nat /\ Cardinality(OfType(e)) \in Nat
        /\ Cardinality(With(e)') \in Nat /\ Cardinality(OnMap(e)') \in Nat
    BY <1>2, <1>3, <1>4, FS_CardinalityType
  <1>. QED BY <1>1, <1>4, <1>5

\* The lowest of those on a powerup takes it, and with it its effect.
LEMMA CollectedEffects ==
  ASSUME Typed, NEW e \in Effects, inMatch' = inMatch, CollectRevealedPowerups,
         Cardinality(With(e)) + Cardinality(OnMap(e)) <= Cardinality(OfType(e))
  PROVE  (Cardinality(With(e)) + Cardinality(OnMap(e)) <= Cardinality(OfType(e)))'
  <1> DEFINE taken == {i \in OfType(e) : Collectors(i) # {}}
             by    == [i \in taken |-> Min(Collectors(i))]
             served == {by[i] : i \in taken}
  <1>1. IsFiniteSet(OfType(e)) /\ OfType(e)' = OfType(e) /\ OfType(e) \subseteq PowerupSlots
    <2>1. Len(Placements) \in Int
      BY PlacementsAssumption
    <2>2. IsFiniteSet(PowerupSlots) /\ OfType(e) \in SUBSET PowerupSlots
      BY <2>1, FS_Interval DEF PowerupSlots, OfType
    <2>. QED BY <2>2, FS_Subset DEF OfType, PowerupSlots
  <1>2. IsFiniteSet(OnMap(e)) /\ taken \in SUBSET OnMap(e) /\ OnMap(e)' = OnMap(e) \ taken
    <2>1. OnMap(e) \in SUBSET OfType(e)
      BY DEF OnMap
    <2>2. taken \in SUBSET OnMap(e)
      BY DEF OnMap, Collectors
    <2>3. \A i \in PowerupSlots : powerups'[i] = IF Collectors(i) # {} THEN NoPowerup ELSE powerups[i]
      BY DEF CollectRevealedPowerups
    <2>4. OnMap(e)' = {i \in OfType(e) : powerups'[i].revealed # "gone"}
      BY <1>1 DEF OnMap
    <2>5. NoPowerup.revealed = "gone"
      BY DEF NoPowerup
    <2>. QED BY <1>1, <2>1, <2>2, <2>3, <2>4, <2>5, FS_Subset DEF OnMap
  <1>3. IsFiniteSet(taken) /\ Cardinality(OnMap(e)') = Cardinality(OnMap(e)) - Cardinality(taken)
        /\ IsFiniteSet(OnMap(e)')
    <2>1. OnMap(e) \cap taken = taken
      BY <1>2
    <2>. QED BY <1>2, <2>1, FS_Difference, FS_Subset, ZenonT(40)
  <1>4. IsFiniteSet(served) /\ Cardinality(served) <= Cardinality(taken)
    <2>1. by \in [taken -> {Min(Collectors(i)) : i \in taken}]
      OBVIOUS
    <2> HIDE DEF taken, by
    <2>. QED BY <1>3, <2>1, ServedAtMost
  <1>5. IsFiniteSet(With(e))
    <2>1. With(e) \in SUBSET PlayerIds
      BY DEF With, Typed, TypeOK
    <2>. QED BY <2>1, PlayersAssumption, FS_Subset
  <1>6. With(e)' \subseteq With(e) \cup served
    <2> SUFFICES ASSUME NEW p \in inMatch, Active(p, e)', ~Active(p, e) PROVE p \in served
      BY DEF With
    <2>1. p \in PlayerIds /\ effect'[p][e] # effect[p][e]
      BY DEF Active, Typed, TypeOK
    <2>2. \E i \in PowerupSlots : Placements[i] = e /\ Collects(p, i)
      BY <2>1 DEF CollectRevealedPowerups
    <2>3. PICK i \in PowerupSlots : Placements[i] = e /\ Collectors(i) # {} /\ p = Min(Collectors(i))
      BY <2>2 DEF Collects
    <2>. QED BY <2>3 DEF OfType
  <1>7. /\ Cardinality(With(e)') <= Cardinality(With(e)) + Cardinality(taken)
        /\ Cardinality(With(e)') \in Nat
    <2>1. IsFiniteSet(With(e) \cup served)
      BY <1>4, <1>5, FS_Union
    <2>2. Cardinality(With(e) \cup served)
            = Cardinality(With(e)) + Cardinality(served) - Cardinality(With(e) \cap served)
      BY <1>4, <1>5, FS_Union
    <2>3. IsFiniteSet(With(e) \cap served)
      BY <1>5, FS_Subset
    <2>4. IsFiniteSet(With(e)') /\ Cardinality(With(e)') <= Cardinality(With(e) \cup served)
      BY <1>6, <2>1, FS_Subset
    <2>5. /\ Cardinality(With(e)) \in Nat /\ Cardinality(served) \in Nat /\ Cardinality(taken) \in Nat
          /\ Cardinality(With(e) \cap served) \in Nat /\ Cardinality(With(e)') \in Nat
          /\ Cardinality(With(e) \cup served) \in Nat
      BY <1>3, <1>4, <1>5, <2>1, <2>3, <2>4, FS_CardinalityType
    <2> HIDE DEF served, taken
    <2>. QED BY <1>4, <2>2, <2>4, <2>5
  <1>8. /\ Cardinality(With(e)) \in Nat /\ Cardinality(taken) \in Nat
        /\ Cardinality(OnMap(e)) \in Nat /\ Cardinality(OfType(e)) \in Nat
    BY <1>1, <1>2, <1>3, <1>5, FS_CardinalityType
  <1> HIDE DEF taken
  <1>. QED BY <1>1, <1>3, <1>7, <1>8

\* Every step leaves an effect to come from a powerup.
LEMMA NextEffects ==
  Typed /\ RoundRest /\ EffectsComeFromPowerups /\ [Next]_vars => EffectsComeFromPowerups'
  <1> DEFINE Backed(e) == Cardinality(With(e)) + Cardinality(OnMap(e)) <= Cardinality(OfType(e))
  <1> SUFFICES ASSUME Typed, RoundRest, EffectsComeFromPowerups, [Next]_vars, phase' # "Lobby",
                      NEW e \in Effects
               PROVE  Backed(e)'
    BY DEF EffectsComeFromPowerups, With, OnMap, OfType
  <1>1. phase # "Lobby" => Backed(e)
    BY DEF EffectsComeFromPowerups, With, OnMap, OfType
  <1>2. ASSUME phase # "Lobby", inMatch' \subseteq inMatch,
               \A p \in PlayerIds : effect'[p][e] <= effect[p][e],
               \A i \in PowerupSlots : powerups'[i].revealed = "gone" <=> powerups[i].revealed = "gone"
        PROVE  Backed(e)'
    <2>1. \A p \in PlayerIds : effect[p][e] \in Nat
      BY DEF Typed, TypeOK
    <2>2. With(e)' \subseteq With(e)
      <3> SUFFICES ASSUME NEW p \in inMatch', Active(p, e)' PROVE p \in With(e)
        BY DEF With
      <3>1. p \in inMatch /\ p \in PlayerIds /\ effect'[p][e] > 0 /\ effect'[p][e] <= effect[p][e]
        BY <1>2 DEF Active, Typed, TypeOK
      <3>2. effect'[p][e] \in Nat
        BY <3>1, NextTyped DEF Typed, TypeOK
      <3>. QED BY <2>1, <3>1, <3>2 DEF With, Active
    <2>3. OnMap(e)' \subseteq OnMap(e)
      BY <1>2 DEF OnMap, OfType, PowerupSlots
    <2>. QED BY <1>1, <1>2, <2>2, <2>3, NoMoreEffects
  <1>3. ASSUME phase # "Lobby", inMatch' \subseteq inMatch, UNCHANGED <<effect, powerups>>
        PROVE  Backed(e)'
    <2>1. \A p \in PlayerIds : effect[p][e] \in Nat
      BY DEF Typed, TypeOK
    <2>. QED BY <1>2, <1>3, <2>1
  <1>4. ASSUME NEW ids \in SUBSET PlayerIds, BeginRound(ids) PROVE Backed(e)'
    <2>1. With(e)' = {}
      <3>1. inMatch' = ids /\ effect' = [p \in PlayerIds |-> NoEffects]
        BY <1>4 DEF BeginRound
      <3>. QED BY <3>1 DEF With, Active, NoEffects
    <2>2. Cardinality(With(e)') = 0
      BY <2>1, FS_EmptySet
    <2>3. IsFiniteSet(OfType(e)) /\ OfType(e)' = OfType(e)
      <3>1. Len(Placements) \in Int
        BY PlacementsAssumption
      <3>2. IsFiniteSet(PowerupSlots) /\ OfType(e) \in SUBSET PowerupSlots
        BY <3>1, FS_Interval DEF PowerupSlots, OfType
      <3>. QED BY <3>2, FS_Subset DEF OfType, PowerupSlots
    <2>4. OnMap(e)' \in SUBSET OfType(e)
      BY <2>3 DEF OnMap
    <2>5. Cardinality(OnMap(e)') <= Cardinality(OfType(e)) /\ IsFiniteSet(OnMap(e)')
      BY <2>3, <2>4, FS_Subset
    <2>6. Cardinality(OnMap(e)') \in Nat /\ Cardinality(OfType(e)) \in Nat
      BY <2>3, <2>5, FS_CardinalityType
    <2>. QED BY <2>2, <2>3, <2>5, <2>6
  <1>5. CASE ReturnToLobby
    BY <1>5 DEF ReturnToLobby, ResetToLobby
  <1>6. ASSUME NEW p \in PlayerIds, Disconnect(p) PROVE Backed(e)'
    <2>1. p \in inMatch
      BY <1>6 DEF Disconnect
    <2>2. phase # "Lobby"
      BY <2>1 DEF RoundRest
    <2>3. inMatch' \subseteq inMatch /\ effect' = effect
      BY <1>6 DEF Disconnect, ResetToLobby
    <2>4. powerups' = powerups
      BY <1>6 DEF Disconnect, ResetToLobby
    <2>. QED BY <1>3, <2>2, <2>3, <2>4
  <1>7. CASE StartTick
    <2>1. phase # "Lobby" /\ inMatch' = inMatch
      BY <1>7 DEF StartTick
    <2>2. \A p \in PlayerIds : effect'[p][e] = Less(effect[p][e]) /\ effect[p][e] \in Nat
      BY <1>7 DEF StartTick, Typed, TypeOK
    <2>3. \A p \in PlayerIds : effect'[p][e] <= effect[p][e]
      BY <2>2 DEF Less
    <2>4. \A i \in PowerupSlots :
            /\ powerups'[i] = [powerups[i] EXCEPT !.revealed = IF @ = "now" THEN "before" ELSE @]
            /\ powerups[i] \in [cell : Cells, revealed : {"no", "now", "before", "gone"}]
      BY <1>7 DEF StartTick, Typed, TypeOK
    <2>5. \A i \in PowerupSlots : powerups'[i].revealed = "gone" <=> powerups[i].revealed = "gone"
      BY <2>4
    <2>. QED BY <1>2, <2>1, <2>3, <2>5
  <1>8. CASE SimulatePlayer \/ ResolveExplodingBombs
    <2>1. stage # "idle" /\ UNCHANGED <<inMatch, effect, powerups>>
      BY <1>8 DEF SimulatePlayer, ResolveExplodingBombs, boardVars, lifeVars, loadoutVars
    <2>. QED BY <1>3, <2>1 DEF Typed, StageShape
  <1>9. CASE ResolveBombExplosion
    <2>1. PICK bomb \in due : Explode(bomb)
      BY <1>9 DEF ResolveBombExplosion
    <2>2. phase # "Lobby" /\ inMatch' = inMatch /\ effect' = effect
      BY <1>9, <2>1 DEF ResolveBombExplosion, Explode, Typed, StageShape
    <2>3. \A i \in PowerupSlots :
            /\ powerups[i] \in [cell : Cells, revealed : {"no", "now", "before", "gone"}]
            /\ powerups'[i] = IF powerups[i].revealed = "no" /\ powerups[i].cell \in Explosion(bomb).bricks
                              THEN [powerups[i] EXCEPT !.revealed = "now"] ELSE powerups[i]
      BY <2>1 DEF Explode, Typed, TypeOK
    <2>4. \A i \in PowerupSlots : powerups'[i].revealed = "gone" <=> powerups[i].revealed = "gone"
      BY <2>3
    <2>5. \A p \in PlayerIds : effect[p][e] \in Nat
      BY DEF Typed, TypeOK
    <2>. QED BY <1>2, <2>2, <2>4, <2>5
  <1>10. CASE FinishMatchTick
    <2>1. phase # "Lobby" /\ inMatch' = inMatch /\ CollectRevealedPowerups
      BY <1>10 DEF FinishMatchTick, Typed, StageShape
    <2>. QED BY <1>1, <2>1, CollectedEffects
  <1>11. CASE FinishEndOfMatchTick
    BY <1>3, <1>11 DEF FinishEndOfMatchTick, boardVars, lifeVars, loadoutVars
  <1>12. CASE UNCHANGED vars
    BY <1>3, <1>12 DEF vars, flowVars, boardVars, lifeVars, loadoutVars
  <1>. QED BY <1>4, <1>5, <1>6, <1>7, <1>8, <1>9, <1>10, <1>11, <1>12 DEF Next, TickStep

(***************************************************************************)
(* A powerup serves one player once: however many stand on it, and however *)
(* many of its type there are (collectRevealedPowerups).                   *)
(***************************************************************************)
THEOREM EffectsCorrect == Spec => []EffectsComeFromPowerups
  <1>1. Init => Typed /\ BattleInv /\ EffectsComeFromPowerups
    BY InitTyped, InitBattle DEF Init, EffectsComeFromPowerups
  <1>2. Typed /\ BattleInv /\ EffectsComeFromPowerups /\ [Next]_vars
          => (Typed /\ BattleInv /\ EffectsComeFromPowerups)'
    BY NextTyped, NextBattle, NextEffects DEF BattleInv
  <1>. QED BY <1>1, <1>2, PTL DEF Spec
=============================================================================
