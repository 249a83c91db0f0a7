------------------------------ MODULE Movement ------------------------------
(***************************************************************************)
(* The movement and map rules that server and client share (Sim/Movement.h,*)
(* Sim/SpawnSlots.h, Sim/TileMapGen.h): a player is an axis-aligned square *)
(* around a fixed-point centre, and moves one axis after the other.        *)
(*                                                                         *)
(* A map is a function from cells <<col, row>> to tiles.  A cell is TileQ  *)
(* units wide (256 in the code, which counts in 1/256 of a tile).          *)
(***************************************************************************)
EXTENDS Integers

CONSTANTS
  Width, Height,  \* tileArrayWidth, tileArrayHeight
  TileQ,          \* 256: units per tile
  HitboxHalfQ     \* kHitboxHalfQ

ASSUME GridAssumption == Width \in Nat \ {0} /\ Height \in Nat \ {0}
\* kPlayerHitboxScale is one half: the square is no wider than a tile.
ASSUME HitboxAssumption ==
  TileQ \in Nat /\ HitboxHalfQ \in Nat \ {0} /\ 2 * HitboxHalfQ <= TileQ

Cells == (0 .. Width - 1) \X (0 .. Height - 1)
\* EmptyGrass is the grass on which no brick is put; Bomb and Bang are tiles of
\* the single-player scene only.
TileKinds == {"Stone", "Grass", "EmptyGrass", "Brick", "Bomb", "Bang"}
Solid == {"Stone", "Brick"}

IsWalkable(map, col, row) ==
  <<col, row>> \in Cells /\ map[<<col, row>>] \notin Solid

\* C++ integer division rounds toward zero.
TruncDiv(a, b) == IF a >= 0 THEN a \div b ELSE -((-a) \div b)

\* Mutant: the far edges are not looked at.
OverlapsWallNearEdges(map, xQ, yQ) ==
  ~IsWalkable(map, TruncDiv(xQ - HitboxHalfQ, TileQ), TruncDiv(yQ - HitboxHalfQ, TileQ))

\* The four corners of the square; the far edges are exclusive.
OverlapsWall(map, xQ, yQ) ==
  \E col \in {TruncDiv(xQ - HitboxHalfQ, TileQ), TruncDiv(xQ + HitboxHalfQ - 1, TileQ)},
     row \in {TruncDiv(yQ - HitboxHalfQ, TileQ), TruncDiv(yQ + HitboxHalfQ - 1, TileQ)} :
    ~IsWalkable(map, col, row)

\* One tick: the x axis first, then the y axis from where x has ended.
StepMovementWithCollision(pos, moveX, moveY, map, speedQ) ==
  LET newX == pos.x + moveX * speedQ
      x    == IF moveX # 0 /\ ~OverlapsWall(map, newX, pos.y) THEN newX ELSE pos.x
      newY == pos.y + moveY * speedQ
      y    == IF moveY # 0 /\ ~OverlapsWall(map, x, newY) THEN newY ELSE pos.y
  IN  [x |-> x, y |-> y]

\* buttonsToMoveX, buttonsToMoveY: opposite keys cancel out.
Buttons == {"Up", "Down", "Left", "Right", "Bomb"}
Pressed(button, buttons) == IF button \in buttons THEN 1 ELSE 0
MoveX(buttons) == Pressed("Right", buttons) - Pressed("Left", buttons)
MoveY(buttons) == Pressed("Down", buttons) - Pressed("Up", buttons)

\* The cell a centre lies in, if any (bombCellFromPlayerPosition, playerCenterCell).
CellOf(pos) == <<TruncDiv(pos.x, TileQ), TruncDiv(pos.y, TileQ)>>

\* The centre of a cell (spawnSlotTilePos).
CentreOf(cell) == [x |-> cell[1] * TileQ + TileQ \div 2, y |-> cell[2] * TileQ + TileQ \div 2]

\* playerOverlapsBlastCell: the open square of a player meets that of a cell.
Touches(pos, cell) ==
  /\ pos.x - HitboxHalfQ < (cell[1] + 1) * TileQ /\ pos.x + HitboxHalfQ > cell[1] * TileQ
  /\ pos.y - HitboxHalfQ < (cell[2] + 1) * TileQ /\ pos.y + HitboxHalfQ > cell[2] * TileQ

\* generateTileMap for the seed that turns exactly these grass cells into bricks.
GeneratedMap(base, bricks) ==
  [c \in Cells |-> IF base[c] = "Grass" /\ c \in bricks THEN "Brick" ELSE base[c]]

\* baseTiles has a border of stone.
Border == {c \in Cells : c[1] \in {0, Width - 1} \/ c[2] \in {0, Height - 1}}
IsArena(base) == base \in [Cells -> TileKinds] /\ \A c \in Border : base[c] = "Stone"
=============================================================================
