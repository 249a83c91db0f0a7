----------------------------- MODULE MCArenaWire -----------------------------
(***************************************************************************)
(* ArenaWire in a corner of the map, for two players on one side of two    *)
(* bricks in a row and with a cell to hide in.  A cell is four units and a *)
(* step three, so that players stand in one cell or across two.            *)
(*                                                                         *)
(*   a b B B                                                               *)
(*   .                                                                     *)
(***************************************************************************)
EXTENDS ArenaWire

CornerBricks == {<<3, 1>>, <<4, 1>>}
CornerGrass == {<<1, 1>>, <<2, 1>>, <<1, 2>>}
MCBase == [c \in Cells |-> IF c \in CornerGrass \cup CornerBricks THEN "Grass" ELSE "Stone"]
MCBrickMaps == {CornerBricks}
MCSpawn == [p \in PlayerIds |-> <<p + 1, 1>>]
MCModulus == [w \in {1, 2, 4} |-> IF w = 1 THEN 256 ELSE 1000]
MCInputs == {{}, {"Right"}, {"Left"}, {"Down"}, {"Up"}, {"Bomb"}}
MCPlacements == <<"MaxBombsBoost", "Invincibility">>
=============================================================================
