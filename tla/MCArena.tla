------------------------------- MODULE MCArena -------------------------------
(***************************************************************************)
(* Arena for three players on one lane of grass, a b . c, with no brick to *)
(* hide a powerup under.  A cell is four units and a step half a cell, so  *)
(* that players stand in one cell or across two.                           *)
(***************************************************************************)
EXTENDS Arena

Lane == {<<c, 1>> : c \in 1 .. 4}
MCBase == [c \in Cells |-> IF c \in Lane THEN "Grass" ELSE "Stone"]
NoBricks == {{}}
MCSpawn == [p \in PlayerIds |-> <<<<1, 1>>, <<2, 1>>, <<4, 1>>>>[p + 1]]
LeftOrBomb == {{}, {"Left"}, {"Bomb"}}
NoPowerups == <<>>
=============================================================================
