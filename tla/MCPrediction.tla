----------------------------- MODULE MCPrediction -----------------------------
(***************************************************************************)
(* Prediction in a lane of two cells, the second of them a brick for now.  *)
(***************************************************************************)
EXTENDS Prediction

MCOpenTiles == [c \in Cells |-> IF c \in Border THEN "Stone" ELSE "Grass"]
MCStartTiles == [MCOpenTiles EXCEPT ![<<2, 1>>] = "Brick"]
MCSpawnCell == <<1, 1>>
MCTwoInputs == {{}, {"Right"}}
=============================================================================
