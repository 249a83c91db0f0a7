--------------------------- MODULE MCClientWorld ---------------------------
(* Two cells a bomb can be placed on and three bricks, one of them in reach  *)
(* of both cells.                                                            *)
EXTENDS ClientWorld

CONSTANTS own1, own2, shared

MCBricks == {own1, own2, shared}
MCReach == <<{own1, shared}, {own2, shared}>>
===========================================================================
