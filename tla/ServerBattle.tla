---------------------------- MODULE ServerBattle ----------------------------
(***************************************************************************)
(* ServerFlow keeps of the arena only who is in the match, who lives, who  *)
(* may act and whether there is a bomb.  RoundBattle states what it        *)
(* assumes of the rest, and Arena shows that the bombs and blasts of the   *)
(* code keep to it.                                                        *)
(***************************************************************************)
EXTENDS ServerFlow

\* Lobby, countdown and loading are all before the battle.
BattlePhase == IF phase \in {"InMatch", "EndOfMatch"} THEN phase ELSE "Lobby"
InBattle(ids) == IF BattlePhase = "Lobby" THEN {} ELSE ids

Battle == INSTANCE RoundBattle WITH
  Players   <- PlayerIds,
  phase     <- BattlePhase,
  inMatch   <- InBattle(inMatch),
  alive     <- InBattle(alive),
  unlocked  <- InBattle(unlocked),
  bombsLive <- bombsLive

(***************************************************************************)
(* Whatever packets, disconnects and deadlines there are, the round flow   *)
(* takes the match state only through the steps of a battle: it starts     *)
(* with everybody alive, locked and without a bomb, ends when at most one  *)
(* is left, and never takes a player or a bomb into the next round.        *)
(***************************************************************************)
FlowImplementsBattle == Battle!BattleSpec
=============================================================================
