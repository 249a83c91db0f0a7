----------------------------- MODULE RoundBattle -----------------------------
(***************************************************************************)
(* A round as far as its outcome is concerned: who is in it, who lives,    *)
(* who may act, and whether there is any bomb.  This is what the round     *)
(* flow takes for granted of the arena: nobody dies without a bomb that    *)
(* was there before the tick, there is no bomb that nobody could have      *)
(* placed, and a tick that leaves at most one alive ends the round, with   *)
(* nothing left on the map.                                                *)
(*                                                                         *)
(* Arena implements it, and so does ServerFlow (ServerBattle).             *)
(***************************************************************************)
EXTENDS Integers, FiniteSets

CONSTANT Players

VARIABLES phase, inMatch, alive, unlocked, bombsLive

battleVars == <<phase, inMatch, alive, unlocked, bombsLive>>

Decided(ids, living) == ids # {} /\ Cardinality(living) <= 1

Over(ids, living) ==
  /\ phase' = "EndOfMatch"
  /\ inMatch' = ids /\ alive' = living
  /\ unlocked' = {} /\ bombsLive' = FALSE

NoRound ==
  /\ phase' = "Lobby"
  /\ inMatch' = {} /\ alive' = {} /\ unlocked' = {} /\ bombsLive' = FALSE

Begin(ids) ==
  /\ phase = "Lobby"
  /\ phase' = "InMatch"
  /\ inMatch' = ids /\ alive' = ids /\ unlocked' = {} /\ bombsLive' = FALSE

\* What one tick may do to those who may act in it.
Battle(mayAct) ==
  \E killed \in SUBSET alive, bombsAfter \in BOOLEAN :
    /\ killed # {} => bombsLive
    /\ bombsAfter => bombsLive \/ mayAct \cap alive # {}
    /\ IF Decided(inMatch, alive \ killed)
       THEN Over(inMatch, alive \ killed)
       ELSE /\ alive' = alive \ killed /\ unlocked' = mayAct \ killed
            /\ bombsLive' = bombsAfter
            /\ UNCHANGED <<phase, inMatch>>

\* The first tick that lets anybody act lets everybody.
BattleTick ==
  /\ phase = "InMatch"
  /\ Battle(unlocked) \/ (unlocked = {} /\ alive = inMatch /\ Battle(inMatch))

Leave(p) ==
  LET left == inMatch \ {p} IN
  /\ p \in inMatch
  /\ \/ left = {} /\ NoRound
     \/ /\ left # {}
        /\ IF phase = "InMatch" /\ Decided(left, alive \ {p})
           THEN Over(left, alive \ {p})
           ELSE /\ inMatch' = left /\ alive' = alive \ {p} /\ unlocked' = unlocked \ {p}
                /\ UNCHANGED <<phase, bombsLive>>

Return == phase = "EndOfMatch" /\ NoRound

BattleInit ==
  /\ phase = "Lobby"
  /\ inMatch = {} /\ alive = {} /\ unlocked = {} /\ bombsLive = FALSE

BattleNext ==
  \/ \E ids \in SUBSET Players : Cardinality(ids) > 1 /\ Begin(ids)
  \/ BattleTick \/ Return
  \/ \E p \in Players : Leave(p)

BattleSpec == BattleInit /\ [][BattleNext]_battleVars
=============================================================================
