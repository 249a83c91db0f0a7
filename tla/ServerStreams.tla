---------------------------- MODULE ServerStreams ----------------------------
(***************************************************************************)
(* Every connection of the server carries a RoundStream.                   *)
(***************************************************************************)
EXTENDS ServerFlow

\* The server can still send to p, and has a seat for it.
Attached(p) == link[p] = "open" /\ playerOf[p] # NoPlayer

IsReady(p) == Attached(p) /\ slots[playerOf[p]].ready
IsLoaded(p) == Attached(p) /\ playerOf[p] \in loadedMask

StageFor(p) ==
  IF ~Attached(p) THEN "away"
  ELSE CASE phase = "StartingMatch" -> "loading"
         [] phase = "InMatch"       -> "playing"
         [] phase = "EndOfMatch"    -> "over"
         [] OTHER                   -> "lobby"

Stream(p) == INSTANCE RoundStream WITH
  stage  <- StageFor(p),
  issued <- nextMatchId - 1,
  ready  <- IsReady(p),
  loaded <- IsLoaded(p),
  batch  <- IF Attached(p) THEN lastFlow[p] ELSE <<>>

(***************************************************************************)
(* Whatever the others do, each client is told a story that makes sense on *)
(* its own: it is taken into a match only from the lobby and ready, hears  *)
(* of a verdict only after a start, and every other end of a match reaches *)
(* it as a cancellation followed by the lobby.  (All flow handlers.)       *)
(***************************************************************************)
ImplementsStreams ==
  /\ \A p \in Peers : Stream(p)!StreamInit
  /\ [][\A p \in Peers : [Stream(p)!StreamNext]_(Stream(p)!streamVars)]_vars
=============================================================================
