----------------------------- MODULE RoundStream -----------------------------
(***************************************************************************)
(* The server's round flow as one client sees it over one connection: the  *)
(* stage of the round it has a part in, whether it counts as ready and as  *)
(* loaded, and the batch of control messages that the last handler to      *)
(* queue any queued to it (ServerLobbyFlow.cpp, ServerFlow.cpp,            *)
(* ServerMatchFlow.cpp, ServerControlHandlers.cpp).                        *)
(*                                                                         *)
(* What other players do shows only as the choice between actions.  Every  *)
(* connection of ServerFlow implements this module (ServerStreams), and    *)
(* ClientSession composes it with a client.                                *)
(***************************************************************************)
EXTENDS Integers, Sequences

VARIABLES
  stage,    \* "away", "lobby", "loading", "playing" or "over"
  issued,   \* matches issued by the server so far: the id of the latest
  ready,    \* PlayerSlot::ready of this client's seat
  loaded,   \* this client is in currentMatchLoadedMask
  batch     \* the messages queued to this client last

streamVars == <<stage, issued, ready, loaded, batch>>

Stages == {"away", "lobby", "loading", "playing", "over"}

Msg(type, match) == [type |-> type, match |-> match]
LobbyStateMsg == Msg("LobbyState", 0)
StreamMsgs ==
  {LobbyStateMsg} \cup
  [type : {"LevelInfo", "MatchCancelled", "MatchStart", "MatchResult"}, match : Nat]

StreamInit ==
  /\ stage = "away" /\ issued = 0
  /\ ready = FALSE /\ loaded = FALSE
  /\ batch = <<>>

\* An accepted Hello.
Join ==
  /\ stage = "away"
  /\ stage' = "lobby" /\ ready' = FALSE /\ loaded' = FALSE
  /\ batch' = <<LobbyStateMsg>>
  /\ UNCHANGED issued

\* The connection is gone as far as sending to it goes.
Leave ==
  /\ stage # "away"
  /\ stage' = "away" /\ ready' = FALSE /\ loaded' = FALSE
  /\ batch' = <<>>
  /\ UNCHANGED issued

\* A match is issued without this client.
IssueElsewhere ==
  /\ stage = "away"
  /\ issued' = issued + 1
  /\ UNCHANGED <<stage, ready, loaded, batch>>

\* The lobby is broadcast again: others joined, left or changed their flag, or
\* the countdown moved.  A join or a leave clears every flag.
Refresh ==
  /\ stage = "lobby"
  /\ ready' \in {ready, FALSE}
  /\ batch' = <<LobbyStateMsg>>
  /\ UNCHANGED <<stage, issued, loaded>>

\* onLobbyReady.
SetReady(desired) ==
  /\ stage = "lobby" /\ ready # desired
  /\ ready' = desired
  /\ batch' = <<LobbyStateMsg>>
  /\ UNCHANGED <<stage, issued, loaded>>

\* Mutant: the lobby is taken into the match, ready or not.
FormUnready ==
  /\ stage = "lobby"
  /\ stage' = "loading" /\ issued' = issued + 1
  /\ ready' = FALSE /\ loaded' = FALSE
  /\ batch' = <<Msg("LevelInfo", issued + 1)>>

\* beginMatchBootstrap.
Form ==
  /\ stage = "lobby" /\ ready
  /\ stage' = "loading" /\ issued' = issued + 1
  /\ ready' = FALSE /\ loaded' = FALSE
  /\ batch' = <<Msg("LevelInfo", issued + 1)>>

\* beginMatchBootstrap when another participant's LevelInfo cannot be queued.
FormInVain ==
  /\ stage = "lobby" /\ ready
  /\ issued' = issued + 1 /\ ready' = FALSE
  /\ batch' = <<Msg("LevelInfo", issued + 1), Msg("MatchCancelled", issued + 1),
                LobbyStateMsg>>
  /\ UNCHANGED <<stage, loaded>>

\* markPlayerLoadedForCurrentMatch while others are still missing.
CountLoaded ==
  /\ stage = "loading" /\ ~loaded
  /\ loaded' = TRUE
  /\ UNCHANGED <<stage, issued, ready, batch>>

\* maybeCommitMatchStart, on this client's acknowledgement or a later one.
Start ==
  /\ stage = "loading"
  /\ stage' = "playing" /\ loaded' = TRUE
  /\ batch' = <<Msg("MatchStart", issued)>>
  /\ UNCHANGED <<issued, ready>>

BackToLobby(msgs) ==
  /\ stage' = "lobby" /\ ready' = FALSE /\ loaded' = FALSE
  /\ batch' = Append(msgs, LobbyStateMsg)
  /\ UNCHANGED issued

\* maybeCommitMatchStart when another participant's MatchStart cannot be queued.
StartInVain ==
  /\ stage = "loading"
  /\ BackToLobby(<<Msg("MatchStart", issued), Msg("MatchCancelled", issued)>>)

\* cancelStartingMatch: a participant left or the load deadline has passed.
Cancel ==
  /\ stage = "loading"
  /\ BackToLobby(<<Msg("MatchCancelled", issued)>>)

\* beginEndOfMatch.
End ==
  /\ stage = "playing"
  /\ stage' = "over"
  /\ batch' = <<Msg("MatchResult", issued)>>
  /\ UNCHANGED <<issued, ready, loaded>>

\* advanceServerFlow at the end of EndOfMatch.
Return ==
  /\ stage = "over"
  /\ BackToLobby(<<>>)

StreamNext ==
  \/ Join \/ Leave \/ IssueElsewhere \/ Refresh
  \/ \E desired \in BOOLEAN : SetReady(desired)
  \/ Form \/ FormInVain \/ CountLoaded \/ Start \/ StartInVain
  \/ Cancel \/ End \/ Return

StreamSpec == StreamInit /\ [][StreamNext]_streamVars
=============================================================================
