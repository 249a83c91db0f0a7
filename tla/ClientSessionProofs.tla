------------------------ MODULE ClientSessionProofs ------------------------
(***************************************************************************)
(* Proofs about ClientSession, for any numbers of matches and messages in  *)
(* flight: the types, NothingCarriesOver, SceneMatchesCache and Agreement. *)
(*                                                                         *)
(* The module first states the inductive invariant SessionInv in parts,    *)
(* then each step of Next by what it does (StepCases): an action of the    *)
(* model says what a handler does, a case what has changed, with the       *)
(* messages in flight compared one by one.  Most steps only touch one side *)
(* of one channel, so what a case leaves alone does most of the work: the  *)
(* sections that follow show where messages, caches and scenes of the next *)
(* state come from, and each then preserves one part of the invariant.     *)
(*                                                                         *)
(* The parts, and why they are needed:                                     *)
(*  - ConnInv: what can be in flight before there is a session;            *)
(*  - OrderInv: matches are announced in order, and a match whose level    *)
(*    the client has yet to show has not been acknowledged;                *)
(*  - CountedInv: once the server has counted an acknowledgement, no ready *)
(*    request of before is still on its way;                               *)
(*  - ReadyInv: a ready request in flight finds the lobby it was made in,  *)
(*    as the client makes another only when the last one has been echoed.  *)
(*    It holds until a request is repeated without its echo;               *)
(*  - ToldInv: the last message in flight, or else the client's cache,     *)
(*    says what the server is doing;                                       *)
(*  - RestInv: a client at rest has acted on its cache.                    *)
(***************************************************************************)
EXTENDS ClientSession, TLAPS

\* The types of what is in flight.
ClientMsgs ==
  [type : {"CONNECT", "DISCONNECT", "Welcome", "Reject", "LobbyState", "LevelInfo", "MatchStart",
           "MatchCancelled", "MatchResult"}, match : Nat, ready : BOOLEAN]
ServerMsgs == [type : {"Hello", "LobbyReady", "MatchLoaded"}, match : Nat, ready : BOOLEAN]

Typed == TypeOK /\ toClient \in Seq(ClientMsgs) /\ toServer \in Seq(ServerMsgs)

HasSession == state \in {"Connected", "Disconnecting"}

HelloOnly == Len(toServer) <= 1 /\ \A k \in 1 .. Len(toServer) : toServer[k].type = "Hello"
NotWelcomed == \A k \in 1 .. Len(toClient) : toClient[k].type # "Welcome"

\* The connection: without a session there is nothing cached, at most a Hello is on
\* its way to the server, and nothing of a match to the client.
ConnInv ==
  /\ link \in {"none", "syn"} => Len(toClient) = 0
  /\ link \notin {"up", "leaving"} => Len(toServer) = 0 /\ stage = "away"
  /\ link = "none" <=> state \in {"Disconnected", "Failed"}
  /\ ~HasSession =>
       /\ flow = NoFlow /\ lobby = NoLobby
       /\ ~ready /\ stage \in {"away", "lobby"}
       /\ HelloOnly
       /\ \A k \in 1 .. Len(toClient) :
            /\ toClient[k].type \in {"CONNECT", "DISCONNECT", "Welcome", "Reject", "LobbyState"}
            /\ ~toClient[k].ready
  /\ HasSession => \A k \in 1 .. Len(toServer) : toServer[k].type # "Hello"
  /\ stage = "away" => HelloOnly
  /\ Len(toServer) > 0 /\ HelloOnly => state = "Handshaking" /\ stage = "away" /\ NotWelcomed
  /\ link = "up" /\ stage = "away" => state \in {"Connecting", "Handshaking"} /\ NotWelcomed
  /\ state = "Disconnecting" => link # "up"
  /\ link = "syn" => state = "Connecting"
  /\ state = "Connecting" => stage = "away" /\ NotWelcomed /\ Len(toServer) = 0

\* Each scene keeps what is its own only, and needs the session it polls.
SceneInv ==
  /\ scene \in {"lobby", "level"} => state \in {"Connected", "Disconnected"}
  /\ scene # "level" => level = NoLevel
  /\ scene = "level" => level.match # 0
  /\ scene # "lobby" => pendingReady = NoRequest

\* The server's side: who is ready or has loaded, and when.
StageInv ==
  /\ stage # "lobby" => ~ready
  /\ stage \in {"lobby", "away"} => ~loaded
  /\ stage \in {"playing", "over"} => loaded
  /\ stage \in {"loading", "playing", "over"} => issued > 0

NoLevelAfter(n) == \A k \in 1 .. Len(toClient) : k > n => toClient[k].type # "LevelInfo"
NoReadyAfter(n) == \A k \in 1 .. Len(toClient) : k > n => ~toClient[k].ready

Acks(k, m) == toServer[k].type = "MatchLoaded" /\ toServer[k].match = m

\* The client has not acknowledged m.
Unacked(m) ==
  /\ \A k \in 1 .. Len(toServer) : ~Acks(k, m)
  /\ ~(loaded /\ issued = m)
  /\ flow.start # m
  /\ \A k \in 1 .. Len(toClient) : ~(toClient[k].type = "MatchStart" /\ toClient[k].match = m)

\* Matches are announced, cached and shown in order; none is acknowledged before it
\* is shown, and so none has started that is still to be shown.
OrderInv ==
  /\ \A k \in 1 .. Len(toClient) :
       toClient[k].match <= issued /\ (toClient[k].ready => toClient[k].type = "LobbyState")
  /\ \A k \in 1 .. Len(toServer) : toServer[k].match <= issued
  /\ \A k \in 1 .. Len(toClient) : toClient[k].type = "LevelInfo" =>
       /\ toClient[k].match > flow.level /\ toClient[k].match > level.match
       /\ Unacked(toClient[k].match)
       /\ \A i \in 1 .. Len(toClient) : i < k /\ toClient[i].type = "LevelInfo" =>
            toClient[i].match < toClient[k].match
  /\ flow.level <= issued /\ level.match <= issued
  /\ flow.start \in {0, flow.level} /\ flow.result \in {0, flow.level}
  /\ flow.pending => flow.level > level.match /\ Unacked(flow.level) /\ lobby = NoLobby
  /\ scene = "level" /\ ~level.acked => Unacked(level.match)
  /\ level.started => level.acked

NoRequests == \A k \in 1 .. Len(toServer) : toServer[k].type # "LobbyReady"

\* The server has counted this client's acknowledgement of m.
Counted(m) ==
  \/ loaded /\ issued = m
  \/ flow.start = m
  \/ \E k \in 1 .. Len(toClient) : toClient[k].type = "MatchStart" /\ toClient[k].match = m
  \/ level.started

\* An acknowledgement comes after every request made in the lobby before it.
CountedInv ==
  scene = "level" =>
    /\ \A i, k \in 1 .. Len(toServer) : Acks(i, level.match) /\ i < k => toServer[k].type # "LobbyReady"
    /\ Counted(level.match) => NoRequests /\ (stage = "away" \/ (issued = level.match /\ ~ready))

\* A request to be ready is on its way; nobody is ready any more, and no match or
\* ready flag comes after the first n messages.
Wants(k) == toServer[k].type = "LobbyReady" /\ toServer[k].ready
NoWish == \A k \in 1 .. Len(toServer) : ~Wants(k)
QuietNow == ~ready /\ stage \in {"lobby", "away"}
Quiet(n) == QuietNow /\ NoReadyAfter(n) /\ NoLevelAfter(n)
Barren(n) == ~ready /\ NoWish /\ NoLevelAfter(n)

NotReady(k) == toClient[k].type = "LobbyState" /\ ~toClient[k].ready

\* An unready flag on its way, after the first j messages, is the end of it.
EndsQuietly(j) == \A k \in 1 .. Len(toClient) : k > j /\ NotReady(k) => Quiet(k)

\* A request is echoed before the next one: either its echo is still to come, after
\* the j-th message, or what the client has heard is what the server has.
Waits == pendingReady = "ready" /\ lobby # "ready" /\ scene = "lobby" /\ ~flow.pending
Echoed == EndsQuietly(0) /\ (lobby = "unready" => Quiet(0))
Echoing ==
  /\ Waits
  /\ \E j \in 1 .. Len(toClient) :
       /\ toClient[j].ready
       /\ \A k \in 1 .. Len(toClient) : k < j => ~toClient[k].ready /\ toClient[k].type # "LevelInfo"
       /\ EndsQuietly(j)

\* Until a request is repeated: who is ready has asked for it in this lobby, a
\* request finds its own lobby, and a match that is announced finds nobody ready.
AskedInv == ready => asked = issued /\ NoWish
WishInv ==
  \A k \in 1 .. Len(toServer) : Wants(k) =>
    /\ asked = issued /\ QuietNow /\ \A i \in 1 .. Len(toServer) : Wants(i) => i = k
    /\ state = "Connected" => Quiet(0) /\ Waits
EchoInv == state = "Connected" => Echoed \/ Echoing
LevelsInv == \A k \in 1 .. Len(toClient) : toClient[k].type = "LevelInfo" => Barren(k)
MatchInv == (flow.pending \/ scene = "level" => Barren(0)) /\ SceneMatchesCache

ReadyInv == ~retried => AskedInv /\ WishInv /\ EchoInv /\ LevelsInv /\ MatchInv

\* The client has a seat and a connection over which it hears everything.
Told == link = "up" /\ state \in {"Handshaking", "Connected"} /\ stage # "away"
InRound == stage \in {"loading", "playing", "over"}

\* The message, the only or the last one in flight, that tells the client.
Says(k, type) == toClient[k].type = type /\ toClient[k].match = issued

\* What the client of each stage is told last, or has been told.
LobbyTold ==
  stage = "lobby" =>
    IF Len(toClient) = 0 THEN lobby = FlagOf(ready)
    ELSE toClient[Len(toClient)].type = "LobbyState" /\ toClient[Len(toClient)].ready = ready
LevelTold ==
  stage = "loading" /\ ~loaded =>
    IF Len(toClient) = 0 THEN flow.level = issued /\ lobby = NoLobby
    ELSE Says(Len(toClient), "LevelInfo")
RoundTold ==
  /\ loaded => flow.level = issued /\ lobby = NoLobby /\ ~flow.pending
  /\ stage = "loading" /\ loaded => Len(toClient) = 0
  /\ stage = "playing" =>
       \/ Len(toClient) = 0 /\ flow.start = issued
       \/ Len(toClient) = 1 /\ Says(1, "MatchStart")
  /\ stage = "over" =>
       \/ Len(toClient) = 0 /\ flow.start = issued /\ flow.result = issued
       \/ Len(toClient) = 1 /\ flow.start = issued /\ Says(1, "MatchResult")
       \/ Len(toClient) = 2 /\ Says(1, "MatchStart") /\ Says(2, "MatchResult")
NotCancelled ==
  InRound =>
    /\ state = "Connected" /\ flow.cancelled < issued
    /\ \A k \in 1 .. Len(toClient) : toClient[k].type = "MatchCancelled" => toClient[k].match < issued
\* Who has been told of the match plays it, unless its deadline passed, and has said so.
PlaysOn == InRound /\ flow.level = issued /\ ~flow.pending => Plays(issued) \/ gaveUp = issued
AckSent ==
  Plays(issued) /\ stage = "loading" /\ level.acked =>
    loaded \/ \E k \in 1 .. Len(toServer) : Acks(k, issued)

ToldInv ==
  /\ flow.cancelled <= issued
  /\ scene = "level" /\ flow.level # 0 /\ ~flow.pending => flow.level = level.match
  /\ Told => LobbyTold /\ LevelTold /\ RoundTold /\ NotCancelled /\ PlaysOn /\ AckSent

\* The last fixed step found nothing to do, and nothing has been pumped since.
RestInv ==
  atRest /\ state = "Connected" =>
    /\ scene = "lobby" => ~flow.pending
    /\ scene = "level" =>
         /\ lobby = NoLobby
         /\ link = "up" => level.acked
         /\ ~level.started => flow.start # level.match
         /\ flow.result = level.match => level.over

-----------------------------------------------------------------------------
(* Sequences, message by message. *)

\* What is left of a queue when its first message is taken.
LEMMA OneLess ==
  ASSUME NEW M, NEW s \in Seq(M), s # <<>>, NEW t, t = Tail(s)
  PROVE  /\ t \in Seq(M) /\ Len(t) = Len(s) - 1 /\ Len(s) \in Nat /\ Len(s) > 0 /\ Head(s) = s[1]
         /\ \A k \in 1 .. Len(t) : t[k] = s[k + 1]
  OBVIOUS

\* To append a message is to join a queue of one.
LEMMA Appending == ASSUME NEW M, NEW s \in Seq(M), NEW a \in M PROVE Append(s, a) = s \o <<a>>
  <1>1. s \o <<a>> \in Seq(M) /\ Append(s, a) \in Seq(M)
    OBVIOUS
  <1>2. Len(s \o <<a>>) = Len(Append(s, a))
    OBVIOUS
  <1>3. \A k \in 1 .. Len(s) + 1 : (s \o <<a>>)[k] = Append(s, a)[k]
    OBVIOUS
  <1>. QED BY <1>1, <1>2, <1>3

\* Two messages appended in turn.
LEMMA AppendTwo ==
  ASSUME NEW M, NEW s \in Seq(M), NEW a \in M, NEW b \in M
  PROVE  Append(s, a) \o <<b>> = s \o <<a, b>>
  <1> DEFINE l == Append(s, a) \o <<b>>
             r == s \o <<a, b>>
  <1>1. l \in Seq(M) /\ r \in Seq(M) /\ Len(l) = Len(s) + 2 /\ Len(r) = Len(s) + 2
    OBVIOUS
  <1>2. \A k \in 1 .. Len(s) + 2 : l[k] = r[k]
    <2> SUFFICES ASSUME NEW k \in 1 .. Len(s) + 2 PROVE l[k] = r[k]
      OBVIOUS
    <2>1. CASE k \in 1 .. Len(s)
      BY <2>1
    <2>2. CASE k = Len(s) + 1
      BY <2>2
    <2>3. CASE k = Len(s) + 2
      BY <2>3
    <2>. QED BY <2>1, <2>2, <2>3
  <1> HIDE DEF l, r
  <1>3. l = r
    BY <1>1, <1>2
  <1>. QED BY <1>3 DEF l, r

\* The messages of a batch as they go on the wire.
LobbyMsg(r) == [type |-> "LobbyState", match |-> 0, ready |-> r]
RoundMsg(type, m) == [type |-> type, match |-> m, ready |-> FALSE]

\* One message as it goes on the wire.
OnWire(msg, r) == [type |-> msg.type, match |-> msg.match, ready |-> msg = LobbyStateMsg /\ r]

\* A batch of one on the wire.
LEMMA WireOne == ASSUME NEW a, NEW r PROVE Wire(<<a>>, r) = <<OnWire(a, r)>>
  <1> DEFINE w == Wire(<<a>>, r)
  <1>1. w = [i \in 1 .. 1 |-> OnWire(<<a>>[i], r)]
    BY DEF Wire, OnWire
  <1> HIDE DEF w
  <1>. QED BY <1>1 DEF w

\* A batch of two on the wire.
LEMMA WireTwo == ASSUME NEW a, NEW b, NEW r PROVE Wire(<<a, b>>, r) = <<OnWire(a, r), OnWire(b, r)>>
  <1> DEFINE w == Wire(<<a, b>>, r)
  <1>1. w = [i \in 1 .. 2 |-> OnWire(<<a, b>>[i], r)]
    BY DEF Wire, OnWire
  <1> HIDE DEF w
  <1>. QED BY <1>1 DEF w

\* A batch of three on the wire.
LEMMA WireThree ==
  ASSUME NEW a, NEW b, NEW c, NEW r
  PROVE  Wire(<<a, b, c>>, r) = <<OnWire(a, r), OnWire(b, r), OnWire(c, r)>>
  <1> DEFINE w == Wire(<<a, b, c>>, r)
  <1>1. w = [i \in 1 .. 3 |-> OnWire(<<a, b, c>>[i], r)]
    BY DEF Wire, OnWire
  <1> HIDE DEF w
  <1>. QED BY <1>1 DEF w

\* The abstract messages on the wire.
LEMMA WireMsgs ==
  ASSUME NEW r \in BOOLEAN
  PROVE  /\ OnWire(LobbyStateMsg, r) = LobbyMsg(r)
         /\ \A type \in {"LevelInfo", "MatchStart", "MatchCancelled", "MatchResult"} : \A m :
              OnWire(Msg(type, m), r) = RoundMsg(type, m)
  <1>1. \A type, m : Msg(type, m).type = type /\ Msg(type, m).match = m
    BY DEF Msg
  <1>2. LobbyStateMsg.type = "LobbyState" /\ LobbyStateMsg.match = 0
    BY <1>1 DEF LobbyStateMsg
  <1>. QED BY <1>1, <1>2 DEF OnWire, LobbyMsg, RoundMsg

-----------------------------------------------------------------------------
(* What each step does to the messages in flight. *)

SaysOne(a) ==
  /\ Len(toClient') = Len(toClient) + 1 /\ toClient'[Len(toClient) + 1] = a
  /\ \A k \in 1 .. Len(toClient) : toClient'[k] = toClient[k]
SaysTwo(a, b) ==
  /\ Len(toClient') = Len(toClient) + 2
  /\ toClient'[Len(toClient) + 1] = a /\ toClient'[Len(toClient) + 2] = b
  /\ \A k \in 1 .. Len(toClient) : toClient'[k] = toClient[k]
SaysThree(a, b, c) ==
  /\ Len(toClient') = Len(toClient) + 3
  /\ toClient'[Len(toClient) + 1] = a /\ toClient'[Len(toClient) + 2] = b
  /\ toClient'[Len(toClient) + 3] = c
  /\ \A k \in 1 .. Len(toClient) : toClient'[k] = toClient[k]

\* The client takes the first message, the server its first.
Takes ==
  /\ Len(toClient) > 0 /\ Len(toClient') = Len(toClient) - 1
  /\ \A k \in 1 .. Len(toClient') : toClient'[k] = toClient[k + 1]
Reads ==
  /\ Len(toServer) > 0 /\ Len(toServer') = Len(toServer) - 1
  /\ \A k \in 1 .. Len(toServer') : toServer'[k] = toServer[k + 1]
Asks(a) ==
  /\ Len(toServer') = Len(toServer) + 1 /\ toServer'[Len(toServer) + 1] = a
  /\ \A k \in 1 .. Len(toServer) : toServer'[k] = toServer[k]

\* One message sent is the queue's last.
LEMMA SaysOneSent ==
  ASSUME Typed, NEW a \in ClientMsgs, toClient' = toClient \o <<a>>
  PROVE  SaysOne(a) /\ toClient' \in Seq(ClientMsgs)
  <1>1. toClient \in Seq(ClientMsgs)
    BY DEF Typed
  <1>. QED BY <1>1 DEF SaysOne

\* Two messages sent are the queue's last.
LEMMA SaysTwoSent ==
  ASSUME Typed, NEW a \in ClientMsgs, NEW b \in ClientMsgs, toClient' = toClient \o <<a, b>>
  PROVE  SaysTwo(a, b) /\ toClient' \in Seq(ClientMsgs)
  <1>1. toClient \in Seq(ClientMsgs)
    BY DEF Typed
  <1>. QED BY <1>1 DEF SaysTwo

\* Three messages sent are the queue's last.
LEMMA SaysThreeSent ==
  ASSUME Typed, NEW a \in ClientMsgs, NEW b \in ClientMsgs, NEW c \in ClientMsgs,
         toClient' = toClient \o <<a, b, c>>
  PROVE  SaysThree(a, b, c) /\ toClient' \in Seq(ClientMsgs)
  <1>1. toClient \in Seq(ClientMsgs)
    BY DEF Typed
  <1>. QED BY <1>1 DEF SaysThree

\* The client takes the first message.
LEMMA TakesTail ==
  ASSUME Typed, toClient # <<>>, toClient' = Tail(toClient)
  PROVE  Takes /\ toClient' \in Seq(ClientMsgs) /\ Head(toClient) = toClient[1]
  <1>1. toClient \in Seq(ClientMsgs)
    BY DEF Typed
  <1>. QED BY <1>1, OneLess, Zenon DEF Takes

\* The server reads the first message.
LEMMA ReadsTail ==
  ASSUME Typed, toServer # <<>>, toServer' = Tail(toServer)
  PROVE  Reads /\ toServer' \in Seq(ServerMsgs) /\ Head(toServer) = toServer[1]
  <1>1. toServer \in Seq(ServerMsgs)
    BY DEF Typed
  <1>. QED BY <1>1, OneLess, Zenon DEF Reads

\* What the client sends is the queue's last.
LEMMA AsksMore ==
  ASSUME Typed, NEW a \in ServerMsgs, toServer' = Append(toServer, a)
  PROVE  Asks(a) /\ toServer' \in Seq(ServerMsgs)
  <1>1. toServer \in Seq(ServerMsgs)
    BY DEF Typed
  <1>. QED BY <1>1 DEF Asks

-----------------------------------------------------------------------------
(* The server's steps, by what they say. *)

Refreshes ==
  /\ stage = "lobby" /\ UNCHANGED <<stage, issued, loaded, toServer>>
  /\ ready' \in {ready, FALSE} /\ SaysOne(LobbyMsg(ready'))
Forms ==
  /\ stage = "lobby" /\ ready /\ stage' = "loading" /\ issued' = issued + 1
  /\ ready' = FALSE /\ loaded' = FALSE /\ UNCHANGED toServer
  /\ SaysOne(RoundMsg("LevelInfo", issued + 1))
FormsInVain ==
  /\ stage = "lobby" /\ ready /\ issued' = issued + 1 /\ ready' = FALSE
  /\ UNCHANGED <<stage, loaded, toServer>>
  /\ SaysThree(RoundMsg("LevelInfo", issued + 1), RoundMsg("MatchCancelled", issued + 1), LobbyMsg(FALSE))
Cancels ==
  /\ stage = "loading" /\ stage' = "lobby" /\ ready' = FALSE /\ loaded' = FALSE
  /\ UNCHANGED <<issued, toServer>>
  /\ SaysTwo(RoundMsg("MatchCancelled", issued), LobbyMsg(FALSE))
Ends ==
  /\ stage = "playing" /\ stage' = "over" /\ UNCHANGED <<issued, ready, loaded, toServer>>
  /\ SaysOne(RoundMsg("MatchResult", issued))
Returns ==
  /\ stage = "over" /\ stage' = "lobby" /\ ready' = FALSE /\ loaded' = FALSE
  /\ UNCHANGED <<issued, toServer>>
  /\ SaysOne(LobbyMsg(FALSE))

\* The server has every acknowledgement: it had this client's, or reads it now.
AllLoaded ==
  /\ stage = "loading"
  /\ \/ loaded /\ UNCHANGED toServer
     \/ ~loaded /\ Reads /\ Acks(1, issued)
Starts ==
  /\ AllLoaded /\ stage' = "playing" /\ loaded' = TRUE /\ UNCHANGED <<issued, ready>>
  /\ SaysOne(RoundMsg("MatchStart", issued))
StartsInVain ==
  /\ AllLoaded /\ stage' = "lobby" /\ ready' = FALSE /\ loaded' = FALSE /\ UNCHANGED issued
  /\ SaysThree(RoundMsg("MatchStart", issued), RoundMsg("MatchCancelled", issued), LobbyMsg(FALSE))
Readies ==
  /\ Reads /\ toServer[1].type = "LobbyReady" /\ stage = "lobby" /\ ready # toServer[1].ready
  /\ ready' = toServer[1].ready /\ UNCHANGED <<stage, issued, loaded>>
  /\ SaysOne(LobbyMsg(ready'))
CountsOne ==
  /\ Reads /\ Acks(1, issued) /\ stage = "loading" /\ ~loaded /\ loaded' = TRUE
  /\ UNCHANGED <<stage, issued, ready, toClient>>
Ignores ==
  /\ Reads /\ toServer[1].type \in {"LobbyReady", "MatchLoaded"}
  /\ stage = "loading" /\ ~loaded => ~Acks(1, issued)
  /\ UNCHANGED <<stage, issued, ready, loaded, toClient>>

ServerSteps ==
  \/ Refreshes \/ Forms \/ FormsInVain \/ Cancels \/ Ends \/ Returns
  \/ Starts \/ StartsInVain \/ Readies \/ CountsOne \/ Ignores

ClientIdle == UNCHANGED <<sessionVars, sceneVars, atRest, historyVars>>

\* Whatever is sent is a message of its kind.
LEMMA MsgTypes ==
  /\ \A r \in BOOLEAN : LobbyMsg(r) \in ClientMsgs
  /\ \A type \in {"LevelInfo", "MatchStart", "MatchCancelled", "MatchResult"} : \A m \in Nat :
       RoundMsg(type, m) \in ClientMsgs /\ Msg(type, m) \in StreamMsgs
  /\ LobbyStateMsg \in StreamMsgs
  BY DEF LobbyMsg, RoundMsg, ClientMsgs, StreamMsgs, Msg

\* The batches of the server's handlers, sent.
LEMMA SendsOne ==
  ASSUME Typed, ready' \in BOOLEAN, SendsBatch, NEW msg \in StreamMsgs, batch' = <<msg>>,
         OnWire(msg, ready') \in ClientMsgs
  PROVE  /\ SaysOne(OnWire(msg, ready')) /\ toClient' \in Seq(ClientMsgs)
         /\ batch' \in Seq(StreamMsgs)
  <1>1. toClient' = toClient \o <<OnWire(msg, ready')>>
    BY WireOne DEF SendsBatch
  <1>. QED BY <1>1, SaysOneSent

\* The server sends a batch of two.
LEMMA SendsTwo ==
  ASSUME Typed, ready' \in BOOLEAN, SendsBatch, NEW a \in StreamMsgs, NEW b \in StreamMsgs,
         batch' = <<a, b>>, OnWire(a, ready') \in ClientMsgs, OnWire(b, ready') \in ClientMsgs
  PROVE  /\ SaysTwo(OnWire(a, ready'), OnWire(b, ready')) /\ toClient' \in Seq(ClientMsgs)
         /\ batch' \in Seq(StreamMsgs)
  <1>1. toClient' = toClient \o <<OnWire(a, ready'), OnWire(b, ready')>>
    BY WireTwo DEF SendsBatch
  <1>2. batch' \in Seq(StreamMsgs)
    OBVIOUS
  <1>. QED BY <1>1, <1>2, SaysTwoSent

\* The server sends a batch of three.
LEMMA SendsThree ==
  ASSUME Typed, ready' \in BOOLEAN, SendsBatch, NEW a \in StreamMsgs, NEW b \in StreamMsgs,
         NEW c \in StreamMsgs, batch' = <<a, b, c>>,
         OnWire(a, ready') \in ClientMsgs, OnWire(b, ready') \in ClientMsgs, OnWire(c, ready') \in ClientMsgs
  PROVE  /\ SaysThree(OnWire(a, ready'), OnWire(b, ready'), OnWire(c, ready'))
         /\ toClient' \in Seq(ClientMsgs)
         /\ batch' \in Seq(StreamMsgs)
  <1>1. toClient' = toClient \o <<OnWire(a, ready'), OnWire(b, ready'), OnWire(c, ready')>>
    <2>1. \A r : Wire(<<a, b, c>>, r) = <<OnWire(a, r), OnWire(b, r), OnWire(c, r)>>
      BY WireThree
    <2> DEFINE W(r) == <<OnWire(a, r), OnWire(b, r), OnWire(c, r)>>
    <2>2. Wire(batch', ready') = W(ready')
      BY <2>1
    <2>. QED BY <2>2 DEF SendsBatch
  <1>2. batch' \in Seq(StreamMsgs)
    OBVIOUS
  <1>. QED BY <1>1, <1>2, SaysThreeSent

StreamTyped ==
  /\ stage \in Stages /\ issued \in Nat /\ ready \in BOOLEAN /\ loaded \in BOOLEAN
  /\ batch \in Seq(StreamMsgs) /\ toClient \in Seq(ClientMsgs)

\* The server's part of the types.
LEMMA TypedStream == ASSUME Typed PROVE StreamTyped
  BY DEF Typed, TypeOK, StreamTyped

\* A second message appended to a batch.
LEMMA AppendOne ==
  ASSUME NEW a \in StreamMsgs, NEW b \in StreamMsgs PROVE Append(<<a>>, b) = <<a, b>>
  <1> DEFINE l == Append(<<a>>, b)
             r == <<a, b>>
  <1>1. l \in Seq(StreamMsgs) /\ r \in Seq(StreamMsgs) /\ Len(l) = 2 /\ Len(r) = 2
    OBVIOUS
  <1>2. l[1] = r[1] /\ l[2] = r[2]
    OBVIOUS
  <1> HIDE DEF l, r
  <1>3. l = r
    BY <1>1, <1>2
  <1>. QED BY <1>3 DEF l, r

\* A third message appended to a batch.
LEMMA AppendThird ==
  ASSUME NEW a \in StreamMsgs, NEW b \in StreamMsgs, NEW c \in StreamMsgs
  PROVE  Append(<<a, b>>, c) = <<a, b, c>>
  <1> DEFINE l == Append(<<a, b>>, c)
             r == <<a, b, c>>
  <1>1. l \in Seq(StreamMsgs) /\ r \in Seq(StreamMsgs) /\ Len(l) = 3 /\ Len(r) = 3
    OBVIOUS
  <1>2. l[1] = r[1] /\ l[2] = r[2] /\ l[3] = r[3]
    OBVIOUS
  <1> HIDE DEF l, r
  <1>3. l = r
    BY <1>1, <1>2
  <1>. QED BY <1>3 DEF l, r

\* The server repeats the lobby's state.
LEMMA RefreshSays ==
  ASSUME Typed, Refresh, SendsBatch, UNCHANGED toServer
  PROVE  Refreshes /\ StreamTyped'
  <1>1. StreamTyped
    BY TypedStream
  <1>2. ready' \in BOOLEAN /\ batch' = <<LobbyStateMsg>>
    BY <1>1 DEF Refresh, StreamTyped
  <1>3. SaysOne(LobbyMsg(ready')) /\ toClient' \in Seq(ClientMsgs) /\ batch' \in Seq(StreamMsgs)
    BY <1>2, SendsOne, WireMsgs, MsgTypes
  <1>. QED BY <1>1, <1>2, <1>3 DEF Refresh, StreamTyped, Refreshes

\* The server answers a ready request with the lobby's state.
LEMMA SetReadySays ==
  ASSUME Typed, SetReady(toServer[1].ready), SendsBatch, Reads, toServer[1].type = "LobbyReady",
         toServer[1].ready \in BOOLEAN
  PROVE  Readies /\ StreamTyped'
  <1>1. StreamTyped
    BY TypedStream
  <1>2. ready' \in BOOLEAN /\ batch' = <<LobbyStateMsg>>
    BY <1>1 DEF SetReady, StreamTyped
  <1>3. SaysOne(LobbyMsg(ready')) /\ toClient' \in Seq(ClientMsgs) /\ batch' \in Seq(StreamMsgs)
    BY <1>2, SendsOne, WireMsgs, MsgTypes
  <1>. QED BY <1>1, <1>2, <1>3 DEF SetReady, StreamTyped, Readies

\* The server forms a match.
LEMMA FormSays ==
  ASSUME Typed, Form, SendsBatch, UNCHANGED toServer
  PROVE  Forms /\ StreamTyped'
  <1>1. StreamTyped
    BY TypedStream
  <1>2. /\ ready' \in BOOLEAN /\ batch' = <<Msg("LevelInfo", issued + 1)>> /\ issued + 1 \in Nat
        /\ stage' = "loading"
    <2>1. issued + 1 \in Nat
      BY <1>1 DEF StreamTyped
    <2>. QED BY <2>1, Zenon DEF Form
  <1>3. /\ SaysOne(RoundMsg("LevelInfo", issued + 1)) /\ toClient' \in Seq(ClientMsgs)
        /\ batch' \in Seq(StreamMsgs)
    BY <1>2, SendsOne, WireMsgs, MsgTypes
  <1>. QED BY <1>1, <1>2, <1>3 DEF Form, StreamTyped, Forms, Stages

\* The server ends a match.
LEMMA EndSays ==
  ASSUME Typed, End, SendsBatch, UNCHANGED toServer
  PROVE  Ends /\ StreamTyped'
  <1>1. StreamTyped
    BY TypedStream
  <1>2. ready' \in BOOLEAN /\ batch' = <<Msg("MatchResult", issued)>> /\ issued \in Nat
    BY <1>1 DEF End, StreamTyped
  <1>3. /\ SaysOne(RoundMsg("MatchResult", issued)) /\ toClient' \in Seq(ClientMsgs)
        /\ batch' \in Seq(StreamMsgs)
    BY <1>2, SendsOne, WireMsgs, MsgTypes
  <1>. QED BY <1>1, <1>2, <1>3 DEF End, StreamTyped, Ends, Stages

\* The server starts a match.
LEMMA StartSays ==
  ASSUME Typed, Start, SendsBatch, AllLoaded
  PROVE  Starts /\ StreamTyped'
  <1>1. StreamTyped
    BY TypedStream
  <1>2. ready' \in BOOLEAN /\ batch' = <<Msg("MatchStart", issued)>> /\ issued \in Nat
    BY <1>1 DEF Start, StreamTyped
  <1>3. /\ SaysOne(RoundMsg("MatchStart", issued)) /\ toClient' \in Seq(ClientMsgs)
        /\ batch' \in Seq(StreamMsgs)
    BY <1>2, SendsOne, WireMsgs, MsgTypes
  <1>. QED BY <1>1, <1>2, <1>3 DEF Start, StreamTyped, Starts, Stages

\* The server returns to the lobby.
LEMMA ReturnSays ==
  ASSUME Typed, Return, SendsBatch, UNCHANGED toServer
  PROVE  Returns /\ StreamTyped'
  <1>1. StreamTyped
    BY TypedStream
  <1>2. ready' = FALSE /\ batch' = <<LobbyStateMsg>>
    BY <1>1 DEF Return, BackToLobby
  <1>3. SaysOne(LobbyMsg(FALSE)) /\ toClient' \in Seq(ClientMsgs) /\ batch' \in Seq(StreamMsgs)
    BY <1>2, SendsOne, WireMsgs, MsgTypes
  <1>. QED BY <1>1, <1>2, <1>3 DEF Return, BackToLobby, StreamTyped, Returns, Stages

\* The server cancels a match.
LEMMA CancelSays ==
  ASSUME Typed, Cancel, SendsBatch, UNCHANGED toServer
  PROVE  Cancels /\ StreamTyped'
  <1>1. StreamTyped
    BY TypedStream
  <1>2. /\ ready' = FALSE /\ batch' = <<Msg("MatchCancelled", issued), LobbyStateMsg>>
        /\ issued \in Nat
    <2>1. issued \in Nat
      BY <1>1 DEF StreamTyped
    <2>2. Msg("MatchCancelled", issued) \in StreamMsgs /\ LobbyStateMsg \in StreamMsgs
      BY <2>1, MsgTypes
    <2>. QED BY <2>1, <2>2, AppendOne, Zenon DEF Cancel, BackToLobby
  <1>3. /\ SaysTwo(RoundMsg("MatchCancelled", issued), LobbyMsg(FALSE))
        /\ toClient' \in Seq(ClientMsgs) /\ batch' \in Seq(StreamMsgs)
    BY <1>2, SendsTwo, WireMsgs, MsgTypes, ZenonT(40)
  <1>. QED BY <1>1, <1>2, <1>3 DEF Cancel, BackToLobby, StreamTyped, Cancels, Stages

\* A message of a match, its cancellation and the lobby.
LEMMA SaysCancelled ==
  ASSUME Typed, ready' = FALSE, SendsBatch, NEW type \in {"LevelInfo", "MatchStart"}, NEW m \in Nat,
         batch' = <<Msg(type, m), Msg("MatchCancelled", m), LobbyStateMsg>>
  PROVE  /\ SaysThree(RoundMsg(type, m), RoundMsg("MatchCancelled", m), LobbyMsg(FALSE))
         /\ toClient' \in Seq(ClientMsgs) /\ batch' \in Seq(StreamMsgs)
  <1>1. /\ OnWire(Msg(type, m), ready') = RoundMsg(type, m)
        /\ OnWire(Msg("MatchCancelled", m), ready') = RoundMsg("MatchCancelled", m)
        /\ OnWire(LobbyStateMsg, ready') = LobbyMsg(FALSE)
    BY WireMsgs
  <1>2. /\ RoundMsg(type, m) \in ClientMsgs /\ RoundMsg("MatchCancelled", m) \in ClientMsgs
        /\ LobbyMsg(FALSE) \in ClientMsgs
        /\ Msg(type, m) \in StreamMsgs /\ Msg("MatchCancelled", m) \in StreamMsgs
        /\ LobbyStateMsg \in StreamMsgs /\ ready' \in BOOLEAN
    BY MsgTypes
  <1>. QED BY <1>1, <1>2, SendsThree

\* The server forms a match that is cancelled at once.
LEMMA FormInVainSays ==
  ASSUME Typed, FormInVain, SendsBatch, UNCHANGED toServer
  PROVE  FormsInVain /\ StreamTyped'
  <1>1. StreamTyped
    BY TypedStream
  <1>2. /\ ready' = FALSE /\ issued + 1 \in Nat
        /\ batch' = <<Msg("LevelInfo", issued + 1), Msg("MatchCancelled", issued + 1), LobbyStateMsg>>
    BY <1>1 DEF FormInVain, StreamTyped
  <1>3. /\ SaysThree(RoundMsg("LevelInfo", issued + 1), RoundMsg("MatchCancelled", issued + 1),
                     LobbyMsg(FALSE))
        /\ toClient' \in Seq(ClientMsgs) /\ batch' \in Seq(StreamMsgs)
    BY <1>2, SaysCancelled
  <1>. QED BY <1>1, <1>2, <1>3 DEF FormInVain, StreamTyped, FormsInVain, Stages

\* The server starts a match that is cancelled at once.
LEMMA StartInVainSays ==
  ASSUME Typed, StartInVain, SendsBatch, AllLoaded
  PROVE  StartsInVain /\ StreamTyped'
  <1>1. StreamTyped
    BY TypedStream
  <1>2. /\ ready' = FALSE /\ issued \in Nat
        /\ batch' = <<Msg("MatchStart", issued), Msg("MatchCancelled", issued), LobbyStateMsg>>
    <2>1. issued \in Nat
      BY <1>1 DEF StreamTyped
    <2>2. /\ Msg("MatchStart", issued) \in StreamMsgs /\ Msg("MatchCancelled", issued) \in StreamMsgs
          /\ LobbyStateMsg \in StreamMsgs
      BY <2>1, MsgTypes
    <2>. QED BY <2>1, <2>2, AppendThird, Zenon DEF StartInVain, BackToLobby
  <1>3. /\ SaysThree(RoundMsg("MatchStart", issued), RoundMsg("MatchCancelled", issued),
                     LobbyMsg(FALSE))
        /\ toClient' \in Seq(ClientMsgs) /\ batch' \in Seq(StreamMsgs)
    BY <1>2, SaysCancelled
  <1>. QED BY <1>1, <1>2, <1>3 DEF StartInVain, BackToLobby, StreamTyped, StartsInVain, Stages

\* Every step of the server's own is one of ServerSteps, and nothing of the client's.
LEMMA ServerCases ==
  ASSUME Typed, ServerActs \/ ServerReadsLobbyReady \/ ServerReadsMatchLoaded
  PROVE  ServerSteps /\ ClientIdle /\ UNCHANGED link /\ StreamTyped' /\ toServer' \in Seq(ServerMsgs)
  <1>1. StreamTyped /\ toServer \in Seq(ServerMsgs)
    BY TypedStream DEF Typed
  <1>2. CASE ServerActs
    <2>1. ClientIdle /\ UNCHANGED <<link, toServer>> /\ SendsBatch
      BY <1>2 DEF ServerActs, ClientIdle
    <2>2. \/ Refresh
          \/ End
          \/ Return
          \/ Cancel
          \/ Form
          \/ FormInVain
          \/ loaded /\ (Start \/ StartInVain)
      BY <1>2 DEF ServerActs
    <2>3. loaded /\ (Start \/ StartInVain) => AllLoaded
      BY <2>1 DEF AllLoaded, Start, StartInVain
    <2>4. ServerSteps /\ StreamTyped'
      BY <2>1, <2>2, <2>3, RefreshSays, EndSays, ReturnSays, CancelSays, FormSays, FormInVainSays,
         StartSays, StartInVainSays, Zenon DEF ServerSteps
    <2>. QED BY <2>1, <2>4, <1>1
  <1>3. CASE ServerReadsLobbyReady
    <2>1. /\ ClientIdle /\ UNCHANGED link /\ toServer # <<>> /\ toServer' = Tail(toServer)
          /\ Head(toServer).type = "LobbyReady"
      BY <1>3 DEF ServerReadsLobbyReady, ServerReads, ClientIdle
    <2>2. Reads /\ toServer' \in Seq(ServerMsgs) /\ Head(toServer) = toServer[1]
      BY <2>1, ReadsTail
    <2>3. toServer[1].ready \in BOOLEAN /\ toServer[1].type = "LobbyReady"
      <3>1. Len(toServer) > 0 /\ Len(toServer) \in Nat
        BY <1>1, <2>2 DEF Reads
      <3>2. toServer[1] \in ServerMsgs
        BY <1>1, <3>1
      <3>. QED BY <2>1, <2>2, <3>2 DEF ServerMsgs
    <2>4. CASE SetReady(toServer[1].ready) /\ SendsBatch
      BY <2>1, <2>2, <2>3, <2>4, SetReadySays DEF ServerSteps
    <2>5. CASE UNCHANGED <<streamVars, toClient>>
      <3>1. Ignores
        BY <2>2, <2>3, <2>5 DEF Ignores, Acks, streamVars
      <3>2. StreamTyped'
        BY <1>1, <2>5 DEF StreamTyped, streamVars
      <3>. QED BY <2>1, <2>2, <3>1, <3>2 DEF ServerSteps
    <2>. QED BY <1>3, <2>2, <2>4, <2>5 DEF ServerReadsLobbyReady
  <1>4. CASE ServerReadsMatchLoaded
    <2>1. /\ ClientIdle /\ UNCHANGED link /\ toServer # <<>> /\ toServer' = Tail(toServer)
          /\ Head(toServer).type = "MatchLoaded"
      BY <1>4 DEF ServerReadsMatchLoaded, ServerReads, ClientIdle
    <2>2. Reads /\ toServer' \in Seq(ServerMsgs) /\ Head(toServer) = toServer[1]
      BY <2>1, ReadsTail
    <2>3. CASE Counts(toServer[1].match)
      <3>1. stage = "loading" /\ ~loaded /\ Acks(1, issued)
        BY <2>1, <2>2, <2>3 DEF Counts, Acks
      <3>2. AllLoaded
        BY <3>1, <2>2 DEF AllLoaded
      <3>3. CASE CountLoaded /\ UNCHANGED toClient
        <4>1. CountsOne
          BY <2>2, <3>1, <3>3 DEF CountLoaded, CountsOne
        <4>2. StreamTyped'
          BY <1>1, <3>3 DEF StreamTyped, CountLoaded
        <4>. QED BY <2>1, <2>2, <4>1, <4>2 DEF ServerSteps
      <3>4. CASE (Start \/ StartInVain) /\ SendsBatch
        BY <2>1, <2>2, <3>2, <3>4, StartSays, StartInVainSays, Zenon DEF ServerSteps
      <3>. QED BY <1>4, <2>2, <2>3, <3>3, <3>4 DEF ServerReadsMatchLoaded
    <2>4. CASE ~Counts(toServer[1].match)
      <3>1. UNCHANGED <<streamVars, toClient>>
        BY <1>4, <2>2, <2>4 DEF ServerReadsMatchLoaded
      <3>2. Ignores
        BY <2>1, <2>2, <2>4, <3>1 DEF Ignores, Acks, streamVars, Counts
      <3>3. StreamTyped'
        BY <1>1, <3>1 DEF StreamTyped, streamVars
      <3>. QED BY <2>1, <2>2, <3>2, <3>3 DEF ServerSteps
    <2>. QED BY <2>3, <2>4
  <1>. QED BY <1>2, <1>3, <1>4

-----------------------------------------------------------------------------
(* Every other step, by what it does. *)

SameStream == UNCHANGED <<stage, issued, ready, loaded>>
Gone == stage' = "away" /\ ready' = FALSE /\ loaded' = FALSE /\ UNCHANGED issued
SameScene == UNCHANGED sceneVars
SameHistory == UNCHANGED <<gaveUp, asked, retried>>
SameLink == SameStream /\ UNCHANGED <<link, toClient>>

ServerMoves == ServerSteps /\ ClientIdle /\ UNCHANGED link
Elsewhere ==
  /\ stage = "away" /\ issued' = issued + 1
  /\ UNCHANGED <<stage, ready, loaded, link, toClient, toServer>> /\ ClientIdle
Joins ==
  /\ Reads /\ toServer[1].type = "Hello"
  /\ stage = "away" /\ stage' = "lobby" /\ ready' = FALSE /\ loaded' = FALSE
  /\ UNCHANGED <<issued, link>> /\ SaysTwo(Event("Welcome"), LobbyMsg(FALSE)) /\ ClientIdle
Rejects ==
  /\ Reads /\ toServer[1].type = "Hello"
  /\ link' = "down" /\ SaysOne(Event("Reject")) /\ SameStream /\ ClientIdle
LinksUp ==
  /\ link = "syn" /\ link' = "up" /\ SaysOne(Event("CONNECT")) /\ SameStream
  /\ UNCHANGED toServer /\ ClientIdle
LetsGo ==
  /\ link = "up" /\ link' = "down" /\ Gone
  /\ toServer' = <<>> /\ UNCHANGED toClient /\ ClientIdle

\* The first n messages are still handed out.
CutsTo(n) ==
  /\ Len(toClient') = n + 1 /\ toClient'[n + 1] = Event("DISCONNECT")
  /\ \A k \in 1 .. n : toClient'[k] = toClient[k]
Loses ==
  /\ link # "none" /\ link' = "lost" /\ Gone /\ toServer' = <<>> /\ ClientIdle
  /\ \E n \in 0 .. Len(toClient) : CutsTo(n)

Drops ==
  /\ link' = "none" /\ Gone /\ toClient' = <<>> /\ toServer' = <<>>
  /\ flow' = NoFlow /\ lobby' = NoLobby
  /\ state' = "Disconnected" \/ (state' = "Failed" /\ state \in {"Connecting", "Handshaking"})
  /\ SameScene \/ Show("menu")
  /\ SameHistory

\* A message of a type is handled.
Gets(type) ==
  /\ Takes /\ toClient[1].type = type
  /\ SameStream /\ UNCHANGED link /\ SameScene /\ SameHistory /\ atRest' = FALSE
Connects ==
  /\ Gets("CONNECT") /\ state = "Connecting" /\ state' = "Handshaking"
  /\ UNCHANGED <<flow, lobby>>
  /\ (link = "up" /\ Asks(Hello)) \/ (link # "up" /\ UNCHANGED toServer)
Welcomed ==
  /\ Gets("Welcome") /\ state = "Handshaking" /\ state' = "Connected"
  /\ UNCHANGED <<flow, lobby, toServer>>
InSession(type) == Gets(type) /\ state = "Connected" /\ UNCHANGED <<state, toServer>>
GetsNews ==
  /\ InSession("LevelInfo") /\ NewsOfMatch(toClient[1].match)
  /\ BeginBootstrap(toClient[1].match) /\ lobby' = NoLobby
GetsOldLevel ==
  /\ InSession("LevelInfo") /\ ~NewsOfMatch(toClient[1].match) /\ UNCHANGED <<flow, lobby>>
GetsLobby ==
  /\ InSession("LobbyState") /\ lobby' = FlagOf(toClient[1].ready)
  /\ flow' = IF flow.level # 0 THEN NoFlow ELSE flow
GetsStart ==
  /\ InSession("MatchStart") /\ UNCHANGED lobby
  /\ flow' = IF StartsMatch(toClient[1].match) THEN [flow EXCEPT !.start = toClient[1].match]
             ELSE flow
GetsCancelled ==
  /\ InSession("MatchCancelled") /\ UNCHANGED lobby
  /\ flow' = IF flow.cancelled # 0 /\ toClient[1].match <= flow.cancelled THEN flow
             ELSE [IF flow.level = toClient[1].match THEN NoFlow ELSE flow
                     EXCEPT !.cancelled = toClient[1].match]
GetsResult ==
  /\ InSession("MatchResult") /\ UNCHANGED lobby
  /\ flow' = IF flow.level = toClient[1].match /\ flow.result < toClient[1].match
             THEN [flow EXCEPT !.result = toClient[1].match] ELSE flow
Discards ==
  /\ \E type \in {"LobbyState", "LevelInfo", "MatchStart", "MatchCancelled", "MatchResult"} : Gets(type)
  /\ state = "Disconnecting" /\ UNCHANGED <<sessionVars, toServer>>

Opens ==
  /\ scene = "menu" /\ Show("connect") /\ SameLink /\ UNCHANGED <<toServer, sessionVars>> /\ SameHistory
Begins ==
  /\ scene = "connect" /\ state \in {"Disconnected", "Failed"}
  /\ (state' = "Connecting" /\ link' = "syn") \/ (state' = "Failed" /\ UNCHANGED link)
  /\ flow' = NoFlow /\ lobby' = NoLobby
  /\ gaveUp' = 0 /\ asked' = -1 /\ retried' = FALSE
  /\ SameStream /\ UNCHANGED <<toClient, toServer>> /\ SameScene
ToMenu ==
  /\ scene \in {"lobby", "level"} => state # "Connected"
  /\ Show("menu") /\ SameLink /\ UNCHANGED <<toServer, sessionVars>> /\ SameHistory
Leaves ==
  /\ scene \in {"lobby", "level"} /\ state = "Connected" /\ state' = "Disconnecting"
  /\ link' = IF link \in {"up", "down"} THEN "leaving" ELSE link
  /\ Show("menu") /\ SameStream /\ UNCHANGED <<toClient, toServer, flow, lobby>> /\ SameHistory

\* What the client sends goes on its way as long as the link is up.
Sent(msg) == (link = "up" /\ Asks(msg)) \/ (link # "up" /\ UNCHANGED toServer)
Presses(desired) ==
  /\ scene = "lobby" /\ state = "Connected" /\ MayRequest
  /\ desired = (lobby = "unready") /\ Sent(LobbyReady(desired))
  /\ pendingReady' = FlagOf(desired)
  /\ asked' = IF desired THEN issued ELSE asked
  /\ SameLink /\ UNCHANGED <<sessionVars, scene, level, atRest, gaveUp, retried>>

OpensLobby ==
  /\ scene = "connect" /\ state = "Connected" /\ Show("lobby")
  /\ SameLink /\ UNCHANGED <<sessionVars, toServer>> /\ SameHistory
EntersLevel ==
  /\ scene = "lobby" /\ state = "Connected" /\ flow.pending
  /\ flow' = [flow EXCEPT !.pending = FALSE]
  /\ scene' = "level" /\ pendingReady' = NoRequest
  /\ level' = [NoLevel EXCEPT !.match = flow.level]
  /\ SameLink /\ UNCHANGED <<state, lobby, toServer>> /\ SameHistory
Syncs(timedOut) ==
  LET waiting == pendingReady # NoRequest /\ lobby # NoLobby IN
  /\ scene = "lobby" /\ state = "Connected" /\ ~flow.pending
  /\ timedOut => waiting
  /\ pendingReady' = IF waiting /\ (timedOut \/ lobby = pendingReady) THEN NoRequest ELSE pendingReady
  /\ retried' = (retried \/ timedOut)
  /\ SameLink /\ UNCHANGED <<sessionVars, toServer, scene, level, gaveUp, asked>>

\* A step of the level scene: it acknowledges the level first.
Acking == ~level.started /\ ~level.acked
Acknowledges ==
  \/ Acking /\ Sent(MatchLoaded(level.match))
  \/ ~Acking /\ UNCHANGED toServer
InLevel ==
  /\ scene = "level" /\ state = "Connected" /\ Acknowledges
  /\ SameLink /\ UNCHANGED <<sessionVars, asked, retried>>
LeavesLevel(timedOut) ==
  LET cancelled == ~level.started /\ flow.cancelled = level.match IN
  /\ InLevel /\ LevelEnds(cancelled, timedOut) /\ Show("lobby")
  /\ timedOut => ~level.started /\ ~cancelled
  /\ gaveUp' = IF timedOut THEN level.match ELSE gaveUp
StaysInLevel ==
  LET cancelled == ~level.started /\ flow.cancelled = level.match
      started == level.started \/ flow.start = level.match
  IN
  /\ InLevel /\ ~LevelEnds(cancelled, FALSE)
  /\ level' = [level EXCEPT !.acked = @ \/ (Acking /\ CanQueue), !.started = started,
                            !.over = @ \/ flow.result = level.match]
  /\ UNCHANGED <<scene, pendingReady, gaveUp>>

LobbySteps == OpensLobby \/ EntersLevel \/ \E timedOut \in BOOLEAN : Syncs(timedOut)
LevelSteps == StaysInLevel \/ \E timedOut \in BOOLEAN : LeavesLevel(timedOut)
Steps ==
  /\ ToMenu \/ LobbySteps \/ LevelSteps
  /\ atRest' = (UNCHANGED <<flow, sceneVars, toServer>>)
LinkSteps == LinksUp \/ LetsGo \/ Loses
Messages ==
  \/ Connects \/ Welcomed \/ GetsNews \/ GetsOldLevel \/ GetsLobby \/ GetsStart \/ GetsCancelled
  \/ GetsResult \/ Discards
Keys ==
  /\ Opens \/ Begins \/ ToMenu \/ Leaves \/ \E desired \in BOOLEAN : Presses(desired)
  /\ UNCHANGED atRest

StepCases ==
  \/ ServerMoves
  \/ Elsewhere
  \/ Joins
  \/ Rejects
  \/ LinkSteps
  \/ Drops
  \/ Messages
  \/ Keys
  \/ Steps

\* An empty queue is a queue of each kind.
LEMMA NoMessages == <<>> \in Seq(ClientMsgs) /\ <<>> \in Seq(ServerMsgs) /\ <<>> \in Seq(StreamMsgs)
  OBVIOUS

\* What the types say of each message and field.
LEMMA TypedParts ==
  ASSUME Typed
  PROVE  /\ toClient \in Seq(ClientMsgs) /\ toServer \in Seq(ServerMsgs)
         /\ Len(toClient) \in Nat /\ Len(toServer) \in Nat
         /\ \A k \in 1 .. Len(toClient) :
              /\ toClient[k].type \in {"CONNECT", "DISCONNECT", "Welcome", "Reject", "LobbyState",
                                       "LevelInfo", "MatchStart", "MatchCancelled", "MatchResult"}
              /\ toClient[k].match \in Nat /\ toClient[k].ready \in BOOLEAN
         /\ \A k \in 1 .. Len(toServer) :
              /\ toServer[k].type \in {"Hello", "LobbyReady", "MatchLoaded"}
              /\ toServer[k].match \in Nat /\ toServer[k].ready \in BOOLEAN
  <1>1. toClient \in Seq(ClientMsgs) /\ toServer \in Seq(ServerMsgs)
    BY DEF Typed
  <1>2. \A k \in 1 .. Len(toClient) : toClient[k] \in ClientMsgs
    BY <1>1
  <1>3. \A k \in 1 .. Len(toServer) : toServer[k] \in ServerMsgs
    BY <1>1
  <1>. QED BY <1>1, <1>2, <1>3 DEF ClientMsgs, ServerMsgs

\* And of each message and field of the next state.
LEMMA TypedNext ==
  ASSUME Typed'
  PROVE  /\ Len(toClient') \in Nat /\ Len(toServer') \in Nat
         /\ \A k \in 1 .. Len(toClient') :
              /\ toClient'[k].type \in {"CONNECT", "DISCONNECT", "Welcome", "Reject", "LobbyState",
                                       "LevelInfo", "MatchStart", "MatchCancelled", "MatchResult"}
              /\ toClient'[k].match \in Nat /\ toClient'[k].ready \in BOOLEAN
         /\ \A k \in 1 .. Len(toServer') :
              /\ toServer'[k].type \in {"Hello", "LobbyReady", "MatchLoaded"}
              /\ toServer'[k].match \in Nat /\ toServer'[k].ready \in BOOLEAN
  <1>1. toClient' \in Seq(ClientMsgs) /\ toServer' \in Seq(ServerMsgs)
    BY DEF Typed
  <1>2. \A k \in 1 .. Len(toClient') : toClient'[k] \in ClientMsgs
    BY <1>1
  <1>3. \A k \in 1 .. Len(toServer') : toServer'[k] \in ServerMsgs
    BY <1>1
  <1>. QED BY <1>1, <1>2, <1>3 DEF ClientMsgs, ServerMsgs

\* The messages both sides make are of their types.
LEMMA EventTypes ==
  /\ \A type \in {"CONNECT", "DISCONNECT", "Welcome", "Reject"} : Event(type) \in ClientMsgs
  /\ Hello \in ServerMsgs /\ \A r \in BOOLEAN : LobbyReady(r) \in ServerMsgs
  /\ \A m \in Nat : MatchLoaded(m) \in ServerMsgs
  BY DEF Event, Hello, LobbyReady, MatchLoaded, ClientMsgs, ServerMsgs

\* Leaving the server, or having left it, frees the seat.
LEMMA LeftGone ==
  ASSUME Typed, StageInv, IF stage = "away" THEN UNCHANGED streamVars ELSE Leave
  PROVE  Gone /\ batch' \in Seq(StreamMsgs)
  <1>1. batch \in Seq(StreamMsgs) /\ ready \in BOOLEAN /\ loaded \in BOOLEAN
    BY DEF Typed, TypeOK
  <1>2. CASE stage = "away"
    BY <1>1, <1>2 DEF StageInv, Gone, streamVars
  <1>3. CASE stage # "away"
    BY <1>1, <1>3 DEF Gone, Leave
  <1>. QED BY <1>2, <1>3

\* The types of everything but the messages.
RestTyped ==
  /\ link \in Links /\ state \in States /\ scene \in Scenes
  /\ flow \in [level : Nat, pending : BOOLEAN, start : Nat, cancelled : Nat, result : Nat]
  /\ lobby \in Flags \cup {NoLobby} /\ pendingReady \in Flags \cup {NoRequest}
  /\ level \in [match : Nat, acked : BOOLEAN, started : BOOLEAN, over : BOOLEAN]
  /\ atRest \in BOOLEAN /\ gaveUp \in Nat /\ asked \in Int /\ retried \in BOOLEAN

\* The types, in three parts.
LEMMA TypedInParts ==
  /\ Typed <=> StreamTyped /\ RestTyped /\ toServer \in Seq(ServerMsgs)
  /\ Typed' <=> StreamTyped' /\ RestTyped' /\ toServer' \in Seq(ServerMsgs)
  BY DEF Typed, TypeOK, StreamTyped, RestTyped

\* What the client starts over with is of its type.
LEMMA NothingHeld ==
  /\ NoFlow \in [level : Nat, pending : BOOLEAN, start : Nat, cancelled : Nat, result : Nat]
  /\ NoLevel \in [match : Nat, acked : BOOLEAN, started : BOOLEAN, over : BOOLEAN]
  BY DEF NoFlow, NoLevel

\* To drop the session is one of the cases.
LEMMA DropCase ==
  ASSUME Typed, StageInv, NEW s, DropSession(s),
         s = "Disconnected" \/ (s = "Failed" /\ state \in {"Connecting", "Handshaking"}),
         SameScene \/ Show("menu"), SameHistory, atRest' \in BOOLEAN
  PROVE  Drops /\ Typed'
  <1>0. StreamTyped /\ RestTyped
    BY TypedInParts
  <1>1. Gone /\ batch' \in Seq(StreamMsgs)
    BY LeftGone DEF DropSession, DestroyTransport
  <1>2. Drops
    BY <1>1 DEF Drops, DropSession, DestroyTransport
  <1>3. StreamTyped' /\ toServer' \in Seq(ServerMsgs)
    BY <1>0, <1>1, <1>2, NoMessages DEF Drops, StreamTyped, Gone, Stages
  <1>4. RestTyped'
    <2>1. /\ link' \in Links /\ state' \in States /\ lobby' \in Flags \cup {NoLobby}
          /\ gaveUp' \in Nat /\ asked' \in Int /\ retried' \in BOOLEAN
      BY <1>0, <1>2 DEF Drops, RestTyped, Links, States, NoLobby, SameHistory
    <2>2. flow' \in [level : Nat, pending : BOOLEAN, start : Nat, cancelled : Nat, result : Nat]
      BY <1>2, NothingHeld DEF Drops
    <2>3. /\ scene' \in Scenes /\ pendingReady' \in Flags \cup {NoRequest}
          /\ level' \in [match : Nat, acked : BOOLEAN, started : BOOLEAN, over : BOOLEAN]
      BY <1>0, NothingHeld DEF RestTyped, Show, NoRequest, SameScene, sceneVars, Scenes
    <2>. QED BY <2>1, <2>2, <2>3 DEF RestTyped
  <1>. QED BY <1>2, <1>3, <1>4, TypedInParts

\* What the server does is one of the cases.
LEMMA ServerMovesCase ==
  ASSUME Typed, ServerActs \/ ServerReadsLobbyReady \/ ServerReadsMatchLoaded
  PROVE  ServerMoves /\ Typed'
  <1>1. ServerSteps /\ ClientIdle /\ UNCHANGED link /\ StreamTyped' /\ toServer' \in Seq(ServerMsgs)
    BY ServerCases
  <1>2. RestTyped'
    BY <1>1, TypedInParts DEF RestTyped, ClientIdle, sessionVars, sceneVars, historyVars
  <1>. QED BY <1>1, <1>2, TypedInParts DEF ServerMoves

\* The others' play is one of the cases.
LEMMA ElsewhereCase ==
  ASSUME Typed, OthersPlay
  PROVE  Elsewhere /\ Typed'
  <1>1. Elsewhere
    BY DEF OthersPlay, Elsewhere, IssueElsewhere, ClientIdle, sessionVars, sceneVars, historyVars
  <1>2. StreamTyped' /\ toServer' \in Seq(ServerMsgs)
    BY TypedInParts DEF OthersPlay, IssueElsewhere, StreamTyped
  <1>3. RestTyped'
    BY <1>1, TypedInParts DEF Elsewhere, RestTyped, ClientIdle, sessionVars, sceneVars, historyVars
  <1>. QED BY <1>1, <1>2, <1>3, TypedInParts

\* The server's answer to Hello is one of the cases.
LEMMA HelloCase ==
  ASSUME Typed, ServerReadsHello
  PROVE  (Joins \/ Rejects) /\ Typed'
  <1>1. /\ ClientIdle /\ toServer # <<>> /\ toServer' = Tail(toServer) /\ Head(toServer).type = "Hello"
    BY DEF ServerReadsHello, ServerReads, ClientIdle
  <1>2. Reads /\ toServer' \in Seq(ServerMsgs) /\ toServer[1].type = "Hello"
    BY <1>1, ReadsTail
  <1>3. RestTyped' \/ link' = "down"
    BY <1>1, TypedInParts DEF ServerReadsHello, RestTyped, ClientIdle, sessionVars, sceneVars, historyVars
  <1>4. CASE Join /\ toClient' = Append(toClient, Event("Welcome")) \o Wire(batch', ready') /\ UNCHANGED link
    <2>1. batch' = <<LobbyStateMsg>> /\ ready' = FALSE
      BY <1>4 DEF Join
    <2>2. Wire(batch', ready') = <<LobbyMsg(FALSE)>>
      <3>1. \A a, r : Wire(<<a>>, r) = <<OnWire(a, r)>>
        BY WireOne
      <3>2. OnWire(LobbyStateMsg, FALSE) = LobbyMsg(FALSE)
        BY WireMsgs
      <3>. QED BY <2>1, <3>1, <3>2, Zenon
    <2>3. Event("Welcome") \in ClientMsgs /\ LobbyMsg(FALSE) \in ClientMsgs /\ LobbyStateMsg \in StreamMsgs
      BY EventTypes, MsgTypes
    <2>4. toClient' = toClient \o <<Event("Welcome"), LobbyMsg(FALSE)>>
      BY <1>4, <2>2, <2>3, AppendTwo, TypedParts
    <2>5. SaysTwo(Event("Welcome"), LobbyMsg(FALSE)) /\ toClient' \in Seq(ClientMsgs)
      BY <2>3, <2>4, SaysTwoSent
    <2>6. batch' \in Seq(StreamMsgs)
      BY <2>1, <2>3
    <2>7. StreamTyped'
      BY <1>4, <2>5, <2>6, TypedInParts DEF Join, StreamTyped, Stages
    <2>8. RestTyped'
      BY <1>1, <1>4, TypedInParts DEF RestTyped, ClientIdle, sessionVars, sceneVars, historyVars
    <2>9. Joins
      BY <1>1, <1>2, <1>4, <2>5 DEF Join, Joins
    <2>. QED BY <1>2, <2>7, <2>8, <2>9, TypedInParts
  <1>5. CASE /\ toClient' = Append(toClient, Event("Reject"))
             /\ link' = "down"
             /\ UNCHANGED streamVars
    <2>1. toClient' = toClient \o <<Event("Reject")>> /\ Event("Reject") \in ClientMsgs
      BY <1>5, EventTypes, Appending, TypedParts
    <2>2. SaysOne(Event("Reject")) /\ toClient' \in Seq(ClientMsgs)
      BY <2>1, SaysOneSent
    <2>3. StreamTyped'
      BY <1>5, <2>2, TypedInParts DEF StreamTyped, streamVars
    <2>4. RestTyped'
      BY <1>1, <1>5, TypedInParts DEF RestTyped, ClientIdle, sessionVars, sceneVars, historyVars, Links
    <2>5. Rejects
      BY <1>1, <1>2, <1>5, <2>2 DEF Rejects, SameStream, streamVars
    <2>. QED BY <1>2, <2>3, <2>4, <2>5, TypedInParts
  <1>. QED BY <1>4, <1>5 DEF ServerReadsHello

\* What happens to the link is one of the cases.
LEMMA LinkCase ==
  ASSUME Typed, StageInv, LinkUp \/ ServerLetsGo \/ LinkLost
  PROVE  LinkSteps /\ Typed'
  <1>1. StreamTyped /\ RestTyped /\ toServer \in Seq(ServerMsgs) /\ Len(toClient) \in Nat
    BY TypedInParts, TypedParts
  <1>2. CASE LinkUp
    <2>1. toClient' = toClient \o <<Event("CONNECT")>> /\ Event("CONNECT") \in ClientMsgs
      BY <1>2, EventTypes, Appending, TypedParts DEF LinkUp
    <2>2. SaysOne(Event("CONNECT")) /\ toClient' \in Seq(ClientMsgs)
      BY <2>1, SaysOneSent
    <2>3. LinksUp
      BY <1>2, <2>2 DEF LinkUp, LinksUp, SameStream, streamVars, ClientIdle
    <2>4. StreamTyped' /\ toServer' \in Seq(ServerMsgs)
      BY <1>1, <1>2, <2>2 DEF LinkUp, StreamTyped, streamVars
    <2>5. RestTyped'
      BY <1>1, <2>3 DEF LinksUp, RestTyped, ClientIdle, sessionVars, sceneVars, historyVars, Links
    <2>. QED BY <2>3, <2>4, <2>5, TypedInParts DEF LinkSteps
  <1>3. CASE ServerLetsGo
    <2>1. Gone /\ batch' \in Seq(StreamMsgs)
      BY <1>3, LeftGone DEF ServerLetsGo
    <2>2. LetsGo
      BY <1>3, <2>1 DEF ServerLetsGo, LetsGo, ClientIdle
    <2>3. StreamTyped' /\ toServer' \in Seq(ServerMsgs)
      BY <1>1, <2>1, <2>2, NoMessages DEF LetsGo, StreamTyped, Gone, Stages
    <2>4. RestTyped'
      BY <1>1, <2>2 DEF LetsGo, RestTyped, ClientIdle, sessionVars, sceneVars, historyVars, Links
    <2>. QED BY <2>2, <2>3, <2>4, TypedInParts DEF LinkSteps
  <1>4. CASE LinkLost
    <2>1. Gone /\ batch' \in Seq(StreamMsgs)
      BY <1>4, LeftGone DEF LinkLost
    <2>2. PICK n \in 0 .. Len(toClient) : toClient' = Append(SubSeq(toClient, 1, n), Event("DISCONNECT"))
      BY <1>4 DEF LinkLost
    <2>3. CutsTo(n) /\ toClient' \in Seq(ClientMsgs)
      <3>1. /\ SubSeq(toClient, 1, n) \in Seq(ClientMsgs) /\ Len(SubSeq(toClient, 1, n)) = n
            /\ \A k \in 1 .. n : SubSeq(toClient, 1, n)[k] = toClient[k]
        BY <1>1 DEF StreamTyped
      <3> DEFINE s == SubSeq(toClient, 1, n)
      <3>2. Event("DISCONNECT") \in ClientMsgs /\ toClient' = Append(s, Event("DISCONNECT"))
        BY <2>2, EventTypes
      <3> HIDE DEF s
      <3>3. s \in Seq(ClientMsgs) /\ Len(s) = n /\ \A k \in 1 .. n : s[k] = toClient[k]
        BY <3>1 DEF s
      <3>. QED BY <3>2, <3>3 DEF CutsTo
    <2>4. Loses
      BY <1>4, <2>1, <2>3 DEF LinkLost, Loses, ClientIdle
    <2>5. StreamTyped' /\ toServer' \in Seq(ServerMsgs)
      BY <1>1, <2>1, <2>3, <2>4, NoMessages DEF Loses, StreamTyped, Gone, Stages
    <2>6. RestTyped'
      BY <1>1, <2>4 DEF Loses, RestTyped, ClientIdle, sessionVars, sceneVars, historyVars, Links
    <2>. QED BY <2>4, <2>5, <2>6, TypedInParts DEF LinkSteps
  <1>. QED BY <1>2, <1>3, <1>4

\* A message is taken and the session goes on.
LEMMA GetsCase ==
  ASSUME Typed, NEW type, Pumps(type), Handled
  PROVE  /\ Gets(type) /\ toClient[1] = Packet /\ StreamTyped'
         /\ Packet.match \in Nat /\ Packet.ready \in BOOLEAN
         /\ UNCHANGED <<link, scene, pendingReady, level, gaveUp, asked, retried>> /\ atRest' = FALSE
  <1>1. Takes /\ toClient' \in Seq(ClientMsgs) /\ Head(toClient) = toClient[1]
    BY TakesTail DEF Pumps, Handled
  <1>2. UNCHANGED streamVars /\ UNCHANGED link /\ atRest' = FALSE /\ UNCHANGED sceneVars
        /\ UNCHANGED historyVars /\ Packet.type = type
    BY DEF Pumps, Handled
  <1>3. Gets(type)
    BY <1>1, <1>2 DEF Gets, Packet, SameStream, SameScene, SameHistory, streamVars, sceneVars, historyVars
  <1>4. StreamTyped'
    BY <1>1, <1>2, TypedStream DEF StreamTyped, streamVars
  <1>5. toClient[1].match \in Nat /\ toClient[1].ready \in BOOLEAN
    BY <1>1, TypedParts DEF Takes
  <1>. QED BY <1>1, <1>2, <1>3, <1>4, <1>5 DEF Packet, sceneVars, historyVars

\* A message handled is one of the cases.
LEMMA PumpCase ==
  ASSUME Typed, StageInv, Pump
  PROVE  (Messages \/ Drops) /\ Typed'
  <1>0. StreamTyped /\ RestTyped /\ toServer \in Seq(ServerMsgs)
    BY TypedInParts
  <1> DEFINE Flows == [level : Nat, pending : BOOLEAN, start : Nat, cancelled : Nat, result : Nat]
  <1>1. ASSUME NEW type, Pumps(type), Handled, flow' \in Flows, lobby' \in Flags \cup {NoLobby},
               state' \in States, toServer' \in Seq(ServerMsgs)
        PROVE  Typed'
    <2>1. StreamTyped' /\ UNCHANGED <<link, scene, pendingReady, level, gaveUp, asked, retried>> /\ atRest' = FALSE
      BY <1>1, GetsCase
    <2>2. RestTyped'
      BY <1>0, <1>1, <2>1 DEF RestTyped
    <2>. QED BY <1>1, <2>1, <2>2, TypedInParts
  <1>2. ASSUME NEW type, Pumps(type)
        PROVE  SameScene /\ SameHistory /\ atRest' \in BOOLEAN
    BY <1>2 DEF Pumps, SameScene, SameHistory, historyVars
  <1>3. ASSUME NEW type, Pumps(type), Handled
        PROVE  Gets(type) /\ toClient[1] = Packet /\ Packet.match \in Nat /\ Packet.ready \in BOOLEAN
    BY <1>3, GetsCase
  <1>4. CASE PumpConnect
    <2>1. Pumps("CONNECT") /\ state = "Connecting"
      BY <1>4 DEF PumpConnect
    <2>2. CASE DropSession("Failed")
      BY <1>2, <2>1, <2>2, DropCase
    <2>3. CASE /\ Handled
               /\ state' = "Handshaking"
               /\ toServer' = IF link = "up" THEN Append(toServer, Hello) ELSE toServer
               /\ UNCHANGED <<flow, lobby>>
      <3>1. /\ (link = "up" /\ Asks(Hello)) \/ (link # "up" /\ UNCHANGED toServer)
            /\ toServer' \in Seq(ServerMsgs)
        <4>1. CASE link = "up"
          BY <2>3, <4>1, AsksMore, EventTypes
        <4>2. CASE link # "up"
          BY <1>0, <2>3, <4>2
        <4>. QED BY <4>1, <4>2
      <3>2. Connects
        BY <1>3, <2>1, <2>3, <3>1 DEF Connects
      <3>3. Typed'
        BY <1>0, <1>1, <2>1, <2>3, <3>1 DEF States, RestTyped
      <3>. QED BY <3>2, <3>3 DEF Messages
    <2>. QED BY <1>4, <2>2, <2>3 DEF PumpConnect
  <1>5. CASE PumpDisconnect
    <2>1. Pumps("DISCONNECT")
      BY <1>5 DEF PumpDisconnect
    <2> DEFINE s == IF state \in {"Connecting", "Handshaking"} THEN "Failed" ELSE "Disconnected"
    <2>2. DropSession(s) /\ (s = "Disconnected" \/ (s = "Failed" /\ state \in {"Connecting", "Handshaking"}))
      BY <1>5 DEF PumpDisconnect
    <2> HIDE DEF s
    <2>. QED BY <1>2, <2>1, <2>2, DropCase
  <1>6. CASE PumpHandshake
    <2>1. PICK type \in {"Welcome", "Reject", "LobbyState"} : Pumps(type)
      BY <1>6 DEF PumpHandshake
    <2>2. state = "Handshaking"
      BY <1>6 DEF PumpHandshake
    <2>3. CASE Packet.type = "Welcome"
      <3>1. type = "Welcome"
        BY <2>1, <2>3 DEF Pumps
      <3>2. /\ Pumps("Welcome") /\ Handled /\ state' = "Connected"
            /\ UNCHANGED <<flow, lobby, toServer>>
        BY <1>6, <2>1, <2>3, <3>1 DEF PumpHandshake
      <3>3. Welcomed
        BY <1>3, <2>2, <3>2 DEF Welcomed
      <3>4. Typed'
        BY <1>0, <1>1, <3>2 DEF States, RestTyped
      <3>. QED BY <3>3, <3>4 DEF Messages
    <2>4. CASE Packet.type # "Welcome"
      <3>1. DropSession("Failed")
        BY <1>6, <2>4 DEF PumpHandshake
      <3>. QED BY <1>2, <2>1, <2>2, <3>1, DropCase
    <2>. QED BY <2>3, <2>4
  <1>7. CASE PumpLevelInfo
    <2>1. /\ Pumps("LevelInfo") /\ state = "Connected" /\ Handled /\ UNCHANGED <<state, toServer>>
          /\ IF NewsOfMatch(Packet.match)
             THEN BeginBootstrap(Packet.match) /\ lobby' = NoLobby
             ELSE UNCHANGED <<flow, lobby>>
      BY <1>7 DEF PumpLevelInfo
    <2>2. Gets("LevelInfo") /\ toClient[1] = Packet /\ Packet.match \in Nat
      BY <1>3, <2>1
    <2>3. GetsNews \/ GetsOldLevel
      BY <2>1, <2>2, Zenon DEF GetsNews, GetsOldLevel, InSession
    <2>4. flow' \in Flows /\ lobby' \in Flags \cup {NoLobby}
      BY <1>0, <2>1, <2>2, NothingHeld DEF BeginBootstrap, RestTyped
    <2>5. Typed'
      BY <1>0, <1>1, <2>1, <2>4 DEF RestTyped
    <2>. QED BY <2>3, <2>5 DEF Messages
  <1>8. CASE PumpLobbyState
    <2>1. /\ Pumps("LobbyState") /\ state = "Connected" /\ Handled /\ UNCHANGED <<state, toServer>>
          /\ flow' = IF flow.level # 0 THEN NoFlow ELSE flow
          /\ lobby' = FlagOf(Packet.ready)
      BY <1>8 DEF PumpLobbyState
    <2>2. Gets("LobbyState") /\ toClient[1] = Packet /\ Packet.ready \in BOOLEAN
      BY <1>3, <2>1
    <2>3. GetsLobby
      BY <2>1, <2>2 DEF GetsLobby, InSession
    <2>4. flow' \in Flows /\ lobby' \in Flags \cup {NoLobby}
      BY <1>0, <2>1, <2>2, NothingHeld DEF FlagOf, Flags, RestTyped
    <2>5. Typed'
      BY <1>0, <1>1, <2>1, <2>4 DEF RestTyped
    <2>. QED BY <2>3, <2>5 DEF Messages
  <1>9. CASE PumpMatchStart
    <2>1. /\ Pumps("MatchStart") /\ state = "Connected" /\ Handled /\ UNCHANGED <<state, toServer, lobby>>
          /\ flow' = IF StartsMatch(Packet.match) THEN [flow EXCEPT !.start = Packet.match] ELSE flow
      BY <1>9 DEF PumpMatchStart
    <2>2. Gets("MatchStart") /\ toClient[1] = Packet /\ Packet.match \in Nat
      BY <1>3, <2>1
    <2>3. GetsStart
      BY <2>1, <2>2 DEF GetsStart, InSession
    <2>4. flow' \in Flows
      BY <1>0, <2>1, <2>2 DEF RestTyped
    <2>5. Typed'
      BY <1>0, <1>1, <2>1, <2>4 DEF RestTyped
    <2>. QED BY <2>3, <2>5 DEF Messages
  <1>10. CASE PumpMatchCancelled
    <2>1. /\ Pumps("MatchCancelled") /\ state = "Connected" /\ Handled /\ UNCHANGED <<state, toServer, lobby>>
          /\ flow' = IF flow.cancelled # 0 /\ Packet.match <= flow.cancelled THEN flow
                     ELSE [IF flow.level = Packet.match THEN NoFlow ELSE flow
                             EXCEPT !.cancelled = Packet.match]
      BY <1>10 DEF PumpMatchCancelled
    <2>2. Gets("MatchCancelled") /\ toClient[1] = Packet /\ Packet.match \in Nat
      BY <1>3, <2>1
    <2>3. GetsCancelled
      BY <2>1, <2>2 DEF GetsCancelled, InSession
    <2>4. flow' \in Flows
      BY <1>0, <2>1, <2>2, NothingHeld DEF RestTyped
    <2>5. Typed'
      BY <1>0, <1>1, <2>1, <2>4 DEF RestTyped
    <2>. QED BY <2>3, <2>5 DEF Messages
  <1>11. CASE PumpMatchResult
    <2>1. /\ Pumps("MatchResult") /\ state = "Connected" /\ Handled /\ UNCHANGED <<state, toServer, lobby>>
          /\ flow' = IF flow.level = Packet.match /\ flow.result < Packet.match
                     THEN [flow EXCEPT !.result = Packet.match] ELSE flow
      BY <1>11 DEF PumpMatchResult
    <2>2. Gets("MatchResult") /\ toClient[1] = Packet /\ Packet.match \in Nat
      BY <1>3, <2>1
    <2>3. GetsResult
      BY <2>1, <2>2 DEF GetsResult, InSession
    <2>4. flow' \in Flows
      BY <1>0, <2>1, <2>2 DEF RestTyped
    <2>5. Typed'
      BY <1>0, <1>1, <2>1, <2>4 DEF RestTyped
    <2>. QED BY <2>3, <2>5 DEF Messages
  <1>12. CASE PumpWhileLeaving
    <2>1. PICK type \in {"LobbyState", "LevelInfo", "MatchStart", "MatchCancelled", "MatchResult"} : Pumps(type)
      BY <1>12 DEF PumpWhileLeaving
    <2>2. state = "Disconnecting" /\ Handled /\ UNCHANGED <<sessionVars, toServer>>
      BY <1>12 DEF PumpWhileLeaving
    <2>3. Gets(type)
      BY <1>3, <2>1, <2>2
    <2>4. Discards
      BY <2>2, <2>3 DEF Discards
    <2>5. Typed'
      BY <1>0, <1>1, <2>1, <2>2 DEF RestTyped, sessionVars
    <2>. QED BY <2>4, <2>5 DEF Messages
  <1>. QED BY <1>4, <1>5, <1>6, <1>7, <1>8, <1>9, <1>10, <1>11, <1>12 DEF Pump

\* To show a scene keeps the types.
LEMMA ShowsTyped ==
  ASSUME Typed, NEW s \in Scenes, Show(s)
  PROVE  /\ scene' \in Scenes /\ pendingReady' \in Flags \cup {NoRequest}
         /\ level' \in [match : Nat, acked : BOOLEAN, started : BOOLEAN, over : BOOLEAN]
  BY NothingHeld DEF Show

\* Only the scene changes, and the connection's state and link.
LEMMA SceneOnly ==
  ASSUME Typed, NEW s \in Scenes, Show(s), UNCHANGED <<streamVars, toClient, toServer, flow, lobby, gaveUp, asked, retried>>,
         link' \in Links, state' \in States, atRest' \in BOOLEAN
  PROVE  Typed'
  <1>1. StreamTyped /\ RestTyped /\ toServer \in Seq(ServerMsgs)
    BY TypedInParts
  <1>2. StreamTyped' /\ toServer' \in Seq(ServerMsgs)
    BY <1>1 DEF StreamTyped, streamVars
  <1>3. RestTyped'
    BY <1>1, ShowsTyped DEF RestTyped
  <1>. QED BY <1>2, <1>3, TypedInParts

\* What the client sends, if anything.
LEMMA SentCase ==
  ASSUME Typed, NEW msg \in ServerMsgs, Sends(msg)
  PROVE  Sent(msg) /\ toServer' \in Seq(ServerMsgs)
  <1>1. CASE link = "up"
    BY <1>1, AsksMore DEF Sends, Sent
  <1>2. CASE link # "up"
    BY <1>2 DEF Sends, Sent, Typed
  <1>. QED BY <1>1, <1>2

\* A key pressed, or a session timed out, is one of the cases.
LEMMA KeyCase ==
  ASSUME Typed, StageInv, Key \/ SessionTimeout
  PROVE  (Keys \/ Drops) /\ Typed'
  <1>0. StreamTyped /\ RestTyped /\ toServer \in Seq(ServerMsgs) /\ atRest \in BOOLEAN
    BY TypedInParts DEF RestTyped
  <1>1. CASE OpenConnectScene
    <2>1. Opens /\ UNCHANGED atRest
      BY <1>1 DEF OpenConnectScene, Opens, SameLink, SameStream, SameHistory, streamVars, historyVars
    <2>2. Typed'
      <3>1. "connect" \in Scenes /\ link' \in Links /\ state' \in States /\ atRest' \in BOOLEAN
        BY <1>0, <1>1 DEF OpenConnectScene, RestTyped, Scenes, sessionVars
      <3>2. UNCHANGED <<streamVars, toClient, toServer, flow, lobby, gaveUp, asked, retried>> /\ Show("connect")
        BY <1>1 DEF OpenConnectScene, sessionVars, historyVars
      <3>. QED BY <3>1, <3>2, SceneOnly
    <2>. QED BY <2>1, <2>2 DEF Keys
  <1>2. CASE BeginConnect
    <2>1. Begins /\ UNCHANGED atRest
      BY <1>2 DEF BeginConnect, Begins, SameStream, SameScene, streamVars
    <2>2. StreamTyped' /\ toServer' \in Seq(ServerMsgs)
      BY <1>0, <1>2 DEF BeginConnect, StreamTyped, streamVars
    <2>3. /\ link' \in Links /\ state' \in States /\ lobby' \in Flags \cup {NoLobby}
          /\ flow' \in [level : Nat, pending : BOOLEAN, start : Nat, cancelled : Nat, result : Nat]
      BY <1>0, <1>2, NothingHeld DEF BeginConnect, RestTyped, Links, States
    <2>4. gaveUp' \in Nat /\ asked' \in Int /\ retried' \in BOOLEAN
      <3>1. gaveUp' = 0 /\ asked' = -1 /\ retried' = FALSE
        BY <1>2, Zenon DEF BeginConnect
      <3>2. -1 \in Int /\ 0 \in Nat
        OBVIOUS
      <3>. QED BY <3>1, <3>2, Zenon
    <2>5. RestTyped'
      BY <1>0, <1>2, <2>3, <2>4 DEF BeginConnect, RestTyped, sceneVars
    <2>. QED BY <2>1, <2>2, <2>5, TypedInParts DEF Keys
  <1>3. CASE EscapeConnect
    <2>1. Show("menu") /\ UNCHANGED <<atRest, historyVars>> /\ "menu" \in Scenes
      BY <1>3 DEF EscapeConnect, Scenes
    <2>2. CASE DropSession("Disconnected")
      BY <1>0, <2>1, <2>2, DropCase DEF SameHistory, historyVars
    <2>3. CASE UNCHANGED <<streamVars, link, toClient, toServer, sessionVars>>
      <3>1. ToMenu
        BY <1>3, <2>1, <2>3 DEF EscapeConnect, ToMenu, SameLink, SameStream, SameHistory, streamVars, historyVars
      <3>2. Typed'
        <4>1. link' \in Links /\ state' \in States /\ atRest' \in BOOLEAN
          BY <1>0, <2>1, <2>3 DEF RestTyped, sessionVars
        <4>2. UNCHANGED <<streamVars, toClient, toServer, flow, lobby, gaveUp, asked, retried>>
          BY <2>1, <2>3 DEF sessionVars, historyVars
        <4>. QED BY <2>1, <4>1, <4>2, SceneOnly
      <3>. QED BY <2>1, <3>1, <3>2 DEF Keys
    <2>. QED BY <1>3, <2>2, <2>3 DEF EscapeConnect
  <1>4. CASE EscapeSession
    <2>1. /\ Show("menu") /\ UNCHANGED <<atRest, historyVars>> /\ "menu" \in Scenes /\ DisconnectAsync
          /\ scene \in {"lobby", "level"}
      BY <1>4 DEF EscapeSession, Scenes
    <2>2. CASE state \in {"Connecting", "Handshaking", "Failed"}
      <3>1. DropSession("Disconnected")
        BY <2>1, <2>2, Zenon DEF DisconnectAsync
      <3>. QED BY <1>0, <2>1, <3>1, DropCase DEF SameHistory, historyVars
    <2>3. CASE state = "Connected"
      <3>1. /\ state' = "Disconnecting"
            /\ link' = IF link \in {"up", "down"} THEN "leaving" ELSE link
            /\ UNCHANGED <<streamVars, toClient, toServer, flow, lobby>>
        BY <2>1, <2>3, Zenon DEF DisconnectAsync
      <3>2. Leaves
        BY <2>1, <2>3, <3>1 DEF Leaves, SameStream, SameHistory, streamVars, historyVars
      <3>3. Typed'
        <4>1. link' \in Links /\ state' \in States /\ atRest' \in BOOLEAN
          BY <1>0, <2>1, <3>1 DEF RestTyped, Links, States
        <4>2. UNCHANGED <<streamVars, toClient, toServer, flow, lobby, gaveUp, asked, retried>>
          BY <2>1, <3>1 DEF historyVars
        <4>. QED BY <2>1, <4>1, <4>2, SceneOnly
      <3>. QED BY <2>1, <3>2, <3>3 DEF Keys
    <2>4. CASE state \notin {"Connecting", "Handshaking", "Failed", "Connected"}
      <3>1. UNCHANGED <<streamVars, link, toClient, toServer, sessionVars>>
        BY <2>1, <2>4, Zenon DEF DisconnectAsync
      <3>2. ToMenu
        BY <2>1, <2>4, <3>1 DEF ToMenu, SameLink, SameStream, SameHistory, streamVars, historyVars
      <3>3. Typed'
        <4>1. link' \in Links /\ state' \in States /\ atRest' \in BOOLEAN
          BY <1>0, <2>1, <3>1 DEF RestTyped, sessionVars
        <4>2. UNCHANGED <<streamVars, toClient, toServer, flow, lobby, gaveUp, asked, retried>>
          BY <2>1, <3>1 DEF sessionVars, historyVars
        <4>. QED BY <2>1, <4>1, <4>2, SceneOnly
      <3>. QED BY <2>1, <3>2, <3>3 DEF Keys
    <2>. QED BY <2>2, <2>3, <2>4
  <1>5. CASE Restart
    BY <1>0, <1>5, DropCase DEF Restart, SameHistory, historyVars
  <1>6. CASE PressReady
    <2> DEFINE desired == lobby = "unready"
    <2>1. /\ scene = "lobby" /\ state = "Connected" /\ MayRequest /\ Sends(LobbyReady(desired))
          /\ pendingReady' = FlagOf(desired) /\ asked' = IF desired THEN issued ELSE asked
          /\ UNCHANGED <<streamVars, link, toClient, sessionVars, scene, level, atRest, gaveUp, retried>>
      BY <1>6 DEF PressReady
    <2>2. desired \in BOOLEAN
      OBVIOUS
    <2>3. Sent(LobbyReady(desired)) /\ toServer' \in Seq(ServerMsgs)
      BY <2>1, <2>2, SentCase, EventTypes
    <2>4. Presses(desired)
      BY <2>1, <2>3 DEF Presses, SameLink, SameStream, streamVars
    <2>5. StreamTyped'
      BY <1>0, <2>1 DEF StreamTyped, streamVars
    <2>6. pendingReady' \in Flags \cup {NoRequest} /\ asked' \in Int
      BY <1>0, <2>1 DEF FlagOf, Flags, RestTyped, StreamTyped
    <2>7. RestTyped'
      BY <1>0, <2>1, <2>6 DEF RestTyped, sessionVars
    <2>. QED BY <2>1, <2>2, <2>3, <2>4, <2>5, <2>7, TypedInParts DEF Keys
  <1>7. CASE SessionTimeout
    <2>1. UNCHANGED <<sceneVars, atRest, historyVars>>
      BY <1>7 DEF SessionTimeout
    <2>2. \/ state \in {"Connecting", "Handshaking"} /\ DropSession("Failed")
          \/ DropSession("Disconnected")
      BY <1>7 DEF SessionTimeout
    <2>. QED BY <1>0, <2>1, <2>2, DropCase DEF SameScene, SameHistory, historyVars
  <1>. QED BY <1>1, <1>2, <1>3, <1>4, <1>5, <1>6, <1>7 DEF Key

\* A step of a scene's is one of the cases.
LEMMA StepCase ==
  ASSUME Typed, Step
  PROVE  Steps /\ Typed'
  <1>0. StreamTyped /\ RestTyped /\ toServer \in Seq(ServerMsgs)
    BY TypedInParts
  <1>1. /\ UNCHANGED <<streamVars, link, toClient, state, lobby>>
        /\ atRest' = (UNCHANGED <<flow, sceneVars, toServer>>)
        /\ SameLink /\ StreamTyped' /\ atRest' \in BOOLEAN
    <2>1. UNCHANGED <<streamVars, link, toClient, state, lobby>> /\ atRest' = (UNCHANGED <<flow, sceneVars, toServer>>)
      BY DEF Step
    <2>. QED BY <1>0, <2>1 DEF SameLink, SameStream, StreamTyped, streamVars
  <1>2. ASSUME flow' = flow, toServer' = toServer, UNCHANGED historyVars, NEW s \in Scenes, Show(s)
        PROVE  Typed'
    <2>1. UNCHANGED <<streamVars, toClient, toServer, flow, lobby, gaveUp, asked, retried>>
      BY <1>1, <1>2 DEF historyVars
    <2>2. link' \in Links /\ state' \in States
      BY <1>0, <1>1 DEF RestTyped
    <2>. QED BY <1>1, <1>2, <2>1, <2>2, SceneOnly
  <1>3. CASE StepUnconnected
    <2>1. Show("menu") /\ UNCHANGED <<flow, toServer, historyVars>> /\ "menu" \in Scenes
      BY <1>3 DEF StepUnconnected, Scenes
    <2>2. ToMenu
      BY <1>1, <1>3, <2>1 DEF ToMenu, SameHistory, historyVars, sessionVars, StepUnconnected
    <2>. QED BY <1>1, <1>2, <2>1, <2>2 DEF Steps
  <1>4. CASE StepConnect
    <2>1. /\ Show("lobby") /\ UNCHANGED <<flow, toServer, historyVars>> /\ "lobby" \in Scenes
          /\ scene = "connect" /\ state = "Connected"
      BY <1>4 DEF StepConnect, Scenes
    <2>2. OpensLobby
      BY <1>1, <2>1 DEF OpensLobby, SameHistory, historyVars, sessionVars
    <2>. QED BY <1>1, <1>2, <2>1, <2>2 DEF Steps, LobbySteps
  <1>5. CASE StepEntersMatch
    <2>1. /\ scene = "lobby" /\ state = "Connected" /\ flow.pending
          /\ flow' = [flow EXCEPT !.pending = FALSE]
          /\ scene' = "level" /\ pendingReady' = NoRequest
          /\ level' = [NoLevel EXCEPT !.match = flow.level]
          /\ UNCHANGED <<toServer, historyVars>>
      BY <1>5 DEF StepEntersMatch, EntersMatch
    <2>2. EntersLevel
      BY <1>1, <2>1 DEF EntersLevel, SameHistory, historyVars
    <2>3. /\ flow' \in [level : Nat, pending : BOOLEAN, start : Nat, cancelled : Nat, result : Nat]
          /\ level' \in [match : Nat, acked : BOOLEAN, started : BOOLEAN, over : BOOLEAN]
      BY <1>0, <2>1 DEF RestTyped, NoLevel
    <2>4. RestTyped'
      BY <1>0, <1>1, <2>1, <2>3 DEF RestTyped, Scenes, historyVars
    <2>. QED BY <1>0, <1>1, <2>1, <2>2, <2>4, TypedInParts DEF Steps, LobbySteps
  <1>6. CASE StepLobby
    <2>1. PICK timedOut \in BOOLEAN :
            LET waiting == pendingReady # NoRequest /\ lobby # NoLobby IN
            /\ timedOut => waiting
            /\ pendingReady' = IF waiting /\ (timedOut \/ lobby = pendingReady)
                               THEN NoRequest ELSE pendingReady
            /\ retried' = (retried \/ timedOut)
      BY <1>6 DEF StepLobby
    <2>2. /\ scene = "lobby" /\ state = "Connected" /\ ~flow.pending
          /\ UNCHANGED <<flow, toServer, scene, level, gaveUp, asked>>
      BY <1>6 DEF StepLobby, EntersMatch
    <2>3. Syncs(timedOut)
      BY <1>1, <2>1, <2>2 DEF Syncs, sessionVars
    <2>4. pendingReady' \in Flags \cup {NoRequest} /\ retried' \in BOOLEAN
      BY <1>0, <2>1 DEF RestTyped
    <2>5. RestTyped'
      BY <1>0, <1>1, <2>2, <2>4 DEF RestTyped
    <2>. QED BY <1>0, <1>1, <2>2, <2>3, <2>5, TypedInParts DEF Steps, LobbySteps
  <1>7. CASE StepLevel
    <2> DEFINE cancelled == ~level.started /\ flow.cancelled = level.match
               started == level.started \/ flow.start = level.match
               acking == ~level.started /\ ~level.acked
    <2>1. /\ scene = "level" /\ state = "Connected"
          /\ IF acking THEN Sends(MatchLoaded(level.match)) ELSE UNCHANGED toServer
          /\ UNCHANGED <<flow, asked, retried>>
      BY <1>7 DEF StepLevel
    <2>2. PICK timedOut \in BOOLEAN :
            /\ timedOut => ~level.started /\ ~cancelled
            /\ gaveUp' = IF timedOut THEN level.match ELSE gaveUp
            /\ IF LevelEnds(cancelled, timedOut)
               THEN Show("lobby")
               ELSE /\ level' = [level EXCEPT !.acked = @ \/ (acking /\ CanQueue),
                                              !.started = started,
                                              !.over = @ \/ flow.result = level.match]
                    /\ UNCHANGED <<scene, pendingReady>>
      BY <1>7 DEF StepLevel
    <2>3. level.match \in Nat /\ gaveUp \in Nat
      BY <1>0 DEF RestTyped
    <2>4. Acknowledges /\ toServer' \in Seq(ServerMsgs)
      <3>1. CASE acking
        BY <2>1, <2>3, <3>1, SentCase, EventTypes DEF Acknowledges, Acking
      <3>2. CASE ~acking
        BY <1>0, <2>1, <3>2 DEF Acknowledges, Acking
      <3>. QED BY <3>1, <3>2
    <2>5. InLevel
      BY <1>1, <2>1, <2>4 DEF InLevel, sessionVars
    <2>6. gaveUp' \in Nat
      BY <2>2, <2>3
    <2>7. CASE LevelEnds(cancelled, timedOut)
      <3>1. Show("lobby") /\ LeavesLevel(timedOut)
        BY <2>2, <2>5, <2>7 DEF LeavesLevel
      <3>2. RestTyped'
        <4>1. "lobby" \in Scenes
          BY DEF Scenes
        <4>. QED BY <1>0, <1>1, <2>1, <2>6, <3>1, <4>1, ShowsTyped DEF RestTyped
      <3>. QED BY <1>1, <2>2, <2>4, <3>1, <3>2, TypedInParts DEF Steps, LevelSteps
    <2>8. CASE ~LevelEnds(cancelled, timedOut)
      <3>1. ~timedOut
        BY <2>8 DEF LevelEnds
      <3>2. /\ ~LevelEnds(cancelled, FALSE)
            /\ level' = [level EXCEPT !.acked = @ \/ (acking /\ CanQueue), !.started = started,
                                      !.over = @ \/ flow.result = level.match]
            /\ UNCHANGED <<scene, pendingReady, gaveUp>>
        BY <2>2, <2>8, <3>1
      <3>3. StaysInLevel
        BY <2>5, <3>2 DEF StaysInLevel, Acking
      <3>4. level' \in [match : Nat, acked : BOOLEAN, started : BOOLEAN, over : BOOLEAN]
        BY <1>0, <3>2 DEF RestTyped
      <3>5. RestTyped'
        BY <1>0, <1>1, <2>1, <3>2, <3>4 DEF RestTyped
      <3>. QED BY <1>1, <2>4, <3>3, <3>5, TypedInParts DEF Steps, LevelSteps
    <2>. QED BY <2>7, <2>8
  <1>. QED BY <1>3, <1>4, <1>5, <1>6, <1>7 DEF Step

\* Every step is one of the cases, and keeps the types.
LEMMA NextCases ==
  ASSUME Typed, StageInv, Next
  PROVE  StepCases /\ Typed'
  <1>1. CASE Server
    BY <1>1, ServerMovesCase, HelloCase DEF Server, StepCases
  <1>2. CASE OthersPlay
    BY <1>2, ElsewhereCase DEF StepCases
  <1>3. CASE LinkUp \/ ServerLetsGo \/ LinkLost
    BY <1>3, LinkCase DEF StepCases
  <1>4. CASE Pump
    BY <1>4, PumpCase DEF StepCases
  <1>5. CASE Key \/ SessionTimeout
    BY <1>5, KeyCase DEF StepCases
  <1>6. CASE Step
    BY <1>6, StepCase DEF StepCases
  <1>. QED BY <1>1, <1>2, <1>3, <1>4, <1>5, <1>6 DEF Next

-----------------------------------------------------------------------------
(* The server's stages. *)

\* Every step keeps the server's side.
LEMMA StageStep ==
  ASSUME Typed, StageInv, StepCases
  PROVE  StageInv'
  <1>0. ready \in BOOLEAN /\ loaded \in BOOLEAN /\ issued \in Nat
    BY DEF Typed, TypeOK
  <1>1. CASE SameStream
    BY <1>1 DEF SameStream, StageInv
  <1>2. CASE Gone
    BY <1>2 DEF Gone, StageInv
  <1>3. CASE ServerMoves
    <2>1. CASE Refreshes
      BY <1>0, <2>1 DEF Refreshes, StageInv
    <2>2. CASE Forms
      BY <1>0, <2>2 DEF Forms, StageInv
    <2>3. CASE FormsInVain
      BY <1>0, <2>3 DEF FormsInVain, StageInv
    <2>4. CASE Cancels
      BY <1>0, <2>4 DEF Cancels, StageInv
    <2>5. CASE Ends
      BY <1>0, <2>5 DEF Ends, StageInv
    <2>6. CASE Returns
      BY <1>0, <2>6 DEF Returns, StageInv
    <2>7. CASE Starts
      BY <1>0, <2>7 DEF Starts, AllLoaded, StageInv
    <2>8. CASE StartsInVain
      BY <1>0, <2>8 DEF StartsInVain, AllLoaded, StageInv
    <2>9. CASE Readies
      BY <1>0, <2>9 DEF Readies, StageInv
    <2>10. CASE CountsOne
      BY <1>0, <2>10 DEF CountsOne, StageInv
    <2>11. CASE Ignores
      BY <1>0, <2>11 DEF Ignores, StageInv
    <2>. QED BY <1>3, <2>1, <2>2, <2>3, <2>4, <2>5, <2>6, <2>7, <2>8, <2>9, <2>10, <2>11 DEF ServerMoves, ServerSteps
  <1>4. CASE Elsewhere
    BY <1>0, <1>4 DEF Elsewhere, StageInv
  <1>8. CASE Joins
    BY <1>0, <1>8 DEF Joins, StageInv
  <1>5. CASE Rejects \/ LinkSteps \/ Drops
    BY <1>1, <1>2, <1>5 DEF Rejects, LinkSteps, LinksUp, LetsGo, Loses, Drops
  <1>6. CASE Messages
    <2>1. \A type : Gets(type) => SameStream
      BY DEF Gets
    <2>2. SameStream
      BY <1>6, <2>1 DEF Messages, Connects, Welcomed, GetsNews, GetsOldLevel, GetsLobby, GetsStart,
         GetsCancelled, GetsResult, Discards, InSession
    <2>. QED BY <1>1, <2>2
  <1>7. CASE Keys \/ Steps
    BY <1>1, <1>7 DEF Keys, Steps, Opens, Begins, ToMenu, Leaves, Presses, LobbySteps, LevelSteps,
       OpensLobby, EntersLevel, Syncs, StaysInLevel, LeavesLevel, InLevel, SameLink
  <1>. QED BY <1>3, <1>4, <1>5, <1>6, <1>7, <1>8 DEF StepCases

-----------------------------------------------------------------------------
(* The connection. *)

\* What the server does keeps the connection's part.
LEMMA ConnServer ==
  ASSUME Typed, ConnInv, ServerMoves
  PROVE  ConnInv'
  <1>0. Len(toClient) \in Nat /\ Len(toServer) \in Nat /\ ready \in BOOLEAN /\ loaded \in BOOLEAN
    BY TypedParts DEF Typed, TypeOK
  <1>1. UNCHANGED <<link, state, flow, lobby>> /\ (HasSession' <=> HasSession)
    BY DEF ServerMoves, ClientIdle, sessionVars, HasSession
  <1>2. CASE Refreshes
    <2>1. PICK a : SaysOne(a) /\ a.type = "LobbyState" /\ a.ready = ready'
      BY <1>2 DEF Refreshes, LobbyMsg
    <2>2. ready => stage = "lobby" /\ ready' \in BOOLEAN
      BY <1>0, <1>2 DEF Refreshes
    <2>3. /\ stage = "lobby" /\ UNCHANGED <<stage, toServer>>
          /\ ~ready => ~a.ready /\ ~ready'
      BY <1>0, <1>2, <2>1 DEF Refreshes
    <2>. QED BY <1>0, <1>1, <2>1, <2>3 DEF SaysOne, ConnInv, HelloOnly, NotWelcomed
  <1>3. CASE Forms
    BY <1>0, <1>1, <1>3 DEF Forms, SaysOne, RoundMsg, ConnInv, HelloOnly, NotWelcomed
  <1>4. CASE FormsInVain
    BY <1>0, <1>1, <1>4 DEF FormsInVain, SaysThree, RoundMsg, LobbyMsg, ConnInv, HelloOnly, NotWelcomed
  <1>5. CASE Cancels
    BY <1>0, <1>1, <1>5 DEF Cancels, SaysTwo, RoundMsg, LobbyMsg, ConnInv, HelloOnly, NotWelcomed
  <1>6. CASE Ends
    BY <1>0, <1>1, <1>6 DEF Ends, SaysOne, RoundMsg, ConnInv, HelloOnly, NotWelcomed
  <1>7. CASE Returns
    BY <1>0, <1>1, <1>7 DEF Returns, SaysOne, LobbyMsg, ConnInv, HelloOnly, NotWelcomed
  <1>8. CASE Starts
    BY <1>0, <1>1, <1>8, SMTT(30) DEF Starts, AllLoaded, Reads, Acks, SaysOne, RoundMsg, ConnInv, HelloOnly, NotWelcomed
  <1>9. CASE StartsInVain
    <2>1. PICK a, b, c : /\ SaysThree(a, b, c)
                         /\ a.type # "Welcome" /\ b.type # "Welcome" /\ c.type # "Welcome"
      BY <1>9 DEF StartsInVain, RoundMsg, LobbyMsg
    <2>2. stage = "loading" /\ stage' = "lobby" /\ ~ready' /\ (UNCHANGED toServer \/ Reads)
      BY <1>9 DEF StartsInVain, AllLoaded
    <2>3. HasSession
      BY <2>2 DEF ConnInv
    <2>4. link \in {"up", "leaving"} /\ state # "Connecting" /\ \A k \in 1 .. Len(toServer) : toServer[k].type # "Hello"
      BY <2>2, <2>3 DEF ConnInv, HasSession
    <2>5. \A k \in 1 .. Len(toServer') : toServer'[k].type # "Hello"
      BY <1>0, <2>2, <2>4 DEF Reads
    <2>6. NotWelcomed => NotWelcomed'
      BY <1>0, <2>1 DEF SaysThree, NotWelcomed
    <2>. QED BY <1>0, <1>1, <2>2, <2>3, <2>4, <2>5, <2>6 DEF ConnInv, HelloOnly, HasSession
  <1>10. CASE Readies
    BY <1>0, <1>1, <1>10 DEF Readies, Reads, SaysOne, LobbyMsg, ConnInv, HelloOnly, NotWelcomed
  <1>11. CASE CountsOne \/ Ignores
    BY <1>0, <1>1, <1>11 DEF CountsOne, Ignores, Reads, Acks, ConnInv, HelloOnly, NotWelcomed
  <1>. QED BY <1>2, <1>3, <1>4, <1>5, <1>6, <1>7, <1>8, <1>9, <1>10, <1>11 DEF ServerMoves, ServerSteps

\* Every step keeps the connection's part.
LEMMA ConnStep ==
  ASSUME Typed, StageInv, ConnInv, StepCases
  PROVE  ConnInv'
  <1>0. Len(toClient) \in Nat /\ Len(toServer) \in Nat /\ ready \in BOOLEAN /\ loaded \in BOOLEAN
    BY TypedParts DEF Typed, TypeOK
  <1>1. CASE ServerMoves
    BY <1>1, ConnServer
  <1>2. CASE Elsewhere
    BY <1>0, <1>2 DEF Elsewhere, ClientIdle, sessionVars, ConnInv, HelloOnly, NotWelcomed, HasSession
  <1>3. CASE Joins
    <2>1. PICK a, b : SaysTwo(a, b) /\ a.type = "Welcome" /\ b.type = "LobbyState" /\ ~a.ready /\ ~b.ready
      BY <1>3 DEF Joins, Event, LobbyMsg
    <2>2. /\ stage = "away" /\ stage' = "lobby" /\ ~ready' /\ UNCHANGED <<link, state, flow, lobby>>
          /\ Reads /\ toServer[1].type = "Hello"
      BY <1>3 DEF Joins, ClientIdle, sessionVars
    <2>3. state = "Handshaking" /\ link \in {"up", "leaving"} /\ Len(toServer) = 1 /\ Len(toServer') = 0
      BY <1>0, <2>2 DEF Reads, ConnInv, HelloOnly
    <2>. QED BY <1>0, <2>1, <2>2, <2>3 DEF SaysTwo, ConnInv, HelloOnly, NotWelcomed, HasSession
  <1>4. CASE Rejects
    BY <1>0, <1>4 DEF Rejects, Reads, SaysOne, Event, SameStream, ClientIdle, sessionVars, ConnInv, HelloOnly,
       NotWelcomed, HasSession
  <1>5. CASE LinkSteps
    <2>1. CASE LinksUp
      <3>1. PICK a : SaysOne(a) /\ a.type = "CONNECT" /\ ~a.ready
        BY <2>1 DEF LinksUp, Event
      <3>2. /\ link = "syn" /\ link' = "up" /\ Len(toClient) = 0 /\ stage = "away" /\ Len(toServer) = 0
            /\ UNCHANGED <<stage, ready, toServer, state, flow, lobby>>
        BY <2>1 DEF LinksUp, SameStream, ClientIdle, sessionVars, ConnInv
      <3>3. state # "Disconnecting" /\ state # "Connected"
        BY <3>2 DEF ConnInv
      <3>. QED BY <1>0, <3>1, <3>2, <3>3 DEF SaysOne, ConnInv, HelloOnly, NotWelcomed, HasSession
    <2>2. CASE LetsGo
      BY <1>0, <2>2 DEF LetsGo, Gone, ClientIdle, sessionVars, ConnInv, HelloOnly, NotWelcomed, HasSession
    <2>3. CASE Loses
      BY <1>0, <2>3 DEF Loses, CutsTo, Event, Gone, ClientIdle, sessionVars, ConnInv, HelloOnly,
         NotWelcomed, HasSession
    <2>. QED BY <1>5, <2>1, <2>2, <2>3 DEF LinkSteps
  <1>6. CASE Drops
    BY <1>0, <1>6 DEF Drops, Gone, ConnInv, HelloOnly, NotWelcomed, HasSession
  <1>7. CASE Messages
    <2>1. CASE Connects
      <3>1. /\ Takes /\ state = "Connecting" /\ state' = "Handshaking"
            /\ UNCHANGED <<stage, ready, link, flow, lobby>>
        BY <2>1 DEF Connects, Gets, SameStream
      <3>2. CASE link # "up" /\ UNCHANGED toServer
        BY <1>0, <3>1, <3>2 DEF Takes, ConnInv, HelloOnly, NotWelcomed, HasSession
      <3>3. CASE link = "up" /\ Asks(Hello)
        BY <1>0, <3>1, <3>3 DEF Takes, Asks, Hello, ConnInv, HelloOnly, NotWelcomed, HasSession
      <3>. QED BY <2>1, <3>2, <3>3 DEF Connects
    <2>2. CASE Welcomed
      BY <1>0, <2>2 DEF Welcomed, Gets, Takes, SameStream, ConnInv, HelloOnly, NotWelcomed, HasSession
    <2>3. ASSUME Takes, UNCHANGED <<stage, ready, link, state, toServer>>, HasSession PROVE ConnInv'
      BY <1>0, <2>3 DEF Takes, ConnInv, HelloOnly, NotWelcomed, HasSession
    <2>4. \A type : Gets(type) => Takes /\ UNCHANGED <<stage, ready, link>>
      BY DEF Gets, SameStream
    <2>5. \A type : InSession(type) => Takes /\ UNCHANGED <<stage, ready, link, state, toServer>> /\ HasSession
      BY <2>4 DEF InSession, HasSession
    <2>6. CASE GetsNews \/ GetsOldLevel \/ GetsLobby \/ GetsStart \/ GetsCancelled \/ GetsResult
      BY <2>3, <2>5, <2>6 DEF GetsNews, GetsOldLevel, GetsLobby, GetsStart, GetsCancelled, GetsResult
    <2>7. CASE Discards
      BY <2>3, <2>4, <2>7 DEF Discards, HasSession, sessionVars
    <2>. QED BY <1>7, <2>1, <2>2, <2>6, <2>7 DEF Messages
  <1>8. ASSUME UNCHANGED <<stage, ready, link, state, lobby, toClient, toServer>>, flow' = flow \/ HasSession
        PROVE  ConnInv'
    BY <1>8 DEF ConnInv, HelloOnly, NotWelcomed, HasSession
  <1>9. CASE Keys
    <2>1. CASE Opens \/ ToMenu
      BY <1>8, <2>1 DEF Opens, ToMenu, SameLink, SameStream, sessionVars
    <2>2. CASE Begins
      BY <1>0, <2>2 DEF Begins, SameStream, ConnInv, HelloOnly, NotWelcomed, HasSession
    <2>3. CASE Leaves
      BY <1>0, <2>3 DEF Leaves, SameStream, ConnInv, HelloOnly, NotWelcomed, HasSession
    <2>4. ASSUME NEW desired \in BOOLEAN, Presses(desired) PROVE ConnInv'
      BY <1>0, <1>8, <2>4 DEF Presses, Sent, Asks, LobbyReady, SameLink, SameStream, sessionVars, ConnInv, HelloOnly,
         NotWelcomed, HasSession
    <2>. QED BY <1>9, <2>1, <2>2, <2>3, <2>4 DEF Keys
  <1>10. CASE Steps
    <2>1. CASE ToMenu \/ OpensLobby
      BY <1>8, <2>1 DEF OpensLobby, ToMenu, SameLink, SameStream, sessionVars
    <2>2. CASE EntersLevel
      BY <1>8, <2>2 DEF EntersLevel, SameLink, SameStream, HasSession
    <2>3. ASSUME NEW timedOut \in BOOLEAN, Syncs(timedOut) PROVE ConnInv'
      BY <1>8, <2>3 DEF Syncs, SameLink, SameStream, sessionVars
    <2>4. CASE InLevel
      <3>1. UNCHANGED <<stage, ready, link, state, flow, lobby, toClient>> /\ state = "Connected"
        BY <2>4 DEF InLevel, SameLink, SameStream, sessionVars
      <3>2. CASE UNCHANGED toServer
        BY <1>8, <3>1, <3>2
      <3>3. CASE link = "up" /\ Asks(MatchLoaded(level.match))
        BY <1>0, <3>1, <3>3 DEF Asks, MatchLoaded, ConnInv, HelloOnly, NotWelcomed, HasSession
      <3>. QED BY <2>4, <3>2, <3>3 DEF InLevel, Acknowledges, Sent
    <2>5. LevelSteps => InLevel
      BY DEF LevelSteps, StaysInLevel, LeavesLevel
    <2>. QED BY <1>10, <2>1, <2>2, <2>3, <2>4, <2>5 DEF Steps, LobbySteps
  <1>. QED BY <1>1, <1>2, <1>3, <1>4, <1>5, <1>6, <1>7, <1>9, <1>10 DEF StepCases

-----------------------------------------------------------------------------
(* The scenes. *)

\* Every step keeps the scene's part.
LEMMA SceneStep ==
  ASSUME Typed, ConnInv, SceneInv, OrderInv, StepCases
  PROVE  SceneInv'
  <1>0. flow.level \in Nat /\ level.match \in Nat
    BY TypedInParts DEF RestTyped
  <1>1. ASSUME UNCHANGED <<state, scene, pendingReady, level>> PROVE SceneInv'
    BY <1>1 DEF SceneInv
  <1>2. ASSUME NEW s \in {"menu", "connect"}, Show(s) PROVE SceneInv'
    BY <1>2 DEF SceneInv, Show
  <1>3. CASE ServerMoves \/ Elsewhere \/ Joins \/ Rejects \/ LinkSteps
    BY <1>1, <1>3 DEF ServerMoves, Elsewhere, Joins, Rejects, LinkSteps, LinksUp, LetsGo, Loses,
       ClientIdle, sessionVars, sceneVars
  <1>4. CASE Drops
    <2>1. CASE SameScene
      BY <1>4, <2>1 DEF Drops, SameScene, sceneVars, SceneInv
    <2>. QED BY <1>2, <1>4, <2>1 DEF Drops
  <1>5. CASE Messages
    <2>1. \A type : Gets(type) => UNCHANGED <<scene, pendingReady, level>>
      BY DEF Gets, SameScene, sceneVars
    <2>2. UNCHANGED <<scene, pendingReady, level>>
      BY <1>5, <2>1 DEF Messages, Connects, Welcomed, GetsNews, GetsOldLevel, GetsLobby, GetsStart,
         GetsCancelled, GetsResult, Discards, InSession
    <2>3. state' = state \/ state \in {"Connecting", "Handshaking"}
      BY <1>5 DEF Messages, Connects, Welcomed, GetsNews, GetsOldLevel, GetsLobby, GetsStart,
         GetsCancelled, GetsResult, Discards, InSession, sessionVars
    <2>. QED BY <2>2, <2>3 DEF SceneInv
  <1>6. CASE Keys
    <2>1. CASE Begins
      BY <2>1 DEF Begins, SameScene, sceneVars, SceneInv
    <2>2. ASSUME NEW desired \in BOOLEAN, Presses(desired) PROVE SceneInv'
      BY <2>2 DEF Presses, sessionVars, SceneInv
    <2>. QED BY <1>2, <1>6, <2>1, <2>2 DEF Keys, Opens, ToMenu, Leaves
  <1>7. CASE Steps
    <2>1. CASE OpensLobby
      BY <2>1 DEF OpensLobby, Show, sessionVars, SceneInv
    <2>2. CASE EntersLevel
      <3>1. level'.match = flow.level /\ flow.level > 0
        BY <1>0, <2>2 DEF EntersLevel, NoLevel, OrderInv
      <3>. QED BY <1>0, <2>2, <3>1 DEF EntersLevel, SceneInv
    <2>3. ASSUME NEW timedOut \in BOOLEAN, Syncs(timedOut) PROVE SceneInv'
      BY <2>3 DEF Syncs, sessionVars, SceneInv
    <2>4. CASE StaysInLevel
      <3>1. level'.match = level.match /\ scene' = "level" /\ state' = "Connected" /\ UNCHANGED pendingReady
        BY <2>4 DEF StaysInLevel, InLevel, sessionVars
      <3>2. level'.match # 0 /\ pendingReady' = NoRequest
        BY <2>4, <3>1 DEF SceneInv, StaysInLevel, InLevel
      <3>. QED BY <3>1, <3>2 DEF SceneInv
    <2>5. ASSUME NEW timedOut \in BOOLEAN, LeavesLevel(timedOut) PROVE SceneInv'
      BY <2>5 DEF LeavesLevel, InLevel, Show, sessionVars, SceneInv
    <2>. QED BY <1>2, <1>7, <2>1, <2>2, <2>3, <2>4, <2>5 DEF Steps, LobbySteps, LevelSteps, ToMenu
  <1>. QED BY <1>3, <1>4, <1>5, <1>6, <1>7 DEF StepCases

-----------------------------------------------------------------------------
(* Where the messages in flight after a step come from. *)

\* The client acknowledges m.
AcksNow(m) == LevelSteps /\ Acking /\ link = "up" /\ level.match = m

\* Where each message to the server comes from.
LEMMA ServerMail ==
  ASSUME Typed, StepCases, NEW k \in 1 .. Len(toServer')
  PROVE  \/ \E i \in 1 .. Len(toServer) : toServer'[k] = toServer[i]
         \/ toServer'[k].type # "MatchLoaded" /\ toServer'[k].match = 0
         \/ AcksNow(level.match) /\ toServer'[k].type = "MatchLoaded" /\ toServer'[k].match = level.match
  <1>0. Len(toServer) \in Nat
    BY TypedParts
  <1>1. CASE UNCHANGED toServer
    BY <1>1
  <1>2. CASE Reads
    BY <1>0, <1>2 DEF Reads
  <1>3. ASSUME NEW a, Asks(a), a.type # "MatchLoaded" /\ a.match = 0
        PROVE  \/ \E i \in 1 .. Len(toServer) : toServer'[k] = toServer[i]
               \/ toServer'[k].type # "MatchLoaded" /\ toServer'[k].match = 0
    BY <1>0, <1>3 DEF Asks
  <1>4. CASE ServerMoves \/ Elsewhere \/ Joins \/ Rejects
    BY <1>1, <1>2, <1>4 DEF ServerMoves, Elsewhere, Joins, Rejects, ServerSteps, Refreshes, Forms, FormsInVain,
       Cancels, Ends, Returns, Starts, StartsInVain, AllLoaded, Readies, CountsOne, Ignores
  <1>5. CASE LinkSteps \/ Drops
    BY <1>0, <1>1, <1>5 DEF LinkSteps, LinksUp, LetsGo, Loses, Drops
  <1>6. CASE Messages
    BY <1>1, <1>3, <1>6 DEF Messages, Connects, Welcomed, GetsNews, GetsOldLevel, GetsLobby, GetsStart,
       GetsCancelled, GetsResult, Discards, InSession, Hello
  <1>7. CASE Keys
    BY <1>1, <1>3, <1>7 DEF Keys, Opens, Begins, ToMenu, Leaves, Presses, Sent, LobbyReady
  <1>8. CASE Steps
    <2>1. CASE LevelSteps
      <3>1. Acknowledges
        BY <2>1 DEF LevelSteps, StaysInLevel, LeavesLevel, InLevel
      <3>2. CASE Acking /\ link = "up" /\ Asks(MatchLoaded(level.match))
        BY <1>0, <2>1, <3>2 DEF Asks, AcksNow, MatchLoaded
      <3>3. CASE UNCHANGED toServer
        BY <1>1, <3>3
      <3>. QED BY <3>1, <3>2, <3>3 DEF Acknowledges, Sent
    <2>. QED BY <1>1, <1>8, <2>1 DEF Steps, LobbySteps, ToMenu, OpensLobby, EntersLevel, Syncs
  <1>. QED BY <1>4, <1>5, <1>6, <1>7, <1>8 DEF StepCases

OldAt(k, d) == k + d \in 1 .. Len(toClient) /\ toClient'[k] = toClient[k + d]

\* One of these, and no other, is announced or started by the step.
NewAt(k) ==
  /\ toClient'[k].ready => toClient'[k].type = "LobbyState" /\ ready'
  /\ \/ toClient'[k].type \notin {"LevelInfo", "MatchStart"} /\ toClient'[k].match \in {0, issued'}
     \/ /\ k = Len(toClient) + 1 /\ Len(toClient') > Len(toClient)
        /\ toClient'[k].type = "LevelInfo" /\ toClient'[k].match = issued + 1
        /\ stage = "lobby" /\ ready /\ issued' = issued + 1
     \/ AllLoaded /\ issued' = issued /\ toClient'[k].type = "MatchStart" /\ toClient'[k].match = issued

\* Where each message to the client comes from.
LEMMA ClientMail ==
  ASSUME Typed, StepCases
  PROVE  \E d \in {0, 1} : /\ d = 1 => Takes
                           /\ \A k \in 1 .. Len(toClient') : OldAt(k, d) \/ (d = 0 /\ NewAt(k))
  <1>0. Len(toClient) \in Nat /\ issued \in Nat
    BY TypedParts DEF Typed, TypeOK
  <1>1. CASE UNCHANGED toClient
    BY <1>0, <1>1 DEF OldAt
  <1>2. CASE Takes
    BY <1>0, <1>2 DEF Takes, OldAt
  <1>3. ASSUME NEW a, SaysOne(a), NewAt(Len(toClient) + 1)
        PROVE  \A k \in 1 .. Len(toClient') : OldAt(k, 0) \/ NewAt(k)
    BY <1>0, <1>3 DEF SaysOne, OldAt
  <1>4. CASE ServerMoves
    <2>1. CASE Refreshes
      <3>1. /\ SaysOne(LobbyMsg(ready')) /\ LobbyMsg(ready').type = "LobbyState"
            /\ LobbyMsg(ready').match = 0 /\ LobbyMsg(ready').ready = ready'
        BY <2>1 DEF Refreshes, LobbyMsg
      <3>2. NewAt(Len(toClient) + 1)
        BY <1>0, <3>1 DEF SaysOne, NewAt
      <3>. QED BY <1>3, <3>1, <3>2
    <2>2. CASE Forms
      <3>1. PICK a : SaysOne(a) /\ a.type = "LevelInfo" /\ a.match = issued + 1 /\ ~a.ready
        BY <2>2 DEF Forms, RoundMsg
      <3>2. NewAt(Len(toClient) + 1)
        BY <1>0, <2>2, <3>1 DEF SaysOne, NewAt, Forms
      <3>. QED BY <1>3, <3>1, <3>2
    <2>3. CASE FormsInVain
      <3>1. PICK a, b, c : /\ SaysThree(a, b, c) /\ a.type = "LevelInfo" /\ a.match = issued + 1
                           /\ b.type = "MatchCancelled" /\ b.match = issued + 1
                           /\ c.type = "LobbyState" /\ c.match = 0
                           /\ ~a.ready /\ ~b.ready /\ ~c.ready
        BY <2>3 DEF FormsInVain, RoundMsg, LobbyMsg
      <3>2. stage = "lobby" /\ ready /\ issued' = issued + 1
        BY <2>3 DEF FormsInVain
      <3>3. ASSUME NEW k \in 1 .. Len(toClient') PROVE OldAt(k, 0) \/ NewAt(k)
        <4>1. CASE k \in 1 .. Len(toClient)
          BY <1>0, <3>1, <4>1 DEF SaysThree, OldAt
        <4>2. CASE k = Len(toClient) + 1
          BY <1>0, <3>1, <3>2, <4>2 DEF SaysThree, NewAt
        <4>3. CASE k = Len(toClient) + 2 \/ k = Len(toClient) + 3
          <5>1. /\ toClient'[k].type \notin {"LevelInfo", "MatchStart"} /\ ~toClient'[k].ready
                /\ toClient'[k].match \in {0, issued'}
            BY <3>1, <3>2, <4>3 DEF SaysThree
          <5>. QED BY <5>1 DEF NewAt
        <4>. QED BY <1>0, <3>1, <4>1, <4>2, <4>3, SMTT(30) DEF SaysThree
      <3>. QED BY <3>3
    <2>4. CASE Cancels
      <3>1. PICK a, b : /\ SaysTwo(a, b) /\ a.type \notin {"LevelInfo", "MatchStart"} /\ a.match = issued'
                        /\ b.type = "LobbyState" /\ b.match = 0 /\ ~a.ready /\ ~b.ready
        BY <2>4 DEF Cancels, RoundMsg, LobbyMsg
      <3>. QED BY <1>0, <3>1 DEF SaysTwo, NewAt, OldAt
    <2>5. CASE Ends
      BY <1>0, <1>3, <2>5 DEF Ends, SaysOne, RoundMsg, NewAt
    <2>6. CASE Returns
      BY <1>0, <1>3, <2>6 DEF Returns, SaysOne, LobbyMsg, NewAt
    <2>7. CASE Starts
      BY <1>0, <1>3, <2>7 DEF Starts, SaysOne, RoundMsg, NewAt
    <2>8. CASE StartsInVain
      BY <1>0, <2>8 DEF StartsInVain, SaysThree, RoundMsg, LobbyMsg, NewAt, OldAt
    <2>9. CASE Readies
      BY <1>0, <1>3, <2>9 DEF Readies, SaysOne, LobbyMsg, NewAt
    <2>. QED BY <1>1, <1>4, <2>1, <2>2, <2>3, <2>4, <2>5, <2>6, <2>7, <2>8, <2>9 DEF ServerMoves, ServerSteps,
            CountsOne, Ignores
  <1>5. CASE Elsewhere
    BY <1>1, <1>5 DEF Elsewhere
  <1>6. CASE Joins
    BY <1>0, <1>6 DEF Joins, SaysTwo, Event, LobbyMsg, NewAt, OldAt
  <1>7. CASE Rejects
    BY <1>0, <1>3, <1>7 DEF Rejects, SaysOne, Event, NewAt
  <1>8. CASE LinkSteps
    <2>1. CASE LinksUp
      BY <1>0, <1>3, <2>1 DEF LinksUp, SaysOne, Event, NewAt
    <2>2. CASE Loses
      BY <1>0, <2>2 DEF Loses, CutsTo, Event, NewAt, OldAt
    <2>. QED BY <1>1, <1>8, <2>1, <2>2 DEF LinkSteps, LetsGo
  <1>9. CASE Drops
    BY <1>0, <1>9 DEF Drops
  <1>10. CASE Messages
    <2>1. \A type : Gets(type) => Takes
      BY DEF Gets
    <2>. QED BY <1>2, <1>10, <2>1 DEF Messages, Connects, Welcomed, GetsNews, GetsOldLevel, GetsLobby, GetsStart,
            GetsCancelled, GetsResult, Discards, InSession
  <1>11. CASE Keys \/ Steps
    BY <1>1, <1>11 DEF Keys, Steps, Opens, Begins, ToMenu, Leaves, Presses, LobbySteps, LevelSteps,
       OpensLobby, EntersLevel, Syncs, StaysInLevel, LeavesLevel, InLevel, SameLink
  <1>. QED BY <1>4, <1>5, <1>6, <1>7, <1>8, <1>9, <1>10, <1>11 DEF StepCases

\* Whoever counts as loaded did so before, or has just said so.
LEMMA LoadedOrigin ==
  ASSUME Typed, StageInv, StepCases, loaded'
  PROVE  issued' = issued /\ (loaded \/ (stage = "loading" /\ Reads /\ Acks(1, issued)))
  <1>0. ready \in BOOLEAN /\ loaded \in BOOLEAN
    BY DEF Typed, TypeOK
  <1>1. CASE SameStream
    BY <1>1 DEF SameStream
  <1>2. ~Gone /\ ~Joins
    BY DEF Gone, Joins
  <1>3. CASE ServerMoves
    <2>1. ~Forms /\ ~FormsInVain /\ ~Cancels /\ ~Returns /\ ~StartsInVain
      BY DEF Forms, FormsInVain, Cancels, Returns, StartsInVain, StageInv
    <2>2. CASE Refreshes \/ Ends \/ Readies \/ Ignores
      BY <2>2 DEF Refreshes, Ends, Readies, Ignores
    <2>3. CASE Starts \/ CountsOne
      BY <2>3 DEF Starts, AllLoaded, CountsOne
    <2>. QED BY <1>3, <2>1, <2>2, <2>3 DEF ServerMoves, ServerSteps
  <1>4. ~Elsewhere
    BY DEF Elsewhere, StageInv
  <1>5. CASE Rejects \/ LinkSteps \/ Drops
    BY <1>1, <1>2, <1>5 DEF Rejects, LinkSteps, LinksUp, LetsGo, Loses, Drops
  <1>6. CASE Messages
    <2>1. \A type : Gets(type) => SameStream
      BY DEF Gets
    <2>2. SameStream
      BY <1>6, <2>1 DEF Messages, Connects, Welcomed, GetsNews, GetsOldLevel, GetsLobby, GetsStart,
         GetsCancelled, GetsResult, Discards, InSession
    <2>. QED BY <1>1, <2>2
  <1>7. CASE Keys \/ Steps
    BY <1>1, <1>7 DEF Keys, Steps, Opens, Begins, ToMenu, Leaves, Presses, LobbySteps, LevelSteps,
       OpensLobby, EntersLevel, Syncs, StaysInLevel, LeavesLevel, InLevel, SameLink
  <1>. QED BY <1>2, <1>3, <1>4, <1>5, <1>6, <1>7 DEF StepCases

-----------------------------------------------------------------------------
(* What becomes of the cached match and of the level scene. *)

FlowDropped == flow'.level = 0 /\ ~flow'.pending /\ flow'.start = 0 /\ flow'.result = 0
FlowKept ==
  /\ flow'.level = flow.level
  /\ flow.pending /\ ~EntersLevel => flow'.pending
  /\ flow'.pending => flow.pending /\ (lobby = NoLobby => lobby' = NoLobby)
  /\ flow'.result \in {flow.result, flow.level}
  /\ \/ flow'.start = flow.start
     \/ /\ Len(toClient) > 0 /\ toClient[1].type = "MatchStart"
        /\ flow'.start = toClient[1].match /\ toClient[1].match = flow.level

\* The client's match flow gets news, is dropped or stays.
LEMMA FlowCases ==
  ASSUME Typed, OrderInv, StepCases
  PROVE  GetsNews \/ FlowDropped \/ FlowKept
  <1>0. /\ flow \in [level : Nat, pending : BOOLEAN, start : Nat, cancelled : Nat, result : Nat]
        /\ level.match \in Nat
    BY TypedInParts DEF RestTyped
  <1>1. CASE UNCHANGED <<flow, lobby>>
    BY <1>1 DEF FlowKept
  <1>2. CASE flow' = NoFlow
    BY <1>2 DEF FlowDropped, NoFlow
  <1>3. CASE ServerMoves \/ Elsewhere \/ Joins \/ Rejects \/ LinkSteps
    BY <1>1, <1>3 DEF ServerMoves, Elsewhere, Joins, Rejects, LinkSteps, LinksUp, LetsGo, Loses,
       ClientIdle, sessionVars
  <1>4. CASE Drops \/ Keys
    BY <1>1, <1>2, <1>4 DEF Drops, Keys, Opens, Begins, ToMenu, Leaves, Presses, sessionVars
  <1>5. CASE Messages
    <2>1. CASE Connects \/ Welcomed \/ GetsOldLevel \/ Discards
      BY <1>1, <2>1 DEF Connects, Welcomed, GetsOldLevel, Discards, sessionVars
    <2>2. CASE GetsLobby
      <3>1. CASE flow.level # 0
        BY <1>2, <2>2, <3>1 DEF GetsLobby
      <3>2. CASE flow.level = 0
        <4>1. flow' = flow
          BY <2>2, <3>2 DEF GetsLobby
        <4>2. ~flow.pending
          BY <1>0, <3>2 DEF OrderInv
        <4>. QED BY <4>1, <4>2 DEF FlowKept
      <3>. QED BY <3>1, <3>2
    <2>3. CASE GetsStart
      <3>1. CASE StartsMatch(toClient[1].match)
        <4>1. /\ flow' = [flow EXCEPT !.start = toClient[1].match] /\ UNCHANGED lobby
              /\ Len(toClient) > 0 /\ toClient[1].type = "MatchStart"
          BY <2>3, <3>1 DEF GetsStart, InSession, Gets, Takes
        <4>. QED BY <1>0, <3>1, <4>1 DEF FlowKept, StartsMatch
      <3>2. CASE ~StartsMatch(toClient[1].match)
        BY <1>1, <2>3, <3>2 DEF GetsStart
      <3>. QED BY <3>1, <3>2
    <2>4. CASE GetsCancelled
      <3>1. CASE flow' = flow
        BY <1>1, <2>4, <3>1 DEF GetsCancelled
      <3>2. CASE flow' = [NoFlow EXCEPT !.cancelled = toClient[1].match]
        BY <3>2 DEF FlowDropped, NoFlow
      <3>3. CASE flow' = [flow EXCEPT !.cancelled = toClient[1].match]
        BY <1>0, <2>4, <3>3 DEF GetsCancelled, FlowKept
      <3>. QED BY <2>4, <3>1, <3>2, <3>3 DEF GetsCancelled
    <2>5. CASE GetsResult
      <3>1. CASE flow' = flow
        BY <1>1, <2>5, <3>1 DEF GetsResult
      <3>2. CASE flow' = [flow EXCEPT !.result = toClient[1].match] /\ flow.level = toClient[1].match
        BY <1>0, <2>5, <3>2 DEF GetsResult, FlowKept
      <3>. QED BY <2>5, <3>1, <3>2 DEF GetsResult
    <2>. QED BY <1>5, <2>1, <2>2, <2>3, <2>4, <2>5 DEF Messages
  <1>6. CASE Steps
    <2>1. CASE EntersLevel
      BY <1>0, <2>1 DEF EntersLevel, FlowKept
    <2>. QED BY <1>1, <1>6, <2>1 DEF Steps, LobbySteps, LevelSteps, ToMenu, OpensLobby, Syncs,
            StaysInLevel, LeavesLevel, InLevel, sessionVars
  <1>. QED BY <1>3, <1>4, <1>5, <1>6 DEF StepCases

\* What may happen to the scene and its level.
LEMMA LevelCases ==
  ASSUME Typed, StepCases
  PROVE  \/ UNCHANGED <<scene, level>>
         \/ scene' # "level" /\ level' = NoLevel
         \/ EntersLevel
         \/ StaysInLevel
  <1>1. ASSUME NEW s \in {"menu", "connect", "lobby"}, Show(s)
        PROVE  scene' # "level" /\ level' = NoLevel
    BY <1>1 DEF Show
  <1>2. CASE ServerMoves \/ Elsewhere \/ Joins \/ Rejects \/ LinkSteps
    BY <1>2 DEF ServerMoves, Elsewhere, Joins, Rejects, LinkSteps, LinksUp, LetsGo, Loses,
       ClientIdle, sceneVars
  <1>3. CASE Drops \/ Keys
    BY <1>1, <1>3 DEF Drops, Keys, Opens, Begins, ToMenu, Leaves, Presses, SameScene, sceneVars
  <1>4. CASE Messages
    <2>1. \A type : Gets(type) => UNCHANGED <<scene, level>>
      BY DEF Gets, SameScene, sceneVars
    <2>. QED BY <1>4, <2>1 DEF Messages, Connects, Welcomed, GetsNews, GetsOldLevel, GetsLobby, GetsStart,
         GetsCancelled, GetsResult, Discards, InSession
  <1>5. CASE Steps
    BY <1>1, <1>5 DEF Steps, LobbySteps, LevelSteps, ToMenu, OpensLobby, Syncs, LeavesLevel
  <1>. QED BY <1>2, <1>3, <1>4, <1>5 DEF StepCases

\* Match ids grow by one at a time.
LEMMA IssuedGrows ==
  ASSUME Typed, StepCases
  PROVE  issued \in Nat /\ (issued' = issued \/ issued' = issued + 1)
  <1>1. CASE SameStream \/ Gone
    BY <1>1 DEF SameStream, Gone, Typed, TypeOK
  <1>2. CASE ServerMoves \/ Elsewhere \/ Joins
    BY <1>2 DEF ServerMoves, Elsewhere, Joins, ServerSteps, Refreshes, Forms, FormsInVain, Cancels, Ends, Returns,
       Starts, StartsInVain, Readies, CountsOne, Ignores, Typed, TypeOK
  <1>3. CASE Rejects \/ LinkSteps \/ Drops
    BY <1>1, <1>3 DEF Rejects, LinkSteps, LinksUp, LetsGo, Loses, Drops
  <1>4. CASE Messages
    <2>1. \A type : Gets(type) => SameStream
      BY DEF Gets
    <2>. QED BY <1>1, <1>4, <2>1 DEF Messages, Connects, Welcomed, GetsNews, GetsOldLevel, GetsLobby, GetsStart,
         GetsCancelled, GetsResult, Discards, InSession
  <1>5. CASE Keys \/ Steps
    BY <1>1, <1>5 DEF Keys, Steps, Opens, Begins, ToMenu, Leaves, Presses, LobbySteps, LevelSteps,
       OpensLobby, EntersLevel, Syncs, StaysInLevel, LeavesLevel, InLevel, SameLink
  <1>. QED BY <1>2, <1>3, <1>4, <1>5 DEF StepCases

-----------------------------------------------------------------------------
(* Matches are announced in order, and none is acknowledged before the client shows it. *)

UnackedNext(m) ==
  /\ \A k \in 1 .. Len(toServer') : ~(toServer'[k].type = "MatchLoaded" /\ toServer'[k].match = m)
  /\ ~(loaded' /\ issued' = m)
  /\ flow'.start # m
  /\ \A k \in 1 .. Len(toClient') : ~(toClient'[k].type = "MatchStart" /\ toClient'[k].match = m)

\* A match whose level was not acknowledged stays so until it is.
LEMMA UnackedStays ==
  ASSUME Typed, StageInv, OrderInv, StepCases, NEW m \in Nat, m # 0, Unacked(m), ~AcksNow(m)
  PROVE  UnackedNext(m)
  <1>0. /\ Len(toClient) \in Nat /\ Len(toServer) \in Nat /\ level.match \in Nat /\ issued \in Nat
        /\ flow.start \in Nat
    BY TypedParts, TypedInParts DEF RestTyped, StreamTyped
  <1>1. \A k \in 1 .. Len(toServer') : ~(toServer'[k].type = "MatchLoaded" /\ toServer'[k].match = m)
    BY ServerMail DEF Unacked, Acks, AcksNow
  <1>2. ~(loaded' /\ issued' = m)
    BY <1>0, LoadedOrigin DEF Unacked, Reads
  <1>3. flow'.start # m
    <2>1. CASE GetsNews
      BY <2>1 DEF GetsNews, BeginBootstrap, NoFlow
    <2>2. CASE FlowDropped
      BY <2>2 DEF FlowDropped
    <2>3. CASE FlowKept
      BY <1>0, <2>3 DEF FlowKept, Unacked
    <2>. QED BY <2>1, <2>2, <2>3, FlowCases
  <1>4. \A k \in 1 .. Len(toClient') : ~(toClient'[k].type = "MatchStart" /\ toClient'[k].match = m)
    <2>1. AllLoaded => issued # m
      BY <1>0 DEF AllLoaded, Reads, Unacked
    <2>. QED BY <1>0, <2>1, ClientMail DEF OldAt, NewAt, Unacked
  <1>. QED BY <1>1, <1>2, <1>3, <1>4 DEF UnackedNext

\* Every step keeps the order of the messages.
LEMMA OrderStep ==
  ASSUME Typed, StageInv, SceneInv, OrderInv, StepCases, Typed'
  PROVE  OrderInv'
  <1>0. /\ Len(toClient) \in Nat /\ Len(toServer) \in Nat /\ level.match \in Nat /\ issued \in Nat
        /\ flow.level \in Nat /\ flow.start \in Nat
        /\ \A k \in 1 .. Len(toClient) : toClient[k].match \in Nat
        /\ \A k \in 1 .. Len(toServer) : toServer[k].match \in Nat
    BY TypedParts, TypedInParts DEF RestTyped, StreamTyped
  <1>t. /\ flow \in [level : Nat, pending : BOOLEAN, start : Nat, cancelled : Nat, result : Nat]
        /\ level \in [match : Nat, acked : BOOLEAN, started : BOOLEAN, over : BOOLEAN]
    BY TypedInParts DEF RestTyped
  <1>00. /\ Len(toClient') \in Nat /\ Len(toServer') \in Nat /\ issued' \in Nat
         /\ flow'.level \in Nat /\ level'.match \in Nat
         /\ \A k \in 1 .. Len(toClient') : toClient'[k].match \in Nat
         /\ \A k \in 1 .. Len(toServer') : toServer'[k].match \in Nat
    BY TypedNext, TypedInParts DEF RestTyped, StreamTyped
  <1>o1. /\ \A k \in 1 .. Len(toClient) :
              toClient[k].match <= issued /\ (toClient[k].ready => toClient[k].type = "LobbyState")
         /\ \A k \in 1 .. Len(toServer) : toServer[k].match <= issued
         /\ flow.level <= issued /\ level.match <= issued
         /\ flow.start \in {0, flow.level} /\ flow.result \in {0, flow.level}
    BY DEF OrderInv
  <1>o2. \A k \in 1 .. Len(toClient) : toClient[k].type = "LevelInfo" =>
           /\ toClient[k].match > flow.level /\ toClient[k].match > level.match
           /\ Unacked(toClient[k].match)
    BY DEF OrderInv
  <1>o3. \A k \in 1 .. Len(toClient) : toClient[k].type = "LevelInfo" =>
           \A i \in 1 .. Len(toClient) : i < k /\ toClient[i].type = "LevelInfo" =>
             toClient[i].match < toClient[k].match
    BY DEF OrderInv
  <1>o4. /\ flow.pending => flow.level > level.match /\ Unacked(flow.level) /\ lobby = NoLobby
         /\ scene = "level" /\ ~level.acked => Unacked(level.match)
         /\ level.started => level.acked
    BY DEF OrderInv
  <1>m. PICK d \in {0, 1} : \A k \in 1 .. Len(toClient') : OldAt(k, d) \/ (d = 0 /\ NewAt(k))
    BY ClientMail
  <1>1. issued' = issued \/ issued' = issued + 1
    BY IssuedGrows
  <1>2. \A k \in 1 .. Len(toClient') :
           toClient'[k].match <= issued' /\ (toClient'[k].ready => toClient'[k].type = "LobbyState")
    <2> SUFFICES ASSUME NEW k \in 1 .. Len(toClient')
                 PROVE  /\ toClient'[k].match <= issued'
                        /\ toClient'[k].ready => toClient'[k].type = "LobbyState"
      OBVIOUS
    <2>1. CASE OldAt(k, d)
      <3>1. toClient'[k] = toClient[k + d] /\ k + d \in 1 .. Len(toClient)
        BY <2>1 DEF OldAt
      <3>. QED BY <1>0, <1>1, <1>o1, <3>1
    <2>2. CASE NewAt(k)
      <3>1. toClient'[k].match \in {0, issued'}
        BY <1>0, <2>2 DEF NewAt
      <3>. QED BY <1>00, <2>2, <3>1 DEF NewAt
    <2>. QED BY <1>m, <2>1, <2>2
  <1>3. \A k \in 1 .. Len(toServer') : toServer'[k].match <= issued'
    BY <1>0, <1>1, <1>o1, ServerMail, SMTT(30)
  <1>4. GetsNews => /\ Takes /\ toClient[1].type = "LevelInfo" /\ flow'.level = toClient[1].match
                    /\ flow'.start = 0 /\ flow'.result = 0 /\ lobby' = NoLobby /\ Len(toClient) > 0
                    /\ UNCHANGED <<scene, level>>
    BY DEF GetsNews, InSession, Gets, SameScene, sceneVars, Takes, BeginBootstrap, NoFlow
  <1>5. level'.match \in {level.match, 0} \/ (EntersLevel /\ level'.match = flow.level)
    <2>1. CASE UNCHANGED <<scene, level>> \/ level' = NoLevel
      BY <2>1 DEF NoLevel
    <2>2. CASE EntersLevel
      BY <2>2 DEF NoLevel, EntersLevel
    <2>3. CASE StaysInLevel
      BY <1>t, <2>3 DEF StaysInLevel
    <2>. QED BY <2>1, <2>2, <2>3, LevelCases
  <1>6. flow'.level <= issued' /\ level'.match <= issued'
    <2>1. flow'.level <= issued
      BY <1>0, <1>4, <1>o1, FlowCases DEF FlowDropped, FlowKept
    <2>2. level'.match <= issued
      BY <1>0, <1>5, <1>o1
    <2>. QED BY <1>0, <1>00, <1>1, <2>1, <2>2
  <1>7. flow'.start \in {0, flow'.level} /\ flow'.result \in {0, flow'.level}
    BY <1>0, <1>4, <1>o1, FlowCases DEF FlowDropped, FlowKept
  <1>8. Unacked(issued + 1)
    BY <1>0, <1>o1 DEF Unacked, Acks
  <1>9. \A m \in Nat : m > level.match /\ Unacked(m) => UnackedNext(m)
    BY <1>0, UnackedStays DEF AcksNow
  <1>10. ASSUME NEW k \in 1 .. Len(toClient'), toClient'[k].type = "LevelInfo"
         PROVE  /\ toClient'[k].match > flow'.level /\ toClient'[k].match > level'.match
                /\ UnackedNext(toClient'[k].match)
                /\ \A i \in 1 .. Len(toClient') : i < k /\ toClient'[i].type = "LevelInfo" =>
                     toClient'[i].match < toClient'[k].match
    <2>1. CASE GetsNews
      <3>1. k + 1 \in 1 .. Len(toClient) /\ toClient'[k] = toClient[k + 1]
        BY <1>0, <1>4, <2>1 DEF Takes
      <3>2. /\ toClient[k + 1].match > toClient[1].match /\ toClient[k + 1].match > level.match
            /\ Unacked(toClient[k + 1].match)
        BY <1>0, <1>4, <1>10, <1>o2, <1>o3, <2>1, <3>1
      <3>3. UnackedNext(toClient'[k].match)
        BY <1>0, <1>9, <3>1, <3>2
      <3>4. \A i \in 1 .. Len(toClient') : i < k /\ toClient'[i].type = "LevelInfo" =>
                     toClient'[i].match < toClient'[k].match
        <4> SUFFICES ASSUME NEW i \in 1 .. Len(toClient'), i < k, toClient'[i].type = "LevelInfo"
                     PROVE  toClient'[i].match < toClient'[k].match
          OBVIOUS
        <4>1. i + 1 \in 1 .. Len(toClient) /\ toClient'[i] = toClient[i + 1] /\ i + 1 < k + 1
          BY <1>0, <1>4, <2>1 DEF Takes
        <4>. QED BY <1>10, <1>o3, <3>1, <4>1
      <3>5. flow'.level = toClient[1].match /\ level'.match = level.match
        BY <1>4, <2>1
      <3>6. toClient'[k].match > flow'.level /\ toClient'[k].match > level'.match
        BY <3>1, <3>2, <3>5
      <3>. QED BY <3>3, <3>4, <3>6
    <2>2. CASE ~GetsNews
      <3>1. flow'.level \in {flow.level, 0} /\ level'.match \in {level.match, flow.level, 0}
        BY <1>5, <2>2, FlowCases DEF FlowDropped, FlowKept
      <3>2. \A i \in 1 .. Len(toClient') : OldAt(i, d) \/ (d = 0 /\ NewAt(i))
        BY <1>m
      <3>3. CASE OldAt(k, d)
        <4>1. /\ toClient'[k].match > flow.level /\ toClient'[k].match > level.match
              /\ Unacked(toClient'[k].match) /\ toClient'[k].match \in Nat
          BY <1>0, <1>10, <1>o2, <3>3 DEF OldAt
        <4>2. \A i \in 1 .. Len(toClient') : i < k /\ toClient'[i].type = "LevelInfo" =>
                     toClient'[i].match < toClient'[k].match
          <5> SUFFICES ASSUME NEW i \in 1 .. Len(toClient'), i < k, toClient'[i].type = "LevelInfo"
                       PROVE  toClient'[i].match < toClient'[k].match
            OBVIOUS
          <5>0. i < k /\ i \in Nat /\ k \in Nat /\ toClient'[i].type = "LevelInfo"
            BY <1>00
          <5>1. OldAt(i, d)
            <6>1. k + d <= Len(toClient)
              BY <3>3 DEF OldAt
            <6>2. ~NewAt(i) \/ d # 0
              BY <1>0, <1>00, <5>0, <6>1 DEF NewAt
            <6>. QED BY <3>2, <6>2
          <5>2. /\ k + d \in 1 .. Len(toClient) /\ i + d \in 1 .. Len(toClient) /\ i + d < k + d
                /\ toClient'[k] = toClient[k + d] /\ toClient'[i] = toClient[i + d]
            BY <3>3, <5>0, <5>1 DEF OldAt
          <5>3. toClient[k + d].type = "LevelInfo" /\ toClient[i + d].type = "LevelInfo"
            BY <1>10, <5>0, <5>2
          <5>. QED BY <1>o3, <5>2, <5>3
        <4>3. UnackedNext(toClient'[k].match)
          BY <1>9, <4>1
        <4>. QED BY <1>0, <3>1, <4>1, <4>2, <4>3
      <3>4. CASE d = 0 /\ ~OldAt(k, d)
        <4>1. k = Len(toClient) + 1 /\ toClient'[k].match = issued + 1
          BY <1>10, <3>2, <3>4 DEF NewAt
        <4>2. UnackedNext(issued + 1)
          BY <1>0, <1>8, <1>9, <1>o1
        <4>3. \A i \in 1 .. Len(toClient') : i < k /\ toClient'[i].type = "LevelInfo" =>
                     toClient'[i].match < toClient'[k].match
          BY <1>0, <1>o1, <3>2, <3>4, <4>1, SMTT(30) DEF OldAt, NewAt
        <4>4. flow.level <= issued /\ level.match <= issued
          BY <1>o1
        <4>5. toClient'[k].match > flow'.level /\ toClient'[k].match > level'.match
          BY <1>0, <3>1, <4>1, <4>4
        <4>6. UnackedNext(toClient'[k].match)
          BY <4>1, <4>2
        <4>. QED BY <4>3, <4>5, <4>6
      <3>. QED BY <3>2, <3>3, <3>4
    <2>. QED BY <2>1, <2>2
  <1>11. flow'.pending => flow'.level > level'.match /\ UnackedNext(flow'.level) /\ lobby' = NoLobby
    <2> SUFFICES ASSUME flow'.pending PROVE flow'.level > level'.match /\ UnackedNext(flow'.level) /\ lobby' = NoLobby
      OBVIOUS
    <2>1. CASE GetsNews
      <3>1. flow'.level > level.match /\ Unacked(flow'.level)
        BY <1>0, <1>4, <1>o2, <2>1
      <3>2. UnackedNext(flow'.level)
        BY <1>00, <1>9, <3>1
      <3>. QED BY <1>4, <2>1, <3>1, <3>2
    <2>2. CASE ~GetsNews
      <3>1. FlowKept
        BY <2>2, FlowCases DEF FlowDropped
      <3>2. flow.pending /\ flow'.level = flow.level /\ ~EntersLevel
        BY <1>t, <3>1 DEF FlowKept, EntersLevel
      <3>3. flow.level > level.match /\ Unacked(flow.level) /\ lobby = NoLobby
        BY <3>2, <1>o4
      <3>4. UnackedNext(flow'.level)
        BY <1>0, <1>9, <3>2, <3>3
      <3>5. lobby' = NoLobby
        BY <3>1, <3>3 DEF FlowKept
      <3>. QED BY <1>0, <1>5, <3>2, <3>3, <3>4, <3>5
    <2>. QED BY <2>1, <2>2
  <1>12. scene' = "level" /\ ~level'.acked => UnackedNext(level'.match)
    <2> SUFFICES ASSUME scene' = "level", ~level'.acked PROVE UnackedNext(level'.match)
      OBVIOUS
    <2>1. CASE EntersLevel
      <3>1. flow.level > level.match /\ Unacked(flow.level) /\ level'.match = flow.level
        BY <2>1, <1>o4 DEF EntersLevel, NoLevel
      <3>. QED BY <1>0, <1>9, <3>1
    <2>2. CASE ~EntersLevel
      <3>1. scene = "level" /\ ~level.acked /\ level'.match = level.match
        <4>1. CASE UNCHANGED <<scene, level>>
          BY <4>1
        <4>2. CASE StaysInLevel
          BY <1>t, <4>2 DEF StaysInLevel, InLevel
        <4>. QED BY <2>2, <4>1, <4>2, LevelCases
      <3>2. ~AcksNow(level.match)
        <4>1. CASE StaysInLevel
          <5>1. link = "up" /\ Acking => level'.acked
            BY <1>t, <4>1 DEF StaysInLevel, CanQueue
          <5>. QED BY <5>1 DEF AcksNow
        <4>2. \A timedOut : ~LeavesLevel(timedOut)
          BY DEF LeavesLevel, Show
        <4>. QED BY <4>1, <4>2 DEF AcksNow, LevelSteps
      <3>3. level.match # 0 /\ Unacked(level.match)
        BY <3>1, <1>o4 DEF SceneInv
      <3>. QED BY <1>0, <3>1, <3>2, <3>3, UnackedStays
    <2>. QED BY <2>1, <2>2
  <1>13. level'.started => level'.acked
    <2>1. CASE UNCHANGED level \/ level' = NoLevel \/ EntersLevel
      BY <2>1, <1>o4 DEF NoLevel, EntersLevel
    <2>2. CASE StaysInLevel
      <3>1. /\ level'.started = (level.started \/ flow.start = level.match)
            /\ level.acked => level'.acked
            /\ scene = "level"
        BY <1>t, <2>2 DEF StaysInLevel, InLevel
      <3>2. ~level.acked => ~level.started /\ flow.start # level.match
        BY <3>1, <1>o4 DEF Unacked
      <3>. QED BY <3>1, <3>2
    <2>. QED BY <2>1, <2>2, LevelCases
  <1>14. \A k \in 1 .. Len(toClient') : UnackedNext(toClient'[k].match) => Unacked(toClient[k].match)'
    BY DEF Unacked, UnackedNext, Acks
  <1>15. /\ UnackedNext(flow'.level) => Unacked(flow.level)'
         /\ UnackedNext(level'.match) => Unacked(level.match)'
    BY DEF Unacked, UnackedNext, Acks
  <1>. QED BY <1>2, <1>3, <1>6, <1>7, <1>10, <1>11, <1>12, <1>13, <1>14, <1>15 DEF OrderInv

-----------------------------------------------------------------------------
(* Nobody is ready whose start is still to come. *)

\* A request to be ready is read.
ReadsReady == Reads /\ toServer[1].type = "LobbyReady" /\ toServer[1].ready

\* What may happen to the client's seat.
LEMMA SeatCases ==
  ASSUME Typed, StageInv, StepCases
  PROVE  /\ stage = "away" => stage' = "away" \/ Joins
         /\ issued' = issued \/ (stage = "away" /\ ~ready') \/ (stage = "lobby" /\ ready /\ ~ready')
         /\ ready' => (ready \/ ReadsReady) /\ stage = "lobby" /\ UNCHANGED <<stage, issued>>
  <1>0. ready \in BOOLEAN /\ loaded \in BOOLEAN /\ issued \in Nat
    BY DEF Typed, TypeOK
  <1>1. CASE SameStream
    BY <1>0, <1>1 DEF SameStream, StageInv
  <1>2. CASE Gone
    BY <1>2 DEF Gone
  <1>3. CASE ServerMoves
    <2>1. CASE Refreshes
      <3>1. stage = "lobby" /\ UNCHANGED <<stage, issued>> /\ ready' \in {ready, FALSE}
        BY <2>1 DEF Refreshes
      <3>2. ready' => ready
        BY <3>1
      <3>. QED BY <3>1, <3>2
    <2>2. CASE Forms \/ FormsInVain
      BY <1>0, <2>2 DEF Forms, FormsInVain
    <2>3. CASE Cancels \/ Returns
      BY <1>0, <2>3 DEF Cancels, Returns
    <2>4. CASE Ends
      BY <1>0, <2>4 DEF Ends, StageInv
    <2>5. CASE Starts
      BY <1>0, <2>5 DEF Starts, AllLoaded, StageInv
    <2>6. CASE StartsInVain
      BY <1>0, <2>6 DEF StartsInVain, AllLoaded
    <2>7. CASE Readies
      BY <1>0, <2>7 DEF Readies, ReadsReady
    <2>8. CASE CountsOne \/ Ignores
      BY <1>0, <2>8 DEF CountsOne, Ignores, StageInv
    <2>. QED BY <1>3, <2>1, <2>2, <2>3, <2>4, <2>5, <2>6, <2>7, <2>8 DEF ServerMoves, ServerSteps
  <1>4. CASE Elsewhere
    BY <1>0, <1>4 DEF Elsewhere, StageInv
  <1>8. CASE Joins
    BY <1>0, <1>8 DEF Joins
  <1>5. CASE Rejects \/ LinkSteps \/ Drops
    BY <1>1, <1>2, <1>5 DEF Rejects, LinkSteps, LinksUp, LetsGo, Loses, Drops
  <1>6. CASE Messages
    <2>1. \A type : Gets(type) => SameStream
      BY DEF Gets
    <2>. QED BY <1>1, <1>6, <2>1 DEF Messages, Connects, Welcomed, GetsNews, GetsOldLevel, GetsLobby, GetsStart,
         GetsCancelled, GetsResult, Discards, InSession
  <1>7. CASE Keys \/ Steps
    BY <1>1, <1>7 DEF Keys, Steps, Opens, Begins, ToMenu, Leaves, Presses, LobbySteps, LevelSteps,
       OpensLobby, EntersLevel, Syncs, StaysInLevel, LeavesLevel, InLevel, SameLink
  <1>. QED BY <1>3, <1>4, <1>5, <1>6, <1>7, <1>8 DEF StepCases

\* What the client sends comes last, and only a press asks to be ready.
AskedAt(k) == k = Len(toServer) + 1 /\ (toServer'[k].type = "LobbyReady" => \E desired \in BOOLEAN : Presses(desired))
KeptAt(k, e) == k + e \in 1 .. Len(toServer) /\ toServer'[k] = toServer[k + e]

\* The order of the messages to the server.
LEMMA ServerOrder ==
  ASSUME Typed, StepCases
  PROVE  \E e \in {0, 1} : /\ e = 1 => Reads
                           /\ \A k \in 1 .. Len(toServer') : KeptAt(k, e) \/ (e = 0 /\ AskedAt(k))
  <1>0. Len(toServer) \in Nat
    BY TypedParts
  <1>1. CASE UNCHANGED toServer \/ toServer' = <<>>
    BY <1>0, <1>1 DEF KeptAt
  <1>2. CASE Reads
    BY <1>0, <1>2 DEF Reads, KeptAt
  <1>3. ASSUME NEW a, Asks(a), a.type = "LobbyReady" => \E desired \in BOOLEAN : Presses(desired)
        PROVE  \A k \in 1 .. Len(toServer') : KeptAt(k, 0) \/ AskedAt(k)
    BY <1>0, <1>3 DEF Asks, KeptAt, AskedAt
  <1>4. CASE ServerMoves \/ Elsewhere \/ Joins \/ Rejects
    BY <1>1, <1>2, <1>4 DEF ServerMoves, Elsewhere, Joins, Rejects, ServerSteps, Refreshes, Forms, FormsInVain,
       Cancels, Ends, Returns, Starts, StartsInVain, AllLoaded, Readies, CountsOne, Ignores
  <1>5. CASE LinkSteps \/ Drops
    BY <1>1, <1>5 DEF LinkSteps, LinksUp, LetsGo, Loses, Drops
  <1>6. CASE Messages
    <2>1. CASE UNCHANGED toServer
      BY <1>1, <2>1
    <2>2. CASE Connects /\ Asks(Hello)
      BY <1>3, <2>2 DEF Hello
    <2>. QED BY <1>6, <2>1, <2>2 DEF Messages, Connects, Welcomed, GetsNews, GetsOldLevel, GetsLobby, GetsStart,
       GetsCancelled, GetsResult, Discards, InSession
  <1>7. CASE Keys
    <2>1. ASSUME NEW desired \in BOOLEAN, Presses(desired)
          PROVE  UNCHANGED toServer \/ Asks(LobbyReady(desired))
      BY <2>1 DEF Presses, Sent
    <2>. QED BY <1>1, <1>3, <1>7, <2>1 DEF Keys, Opens, Begins, ToMenu, Leaves
  <1>8. CASE Steps
    <2>1. CASE LevelSteps
      <3>1. Acknowledges
        BY <2>1 DEF LevelSteps, StaysInLevel, LeavesLevel, InLevel
      <3>2. CASE Asks(MatchLoaded(level.match))
        BY <1>3, <3>2 DEF MatchLoaded
      <3>3. CASE UNCHANGED toServer
        BY <1>1, <3>3
      <3>. QED BY <3>1, <3>2, <3>3 DEF Acknowledges, Sent
    <2>. QED BY <1>1, <1>8, <2>1 DEF Steps, LobbySteps, ToMenu, OpensLobby, EntersLevel, Syncs
  <1>. QED BY <1>4, <1>5, <1>6, <1>7, <1>8 DEF StepCases

\* A level that is not entered anew stays the same match.
LEMMA StaysIn ==
  ASSUME Typed, StepCases, scene' = "level", ~EntersLevel
  PROVE  /\ scene = "level" /\ level'.match = level.match
         /\ level'.started => level.started \/ flow.start = level.match
  <1>1. level \in [match : Nat, acked : BOOLEAN, started : BOOLEAN, over : BOOLEAN]
    BY TypedInParts DEF RestTyped
  <1>2. CASE UNCHANGED <<scene, level>>
    BY <1>2
  <1>3. CASE StaysInLevel
    BY <1>1, <1>3 DEF StaysInLevel, InLevel
  <1>. QED BY <1>2, <1>3, LevelCases

\* No step brings a request behind an acknowledgement that was counted.
LEMMA CountedStep ==
  ASSUME Typed, StageInv, ConnInv, SceneInv, OrderInv, CountedInv, StepCases, Typed'
  PROVE  CountedInv'
  <1>0. /\ Len(toServer) \in Nat /\ Len(toClient) \in Nat /\ Len(toServer') \in Nat
        /\ flow.level \in Nat /\ flow.start \in Nat /\ level.match \in Nat
    BY TypedParts, TypedNext, TypedInParts DEF RestTyped
  <1>1. SUFFICES ASSUME scene' = "level"
                 PROVE  /\ \A i, k \in 1 .. Len(toServer') :
                             Acks(i, level.match)' /\ i < k => toServer'[k].type # "LobbyReady"
                        /\ Counted(level.match)' =>
                             NoRequests' /\ (stage' = "away" \/ (issued' = level'.match /\ ~ready'))
    BY DEF CountedInv
  <1>2. CASE EntersLevel
    <2>1. /\ UNCHANGED <<toServer, toClient, loaded, issued>> /\ level'.match = flow.level
          /\ ~level'.started /\ flow.pending
      BY <1>2 DEF EntersLevel, SameLink, SameStream, NoLevel
    <2>2. flow'.start = flow.start
      <3>1. flow \in [level : Nat, pending : BOOLEAN, start : Nat, cancelled : Nat, result : Nat]
        BY TypedInParts DEF RestTyped
      <3>. QED BY <1>2, <3>1 DEF EntersLevel
    <2>3. Unacked(flow.level)
      BY <2>1 DEF OrderInv
    <2>. QED BY <2>1, <2>2, <2>3 DEF Unacked, Counted, Acks
  <1>3. CASE ~EntersLevel
    <2>1. /\ scene = "level" /\ level'.match = level.match
          /\ level'.started => level.started \/ flow.start = level.match
      BY <1>1, <1>3, StaysIn
    <2>2. PICK e \in {0, 1} : /\ e = 1 => Reads
                              /\ \A k \in 1 .. Len(toServer') : KeptAt(k, e) \/ (e = 0 /\ AskedAt(k))
      BY ServerOrder
    <2>3. \A k \in 1 .. Len(toServer') : AskedAt(k) => toServer'[k].type # "LobbyReady"
      BY <2>1 DEF AskedAt, Presses
    <2>4. /\ \A i, k \in 1 .. Len(toServer) : Acks(i, level.match) /\ i < k => toServer[k].type # "LobbyReady"
          /\ Counted(level.match) => NoRequests /\ (stage = "away" \/ (issued = level.match /\ ~ready))
      BY <2>1 DEF CountedInv
    <2>5. ASSUME NEW i \in 1 .. Len(toServer'), NEW k \in 1 .. Len(toServer'), Acks(i, level.match)', i < k
          PROVE  toServer'[k].type # "LobbyReady"
      <3>1. toServer'[i].type = "MatchLoaded" /\ toServer'[i].match = level.match
        BY <2>1, <2>5 DEF Acks
      <3>2. CASE KeptAt(k, e)
        <4>1. KeptAt(i, e)
          BY <1>0, <2>2, <2>5, <3>2 DEF KeptAt, AskedAt
        <4>. QED BY <1>0, <2>4, <2>5, <3>1, <3>2, <4>1 DEF KeptAt, Acks
      <3>. QED BY <2>2, <2>3, <3>2
    <2>6. ASSUME Counted(level.match)'
          PROVE  Counted(level.match) \/ (stage = "loading" /\ Reads /\ Acks(1, issued) /\ issued = level.match)
      <3>1. CASE loaded' /\ issued' = level.match
        BY <3>1, LoadedOrigin DEF Counted
      <3>2. CASE flow'.start = level.match
        <4>1. CASE GetsNews
          BY <2>1, <3>2, <4>1 DEF GetsNews, BeginBootstrap, NoFlow, SceneInv
        <4>2. CASE FlowDropped
          BY <2>1, <3>2, <4>2 DEF FlowDropped, SceneInv
        <4>3. CASE FlowKept
          BY <1>0, <3>2, <4>3 DEF FlowKept, Counted
        <4>. QED BY <4>1, <4>2, <4>3, FlowCases
      <3>3. CASE \E k \in 1 .. Len(toClient') : toClient'[k].type = "MatchStart" /\ toClient'[k].match = level.match
        <4>1. PICK k \in 1 .. Len(toClient') : toClient'[k].type = "MatchStart" /\ toClient'[k].match = level.match
          BY <3>3
        <4>2. PICK d \in {0, 1} : OldAt(k, d) \/ (d = 0 /\ NewAt(k))
          BY ClientMail
        <4>3. CASE OldAt(k, d)
          BY <4>1, <4>3 DEF OldAt, Counted
        <4>4. CASE NewAt(k)
          BY <4>1, <4>4 DEF NewAt, AllLoaded, Counted
        <4>. QED BY <4>2, <4>3, <4>4
      <3>4. CASE level'.started
        BY <2>1, <3>4 DEF Counted
      <3>. QED BY <2>1, <2>6, <3>1, <3>2, <3>3, <3>4 DEF Counted
    <2>7. ASSUME NoRequests, stage = "away" \/ (issued = level.match /\ ~ready)
          PROVE  NoRequests' /\ (stage' = "away" \/ (issued' = level'.match /\ ~ready'))
      <3>1. NoRequests'
        BY <2>2, <2>3, <2>7 DEF NoRequests, KeptAt
      <3>2. ~Joins
        <4>1. ~Joins \/ (Len(toServer) > 0 /\ toServer[1].type = "Hello" /\ stage = "away")
          BY DEF Joins, Reads
        <4>2. Len(toServer) > 0 /\ stage = "away" => state = "Handshaking"
          BY DEF ConnInv
        <4>. QED BY <2>1, <4>1, <4>2 DEF SceneInv
      <3>3. ~ReadsReady
        BY <1>0, <2>7 DEF ReadsReady, Reads, NoRequests
      <3>. QED BY <2>1, <2>7, <3>1, <3>2, <3>3, SeatCases
    <2>8. ASSUME stage = "loading", Reads, Acks(1, issued), issued = level.match
          PROVE  NoRequests' /\ (stage' = "away" \/ (issued' = level'.match /\ ~ready'))
      <3>1. NoRequests'
        <4> SUFFICES ASSUME NEW k \in 1 .. Len(toServer') PROVE toServer'[k].type # "LobbyReady"
          BY DEF NoRequests
        <4>1. toServer'[k] = toServer[k + 1] /\ 1 \in 1 .. Len(toServer) /\ k + 1 \in 1 .. Len(toServer) /\ 1 < k + 1
          BY <1>0, <2>8 DEF Reads
        <4>. QED BY <2>4, <2>8, <4>1
      <3>2. ~ReadsReady
        BY <2>8 DEF ReadsReady, Acks
      <3>. QED BY <2>1, <2>8, <3>1, <3>2, SeatCases DEF StageInv
    <2>9. Counted(level.match)' => NoRequests' /\ (stage' = "away" \/ (issued' = level'.match /\ ~ready'))
      BY <2>4, <2>6, <2>7, <2>8
    <2>. QED BY <2>5, <2>9
  <1>. QED BY <1>2, <1>3

-----------------------------------------------------------------------------
(* A client that counts as ready has asked for it. *)

\* A session begins with a Welcome.
LEMMA SessionOrigin ==
  ASSUME StepCases
  PROVE  /\ HasSession' => HasSession \/ Welcomed
         /\ state' = "Connected" => state = "Connected" \/ Welcomed
  <1>1. CASE UNCHANGED state
    BY <1>1 DEF HasSession
  <1>2. CASE ServerMoves \/ Elsewhere \/ Joins \/ Rejects \/ LinkSteps
    BY <1>1, <1>2 DEF ServerMoves, Elsewhere, Joins, Rejects, LinkSteps, LinksUp, LetsGo, Loses,
       ClientIdle, sessionVars
  <1>3. CASE Drops
    BY <1>3 DEF Drops, HasSession
  <1>4. CASE Messages
    BY <1>1, <1>4 DEF Messages, Connects, Welcomed, GetsNews, GetsOldLevel, GetsLobby, GetsStart,
       GetsCancelled, GetsResult, Discards, InSession, sessionVars, HasSession
  <1>5. CASE Keys
    BY <1>1, <1>5 DEF Keys, Opens, Begins, ToMenu, Leaves, Presses, sessionVars, HasSession
  <1>6. CASE Steps
    BY <1>1, <1>6 DEF Steps, ToMenu, LobbySteps, LevelSteps, OpensLobby, EntersLevel, Syncs,
       StaysInLevel, LeavesLevel, InLevel, sessionVars
  <1>. QED BY <1>2, <1>3, <1>4, <1>5, <1>6 DEF StepCases

\* Where the client's last request comes from.
LEMMA AskedOrigin ==
  ASSUME Typed, StepCases
  PROVE  \/ UNCHANGED asked /\ (retried => retried')
         \/ Presses(TRUE) /\ asked' = issued /\ UNCHANGED retried
         \/ Begins
  <1>0. retried \in BOOLEAN
    BY DEF Typed, TypeOK
  <1>1. CASE SameHistory \/ ClientIdle
    BY <1>1 DEF SameHistory, ClientIdle, historyVars
  <1>2. CASE ServerMoves \/ Elsewhere \/ Joins \/ Rejects \/ LinkSteps \/ Drops
    BY <1>1, <1>2 DEF ServerMoves, Elsewhere, Joins, Rejects, LinkSteps, LinksUp, LetsGo, Loses, Drops
  <1>3. CASE Messages
    <2>1. \A type : Gets(type) => SameHistory
      BY DEF Gets
    <2>. QED BY <1>1, <1>3, <2>1 DEF Messages, Connects, Welcomed, GetsNews, GetsOldLevel, GetsLobby,
            GetsStart, GetsCancelled, GetsResult, Discards, InSession
  <1>4. CASE Keys
    <2>1. ASSUME NEW desired \in BOOLEAN, Presses(desired)
          PROVE  \/ UNCHANGED <<asked, retried>>
                 \/ Presses(TRUE) /\ asked' = issued /\ UNCHANGED retried
      <3>1. CASE desired
        <4>1. desired = TRUE
          BY <3>1
        <4>. QED BY <2>1, <4>1 DEF Presses
      <3>2. CASE ~desired
        BY <2>1, <3>2 DEF Presses
      <3>. QED BY <3>1, <3>2
    <2>. QED BY <1>1, <1>4, <2>1 DEF Keys, Opens, ToMenu, Leaves
  <1>5. CASE Steps
    <2>1. ASSUME NEW timedOut \in BOOLEAN, Syncs(timedOut)
          PROVE  UNCHANGED asked /\ (retried => retried')
      BY <1>0, <2>1 DEF Syncs
    <2>. QED BY <1>1, <1>5, <2>1 DEF Steps, ToMenu, LobbySteps, LevelSteps, OpensLobby, EntersLevel,
            StaysInLevel, LeavesLevel, InLevel
  <1>. QED BY <1>2, <1>3, <1>4, <1>5 DEF StepCases

\* A seat that is not ready is not taken into a match.
LEMMA QuietSeat ==
  ASSUME Typed, StageInv, StepCases, QuietNow
  PROVE  /\ stage' \in {"lobby", "away"}
         /\ ready' => ReadsReady
         /\ issued' = issued \/ stage = "away"
  <1>0. ready \in BOOLEAN /\ ~ready
    BY DEF Typed, TypeOK, QuietNow
  <1>1. stage' \in {"lobby", "away"}
    <2>1. CASE SameStream \/ Gone
      BY <2>1 DEF SameStream, Gone, QuietNow
    <2>2. CASE ServerMoves
      BY <1>0, <2>2 DEF ServerMoves, ServerSteps, Refreshes, Forms, FormsInVain, Cancels, Ends, Returns,
         Starts, StartsInVain, AllLoaded, Readies, CountsOne, Ignores, QuietNow
    <2>3. CASE Elsewhere \/ Joins
      BY <2>3 DEF Elsewhere, Joins
    <2>4. CASE Rejects \/ LinkSteps \/ Drops
      BY <2>1, <2>4 DEF Rejects, LinkSteps, LinksUp, LetsGo, Loses, Drops
    <2>5. CASE Messages
      <3>1. \A type : Gets(type) => SameStream
        BY DEF Gets
      <3>. QED BY <2>1, <2>5, <3>1 DEF Messages, Connects, Welcomed, GetsNews, GetsOldLevel, GetsLobby, GetsStart,
           GetsCancelled, GetsResult, Discards, InSession
    <2>6. CASE Keys \/ Steps
      BY <2>1, <2>6 DEF Keys, Steps, Opens, Begins, ToMenu, Leaves, Presses, LobbySteps, LevelSteps,
         OpensLobby, EntersLevel, Syncs, StaysInLevel, LeavesLevel, InLevel, SameLink
    <2>. QED BY <2>1, <2>2, <2>3, <2>4, <2>5, <2>6 DEF StepCases
  <1>. QED BY <1>0, <1>1, SeatCases

\* A wish in flight was there before, unless the player has just pressed the key.
LEMMA WishOrigin ==
  ASSUME Typed, StepCases, NEW k \in 1 .. Len(toServer'), Wants(k)'
  PROVE  \/ \E i \in 1 .. Len(toServer) : Wants(i) /\ i >= k /\ (Reads => i = k + 1) /\ (~Reads => i = k)
         \/ Presses(TRUE) /\ k = Len(toServer) + 1
  <1>0. Len(toServer) \in Nat /\ k \in Nat
    <2>1. Len(toServer) \in Nat
      BY TypedParts
    <2>2. k \in Nat
      OBVIOUS
    <2>. QED BY <2>1, <2>2
  <1>1. toServer'[k].type = "LobbyReady" /\ toServer'[k].ready
    BY DEF Wants
  <1>2. CASE Reads
    <2>1. k + 1 \in 1 .. Len(toServer) /\ toServer'[k] = toServer[k + 1] /\ k + 1 >= k
      BY <1>0, <1>2 DEF Reads
    <2>2. Wants(k + 1)
      BY <1>1, <2>1 DEF Wants
    <2>. QED BY <1>2, <2>1, <2>2
  <1>3. CASE ~Reads
    <2>1. KeptAt(k, 0) \/ AskedAt(k)
      BY <1>3, ServerOrder
    <2>2. CASE KeptAt(k, 0)
      <3>1. k \in 1 .. Len(toServer) /\ toServer'[k] = toServer[k] /\ k >= k
        BY <1>0, <2>2 DEF KeptAt
      <3>2. Wants(k)
        BY <1>1, <3>1 DEF Wants
      <3>. QED BY <1>3, <3>1, <3>2
    <2>3. CASE AskedAt(k)
      <3>1. PICK desired \in BOOLEAN : Presses(desired)
        BY <1>1, <2>3 DEF AskedAt
      <3>2. k = Len(toServer) + 1
        BY <2>3 DEF AskedAt
      <3>3. Asks(LobbyReady(desired))
        BY <1>0, <3>1, <3>2 DEF Presses, Sent
      <3>4. desired
        BY <1>1, <3>2, <3>3 DEF Asks, LobbyReady
      <3>5. desired = TRUE
        BY <3>4
      <3>. QED BY <3>1, <3>2, <3>5
    <2>. QED BY <2>1, <2>2, <2>3
  <1>. QED BY <1>2, <1>3

\* A pending request stays pending until its echo is handled, or waited for in vain.
LEMMA WaitsStay ==
  ASSUME Typed, StepCases, Waits, state = "Connected", state' = "Connected", ~retried',
         Messages => ~toClient[1].ready /\ toClient[1].type # "LevelInfo"
  PROVE  Waits'
  <1>0. /\ pendingReady = "ready" /\ lobby # "ready" /\ scene = "lobby" /\ ~flow.pending
        /\ flow \in [level : Nat, pending : BOOLEAN, start : Nat, cancelled : Nat, result : Nat]
    BY TypedInParts DEF Waits, RestTyped
  <1>1. CASE UNCHANGED <<pendingReady, lobby, scene, flow>>
    BY <1>0, <1>1 DEF Waits
  <1>2. CASE ServerMoves \/ Elsewhere \/ Joins \/ Rejects \/ LinkSteps
    BY <1>1, <1>2 DEF ServerMoves, Elsewhere, Joins, Rejects, LinkSteps, LinksUp, LetsGo, Loses,
       ClientIdle, sceneVars, sessionVars
  <1>3. CASE Drops
    BY <1>3 DEF Drops
  <1>4. CASE Messages
    <2>1. \A type : Gets(type) => UNCHANGED <<pendingReady, scene>>
      BY DEF Gets, SameScene, sceneVars
    <2>2. UNCHANGED <<pendingReady, scene>>
      BY <1>4, <2>1 DEF Messages, Connects, Welcomed, GetsNews, GetsOldLevel, GetsLobby, GetsStart,
         GetsCancelled, GetsResult, Discards, InSession
    <2>3. lobby' # "ready" /\ ~flow'.pending
      <3>1. ~GetsNews
        BY <1>4 DEF GetsNews, InSession, Gets
      <3>2. CASE Connects \/ Welcomed \/ GetsOldLevel \/ Discards
        BY <1>0, <3>2 DEF Connects, Welcomed, GetsOldLevel, Discards, sessionVars
      <3>3. CASE GetsLobby
        <4>1. lobby' = "unready"
          BY <1>4, <3>3 DEF GetsLobby, FlagOf
        <4>2. ~flow'.pending
          BY <1>0, <3>3 DEF GetsLobby, NoFlow
        <4>. QED BY <4>1, <4>2
      <3>4. CASE GetsStart \/ GetsResult
        BY <1>0, <3>4 DEF GetsStart, GetsResult
      <3>5. CASE GetsCancelled
        BY <1>0, <3>5 DEF GetsCancelled, NoFlow
      <3>. QED BY <1>4, <3>1, <3>2, <3>3, <3>4, <3>5 DEF Messages
    <2>. QED BY <1>0, <2>2, <2>3 DEF Waits
  <1>5. CASE Keys
    <2>1. \A desired \in BOOLEAN : ~Presses(desired)
      BY <1>0 DEF Presses, MayRequest, NoRequest
    <2>. QED BY <1>0, <1>5, <2>1 DEF Keys, Opens, Begins, ToMenu, Leaves
  <1>6. CASE Steps
    <2>1. ASSUME NEW timedOut \in BOOLEAN, Syncs(timedOut) PROVE Waits'
      <3>1. ~timedOut /\ lobby # pendingReady
        BY <1>0, <2>1 DEF Syncs
      <3>. QED BY <1>1, <2>1, <3>1 DEF Syncs, sessionVars
    <2>. QED BY <1>0, <1>6, <2>1 DEF Steps, LobbySteps, LevelSteps, ToMenu, OpensLobby, EntersLevel,
            StaysInLevel, LeavesLevel, InLevel
  <1>. QED BY <1>2, <1>3, <1>4, <1>5, <1>6 DEF StepCases

\* What the server's side does to the messages in flight: some are lost with the
\* connection, and what comes in is ready only if the seat is.
FreshAt(k) ==
  /\ toClient'[k].ready => ready'
  /\ toClient'[k].type = "LevelInfo" => ready /\ stage' # "away"
  /\ toClient'[k].type = "LobbyState" /\ ~toClient'[k].ready =>
       k = Len(toClient') /\ ~ready' /\ stage' = "lobby"
Extends(n) ==
  /\ n <= Len(toClient') /\ (n = Len(toClient) \/ Gone)
  /\ \A k \in 1 .. n : toClient'[k] = toClient[k]
  /\ \A k \in 1 .. Len(toClient') : k > n => FreshAt(k)

StreamSteps == ServerMoves \/ Elsewhere \/ Joins \/ Rejects \/ LinkSteps

\* What the server sends goes after what was under way.
LEMMA StreamMail ==
  ASSUME Typed, StreamSteps
  PROVE  \E n \in 0 .. Len(toClient) : Extends(n)
  <1>0. Len(toClient) \in Nat /\ ready \in BOOLEAN
    BY TypedParts DEF Typed, TypeOK
  <1>1. CASE UNCHANGED toClient
    BY <1>0, <1>1 DEF Extends
  <1>2. ASSUME NEW a, SaysOne(a), FreshAt(Len(toClient) + 1) PROVE Extends(Len(toClient))
    BY <1>0, <1>2 DEF SaysOne, Extends
  <1>3. ASSUME NEW type, NEW m, SaysOne(RoundMsg(type, m)), type # "LobbyState",
               type = "LevelInfo" => ready /\ stage' # "away"
        PROVE  Extends(Len(toClient))
    <2>1. FreshAt(Len(toClient) + 1)
      BY <1>0, <1>3 DEF SaysOne, RoundMsg, FreshAt
    <2>. QED BY <1>2, <1>3, <2>1
  <1>4. ASSUME SaysOne(LobbyMsg(ready')), stage' = "lobby" PROVE Extends(Len(toClient))
    <2>1. FreshAt(Len(toClient) + 1)
      BY <1>0, <1>4 DEF SaysOne, LobbyMsg, FreshAt
    <2>. QED BY <1>2, <1>4, <2>1
  <1>5. ASSUME NEW a, NEW b, NEW c, SaysThree(a, b, c), a.type # "LobbyState", b.type # "LobbyState",
               ~a.ready, ~b.ready, ~c.ready, a.type = "LevelInfo" => ready,
               b.type # "LevelInfo", c.type = "LobbyState", ~ready', stage' = "lobby"
        PROVE  Extends(Len(toClient))
    <2>1. ASSUME NEW k \in 1 .. Len(toClient'), k > Len(toClient) PROVE FreshAt(k)
      BY <1>0, <1>5, <2>1 DEF SaysThree, FreshAt
    <2>. QED BY <1>0, <1>5, <2>1 DEF SaysThree, Extends
  <1>6. ASSUME NEW a, NEW b, SaysTwo(a, b), a.type \notin {"LobbyState", "LevelInfo"}, ~a.ready, ~b.ready,
               b.type = "LobbyState", ~ready', stage' = "lobby"
        PROVE  Extends(Len(toClient))
    <2>1. ASSUME NEW k \in 1 .. Len(toClient'), k > Len(toClient) PROVE FreshAt(k)
      BY <1>0, <1>6, <2>1 DEF SaysTwo, FreshAt
    <2>. QED BY <1>0, <1>6, <2>1 DEF SaysTwo, Extends
  <1>7. CASE ServerMoves
    <2>1. CASE Refreshes \/ Readies
      <3>1. SaysOne(LobbyMsg(ready')) /\ stage' = "lobby"
        BY <2>1 DEF Refreshes, Readies
      <3>. QED BY <1>0, <1>4, <3>1
    <2>2. CASE Forms
      BY <1>3, <2>2 DEF Forms
    <2>3. CASE FormsInVain
      <3>1. PICK a, b, c : /\ SaysThree(a, b, c) /\ a.type # "LobbyState" /\ b.type # "LobbyState"
                           /\ ~a.ready /\ ~b.ready /\ ~c.ready
                           /\ b.type # "LevelInfo" /\ c.type = "LobbyState"
        BY <2>3 DEF FormsInVain, RoundMsg, LobbyMsg
      <3>. QED BY <1>5, <2>3, <3>1 DEF FormsInVain
    <2>4. CASE Cancels
      <3>1. PICK a, b : /\ SaysTwo(a, b) /\ a.type \notin {"LobbyState", "LevelInfo"}
                        /\ ~a.ready /\ ~b.ready /\ b.type = "LobbyState"
        BY <2>4 DEF Cancels, RoundMsg, LobbyMsg
      <3>. QED BY <1>6, <2>4, <3>1 DEF Cancels
    <2>5. CASE Ends \/ Starts
      BY <1>3, <2>5 DEF Ends, Starts
    <2>6. CASE Returns
      <3>1. SaysOne(LobbyMsg(FALSE)) /\ ready' = FALSE /\ stage' = "lobby"
        BY <2>6 DEF Returns
      <3>2. SaysOne(LobbyMsg(ready'))
        BY <3>1
      <3>. QED BY <1>0, <1>4, <3>1, <3>2
    <2>7. CASE StartsInVain
      <3>1. PICK a, b, c : /\ SaysThree(a, b, c) /\ a.type \notin {"LobbyState", "LevelInfo"}
                           /\ b.type # "LobbyState"
                           /\ ~a.ready /\ ~b.ready /\ ~c.ready
                           /\ b.type # "LevelInfo" /\ c.type = "LobbyState"
        BY <2>7 DEF StartsInVain, RoundMsg, LobbyMsg
      <3>. QED BY <1>5, <2>7, <3>1 DEF StartsInVain
    <2>8. CASE CountsOne \/ Ignores
      BY <1>1, <2>8 DEF CountsOne, Ignores
    <2>9. Len(toClient) \in 0 .. Len(toClient)
      BY <1>0
    <2>. QED BY <1>7, <2>1, <2>2, <2>3, <2>4, <2>5, <2>6, <2>7, <2>8, <2>9 DEF ServerMoves, ServerSteps
  <1>8. CASE Elsewhere
    BY <1>1, <1>8 DEF Elsewhere
  <1>9. CASE Joins
    <2>1. PICK a, b : /\ SaysTwo(a, b) /\ a.type \notin {"LobbyState", "LevelInfo"}
                      /\ ~a.ready /\ ~b.ready /\ b.type = "LobbyState"
      BY <1>9 DEF Joins, Event, LobbyMsg
    <2>2. Extends(Len(toClient))
      BY <1>6, <1>9, <2>1 DEF Joins
    <2>. QED BY <1>0, <2>2
  <1>10. CASE Rejects \/ LinksUp
    <2>1. PICK a : SaysOne(a) /\ a.type \notin {"LobbyState", "LevelInfo"} /\ ~a.ready
      BY <1>10 DEF Rejects, LinksUp, Event
    <2>2. FreshAt(Len(toClient) + 1)
      BY <2>1 DEF SaysOne, FreshAt
    <2>. QED BY <1>0, <1>2, <2>1, <2>2
  <1>11. CASE LetsGo
    BY <1>1, <1>11 DEF LetsGo
  <1>12. CASE Loses
    <2>1. PICK n \in 0 .. Len(toClient) : CutsTo(n)
      BY <1>12 DEF Loses
    <2>2. FreshAt(n + 1)
      BY <2>1 DEF CutsTo, Event, FreshAt
    <2>3. Gone
      BY <1>12 DEF Loses
    <2>4. Extends(n)
      BY <1>0, <2>1, <2>2, <2>3 DEF CutsTo, Extends
    <2>. QED BY <2>4
  <1>. QED BY <1>7, <1>8, <1>9, <1>10, <1>11, <1>12 DEF StreamSteps, LinkSteps

\* The only request of a seat that is not ready is the one that waits.
WishWaits == \A k \in 1 .. Len(toServer) : Wants(k) => QuietNow /\ (state = "Connected" => Quiet(0) /\ Waits)

\* The server's messages echo the client's wish.
LEMMA EchoStream ==
  ASSUME Typed, Typed', StageInv, StreamSteps, state = "Connected", WishWaits, Echoed \/ Echoing
  PROVE  Echoed' \/ Echoing'
  <1>0. /\ Len(toClient) \in Nat /\ Len(toClient') \in Nat /\ Len(toServer) \in Nat
        /\ ready \in BOOLEAN /\ ready' \in BOOLEAN /\ StepCases
    BY TypedParts, TypedNext DEF Typed, TypeOK, StepCases, StreamSteps
  <1>1. UNCHANGED <<lobby, pendingReady, scene, flow>>
    BY DEF StreamSteps, ServerMoves, Elsewhere, Joins, Rejects, LinkSteps, LinksUp, LetsGo, Loses,
       ClientIdle, sceneVars, sessionVars
  <1>2. Waits => Waits'
    BY <1>1 DEF Waits
  <1>3. CASE ready' /\ ~ready
    <2>1. ReadsReady
      BY <1>0, <1>3, SeatCases
    <2>2. Quiet(0) /\ Waits
      <3>1. Wants(1) /\ 1 \in 1 .. Len(toServer)
        BY <1>0, <2>1 DEF ReadsReady, Reads, Wants
      <3>. QED BY <3>1 DEF WishWaits
    <2>3. SaysOne(LobbyMsg(ready'))
      <3>1. ~Gone /\ ~Elsewhere /\ ~Joins /\ ~SameStream
        BY <1>3 DEF Gone, Elsewhere, Joins, SameStream
      <3>2. ServerMoves
        BY <3>1 DEF StreamSteps, Rejects, LinkSteps, LinksUp, LetsGo, Loses
      <3>3. Readies \/ Refreshes
        BY <1>3, <3>2 DEF ServerMoves, ServerSteps, Forms, FormsInVain, Cancels, Ends, Returns,
           Starts, StartsInVain, CountsOne, Ignores
      <3>. QED BY <3>3 DEF Readies, Refreshes
    <2>j. PICK j \in Nat : j = Len(toClient) + 1
      BY <1>0
    <2>4. j \in 1 .. Len(toClient') /\ toClient'[j].ready /\ j = Len(toClient')
      BY <1>0, <1>3, <2>3, <2>j DEF SaysOne, LobbyMsg
    <2>5. \A k \in 1 .. Len(toClient') : k < j => ~toClient'[k].ready /\ toClient'[k].type # "LevelInfo"
      BY <1>0, <2>2, <2>3, <2>j DEF SaysOne, Quiet, NoReadyAfter, NoLevelAfter
    <2>6. EndsQuietly(j)'
      BY <1>0, <2>4 DEF EndsQuietly
    <2>. QED BY <1>2, <2>2, <2>4, <2>5, <2>6 DEF Echoing
  <1>4. CASE ~ready' \/ ready
    <2>1. QuietNow => QuietNow'
      BY <1>0, <1>4, QuietSeat DEF QuietNow
    <2>2. PICK n \in 0 .. Len(toClient) : Extends(n)
      BY StreamMail
    <2>3. /\ n \in Nat /\ n <= Len(toClient) /\ n <= Len(toClient') /\ (n = Len(toClient) \/ Gone)
          /\ \A k \in 1 .. n : toClient'[k] = toClient[k]
          /\ \A k \in 1 .. Len(toClient') : k > n => FreshAt(k)
      BY <1>0, <2>2 DEF Extends
    <2>4. ASSUME NEW k \in Nat, Quiet(k) PROVE Quiet(k)'
      <3>1. QuietNow'
        BY <2>1, <2>4 DEF Quiet
      <3>2. ASSUME NEW i \in 1 .. Len(toClient'), i > k
            PROVE  ~toClient'[i].ready /\ toClient'[i].type # "LevelInfo"
        <4>1. CASE i <= n
          BY <1>0, <2>3, <2>4, <3>2, <4>1 DEF Quiet, NoReadyAfter, NoLevelAfter
        <4>2. CASE i > n
          BY <1>0, <2>3, <2>4, <3>1, <3>2, <4>2 DEF FreshAt, Quiet, QuietNow
        <4>. QED BY <1>0, <2>3, <4>1, <4>2
      <3>. QED BY <3>1, <3>2 DEF Quiet, NoReadyAfter, NoLevelAfter
    <2>5. ASSUME NEW k \in 1 .. Len(toClient'), k > n, NotReady(k)' PROVE Quiet(k)'
      <3>1. k = Len(toClient') /\ ~ready' /\ stage' = "lobby"
        BY <2>3, <2>5 DEF FreshAt, NotReady
      <3>. QED BY <1>0, <3>1 DEF Quiet, QuietNow, NoReadyAfter, NoLevelAfter
    <2>6. ASSUME NEW j \in Nat, EndsQuietly(j) PROVE EndsQuietly(j)'
      <3> SUFFICES ASSUME NEW k \in 1 .. Len(toClient'), k > j, NotReady(k)' PROVE Quiet(k)'
        BY DEF EndsQuietly
      <3>1. CASE k > n
        BY <2>5, <3>1
      <3>2. CASE k <= n
        <4>1. k \in Nat /\ k \in 1 .. Len(toClient) /\ NotReady(k)
          BY <1>0, <2>3, <3>2 DEF NotReady
        <4>2. Quiet(k)
          BY <2>6, <4>1 DEF EndsQuietly
        <4>. QED BY <2>4, <4>1, <4>2
      <3>. QED BY <2>3, <3>1, <3>2
    <2>7. CASE Echoed
      <3>1. EndsQuietly(0)' /\ (lobby' = "unready" => Quiet(0)')
        BY <1>1, <2>4, <2>6, <2>7 DEF Echoed
      <3>. QED BY <3>1 DEF Echoed
    <2>8. CASE Echoing
      <3>1. PICK j \in 1 .. Len(toClient) :
              /\ toClient[j].ready
              /\ \A k \in 1 .. Len(toClient) : k < j => ~toClient[k].ready /\ toClient[k].type # "LevelInfo"
              /\ EndsQuietly(j)
        BY <2>8 DEF Echoing
      <3>2. Waits'
        BY <1>2, <2>8 DEF Echoing
      <3>3. CASE j <= n
        <4>1. j \in 1 .. Len(toClient') /\ toClient'[j].ready /\ j \in Nat
          BY <1>0, <2>3, <3>1, <3>3
        <4>2. \A k \in 1 .. Len(toClient') : k < j => ~toClient'[k].ready /\ toClient'[k].type # "LevelInfo"
          BY <1>0, <2>3, <3>1, <3>3
        <4>3. EndsQuietly(j)'
          BY <2>6, <3>1, <4>1
        <4>. QED BY <3>2, <4>1, <4>2, <4>3 DEF Echoing
      <3>4. CASE j > n
        <4>1. Gone /\ ~ready' /\ stage' = "away"
          BY <1>0, <2>3, <3>4 DEF Gone
        <4>2. ASSUME NEW k \in 1 .. Len(toClient')
              PROVE  ~toClient'[k].ready /\ toClient'[k].type # "LevelInfo"
          <5>1. CASE k <= n
            BY <1>0, <2>3, <3>1, <3>4, <5>1
          <5>2. CASE k > n
            BY <2>3, <4>1, <5>2 DEF FreshAt
          <5>. QED BY <1>0, <2>3, <5>1, <5>2
        <4>3. \A k \in Nat : Quiet(k)'
          BY <4>1, <4>2 DEF Quiet, QuietNow, NoReadyAfter, NoLevelAfter
        <4>4. EndsQuietly(0)' /\ Quiet(0)'
          BY <1>0, <4>3 DEF EndsQuietly
        <4>. QED BY <4>4 DEF Echoed
      <3>. QED BY <2>3, <3>3, <3>4
    <2>. QED BY <2>7, <2>8
  <1>. QED BY <1>0, <1>3, <1>4

\* A message handled leaves the wish echoed.
LEMMA EchoMessage ==
  ASSUME Typed, Typed', OrderInv, Messages, state = "Connected", state' = "Connected", ~retried',
         Echoed \/ Echoing
  PROVE  Echoed' \/ Echoing'
  <1>0. /\ Len(toClient) \in Nat /\ Len(toClient') \in Nat /\ StepCases
        /\ \A k \in 1 .. Len(toClient) : toClient[k].ready => toClient[k].type = "LobbyState"
    BY TypedParts, TypedNext DEF StepCases, OrderInv
  <1>1. Takes /\ SameStream
    <2>1. \A type : Gets(type) => Takes /\ SameStream
      BY DEF Gets
    <2>. QED BY <2>1 DEF Messages, Connects, Welcomed, GetsNews, GetsOldLevel, GetsLobby, GetsStart,
            GetsCancelled, GetsResult, Discards, InSession
  <1>2. lobby' = "unready" => lobby = "unready" \/ NotReady(1)
    <2>1. CASE GetsLobby
      BY <2>1 DEF GetsLobby, InSession, Gets, FlagOf, NotReady
    <2>2. CASE GetsNews
      BY <2>2 DEF GetsNews, NoLobby
    <2>. QED BY <2>1, <2>2 DEF Messages, Connects, Welcomed, GetsOldLevel, GetsStart,
            GetsCancelled, GetsResult, Discards, sessionVars
  <1>3. toClient[1].ready => lobby' = "ready"
    <2> SUFFICES ASSUME toClient[1].ready PROVE lobby' = "ready"
      OBVIOUS
    <2>1. toClient[1].type = "LobbyState"
      BY <1>0, <1>1 DEF Takes
    <2>2. \A type : Gets(type) => type = "LobbyState"
      BY <2>1 DEF Gets
    <2>3. GetsLobby
      BY <2>2 DEF Messages, Connects, Welcomed, GetsNews, GetsOldLevel, GetsStart,
         GetsCancelled, GetsResult, Discards, InSession
    <2>. QED BY <2>3 DEF GetsLobby, FlagOf
  <1>4. /\ QuietNow => QuietNow'
        /\ \A k \in 1 .. Len(toClient') : k + 1 \in 1 .. Len(toClient) /\ toClient'[k] = toClient[k + 1]
        /\ 1 \in 1 .. Len(toClient)
    BY <1>0, <1>1 DEF Takes, SameStream, QuietNow
  <1>5. ASSUME NEW k \in Nat, Quiet(k) \/ Quiet(k + 1) PROVE Quiet(k)'
    BY <1>0, <1>4, <1>5 DEF Quiet, NoReadyAfter, NoLevelAfter
  <1>6. ASSUME NEW j \in Nat, EndsQuietly(j) \/ EndsQuietly(j + 1) PROVE EndsQuietly(j)'
    <2> SUFFICES ASSUME NEW k \in 1 .. Len(toClient'), k > j, NotReady(k)' PROVE Quiet(k)'
      BY DEF EndsQuietly
    <2>1. k + 1 \in 1 .. Len(toClient) /\ k + 1 > j + 1 /\ k + 1 > j /\ k \in Nat
      BY <1>4
    <2>2. NotReady(k + 1)
      BY <1>4 DEF NotReady
    <2>3. Quiet(k + 1)
      BY <1>6, <2>1, <2>2 DEF EndsQuietly
    <2>. QED BY <1>5, <2>1, <2>3
  <1>7. CASE Echoed
    <2>1. EndsQuietly(0)'
      BY <1>6, <1>7 DEF Echoed
    <2>2. NotReady(1) => Quiet(1)
      BY <1>4, <1>7 DEF Echoed, EndsQuietly
    <2>3. Quiet(0) \/ Quiet(0 + 1) => Quiet(0)'
      BY <1>5
    <2>4. lobby' = "unready" => Quiet(0)'
      BY <1>2, <1>7, <2>2, <2>3 DEF Echoed
    <2>. QED BY <2>1, <2>4 DEF Echoed
  <1>8. CASE Echoing
    <2>1. PICK j \in 1 .. Len(toClient) :
            /\ toClient[j].ready
            /\ \A k \in 1 .. Len(toClient) : k < j => ~toClient[k].ready /\ toClient[k].type # "LevelInfo"
            /\ EndsQuietly(j)
      BY <1>8 DEF Echoing
    <2>2. CASE j = 1
      <3>1. EndsQuietly(0)'
        BY <1>6, <2>1, <2>2
      <3>2. lobby' # "unready"
        BY <1>3, <2>1, <2>2
      <3>. QED BY <3>1, <3>2 DEF Echoed
    <2>3. CASE j > 1
      <3>1. PICK i \in Nat : j = i + 1
        BY <1>0, <2>3
      <3>2. ~toClient[1].ready /\ toClient[1].type # "LevelInfo"
        BY <1>4, <2>1, <2>3
      <3>3. Waits'
        BY <1>0, <1>8, <3>2, WaitsStay DEF Echoing
      <3>4. i \in 1 .. Len(toClient') /\ toClient'[i].ready
        BY <1>0, <1>1, <1>4, <2>1, <2>3, <3>1 DEF Takes
      <3>5. \A k \in 1 .. Len(toClient') : k < i => ~toClient'[k].ready /\ toClient'[k].type # "LevelInfo"
        BY <1>0, <1>4, <2>1, <3>1
      <3>6. EndsQuietly(i)'
        BY <1>6, <2>1, <3>1
      <3>. QED BY <3>3, <3>4, <3>5, <3>6 DEF Echoing
    <2>. QED BY <1>0, <2>2, <2>3
  <1>. QED BY <1>7, <1>8

\* Keys and scenes leave the wish echoed.
LEMMA EchoElse ==
  ASSUME Typed, Keys \/ Steps, state = "Connected", state' = "Connected", ~retried', Echoed \/ Echoing
  PROVE  Echoed' \/ Echoing'
  <1>0. StepCases
    BY DEF StepCases
  <1>1. SameLink /\ UNCHANGED lobby
    BY DEF Keys, Steps, Opens, Begins, ToMenu, Leaves, Presses, LobbySteps, LevelSteps,
       OpensLobby, EntersLevel, Syncs, StaysInLevel, LeavesLevel, InLevel, sessionVars
  <1>2. \A n \in Nat : Quiet(n) => Quiet(n)'
    BY <1>1 DEF SameLink, SameStream, Quiet, QuietNow, NoReadyAfter, NoLevelAfter
  <1>3. UNCHANGED toClient
    BY <1>1 DEF SameLink
  <1>4. \A j \in Nat : EndsQuietly(j) => EndsQuietly(j)'
    <2> SUFFICES ASSUME NEW j \in Nat, EndsQuietly(j), NEW k \in 1 .. Len(toClient), k > j, NotReady(k)
                 PROVE  Quiet(k)'
      BY <1>3 DEF EndsQuietly, NotReady
    <2>1. Quiet(k) /\ k \in Nat
      BY DEF EndsQuietly
    <2>. QED BY <1>2, <2>1
  <1>5. CASE Echoed
    <2>1. EndsQuietly(0)' /\ (lobby' = "unready" => Quiet(0)')
      BY <1>1, <1>2, <1>4, <1>5 DEF Echoed
    <2>. QED BY <2>1 DEF Echoed
  <1>6. CASE Echoing
    <2>1. ~Messages \/ ~(Keys \/ Steps) \/ Takes
      <3>1. \A type : Gets(type) => Takes
        BY DEF Gets
      <3>. QED BY <3>1 DEF Messages, Connects, Welcomed, GetsNews, GetsOldLevel, GetsLobby, GetsStart,
              GetsCancelled, GetsResult, Discards, InSession
    <2>2. ~Messages
      BY <1>3, <2>1, TypedParts DEF Takes
    <2>3. Waits'
      BY <1>0, <1>6, <2>2, WaitsStay DEF Echoing
    <2>4. PICK j \in 1 .. Len(toClient) :
            /\ toClient[j].ready
            /\ \A k \in 1 .. Len(toClient) : k < j => ~toClient[k].ready /\ toClient[k].type # "LevelInfo"
            /\ EndsQuietly(j)
      BY <1>6 DEF Echoing
    <2>5. EndsQuietly(j)'
      BY <1>4, <2>4
    <2>. QED BY <1>3, <2>3, <2>4, <2>5 DEF Echoing
  <1>. QED BY <1>5, <1>6

\* A player who asks to be ready sees a lobby with an unready seat, and nothing on
\* its way will say otherwise.
LEMMA PressedQuiet ==
  ASSUME OrderInv, WishInv, EchoInv, Presses(TRUE)
  PROVE  Quiet(0) /\ NoWish /\ lobby = "unready" /\ ~flow.pending /\ scene = "lobby" /\ state = "Connected"
  <1>1. lobby = "unready" /\ pendingReady = NoRequest /\ state = "Connected" /\ scene = "lobby"
    BY DEF Presses, MayRequest
  <1>2. ~Waits
    BY <1>1 DEF Waits, NoRequest
  <1>3. Quiet(0)
    BY <1>1, <1>2 DEF EchoInv, Echoing, Echoed
  <1>4. NoWish
    BY <1>1, <1>2 DEF WishInv, NoWish
  <1>5. ~flow.pending
    BY <1>1 DEF OrderInv, NoLobby
  <1>. QED BY <1>1, <1>3, <1>4, <1>5

\* Without a wish on its way, none is but for the player's key.
LEMMA NoWishStays ==
  ASSUME Typed, StepCases, NoWish, ~Presses(TRUE)
  PROVE  NoWish'
  BY WishOrigin DEF NoWish

\* A request the server reads was one wished for.
LEMMA WishRead ==
  ASSUME Typed, ReadsReady
  PROVE  Wants(1) /\ 1 \in 1 .. Len(toServer)
  <1>1. Len(toServer) \in Nat
    BY TypedParts
  <1>. QED BY <1>1 DEF ReadsReady, Reads, Wants

\* Who is ready has asked for it in this lobby, after every step.
LEMMA AskedStep ==
  ASSUME Typed, StageInv, ConnInv, OrderInv, StepCases, ~Begins, AskedInv, WishInv, EchoInv
  PROVE  AskedInv'
  <1> SUFFICES ASSUME ready' PROVE asked' = issued' /\ NoWish'
    BY DEF AskedInv
  <1>1. (ready \/ ReadsReady) /\ stage = "lobby" /\ UNCHANGED <<stage, issued>>
    BY SeatCases
  <1>2. asked' = asked \/ asked' = issued
    BY AskedOrigin
  <1>3. CASE ready
    <2>1. asked = issued /\ NoWish
      BY <1>3 DEF AskedInv
    <2>2. ~Presses(TRUE)
      BY <1>3, PressedQuiet DEF Quiet, QuietNow
    <2>. QED BY <1>1, <1>2, <2>1, <2>2, NoWishStays
  <1>4. CASE ReadsReady
    <2>1. /\ Wants(1) /\ 1 \in 1 .. Len(toServer)
          /\ asked = issued /\ \A i \in 1 .. Len(toServer) : Wants(i) => i = 1
      BY <1>4, WishRead DEF WishInv
    <2>2. NoWish'
      <3> SUFFICES ASSUME NEW k \in 1 .. Len(toServer'), Wants(k)' PROVE FALSE
        BY DEF NoWish
      <3>1. ~Presses(TRUE)
        BY <2>1, PressedQuiet DEF NoWish
      <3>2. PICK i \in 1 .. Len(toServer) : Wants(i) /\ i = k + 1
        BY <1>4, <3>1, WishOrigin DEF ReadsReady
      <3>. QED BY <2>1, <3>2
    <2>. QED BY <1>1, <1>2, <2>1, <2>2
  <1>. QED BY <1>1, <1>3, <1>4

\* No request under way means none until one is made.
LEMMA QuietStays ==
  ASSUME Typed, Typed', StageInv, StepCases, Quiet(0), ~ReadsReady
  PROVE  Quiet(0)'
  <1>0. Len(toClient) \in Nat /\ Len(toClient') \in Nat /\ ready \in BOOLEAN /\ ready' \in BOOLEAN
    BY TypedParts, TypedNext DEF Typed, TypeOK
  <1>1. QuietNow'
    BY <1>0, QuietSeat DEF Quiet, QuietNow
  <1>2. PICK d \in {0, 1} : \A k \in 1 .. Len(toClient') : OldAt(k, d) \/ (d = 0 /\ NewAt(k))
    BY ClientMail
  <1>3. ASSUME NEW k \in 1 .. Len(toClient')
        PROVE  ~toClient'[k].ready /\ toClient'[k].type # "LevelInfo"
    <2>1. CASE OldAt(k, d)
      <3>1. k + d \in 1 .. Len(toClient) /\ k + d > 0 /\ toClient'[k] = toClient[k + d]
        BY <1>0, <2>1 DEF OldAt
      <3>. QED BY <3>1 DEF Quiet, NoReadyAfter, NoLevelAfter
    <2>2. CASE NewAt(k)
      BY <1>1, <2>2 DEF NewAt, Quiet, QuietNow
    <2>. QED BY <1>2, <2>1, <2>2
  <1>. QED BY <1>1, <1>3 DEF Quiet, NoReadyAfter, NoLevelAfter

\* A message handled was the first.
LEMMA MessageTaken ==
  ASSUME Typed, Messages
  PROVE  Takes /\ 1 \in 1 .. Len(toClient)
  <1>0. Len(toClient) \in Nat
    BY TypedParts
  <1>1. \A type : Gets(type) => Takes
    BY DEF Gets
  <1>2. Takes
    BY <1>1 DEF Messages, Connects, Welcomed, GetsNews, GetsOldLevel, GetsLobby, GetsStart,
       GetsCancelled, GetsResult, Discards, InSession
  <1>. QED BY <1>0, <1>2 DEF Takes

\* A ready request finds the lobby it was made in, after every step.
LEMMA WishStep ==
  ASSUME Typed, Typed', StageInv, ConnInv, OrderInv, StepCases, ~Begins, ~retried', WishInv, EchoInv
  PROVE  WishInv'
  <1>0. /\ Len(toServer) \in Nat /\ Len(toServer') \in Nat /\ ready \in BOOLEAN /\ ready' \in BOOLEAN
        /\ issued \in Nat
    BY TypedParts, TypedNext DEF Typed, TypeOK
  <1> SUFFICES ASSUME NEW k \in 1 .. Len(toServer'), Wants(k)'
               PROVE  /\ asked' = issued' /\ QuietNow' /\ \A i \in 1 .. Len(toServer') : Wants(i)' => i = k
                      /\ state' = "Connected" => Quiet(0)' /\ Waits'
    BY DEF WishInv
  <1>1. CASE Presses(TRUE)
    <2>1. Quiet(0) /\ NoWish /\ lobby = "unready" /\ ~flow.pending /\ scene = "lobby" /\ state = "Connected"
      BY <1>1, PressedQuiet
    <2>2. /\ UNCHANGED <<stage, issued, ready, toClient, lobby, flow, scene>> /\ asked' = issued
          /\ pendingReady' = "ready"
      BY <1>1 DEF Presses, SameLink, SameStream, sessionVars, FlagOf
    <2>3. Quiet(0)' /\ QuietNow'
      BY <2>1, <2>2 DEF Quiet, QuietNow, NoReadyAfter, NoLevelAfter
    <2>4. Waits'
      BY <2>1, <2>2 DEF Waits
    <2>5. \A i \in 1 .. Len(toServer') : Wants(i)' => i = Len(toServer) + 1
      BY <2>1, WishOrigin DEF NoWish
    <2>. QED BY <2>2, <2>3, <2>4, <2>5
  <1>2. CASE ~Presses(TRUE)
    <2>1. PICK n \in 1 .. Len(toServer) : Wants(n) /\ (Reads => n = k + 1) /\ (~Reads => n = k)
      BY <1>2, WishOrigin
    <2>2. /\ asked = issued /\ QuietNow /\ \A i \in 1 .. Len(toServer) : Wants(i) => i = n
          /\ state = "Connected" => Quiet(0) /\ Waits
      BY <2>1 DEF WishInv
    <2>3. ~ReadsReady
      <3> SUFFICES ASSUME ReadsReady PROVE FALSE
        OBVIOUS
      <3>1. Wants(1) /\ 1 \in 1 .. Len(toServer)
        BY WishRead
      <3>2. n = 1 /\ n = k + 1
        BY <2>1, <2>2, <3>1 DEF ReadsReady
      <3>. QED BY <1>0, <3>2
    <2>4. QuietNow'
      BY <1>0, <2>2, <2>3, QuietSeat DEF QuietNow
    <2>5. asked' = asked
      BY <1>2, AskedOrigin
    <2>6. issued' = issued
      <3>1. stage # "away"
        BY <2>1 DEF ConnInv, HelloOnly, Wants
      <3>. QED BY <2>2, <3>1, QuietSeat
    <2>7. ASSUME NEW i \in 1 .. Len(toServer'), Wants(i)' PROVE i = k
      <3>1. PICK m \in 1 .. Len(toServer) : Wants(m) /\ (Reads => m = i + 1) /\ (~Reads => m = i)
        BY <1>2, <2>7, WishOrigin
      <3>2. m = n
        BY <2>2, <3>1
      <3>. QED BY <1>0, <2>1, <3>1, <3>2
    <2>8. ASSUME state' = "Connected" PROVE Quiet(0)' /\ Waits'
      <3>1. state = "Connected"
        <4>1. ~Welcomed
          BY <2>1 DEF Welcomed, ConnInv, HasSession, HelloOnly, Wants
        <4>. QED BY <2>8, <4>1, SessionOrigin
      <3>2. Quiet(0) /\ Waits
        BY <2>2, <3>1
      <3>3. Quiet(0)'
        BY <2>3, <3>2, QuietStays
      <3>4. Messages => ~toClient[1].ready /\ toClient[1].type # "LevelInfo"
        BY <3>2, MessageTaken DEF Quiet, NoReadyAfter, NoLevelAfter
      <3>. QED BY <2>8, <3>1, <3>2, <3>3, <3>4, WaitsStay
    <2>. QED BY <2>2, <2>4, <2>5, <2>6, <2>7, <2>8
  <1>. QED BY <1>1, <1>2

\* Every step keeps the wish echoed.
LEMMA EchoStep ==
  ASSUME Typed, Typed', StageInv, ConnInv, OrderInv, StepCases, ~Begins, ~retried', WishInv, EchoInv
  PROVE  EchoInv'
  <1> SUFFICES ASSUME state' = "Connected" PROVE Echoed' \/ Echoing'
    BY DEF EchoInv
  <1>1. CASE Welcomed
    <2>1. /\ state # "Connected" /\ state # "Disconnecting"
          /\ Takes /\ UNCHANGED <<ready, stage, lobby>>
      BY <1>1 DEF Welcomed, Gets, SameStream
    <2>2. /\ lobby = NoLobby /\ ~ready /\ stage \in {"away", "lobby"}
          /\ \A k \in 1 .. Len(toClient) : toClient[k].type # "LevelInfo" /\ ~toClient[k].ready
      BY <2>1 DEF ConnInv, HasSession
    <2>3. Len(toClient) \in Nat /\ Len(toClient') \in Nat
      BY TypedParts, TypedNext
    <2>4. \A k \in 1 .. Len(toClient') : toClient'[k].type # "LevelInfo" /\ ~toClient'[k].ready
      BY <2>1, <2>2, <2>3 DEF Takes
    <2>5. \A n \in Nat : Quiet(n)'
      BY <2>1, <2>2, <2>4 DEF Quiet, QuietNow, NoReadyAfter, NoLevelAfter
    <2>6. EndsQuietly(0)'
      BY <2>3, <2>5 DEF EndsQuietly
    <2>. QED BY <2>1, <2>2, <2>6 DEF Echoed, NoLobby
  <1>2. CASE ~Welcomed
    <2>1. state = "Connected" /\ (Echoed \/ Echoing)
      BY <1>2, SessionOrigin DEF EchoInv
    <2>2. WishWaits
      BY DEF WishInv, WishWaits
    <2>3. ~Drops
      BY DEF Drops
    <2>. QED BY <2>1, <2>2, <2>3, EchoStream, EchoMessage, EchoElse DEF StepCases, StreamSteps
  <1>. QED BY <1>1, <1>2

\* Where no wish and no level is to come, none comes.
LEMMA BarrenStays ==
  ASSUME Typed, Typed', StageInv, StepCases, NEW n \in Nat, Barren(n), ~Presses(TRUE)
  PROVE  /\ Barren(n)'
         /\ \A m \in Nat : n = m + 1 /\ Takes => Barren(m)'
  <1>0. /\ Len(toClient) \in Nat /\ Len(toClient') \in Nat /\ Len(toServer) \in Nat
        /\ ready \in BOOLEAN /\ ready' \in BOOLEAN /\ issued \in Nat
    BY TypedParts, TypedNext DEF Typed, TypeOK
  <1>1. NoWish'
    BY NoWishStays DEF Barren
  <1>2. ~ready'
    <2>1. ~ReadsReady
      BY WishRead DEF Barren, NoWish
    <2>. QED BY <2>1, SeatCases DEF Barren
  <1>3. PICK d \in {0, 1} : \A k \in 1 .. Len(toClient') : OldAt(k, d) \/ (d = 0 /\ NewAt(k))
    BY ClientMail
  <1>4. ASSUME NEW k \in 1 .. Len(toClient'), toClient'[k].type = "LevelInfo"
        PROVE  k + d \in 1 .. Len(toClient) /\ toClient[k + d].type = "LevelInfo"
    <2>1. ~NewAt(k)
      BY <1>4 DEF NewAt, Barren
    <2>. QED BY <1>3, <1>4, <2>1 DEF OldAt
  <1>5. NoLevelAfter(n)'
    BY <1>0, <1>4 DEF Barren, NoLevelAfter
  <1>6. ASSUME NEW m \in Nat, n = m + 1, Takes PROVE NoLevelAfter(m)'
    <2> SUFFICES ASSUME NEW k \in 1 .. Len(toClient'), k > m PROVE toClient'[k].type # "LevelInfo"
      BY DEF NoLevelAfter
    <2>1. k + 1 \in 1 .. Len(toClient) /\ k + 1 > n /\ toClient'[k] = toClient[k + 1]
      BY <1>0, <1>6 DEF Takes
    <2>. QED BY <2>1 DEF Barren, NoLevelAfter
  <1>. QED BY <1>1, <1>2, <1>5, <1>6 DEF Barren

\* A match announced finds nobody ready, after every step.
LEMMA LevelsStep ==
  ASSUME Typed, Typed', StageInv, OrderInv, StepCases, AskedInv, WishInv, EchoInv, LevelsInv
  PROVE  LevelsInv'
  <1>0. Len(toClient) \in Nat /\ Len(toClient') \in Nat /\ issued \in Nat
    BY TypedParts, TypedNext DEF Typed, TypeOK
  <1> SUFFICES ASSUME NEW k \in 1 .. Len(toClient'), toClient'[k].type = "LevelInfo"
               PROVE  Barren(k)'
    BY DEF LevelsInv
  <1>1. PICK d \in {0, 1} : /\ d = 1 => Takes
                           /\ \A i \in 1 .. Len(toClient') : OldAt(i, d) \/ (d = 0 /\ NewAt(i))
    BY ClientMail
  <1>2. CASE OldAt(k, d)
    <2>1. k + d \in 1 .. Len(toClient) /\ k \in Nat /\ k + d \in Nat /\ k + d > 0
          /\ toClient[k + d].type = "LevelInfo"
      BY <1>0, <1>2 DEF OldAt
    <2>2. Barren(k + d)
      BY <2>1 DEF LevelsInv
    <2>3. ~Presses(TRUE)
      BY <2>1, PressedQuiet DEF Quiet, NoLevelAfter
    <2>4. CASE d = 0
      <3>1. k + d = k
        BY <2>1, <2>4
      <3>. QED BY <2>1, <2>2, <2>3, <3>1, BarrenStays
    <2>5. CASE d = 1
      <3>1. k + d = k + 1 /\ Takes
        BY <1>1, <2>5
      <3>. QED BY <2>1, <2>2, <2>3, <3>1, BarrenStays
    <2>. QED BY <2>4, <2>5
  <1>3. CASE d = 0 /\ ~OldAt(k, d)
    <2>1. /\ k = Len(toClient) + 1 /\ Len(toClient') > Len(toClient)
          /\ stage = "lobby" /\ ready /\ issued' = issued + 1
      BY <1>1, <1>3 DEF NewAt
    <2>2. ~Presses(TRUE)
      <3>1. \A desired : Presses(desired) => UNCHANGED issued
        BY DEF Presses, SameLink, SameStream
      <3>2. issued' # issued
        BY <1>0, <2>1
      <3>. QED BY <3>1, <3>2, Zenon
    <2>3. NoWish'
      BY <2>1, <2>2, NoWishStays DEF AskedInv
    <2>4. ~ready'
      BY <1>0, <2>1, SeatCases
    <2>5. ASSUME NEW i \in 1 .. Len(toClient'), i > k PROVE toClient'[i].type # "LevelInfo"
      <3>1. ~OldAt(i, d)
        BY <1>0, <1>3, <2>1, <2>5 DEF OldAt
      <3>2. NewAt(i) /\ i # Len(toClient) + 1
        BY <1>0, <1>1, <2>1, <2>5, <3>1
      <3>. QED BY <3>2 DEF NewAt
    <2>. QED BY <2>3, <2>4, <2>5 DEF Barren, NoLevelAfter
  <1>. QED BY <1>1, <1>2, <1>3

\* A match shown finds nobody ready, and its scene the cache, after every step.
LEMMA MatchStep ==
  ASSUME Typed, Typed', StageInv, ConnInv, SceneInv, OrderInv, StepCases, ~Begins,
         ~retried, ~retried', WishInv, EchoInv, LevelsInv, MatchInv
  PROVE  MatchInv'
  <1>0. /\ flow \in [level : Nat, pending : BOOLEAN, start : Nat, cancelled : Nat, result : Nat]
        /\ level \in [match : Nat, acked : BOOLEAN, started : BOOLEAN, over : BOOLEAN]
        /\ flow.level \in Nat /\ level.match \in Nat
    BY TypedInParts DEF RestTyped
  <1>1. CASE GetsNews
    <2>1. /\ Takes /\ toClient[1].type = "LevelInfo" /\ 1 \in 1 .. Len(toClient)
          /\ UNCHANGED <<scene, level>>
      <3>1. Messages
        BY <1>1 DEF Messages
      <3>2. 1 \in 1 .. Len(toClient)
        BY <3>1, MessageTaken
      <3>. QED BY <1>1, <3>2 DEF GetsNews, InSession, Gets, SameScene, sceneVars
    <2>2. Barren(1)
      BY <2>1 DEF LevelsInv
    <2>3. ~Presses(TRUE)
      <3>1. ~Quiet(0)
        BY <2>1 DEF Quiet, NoLevelAfter
      <3>. QED BY <3>1, PressedQuiet
    <2>4. Barren(0)'
      <3>1. 0 \in Nat /\ 1 \in Nat /\ 1 = 0 + 1
        OBVIOUS
      <3>. QED BY <2>1, <2>2, <2>3, <3>1, BarrenStays, Zenon
    <2>5. scene # "level"
      BY <2>1 DEF MatchInv, Barren, NoLevelAfter
    <2>. QED BY <2>1, <2>4, <2>5 DEF MatchInv, SceneMatchesCache
  <1>2. CASE ~GetsNews
    <2>1. FlowDropped \/ FlowKept
      BY <1>2, FlowCases
    <2>2. ASSUME flow'.pending \/ scene' = "level" PROVE Barren(0)'
      <3>1. flow.pending \/ scene = "level"
        <4>1. CASE flow'.pending
          BY <2>1, <4>1 DEF FlowDropped, FlowKept
        <4>2. CASE EntersLevel
          BY <4>2 DEF EntersLevel
        <4>3. CASE scene' = "level" /\ ~EntersLevel
          BY <4>3, StaysIn
        <4>. QED BY <2>2, <4>1, <4>2, <4>3
      <3>2. Barren(0)
        BY <3>1 DEF MatchInv
      <3>3. ~Presses(TRUE)
        BY <3>1, PressedQuiet
      <3>. QED BY <3>2, <3>3, BarrenStays
    <2>3. ASSUME scene' = "level", flow'.level # 0 PROVE flow'.level = level'.match
      <3>1. flow'.level = flow.level /\ flow.level # 0
        BY <2>1, <2>3 DEF FlowDropped, FlowKept
      <3>2. CASE EntersLevel
        BY <3>1, <3>2 DEF EntersLevel, NoLevel
      <3>3. CASE ~EntersLevel
        <4>1. scene = "level" /\ level'.match = level.match
          BY <2>3, <3>3, StaysIn
        <4>. QED BY <3>1, <4>1 DEF MatchInv, SceneMatchesCache
      <3>. QED BY <3>2, <3>3
    <2>. QED BY <2>2, <2>3 DEF MatchInv, SceneMatchesCache
  <1>. QED BY <1>1, <1>2

\* Where there is no session there is nothing to carry over.
LEMMA Sessionless ==
  ASSUME Typed', ConnInv', ~HasSession'
  PROVE  ReadyInv'
  <1>1. /\ flow' = NoFlow /\ lobby' = NoLobby /\ ~ready' /\ HelloOnly'
        /\ state' # "Connected"
        /\ \A k \in 1 .. Len(toClient') : toClient'[k].type # "LevelInfo"
    BY DEF ConnInv, HasSession
  <1>2. \A k \in 1 .. Len(toServer') : ~Wants(k)'
    BY <1>1 DEF HelloOnly, Wants
  <1>3. Barren(0)'
    BY <1>1, <1>2 DEF Barren, NoWish, NoLevelAfter
  <1>4. AskedInv' /\ EchoInv'
    BY <1>1 DEF AskedInv, EchoInv
  <1>5. WishInv' /\ LevelsInv'
    BY <1>1, <1>2 DEF WishInv, LevelsInv
  <1>6. SceneMatchesCache'
    BY <1>1 DEF SceneMatchesCache, NoFlow
  <1>7. MatchInv'
    BY <1>3, <1>6 DEF MatchInv
  <1>. QED BY <1>4, <1>5, <1>7 DEF ReadyInv

\* Every step keeps requests and flags in step until one is repeated.
LEMMA ReadyStep ==
  ASSUME Typed, Typed', StageInv, ConnInv, ConnInv', SceneInv, OrderInv, ReadyInv, StepCases
  PROVE  ReadyInv'
  <1>1. CASE Begins
    <2>1. ~HasSession'
      BY <1>1 DEF Begins, HasSession
    <2>. QED BY <2>1, Sessionless
  <1>2. CASE ~Begins
    <2> SUFFICES ASSUME ~retried' PROVE AskedInv' /\ WishInv' /\ EchoInv' /\ LevelsInv' /\ MatchInv'
      BY DEF ReadyInv
    <2>1. ~retried
      BY <1>2, AskedOrigin
    <2>2. AskedInv /\ WishInv /\ EchoInv /\ LevelsInv /\ MatchInv
      BY <2>1 DEF ReadyInv
    <2>. QED BY <1>2, <2>1, <2>2, AskedStep, WishStep, EchoStep, LevelsStep, MatchStep
  <1>. QED BY <1>1, <1>2

-----------------------------------------------------------------------------
(* Client and server agree: the client is told of everything, and rests only *)
(* when it has acted on it.                                                   *)

\* Where a cancelled match is known from.
LEMMA CancelledOrigin ==
  ASSUME Typed, StepCases
  PROVE  \/ flow'.cancelled \in {flow.cancelled, 0}
         \/ /\ Len(toClient) > 0 /\ toClient[1].type = "MatchCancelled"
            /\ flow'.cancelled = toClient[1].match
  <1>0. flow \in [level : Nat, pending : BOOLEAN, start : Nat, cancelled : Nat, result : Nat]
    BY TypedInParts DEF RestTyped
  <1>1. CASE UNCHANGED flow \/ flow' = NoFlow
    BY <1>1 DEF NoFlow
  <1>2. CASE ServerMoves \/ Elsewhere \/ Joins \/ Rejects \/ LinkSteps
    BY <1>1, <1>2 DEF ServerMoves, Elsewhere, Joins, Rejects, LinkSteps, LinksUp, LetsGo, Loses,
       ClientIdle, sessionVars
  <1>3. CASE Drops \/ Keys
    BY <1>1, <1>3 DEF Drops, Keys, Opens, Begins, ToMenu, Leaves, Presses, sessionVars
  <1>4. CASE Messages
    <2>1. CASE Connects \/ Welcomed \/ GetsOldLevel \/ Discards
      BY <1>1, <2>1 DEF Connects, Welcomed, GetsOldLevel, Discards, sessionVars
    <2>2. CASE GetsNews
      BY <2>2 DEF GetsNews, BeginBootstrap, NoFlow
    <2>3. CASE GetsLobby
      BY <1>1, <2>3 DEF GetsLobby
    <2>4. CASE GetsStart \/ GetsResult
      BY <1>0, <2>4 DEF GetsStart, GetsResult
    <2>5. CASE GetsCancelled
      <3>1. Len(toClient) > 0 /\ toClient[1].type = "MatchCancelled"
        BY <2>5 DEF GetsCancelled, InSession, Gets, Takes
      <3>2. UNCHANGED flow \/ flow'.cancelled = toClient[1].match
        BY <1>0, <2>5 DEF GetsCancelled, NoFlow
      <3>. QED BY <3>1, <3>2
    <2>. QED BY <1>4, <2>1, <2>2, <2>3, <2>4, <2>5 DEF Messages
  <1>5. CASE Steps
    <2>1. CASE EntersLevel
      BY <1>0, <2>1 DEF EntersLevel
    <2>. QED BY <1>1, <1>5, <2>1 DEF Steps, LobbySteps, LevelSteps, ToMenu, OpensLobby, Syncs,
            StaysInLevel, LeavesLevel, InLevel, sessionVars
  <1>. QED BY <1>2, <1>3, <1>4, <1>5 DEF StepCases

\* A client comes to hear everything by being given a seat.
LEMMA ToldOrigin ==
  ASSUME Typed, StageInv, ConnInv, StepCases, Told'
  PROVE  \/ Joins /\ state = "Handshaking" /\ UNCHANGED state
         \/ Told /\ (ServerMoves \/ Messages \/ Keys \/ Steps)
  <1>0. link' = "up" /\ state' \in {"Handshaking", "Connected"} /\ stage' # "away"
    BY DEF Told
  <1>1. ~Drops /\ ~Rejects /\ ~LetsGo /\ ~Loses /\ ~Elsewhere
    BY <1>0 DEF Drops, Rejects, LetsGo, Loses, Elsewhere
  <1>2. ~LinksUp
    BY <1>0 DEF LinksUp, ClientIdle, sessionVars, ConnInv
  <1>3. CASE Joins
    <2>1. Len(toServer) > 0 /\ stage = "away" /\ UNCHANGED state
      BY <1>3 DEF Joins, Reads, ClientIdle, sessionVars
    <2>. QED BY <1>3, <2>1 DEF ConnInv
  <1>4. CASE ServerMoves /\ ~Joins
    BY <1>0, <1>4, SeatCases DEF ServerMoves, ClientIdle, sessionVars, Told
  <1>5. CASE Messages
    <2>1. \A type : Gets(type) => UNCHANGED <<link, stage>>
      BY DEF Gets, SameStream
    <2>2. UNCHANGED <<link, stage>>
      BY <1>5, <2>1 DEF Messages, Connects, Welcomed, GetsNews, GetsOldLevel, GetsLobby, GetsStart,
         GetsCancelled, GetsResult, Discards, InSession
    <2>3. ~Connects
      BY <1>0, <2>2 DEF Connects, ConnInv
    <2>4. state \in {"Handshaking", "Connected"}
      BY <1>0, <1>5, <2>3 DEF Messages, Welcomed, GetsNews, GetsOldLevel, GetsLobby, GetsStart,
         GetsCancelled, GetsResult, Discards, InSession, sessionVars
    <2>. QED BY <1>0, <1>5, <2>2, <2>4 DEF Told
  <1>6. CASE Keys \/ Steps
    <2>1. ~Begins /\ ~Leaves
      BY <1>0 DEF Begins, Leaves
    <2>2. UNCHANGED <<link, stage, state>>
      BY <1>6, <2>1 DEF Keys, Steps, Opens, ToMenu, Presses, LobbySteps, LevelSteps, OpensLobby,
         EntersLevel, Syncs, StaysInLevel, LeavesLevel, InLevel, SameLink, SameStream, sessionVars
    <2>. QED BY <1>0, <1>6, <2>2 DEF Told
  <1>. QED BY <1>1, <1>2, <1>3, <1>4, <1>5, <1>6 DEF StepCases, LinkSteps

ToldParts == LobbyTold /\ LevelTold /\ RoundTold /\ NotCancelled /\ PlaysOn /\ AckSent

\* Whoever is in the lobby after a step has been told so last.
LEMMA LobbyLast ==
  ASSUME Typed', stage' = "lobby", ~loaded', Len(toClient') > 0, toClient'[Len(toClient')] = LobbyMsg(ready')
  PROVE  ToldParts'
  BY DEF ToldParts, LobbyTold, LevelTold, RoundTold, NotCancelled, PlaysOn, AckSent, InRound, LobbyMsg

\* When the last acknowledgement is in, this client has handled everything.
LEMMA AllHandled ==
  ASSUME Typed, StageInv, OrderInv, LevelTold, RoundTold,
         AllLoaded \/ (stage = "loading" /\ ~loaded /\ Reads /\ Acks(1, issued))
  PROVE  Len(toClient) = 0 /\ flow.level = issued /\ lobby = NoLobby /\ ~flow.pending
  <1>0. Len(toClient) \in Nat /\ Len(toServer) \in Nat /\ stage = "loading"
    BY TypedParts DEF AllLoaded
  <1>1. CASE loaded
    BY <1>0, <1>1 DEF RoundTold
  <1>2. CASE ~loaded
    <2>1. Acks(1, issued) /\ 1 \in 1 .. Len(toServer)
      BY <1>0, <1>2 DEF AllLoaded, Reads
    <2>2. ~Unacked(issued)
      BY <2>1 DEF Unacked
    <2>3. Len(toClient) = 0
      <3> SUFFICES ASSUME Len(toClient) > 0 PROVE FALSE
        BY <1>0
      <3>1. Len(toClient) \in 1 .. Len(toClient) /\ Says(Len(toClient), "LevelInfo")
        BY <1>0, <1>2 DEF LevelTold
      <3>. QED BY <2>2, <3>1 DEF OrderInv, Says
    <2>4. flow.level = issued /\ lobby = NoLobby
      BY <1>0, <1>2, <2>3 DEF LevelTold
    <2>5. ~flow.pending
      BY <2>2, <2>4 DEF OrderInv
    <2>. QED BY <2>3, <2>4, <2>5
  <1>. QED BY <1>1, <1>2

\* A client that joins has been told nothing.
LEMMA ToldJoins ==
  ASSUME Typed, Typed', StageInv, Joins, state = "Handshaking", UNCHANGED state
  PROVE  ToldParts'
  <1>1. PICK a : SaysTwo(a, LobbyMsg(FALSE))
    BY DEF Joins
  <1>2. Len(toClient) \in Nat
    BY TypedParts
  <1>3. Len(toClient') > 0 /\ toClient'[Len(toClient')] = LobbyMsg(FALSE)
    BY <1>1, <1>2 DEF SaysTwo
  <1>4. stage' = "lobby" /\ ready' = FALSE /\ ~loaded'
    BY DEF Joins
  <1>. QED BY <1>3, <1>4, LobbyLast

\* What the server does keeps what the client has been, or will be, told.
LEMMA ToldServer ==
  ASSUME Typed, Typed', StageInv, ConnInv, OrderInv, Told, ServerMoves, ToldParts,
         flow.cancelled <= issued
  PROVE  ToldParts'
  <1>0. /\ Len(toClient) \in Nat /\ Len(toServer) \in Nat /\ issued \in Nat
        /\ ready \in BOOLEAN /\ loaded \in BOOLEAN
        /\ flow.level \in Nat /\ flow.cancelled \in Nat /\ level.match \in Nat
        /\ flow.level <= issued /\ level.match <= issued
        /\ \A k \in 1 .. Len(toClient) : toClient[k].match \in Nat /\ toClient[k].match <= issued
    BY TypedParts, TypedInParts DEF RestTyped, StreamTyped, OrderInv
  <1>1. UNCHANGED <<link, state, flow, lobby, scene, level, gaveUp>>
    BY DEF ServerMoves, ClientIdle, sessionVars, sceneVars, historyVars
  <1>2. LobbyTold /\ LevelTold /\ RoundTold /\ NotCancelled /\ PlaysOn /\ AckSent
    BY DEF ToldParts
  <1>3. ASSUME stage' = "lobby", ~loaded', Len(toClient') > 0,
               toClient'[Len(toClient')] = LobbyMsg(ready')
        PROVE  ToldParts'
    BY <1>3, LobbyLast
  <1>4. CASE Refreshes \/ Readies
    <2>0. SaysOne(LobbyMsg(ready')) /\ stage = "lobby" /\ UNCHANGED <<stage, loaded>>
      BY <1>4, Zenon DEF Refreshes, Readies
    <2>1. SaysOne(LobbyMsg(ready')) /\ stage' = "lobby" /\ ~loaded'
      BY <2>0 DEF StageInv
    <2>2. Len(toClient') > 0 /\ toClient'[Len(toClient')] = LobbyMsg(ready')
      BY <1>0, <2>1 DEF SaysOne
    <2>. QED BY <1>3, <2>1, <2>2
  <1>5. CASE Forms
    <2>1. /\ stage' = "loading" /\ issued' = issued + 1 /\ ~loaded' /\ state' = "Connected"
      BY <1>1, <1>5 DEF Forms, ConnInv, HasSession, Told
    <2>2. PICK a : SaysOne(a) /\ a.type = "LevelInfo" /\ a.match = issued + 1
      BY <1>5 DEF Forms, RoundMsg
    <2>3. LevelTold'
      BY <1>0, <2>1, <2>2 DEF SaysOne, LevelTold, Says
    <2>4. NotCancelled'
      <3>1. \A k \in 1 .. Len(toClient') : toClient'[k].type = "MatchCancelled" => toClient'[k].match < issued'
        BY <1>0, <2>1, <2>2 DEF SaysOne
      <3>. QED BY <1>0, <1>1, <2>1, <3>1 DEF NotCancelled
    <2>5. PlaysOn' /\ AckSent'
      BY <1>0, <1>1, <2>1 DEF PlaysOn, AckSent, Plays
    <2>6. LobbyTold' /\ RoundTold'
      BY <2>1 DEF LobbyTold, RoundTold
    <2>. QED BY <2>3, <2>4, <2>5, <2>6 DEF ToldParts
  <1>6. CASE FormsInVain
    <2>1. PICK a, b : SaysThree(a, b, LobbyMsg(FALSE))
      BY <1>6 DEF FormsInVain
    <2>2. stage' = "lobby" /\ ready' = FALSE /\ ~loaded'
      BY <1>6 DEF FormsInVain, StageInv
    <2>3. Len(toClient') > 0 /\ toClient'[Len(toClient')] = LobbyMsg(FALSE)
      BY <1>0, <2>1 DEF SaysThree
    <2>. QED BY <1>3, <2>2, <2>3
  <1>7. CASE Cancels
    <2>1. PICK a : SaysTwo(a, LobbyMsg(FALSE))
      BY <1>7 DEF Cancels
    <2>2. stage' = "lobby" /\ ready' = FALSE /\ ~loaded'
      BY <1>7 DEF Cancels
    <2>3. Len(toClient') > 0 /\ toClient'[Len(toClient')] = LobbyMsg(FALSE)
      BY <1>0, <2>1 DEF SaysTwo
    <2>. QED BY <1>3, <2>2, <2>3
  <1>8. CASE Returns
    <2>1. SaysOne(LobbyMsg(FALSE)) /\ stage' = "lobby" /\ ready' = FALSE /\ ~loaded'
      BY <1>8 DEF Returns
    <2>3. Len(toClient') > 0 /\ toClient'[Len(toClient')] = LobbyMsg(FALSE)
      BY <1>0, <2>1 DEF SaysOne
    <2>. QED BY <1>3, <2>1, <2>3
  <1>9. CASE StartsInVain
    <2>1. PICK a, b : SaysThree(a, b, LobbyMsg(FALSE))
      BY <1>9 DEF StartsInVain
    <2>2. stage' = "lobby" /\ ready' = FALSE /\ ~loaded'
      BY <1>9 DEF StartsInVain
    <2>3. Len(toClient') > 0 /\ toClient'[Len(toClient')] = LobbyMsg(FALSE)
      BY <1>0, <2>1 DEF SaysThree
    <2>. QED BY <1>3, <2>2, <2>3
  <1>10. CASE Ends
    <2>1. stage = "playing" /\ stage' = "over" /\ UNCHANGED <<issued, ready, loaded, toServer>> /\ loaded
      BY <1>10 DEF Ends, StageInv
    <2>2. PICK a : SaysOne(a) /\ a.type = "MatchResult" /\ a.match = issued
      BY <1>10 DEF Ends, RoundMsg
    <2>3. RoundTold'
      <3>1. CASE Len(toClient) = 0 /\ flow.start = issued
        BY <1>0, <1>1, <1>2, <2>1, <2>2, <3>1 DEF SaysOne, RoundTold, Says
      <3>2. CASE Len(toClient) = 1 /\ Says(1, "MatchStart")
        BY <1>0, <1>1, <1>2, <2>1, <2>2, <3>2 DEF SaysOne, RoundTold, Says
      <3>. QED BY <1>2, <2>1, <3>1, <3>2 DEF RoundTold
    <2>4. NotCancelled'
      <3>1. \A k \in 1 .. Len(toClient') : toClient'[k].type # "MatchCancelled"
        BY <1>0, <1>2, <2>1, <2>2 DEF SaysOne, RoundTold, Says
      <3>. QED BY <1>0, <1>1, <1>2, <2>1, <3>1 DEF NotCancelled, InRound
    <2>5. PlaysOn' /\ AckSent'
      BY <1>1, <1>2, <2>1 DEF PlaysOn, AckSent, Plays, InRound
    <2>6. LobbyTold' /\ LevelTold'
      BY <2>1 DEF LobbyTold, LevelTold
    <2>. QED BY <2>3, <2>4, <2>5, <2>6 DEF ToldParts
  <1>11. CASE Starts
    <2>1. /\ stage = "loading" /\ stage' = "playing" /\ loaded' = TRUE /\ UNCHANGED <<issued, ready>>
          /\ AllLoaded
      BY <1>11 DEF Starts, AllLoaded
    <2>2. Len(toClient) = 0 /\ flow.level = issued /\ lobby = NoLobby /\ ~flow.pending
      BY <1>2, <2>1, AllHandled
    <2>3. PICK a : SaysOne(a) /\ a.type = "MatchStart" /\ a.match = issued
      BY <1>11 DEF Starts, RoundMsg
    <2>4. RoundTold'
      BY <1>0, <1>1, <2>1, <2>2, <2>3 DEF RoundTold, SaysOne, Says
    <2>5. NotCancelled'
      <3>1. \A k \in 1 .. Len(toClient') : toClient'[k].type # "MatchCancelled"
        BY <1>0, <2>2, <2>3 DEF SaysOne
      <3>. QED BY <1>0, <1>1, <1>2, <2>1, <3>1 DEF NotCancelled, InRound
    <2>6. PlaysOn' /\ AckSent' /\ LobbyTold' /\ LevelTold'
      BY <1>1, <1>2, <2>1, <2>2 DEF PlaysOn, AckSent, Plays, InRound, LobbyTold, LevelTold
    <2>. QED BY <2>4, <2>5, <2>6 DEF ToldParts
  <1>12. CASE CountsOne
    <2>1. /\ stage = "loading" /\ loaded' = TRUE /\ UNCHANGED <<stage, issued, ready, toClient>>
          /\ stage = "loading" /\ ~loaded /\ Reads /\ Acks(1, issued)
      BY <1>12 DEF CountsOne
    <2>2. Len(toClient) = 0 /\ flow.level = issued /\ lobby = NoLobby /\ ~flow.pending
      BY <1>2, <2>1, AllHandled
    <2>3. RoundTold' /\ NotCancelled' /\ PlaysOn' /\ AckSent' /\ LobbyTold' /\ LevelTold'
      BY <1>1, <1>2, <2>1, <2>2 DEF PlaysOn, AckSent, Plays, InRound, LobbyTold, LevelTold, NotCancelled,
         RoundTold
    <2>. QED BY <2>3 DEF ToldParts
  <1>13. CASE Ignores
    <2>1. /\ UNCHANGED <<stage, issued, ready, loaded, toClient>> /\ Reads
          /\ stage = "loading" /\ ~loaded => ~Acks(1, issued)
      BY <1>13 DEF Ignores
    <2>2. LobbyTold' /\ LevelTold' /\ RoundTold' /\ NotCancelled' /\ PlaysOn'
      BY <1>1, <1>2, <2>1 DEF PlaysOn, Plays, InRound, LobbyTold, LevelTold, NotCancelled, RoundTold, Says
    <2>3. AckSent'
      <3> SUFFICES ASSUME Plays(issued), stage = "loading", level.acked, ~loaded
                   PROVE  \E k \in 1 .. Len(toServer') : toServer'[k].type = "MatchLoaded" /\ toServer'[k].match = issued
        BY <1>1, <2>1 DEF AckSent, Plays, Acks
      <3>1. PICK k \in 1 .. Len(toServer) : Acks(k, issued)
        BY <1>2 DEF AckSent
      <3>2. k # 1
        BY <2>1, <3>1
      <3>3. k - 1 \in 1 .. Len(toServer') /\ toServer'[k - 1] = toServer[k]
        BY <1>0, <2>1, <3>2 DEF Reads
      <3>. QED BY <3>1, <3>3 DEF Acks
    <2>. QED BY <2>2, <2>3 DEF ToldParts
  <1>. QED BY <1>4, <1>5, <1>6, <1>7, <1>8, <1>9, <1>10, <1>11, <1>12, <1>13 DEF ServerMoves, ServerSteps

\* What a message does to the cached match, once the client is in a session.
LEMMA ToldMessages ==
  ASSUME Typed, Typed', StageInv, ConnInv, OrderInv, Told, Told', Messages, ToldParts,
         flow.cancelled <= issued
  PROVE  ToldParts'
  <1>0. /\ Len(toClient) \in Nat /\ Len(toClient') \in Nat /\ issued \in Nat /\ StepCases
        /\ flow.level \in Nat /\ flow.start \in Nat /\ flow.result \in Nat /\ flow.cancelled \in Nat
        /\ flow \in [level : Nat, pending : BOOLEAN, start : Nat, cancelled : Nat, result : Nat]
        /\ \A k \in 1 .. Len(toClient) : toClient[k].match \in Nat
    BY TypedParts, TypedNext, TypedInParts DEF RestTyped, StreamTyped, StepCases
  <1>1. /\ Takes /\ UNCHANGED <<stage, issued, ready, loaded, link, scene, level, gaveUp, toServer>>
    <2>1. \A type : Gets(type) => /\ Takes
                                  /\ UNCHANGED <<stage, issued, ready, loaded, link, scene, level, gaveUp>>
      BY DEF Gets, SameStream, SameScene, sceneVars, SameHistory
    <2>2. ~Connects
      <3>1. UNCHANGED stage => ~Connects
        BY DEF Told, Connects, ConnInv
      <3>. QED BY <2>1, <3>1 DEF Connects
    <2>. QED BY <2>1, <2>2 DEF Messages, Welcomed, GetsNews, GetsOldLevel, GetsLobby, GetsStart,
            GetsCancelled, GetsResult, Discards, InSession
  <1>2. /\ Len(toClient) > 0 /\ Len(toClient') = Len(toClient) - 1
        /\ \A k \in 1 .. Len(toClient') : k + 1 \in 1 .. Len(toClient) /\ toClient'[k] = toClient[k + 1]
    BY <1>0, <1>1 DEF Takes
  <1>3. LobbyTold /\ LevelTold /\ RoundTold /\ NotCancelled /\ PlaysOn /\ AckSent
    BY DEF ToldParts
  <1>4. \A type : Gets(type) => toClient[1].type = type
    BY DEF Gets
  <1>5. ~Discards /\ ~Connects
    BY DEF Told, Discards, Connects
  <1>6. CASE stage = "lobby"
    <2>1. LobbyTold'
      <3>1. CASE Len(toClient) = 1
        <4>1. toClient[1].type = "LobbyState" /\ toClient[1].ready = ready
          BY <1>3, <1>6, <3>1 DEF LobbyTold
        <4>2. GetsLobby
          BY <1>4, <1>5, <4>1 DEF Messages, Welcomed, GetsNews, GetsOldLevel, GetsStart,
             GetsCancelled, GetsResult, InSession
        <4>. QED BY <1>1, <1>2, <3>1, <4>1, <4>2 DEF GetsLobby, LobbyTold
      <3>2. CASE Len(toClient) > 1
        <4>1. toClient'[Len(toClient')] = toClient[Len(toClient)]
          BY <1>0, <1>2, <3>2
        <4>. QED BY <1>0, <1>1, <1>2, <1>3, <1>6, <3>2, <4>1 DEF LobbyTold
      <3>. QED BY <1>0, <1>2, <3>1, <3>2
    <2>. QED BY <1>1, <1>6, <2>1 DEF ToldParts, LevelTold, RoundTold, NotCancelled, PlaysOn, AckSent,
            InRound, StageInv
  <1>7. CASE InRound
    <2>0. state = "Connected" /\ issued > 0 /\ stage # "lobby"
      BY <1>3, <1>7, <1>0 DEF NotCancelled, StageInv, InRound
    <2>1. state' = "Connected"
      BY <1>5, <2>0 DEF Messages, Welcomed, GetsNews, GetsOldLevel, GetsLobby, GetsStart,
         GetsCancelled, GetsResult, InSession
    <2>2. NotCancelled'
      <3>1. flow'.cancelled < issued
        BY <1>0, <1>2, <1>3, <1>7, <2>0, CancelledOrigin DEF NotCancelled
      <3>2. \A k \in 1 .. Len(toClient') : toClient'[k].type = "MatchCancelled" => toClient'[k].match < issued
        BY <1>2, <1>3, <1>7 DEF NotCancelled
      <3>. QED BY <1>1, <2>1, <3>1, <3>2 DEF NotCancelled
    <2>3. AckSent'
      BY <1>1, <1>3 DEF AckSent, Plays, Acks
    <2>4. LobbyTold'
      BY <1>1, <2>0 DEF LobbyTold
    <2>5. CASE stage = "loading" /\ ~loaded
      <3>1. Says(Len(toClient), "LevelInfo")
        BY <1>2, <1>3, <2>5 DEF LevelTold
      <3>2. RoundTold'
        BY <1>1, <2>5 DEF RoundTold
      <3>3. CASE Len(toClient) = 1
        <4>1. toClient[1].type = "LevelInfo" /\ toClient[1].match = issued
          BY <3>1, <3>3 DEF Says
        <4>2. flow.level < issued
          BY <1>0, <3>3, <4>1 DEF OrderInv
        <4>3. NewsOfMatch(toClient[1].match)
          BY <4>1, <4>2 DEF NewsOfMatch
        <4>4. GetsNews
          BY <1>4, <1>5, <4>1, <4>3 DEF Messages, Welcomed, GetsOldLevel, GetsLobby, GetsStart,
             GetsCancelled, GetsResult, InSession
        <4>5. flow'.level = issued /\ flow'.pending /\ lobby' = NoLobby
          BY <4>1, <4>4 DEF GetsNews, BeginBootstrap, NoFlow
        <4>6. LevelTold' /\ PlaysOn'
          BY <1>0, <1>1, <1>2, <3>3, <4>5 DEF LevelTold, PlaysOn
        <4>. QED BY <2>2, <2>3, <2>4, <3>2, <4>6 DEF ToldParts
      <3>4. CASE Len(toClient) > 1
        <4>1. toClient'[Len(toClient')] = toClient[Len(toClient)] /\ Len(toClient') # 0
          BY <1>0, <1>2, <3>4
        <4>2. LevelTold'
          BY <1>1, <3>1, <4>1 DEF LevelTold, Says
        <4>3. flow'.level # issued
          <5>1. /\ toClient[Len(toClient)].match > flow.level
                /\ toClient[1].type = "LevelInfo" => toClient[1].match < toClient[Len(toClient)].match
            BY <1>0, <3>1, <3>4 DEF OrderInv, Says
          <5>2. flow.level # issued
            BY <1>0, <3>1, <5>1 DEF Says
          <5>3. GetsNews => flow'.level = toClient[1].match /\ toClient[1].type = "LevelInfo"
            BY <1>4 DEF GetsNews, InSession, BeginBootstrap, NoFlow
          <5>4. toClient[1].type = "LevelInfo" => toClient[1].match # issued
            <6>1. 1 \in 1 .. Len(toClient) /\ toClient[1].match \in Nat
              BY <1>0, <1>2
            <6>. QED BY <1>0, <3>1, <5>1, <6>1 DEF Says
          <5>5. CASE GetsNews
            BY <5>3, <5>4, <5>5
          <5>6. CASE FlowDropped
            BY <2>0, <5>6 DEF FlowDropped
          <5>7. CASE FlowKept
            BY <5>2, <5>7 DEF FlowKept
          <5>. QED BY <1>0, <5>5, <5>6, <5>7, FlowCases
        <4>4. PlaysOn'
          BY <1>1, <4>3 DEF PlaysOn
        <4>. QED BY <2>2, <2>3, <2>4, <3>2, <4>2, <4>4 DEF ToldParts
      <3>. QED BY <1>0, <1>2, <3>3, <3>4
    <2>6. CASE loaded
      <3>1. flow.level = issued /\ lobby = NoLobby /\ ~flow.pending /\ flow.start \in {0, issued}
            /\ flow.result \in {0, issued}
        BY <1>3, <2>6 DEF RoundTold, OrderInv
      <3>2. ASSUME Says(1, "MatchStart")
            PROVE  flow'.start = issued /\ flow'.level = issued /\ ~flow'.pending /\ lobby' = NoLobby
        <4>1. GetsStart
          BY <1>4, <1>5, <3>2 DEF Messages, Welcomed, GetsNews, GetsOldLevel, GetsLobby,
             GetsCancelled, GetsResult, InSession, Says
        <4>2. toClient[1].match = issued
          BY <3>2 DEF Says
        <4>3. CASE StartsMatch(issued)
          BY <1>0, <3>1, <4>1, <4>2, <4>3 DEF GetsStart
        <4>4. CASE ~StartsMatch(issued)
          BY <3>1, <4>1, <4>2, <4>4 DEF GetsStart, StartsMatch
        <4>. QED BY <4>3, <4>4
      <3>3. ASSUME Says(1, "MatchResult")
            PROVE  /\ flow'.start = flow.start /\ flow'.result = issued
                   /\ flow'.level = issued /\ ~flow'.pending /\ lobby' = NoLobby
        <4>1. GetsResult
          BY <1>4, <1>5, <3>3 DEF Messages, Welcomed, GetsNews, GetsOldLevel, GetsLobby,
             GetsCancelled, GetsStart, InSession, Says
        <4>2. toClient[1].match = issued
          BY <3>3 DEF Says
        <4>3. CASE flow.result < issued
          BY <1>0, <3>1, <4>1, <4>2, <4>3 DEF GetsResult
        <4>4. CASE ~(flow.result < issued)
          <5>1. flow.result = issued
            BY <1>0, <2>0, <3>1, <4>4
          <5>. QED BY <3>1, <4>1, <4>2, <4>4, <5>1 DEF GetsResult
        <4>. QED BY <4>3, <4>4
      <3>4. /\ flow'.level = issued /\ ~flow'.pending /\ lobby' = NoLobby
            /\ stage \in {"playing", "over"}
            /\ stage = "playing" => Len(toClient') = 0 /\ flow'.start = issued
            /\ stage = "over" =>
                 \/ Len(toClient') = 0 /\ flow'.start = issued /\ flow'.result = issued
                 \/ Len(toClient') = 1 /\ flow'.start = issued /\ Says(2, "MatchResult")
        <4>1. CASE stage = "playing"
          BY <1>0, <1>2, <1>3, <3>2, <4>1 DEF RoundTold
        <4>2. CASE stage = "over"
          BY <1>0, <1>2, <1>3, <3>2, <3>3, <4>2 DEF RoundTold
        <4>3. stage # "loading"
          BY <1>2, <1>3, <2>6 DEF RoundTold
        <4>. QED BY <1>7, <4>1, <4>2, <4>3 DEF InRound
      <3>5. RoundTold'
        <4>1. ASSUME Len(toClient') = 1 PROVE toClient'[1] = toClient[2]
          <5>1. 1 \in 1 .. Len(toClient') /\ 1 + 1 = 2
            BY <4>1
          <5>2. toClient'[1] = toClient[1 + 1]
            BY <1>2, <5>1
          <5>. QED BY <5>1, <5>2
        <4>. QED BY <1>1, <3>4, <4>1 DEF RoundTold, Says
      <3>6. PlaysOn'
        BY <1>1, <1>3, <3>1 DEF PlaysOn, InRound, Plays
      <3>7. LevelTold'
        BY <1>1, <2>6 DEF LevelTold
      <3>. QED BY <2>2, <2>3, <2>4, <3>5, <3>6, <3>7 DEF ToldParts
    <2>7. loaded \/ stage = "loading"
      BY <1>7 DEF InRound, StageInv
    <2>. QED BY <2>5, <2>6, <2>7
  <1>8. stage = "lobby" \/ InRound
    BY TypedInParts DEF Told, InRound, StreamTyped, Stages
  <1>. QED BY <1>6, <1>7, <1>8

\* What the player and the scenes do, the client being told of everything.
LEMMA ToldElse ==
  ASSUME Typed, Typed', StageInv, OrderInv, Told, Told', Keys \/ Steps, ToldParts,
         scene = "level" /\ flow.level # 0 /\ ~flow.pending => flow.level = level.match
  PROVE  ToldParts'
  <1>0. /\ Len(toClient) \in Nat /\ Len(toServer) \in Nat /\ issued \in Nat /\ StepCases
        /\ flow \in [level : Nat, pending : BOOLEAN, start : Nat, cancelled : Nat, result : Nat]
        /\ level \in [match : Nat, acked : BOOLEAN, started : BOOLEAN, over : BOOLEAN]
        /\ flow.level \in Nat /\ level.match \in Nat
    BY TypedParts, TypedInParts DEF RestTyped, StreamTyped, StepCases
  <1>1. /\ UNCHANGED <<stage, issued, ready, loaded, link, toClient, lobby>>
        /\ ~Leaves /\ ~Begins /\ UNCHANGED state
    <2>1. ~Leaves /\ ~Begins
      BY DEF Told, Leaves, Begins
    <2>. QED BY <2>1 DEF Keys, Steps, Opens, ToMenu, Presses, LobbySteps, LevelSteps, OpensLobby,
            EntersLevel, Syncs, StaysInLevel, LeavesLevel, InLevel, SameLink, SameStream, sessionVars
  <1>2. LobbyTold /\ LevelTold /\ RoundTold /\ NotCancelled /\ PlaysOn /\ AckSent
    BY DEF ToldParts
  <1>3. /\ flow'.level = flow.level /\ flow'.start = flow.start /\ flow'.result = flow.result
        /\ flow'.cancelled = flow.cancelled
        /\ flow'.pending => flow.pending
        /\ ~EntersLevel => flow' = flow
    <2>1. CASE EntersLevel
      BY <1>0, <2>1 DEF EntersLevel
    <2>2. CASE ~EntersLevel
      <3>1. flow' = flow
        BY <1>1, <2>2 DEF Keys, Steps, Opens, ToMenu, Presses, LobbySteps, LevelSteps, OpensLobby,
           Syncs, StaysInLevel, LeavesLevel, InLevel, sessionVars
      <3>. QED BY <3>1
    <2>. QED BY <2>1, <2>2
  <1>4. LobbyTold' /\ LevelTold' /\ RoundTold' /\ NotCancelled'
    BY <1>1, <1>2, <1>3 DEF LobbyTold, LevelTold, RoundTold, NotCancelled, InRound, Says
  <1>5. InRound => state = "Connected"
    BY <1>2 DEF NotCancelled
  <1>6. ASSUME InRound, flow.level = issued PROVE lobby = NoLobby
    <2>1. CASE loaded
      BY <1>2, <2>1 DEF RoundTold
    <2>2. CASE ~loaded
      <3>1. stage = "loading"
        BY <1>6, <2>2 DEF InRound, StageInv
      <3>2. Len(toClient) = 0
        <4>1. ASSUME Len(toClient) > 0 PROVE FALSE
          <5>1. toClient[Len(toClient)].type = "LevelInfo" /\ toClient[Len(toClient)].match = issued
                /\ Len(toClient) \in 1 .. Len(toClient)
            BY <1>0, <1>2, <2>2, <3>1, <4>1 DEF LevelTold, Says
          <5>. QED BY <1>0, <1>6, <5>1 DEF OrderInv
        <4>. QED BY <1>0, <4>1
      <3>. QED BY <1>2, <2>2, <3>1, <3>2 DEF LevelTold
    <2>. QED BY <2>1, <2>2
  <1>7. PlaysOn'
    <2> SUFFICES ASSUME InRound, flow.level = issued, ~flow'.pending
                 PROVE  (scene' = "level" /\ level'.match = issued) \/ gaveUp' = issued
      BY <1>1, <1>3 DEF PlaysOn, InRound, Plays
    <2>1. CASE EntersLevel
      BY <2>1 DEF EntersLevel, NoLevel
    <2>2. CASE ~EntersLevel
      <3>1. Plays(issued) \/ gaveUp = issued
        BY <1>2, <1>3, <2>2 DEF PlaysOn
      <3>2. ASSUME NEW timedOut \in BOOLEAN, LeavesLevel(timedOut) PROVE gaveUp' = issued
        <4>1. /\ scene = "level" /\ LevelEnds(~level.started /\ flow.cancelled = level.match, timedOut)
              /\ gaveUp' = IF timedOut THEN level.match ELSE gaveUp
          BY <3>2 DEF LeavesLevel, InLevel
        <4>2. level.match = issued
          <5>1. flow.level # 0
            BY <1>0 DEF InRound, StageInv
          <5>. QED BY <1>3, <2>2, <4>1, <5>1
        <4>3. flow.cancelled # level.match
          BY <1>0, <1>2, <4>2 DEF NotCancelled
        <4>4. timedOut
          BY <1>6, <4>1, <4>3 DEF LevelEnds
        <4>. QED BY <4>1, <4>2, <4>4
      <3>3. CASE UNCHANGED <<scene, level, gaveUp>>
        BY <3>1, <3>3 DEF Plays
      <3>4. CASE StaysInLevel
        BY <1>0, <3>1, <3>4 DEF StaysInLevel, InLevel, Plays
      <3>5. CASE UNCHANGED gaveUp /\ scene \notin {"lobby", "level"}
        BY <3>1, <3>5 DEF Plays
      <3>6. CASE Opens \/ ToMenu \/ OpensLobby
        <4>1. ToMenu => scene \notin {"lobby", "level"}
          BY <1>5 DEF ToMenu
        <4>. QED BY <3>5, <3>6, <4>1 DEF Opens, ToMenu, OpensLobby, SameHistory
      <3>. QED BY <1>1, <2>2, <3>2, <3>3, <3>4, <3>6 DEF Keys, Steps, Presses, LobbySteps, LevelSteps, Syncs
    <2>. QED BY <2>1, <2>2
  <1>8. AckSent'
    <2> SUFFICES ASSUME scene' = "level", level'.match = issued, stage = "loading", level'.acked, ~loaded
                 PROVE  \E k \in 1 .. Len(toServer') :
                          toServer'[k].type = "MatchLoaded" /\ toServer'[k].match = issued
      BY <1>1 DEF AckSent, Plays, Acks
    <2>1. ~EntersLevel
      BY DEF EntersLevel, NoLevel
    <2>2. /\ scene = "level" /\ level.match = issued
      BY <1>0, <2>1, StaysIn
    <2>3. CASE level.acked
      <3>1. PICK k \in 1 .. Len(toServer) : Acks(k, issued)
        BY <1>2, <2>2, <2>3 DEF AckSent, Plays
      <3>2. UNCHANGED toServer \/ \E a : Asks(a)
        <4>1. LevelSteps => Acknowledges
          BY DEF LevelSteps, StaysInLevel, LeavesLevel, InLevel
        <4>. QED BY <1>1, <4>1 DEF Keys, Steps, Opens, ToMenu, Presses, LobbySteps, OpensLobby,
                EntersLevel, Syncs, Acknowledges, Sent
      <3>3. k \in 1 .. Len(toServer') /\ toServer'[k] = toServer[k]
        BY <1>0, <3>2 DEF Asks
      <3>. QED BY <3>1, <3>3 DEF Acks
    <2>4. CASE ~level.acked
      <3>1. StaysInLevel
        BY <1>0, <2>1, <2>4, LevelCases
      <3>2. Acking /\ Sent(MatchLoaded(level.match))
        <4>1. level'.acked = (level.acked \/ (Acking /\ CanQueue)) /\ Acknowledges
          BY <1>0, <3>1 DEF StaysInLevel, InLevel
        <4>2. Acking
          BY <2>4, <4>1
        <4>. QED BY <4>1, <4>2 DEF Acknowledges
      <3>3. Asks(MatchLoaded(issued))
        BY <2>2, <3>2 DEF Sent, Told
      <3>4. /\ Len(toServer) + 1 \in 1 .. Len(toServer')
            /\ toServer'[Len(toServer) + 1] = MatchLoaded(issued)
        BY <1>0, <3>3 DEF Asks
      <3>. QED BY <3>4 DEF MatchLoaded
    <2>. QED BY <2>3, <2>4
  <1>. QED BY <1>4, <1>7, <1>8 DEF ToldParts

\* A level scene shows the match that is cached, until news of the next.
LEMMA CacheStep ==
  ASSUME Typed, Typed', OrderInv, StepCases,
         scene = "level" /\ flow.level # 0 /\ ~flow.pending => flow.level = level.match
  PROVE  scene' = "level" /\ flow'.level # 0 /\ ~flow'.pending => flow'.level = level'.match
  <1>0. /\ flow \in [level : Nat, pending : BOOLEAN, start : Nat, cancelled : Nat, result : Nat]
        /\ level.match \in Nat /\ flow.level \in Nat
    BY TypedInParts DEF RestTyped
  <1> SUFFICES ASSUME scene' = "level", flow'.level # 0, ~flow'.pending
               PROVE  flow'.level = level'.match
    OBVIOUS
  <1>1. CASE EntersLevel
    BY <1>0, <1>1 DEF EntersLevel, NoLevel
  <1>2. CASE ~EntersLevel
    <2>1. scene = "level" /\ level'.match = level.match
      BY <1>2, StaysIn
    <2>2. ~GetsNews
      BY DEF GetsNews, BeginBootstrap, NoFlow
    <2>3. FlowKept
      BY <2>2, FlowCases DEF FlowDropped
    <2>4. flow'.level = flow.level
      BY <2>3 DEF FlowKept
    <2>5. ~flow.pending
      BY <1>2, <2>3 DEF FlowKept
    <2>. QED BY <2>1, <2>4, <2>5
  <1>. QED BY <1>1, <1>2

\* Every step keeps what the client has been, or will be, told.
LEMMA ToldStep ==
  ASSUME Typed, Typed', StageInv, ConnInv, OrderInv, StepCases, ToldInv
  PROVE  ToldInv'
  <1>0. issued \in Nat /\ flow.cancelled \in Nat /\ Len(toClient) \in Nat
    BY TypedParts, TypedInParts DEF RestTyped, StreamTyped
  <1>1. /\ flow.cancelled <= issued
        /\ scene = "level" /\ flow.level # 0 /\ ~flow.pending => flow.level = level.match
        /\ Told => ToldParts
    BY DEF ToldInv, ToldParts
  <1>2. flow'.cancelled <= issued'
    <2>1. issued' = issued \/ issued' = issued + 1
      BY IssuedGrows
    <2>2. CASE flow'.cancelled \in {flow.cancelled, 0}
      BY <1>0, <1>1, <2>1, <2>2
    <2>3. CASE Len(toClient) > 0 /\ flow'.cancelled = toClient[1].match
      <3>1. 1 \in 1 .. Len(toClient)
        BY <1>0, <2>3
      <3>2. toClient[1].match <= issued /\ toClient[1].match \in Nat
        BY <3>1, TypedParts DEF OrderInv
      <3>. QED BY <1>0, <2>1, <2>3, <3>2
    <2>. QED BY <2>2, <2>3, CancelledOrigin
  <1>3. scene' = "level" /\ flow'.level # 0 /\ ~flow'.pending => flow'.level = level'.match
    BY <1>1, CacheStep
  <1>4. ASSUME Told' PROVE ToldParts'
    <2>1. CASE Joins /\ state = "Handshaking" /\ UNCHANGED state
      BY <2>1, ToldJoins
    <2>2. CASE Told /\ ServerMoves
      BY <1>1, <2>2, ToldServer
    <2>3. CASE Told /\ Messages
      BY <1>1, <1>4, <2>3, ToldMessages
    <2>4. CASE Told /\ (Keys \/ Steps)
      BY <1>1, <1>4, <2>4, ToldElse
    <2>. QED BY <1>4, <2>1, <2>2, <2>3, <2>4, ToldOrigin
  <1>. QED BY <1>2, <1>3, <1>4 DEF ToldInv, ToldParts

\* The client rests in what a step of its scene leaves as it is.
LEMMA RestStep ==
  ASSUME Typed, Typed', ConnInv, OrderInv, StepCases, RestInv
  PROVE  RestInv'
  <1> SUFFICES ASSUME atRest', state' = "Connected"
               PROVE  /\ scene' = "lobby" => ~flow'.pending
                      /\ scene' = "level" =>
                           /\ lobby' = NoLobby
                           /\ link' = "up" => level'.acked
                           /\ ~level'.started => flow'.start # level'.match
                           /\ flow'.result = level'.match => level'.over
    BY DEF RestInv
  <1>0. level \in [match : Nat, acked : BOOLEAN, started : BOOLEAN, over : BOOLEAN]
    BY TypedInParts DEF RestTyped
  <1>1. ASSUME UNCHANGED <<atRest, state, flow, lobby, scene, level>>, link' = "up" => link = "up"
        PROVE  /\ scene' = "lobby" => ~flow'.pending
               /\ scene' = "level" =>
                    /\ lobby' = NoLobby
                    /\ link' = "up" => level'.acked
                    /\ ~level'.started => flow'.start # level'.match
                    /\ flow'.result = level'.match => level'.over
    BY <1>1 DEF RestInv
  <1>2. CASE ServerMoves \/ Elsewhere \/ Joins \/ Rejects \/ LinkSteps
    <2>1. ClientIdle /\ (link' = "up" => link = "up" \/ LinksUp)
      BY <1>2 DEF ServerMoves, Elsewhere, Joins, Rejects, LinkSteps, LinksUp, LetsGo, Loses
    <2>2. ~LinksUp
      BY <2>1 DEF LinksUp, ConnInv, ClientIdle, sessionVars
    <2>. QED BY <1>1, <2>1, <2>2 DEF ClientIdle, sessionVars, sceneVars
  <1>3. CASE Drops
    BY <1>3 DEF Drops
  <1>4. CASE Messages
    <2>1. \A type : Gets(type) => ~atRest'
      BY DEF Gets
    <2>. QED BY <1>4, <2>1 DEF Messages, Connects, Welcomed, GetsNews, GetsOldLevel, GetsLobby, GetsStart,
         GetsCancelled, GetsResult, Discards, InSession
  <1>5. CASE Keys
    <2>1. ~Begins /\ ~Leaves
      BY DEF Begins, Leaves
    <2>2. CASE Opens \/ ToMenu
      BY <2>2 DEF Opens, ToMenu, Show
    <2>3. ASSUME NEW desired \in BOOLEAN, Presses(desired), UNCHANGED atRest
          PROVE  UNCHANGED <<atRest, state, flow, lobby, scene, level, link>>
      BY <2>3 DEF Presses, SameLink, sessionVars
    <2>. QED BY <1>1, <1>5, <2>1, <2>2, <2>3 DEF Keys
  <1>6. CASE Steps
    <2>1. UNCHANGED <<flow, scene, level>>
      BY <1>6 DEF Steps, sceneVars
    <2>2. ~OpensLobby /\ ~EntersLevel /\ \A timedOut \in BOOLEAN : ~LeavesLevel(timedOut)
      BY <2>1 DEF OpensLobby, EntersLevel, LeavesLevel, InLevel, Show
    <2>3. CASE ToMenu
      BY <2>3 DEF ToMenu, Show
    <2>4. ASSUME NEW timedOut \in BOOLEAN, Syncs(timedOut) PROVE scene' = "lobby" /\ ~flow'.pending
      BY <2>1, <2>4 DEF Syncs
    <2>5. CASE StaysInLevel
      <3>1. /\ level'.acked = (level.acked \/ (Acking /\ CanQueue))
            /\ level'.started = (level.started \/ flow.start = level.match)
            /\ level'.over = (level.over \/ flow.result = level.match)
        BY <1>0, <2>5 DEF StaysInLevel
      <3>2. lobby = NoLobby /\ UNCHANGED <<lobby, link>> /\ scene = "level"
        BY <2>5 DEF StaysInLevel, InLevel, LevelEnds, SameLink, sessionVars
      <3>3. link = "up" => level.acked
        BY <2>1, <3>1 DEF Acking, CanQueue, OrderInv
      <3>. QED BY <1>0, <2>1, <3>1, <3>2, <3>3
    <2>. QED BY <1>6, <2>2, <2>3, <2>4, <2>5 DEF Steps, LobbySteps, LevelSteps
  <1>. QED BY <1>2, <1>3, <1>4, <1>5, <1>6 DEF StepCases

-----------------------------------------------------------------------------
(* The theorems. *)

\* The inductive invariant.
SessionInv ==
  /\ Typed /\ StageInv /\ ConnInv /\ SceneInv /\ OrderInv /\ CountedInv /\ ReadyInv
  /\ ToldInv /\ RestInv

\* The invariant of the session holds at first.
LEMMA InitSession == Init => SessionInv
  <1> SUFFICES ASSUME Init PROVE SessionInv
    OBVIOUS
  <1>1. /\ stage = "away" /\ issued = 0 /\ ready = FALSE /\ loaded = FALSE /\ batch = <<>>
        /\ link = "none" /\ toClient = <<>> /\ toServer = <<>>
        /\ state = "Disconnected" /\ flow = NoFlow /\ lobby = NoLobby
        /\ scene = "menu" /\ pendingReady = NoRequest /\ level = NoLevel
        /\ atRest = TRUE /\ gaveUp = 0 /\ asked = -1 /\ retried = FALSE
    BY DEF Init, StreamInit
  <1>2. Len(toClient) = 0 /\ Len(toServer) = 0
    BY <1>1
  <1>3. Typed
    <2>1. StreamTyped
      BY <1>1, NoMessages DEF StreamTyped, Stages
    <2>2. RestTyped
      <3>1. asked \in Int /\ gaveUp \in Nat
        BY <1>1
      <3>2. link \in Links /\ state \in States /\ scene \in Scenes
        BY <1>1 DEF Links, States, Scenes
      <3>. QED BY <1>1, <3>1, <3>2, NothingHeld, Zenon DEF RestTyped
    <2>. QED BY <1>1, <2>1, <2>2, NoMessages, TypedInParts
  <1>4. StageInv /\ SceneInv
    BY <1>1 DEF StageInv, SceneInv
  <1>5. ConnInv
    BY <1>1, <1>2 DEF ConnInv, HasSession, HelloOnly, NotWelcomed
  <1>6. OrderInv
    BY <1>1, <1>2 DEF OrderInv, NoFlow, NoLevel
  <1>7. CountedInv
    BY <1>1 DEF CountedInv
  <1>8. ReadyInv
    BY <1>1, <1>2 DEF ReadyInv, AskedInv, WishInv, EchoInv, LevelsInv, MatchInv, SceneMatchesCache,
       NoFlow
  <1>9. ToldInv /\ RestInv
    BY <1>1 DEF ToldInv, RestInv, Told, NoFlow
  <1>. QED BY <1>3, <1>4, <1>5, <1>6, <1>7, <1>8, <1>9 DEF SessionInv

\* The invariant of the session is inductive.
LEMMA NextSession == SessionInv /\ [Next]_vars => SessionInv'
  <1> SUFFICES ASSUME SessionInv, [Next]_vars PROVE SessionInv'
    OBVIOUS
  <1>0. /\ Typed /\ StageInv /\ ConnInv /\ SceneInv /\ OrderInv /\ CountedInv /\ ReadyInv
        /\ ToldInv /\ RestInv
    BY DEF SessionInv
  <1>1. CASE Next
    <2>1. StepCases /\ Typed'
      BY <1>0, <1>1, NextCases
    <2>2. StageInv' /\ ConnInv' /\ SceneInv' /\ OrderInv' /\ CountedInv'
      BY <1>0, <2>1, StageStep, ConnStep, SceneStep, OrderStep, CountedStep
    <2>3. ReadyInv'
      BY <1>0, <2>1, <2>2, ReadyStep
    <2>4. ToldInv' /\ RestInv'
      BY <1>0, <2>1, ToldStep, RestStep
    <2>. QED BY <2>1, <2>2, <2>3, <2>4 DEF SessionInv
  <1>2. CASE UNCHANGED vars
    <2>1. UNCHANGED <<stage, issued, ready, loaded, batch, link, toClient, toServer, state, flow, lobby,
                      scene, pendingReady, level, atRest, gaveUp, asked, retried>>
      BY <1>2 DEF vars, streamVars, sessionVars, sceneVars, historyVars
    <2>2. Typed'
      BY <1>0, <2>1 DEF Typed, TypeOK
    <2>3. StageInv' /\ SceneInv'
      BY <1>0, <2>1 DEF StageInv, SceneInv
    <2>4. ConnInv'
      BY <1>0, <2>1 DEF ConnInv, HasSession, HelloOnly, NotWelcomed
    <2>5. OrderInv' /\ CountedInv'
      <3>1. \A m : Unacked(m) => Unacked(m)'
        BY <2>1 DEF Unacked, Acks
      <3>2. OrderInv'
        BY <1>0, <2>1, <3>1 DEF OrderInv, Unacked, Acks
      <3>3. CountedInv'
        BY <1>0, <2>1 DEF CountedInv, Acks, Counted, NoRequests
      <3>. QED BY <3>2, <3>3
    <2>6. ReadyInv'
      BY <1>0, <2>1 DEF ReadyInv, AskedInv, WishInv, EchoInv, LevelsInv, MatchInv, SceneMatchesCache,
         NoWish, Wants, Quiet, QuietNow, NoReadyAfter, NoLevelAfter, Barren, Echoed, Echoing, EndsQuietly,
         NotReady, Waits
    <2>7. ToldInv'
      BY <1>0, <2>1 DEF ToldInv, Told, LobbyTold, LevelTold, RoundTold, NotCancelled, PlaysOn, AckSent,
         InRound, Says, Plays, Acks
    <2>8. RestInv'
      BY <1>0, <2>1 DEF RestInv
    <2>. QED BY <2>2, <2>3, <2>4, <2>5, <2>6, <2>7, <2>8 DEF SessionInv
  <1>. QED BY <1>1, <1>2

(***************************************************************************)
(* The client's session, caches and scenes keep their types, and so does   *)
(* the server's side of the connection, over any number of connections.    *)
(***************************************************************************)
THEOREM TypeCorrect == Spec => []TypeOK
  <1>1. SessionInv => TypeOK
    BY DEF SessionInv, Typed
  <1>. QED BY <1>1, InitSession, NextSession, PTL DEF Spec

(***************************************************************************)
(* Nothing of one match counts in another: whoever has been told to start  *)
(* plays the latest match of the server, and whoever counts as ready has   *)
(* asked for it since that match was issued, or repeated a request.        *)
(***************************************************************************)
THEOREM CarriesCorrect == Spec => []NothingCarriesOver
  <1>1. SessionInv => NothingCarriesOver
    <2> SUFFICES ASSUME SessionInv PROVE NothingCarriesOver
      OBVIOUS
    <2>1. SceneInv /\ CountedInv /\ ReadyInv
      BY DEF SessionInv
    <2>2. level.started /\ stage # "away" => level.match = issued
      BY <2>1 DEF SceneInv, NoLevel, CountedInv, Counted
    <2>3. ready => asked = issued \/ retried
      BY <2>1 DEF ReadyInv, AskedInv
    <2>. QED BY <2>2, <2>3 DEF NothingCarriesOver
  <1>. QED BY <1>1, InitSession, NextSession, PTL DEF Spec

(***************************************************************************)
(* A level scene does not outlive its match into the next one: the cached  *)
(* match is the one on screen, but for a repeated request.                 *)
(***************************************************************************)
THEOREM SceneCorrect == Spec => []SceneMatchesCache
  <1>1. SessionInv => SceneMatchesCache
    BY DEF SessionInv, ReadyInv, MatchInv, SceneMatchesCache
  <1>. QED BY <1>1, InitSession, NextSession, PTL DEF Spec

(***************************************************************************)
(* Client and server agree on the match.  A client that has handled all    *)
(* that was in flight and whose loop has come to rest shows the lobby,     *)
(* with its own ready flag, exactly while the server is in the lobby, and  *)
(* otherwise the server's match, as far along; unless its own bootstrap    *)
(* deadline has passed, or, before the start, a ready request was          *)
(* repeated.                                                               *)
(***************************************************************************)
THEOREM AgreementCorrect == Spec => []Agreement
  <1>1. SessionInv => Agreement
    <2> SUFFICES ASSUME SessionInv, Settled
                 PROVE  CASE stage = "lobby"   -> scene = "lobby" /\ lobby = FlagOf(ready)
                          [] stage = "loading" -> gaveUp = issued \/ (Plays(issued) /\ loaded) \/ retried
                          [] stage = "playing" -> gaveUp = issued \/ (Plays(issued) /\ level.started)
                          [] stage = "over"    -> gaveUp = issued \/ (Plays(issued) /\ level.over)
                          [] OTHER -> FALSE
      BY DEF Agreement
    <2>0. /\ Typed /\ StageInv /\ ConnInv /\ OrderInv /\ ReadyInv /\ ToldInv /\ RestInv
          /\ Len(toClient) = 0 /\ Len(toServer) = 0
          /\ link = "up" /\ atRest /\ state = "Connected" /\ scene \in {"lobby", "level"}
      BY DEF SessionInv, Settled
    <2>1. /\ issued \in Nat /\ flow.level \in Nat /\ level.match \in Nat
          /\ stage \in {"away", "lobby", "loading", "playing", "over"}
      BY <2>0, TypedInParts DEF RestTyped, StreamTyped, Stages
    \* It has a seat, and so has been told of everything.
    <2>2. stage # "away"
      BY <2>0 DEF ConnInv
    <2>3. LobbyTold /\ LevelTold /\ RoundTold /\ NotCancelled /\ PlaysOn /\ AckSent
      BY <2>0, <2>2 DEF ToldInv, Told
    <2>4. ASSUME stage = "lobby" PROVE scene = "lobby" /\ lobby = FlagOf(ready)
      <3>1. lobby = FlagOf(ready)
        BY <2>0, <2>3, <2>4 DEF LobbyTold
      <3>2. lobby # NoLobby
        BY <3>1 DEF FlagOf, NoLobby
      <3>. QED BY <2>0, <3>1, <3>2 DEF RestInv
    <2>5. ASSUME InRound, flow.level = issued, ~flow.pending PROVE Plays(issued) \/ gaveUp = issued
      BY <2>3, <2>5 DEF PlaysOn
    <2>6. ASSUME stage = "loading" PROVE gaveUp = issued \/ (Plays(issued) /\ loaded) \/ retried
      <3>1. flow.level = issued /\ InRound
        BY <2>0, <2>3, <2>6 DEF LevelTold, RoundTold, InRound
      <3>2. CASE flow.pending
        <4>1. scene = "level" /\ flow.level > level.match
          BY <2>0, <3>2 DEF RestInv, OrderInv
        <4>2. flow.level # 0 /\ flow.level # level.match
          BY <2>1, <4>1
        <4>. QED BY <2>0, <4>1, <4>2 DEF ReadyInv, MatchInv, SceneMatchesCache
      <3>3. CASE ~flow.pending
        <4>1. Plays(issued) => loaded
          <5> SUFFICES ASSUME Plays(issued) PROVE loaded
            OBVIOUS
          <5>1. level.acked
            BY <2>0 DEF RestInv, Plays
          <5>2. loaded \/ \E k \in 1 .. Len(toServer) : Acks(k, issued)
            BY <2>3, <2>6, <5>1 DEF AckSent
          <5>. QED BY <2>0, <5>2
        <4>. QED BY <2>5, <3>1, <3>3, <4>1
      <3>. QED BY <3>2, <3>3
    <2>7. ASSUME stage \in {"playing", "over"}
          PROVE  gaveUp = issued \/ (Plays(issued) /\ level.started /\ (stage = "over" => level.over))
      <3>1. loaded /\ InRound
        BY <2>0, <2>7 DEF StageInv, InRound
      <3>2. flow.level = issued /\ ~flow.pending
        BY <2>3, <3>1 DEF RoundTold
      <3>3. flow.start = issued /\ (stage = "over" => flow.result = issued)
        BY <2>0, <2>3, <2>7 DEF RoundTold
      <3>4. Plays(issued) => level.started /\ (stage = "over" => level.over)
        BY <2>0, <3>3 DEF RestInv, Plays
      <3>. QED BY <2>5, <3>1, <3>2, <3>4
    <2>. QED BY <2>1, <2>2, <2>4, <2>6, <2>7
  <1>. QED BY <1>1, InitSession, NextSession, PTL DEF Spec
=============================================================================
