------------------------------ MODULE WireTrip ------------------------------
(***************************************************************************)
(* One packet at a time from one side to the other: what the two programs  *)
(* put into their messages (Server*.cpp, NetClient.*.cpp), as Wire writes  *)
(* it, and what the other side's handlers are given.  A packet may come    *)
(* from something else than this build: then one of its fields, its length *)
(* or its channel is not what it should be.                                *)
(*                                                                         *)
(* ENet delivers a packet whole and on the channel it was sent on.         *)
(***************************************************************************)
EXTENDS Wire

CONSTANTS
  Names,       \* what players call themselves, sequences of characters
  Ticks,       \* the server's ticks and the clients' sequence numbers looked at
  TickRate,    \* kTickRate
  CountdownTicks, UnlockDelayTicks,  \* kLobbyCountdownTicks, kMatchStartUnlockDelayTicks
  Positions    \* the coordinates looked at

ASSUME TicksAssumption ==
  /\ Ticks \subseteq Nat \ {0} /\ TickRate \in Nat \ {0} /\ UnlockDelayTicks \in Nat
  /\ CountdownTicks \in Nat
  /\ \A t \in Ticks : t + UnlockDelayTicks < Modulus[4]

\* The sizes of NetCommon.h, and that what is sent fits its fields.
ASSUME FieldsAssumption ==
  /\ Width >= 3 /\ Height >= 3 /\ NameMax > 1 /\ PowerupTypes > 0
  /\ NoWinner < Modulus[1] /\ MaxPlayers <= NoWinner /\ MaxBatch < Modulus[1]
  /\ MaxBombs < Modulus[1] /\ MaxPowerups < Modulus[1] /\ PowerupTypes <= Modulus[1]
  /\ MaxBlast < Modulus[1] /\ 2 ^ MaxPlayers \in 1 .. Modulus[1]
  /\ NoWinner < Modulus[2] /\ TickRate < Modulus[2]
  /\ CountdownTicks <= TickRate * (Modulus[1] - 1)
  /\ \A t \in Ticks : t + 1 < Modulus[4]
  /\ \A x \in Positions : x \in Int /\ -Modulus[2] <= 2 * x /\ 2 * x < Modulus[2]
  /\ \A n \in Names : n \in Seq(1 .. Modulus[1] - 1)

VARIABLES
  sent,      \* the message under way
  packet,
  harmed,    \* whether it is not as this build writes it
  received   \* what the handler was given, or Rejected

vars == <<sent, packet, harmed, received>>

None == [type |-> "None"]
PlayerIds == 0 .. MaxPlayers - 1
ProtocolVersion == 9
BoardCells == (0 .. Width - 1) \X (0 .. Height - 1)

-----------------------------------------------------------------------------
(* What the server sends. *)

Welcomes == {[type |-> "Welcome", version |-> ProtocolVersion, id |-> p, tickRate |-> TickRate] :
               p \in PlayerIds}

\* sendReject: ServerFull, GameInProgress, Other.
Rejects == {[type |-> "Reject", reason |-> VersionMismatch, version |-> ProtocolVersion]}
           \union {[type |-> "Reject", reason |-> r, version |-> 0] : r \in {2, 4, 255}}

\* Mutant: the last part of a second is not counted.
WholeSeconds(left) == left \div TickRate

\* computeCountdownSecondsRemaining, before the deadline.
CountdownSeconds(left) == (left + TickRate - 1) \div TickRate

\* buildLobbyState: the seats of those who are there, ready or not.
Seats == {EmptySeat} \union {[flags |-> f, wins |-> 1, name |-> n] : f \in Occupied, n \in Names}
LobbyStates ==
  {[type |-> "LobbyState", phase |-> Idle, seconds |-> 0,
    seats |-> [i \in 1 .. MaxPlayers |-> IF i = 1 THEN a ELSE b]] : a, b \in Seats}
  \union
  {[type |-> "LobbyState", phase |-> Countdown, seconds |-> CountdownSeconds(left),
    seats |-> [i \in 1 .. MaxPlayers |-> seat]] : left \in 1 .. CountdownTicks, seat \in Seats}

\* maybeCommitMatchStart
MatchStarts == {[type |-> "MatchStart", matchId |-> 1, goShow |-> t + UnlockDelayTicks,
                 unlock |-> t + UnlockDelayTicks] : t \in Ticks}

\* winnerDisplayName: the name of a player who has gone, or has none, is "Player".
WinnerDisplayName(name) == IF name = <<>> THEN <<80, 108>> ELSE name

\* sendMatchResultToParticipants
MatchResults ==
  {[type |-> "MatchResult", matchId |-> 1, result |-> 0, winner |-> NoWinner, name |-> <<>>]}
  \union
  {[type |-> "MatchResult", matchId |-> 1, result |-> 1, winner |-> p,
    name |-> WinnerDisplayName(n)] : p \in PlayerIds, n \in Names}

\* buildCorrection
Corrections == {[type |-> "Correction", matchId |-> 1, tick |-> t, seq |-> 0,
                 x |-> x, y |-> y, flags |-> 1] : t \in Ticks, x, y \in Positions}

\* buildSnapshot, of a few players, bombs and powerups: ArenaWire has them all.
SampleEntry(id, x) == [id |-> id, x |-> x, y |-> 0, flags |-> 1]
SampleBomb(cell) == [owner |-> 0, cell |-> cell, radius |-> 1]
SamplePowerup(cell) == [kind |-> 0, cell |-> cell]
SampleSnapshot(x, n) ==
  [type |-> "Snapshot", matchId |-> 1, tick |-> 1,
   players |-> [i \in 1 .. MaxPlayers |-> SampleEntry(i - 1, x)],
   bombs |-> SubSeq(<<SampleBomb(<<1, 0>>), SampleBomb(<<0, 1>>)>>, 1, n),
   powerups |-> SubSeq(<<SamplePowerup(<<1, 1>>), SamplePowerup(<<0, 2>>)>>, 1, n)]
Snapshots ==
  {SampleSnapshot(x, n) : x \in Positions, n \in 0 .. Least(2, Least(MaxBombs, MaxPowerups))}

\* The events of a bomb at a brick.
GameplayEvents ==
  {[type |-> "BombPlaced", matchId |-> 1, tick |-> t, explode |-> t + 1, owner |-> 0,
    cell |-> <<1, 1>>, radius |-> 1] : t \in Ticks}
  \union
  {[type |-> "ExplosionResolved", matchId |-> 1, tick |-> 1, owner |-> 0, origin |-> <<1, 1>>,
    radius |-> 1, killed |-> k, blast |-> <<<<1, 1>>, <<2, 1>>, <<1, 0>>>>,
    bricks |-> SubSeq(<<<<2, 1>>, <<1, 0>>>>, 1, n)] : k \in 0 .. 2 ^ MaxPlayers - 1, n \in 0 .. 2}

LevelInfos == {[type |-> "LevelInfo", matchId |-> 1, seed |-> s] : s \in {0} \union Ticks}
Cancellations == {[type |-> "MatchCancelled", matchId |-> 1]}

FromServer == Welcomes \union Rejects \union LevelInfos \union LobbyStates \union MatchStarts
              \union Cancellations \union MatchResults \union Corrections
              \union Snapshots \union GameplayEvents

-----------------------------------------------------------------------------
(* What a client sends. *)

Hellos == {[type |-> "Hello", version |-> ProtocolVersion, name |-> n] : n \in Names}
LobbyReadies == {[type |-> "LobbyReady", ready |-> r] : r \in {0, 1}}
MatchesLoaded == {[type |-> "MatchLoaded", matchId |-> 1]}

\* sendInput: the last inputs, as many as there are and a packet holds.
BatchCount(seq) == Least(seq, MaxBatch)

Inputs == {[type |-> "Input", base |-> seq - BatchCount(seq) + 1,
            inputs |-> [i \in 1 .. BatchCount(seq) |-> mask]] :
             seq \in Ticks, mask \in {0, 10, 31}}

FromClient == Hellos \union LobbyReadies \union MatchesLoaded \union Inputs

-----------------------------------------------------------------------------
HandledBy(m) == IF m \in FromServer THEN ClientHandles ELSE ServerHandles

Send ==
  /\ sent = None
  /\ \E m \in FromServer \union FromClient : sent' = m /\ packet' = Packet(m)
  /\ UNCHANGED <<harmed, received>>

\* The values that a field can have on either side of what is asked of it.
Samples(width) ==
  {v \in {0, 1, 2, 3, 4, 5, 31, 32, 63, 64, 255, Modulus[2] - 1} : v < Modulus[width]}

Harm ==
  /\ packet # None /\ ~harmed /\ harmed' = TRUE
  /\ \/ \E i \in DOMAIN packet.fields : \E v \in Samples(Layout(packet.type)[i]) :
          packet' = [packet EXCEPT !.fields[i] = v]
     \/ packet' = [packet EXCEPT !.bytes = @ - 1]
     \/ \E c \in 0 .. 4 : packet' = [packet EXCEPT !.channel = c]
  /\ UNCHANGED <<sent, received>>

Deliver ==
  /\ packet # None
  /\ received' = Received(packet, HandledBy(sent))
  /\ packet' = None
  /\ UNCHANGED <<sent, harmed>>

\* The handler has returned.
Handled ==
  /\ received # None
  /\ sent' = None /\ received' = None /\ harmed' = FALSE
  /\ UNCHANGED packet

Init == sent = None /\ packet = None /\ harmed = FALSE /\ received = None

Next == Send \/ Harm \/ Deliver \/ Handled

Spec == Init /\ [][Next]_vars

-----------------------------------------------------------------------------
\* A name is cut to what its field holds.
Shortened(m) ==
  LET cut(name) == SubSeq(name, 1, Least(Len(name), NameMax - 1)) IN
  CASE m.type \in {"Hello", "MatchResult"} -> [m EXCEPT !.name = cut(@)]
    [] m.type = "LobbyState" ->
         [m EXCEPT !.seats = [i \in DOMAIN m.seats |->
                                [m.seats[i] EXCEPT !.name = cut(m.seats[i].name)]]]
    [] m.type \notin {"Hello", "MatchResult", "LobbyState"} -> m

(***************************************************************************)
(* Whatever either program has reason to send is accepted by the other,    *)
(* and its handler gets what was sent, with names cut to their field: no   *)
(* first input batch, last tick of a countdown, nameless winner or         *)
(* negative position is taken for a malformed packet.  (The serializers,   *)
(* deserializers and handleReceiveEvent of both sides.)                    *)
(***************************************************************************)
DeliveredAsSent == received # None /\ ~harmed => received = Shortened(sent)

AllDistinct(cells) == \A i, j \in DOMAIN cells : i < j => cells[i] # cells[j]

(***************************************************************************)
(* Whatever a packet holds, a handler can rely on what it is given: the    *)
(* message could have been sent as it is, ids and cells can be indexed     *)
(* with, no cell is listed twice, names end within their field, a          *)
(* countdown has seconds left and only a real winner has a name.  (The     *)
(* read functions of NetCommon.h.)                                         *)
(***************************************************************************)
HandlersMayRelyOnIt ==
  LET m == received IN
  m \notin {None, Rejected} =>
    /\ Received(Packet(m), HandledBy(sent)) = m
    /\ m.type = "Welcome" => m.id \in PlayerIds /\ m.tickRate # 0
    /\ m.type = "MatchResult" => (m.winner = NoWinner) = (m.name = <<>>)
    /\ m.type = "LobbyState" => (m.phase = Countdown) = (m.seconds > 0)
    /\ m.type = "Input" => Len(m.inputs) \in 1 .. MaxBatch /\ m.base > 0
    /\ m.type = "Snapshot" =>
         /\ AllDistinct([i \in DOMAIN m.players |-> m.players[i].id])
         /\ AllDistinct([i \in DOMAIN m.bombs |-> m.bombs[i].cell])
         /\ AllDistinct([i \in DOMAIN m.powerups |-> m.powerups[i].cell])
    /\ m.type = "ExplosionResolved" =>
         /\ AllDistinct(m.blast) /\ \A i \in DOMAIN m.blast : m.blast[i] \in BoardCells
         /\ AllDistinct(m.bricks) /\ \A i \in DOMAIN m.bricks : m.bricks[i] \in Range(m.blast)
=============================================================================
