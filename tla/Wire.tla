-------------------------------- MODULE Wire --------------------------------
(***************************************************************************)
(* The packets of the protocol (Net/NetCommon.h, Net/PacketDispatch.h):    *)
(* what the serializers write, and what a receiver accepts and makes of    *)
(* it.                                                                     *)
(*                                                                         *)
(* Abstractions.                                                           *)
(*  - A payload is the sequence of its fields, each a number below         *)
(*    Modulus[its width]; the order of the bytes within a field is left    *)
(*    out.  A message is a record of what its struct holds, without the    *)
(*    entries beyond its counts, and a name is the sequence of its         *)
(*    characters up to the first NUL.                                      *)
(*  - Flags and button masks are sets of bit positions, written as sums.   *)
(***************************************************************************)
EXTENDS Integers, SequencesExt

CONSTANTS
  Width, Height,    \* tileArrayWidth, tileArrayHeight
  MaxPlayers,       \* kMaxPlayers
  MaxBombs,         \* kMaxSnapshotBombs
  MaxPowerups,      \* kMaxSnapshotPowerups
  MaxBatch,         \* kMaxInputBatchSize
  NameMax,          \* kPlayerNameMax
  PowerupTypes,     \* kPowerupTypeCount
  Modulus           \* one more than the largest number of 1, 2 or 4 bytes

ASSUME SizesAssumption ==
  /\ Width \in Nat \ {0} /\ Height \in Nat \ {0} /\ MaxPlayers \in Nat \ {0}
  /\ MaxBombs \in Nat /\ MaxPowerups \in Nat /\ MaxBatch \in Nat \ {0}
  /\ NameMax \in Nat \ {0} /\ PowerupTypes \in Nat
ASSUME ModulusAssumption ==
  /\ Modulus \in [{1, 2, 4} -> Nat]
  /\ \A w \in {1, 2, 4} : Width <= Modulus[w] /\ Height <= Modulus[w]

\* kMaxExplosionBlastCells, kMaxExplosionDestroyedBricks
MaxBlast == 1 + 4 * ((IF Width > Height THEN Width ELSE Height) - 1)
MaxBricks == MaxBlast - 1

NUL == 0
NoWinner == 255
Rejected == [type |-> "Rejected"]

Repeat(n, s) == [i \in 1 .. n * Len(s) |-> s[((i - 1) % Len(s)) + 1]]

-----------------------------------------------------------------------------
(* Types, channels and sizes *)

Channel == [ControlReliable |-> 0, GameplayReliable |-> 1, InputUnreliable |-> 2,
            SnapshotUnreliable |-> 3, CorrectionUnreliable |-> 4]

Handshake == {"Hello", "Welcome", "Reject"}
RoundControl == {"LevelInfo", "LobbyReady", "MatchLoaded", "MatchStart", "MatchCancelled",
                 "MatchResult"}
ControlMsgs == Handshake \union RoundControl \union {"LobbyState"}
MsgTypes == ControlMsgs \union
            {"Input", "Snapshot", "Correction", "BombPlaced", "ExplosionResolved"}

ExpectedChannel(type) ==
  CASE type \in ControlMsgs                          -> Channel.ControlReliable
    [] type = "Input"                                -> Channel.InputUnreliable
    [] type = "Snapshot"                             -> Channel.SnapshotUnreliable
    [] type = "Correction"                           -> Channel.CorrectionUnreliable
    [] type \in {"BombPlaced", "ExplosionResolved"}  -> Channel.GameplayReliable

\* The widths of the fields of each payload.
Name == Repeat(NameMax, <<1>>)
Seat == <<1, 1>> \o Name
PlayerEntry == <<1, 2, 2, 1>>
BombEntry == <<1, 1, 1, 1>>
PowerupEntry == <<1, 1, 1>>
Cell == <<1, 1>>
Layout(type) ==
  CASE type = "Hello" -> <<2>> \o Name
    [] type = "Welcome" -> <<2, 1, 2>>
    [] type = "Reject" -> <<1, 2>>
    [] type = "LevelInfo" -> <<4, 4>>
    [] type = "LobbyState" -> <<1, 1, 2>> \o Repeat(MaxPlayers, Seat)
    [] type = "LobbyReady" -> <<1>>
    [] type \in {"MatchLoaded", "MatchCancelled"} -> <<4>>
    [] type = "MatchStart" -> <<4, 4, 4>>
    [] type = "MatchResult" -> <<4, 1, 1>> \o Name
    [] type = "Input" -> <<4, 1>> \o Repeat(MaxBatch, <<1>>)
    [] type = "Snapshot" ->
         <<4, 4, 1, 1, 1>> \o Repeat(MaxPlayers, PlayerEntry) \o Repeat(MaxBombs, BombEntry)
                           \o Repeat(MaxPowerups, PowerupEntry)
    [] type = "Correction" -> <<4, 4, 4, 2, 2, 1, 1, 1, 1>>
    [] type = "BombPlaced" -> <<4, 4, 4, 1, 1, 1, 1>>
    [] type = "ExplosionResolved" ->
         <<4, 4, 1, 1, 1, 1, 1, 1, 1>> \o Repeat(MaxBlast, Cell) \o Repeat(MaxBricks, Cell)

Bytes(widths) ==
  LET ofWidth(w) == Cardinality({i \in DOMAIN widths : widths[i] = w})
  IN  ofWidth(1) + 2 * ofWidth(2) + 4 * ofWidth(4)
ExpectedPayloadSize(type) == Bytes(Layout(type))

-----------------------------------------------------------------------------
(* Writing: a message to its fields, in the order of Layout. *)

Least(a, b) == IF a < b THEN a ELSE b

\* setHelloName, setLobbySeatName, setMatchResultWinnerName
FieldName(s) ==
  [i \in 1 .. NameMax |-> IF i <= Least(Len(s), NameMax - 1) THEN s[i] ELSE NUL]

Padded(entries, n, none) ==
  FlattenSeq(entries) \o Repeat(n - Len(entries), none)

Zeros(n) == Repeat(n, <<0>>)
CellFields(cells, n) == Padded(cells, n, Zeros(2))

WriteLobbyState(m) ==
  <<m.phase, m.seconds, 0>>
  \o FlattenSeq([i \in 1 .. MaxPlayers |->
                   <<m.seats[i].flags, m.seats[i].wins>> \o FieldName(m.seats[i].name)])

WriteSnapshot(m) ==
  LET players  == [i \in DOMAIN m.players |->
                     LET p == m.players[i] IN <<p.id, p.x, p.y, p.flags>>]
      bombs    == [i \in DOMAIN m.bombs |->
                     LET b == m.bombs[i] IN <<b.owner, b.cell[1], b.cell[2], b.radius>>]
      powerups == [i \in DOMAIN m.powerups |->
                     LET u == m.powerups[i] IN <<u.kind, u.cell[1], u.cell[2]>>]
  IN  <<m.matchId, m.tick, Len(players), Len(bombs), Len(powerups)>>
      \o Padded(players, MaxPlayers, Zeros(4)) \o Padded(bombs, MaxBombs, Zeros(4))
      \o Padded(powerups, MaxPowerups, Zeros(3))

WriteExplosion(m) ==
  <<m.matchId, m.tick, m.owner, m.origin[1], m.origin[2], m.radius, m.killed,
    Len(m.blast), Len(m.bricks)>>
  \o CellFields(m.blast, MaxBlast) \o CellFields(m.bricks, MaxBricks)

WriteHandshake(m) ==
  CASE m.type = "Hello" -> <<m.version>> \o FieldName(m.name)
    [] m.type = "Welcome" -> <<m.version, m.id, m.tickRate>>
    [] m.type = "Reject" -> <<m.reason, m.version>>

WriteRoundControl(m) ==
  CASE m.type = "LevelInfo" -> <<m.matchId, m.seed>>
    [] m.type = "LobbyReady" -> <<m.ready>>
    [] m.type \in {"MatchLoaded", "MatchCancelled"} -> <<m.matchId>>
    [] m.type = "MatchStart" -> <<m.matchId, m.goShow, m.unlock>>
    [] m.type = "MatchResult" -> <<m.matchId, m.result, m.winner>> \o FieldName(m.name)

Values(m) ==
  CASE m.type \in Handshake -> WriteHandshake(m)
    [] m.type = "LobbyState" -> WriteLobbyState(m)
    [] m.type \in RoundControl -> WriteRoundControl(m)
    [] m.type = "Input" -> <<m.base, Len(m.inputs)>> \o m.inputs
                             \o Zeros(MaxBatch - Len(m.inputs))
    [] m.type = "Snapshot" -> WriteSnapshot(m)
    [] m.type = "Correction" -> <<m.matchId, m.tick, m.seq, m.x, m.y, m.flags, 0, 0, 0>>
    [] m.type = "BombPlaced" -> <<m.matchId, m.tick, m.explode, m.owner,
                                  m.cell[1], m.cell[2], m.radius>>
    [] m.type = "ExplosionResolved" -> WriteExplosion(m)

\* Every field is cut to its width; a negative position takes the upper half.
Serialize(m) ==
  LET values == Values(m)
      widths == Layout(m.type)
  IN  [i \in DOMAIN values |-> values[i] % Modulus[widths[i]]]

\* A packet with its header's payload size and the bytes that follow the header.
Packet(m) ==
  [type |-> m.type, channel |-> ExpectedChannel(m.type),
   size |-> ExpectedPayloadSize(m.type), bytes |-> ExpectedPayloadSize(m.type),
   fields |-> Serialize(m)]

-----------------------------------------------------------------------------
(* Reading: the fields to a message, or Rejected. *)

\* boundedStrLen after the last byte is made NUL: the characters before the first NUL.
VisibleName(f) ==
  LET ends == {i \in 1 .. NameMax : i = NameMax \/ f[i] = NUL}
      end  == CHOOSE i \in ends : \A j \in ends : i <= j
  IN  SubSeq(f, 1, end - 1)

\* n entries of w fields each, from field at on.
Entries(f, at, n, w) == [i \in 1 .. n |-> [k \in 1 .. w |-> f[at + (i - 1) * w + k - 1]]]

Signed(n) == IF 2 * n >= Modulus[2] THEN n - Modulus[2] ELSE n
IsPlayerId(id) == id < MaxPlayers
IsTileCell(cell) == cell[1] < Width /\ cell[2] < Height
TileCellKey(cell) == cell[2] * Width + cell[1]
\* Mutant: equal keys pass.
NotDescending(keys) == \A i \in 2 .. Len(keys) : keys[i - 1] <= keys[i]

Ascending(keys) == \A i \in 2 .. Len(keys) : keys[i - 1] < keys[i]
Distinct(cells) == Cardinality(ToSet(cells)) = Len(cells)
OrReject(accepted, m) == IF accepted THEN m ELSE Rejected

\* MsgReject::EReason; only the first carries a version.
VersionMismatch == 1
Reasons == {VersionMismatch, 2, 3, 4, 255}

\* EResult: a draw has no winner, whatever the fields say.
ReadMatchResult(f) ==
  LET name == VisibleName(SubSeq(f, 4, 3 + NameMax)) IN
  CASE f[2] = 0 -> OrReject(f[1] # 0, [type |-> "MatchResult", matchId |-> f[1], result |-> 0,
                                       winner |-> NoWinner, name |-> <<>>])
    [] f[2] = 1 -> OrReject(f[1] # 0 /\ IsPlayerId(f[3]) /\ name # <<>>,
                            [type |-> "MatchResult", matchId |-> f[1], result |-> 1,
                             winner |-> f[3], name |-> name])
    [] f[2] \notin {0, 1} -> Rejected

\* ESeatFlags: Occupied is 1, Ready 2.
EmptySeat == [flags |-> 0, wins |-> 0, name |-> <<>>]
Occupied == {1, 3}
ReadSeat(e) ==
  IF e[1] \in Occupied
  THEN [flags |-> e[1], wins |-> e[2], name |-> VisibleName(SubSeq(e, 3, 2 + NameMax))]
  ELSE EmptySeat

Idle == 0
Countdown == 1
ReadLobbyState(f) ==
  LET seats == Entries(f, 4, MaxPlayers, 2 + NameMax) IN
  OrReject(/\ f[1] \in {Idle, Countdown} /\ f[3] = 0
           /\ f[1] = Countdown => f[2] # 0
           /\ \A i \in DOMAIN seats : seats[i][1] \in {0} \union Occupied,
           [type |-> "LobbyState", phase |-> f[1],
            seconds |-> IF f[1] = Countdown THEN f[2] ELSE 0,
            seats |-> [i \in 1 .. MaxPlayers |-> ReadSeat(seats[i])]])

\* kInputKnownBits, kFirstInputSeq
InputMasks == 0 .. 31
ReadInput(f) ==
  LET batch == SubSeq(f, 3, 2 + f[2]) IN
  IF f[2] \in 1 .. MaxBatch
  THEN OrReject(f[1] >= 1 /\ \A i \in DOMAIN batch : batch[i] \in InputMasks,
                [type |-> "Input", base |-> f[1], inputs |-> batch])
  ELSE Rejected

\* PlayerEntry::kKnownFlags
PlayerFlags == 0 .. 63
ReadSnapshot(f) ==
  LET bombsAt    == 6 + 4 * MaxPlayers
      powerupsAt == bombsAt + 4 * MaxBombs
      players    == Entries(f, 6, f[3], 4)
      bombs      == Entries(f, bombsAt, f[4], 4)
      powerups   == Entries(f, powerupsAt, f[5], 3)
      ids        == [i \in DOMAIN players |-> players[i][1]]
      bombCells  == [i \in DOMAIN bombs |-> <<bombs[i][2], bombs[i][3]>>]
      cells      == [i \in DOMAIN powerups |-> <<powerups[i][2], powerups[i][3]>>]
  IN
  IF f[3] <= MaxPlayers /\ f[4] <= MaxBombs /\ f[5] <= MaxPowerups
  THEN OrReject(
         /\ \A i \in DOMAIN players : IsPlayerId(ids[i]) /\ players[i][4] \in PlayerFlags
         /\ Ascending(ids)
         /\ \A i \in DOMAIN bombs :
              IsPlayerId(bombs[i][1]) /\ IsTileCell(bombCells[i]) /\ bombs[i][4] # 0
         /\ Ascending([i \in DOMAIN bombs |-> TileCellKey(bombCells[i])])
         /\ \A i \in DOMAIN powerups : powerups[i][1] < PowerupTypes /\ IsTileCell(cells[i])
         /\ Ascending([i \in DOMAIN powerups |-> TileCellKey(cells[i])]),
         [type |-> "Snapshot", matchId |-> f[1], tick |-> f[2],
          players |-> [i \in DOMAIN players |->
                         [id |-> ids[i], x |-> Signed(players[i][2]), y |-> Signed(players[i][3]),
                          flags |-> players[i][4]]],
          bombs |-> [i \in DOMAIN bombs |->
                       [owner |-> bombs[i][1], cell |-> bombCells[i], radius |-> bombs[i][4]]],
          powerups |-> [i \in DOMAIN powerups |-> [kind |-> powerups[i][1], cell |-> cells[i]]]])
  ELSE Rejected

ReadBombPlaced(f) ==
  LET cell == <<f[5], f[6]>> IN
  OrReject(IsPlayerId(f[4]) /\ IsTileCell(cell) /\ f[7] # 0 /\ f[3] >= f[2],
           [type |-> "BombPlaced", matchId |-> f[1], tick |-> f[2], explode |-> f[3],
            owner |-> f[4], cell |-> cell, radius |-> f[7]])

ReadExplosion(f) ==
  LET blast  == Entries(f, 10, f[8], 2)
      bricks == Entries(f, 10 + 2 * MaxBlast, f[9], 2)
      origin == <<f[4], f[5]>>
  IN
  IF f[8] \in 1 .. MaxBlast /\ f[9] <= MaxBricks /\ f[9] <= f[8]
  THEN OrReject(
         /\ IsPlayerId(f[3]) /\ IsTileCell(origin) /\ f[6] # 0 /\ f[7] < 2 ^ MaxPlayers
         /\ \A i \in DOMAIN blast : IsTileCell(blast[i])
         /\ Distinct(blast) /\ blast[1] = origin
         /\ \A i \in DOMAIN bricks : \E j \in DOMAIN blast : bricks[i] = blast[j]
         /\ Distinct(bricks),
         [type |-> "ExplosionResolved", matchId |-> f[1], tick |-> f[2], owner |-> f[3],
          origin |-> origin, radius |-> f[6], killed |-> f[7], blast |-> blast,
          bricks |-> bricks])
  ELSE Rejected

ReadHandshake(type, f) ==
  CASE type = "Hello" -> [type |-> type, version |-> f[1],
                          name |-> VisibleName(SubSeq(f, 2, 1 + NameMax))]
    [] type = "Welcome" -> OrReject(IsPlayerId(f[2]) /\ f[3] # 0,
                             [type |-> type, version |-> f[1], id |-> f[2], tickRate |-> f[3]])
    [] type = "Reject" -> OrReject(f[1] \in Reasons,
                            [type |-> type, reason |-> f[1],
                             version |-> IF f[1] = VersionMismatch THEN f[2] ELSE 0])

ReadRoundControl(type, f) ==
  CASE type = "LevelInfo" -> OrReject(f[1] # 0, [type |-> type, matchId |-> f[1], seed |-> f[2]])
    [] type = "LobbyReady" -> OrReject(f[1] <= 1, [type |-> type, ready |-> f[1]])
    [] type \in {"MatchLoaded", "MatchCancelled"} ->
         OrReject(f[1] # 0, [type |-> type, matchId |-> f[1]])
    [] type = "MatchStart" -> OrReject(f[1] # 0 /\ f[2] # 0 /\ f[3] # 0 /\ f[2] <= f[3],
                                [type |-> type, matchId |-> f[1], goShow |-> f[2], unlock |-> f[3]])
    [] type = "MatchResult" -> ReadMatchResult(f)

Deserialize(type, f) ==
  CASE type \in Handshake -> ReadHandshake(type, f)
    [] type = "LobbyState" -> ReadLobbyState(f)
    [] type \in RoundControl -> ReadRoundControl(type, f)
    [] type = "Input" -> ReadInput(f)
    [] type = "Snapshot" -> ReadSnapshot(f)
    [] type = "Correction" -> [type |-> type, matchId |-> f[1], tick |-> f[2], seq |-> f[3],
                               x |-> Signed(f[4]), y |-> Signed(f[5]), flags |-> f[6]]
    [] type = "BombPlaced" -> ReadBombPlaced(f)
    [] type = "ExplosionResolved" -> ReadExplosion(f)

-----------------------------------------------------------------------------
(* Receiving a packet: handleReceiveEvent of either side. *)

ServerHandles == {"Hello", "LobbyReady", "MatchLoaded", "Input"}
ClientHandles == {"Welcome", "Reject", "LevelInfo", "LobbyState", "MatchStart",
                  "MatchCancelled", "MatchResult", "Snapshot", "Correction", "BombPlaced",
                  "ExplosionResolved"}

\* tryParsePacket: a known type, and the size that goes with it.
HeaderParses(p) ==
  p.type \in MsgTypes /\ p.size = p.bytes /\ p.size = ExpectedPayloadSize(p.type)

Received(p, handles) ==
  IF HeaderParses(p) /\ p.channel = ExpectedChannel(p.type) /\ p.type \in handles
  THEN Deserialize(p.type, p.fields) ELSE Rejected
=============================================================================
