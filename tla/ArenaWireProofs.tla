--------------------------- MODULE ArenaWireProofs ---------------------------
(***************************************************************************)
(* The theorem of ArenaWire: what a round sends arrives as it was built.   *)
(*                                                                         *)
(* WireTripProofs says which messages can be sent and are read again as    *)
(* they were written (Sendable, AllTrip). It is used here for the sizes    *)
(* that ArenaWire gives Wire. What is left is that the arena builds no     *)
(* others: that its numbers fit their fields (OnTheMap, InReach, MaskFits),*)
(* that no cell is listed twice (BoardShape of ArenaProofs, Apart), that   *)
(* what Sorted makes of a set has each of its elements once and in order   *)
(* (RankedLists), and that a blast is no larger than its message           *)
(* (CrossFits).                                                            *)
(***************************************************************************)
EXTENDS ArenaWire, ArenaProofs

\* The proofs about Wire, for the sizes that ArenaWire gives it.
Trip == INSTANCE WireTripProofs WITH
  MaxPlayers <- Cardinality(PlayerIds), MaxBombs <- MaxSnapshotBombs,
  MaxPowerups <- Len(Placements), MaxBatch <- 1, NameMax <- 2,
  PowerupTypes <- Cardinality(Effects),
  Names <- {}, Ticks <- {}, TickRate <- 1, CountdownTicks <- 0, UnlockDelayTicks <- 0,
  Positions <- {}, sent <- 0, packet <- 0, harmed <- 0, received <- 0

-----------------------------------------------------------------------------
(* The sizes. *)

\* There are four types of powerups.
LEMMA FourEffects == Cardinality(Effects) = 4
  <1>1. Effects = {"SpeedBoost", "Invincibility", "BombRangeBoost", "MaxBombsBoost"}
    BY DEF Effects
  <1> DEFINE one == {"SpeedBoost"}
             two == one \union {"Invincibility"}
             three == two \union {"BombRangeBoost"}
             four == three \union {"MaxBombsBoost"}
  <1>2. IsFiniteSet(one) /\ Cardinality(one) = 1
    BY FS_Singleton
  <1>3. IsFiniteSet(two) /\ Cardinality(two) = 2
    BY <1>2, FS_AddElement
  <1>4. IsFiniteSet(three) /\ Cardinality(three) = 3
    BY <1>3, FS_AddElement
  <1>5. IsFiniteSet(four) /\ Cardinality(four) = 4
    BY <1>4, FS_AddElement
  <1>6. Effects = four
    BY <1>1
  <1>. QED BY <1>5, <1>6

\* How many may play.
Seats == Cardinality(PlayerIds)

\* The ids are those of the seats.
LEMMA SeatsFit == Seats \in 1 .. 255 /\ PlayerIds = 0 .. Seats - 1
  BY PacketsAssumption, Zenon DEF Seats

\* What the assumptions say of the numbers.
LEMMA Facts ==
  /\ Width \in Nat /\ Width >= 3 /\ Height \in Nat /\ Height >= 3
  /\ Modulus[1] \in Nat /\ Modulus[2] \in Nat /\ Modulus[4] \in Nat
  /\ 255 < Modulus[1] /\ Modulus[1] <= Modulus[2] /\ Modulus[2] <= Modulus[4]
  /\ MaxSnapshotBombs \in Nat /\ Len(Placements) \in Nat
  /\ MaxSnapshotBombs < Modulus[1] /\ Len(Placements) < Modulus[1]
  /\ 2 ^ Seats \in 1 .. Modulus[1]
  /\ Width < Modulus[1] /\ Height < Modulus[1]
  /\ Trip!MaxBlast < Modulus[1]
  <1>1. /\ Width \in Nat /\ Width >= 3 /\ Height \in Nat /\ Height >= 3
        /\ Modulus[1] \in Nat /\ Modulus[2] \in Nat /\ Modulus[4] \in Nat
        /\ 255 < Modulus[1] /\ Modulus[1] <= Modulus[2] /\ Modulus[2] <= Modulus[4]
        /\ MaxSnapshotBombs \in Nat
        /\ MaxSnapshotBombs < Modulus[1] /\ Len(Placements) < Modulus[1]
    BY PacketsAssumption, TuningAssumption, GridAssumption
  <1>2. Len(Placements) \in Nat
    BY PlacementsAssumption
  <1>3. 2 ^ Seats \in Nat \ {0} /\ 2 ^ Seats <= Modulus[1]
    <2> DEFINE n == Seats - 1
    <2>1. n \in PlayerIds /\ n + 1 = Seats
      BY SeatsFit
    <2> HIDE DEF n
    <2>2. 2 ^ n \in Nat \ {0} /\ 2 ^ Seats = 2 * 2 ^ n
      BY <2>1, PowersAssumption, Zenon
    <2>3. 2 * 2 ^ n \in Nat \ {0}
      BY <2>2
    <2>4. 2 ^ Seats <= Modulus[1]
      BY PacketsAssumption, Zenon DEF Seats
    <2>. QED BY <2>2, <2>3, <2>4, Zenon
  <1>4. Trip!MaxBlast < Modulus[1]
    BY PacketsAssumption DEF Packets!MaxBlast, Trip!MaxBlast
  <1>5. Width < Modulus[1] /\ Height < Modulus[1]
    BY <1>1, <1>4 DEF Trip!MaxBlast
  <1>6. 2 ^ Seats \in 1 .. Modulus[1]
    BY <1>1, <1>3
  <1>. QED BY <1>1, <1>2, <1>4, <1>5, <1>6

\* What WireTripProofs assumes holds of the sizes it is used for.
LEMMA TripAssumptions ==
  Trip!SizesAssumption /\ Trip!ModulusAssumption /\ Trip!TicksAssumption /\ Trip!FieldsAssumption
  <1>1. Trip!SizesAssumption
    <2>1. Cardinality(Effects) \in Nat /\ 1 \in Nat \ {0} /\ 2 \in Nat \ {0}
      BY FourEffects
    <2>2. Seats \in Nat \ {0} /\ Width \in Nat \ {0} /\ Height \in Nat \ {0}
      BY Facts, SeatsFit
    <2>. QED BY <2>1, <2>2, Facts, Zenon DEF Trip!SizesAssumption, Seats
  <1>2. Trip!ModulusAssumption
    BY Facts, PacketsAssumption DEF Trip!ModulusAssumption
  <1>3. Trip!TicksAssumption
    BY DEF Trip!TicksAssumption
  <1>4. Trip!FieldsAssumption
    <2>1. 255 < Modulus[2] /\ 1 < Modulus[2] /\ Seats <= 255 /\ 1 < Modulus[1] /\ 0 <= 1 * (Modulus[1] - 1)
      BY Facts, SeatsFit
    <2>2. 4 <= Modulus[1] /\ 4 > 0 /\ 2 > 1
      BY Facts
    <2>3. Cardinality(Effects) <= Modulus[1] /\ Cardinality(Effects) > 0
      BY <2>2, FourEffects, Zenon
    <2>. QED BY <2>1, <2>2, <2>3, Facts, Zenon DEF Trip!FieldsAssumption, Trip!NoWinner, Seats
  <1>. QED BY <1>1, <1>2, <1>3, <1>4

\* So what can be sent is read as it was written.
LEMMA Tripping == \A m \in Trip!Sendable : Trip!Trips(m)
  BY TripAssumptions, Trip!AllTrip

-----------------------------------------------------------------------------
(* Packets of ArenaWire and Trip write and read the same. *)

\* They have the same sizes and layouts of their parts.
LEMMA SameNumbers ==
  /\ Packets!MaxBlast = Trip!MaxBlast /\ Packets!MaxBricks = Trip!MaxBricks
  /\ Packets!Name = Trip!Name /\ Packets!Seat = Trip!Seat /\ Packets!Cell = Trip!Cell
  /\ \A n, s : Packets!Repeat(n, s) = Trip!Repeat(n, s)
  <1>1. \A n, s : Packets!Repeat(n, s) = Trip!Repeat(n, s)
    BY Zenon DEF Packets!Repeat, Trip!Repeat
  <1>. QED
    BY <1>1, Zenon DEF Packets!MaxBlast, Trip!MaxBlast, Packets!MaxBricks, Trip!MaxBricks,
       Packets!Name, Trip!Name, Packets!Seat, Trip!Seat, Packets!Cell, Trip!Cell

\* They lay messages out the same.
LEMMA SameLayout == \A type : Packets!Layout(type) = Trip!Layout(type)
  BY SameNumbers, Zenon DEF Packets!Layout, Trip!Layout, Packets!PlayerEntry, Trip!PlayerEntry,
     Packets!BombEntry, Trip!BombEntry, Packets!PowerupEntry, Trip!PowerupEntry

\* The helpers of their serializers give the same: lists of lists made one,
LEMMA SameFlatten == \A s : Packets!FlattenSeq(s) = Trip!FlattenSeq(s)
  BY Zenon DEF Packets!FlattenSeq, Trip!FlattenSeq

\* entries padded to their number,
LEMMA SamePadded == \A e, n, x : Packets!Padded(e, n, x) = Trip!Padded(e, n, x)
  <1> TAKE e, n, x
  <1>1. Packets!FlattenSeq(e) = Trip!FlattenSeq(e)
    BY SameFlatten, Zenon
  <1>2. Packets!Repeat(n - Len(e), x) = Trip!Repeat(n - Len(e), x)
    BY SameNumbers, Zenon
  <1>. QED BY <1>1, <1>2, Zenon DEF Packets!Padded, Trip!Padded

\* and zeros.
LEMMA SameZeros == \A n : Packets!Zeros(n) = Trip!Zeros(n)
  BY SameNumbers, Zenon DEF Packets!Zeros, Trip!Zeros

\* So they write the same of a snapshot
LEMMA SameSnapshot == \A m : Packets!WriteSnapshot(m) = Trip!WriteSnapshot(m)
  BY SamePadded, SameZeros, Zenon DEF Packets!WriteSnapshot, Trip!WriteSnapshot

\* and of an explosion.
LEMMA SameExplosion == \A m : Packets!WriteExplosion(m) = Trip!WriteExplosion(m)
  BY SamePadded, SameZeros, SameNumbers, Zenon
     DEF Packets!WriteExplosion, Trip!WriteExplosion, Packets!CellFields, Trip!CellFields

\* What a round tells of its arena.
Told == {"Snapshot", "BombPlaced", "ExplosionResolved"}

\* They write the same of whatever is told.
LEMMA SameValues == ASSUME NEW m, m.type \in Told PROVE Packets!Values(m) = Trip!Values(m)
  <1>1. CASE m.type = "Snapshot"
    BY <1>1, SameSnapshot
       DEF Packets!Values, Trip!Values, Packets!Handshake, Trip!Handshake, Packets!RoundControl, Trip!RoundControl
  <1>2. CASE m.type = "BombPlaced"
    BY <1>2
       DEF Packets!Values, Trip!Values, Packets!Handshake, Trip!Handshake, Packets!RoundControl, Trip!RoundControl
  <1>3. CASE m.type = "ExplosionResolved"
    BY <1>3, SameExplosion
       DEF Packets!Values, Trip!Values, Packets!Handshake, Trip!Handshake, Packets!RoundControl, Trip!RoundControl
  <1>. QED BY <1>1, <1>2, <1>3 DEF Told

\* In full as in the values of its fields.
LEMMA SameSerialize == ASSUME NEW m, m.type \in Told PROVE Packets!Serialize(m) = Trip!Serialize(m)
  <1>1. Packets!Values(m) = Trip!Values(m)
    BY SameValues
  <1>2. Packets!Layout(m.type) = Trip!Layout(m.type)
    BY SameLayout, Zenon
  <1>. QED BY <1>1, <1>2, Zenon DEF Packets!Serialize, Trip!Serialize

\* They send it on the same channel and expect it of the same size.
LEMMA SameTypes ==
  /\ \A t \in Told : Packets!ExpectedChannel(t) = Trip!ExpectedChannel(t)
  /\ \A t : Packets!ExpectedPayloadSize(t) = Trip!ExpectedPayloadSize(t)
  /\ Packets!MsgTypes = Trip!MsgTypes /\ Told \subseteq Trip!MsgTypes
  <1>1. /\ Packets!ControlMsgs = Trip!ControlMsgs /\ Packets!MsgTypes = Trip!MsgTypes
        /\ Packets!Channel = Trip!Channel
    BY Zenon DEF Packets!ControlMsgs, Trip!ControlMsgs, Packets!MsgTypes, Trip!MsgTypes,
       Packets!Handshake, Trip!Handshake, Packets!RoundControl, Trip!RoundControl, Packets!Channel, Trip!Channel
  <1>2. \A t : Packets!ExpectedPayloadSize(t) = Trip!ExpectedPayloadSize(t)
    <2> TAKE t
    <2>1. Packets!Layout(t) = Trip!Layout(t)
      BY SameLayout, Zenon
    <2>2. Packets!Bytes(Trip!Layout(t)) = Trip!Bytes(Trip!Layout(t))
      BY Zenon DEF Packets!Bytes, Trip!Bytes, Packets!Cardinality, Trip!Cardinality
    <2>. QED BY <2>1, <2>2, Zenon DEF Packets!ExpectedPayloadSize, Trip!ExpectedPayloadSize
  <1>3. Told \subseteq Trip!MsgTypes
    BY Zenon DEF Told, Trip!MsgTypes
  <1>4. \A t \in Told : t \notin Trip!ControlMsgs
    BY DEF Told, Trip!ControlMsgs, Trip!Handshake, Trip!RoundControl
  <1>5. \A t \in Told : Packets!ExpectedChannel(t) = Trip!ExpectedChannel(t)
    BY <1>1, <1>4 DEF Told, Packets!ExpectedChannel, Trip!ExpectedChannel
  <1>. QED BY <1>1, <1>2, <1>3, <1>5, Zenon

\* The packets are the same.
LEMMA SamePacket == ASSUME NEW m, m.type \in Told PROVE Packets!Packet(m) = Trip!Packet(m)
  <1>1. Packets!Serialize(m) = Trip!Serialize(m)
    BY SameSerialize, Zenon
  <1>2. Packets!ExpectedChannel(m.type) = Trip!ExpectedChannel(m.type)
    BY SameTypes, Zenon
  <1>3. Packets!ExpectedPayloadSize(m.type) = Trip!ExpectedPayloadSize(m.type)
    BY SameTypes, Zenon
  <1>. QED BY <1>1, <1>2, <1>3, Zenon DEF Packets!Packet, Trip!Packet

\* The checks of their deserializers are the same.
LEMMA SameParts ==
  /\ \A f, at, n, w : Packets!Entries(f, at, n, w) = Trip!Entries(f, at, n, w)
  /\ \A a, b : Packets!OrReject(a, b) = Trip!OrReject(a, b)
  /\ \A id : Packets!IsPlayerId(id) <=> Trip!IsPlayerId(id)
  /\ \A c : Packets!IsTileCell(c) <=> Trip!IsTileCell(c)
  /\ \A c : Packets!TileCellKey(c) = Trip!TileCellKey(c)
  /\ \A c : Packets!Ascending(c) <=> Trip!Ascending(c)
  /\ \A c : Packets!Distinct(c) <=> Trip!Distinct(c)
  /\ \A n : Packets!Signed(n) = Trip!Signed(n)
  /\ Packets!Rejected = Trip!Rejected /\ Packets!PlayerFlags = Trip!PlayerFlags
  <1>1. Packets!Rejected = Trip!Rejected /\ Packets!PlayerFlags = Trip!PlayerFlags
    BY Zenon DEF Packets!Rejected, Trip!Rejected, Packets!PlayerFlags, Trip!PlayerFlags
  <1>2. \A f, at, n, w : Packets!Entries(f, at, n, w) = Trip!Entries(f, at, n, w)
    BY Zenon DEF Packets!Entries, Trip!Entries
  <1>3. \A a, b : Packets!OrReject(a, b) = Trip!OrReject(a, b)
    BY <1>1, Zenon DEF Packets!OrReject, Trip!OrReject
  <1>4. /\ \A id : Packets!IsPlayerId(id) <=> Trip!IsPlayerId(id)
        /\ \A c : Packets!IsTileCell(c) <=> Trip!IsTileCell(c)
        /\ \A c : Packets!TileCellKey(c) = Trip!TileCellKey(c)
    BY Zenon DEF Packets!IsPlayerId, Trip!IsPlayerId, Packets!IsTileCell, Trip!IsTileCell,
       Packets!TileCellKey, Trip!TileCellKey
  <1>5. \A c : Packets!Ascending(c) <=> Trip!Ascending(c)
    BY Zenon DEF Packets!Ascending, Trip!Ascending
  <1>6. \A c : Packets!Distinct(c) <=> Trip!Distinct(c)
    BY Zenon DEF Packets!Distinct, Trip!Distinct, Packets!ToSet, Trip!ToSet,
       Packets!Cardinality, Trip!Cardinality
  <1>7. \A n : Packets!Signed(n) = Trip!Signed(n)
    BY Zenon DEF Packets!Signed, Trip!Signed
  <1>. QED BY <1>1, <1>2, <1>3, <1>4, <1>5, <1>6, <1>7, Zenon

\* So they read the same of a BombPlaced,
LEMMA SameBombPlaced == \A f : Packets!ReadBombPlaced(f) = Trip!ReadBombPlaced(f)
  BY SameParts, Zenon DEF Packets!ReadBombPlaced, Trip!ReadBombPlaced

\* of an ExplosionResolved
LEMMA SameExplosionRead == \A f : Packets!ReadExplosion(f) = Trip!ReadExplosion(f)
  BY Zenon DEF Packets!ReadExplosion, Trip!ReadExplosion, Packets!Entries, Trip!Entries, Packets!OrReject,
     Trip!OrReject, Packets!IsPlayerId, Trip!IsPlayerId, Packets!IsTileCell, Trip!IsTileCell,
     Packets!Distinct, Trip!Distinct, Packets!ToSet, Trip!ToSet, Packets!Cardinality, Trip!Cardinality,
     Packets!MaxBlast, Trip!MaxBlast, Packets!MaxBricks, Trip!MaxBricks, Packets!Rejected, Trip!Rejected

\* and of a snapshot.
LEMMA SameSnapshotRead == \A f : Packets!ReadSnapshot(f) = Trip!ReadSnapshot(f)
  BY Zenon DEF Packets!ReadSnapshot, Trip!ReadSnapshot, Packets!Entries, Trip!Entries, Packets!OrReject,
     Trip!OrReject, Packets!IsPlayerId, Trip!IsPlayerId, Packets!IsTileCell, Trip!IsTileCell,
     Packets!Ascending, Trip!Ascending, Packets!TileCellKey, Trip!TileCellKey, Packets!Signed,
     Trip!Signed, Packets!PlayerFlags, Trip!PlayerFlags, Packets!Rejected, Trip!Rejected

\* A message that can be sent arrives as it was built.
LEMMA Arrival ==
  ASSUME NEW m \in Trip!Sendable, m.type \in Told
  PROVE  Arrives(m)
  <1> DEFINE p == Trip!Packet(m)
             f == Trip!Serialize(m)
  <1>1. Packets!Packet(m) = p
    BY SamePacket, Zenon
  <1>2. /\ Trip!Received(p, Told) = Trip!Deserialize(m.type, f)
        /\ p.type = m.type /\ p.fields = f
    BY TripAssumptions, Trip!PacketOf, SameTypes, Zenon
  <1>3. /\ p.channel = Trip!ExpectedChannel(m.type)
        /\ p.size = Trip!ExpectedPayloadSize(m.type) /\ p.bytes = p.size
    BY DEF Trip!Packet
  <1> HIDE DEF p, f
  <1>4. Trip!Deserialize(m.type, f) = m
    <2>1. Trip!Deserialize(m.type, f) = Trip!Shortened(m)
      BY Tripping, Zenon DEF Trip!Trips, f
    <2>2. Trip!Shortened(m) = m
      BY DEF Trip!Shortened, Told
    <2>. QED BY <2>1, <2>2
  <1>5. Packets!Deserialize(m.type, f) = Trip!Deserialize(m.type, f)
    BY SameBombPlaced, SameExplosionRead, SameSnapshotRead
       DEF Told, Packets!Deserialize, Trip!Deserialize,
           Packets!Handshake, Trip!Handshake, Packets!RoundControl, Trip!RoundControl
  <1>6. Packets!HeaderParses(p)
    BY <1>2, <1>3, SameTypes, Zenon DEF Packets!HeaderParses
  <1>7. Packets!Received(p, Packets!ClientHandles) = Packets!Deserialize(m.type, f)
    <2>1. Told \subseteq Packets!ClientHandles
      BY DEF Told, Packets!ClientHandles
    <2>. QED BY <1>2, <1>3, <1>6, <2>1, SameTypes, Zenon DEF Packets!Received
  <1>. QED BY <1>1, <1>4, <1>5, <1>7, Zenon DEF Arrives

-----------------------------------------------------------------------------
(* What the messages are made of. *)

\* A player is on the map, or at most a tile off it.
Near(at) ==
  /\ at \in [x : Int, y : Int]
  /\ -TileQ <= at.x /\ at.x <= (Width + 1) * TileQ /\ -TileQ <= at.y /\ at.y <= (Height + 1) * TileQ
\* Every player is.
OnTheMap == \A p \in PlayerIds : Near(pos[p])

\* A bomb's range is the default one or a boosted one.
Reaches == {DefaultRange, DefaultRange + RangeBoost}
\* So is that of every player and of every bomb.
InReach == (\A p \in PlayerIds : bombRange[p] \in Reaches) /\ (\A b \in bombs : b.radius \in Reaches)

\* No two powerups lie in one cell.
Apart ==
  \A i, j \in PowerupSlots :
    powerups[i].revealed # "gone" /\ powerups[j].revealed # "gone" /\ powerups[i].cell = powerups[j].cell
      => i = j

\* A corner that is on the map is less than a tile off it.
LEMMA CornerOnMap ==
  ASSUME NEW a \in Int, NEW n \in Nat, TruncDiv(a, TileQ) \in 0 .. n - 1
  PROVE  -TileQ < a /\ a < n * TileQ
  <1> DEFINE b == TileQ
  <1>1. b \in Nat \ {0}
    BY TilePositive
  <1>2. CASE a >= 0
    <2> DEFINE t == TruncDiv(a, b)
    <2>1. t \in Nat /\ a < (t + 1) * b
      BY <1>1, <1>2, TruncDivNat
    <2>2. t + 1 <= n
      BY <2>1
    <2> HIDE DEF t, b
    <2>3. (t + 1) * b <= n * b
      BY <1>1, <2>1, <2>2
    <2>4. (t + 1) * b \in Int /\ n * b \in Int
      BY <1>1, <2>1
    <2>. QED BY <1>1, <1>2, <2>1, <2>3, <2>4 DEF b
  <1>3. CASE a < 0
    <2> DEFINE q == (-a) \div b
    <2>1. TruncDiv(a, b) = -q
      BY <1>3 DEF TruncDiv
    <2>2. q \in Int /\ -a < (q + 1) * b
      BY <1>1, <1>3
    <2>3. q <= 0
      BY <2>1, <2>2
    <2> HIDE DEF q, b
    <2>4. (q + 1) * b <= 1 * b
      BY <1>1, <2>2, <2>3
    <2>5. (q + 1) * b \in Int /\ n * b \in Nat
      BY <1>1, <2>2
    <2>. QED BY <1>1, <1>3, <2>2, <2>4, <2>5 DEF b
  <1>. QED BY <1>2, <1>3

\* Where OverlapsWall finds no wall is near the map.
LEMMA NoWallNear ==
  ASSUME NEW map, NEW x \in Int, NEW y \in Int, ~OverlapsWall(map, x, y)
  PROVE  Near([x |-> x, y |-> y])
  <1> DEFINE left == TruncDiv(x - HitboxHalfQ, TileQ)
             right == TruncDiv(x + HitboxHalfQ - 1, TileQ)
             top == TruncDiv(y - HitboxHalfQ, TileQ)
             bottom == TruncDiv(y + HitboxHalfQ - 1, TileQ)
  <1>1. IsWalkable(map, left, top) /\ IsWalkable(map, right, bottom)
    BY Zenon DEF OverlapsWall
  <1>2. /\ left \in 0 .. Width - 1 /\ right \in 0 .. Width - 1
        /\ top \in 0 .. Height - 1 /\ bottom \in 0 .. Height - 1
    BY <1>1 DEF IsWalkable, Cells
  <1>3. /\ x - HitboxHalfQ \in Int /\ x + HitboxHalfQ - 1 \in Int
        /\ y - HitboxHalfQ \in Int /\ y + HitboxHalfQ - 1 \in Int
        /\ Width \in Nat /\ Height \in Nat
    BY TilePositive, GridAssumption
  <1>4. /\ -TileQ < x - HitboxHalfQ /\ x + HitboxHalfQ - 1 < Width * TileQ
        /\ -TileQ < y - HitboxHalfQ /\ y + HitboxHalfQ - 1 < Height * TileQ
    BY <1>2, <1>3, CornerOnMap
  <1> HIDE DEF left, right, top, bottom
  <1>5. /\ (Width + 1) * TileQ = Width * TileQ + TileQ /\ (Height + 1) * TileQ = Height * TileQ + TileQ
        /\ Width * TileQ \in Int /\ Height * TileQ \in Int
    BY <1>3, TilePositive
  <1>. QED BY <1>4, <1>5, TilePositive DEF Near

\* The centre of a cell is near the map.
LEMMA CentreNear == ASSUME NEW cell \in Cells PROVE Near(CentreOf(cell))
  <1>1. /\ cell[1] \in Nat /\ cell[1] + 1 <= Width /\ cell[2] \in Nat /\ cell[2] + 1 <= Height
        /\ Width \in Nat /\ Height \in Nat
    BY GridAssumption DEF Cells
  <1>2. TileQ \in Nat /\ TileQ \div 2 \in Nat /\ TileQ \div 2 <= TileQ
    BY TilePositive
  <1> DEFINE x == cell[1] * TileQ
             y == cell[2] * TileQ
  <1>3. ASSUME NEW c \in Nat, NEW n \in Nat, c + 1 <= n
        PROVE  c * TileQ \in Nat /\ c * TileQ + TileQ <= (n + 1) * TileQ
    <2>1. (c + 1) * TileQ <= (n + 1) * TileQ
      BY <1>2, <1>3
    <2>2. (c + 1) * TileQ = c * TileQ + TileQ /\ c * TileQ \in Nat
      BY <1>2
    <2>. QED BY <2>1, <2>2
  <1>4. x \in Nat /\ x + TileQ <= (Width + 1) * TileQ /\ y \in Nat /\ y + TileQ <= (Height + 1) * TileQ
    BY <1>1, <1>3
  <1>5. CentreOf(cell) = [x |-> x + TileQ \div 2, y |-> y + TileQ \div 2]
    BY DEF CentreOf
  <1> DEFINE half == TileQ \div 2
             right == (Width + 1) * TileQ
             bottom == (Height + 1) * TileQ
  <1>6. right \in Int /\ bottom \in Int
    BY <1>1, <1>2
  <1> HIDE DEF x, y, half, right, bottom
  <1>7. /\ x + half \in Int /\ -TileQ <= x + half /\ x + half <= right
        /\ y + half \in Int /\ -TileQ <= y + half /\ y + half <= bottom
    BY <1>2, <1>4, <1>6 DEF half, right, bottom
  <1>. QED BY <1>5, <1>7 DEF Near, half, right, bottom

\* A step leaves a player near the map.
LEMMA MovesNear ==
  ASSUME NEW map, NEW at, Near(at), NEW mx \in Int, NEW my \in Int, NEW speed \in Nat
  PROVE  Near(StepMovementWithCollision(at, mx, my, map, speed))
  <1> DEFINE newX == at.x + mx * speed
             x    == IF mx # 0 /\ ~OverlapsWall(map, newX, at.y) THEN newX ELSE at.x
             newY == at.y + my * speed
             y    == IF my # 0 /\ ~OverlapsWall(map, x, newY) THEN newY ELSE at.y
  <1>0. at \in [x : Int, y : Int] /\ at = [x |-> at.x, y |-> at.y]
    BY DEF Near
  <1>1. StepMovementWithCollision(at, mx, my, map, speed) = [x |-> x, y |-> y]
    BY DEF StepMovementWithCollision
  <1>2. newX \in Int /\ newY \in Int /\ x \in Int /\ y \in Int
    BY <1>0
  <1>3. ~OverlapsWall(map, x, y) \/ [x |-> x, y |-> y] = at
    <2>1. CASE y = newY /\ ~OverlapsWall(map, x, newY)
      BY <2>1, Zenon
    <2>2. CASE y = at.y /\ x = newX /\ ~OverlapsWall(map, newX, at.y)
      BY <2>2, Zenon
    <2>3. CASE y = at.y /\ x = at.x
      BY <1>0, <2>3
    <2>. QED BY <2>1, <2>2, <2>3
  <1> HIDE DEF x, y
  <1>. QED BY <1>1, <1>2, <1>3, NoWallNear, Zenon

\* Every step keeps the players near the map.
LEMMA NextOnTheMap == Typed /\ OnTheMap /\ [Next]_vars => OnTheMap'
  <1> SUFFICES ASSUME Typed, OnTheMap, [Next]_vars PROVE OnTheMap'
    OBVIOUS
  <1>1. ASSUME UNCHANGED pos PROVE OnTheMap'
    BY <1>1 DEF OnTheMap, Near
  <1>2. ASSUME NEW ids \in SUBSET PlayerIds, BeginRound(ids) PROVE OnTheMap'
    BY <1>2, BoardAssumption, CentreNear DEF BeginRound, OnTheMap, Near
  <1>3. ASSUME NEW p \in PlayerIds, Disconnect(p) PROVE OnTheMap'
    BY <1>1, <1>3 DEF Disconnect, moveVars
  <1>4. CASE ReturnToLobby
    BY <1>1, <1>4 DEF ReturnToLobby, moveVars
  <1>5. CASE SimulatePlayer
    <2> DEFINE p == Min(toSimulate)
    <2>1. p \in inMatch /\ p \in PlayerIds /\ \A q \in PlayerIds : q # p => pos'[q] = pos[q]
      BY <1>5, SimulatedPlayer DEF Typed, TypeOK
    <2>2. CASE p \in alive \ locked
      <3>1. PICK buttons \in Inputs : Act(p, buttons)
        BY <1>5, <2>2 DEF SimulatePlayer
      <3>2. PICK speed \in Nat :
              pos'[p] = StepMovementWithCollision(pos[p], MoveX(buttons), MoveY(buttons), tiles, speed)
        BY <2>1, <3>1, TuningAssumption DEF Act, Typed, TypeOK
      <3>3. Near(pos[p])
        BY <2>1 DEF OnTheMap
      <3>4. Near(pos'[p])
        BY <3>2, <3>3, DirectionType, MovesNear
      <3>. QED BY <2>1, <3>4 DEF OnTheMap, Near
    <2>3. CASE p \notin alive \ locked
      BY <1>1, <1>5, <2>3, SimulatedPlayer
    <2>. QED BY <2>2, <2>3
  <1>6. CASE StartTick \/ ResolveExplodingBombs \/ FinishEndOfMatchTick \/ FinishMatchTick \/ UNCHANGED vars
    BY <1>1, <1>6 DEF StartTick, ResolveExplodingBombs, FinishEndOfMatchTick, FinishMatchTick, moveVars, vars
  <1>7. CASE ResolveBombExplosion
    BY <1>1, <1>7 DEF ResolveBombExplosion, Explode
  <1>. QED BY <1>2, <1>3, <1>4, <1>5, <1>6, <1>7 DEF Next, TickStep

\* Every step keeps the ranges of players and bombs to the two there are.
LEMMA NextInReach == Typed /\ InReach /\ [Next]_vars => InReach'
  <1> SUFFICES ASSUME Typed, InReach, [Next]_vars PROVE InReach'
    OBVIOUS
  <1>1. ASSUME UNCHANGED bombRange, bombs' \subseteq bombs PROVE InReach'
    BY <1>1 DEF InReach
  <1>2. \A effects : RangeWith(effects) \in Reaches
    BY Zenon DEF RangeWith, Reaches
  <1>3. ASSUME NEW ids \in SUBSET PlayerIds, BeginRound(ids) PROVE InReach'
    BY <1>3 DEF BeginRound, ClearBombsAndReleaseOwnership, InReach, Reaches
  <1>4. ASSUME NEW p \in PlayerIds, Disconnect(p) PROVE InReach'
    BY <1>1, <1>4 DEF Disconnect, ResetToLobby, EndRound, ClearBombsAndReleaseOwnership
  <1>5. CASE ReturnToLobby
    BY <1>1, <1>5 DEF ReturnToLobby, ResetToLobby, ClearBombsAndReleaseOwnership
  <1>6. CASE StartTick
    <2>1. \A b \in bombs' : b.radius \in Reaches
      BY <1>6, StartTickBurns DEF InReach
    <2>. QED BY <1>6, <2>1 DEF StartTick, InReach
  <1>7. CASE SimulatePlayer
    <2>1. \A p \in PlayerIds : bombRange'[p] \in Reaches
      BY <1>2, <1>7 DEF SimulatePlayer, InReach, Typed, TypeOK
    <2>2. CASE UNCHANGED bombs
      BY <2>1, <2>2 DEF InReach
    <2>3. CASE \E bomb : Places(Min(toSimulate), bomb)
      <3>1. PICK bomb : Places(Min(toSimulate), bomb)
        BY <2>3
      <3>2. Min(toSimulate) \in PlayerIds
        BY <1>7, SimulatedPlayer DEF Typed, TypeOK
      <3>3. bombs' = bombs \cup {bomb} /\ bomb.radius \in Reaches
        BY <2>1, <3>1, <3>2 DEF Places
      <3>. QED BY <2>1, <3>3 DEF InReach
    <2>. QED BY <1>7, <2>2, <2>3, SimulatedPlayer
  <1>8. CASE ResolveBombExplosion
    BY <1>1, <1>8 DEF ResolveBombExplosion, Explode
  <1>9. CASE FinishMatchTick
    <2>1. \A p \in PlayerIds : bombRange'[p] \in Reaches
      BY <1>2, <1>9 DEF FinishMatchTick, LoadoutOfCollectors, InReach
    <2>2. bombs' \subseteq bombs
      BY <1>9 DEF FinishMatchTick, EndRound, ClearBombsAndReleaseOwnership
    <2>. QED BY <2>1, <2>2 DEF InReach
  <1>10. CASE ResolveExplodingBombs \/ FinishEndOfMatchTick \/ UNCHANGED vars
    BY <1>1, <1>10 DEF ResolveExplodingBombs, FinishEndOfMatchTick, boardVars, loadoutVars, vars
  <1>. QED BY <1>3, <1>4, <1>5, <1>6, <1>7, <1>8, <1>9, <1>10 DEF Next, TickStep

\* Every step leaves the powerups where they are or takes them away.
LEMMA NextApart == Typed /\ Apart /\ [Next]_vars => Apart'
  <1> SUFFICES ASSUME Typed, Apart, [Next]_vars PROVE Apart'
    OBVIOUS
  <1> DEFINE Kept(i) == powerups'[i].revealed # "gone"
                          => powerups[i].revealed # "gone" /\ powerups'[i].cell = powerups[i].cell
  <1>1. ASSUME \A i \in PowerupSlots : Kept(i) PROVE Apart'
    BY <1>1 DEF Apart, PowerupSlots
  <1>2. NoPowerup.revealed = "gone"
    BY DEF NoPowerup
  <1>3. ASSUME NEW ids \in SUBSET PlayerIds, BeginRound(ids) PROVE Apart'
    <2>1. PICK bricks : powerups' \in HiddenPowerups(bricks)
      BY <1>3 DEF BeginRound
    <2>2. CASE powerups' = [i \in PowerupSlots |-> NoPowerup]
      BY <1>2, <2>2 DEF Apart, PowerupSlots
    <2>3. CASE \E at \in {f \in [PowerupSlots -> bricks] : \A i, j \in PowerupSlots : f[i] = f[j] => i = j} :
                 powerups' = [i \in PowerupSlots |-> [cell |-> at[i], revealed |-> "no"]]
      BY <2>3 DEF Apart, PowerupSlots
    <2>. QED BY <2>1, <2>2, <2>3 DEF HiddenPowerups
  <1>4. ASSUME powerups' = [i \in PowerupSlots |-> NoPowerup] PROVE Apart'
    BY <1>2, <1>4 DEF Apart, PowerupSlots
  <1>5. ASSUME UNCHANGED powerups PROVE Apart'
    BY <1>1, <1>5
  <1>6. CASE ReturnToLobby
    BY <1>4, <1>6 DEF ReturnToLobby, ResetToLobby
  <1>7. ASSUME NEW p \in PlayerIds, Disconnect(p) PROVE Apart'
    BY <1>4, <1>5, <1>7 DEF Disconnect, ResetToLobby
  <1>8. CASE StartTick
    <2>1. ASSUME NEW i \in PowerupSlots PROVE Kept(i)
      <3>1. powerups'[i] = [powerups[i] EXCEPT !.revealed = IF @ = "now" THEN "before" ELSE @]
        BY <1>8 DEF StartTick
      <3>2. powerups[i] \in Powerups
        BY DEF Typed, TypeOK, Powerups
      <3>. QED BY <3>1, <3>2 DEF Powerups
    <2>. QED BY <1>1, <2>1
  <1>9. CASE ResolveBombExplosion
    <2>1. ASSUME NEW i \in PowerupSlots PROVE Kept(i)
      <3>1. PICK bomb : Explode(bomb)
        BY <1>9 DEF ResolveBombExplosion
      <3>2. \/ powerups'[i] = powerups[i]
            \/ powerups[i].revealed = "no" /\ powerups'[i] = [powerups[i] EXCEPT !.revealed = "now"]
        <4> DEFINE turned == powerups[i].revealed = "no" /\ powerups[i].cell \in Explosion(bomb).bricks
        <4>1. powerups'[i] = IF turned THEN [powerups[i] EXCEPT !.revealed = "now"] ELSE powerups[i]
          BY <3>1 DEF Explode
        <4>2. CASE turned
          BY <4>1, <4>2
        <4>3. CASE ~turned
          BY <4>1, <4>3
        <4>. QED BY <4>2, <4>3, Zenon
      <3>3. powerups[i] \in Powerups
        BY DEF Typed, TypeOK, Powerups
      <3>. QED BY <3>2, <3>3 DEF Powerups
    <2>. QED BY <1>1, <2>1
  <1>10. CASE FinishMatchTick
    <2>1. ASSUME NEW i \in PowerupSlots PROVE Kept(i)
      BY <1>2, <1>10 DEF FinishMatchTick, CollectRevealedPowerups
    <2>. QED BY <1>1, <2>1
  <1>11. CASE SimulatePlayer \/ ResolveExplodingBombs \/ FinishEndOfMatchTick \/ UNCHANGED vars
    BY <1>5, <1>11 DEF SimulatePlayer, ResolveExplodingBombs, FinishEndOfMatchTick, boardVars, vars
  <1>. QED BY <1>3, <1>6, <1>7, <1>8, <1>9, <1>10, <1>11 DEF Next, TickStep

\* All that is known of what the messages are made of.
MessageInv == BombInv /\ OnTheMap /\ InReach /\ Apart

\* It always holds: each part is kept by every step, given the types.
LEMMA MessageInvHolds == Spec => []MessageInv
  <1>1. Init => OnTheMap
    BY BoardAssumption, CentreNear DEF Init, OnTheMap
  <1>2. Init => InReach /\ Apart
    BY DEF Init, InReach, Reaches, Apart, NoPowerup
  <1>3. MessageInv /\ [Next]_vars => MessageInv'
    BY NextBombInv, NextOnTheMap, NextInReach, NextApart DEF MessageInv, BombInv
  <1>. QED BY <1>1, <1>2, <1>3, InitBombInv, PTL DEF Spec, MessageInv

-----------------------------------------------------------------------------
(* What Sorted makes of a set. *)

\* An order in which of any two one comes first.
OrdersAll(R, S) ==
  /\ \A x \in S : <<x, x>> \notin R
  /\ \A x, y \in S : x # y => <<x, y>> \in R \/ <<y, x>> \in R
  /\ \A x, y, z \in S : <<x, y>> \in R /\ <<y, z>> \in R => <<x, z>> \in R

\* Those that come before an element.
Earlier(S, R, x) == {y \in S : <<y, x>> \in R}

\* An element has fewer before it than there are, and fewer than one that comes after it.
LEMMA RankRises ==
  ASSUME NEW S, IsFiniteSet(S), NEW R, OrdersAll(R, S), NEW x \in S
  PROVE  /\ Cardinality(Earlier(S, R, x)) \in 0 .. Cardinality(S) - 1
         /\ \A y \in S : <<x, y>> \in R => Cardinality(Earlier(S, R, x)) < Cardinality(Earlier(S, R, y))
  <1>1. ASSUME NEW T, IsFiniteSet(T), Earlier(S, R, x) \subseteq T, x \in T
        PROVE  /\ Cardinality(Earlier(S, R, x)) \in Nat /\ Cardinality(T) \in Nat
               /\ Cardinality(Earlier(S, R, x)) < Cardinality(T)
    <2>1. x \notin Earlier(S, R, x)
      BY DEF OrdersAll, Earlier
    <2>2. IsFiniteSet(Earlier(S, R, x)) /\ Cardinality(Earlier(S, R, x)) <= Cardinality(T)
          /\ Cardinality(Earlier(S, R, x)) # Cardinality(T)
      BY <1>1, <2>1, FS_Subset
    <2>. QED BY <1>1, <2>2, FS_CardinalityType
  <1>2. Earlier(S, R, x) \subseteq S
    BY DEF Earlier
  <1>3. Cardinality(Earlier(S, R, x)) \in 0 .. Cardinality(S) - 1
    BY <1>1, <1>2
  <1>4. ASSUME NEW y \in S, <<x, y>> \in R
        PROVE  Cardinality(Earlier(S, R, x)) < Cardinality(Earlier(S, R, y))
    <2>1. IsFiniteSet(Earlier(S, R, y))
      <3>1. Earlier(S, R, y) \in SUBSET S
        BY DEF Earlier
      <3>. QED BY <3>1, FS_Subset
    <2>2. Earlier(S, R, x) \subseteq Earlier(S, R, y) /\ x \in Earlier(S, R, y)
      BY <1>4 DEF Earlier, OrdersAll
    <2>. QED BY <1>1, <2>1, <2>2
  <1>. QED BY <1>3, <1>4

\* Every rank is taken.
LEMMA RankTaken ==
  ASSUME NEW S, IsFiniteSet(S), NEW R, OrdersAll(R, S), NEW i \in 1 .. Cardinality(S)
  PROVE  \E x \in S : Cardinality(Earlier(S, R, x)) = i - 1
  <1> DEFINE n == Cardinality(S)
             rank == [x \in S |-> Cardinality(Earlier(S, R, x))]
  <1>1. n \in Nat
    BY FS_CardinalityType
  <1>2. rank \in [S -> 0 .. n - 1]
    BY RankRises
  <1>3. ASSUME NEW x \in S, NEW y \in S, x # y PROVE rank[x] # rank[y]
    <2>1. rank[x] \in Int /\ rank[y] \in Int
      BY <1>2
    <2>2. <<x, y>> \in R \/ <<y, x>> \in R
      BY <1>3 DEF OrdersAll
    <2>3. rank[x] < rank[y] \/ rank[y] < rank[x]
      BY <2>2, RankRises
    <2>. QED BY <2>1, <2>3
  <1>4. IsFiniteSet(0 .. n - 1) /\ Cardinality(0 .. n - 1) = n
    <2>1. n - 1 \in Int /\ (IF 0 > n - 1 THEN 0 ELSE n - 1 - 0 + 1) = n
      BY <1>1
    <2>2. 0 \in Int
      OBVIOUS
    <2>3. IsFiniteSet(0 .. n - 1) /\ Cardinality(0 .. n - 1) = (IF 0 > n - 1 THEN 0 ELSE n - 1 - 0 + 1)
      BY <2>1, <2>2, FS_Interval
    <2>. QED BY <2>1, <2>3
  <1> HIDE DEF rank
  <1>5. rank \in Injection(S, 0 .. n - 1)
    BY <1>2, <1>3, Zenon DEF Injection, IsInjective
  <1>6. rank \in Surjection(S, 0 .. n - 1)
    BY <1>4, <1>5, FS_Injection
  <1>7. i - 1 \in 0 .. n - 1
    BY <1>1
  <1>8. \E x \in S : rank[x] = i - 1
    BY <1>6, <1>7 DEF Surjection
  <1>. QED BY <1>8 DEF rank

\* A list of a set in an order.
ListsAll(s, S, R) ==
  /\ s \in Seq(S) /\ Len(s) = Cardinality(S)
  /\ \A i, j \in 1 .. Len(s) : i < j => <<s[i], s[j]>> \in R
  /\ \A x \in S : \E i \in 1 .. Len(s) : s[i] = x

\* What has as many before it as its place says is such a list.
LEMMA RankedLists ==
  ASSUME NEW S, IsFiniteSet(S), NEW R, OrdersAll(R, S), NEW s, s = [i \in 1 .. Cardinality(S) |-> s[i]],
         \A i \in 1 .. Cardinality(S) :
           (\E x \in S : Cardinality(Earlier(S, R, x)) = i - 1) =>
             s[i] \in S /\ Cardinality(Earlier(S, R, s[i])) = i - 1
  PROVE  ListsAll(s, S, R)
  <1> DEFINE n == Cardinality(S)
  <1>1. n \in Nat
    BY FS_CardinalityType
  <1>2. ASSUME NEW i \in 1 .. n PROVE s[i] \in S /\ Cardinality(Earlier(S, R, s[i])) = i - 1
    BY <1>2, RankTaken
  <1> HIDE DEF n
  <1>3. s \in Seq(S) /\ Len(s) = n
    BY <1>1, <1>2 DEF n
  <1>4. ASSUME NEW i \in 1 .. n, NEW j \in 1 .. n, i < j PROVE <<s[i], s[j]>> \in R
    <2>1. /\ s[i] \in S /\ s[j] \in S
          /\ Cardinality(Earlier(S, R, s[i])) = i - 1 /\ Cardinality(Earlier(S, R, s[j])) = j - 1
      BY <1>2
    <2>2. s[i] # s[j]
      BY <1>4, <2>1
    <2>3. <<s[j], s[i]>> \notin R
      <3>1. SUFFICES ASSUME <<s[j], s[i]>> \in R PROVE FALSE
        OBVIOUS
      <3>2. Cardinality(Earlier(S, R, s[j])) < Cardinality(Earlier(S, R, s[i]))
        BY <2>1, <3>1, RankRises
      <3>3. j - 1 < i - 1
        BY <2>1, <3>2, Zenon
      <3>. QED BY <1>4, <3>3
    <2>. QED BY <2>1, <2>2, <2>3, Zenon DEF OrdersAll
  <1>5. ASSUME NEW x \in S PROVE \E i \in 1 .. n : s[i] = x
    <2> DEFINE i == Cardinality(Earlier(S, R, x)) + 1
    <2>1. i \in 1 .. n /\ i - 1 = Cardinality(Earlier(S, R, x))
      <3>1. Cardinality(Earlier(S, R, x)) \in 0 .. n - 1
        BY RankRises DEF n
      <3>. QED BY <1>1, <3>1
    <2> HIDE DEF i
    <2>2. s[i] \in S /\ Cardinality(Earlier(S, R, s[i])) = Cardinality(Earlier(S, R, x))
      BY <1>2, <2>1, Zenon
    <2>3. s[i] = x
      <3>1. SUFFICES ASSUME s[i] # x PROVE FALSE
        OBVIOUS
      <3>2. <<s[i], x>> \in R \/ <<x, s[i]>> \in R
        BY <2>2, <3>1, Zenon DEF OrdersAll
      <3>3. \/ Cardinality(Earlier(S, R, s[i])) < Cardinality(Earlier(S, R, x))
            \/ Cardinality(Earlier(S, R, x)) < Cardinality(Earlier(S, R, s[i]))
        BY <2>2, <3>2, RankRises
      <3>4. Cardinality(Earlier(S, R, x)) \in Int
        BY RankRises
      <3>. QED BY <2>2, <3>3, <3>4
    <2>. QED BY <2>1, <2>3
  <1>. QED BY <1>3, <1>4, <1>5 DEF ListsAll, n

\* The players by their ids, as pairs.
ById(S) == {p \in S \X S : p[1] < p[2]}

\* What Sorted makes of a set of ids lists them by it.
LEMMA SortedIds ==
  ASSUME NEW S \in SUBSET Int, IsFiniteSet(S)
  PROVE  ListsAll(Sorted(S, <), S, ById(S))
  <1> DEFINE s == Sorted(S, <)
  <1>1. s = [i \in 1 .. Cardinality(S) |-> CHOOSE x \in S : Cardinality({y \in S : y < x}) = i - 1]
    BY Zenon DEF Sorted
  <1>2. \A x \in S : {y \in S : y < x} = Earlier(S, ById(S), x)
    BY DEF Earlier, ById
  <1>3. OrdersAll(ById(S), S)
    BY DEF OrdersAll, ById
  <1>4. s = [i \in 1 .. Cardinality(S) |-> s[i]]
    BY <1>1
  <1>5. ASSUME NEW i \in 1 .. Cardinality(S), NEW z \in S, Cardinality(Earlier(S, ById(S), z)) = i - 1
        PROVE  s[i] \in S /\ Cardinality(Earlier(S, ById(S), s[i])) = i - 1
    <2>1. s[i] = CHOOSE x \in S : Cardinality({y \in S : y < x}) = i - 1
      BY <1>1
    <2>2. Cardinality({y \in S : y < z}) = i - 1
      BY <1>2, <1>5, Zenon
    <2>3. s[i] \in S /\ Cardinality({y \in S : y < s[i]}) = i - 1
      BY <2>1, <2>2, Zenon
    <2>. QED BY <1>2, <2>3, Zenon
  <1> HIDE DEF s
  <1>. QED BY <1>3, <1>4, <1>5, RankedLists DEF s

\* Cells row by row are in the order of their keys.
LEMMA RowMajorKeys ==
  ASSUME NEW a \in Cells, NEW b \in Cells
  PROVE  /\ RowMajor(a, b) <=> Trip!TileCellKey(a) < Trip!TileCellKey(b)
         /\ Trip!TileCellKey(a) \in Nat
         /\ Trip!TileCellKey(a) = Trip!TileCellKey(b) => a = b
  <1>1. /\ a[1] \in 0 .. Width - 1 /\ a[2] \in Nat /\ b[1] \in 0 .. Width - 1 /\ b[2] \in Nat /\ Width \in Nat
        /\ a = <<a[1], a[2]>> /\ b = <<b[1], b[2]>>
    BY GridAssumption DEF Cells
  <1> DEFINE k == a[2] * Width
             l == b[2] * Width
  <1>2. k \in Nat /\ l \in Nat
    BY <1>1
  <1>3. ASSUME NEW x \in Nat, NEW y \in Nat, x < y PROVE x * Width + Width <= y * Width
    <2>1. (x + 1) * Width <= y * Width
      BY <1>1, <1>3
    <2>. QED BY <1>1, <2>1
  <1>4. /\ a[2] < b[2] => k + Width <= l
        /\ b[2] < a[2] => l + Width <= k
        /\ a[2] = b[2] => k = l
    BY <1>1, <1>3
  <1>5. Trip!TileCellKey(a) = k + a[1] /\ Trip!TileCellKey(b) = l + b[1]
    BY DEF Trip!TileCellKey
  <1> HIDE DEF k, l
  <1>6. /\ a[2] = b[2] => (RowMajor(a, b) <=> a[1] < b[1])
        /\ a[2] # b[2] => (RowMajor(a, b) <=> a[2] < b[2])
    BY DEF RowMajor
  <1>7. a[2] < b[2] \/ b[2] < a[2] \/ a[2] = b[2]
    BY <1>1
  <1>. QED BY <1>1, <1>2, <1>4, <1>5, <1>6, <1>7

\* The things on the map by their cells, as pairs.
ByCell(S, at) == {p \in S \X S : RowMajor(at[p[1]], at[p[2]])}

\* Things in different cells are all ordered by them: the key of a cell rises.
LEMMA ByCellOrders ==
  ASSUME NEW S, NEW at \in [S -> Cells], \A a, b \in S : at[a] = at[b] => a = b
  PROVE  OrdersAll(ByCell(S, at), S)
  <1> DEFINE key(x) == Trip!TileCellKey(at[x])
  <1>1. \A a, b \in S : <<a, b>> \in ByCell(S, at) <=> key(a) < key(b)
    BY RowMajorKeys DEF ByCell
  <1>2. \A a \in S : key(a) \in Nat
    BY RowMajorKeys
  <1>3. \A a, b \in S : key(a) = key(b) => a = b
    BY RowMajorKeys
  <1> HIDE DEF key
  <1>. QED BY <1>1, <1>2, <1>3 DEF OrdersAll

\* Parts of such a list have rising keys.
LEMMA KeysRise ==
  ASSUME NEW S, NEW at \in [S -> Cells], NEW s, ListsAll(s, S, ByCell(S, at)), NEW m \in 0 .. Len(s),
         NEW keys, keys = [i \in 1 .. m |-> Trip!TileCellKey(at[s[i]])]
  PROVE  Trip!Ascending(keys)
  <1>1. Len(keys) = m /\ Len(s) \in Nat
    BY DEF ListsAll
  <1>2. ASSUME NEW i \in 2 .. m PROVE keys[i - 1] < keys[i]
    <2>1. i - 1 \in 1 .. m /\ i \in 1 .. m /\ i - 1 \in 1 .. Len(s) /\ i \in 1 .. Len(s) /\ i - 1 < i
      BY <1>1
    <2>2. s[i - 1] \in S /\ s[i] \in S /\ <<s[i - 1], s[i]>> \in ByCell(S, at)
      BY <2>1 DEF ListsAll
    <2>3. RowMajor(at[s[i - 1]], at[s[i]])
      BY <2>2 DEF ByCell
    <2>4. Trip!TileCellKey(at[s[i - 1]]) < Trip!TileCellKey(at[s[i]])
      BY <2>2, <2>3, RowMajorKeys
    <2>. QED BY <2>1, <2>4
  <1>. QED BY <1>1, <1>2 DEF Trip!Ascending

\* The bombs as buildSnapshot sorts them.
Laid ==
  [i \in 1 .. Cardinality(bombs) |->
     CHOOSE x \in bombs : Cardinality({y \in bombs : RowMajor(y.cell, x.cell)}) = i - 1]
\* The powerups that clients may see,
Revealed == {i \in PowerupSlots : powerups[i].revealed \in {"now", "before"}}
\* sorted as well,
ShownSlots ==
  [i \in 1 .. Cardinality(Revealed) |->
     CHOOSE x \in Revealed :
       Cardinality({y \in Revealed : RowMajor(powerups[y].cell, powerups[x].cell)}) = i - 1]
\* and the players of the match.
Ids == Sorted(inMatch, <)
\* As many of the bombs as a snapshot has room for.
Room == IF Len(Laid) < MaxSnapshotBombs THEN Len(Laid) ELSE MaxSnapshotBombs
\* The three lists of the message.
PlayerList ==
  [i \in DOMAIN Ids |-> [id |-> Ids[i], x |-> pos[Ids[i]].x, y |-> pos[Ids[i]].y,
                         flags |-> ReplicatedPlayerFlags(Ids[i])]]
BombList == [i \in 1 .. Room |-> Shown(Laid[i])]
PowerupList ==
  [i \in DOMAIN ShownSlots |-> [kind |-> PowerupCode[Placements[ShownSlots[i]]],
                                cell |-> powerups[ShownSlots[i]].cell]]

\* They are what buildSnapshot builds.
LEMMA SnapshotIs ==
  BuildSnapshot = [type |-> "Snapshot", matchId |-> 1, tick |-> 1,
                   players |-> PlayerList, bombs |-> BombList, powerups |-> PowerupList]
  <1>1. Laid = Sorted(bombs, LAMBDA a, b : RowMajor(a.cell, b.cell))
    BY Zenon DEF Laid, Sorted
  <1>2. ShownSlots = Sorted({i \in PowerupSlots : powerups[i].revealed \in {"now", "before"}},
                        LAMBDA i, j : RowMajor(powerups[i].cell, powerups[j].cell))
    BY Zenon DEF ShownSlots, Revealed, Sorted
  <1>. QED BY <1>1, <1>2, Zenon DEF BuildSnapshot, PlayerList, BombList, PowerupList, Ids, Room

\* Where the bombs are.
BombCell == [b \in bombs |-> b.cell]

\* The bombs are sorted by it.
LEMMA LaidList ==
  ASSUME Typed, BoardShape
  PROVE  ListsAll(Laid, bombs, ByCell(bombs, BombCell)) /\ BombCell \in [bombs -> Cells]
  <1> DEFINE R == ByCell(bombs, BombCell)
             n == Cardinality(bombs)
  <1>1. BombCell \in [bombs -> Cells] /\ \A a, b \in bombs : BombCell[a] = BombCell[b] => a = b
    BY DEF BombCell, Typed, TypeOK, Bombs, BoardShape
  <1>2. OrdersAll(R, bombs)
    BY <1>1, ByCellOrders
  <1>3. \A x \in bombs : {y \in bombs : RowMajor(y.cell, x.cell)} = Earlier(bombs, R, x)
    BY DEF Earlier, ByCell, BombCell
  <1>4. Laid = [i \in 1 .. n |-> Laid[i]]
    <2> DEFINE e(i) == CHOOSE x \in bombs : Cardinality({y \in bombs : RowMajor(y.cell, x.cell)}) = i - 1
    <2>1. Laid = [i \in 1 .. n |-> e(i)]
      BY Zenon DEF Laid
    <2> HIDE DEF e
    <2>. QED BY <2>1
  <1>5. ASSUME NEW i \in 1 .. n, NEW z \in bombs, Cardinality(Earlier(bombs, R, z)) = i - 1
        PROVE  Laid[i] \in bombs /\ Cardinality(Earlier(bombs, R, Laid[i])) = i - 1
    <2>1. Laid[i] = CHOOSE x \in bombs : Cardinality({y \in bombs : RowMajor(y.cell, x.cell)}) = i - 1
      BY DEF Laid
    <2>2. Cardinality({y \in bombs : RowMajor(y.cell, z.cell)}) = i - 1
      BY <1>3, <1>5, Zenon
    <2>3. Laid[i] \in bombs /\ Cardinality({y \in bombs : RowMajor(y.cell, Laid[i].cell)}) = i - 1
      BY <2>1, <2>2, Zenon
    <2>. QED BY <1>3, <2>3, Zenon
  <1> HIDE DEF R
  <1>6. ListsAll(Laid, bombs, R)
    BY <1>2, <1>4, <1>5, BombsFinite, RankedLists
  <1>. QED BY <1>1, <1>6 DEF R

\* Where the visible powerups are.
SlotCell == [i \in Revealed |-> powerups[i].cell]

\* They are sorted by it, and no more than there are placements.
LEMMA ShownList ==
  ASSUME Typed, Apart
  PROVE  /\ ListsAll(ShownSlots, Revealed, ByCell(Revealed, SlotCell)) /\ SlotCell \in [Revealed -> Cells]
         /\ IsFiniteSet(Revealed) /\ Cardinality(Revealed) <= Len(Placements)
  <1> DEFINE R == ByCell(Revealed, SlotCell)
             n == Cardinality(Revealed)
  <1>1. SlotCell \in [Revealed -> Cells] /\ \A a, b \in Revealed : SlotCell[a] = SlotCell[b] => a = b
    BY DEF SlotCell, Revealed, Typed, TypeOK, Apart, PowerupSlots
  <1>2. OrdersAll(R, Revealed)
    BY <1>1, ByCellOrders
  <1>3. \A x \in Revealed : {y \in Revealed : RowMajor(powerups[y].cell, powerups[x].cell)} = Earlier(Revealed, R, x)
    BY DEF Earlier, ByCell, SlotCell
  <1>4. ShownSlots = [i \in 1 .. n |-> ShownSlots[i]]
    <2> DEFINE e(i) == CHOOSE x \in Revealed :
                         Cardinality({y \in Revealed : RowMajor(powerups[y].cell, powerups[x].cell)}) = i - 1
    <2>1. ShownSlots = [i \in 1 .. n |-> e(i)]
      BY Zenon DEF ShownSlots
    <2> HIDE DEF e
    <2>. QED BY <2>1
  <1>5. ASSUME NEW i \in 1 .. n, NEW z \in Revealed, Cardinality(Earlier(Revealed, R, z)) = i - 1
        PROVE  ShownSlots[i] \in Revealed /\ Cardinality(Earlier(Revealed, R, ShownSlots[i])) = i - 1
    <2> DEFINE before(x) == {y \in Revealed : RowMajor(powerups[y].cell, powerups[x].cell)}
    <2>1. ShownSlots[i] = CHOOSE x \in Revealed : Cardinality(before(x)) = i - 1
      BY DEF ShownSlots
    <2>2. Cardinality(before(z)) = i - 1
      BY <1>3, <1>5, Zenon
    <2>3. ShownSlots[i] \in Revealed /\ Cardinality(before(ShownSlots[i])) = i - 1
      BY <2>1, <2>2, Zenon
    <2>. QED BY <1>3, <2>3, Zenon
  <1>6. IsFiniteSet(Revealed) /\ n <= Len(Placements)
    <2>1. Revealed \in SUBSET PowerupSlots
      BY DEF Revealed
    <2>2. Len(Placements) \in Nat
      BY Facts
    <2>3. IsFiniteSet(PowerupSlots) /\ Cardinality(PowerupSlots) = Len(Placements)
      <3> DEFINE m == Len(Placements)
      <3> HIDE DEF m
      <3>1. m \in Int /\ (IF 1 > m THEN 0 ELSE m - 1 + 1) = m
        BY <2>2 DEF m
      <3>2. IsFiniteSet(1 .. m) /\ Cardinality(1 .. m) = (IF 1 > m THEN 0 ELSE m - 1 + 1)
        BY <3>1, FS_Interval
      <3>. QED BY <3>1, <3>2 DEF m, PowerupSlots
    <2>. QED BY <2>1, <2>3, FS_Subset
  <1> HIDE DEF R
  <1>7. ListsAll(ShownSlots, Revealed, R)
    BY <1>2, <1>4, <1>5, <1>6, RankedLists
  <1>. QED BY <1>1, <1>6, <1>7 DEF R

\* The flags are six bits.
LEMMA FlagsFit == ASSUME NEW p PROVE ReplicatedPlayerFlags(p) \in Trip!PlayerFlags
  <1>1. /\ EffectFlag(p, "SpeedBoost") \in {0, 32} /\ EffectFlag(p, "Invincibility") \in {0, 2}
        /\ EffectFlag(p, "BombRangeBoost") \in {0, 8} /\ EffectFlag(p, "MaxBombsBoost") \in {0, 16}
    BY DEF EffectFlag, FlagBit
  <1>2. (IF p \in alive THEN 1 ELSE 0) \in {0, 1} /\ (IF p \in locked THEN 4 ELSE 0) \in {0, 4}
    OBVIOUS
  <1> DEFINE a == IF p \in alive THEN 1 ELSE 0
             b == IF p \in locked THEN 4 ELSE 0
             c == EffectFlag(p, "SpeedBoost")
             d == EffectFlag(p, "Invincibility")
             e == EffectFlag(p, "BombRangeBoost")
             f == EffectFlag(p, "MaxBombsBoost")
  <1>3. ReplicatedPlayerFlags(p) = a + b + c + d + e + f
    BY Zenon DEF ReplicatedPlayerFlags
  <1> HIDE DEF a, b, c, d, e, f
  <1>4. a \in {0, 1} /\ b \in {0, 4} /\ c \in {0, 32} /\ d \in {0, 2} /\ e \in {0, 8} /\ f \in {0, 16}
    BY <1>1, <1>2, Zenon DEF a, b, c, d, e, f
  <1>5. a + b + c + d + e + f \in 0 .. 63
    BY <1>4
  <1>. QED BY <1>3, <1>5 DEF Trip!PlayerFlags

\* Who plays is listed as the deserializer insists.
LEMMA PlayersListed ==
  ASSUME Typed, OnTheMap
  PROVE  /\ PlayerList \in Seq(Trip!PlayerValues) /\ Len(PlayerList) <= Seats
         /\ Trip!Ascending([i \in DOMAIN PlayerList |-> PlayerList[i].id])
  <1>1. inMatch \subseteq PlayerIds /\ PlayerIds \subseteq Int /\ IsFiniteSet(PlayerIds)
    BY SeatsFit, PlayersAssumption DEF Typed, TypeOK
  <1>2. IsFiniteSet(inMatch) /\ Cardinality(inMatch) <= Seats
    BY <1>1, FS_Subset DEF Seats
  <1>3. ListsAll(Ids, inMatch, ById(inMatch))
    BY <1>1, <1>2, SortedIds DEF Ids
  <1>4. Ids \in Seq(inMatch) /\ Len(Ids) <= Seats /\ Len(Ids) \in Nat /\ DOMAIN Ids = 1 .. Len(Ids)
    BY <1>2, <1>3 DEF ListsAll
  <1>5. ASSUME NEW p \in inMatch
        PROVE  [id |-> p, x |-> pos[p].x, y |-> pos[p].y, flags |-> ReplicatedPlayerFlags(p)] \in Trip!PlayerValues
    <2>1. p \in Trip!PlayerIds
      BY <1>1, SeatsFit DEF Trip!PlayerIds, Seats
    <2>2. Near(pos[p])
      BY <1>1 DEF OnTheMap
    <2>3. pos[p].x \in Trip!Short /\ pos[p].y \in Trip!Short
      <3>1. /\ pos[p].x \in Int /\ -TileQ <= pos[p].x /\ pos[p].x <= (Width + 1) * TileQ
            /\ pos[p].y \in Int /\ -TileQ <= pos[p].y /\ pos[p].y <= (Height + 1) * TileQ
        BY <2>2 DEF Near
      <3>2. 2 * (Width + 1) * TileQ < Modulus[2] /\ 2 * (Height + 1) * TileQ < Modulus[2]
        BY PacketsAssumption
      <3> DEFINE right == (Width + 1) * TileQ
                 bottom == (Height + 1) * TileQ
      <3>3. /\ right \in Nat /\ bottom \in Nat /\ TileQ \in Nat /\ TileQ <= right
            /\ 2 * (Width + 1) * TileQ = 2 * right /\ 2 * (Height + 1) * TileQ = 2 * bottom
        <4>1. TileQ \in Nat /\ Width \in Nat /\ Height \in Nat
          BY TilePositive, Facts
        <4>2. right = Width * TileQ + TileQ /\ Width * TileQ \in Nat /\ bottom \in Nat
          BY <4>1
        <4>3. 2 * (Width + 1) * TileQ = 2 * right /\ 2 * (Height + 1) * TileQ = 2 * bottom
          BY <4>1
        <4> HIDE DEF right, bottom
        <4>. QED BY <4>1, <4>2, <4>3
      <3> HIDE DEF right, bottom
      <3>4. 2 * right < Modulus[2] /\ 2 * bottom < Modulus[2]
        BY <3>2, <3>3
      <3>5. /\ pos[p].x \in Int /\ -TileQ <= pos[p].x /\ pos[p].x <= right
            /\ pos[p].y \in Int /\ -TileQ <= pos[p].y /\ pos[p].y <= bottom
        BY <3>1 DEF right, bottom
      <3>6. Modulus[2] \in Nat
        BY Facts
      <3>7. ASSUME NEW x \in Int, NEW far \in Nat, NEW tile \in Nat, NEW M \in Nat,
                   tile <= far, 2 * far < M, -tile <= x, x <= far
            PROVE  -M <= 2 * x /\ 2 * x < M
        BY ONLY <3>7
      <3>8. /\ -Modulus[2] <= 2 * pos[p].x /\ 2 * pos[p].x < Modulus[2]
            /\ -Modulus[2] <= 2 * pos[p].y /\ 2 * pos[p].y < Modulus[2]
        BY <3>3, <3>4, <3>5, <3>6, <3>7
      <3>. QED BY <3>5, <3>8 DEF Trip!Short
    <2>. QED BY <2>1, <2>3, FlagsFit DEF Trip!PlayerValues
  <1> DEFINE entry(p) == [id |-> p, x |-> pos[p].x, y |-> pos[p].y, flags |-> ReplicatedPlayerFlags(p)]
  <1>6. PlayerList = [i \in DOMAIN Ids |-> entry(Ids[i])]
    BY Zenon DEF PlayerList
  <1>7. \A p : entry(p).id = p
    OBVIOUS
  <1> HIDE DEF entry
  <1>8. PlayerList \in Seq(Trip!PlayerValues) /\ Len(PlayerList) = Len(Ids)
    BY <1>4, <1>5, <1>6 DEF entry
  <1>9. [i \in DOMAIN PlayerList |-> PlayerList[i].id] = [i \in DOMAIN Ids |-> Ids[i]]
    BY <1>6, <1>7
  <1>10. ASSUME NEW i \in 2 .. Len(Ids) PROVE Ids[i - 1] < Ids[i]
    <2>1. i - 1 \in 1 .. Len(Ids) /\ i \in 1 .. Len(Ids) /\ i - 1 < i
      BY <1>4
    <2>2. <<Ids[i - 1], Ids[i]>> \in ById(inMatch)
      BY <1>3, <2>1 DEF ListsAll
    <2>. QED BY <2>2 DEF ById
  <1>11. Trip!Ascending([i \in DOMAIN Ids |-> Ids[i]])
    BY <1>4, <1>10 DEF Trip!Ascending
  <1>. QED BY <1>4, <1>8, <1>9, <1>11

\* A range is a byte and not zero.
LEMMA ReachesFit == Reaches \subseteq Trip!Byte \ {0} /\ Reaches \subseteq Nat \ {0}
  <1>1. DefaultRange > 0 /\ DefaultRange + RangeBoost < Modulus[1]
    BY PacketsAssumption, Zenon
  <1>2. DefaultRange \in Nat /\ RangeBoost \in Nat /\ Modulus[1] \in Nat
    BY Facts, TuningAssumption
  <1> DEFINE w == Modulus[1]
  <1>3. Trip!Byte = 0 .. w - 1
    BY Zenon DEF Trip!Byte
  <1> HIDE DEF w
  <1>4. DefaultRange \in 1 .. w - 1 /\ DefaultRange + RangeBoost \in 1 .. w - 1
    BY <1>1, <1>2 DEF w
  <1>. QED BY <1>3, <1>4 DEF Reaches

\* Cells of the arena are cells of the packets, and players are players.
LEMMA SameBoard == Trip!BoardCells = Cells /\ Trip!PlayerIds = PlayerIds
  BY SeatsFit, Zenon DEF Trip!BoardCells, Cells, Trip!PlayerIds, Seats

\* So are the bombs.
LEMMA BombsListed ==
  ASSUME Typed, BoardShape, InReach
  PROVE  /\ BombList \in Seq(Trip!BombValues) /\ Len(BombList) <= MaxSnapshotBombs
         /\ Trip!Ascending([i \in DOMAIN BombList |-> Trip!TileCellKey(BombList[i].cell)])
  <1>1. ListsAll(Laid, bombs, ByCell(bombs, BombCell)) /\ BombCell \in [bombs -> Cells]
    BY LaidList
  <1>2. Laid \in Seq(bombs) /\ Len(Laid) \in Nat /\ DOMAIN Laid = 1 .. Len(Laid)
    BY <1>1 DEF ListsAll
  <1>3. Room \in 0 .. Len(Laid) /\ Room <= MaxSnapshotBombs /\ Room \in Nat
    BY <1>2, Facts DEF Room
  <1>4. ASSUME NEW b \in bombs PROVE Shown(b) \in Trip!BombValues /\ Shown(b).cell = BombCell[b]
    <2>1. b.owner \in PlayerIds /\ b.cell \in Cells /\ b.radius \in Reaches
      BY DEF Typed, TypeOK, Bombs, InReach
    <2>2. b.owner \in Trip!PlayerIds /\ b.cell \in Trip!BoardCells /\ b.radius \in Trip!Byte \ {0}
      BY <2>1, SameBoard, ReachesFit
    <2>. QED BY <2>2 DEF Shown, Trip!BombValues, BombCell
  <1>5. \A i \in 1 .. Room : Laid[i] \in bombs
    BY <1>2, <1>3
  <1>6. BombList = [i \in 1 .. Room |-> Shown(Laid[i])]
    BY Zenon DEF BombList
  <1>7. BombList \in Seq(Trip!BombValues) /\ Len(BombList) = Room /\ DOMAIN BombList = 1 .. Room
    BY <1>3, <1>4, <1>5, <1>6
  <1>8. [i \in DOMAIN BombList |-> Trip!TileCellKey(BombList[i].cell)]
          = [i \in 1 .. Room |-> Trip!TileCellKey(BombCell[Laid[i]])]
    <2>1. \A i \in 1 .. Room : BombList[i].cell = BombCell[Laid[i]]
      BY <1>4, <1>5, <1>6
    <2>. QED BY <1>7, <2>1
  <1>. QED BY <1>1, <1>3, <1>7, <1>8, KeysRise

\* The codes of the powerups.
LEMMA KindsFit == \A e \in Effects : PowerupCode[e] \in 0 .. 3
  BY DEF PowerupCode, Effects

\* So are the powerups that may be seen.
LEMMA PowerupsListed ==
  ASSUME Typed, Apart
  PROVE  /\ PowerupList \in Seq(Trip!PowerupValues) /\ Len(PowerupList) <= Len(Placements)
         /\ Trip!Ascending([i \in DOMAIN PowerupList |-> Trip!TileCellKey(PowerupList[i].cell)])
  <1>1. ListsAll(ShownSlots, Revealed, ByCell(Revealed, SlotCell)) /\ SlotCell \in [Revealed -> Cells]
    BY ShownList
  <1>2. ShownSlots \in Seq(Revealed) /\ Len(ShownSlots) \in Nat /\ DOMAIN ShownSlots = 1 .. Len(ShownSlots)
        /\ Len(ShownSlots) <= Len(Placements)
    BY <1>1, ShownList DEF ListsAll
  <1> DEFINE entry(i) == [kind |-> PowerupCode[Placements[i]], cell |-> powerups[i].cell]
             n == Len(ShownSlots)
  <1>3. ASSUME NEW i \in Revealed PROVE entry(i) \in Trip!PowerupValues /\ entry(i).cell = SlotCell[i]
    <2>1. i \in PowerupSlots /\ Placements[i] \in Effects
      BY PlacementsAssumption DEF Revealed, PowerupSlots
    <2>2. PowerupCode[Placements[i]] \in 0 .. 3 /\ powerups[i].cell \in Cells
      BY <2>1, KindsFit DEF Typed, TypeOK
    <2>3. 0 .. 3 = 0 .. Cardinality(Effects) - 1
      BY FourEffects
    <2>4. entry(i) \in Trip!PowerupValues
      BY <2>2, <2>3, SameBoard DEF Trip!PowerupValues
    <2>. QED BY <2>4 DEF SlotCell
  <1>4. PowerupList = [i \in 1 .. n |-> entry(ShownSlots[i])]
    BY <1>2, Zenon DEF PowerupList
  <1> HIDE DEF entry
  <1>5. \A i \in 1 .. n : ShownSlots[i] \in Revealed
    BY <1>2
  <1>6. PowerupList \in Seq(Trip!PowerupValues) /\ Len(PowerupList) = n /\ DOMAIN PowerupList = 1 .. n
    BY <1>2, <1>3, <1>4, <1>5
  <1>7. [i \in DOMAIN PowerupList |-> Trip!TileCellKey(PowerupList[i].cell)]
          = [i \in 1 .. n |-> Trip!TileCellKey(SlotCell[ShownSlots[i]])]
    <2>1. \A i \in 1 .. n : PowerupList[i].cell = SlotCell[ShownSlots[i]]
      BY <1>3, <1>4, <1>5
    <2>. QED BY <1>6, <2>1
  <1>8. n \in 0 .. Len(ShownSlots)
    BY <1>2
  <1>. QED BY <1>1, <1>2, <1>6, <1>7, <1>8, KeysRise

\* A snapshot can be sent as it is built.
LEMMA SnapshotArrives == ASSUME MessageInv PROVE Arrives(BuildSnapshot)
  <1>1. Typed /\ BoardShape /\ OnTheMap /\ InReach /\ Apart
    BY DEF MessageInv, BombInv
  <1>2. /\ PlayerList \in Seq(Trip!PlayerValues) /\ Len(PlayerList) <= Seats
        /\ Trip!Ascending([i \in DOMAIN PlayerList |-> PlayerList[i].id])
    BY <1>1, PlayersListed
  <1>3. /\ BombList \in Seq(Trip!BombValues) /\ Len(BombList) <= MaxSnapshotBombs
        /\ Trip!Ascending([i \in DOMAIN BombList |-> Trip!TileCellKey(BombList[i].cell)])
    BY <1>1, BombsListed
  <1>4. /\ PowerupList \in Seq(Trip!PowerupValues) /\ Len(PowerupList) <= Len(Placements)
        /\ Trip!Ascending([i \in DOMAIN PowerupList |-> Trip!TileCellKey(PowerupList[i].cell)])
    BY <1>1, PowerupsListed
  <1>5. 1 \in Trip!Long
    BY Facts DEF Trip!Long
  <1> DEFINE m == [type |-> "Snapshot", matchId |-> 1, tick |-> 1,
                   players |-> PlayerList, bombs |-> BombList, powerups |-> PowerupList]
  <1>6. m \in Trip!SnapshotMsgs
    <2>1. m \in [type : {"Snapshot"}, matchId : Trip!Long, tick : Trip!Long, players : Seq(Trip!PlayerValues),
                 bombs : Seq(Trip!BombValues), powerups : Seq(Trip!PowerupValues)]
      BY <1>2, <1>3, <1>4, <1>5
    <2>2. m.players = PlayerList /\ m.bombs = BombList /\ m.powerups = PowerupList
      OBVIOUS
    <2> HIDE DEF m
    <2>. QED BY <1>2, <1>3, <1>4, <2>1, <2>2, Zenon DEF Trip!SnapshotMsgs, Seats
  <1>7. m \in Trip!Sendable /\ m.type \in Told
    BY <1>6 DEF Trip!Sendable, Told
  <1>8. BuildSnapshot = m
    BY SnapshotIs
  <1> HIDE DEF m
  <1>. QED BY <1>7, <1>8, Arrival

-----------------------------------------------------------------------------
(* The events of a bomb. *)

\* A bomb that was just placed can be told of.
LEMMA BombPlacedArrives ==
  ASSUME MessageInv, NEW b \in bombs, b.fuse = FuseTicks
  PROVE  Arrives(BuildBombPlaced(b))
  <1>1. b.owner \in Trip!PlayerIds /\ b.cell \in Trip!BoardCells /\ b.radius \in Trip!Byte \ {0}
    <2>1. b.owner \in PlayerIds /\ b.cell \in Cells /\ b.radius \in Reaches
      BY DEF MessageInv, BombInv, InReach, Typed, TypeOK, Bombs
    <2>. QED BY <2>1, SameBoard, ReachesFit
  <1>2. 1 \in Trip!Long /\ 1 + FuseTicks \in Trip!Long /\ 1 + FuseTicks >= 1
    <2>1. FuseTicks + 1 < Modulus[4] /\ FuseTicks \in Nat /\ Modulus[4] \in Nat
      BY Facts, PacketsAssumption, TuningAssumption, Zenon
    <2> DEFINE w == Modulus[4]
    <2>2. Trip!Long = 0 .. w - 1
      BY Zenon DEF Trip!Long
    <2> HIDE DEF w
    <2>3. FuseTicks + 1 < w /\ FuseTicks \in Nat /\ w \in Nat
      BY <2>1 DEF w
    <2>. QED BY ONLY <2>2, <2>3
  <1> DEFINE m == [type |-> "BombPlaced", matchId |-> 1, tick |-> 1, explode |-> 1 + b.fuse,
                   owner |-> b.owner, cell |-> b.cell, radius |-> b.radius]
  <1>3. m \in Trip!BombPlacedMsgs
    BY <1>1, <1>2 DEF Trip!BombPlacedMsgs
  <1>4. m \in Trip!Sendable /\ m.type \in Told
    BY <1>3 DEF Trip!Sendable, Told
  <1>5. BuildBombPlaced(b) = m
    BY Zenon DEF BuildBombPlaced
  <1> HIDE DEF m
  <1>. QED BY <1>4, <1>5, Arrival

\* The equation of MaskOf's function.
Masks(g, ids, n) ==
  g = [k \in 0 .. n |-> IF k = 0 THEN 0 ELSE g[k - 1] + (IF k - 1 \in ids THEN 2 ^ (k - 1) ELSE 0)]

\* There is such a function for every number of players.
LEMMA MaskExists ==
  ASSUME NEW ids, NEW n \in Nat
  PROVE  \E g : Masks(g, ids, n)
  <1> DEFINE S == {m \in Nat : \E g : Masks(g, ids, m)}
             bit(k) == IF k - 1 \in ids THEN 2 ^ (k - 1) ELSE 0
  <1>1. 0 \in S
    <2>1. [k \in 0 .. 0 |-> 0] = [k \in 0 .. 0 |-> IF k = 0 THEN 0 ELSE [i \in 0 .. 0 |-> 0][k - 1] + bit(k)]
      OBVIOUS
    <2>2. Masks([k \in 0 .. 0 |-> 0], ids, 0)
      BY <2>1, Zenon DEF Masks
    <2>. QED BY <2>2
  <1>2. ASSUME NEW m \in Nat, m \in S PROVE m + 1 \in S
    <2>1. PICK g : Masks(g, ids, m)
      BY <1>2
    <2> HIDE DEF bit
    <2>2. \A k \in 0 .. m : g[k] = IF k = 0 THEN 0 ELSE g[k - 1] + bit(k)
      BY <2>1 DEF Masks, bit
    <2> DEFINE h == [k \in 0 .. m + 1 |-> IF k = m + 1 THEN g[m] + bit(k) ELSE g[k]]
    <2>3. ASSUME NEW k \in 0 .. m + 1 PROVE h[k] = IF k = 0 THEN 0 ELSE h[k - 1] + bit(k)
      <3>1. CASE k = m + 1
        <4>1. h[k] = g[m] + bit(k) /\ h[k - 1] = g[m] /\ k # 0
          BY <3>1
        <4> HIDE DEF h
        <4>. QED BY <4>1
      <3>2. CASE k # m + 1
        <4>1. k \in 0 .. m /\ h[k] = g[k] /\ (k # 0 => h[k - 1] = g[k - 1])
          BY <3>2
        <4> HIDE DEF h
        <4>. QED BY <2>2, <4>1
      <3>. QED BY <3>1, <3>2
    <2>4. h = [k \in 0 .. m + 1 |-> h[k]]
      OBVIOUS
    <2> HIDE DEF h
    <2>5. [k \in 0 .. m + 1 |-> h[k]] = [k \in 0 .. m + 1 |-> IF k = 0 THEN 0 ELSE h[k - 1] + bit(k)]
      BY <2>3
    <2>6. Masks(h, ids, m + 1)
      BY <2>4, <2>5, Zenon DEF Masks, bit
    <2>. QED BY <2>6
  <1> HIDE DEF S
  <1>3. \A m \in Nat : m \in S
    BY <1>1, <1>2, TripAssumptions, Trip!Induction
  <1>. QED BY <1>3 DEF S

\* A mask has no bits but those of the players.
LEMMA MaskFits == ASSUME NEW ids PROVE MaskOf(ids) \in 0 .. 2 ^ Seats - 1
  <1> DEFINE g == CHOOSE g : Masks(g, ids, Seats)
  <1>1. MaskOf(ids) = g[Seats]
    BY Zenon DEF MaskOf, Masks, Seats
  <1>2. Seats \in Nat
    BY SeatsFit
  <1>3. Masks(g, ids, Seats)
    BY <1>2, MaskExists, Zenon
  <1> HIDE DEF g
  <1> DEFINE S == {k \in Nat : k <= Seats => g[k] \in Nat /\ 2 ^ k \in Nat /\ g[k] < 2 ^ k}
  <1>4. 0 \in S
    <2>1. 0 \in 0 .. Seats
      BY <1>2
    <2>2. g[0] = 0 /\ 2 ^ 0 = 1
      BY <1>3, <2>1, PowersAssumption DEF Masks
    <2>. QED BY <2>2
  <1>5. ASSUME NEW k \in Nat, k \in S PROVE k + 1 \in S
    <2> SUFFICES ASSUME k + 1 <= Seats PROVE g[k + 1] \in Nat /\ 2 ^ (k + 1) \in Nat /\ g[k + 1] < 2 ^ (k + 1)
      OBVIOUS
    <2>1. g[k] \in Nat /\ 2 ^ k \in Nat /\ g[k] < 2 ^ k
      BY <1>2, <1>5
    <2>2. k \in PlayerIds
      BY <1>2, SeatsFit
    <2>3. 2 ^ (k + 1) = 2 * 2 ^ k
      BY <2>2, PowersAssumption, Zenon
    <2>4. k + 1 \in 0 .. Seats /\ k + 1 # 0 /\ (k + 1) - 1 = k
      BY <1>2
    <2>5. g[k + 1] = g[k] + (IF k \in ids THEN 2 ^ k ELSE 0)
      <3>1. g[k + 1] = g[(k + 1) - 1] + (IF (k + 1) - 1 \in ids THEN 2 ^ ((k + 1) - 1) ELSE 0)
        BY <1>3, <2>4 DEF Masks
      <3>. QED BY <2>4, <3>1, Zenon
    <2>. QED BY <2>1, <2>3, <2>5
  <1> HIDE DEF S
  <1>6. \A k \in Nat : k \in S
    BY <1>4, <1>5, TripAssumptions, Trip!Induction
  <1>7. g[Seats] \in Nat /\ 2 ^ Seats \in Nat /\ g[Seats] < 2 ^ Seats
    BY <1>2, <1>6 DEF S
  <1>. QED BY <1>1, <1>7

\* The other cells of a bomb's row and column.
Cross(bomb) == {c \in Cells : c # bomb.cell /\ (c[1] = bomb.cell[1] \/ c[2] = bomb.cell[2])}

\* A cell of the cross lies in one direction.
LEMMA CrossDirection ==
  ASSUME NEW bomb, bomb.cell \in Cells, NEW c \in Cross(bomb)
  PROVE  /\ c[1] \in Int /\ c[2] \in Int /\ bomb.cell[1] \in Int /\ bomb.cell[2] \in Int /\ c = <<c[1], c[2]>>
         /\ \/ Direction(bomb, c) = 1 /\ c[1] > bomb.cell[1] /\ c[2] = bomb.cell[2]
            \/ Direction(bomb, c) = 2 /\ c[1] < bomb.cell[1] /\ c[2] = bomb.cell[2]
            \/ Direction(bomb, c) = 3 /\ c[2] > bomb.cell[2] /\ c[1] = bomb.cell[1]
            \/ Direction(bomb, c) = 4 /\ c[2] < bomb.cell[2] /\ c[1] = bomb.cell[1]
  <1> DEFINE x == bomb.cell[1]
             y == bomb.cell[2]
  <1>1. /\ c[1] \in Int /\ c[2] \in Int /\ c = <<c[1], c[2]>> /\ x \in Int /\ y \in Int
        /\ bomb.cell = <<x, y>> /\ c # bomb.cell /\ (c[1] = x \/ c[2] = y)
    BY GridAssumption DEF Cross, Cells
  <1>2. Direction(bomb, c) = CASE c[1] > x -> 1 [] c[1] < x -> 2 [] c[2] > y -> 3 [] c[2] < y -> 4
    BY DEF Direction
  <1> DEFINE d == Direction(bomb, c)
  <1> HIDE DEF x, y, d
  <1>3. c[1] # x \/ c[2] # y
    BY <1>1, Zenon
  <1>4. \/ (c[1] > x /\ c[2] = y) \/ (c[1] < x /\ c[2] = y)
        \/ (c[2] > y /\ c[1] = x) \/ (c[2] < y /\ c[1] = x)
    BY <1>1, <1>3
  <1>5. /\ c[1] > x /\ c[2] = y => d = 1
        /\ c[1] < x /\ c[2] = y => d = 2
        /\ c[2] > y /\ c[1] = x => d = 3
        /\ c[2] < y /\ c[1] = x => d = 4
    BY <1>1, <1>2 DEF d
  <1>. QED BY <1>1, <1>4, <1>5 DEF x, y, d

\* Two cells of a row or of a column are told apart by the sum of their coordinates.
LEMMA SameSum ==
  ASSUME NEW p \in Int, NEW q \in Int, NEW r \in Int, NEW s \in Int, p + q = r + s, p = r \/ q = s
  PROVE  p = r /\ q = s
  OBVIOUS

\* The cells by direction and distance.
OutwardsIn(bomb, S) == {p \in S \X S : Outwards(bomb, p[1], p[2])}

\* Of the cells of a cross one always comes before the other.
LEMMA OutwardsOrders ==
  ASSUME NEW bomb, bomb.cell \in Cells, NEW S \in SUBSET Cross(bomb)
  PROVE  OrdersAll(OutwardsIn(bomb, S), S)
  <1> DEFINE dir(c) == Direction(bomb, c)
             far(c) == IF dir(c) \in {1, 3} THEN c[1] + c[2] ELSE -(c[1] + c[2])
             x == bomb.cell[1]
             y == bomb.cell[2]
  <1>1. ASSUME NEW c \in S
        PROVE  /\ dir(c) \in 1 .. 4 /\ far(c) \in Int /\ c[1] \in Int /\ c[2] \in Int /\ c = <<c[1], c[2]>>
               /\ dir(c) \in {1, 2} => c[2] = y
               /\ dir(c) \in {3, 4} => c[1] = x
    <2>1. c \in Cross(bomb)
      OBVIOUS
    <2>. QED BY <2>1, CrossDirection
  <1>2. ASSUME NEW a \in S, NEW b \in S
        PROVE  <<a, b>> \in OutwardsIn(bomb, S) <=> dir(a) < dir(b) \/ (dir(a) = dir(b) /\ far(a) < far(b))
    <2>1. <<a, b>> \in OutwardsIn(bomb, S) <=> Outwards(bomb, a, b)
      BY DEF OutwardsIn
    <2>2. Outwards(bomb, a, b) <=> \/ dir(a) < dir(b)
                                   \/ dir(a) = dir(b) /\ IF dir(a) \in {1, 3} THEN a[1] + a[2] < b[1] + b[2]
                                                                              ELSE a[1] + a[2] > b[1] + b[2]
      BY DEF Outwards
    <2> DEFINE p == a[1] + a[2]
               q == b[1] + b[2]
    <2>3. p \in Int /\ q \in Int
      BY <1>1
    <2> HIDE DEF dir, p, q
    <2>4. dir(a) = dir(b) => ((IF dir(a) \in {1, 3} THEN p < q ELSE p > q) <=> far(a) < far(b))
      BY <2>3 DEF p, q
    <2>. QED BY <2>1, <2>2, <2>4 DEF p, q
  <1>3. ASSUME NEW a \in S, NEW b \in S, dir(a) = dir(b), far(a) = far(b) PROVE a = b
    <2>1. a[1] + a[2] = b[1] + b[2]
      <3>1. a[1] \in Int /\ a[2] \in Int /\ b[1] \in Int /\ b[2] \in Int
        BY <1>1
      <3> HIDE DEF dir
      <3>. QED BY <1>3, <3>1
    <2>2. a[1] = b[1] /\ a[2] = b[2]
      <3> HIDE DEF dir, far, x, y
      <3>1. a[1] \in Int /\ a[2] \in Int /\ b[1] \in Int /\ b[2] \in Int
        BY <1>1
      <3>2. dir(a) \in {1, 2} \/ dir(a) \in {3, 4}
        <4>1. dir(a) \in 1 .. 4
          BY <1>1
        <4>. QED BY <4>1
      <3>3. dir(a) \in {1, 2} => a[2] = y /\ b[2] = y
        BY <1>1, <1>3
      <3>4. dir(a) \in {3, 4} => a[1] = x /\ b[1] = x
        BY <1>1, <1>3
      <3> DEFINE p == a[1]
                 q == a[2]
                 r == b[1]
                 s == b[2]
      <3>5. p \in Int /\ q \in Int /\ r \in Int /\ s \in Int /\ p + q = r + s /\ (p = r \/ q = s)
        BY <2>1, <3>1, <3>2, <3>3, <3>4, Zenon
      <3> HIDE DEF p, q, r, s
      <3>6. p = r /\ q = s
        BY ONLY <3>5, SameSum
      <3>. QED BY <3>6, Zenon DEF p, q, r, s
    <2>3. a = <<a[1], a[2]>> /\ b = <<b[1], b[2]>>
      BY <1>1
    <2>. QED BY <2>2, <2>3, Zenon
  <1>4. \A c \in S : dir(c) \in Int /\ far(c) \in Int
    BY <1>1
  <1> HIDE DEF dir, far
  <1>. QED BY <1>2, <1>3, <1>4 DEF OrdersAll

\* There are fewer of them than a packet has room for.
LEMMA CrossFits ==
  ASSUME NEW bomb, bomb.cell \in Cells
  PROVE  IsFiniteSet(Cross(bomb)) /\ Cardinality(Cross(bomb)) \in Nat /\ Cardinality(Cross(bomb)) <= Trip!MaxBricks
  <1> DEFINE x == bomb.cell[1]
             y == bomb.cell[2]
             row == {c \in Cross(bomb) : c[2] = y}
             column == {c \in Cross(bomb) : c[1] = x}
  <1>1. ASSUME NEW n \in Nat, NEW z \in 0 .. n - 1
        PROVE  IsFiniteSet(0 .. n - 1 \ {z}) /\ Cardinality(0 .. n - 1 \ {z}) = n - 1
    <2> DEFINE k == n - 1
    <2>1. k \in Int /\ (IF 0 > k THEN 0 ELSE k - 0 + 1) = n
      OBVIOUS
    <2> HIDE DEF k
    <2>2. IsFiniteSet(0 .. k) /\ Cardinality(0 .. k) = (IF 0 > k THEN 0 ELSE k - 0 + 1)
      BY <2>1, FS_Interval
    <2>3. IsFiniteSet(0 .. k) /\ Cardinality(0 .. k) = n
      BY <2>1, <2>2
    <2>4. IsFiniteSet(0 .. k \ {z}) /\ Cardinality(0 .. k \ {z}) = n - 1
      BY <2>3, FS_RemoveElement DEF k
    <2>. QED BY <2>4 DEF k
  <1>2. x \in 0 .. Width - 1 /\ y \in 0 .. Height - 1 /\ Width \in Nat /\ Height \in Nat
    BY GridAssumption DEF Cells
  <1>3. ASSUME NEW c \in Cross(bomb)
        PROVE  c[1] \in 0 .. Width - 1 /\ c[2] \in 0 .. Height - 1 /\ c = <<c[1], c[2]>> /\ c # <<x, y>>
    <2>1. bomb.cell = <<x, y>>
      BY DEF Cells
    <2>. QED BY <2>1 DEF Cross, Cells
  <1> HIDE DEF x, y
  <1>4. IsFiniteSet(row) /\ Cardinality(row) <= Width - 1
    <2> DEFINE f == [c \in row |-> c[1]]
    <2>1. \A c \in row : c[1] \in 0 .. Width - 1 \ {x}
      BY <1>3
    <2>2. \A a, b \in row : a[1] = b[1] => a = b
      BY <1>3
    <2>3. f \in Injection(row, 0 .. Width - 1 \ {x})
      BY <2>1, <2>2 DEF Injection, IsInjective
    <2> HIDE DEF row
    <2>4. IsFiniteSet(row) /\ Cardinality(row) <= Cardinality(0 .. Width - 1 \ {x})
      BY <1>1, <1>2, <2>3, FS_Injection
    <2>. QED BY <1>1, <1>2, <2>4
  <1>5. IsFiniteSet(column) /\ Cardinality(column) <= Height - 1
    <2> DEFINE f == [c \in column |-> c[2]]
    <2>1. \A c \in column : c[2] \in 0 .. Height - 1 \ {y}
      BY <1>3
    <2>2. \A a, b \in column : a[2] = b[2] => a = b
      BY <1>3
    <2>3. f \in Injection(column, 0 .. Height - 1 \ {y})
      BY <2>1, <2>2 DEF Injection, IsInjective
    <2> HIDE DEF column
    <2>4. IsFiniteSet(column) /\ Cardinality(column) <= Cardinality(0 .. Height - 1 \ {y})
      BY <1>1, <1>2, <2>3, FS_Injection
    <2>. QED BY <1>1, <1>2, <2>4
  <1>6. Cross(bomb) = row \cup column
    BY DEF Cross, x, y
  <1> HIDE DEF row, column
  <1>7. /\ IsFiniteSet(row \cup column) /\ IsFiniteSet(row \cap column)
        /\ Cardinality(row \cup column) = Cardinality(row) + Cardinality(column) - Cardinality(row \cap column)
    BY <1>4, <1>5, FS_Union, FS_Intersection
  <1>8. /\ Cardinality(row) \in Nat /\ Cardinality(column) \in Nat /\ Cardinality(row \cap column) \in Nat
        /\ Cardinality(row \cup column) \in Nat
    BY <1>4, <1>5, <1>7, FS_CardinalityType
  <1>9. Cardinality(row \cup column) <= (Width - 1) + (Height - 1)
    BY <1>2, <1>4, <1>5, <1>7, <1>8
  <1>10. (Width - 1) + (Height - 1) <= Trip!MaxBricks /\ Trip!MaxBricks \in Int
    BY Facts DEF Trip!MaxBricks, Trip!MaxBlast
  <1>. QED BY <1>2, <1>6, <1>7, <1>8, <1>9, <1>10

\* What a blast's cells are collected to: each of them once, the bomb's own first.
LEMMA CollectedIs ==
  ASSUME NEW bomb, bomb.cell \in Cells, NEW cells \in SUBSET (Cross(bomb) \cup {bomb.cell})
  PROVE  /\ Collected(bomb, cells) \in Seq(Cells) /\ Len(Collected(bomb, cells)) = Cardinality(cells)
         /\ IsFiniteSet(cells)
         /\ \A i \in 1 .. Len(Collected(bomb, cells)) : Collected(bomb, cells)[i] \in cells
         /\ \A c \in cells : \E i \in 1 .. Len(Collected(bomb, cells)) : Collected(bomb, cells)[i] = c
         /\ bomb.cell \in cells => Collected(bomb, cells)[1] = bomb.cell
  <1> DEFINE S == cells \ {bomb.cell}
             R == OutwardsIn(bomb, S)
             n == Cardinality(S)
             e(i) == CHOOSE x \in S : Cardinality({y \in S : Outwards(bomb, y, x)}) = i - 1
             list == [i \in 1 .. n |-> e(i)]
             head == IF bomb.cell \in cells THEN <<bomb.cell>> ELSE <<>>
             all == Collected(bomb, cells)
  <1>1. S \in SUBSET Cross(bomb) /\ Cross(bomb) \subseteq Cells /\ bomb.cell \notin Cross(bomb)
    BY DEF Cross
  <1>2. IsFiniteSet(S) /\ n \in Nat
    BY <1>1, CrossFits, FS_Subset, FS_CardinalityType
  <1>3. OrdersAll(R, S)
    BY <1>1, OutwardsOrders
  <1>4. \A x \in S : {y \in S : Outwards(bomb, y, x)} = Earlier(S, R, x)
    BY DEF Earlier, OutwardsIn
  <1>5. all = head \o list
    BY Zenon DEF Collected, Sorted
  <1> HIDE DEF R, S, all
  <1>6. ASSUME NEW i \in 1 .. n, NEW z \in S, Cardinality(Earlier(S, R, z)) = i - 1
        PROVE  list[i] \in S /\ Cardinality(Earlier(S, R, list[i])) = i - 1
    <2>1. list[i] = e(i)
      OBVIOUS
    <2>2. Cardinality({y \in S : Outwards(bomb, y, z)}) = i - 1
      BY <1>4, <1>6, Zenon
    <2>3. e(i) \in S /\ Cardinality({y \in S : Outwards(bomb, y, e(i))}) = i - 1
      BY <2>2, Zenon
    <2>. QED BY <1>4, <2>1, <2>3, Zenon
  <1>7. list = [i \in 1 .. n |-> list[i]]
    <2> HIDE DEF e
    <2>. QED OBVIOUS
  <1> HIDE DEF list
  <1>8. ListsAll(list, S, R)
    BY <1>2, <1>3, <1>6, <1>7, RankedLists
  <1>9. /\ list \in Seq(S) /\ Len(list) = n /\ DOMAIN list = 1 .. n
        /\ \A i \in 1 .. n : list[i] \in S
        /\ \A x \in S : \E i \in 1 .. n : list[i] = x
    BY <1>8 DEF ListsAll
  <1>10. CASE bomb.cell \notin cells
    <2>1. S = cells
      BY <1>10 DEF S
    <2>2. all = list
      BY <1>5, <1>9, <1>10
    <2>3. list \in Seq(Cells)
      BY <1>1, <1>9, <2>1
    <2>. QED BY <1>2, <1>9, <1>10, <2>1, <2>2, <2>3 DEF all
  <1>11. CASE bomb.cell \in cells
    <2>1. cells = S \cup {bomb.cell} /\ bomb.cell \notin S
      BY <1>11 DEF S
    <2>2. IsFiniteSet(cells) /\ Cardinality(cells) = n + 1
      BY <1>2, <2>1, FS_AddElement
    <2>3. all = <<bomb.cell>> \o list
      BY <1>5, <1>11
    <2>4. list \in Seq(Cells)
      BY <1>1, <1>9
    <2>5. all \in Seq(Cells) /\ Len(all) = n + 1 /\ all[1] = bomb.cell
          /\ \A i \in 1 .. n : all[i + 1] = list[i]
      BY <1>2, <1>9, <2>3, <2>4
    <2>6. ASSUME NEW i \in 1 .. n + 1 PROVE all[i] \in cells
      <3>1. CASE i = 1
        BY <2>1, <2>5, <3>1
      <3>2. CASE i # 1
        <4>1. i - 1 \in 1 .. n /\ (i - 1) + 1 = i
          BY <1>2, <3>2
        <4>2. all[i] = list[i - 1]
          BY <2>5, <4>1, Zenon
        <4>. QED BY <1>9, <2>1, <4>1, <4>2
      <3>. QED BY <3>1, <3>2
    <2>7. ASSUME NEW c \in cells PROVE \E i \in 1 .. n + 1 : all[i] = c
      <3>1. CASE c = bomb.cell
        <4>1. 1 \in 1 .. n + 1
          BY <1>2
        <4>. QED BY <2>5, <3>1, <4>1
      <3>2. CASE c \in S
        <4>1. PICK i \in 1 .. n : list[i] = c
          BY <1>9, <3>2
        <4>2. i + 1 \in 1 .. n + 1 /\ all[i + 1] = c
          BY <1>2, <2>5, <4>1
        <4>. QED BY <4>2
      <3>. QED BY <2>1, <3>1, <3>2
    <2>. QED BY <2>2, <2>5, <2>6, <2>7 DEF all
  <1>. QED BY <1>10, <1>11

\* The cells of a blast are the bomb's own and others of its row and column.
LEMMA BlastOnCross ==
  ASSUME Typed, NEW b \in bombs
  PROVE  /\ b.cell \in Cells /\ b.cell \in Explosion(b).blast
         /\ Explosion(b).blast \subseteq Cross(b) \cup {b.cell}
  <1> DEFINE r == b.radius
             way(d, s) == LET c == Beside(b.cell, d, s) IN c \in Cells /\ preExplosionTiles[c] # "Stone"
             ways == {Beside(b.cell, x[1], x[2]) : x \in
                        {x \in FourWays \X (1 .. r) :
                           /\ way(x[1], x[2])
                           /\ \A s \in 1 .. x[2] - 1 : LET c == Beside(b.cell, x[1], s)
                                                       IN  c \in Cells /\ preExplosionTiles[c] \notin Solid}}
  <1>1. b.cell \in Cells /\ r \in Nat
    BY DEF Typed, TypeOK, Bombs
  <1>2. Explosion(b).blast = {b.cell} \cup ways
    BY DEF Explosion, BlastCells
  <1>3. ASSUME NEW c \in ways PROVE c \in Cells /\ \E d \in FourWays, s \in 1 .. r : c = Beside(b.cell, d, s)
    <2>1. PICK x \in FourWays \X (1 .. r) : c = Beside(b.cell, x[1], x[2]) /\ way(x[1], x[2])
      BY <1>3
    <2>2. x[1] \in FourWays /\ x[2] \in 1 .. r
      BY <2>1
    <2>. QED BY <2>1, <2>2, Zenon
  <1> HIDE DEF ways, r
  <1>4. ASSUME NEW c \in ways PROVE c \in Cross(b)
    <2>1. c \in Cells /\ c # b.cell /\ (c[1] = b.cell[1] \/ c[2] = b.cell[2])
      BY <1>1, <1>3, CrossIsWays
    <2>. QED BY <2>1, Zenon DEF Cross
  <1>. QED BY <1>1, <1>2, <1>4

\* A list of as many cells as it has different ones has none twice.
LEMMA ListedOnce ==
  ASSUME NEW list, NEW cells, list \in Seq(Cells), Len(list) = Cardinality(cells),
         \A i \in 1 .. Len(list) : list[i] \in cells,
         \A c \in cells : \E i \in 1 .. Len(list) : list[i] = c
  PROVE  Trip!Distinct(list)
  <1>1. DOMAIN list = 1 .. Len(list)
    OBVIOUS
  <1>2. Trip!ToSet(list) = cells
    BY <1>1 DEF Trip!ToSet
  <1>. QED BY <1>2, Zenon DEF Trip!Distinct, Trip!Cardinality, Cardinality

\* An explosion can be told of, whatever is left of its bricks.
LEMMA ExplosionArrives ==
  ASSUME MessageInv, NEW b \in bombs
  PROVE  Arrives(BuildExplosion(b))
  <1> DEFINE blast == Explosion(b).blast
             bricks == Explosion(b).bricks
             hit == Collected(b, blast)
             gone == Collected(b, bricks)
             killed == MaskOf(Killed(blast))
             m == [type |-> "ExplosionResolved", matchId |-> 1, tick |-> 1, owner |-> b.owner,
                   origin |-> b.cell, radius |-> b.radius, killed |-> killed,
                   blast |-> hit, bricks |-> gone]
  <1>1. Typed /\ BoardShape /\ InReach
    BY DEF MessageInv, BombInv
  <1>2. BuildExplosion(b) = m
    BY Zenon DEF BuildExplosion
  <1>3. b.cell \in Cells /\ b.cell \in blast /\ blast \subseteq Cross(b) \cup {b.cell}
    BY <1>1, BlastOnCross, Zenon
  <1>4. bricks \subseteq blast /\ bricks \subseteq Cross(b)
    <2>1. bricks \subseteq blast /\ \A c \in bricks : tiles[c] = "Brick"
      BY DEF Explosion
    <2>2. tiles[b.cell] \notin Solid
      BY <1>1 DEF BoardShape
    <2>3. b.cell \notin bricks
      BY <2>1, <2>2 DEF Solid
    <2>. QED BY <1>3, <2>1, <2>3, Zenon
  <1>5. b.owner \in Trip!PlayerIds /\ b.cell \in Trip!BoardCells /\ b.radius \in Trip!Byte \ {0}
    <2>1. b.owner \in PlayerIds /\ b.cell \in Cells /\ b.radius \in Reaches
      BY <1>1 DEF InReach, Typed, TypeOK, Bombs
    <2>. QED BY <2>1, SameBoard, ReachesFit
  <1>6. killed \in Trip!Byte /\ killed < 2 ^ Cardinality(PlayerIds)
    <2>1. killed \in 0 .. 2 ^ Seats - 1
      BY MaskFits, Zenon
    <2>. QED BY <2>1, Facts DEF Trip!Byte, Seats
  <1> HIDE DEF blast, bricks, killed
  <1>7. /\ hit \in Seq(Cells) /\ Len(hit) = Cardinality(blast) /\ IsFiniteSet(blast)
        /\ \A i \in 1 .. Len(hit) : hit[i] \in blast
        /\ \A c \in blast : \E i \in 1 .. Len(hit) : hit[i] = c
        /\ hit[1] = b.cell
    BY <1>3, CollectedIs, Zenon
  <1>8. /\ gone \in Seq(Cells) /\ Len(gone) = Cardinality(bricks) /\ IsFiniteSet(bricks)
        /\ \A i \in 1 .. Len(gone) : gone[i] \in bricks
        /\ \A c \in bricks : \E i \in 1 .. Len(gone) : gone[i] = c
    <2>1. bricks \in SUBSET (Cross(b) \cup {b.cell})
      BY <1>4
    <2>. QED BY <1>3, <2>1, CollectedIs, Zenon
  <1> HIDE DEF hit, gone
  <1>9. Trip!Distinct(hit) /\ Trip!Distinct(gone)
    BY <1>7, <1>8, ListedOnce, Zenon
  <1>10. Len(hit) \in 1 .. Trip!MaxBlast /\ Len(gone) <= Trip!MaxBricks /\ Len(gone) <= Len(hit)
    <2>1. /\ IsFiniteSet(Cross(b)) /\ Cardinality(Cross(b)) \in Nat
          /\ Cardinality(Cross(b)) <= Trip!MaxBricks
      BY <1>3, CrossFits
    <2>2. Cardinality(bricks) <= Cardinality(Cross(b)) /\ Cardinality(bricks) <= Cardinality(blast)
      BY <1>4, <1>7, <2>1, FS_Subset
    <2>3. IsFiniteSet(Cross(b) \cup {b.cell}) /\ Cardinality(Cross(b) \cup {b.cell}) <= Cardinality(Cross(b)) + 1
          /\ Cardinality(Cross(b) \cup {b.cell}) \in Nat
      <3>1. b.cell \notin Cross(b)
        BY DEF Cross
      <3>2. IsFiniteSet(Cross(b) \cup {b.cell}) /\ Cardinality(Cross(b) \cup {b.cell}) = Cardinality(Cross(b)) + 1
        BY <2>1, <3>1, FS_AddElement
      <3>. QED BY <2>1, <3>2
    <2>4. Cardinality(blast) <= Cardinality(Cross(b) \cup {b.cell})
      BY <1>3, <2>3, FS_Subset
    <2>5. Cardinality(blast) \in Nat /\ Cardinality(blast) # 0 /\ Cardinality(bricks) \in Nat
      BY <1>3, <1>7, <1>8, FS_CardinalityType, FS_EmptySet
    <2>6. Trip!MaxBricks \in Int /\ Trip!MaxBlast \in Int /\ Trip!MaxBricks = Trip!MaxBlast - 1
      BY Facts DEF Trip!MaxBricks, Trip!MaxBlast
    <2>. QED BY <1>7, <1>8, <2>1, <2>2, <2>3, <2>4, <2>5, <2>6
  <1>11. \A i \in DOMAIN gone : \E j \in DOMAIN hit : gone[i] = hit[j]
    <2>1. DOMAIN gone = 1 .. Len(gone) /\ DOMAIN hit = 1 .. Len(hit)
      BY <1>7, <1>8
    <2>. QED BY <1>4, <1>7, <1>8, <2>1, Zenon
  <1>12. hit \in Seq(Trip!BoardCells) /\ gone \in Seq(Trip!BoardCells)
    BY <1>7, <1>8, SameBoard
  <1>13. 1 \in Trip!Long
    BY Facts DEF Trip!Long
  <1>14. m \in Trip!ExplosionMsgs
    <2>1. m \in [type : {"ExplosionResolved"}, matchId : Trip!Long, tick : Trip!Long, owner : Trip!PlayerIds,
                 origin : Trip!BoardCells, radius : Trip!Byte \ {0}, killed : Trip!Byte,
                 blast : Seq(Trip!BoardCells), bricks : Seq(Trip!BoardCells)]
      BY <1>5, <1>6, <1>12, <1>13
    <2>2. m.blast = hit /\ m.bricks = gone /\ m.killed = killed /\ m.origin = b.cell
      OBVIOUS
    <2> HIDE DEF m
    <2>3. /\ Len(m.blast) \in 1 .. Trip!MaxBlast /\ Len(m.bricks) <= Trip!MaxBricks
          /\ Len(m.bricks) <= Len(m.blast) /\ m.killed < 2 ^ Cardinality(PlayerIds)
      BY <1>6, <1>10, <2>2, Zenon
    <2>4. Trip!Distinct(m.blast) /\ Trip!Distinct(m.bricks) /\ m.blast[1] = m.origin
      BY <1>7, <1>9, <2>2, Zenon
    <2>5. \A i \in DOMAIN m.bricks : \E j \in DOMAIN m.blast : m.bricks[i] = m.blast[j]
      BY <1>11, <2>2, Zenon
    <2>. QED BY <2>1, <2>3, <2>4, <2>5, Zenon DEF Trip!ExplosionMsgs
  <1>15. m \in Trip!Sendable /\ m.type \in Told
    BY <1>14 DEF Trip!Sendable, Told
  <1> HIDE DEF m
  <1>. QED BY <1>2, <1>15, Arrival

\* Every message that a round sends can be sent and arrives as it was built.
THEOREM MessagesCorrect == Spec => []MessagesArrive
  <1>1. ASSUME MessageInv PROVE MessagesArrive
    <2>1. due \subseteq bombs
      BY <1>1 DEF MessageInv, BombInv, Typed, StageShape, TypeOK
    <2>. QED BY <1>1, <2>1, SnapshotArrives, BombPlacedArrives, ExplosionArrives, Zenon DEF MessagesArrive
  <1>. QED BY <1>1, MessageInvHolds, PTL
=============================================================================
