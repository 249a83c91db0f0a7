------------------------------ MODULE ArenaWire ------------------------------
(***************************************************************************)
(* What the arena puts into its packets (ServerSnapshot.cpp,               *)
(* ServerBombs.cpp) and whether a client accepts them: Arena composed with *)
(* Wire.                                                                   *)
(*                                                                         *)
(* Arena's ticks are relative, so every message is of tick 1.              *)
(***************************************************************************)
EXTENDS Arena

CONSTANT Modulus

Packets == INSTANCE Wire WITH
  MaxPlayers <- Cardinality(PlayerIds), MaxBombs <- MaxSnapshotBombs,
  MaxPowerups <- Len(Placements), MaxBatch <- 1, NameMax <- 2,
  PowerupTypes <- Cardinality(Effects)

\* The ids of NetCommon.h, and that the arena's numbers fit the fields of its messages.
ASSUME PacketsAssumption ==
  /\ PlayerIds = 0 .. Cardinality(PlayerIds) - 1 /\ Cardinality(PlayerIds) \in 1 .. 255
  /\ Width >= 3 /\ Height >= 3
  /\ Modulus \in [{1, 2, 4} -> Nat]
  /\ 255 < Modulus[1] /\ Modulus[1] <= Modulus[2] /\ Modulus[2] <= Modulus[4]
  /\ Packets!MaxBlast < Modulus[1] /\ MaxSnapshotBombs < Modulus[1] /\ Len(Placements) < Modulus[1]
  /\ DefaultRange > 0 /\ DefaultRange + RangeBoost < Modulus[1] /\ FuseTicks + 1 < Modulus[4]
  /\ 2 * (Width + 1) * TileQ < Modulus[2] /\ 2 * (Height + 1) * TileQ < Modulus[2]
  /\ 2 ^ Cardinality(PlayerIds) <= Modulus[1]
\* Arithmetic.
ASSUME PowersAssumption ==
  2 ^ 0 = 1 /\ \A n \in PlayerIds : 2 ^ n \in Nat \ {0} /\ 2 ^ (n + 1) = 2 * 2 ^ n

\* What std::sort makes of a set whose elements come one before the other: the
\* i-th is the one with i - 1 others before it.
Sorted(S, Before(_, _)) ==
  [i \in 1 .. Cardinality(S) |-> CHOOSE x \in S : Cardinality({y \in S : Before(y, x)}) = i - 1]

\* Mutant: columns before rows.
ColumnMajor(a, b) == IF a[1] # b[1] THEN a[1] < b[1] ELSE a[2] < b[2]

\* The order of both std::sort calls.
RowMajor(a, b) == IF a[2] # b[2] THEN a[2] < b[2] ELSE a[1] < b[1]

\* MsgSnapshot::PlayerEntry::EPlayerFlags
FlagBit == [SpeedBoost |-> 32, Invincibility |-> 2, BombRangeBoost |-> 8, MaxBombsBoost |-> 16]
EffectFlag(p, e) == IF Active(p, e) THEN FlagBit[e] ELSE 0
ReplicatedPlayerFlags(p) ==
  (IF p \in alive THEN 1 ELSE 0) + (IF p \in locked THEN 4 ELSE 0)
    + EffectFlag(p, "SpeedBoost") + EffectFlag(p, "Invincibility")
    + EffectFlag(p, "BombRangeBoost") + EffectFlag(p, "MaxBombsBoost")

PowerupCode == [SpeedBoost |-> 0, Invincibility |-> 1, BombRangeBoost |-> 2, MaxBombsBoost |-> 3]

BuildSnapshot ==
  LET ids   == Sorted(inMatch, <)
      laid  == Sorted(bombs, LAMBDA a, b : RowMajor(a.cell, b.cell))
      shown == Sorted({i \in PowerupSlots : powerups[i].revealed \in {"now", "before"}},
                      LAMBDA i, j : RowMajor(powerups[i].cell, powerups[j].cell))
      room  == IF Len(laid) < MaxSnapshotBombs THEN Len(laid) ELSE MaxSnapshotBombs
  IN
  [type |-> "Snapshot", matchId |-> 1, tick |-> 1,
   players |-> [i \in DOMAIN ids |-> [id |-> ids[i], x |-> pos[ids[i]].x, y |-> pos[ids[i]].y,
                                      flags |-> ReplicatedPlayerFlags(ids[i])]],
   bombs |-> [i \in 1 .. room |-> Shown(laid[i])],
   powerups |-> [i \in DOMAIN shown |-> [kind |-> PowerupCode[Placements[shown[i]]],
                                         cell |-> powerups[shown[i]].cell]]]

BuildBombPlaced(bomb) ==
  [type |-> "BombPlaced", matchId |-> 1, tick |-> 1, explode |-> 1 + bomb.fuse,
   owner |-> bomb.owner, cell |-> bomb.cell, radius |-> bomb.radius]

\* Right, left, down, up and outwards in each.
Direction(bomb, c) ==
  CASE c[1] > bomb.cell[1] -> 1 [] c[1] < bomb.cell[1] -> 2
    [] c[2] > bomb.cell[2] -> 3 [] c[2] < bomb.cell[2] -> 4
Outwards(bomb, a, b) ==
  \/ Direction(bomb, a) < Direction(bomb, b)
  \/ Direction(bomb, a) = Direction(bomb, b) /\ IF Direction(bomb, a) \in {1, 3}
                                                THEN a[1] + a[2] < b[1] + b[2]
                                                ELSE a[1] + a[2] > b[1] + b[2]

\* The cells of a blast as they are collected, the bomb's own first.
Collected(bomb, cells) ==
  (IF bomb.cell \in cells THEN <<bomb.cell>> ELSE <<>>)
    \o Sorted(cells \ {bomb.cell}, LAMBDA a, b : Outwards(bomb, a, b))

\* The mask of a set of players, one bit for each.
MaskOf(ids) ==
  LET mask[n \in 0 .. Cardinality(PlayerIds)] ==
        IF n = 0 THEN 0 ELSE mask[n - 1] + (IF n - 1 \in ids THEN 2 ^ (n - 1) ELSE 0)
  IN  mask[Cardinality(PlayerIds)]

BuildExplosion(bomb) ==
  LET explosion == Explosion(bomb) IN
  [type |-> "ExplosionResolved", matchId |-> 1, tick |-> 1, owner |-> bomb.owner,
   origin |-> bomb.cell, radius |-> bomb.radius,
   killed |-> MaskOf(Killed(explosion.blast)),
   blast |-> Collected(bomb, explosion.blast), bricks |-> Collected(bomb, explosion.bricks)]

-----------------------------------------------------------------------------
Arrives(m) == Packets!Received(Packets!Packet(m), Packets!ClientHandles) = m

(***************************************************************************)
(* What a round tells the clients reaches them as it was built.  However   *)
(* many bombs and powerups there are and whoever placed them, the order    *)
(* and values that deserializeMsgSnapshot insists on, no two bombs of one  *)
(* cell among them, are those that buildSnapshot writes.  So it is with    *)
(* every BombPlaced, whose owner may die at once, and every                *)
(* ExplosionResolved, also of a blast that an earlier one of its tick has  *)
(* robbed of its bricks.  (tryPlaceBomb, resolveBombExplosion.)            *)
(***************************************************************************)
MessagesArrive ==
  /\ stage = "idle" /\ phase # "Lobby" => Arrives(BuildSnapshot)
  /\ \A b \in bombs : b.fuse = FuseTicks => Arrives(BuildBombPlaced(b))
  /\ \A b \in due : (\A other \in due : ExplodesBefore(b, other)) => Arrives(BuildExplosion(b))
=============================================================================
